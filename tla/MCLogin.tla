------------------------------ MODULE MCLogin ------------------------------
(* Two logins, a logout and a reader over two orchestrators.               *)
EXTENDS Login
=============================================================================
