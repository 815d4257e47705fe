---------------------------- MODULE MCCloudJobs ----------------------------
(***************************************************************************)
(* A call of a script, a build, and two resets of an earlier day, so that  *)
(* a listing has older jobs and jobs of other types to hide.  Two rounds   *)
(* of _poll_run stand for its 120: one finds the job unfinished, the next  *)
(* is the last.                                                            *)
(***************************************************************************)
EXTENDS CloudJobs

CONSTANTS r1, r2
MCEarlier == <<r2, r1>>
=============================================================================
