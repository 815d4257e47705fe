------------------------------ MODULE MCSourceDiscovery ------------------------------
(* Small projects: a Python and a Verilog one, with every subset of their files. *)
EXTENDS SourceDiscovery

P(dir, stem, ext) == [dir |-> dir, stem |-> stem, ext |-> ext]
Text == [link |-> "none", size |-> 1, packed |-> 1, garbled |-> FALSE, imports |-> {}, includes |-> {},
         macro |-> FALSE, readmem |-> {}, instances |-> {}, defines |-> <<>>]
Import(level, parts, names) == [level |-> level, parts |-> parts, names |-> names]
MCmanifest(entry, verilog) == 1 + Cardinality(verilog)
MCcasefold(n) == IF n = "UTIL" THEN "util" ELSE IF n = "BODY" THEN "body" ELSE n

PyFiles ==
    P(<<>>, "top", ".py") :>
        [Text EXCEPT !.imports = {Import(0, <<"pkg", "core">>, {})}] @@
    P(<<"pkg">>, "__init__", ".py") :> Text @@
    P(<<"pkg">>, "core", ".py") :>
        [Text EXCEPT !.imports = {Import(1, <<"util">>, {})}] @@
    P(<<"pkg">>, "util", ".py") :>
        [Text EXCEPT !.imports = {Import(0, <<"top">>, {})}, !.packed = 3] @@
    P(<<"pkg", "core">>, "__init__", ".py") :>
        [Text EXCEPT !.imports = {Import(2, <<>>, {"util"})}] @@
    P(<<"pkg">>, "UTIL", ".py") :> Text @@
    P(<<>>, "pkg", ".py") :> [Text EXCEPT !.link = "file"]

VFiles ==
    P(<<>>, "top", ".v") :>
        [Text EXCEPT !.instances = {"alu"}, !.includes = {P(<<>>, "body", ".v")},
                     !.readmem = {P(<<>>, "rom", ".hex")}] @@
    P(<<"rtl">>, "alu", ".v") :>
        [Text EXCEPT !.defines = <<"alu">>, !.includes = {P(<<"..", "inc">>, "k", ".vh")},
                     !.instances = {"top", "add"}] @@
    P(<<"inc">>, "body", ".v") :> [Text EXCEPT !.defines = <<"add">>] @@
    P(<<"build">>, "body", ".v") :> [Text EXCEPT !.defines = <<"alu">>] @@
    P(<<"lib">>, "body", ".v") :> [Text EXCEPT !.includes = {P(<<>>, "k", ".vh")}] @@
    P(<<"inc">>, "k", ".vh") :> Text @@
    P(<<>>, "rom", ".hex") :> [Text EXCEPT !.size = 2]

Sub(f, entry, needed) ==
    {[x \in S \cup needed |-> f[x]] : S \in SUBSET (DOMAIN f)}
Of(trees, entry, mode, sources) ==
    {[tree |-> t, entry |-> entry, mode |-> mode, sources |-> sources] : t \in trees}

PyTop == P(<<>>, "top", ".py")
VTop == P(<<>>, "top", ".v")
Bad == [Text EXCEPT !.garbled = TRUE]
Outside == P(<<"..", "src">>, "body", ".v")
MCProjects ==
    LET py == Sub(PyFiles, PyTop, {PyTop})
        v == Sub(VFiles, VTop, {VTop, P(<<>>, "rom", ".hex")})
        macro == {[t EXCEPT ![VTop].macro = TRUE] : t \in Sub(VFiles, VTop, {VTop})}
    IN Of(py, PyTop, "auto", <<>>) \cup Of(v, VTop, "auto", <<>>)
         \cup Of(py, PyTop, "dir", <<>>) \cup Of(v, VTop, "dir", <<>>)
         \cup Of({VFiles @@ (Outside :> Text)}, Outside, "dir", <<>>)
         \cup Of({[x \in {P(<<"BODY">>, "k", ".vh"), VTop} |-> Text]}, VTop, "sources",
                 <<P(<<"BODY">>, "k", ".vh")>>)
         \cup Of(v, VTop, "sources", <<P(<<"inc">>, "body", ".v"), P(<<>>, "rom", ".hex")>>)
         \cup Of({VFiles}, VTop, "sources", <<VTop>>)
         \cup Of({PyTop :> [Text EXCEPT !.imports = {Import(1, <<>>, {"x"})}]}, PyTop,
                 "auto", <<>>)
         \cup Of({CHOOSE m \in macro : TRUE}, VTop, "auto", <<>>)
         \cup Of({VTop :> [Text EXCEPT !.instances = {"fifo"}] @@
                  P(<<>>, "fifo", ".v") :> [Text EXCEPT !.defines = <<"fifo", "fifo">>],
                  VTop :> [Text EXCEPT !.size = MAX_BYTES],
                  VTop :> Bad, VTop :> Text @@ P(<<>>, "old", ".v") :> Bad},
                 VTop, "auto", <<>>)
         \cup Of({VTop :> Text @@ P(<<>>, "old", ".v") :> Bad,
                  [p \in {VTop} \cup {P(<<>>, n, ".v") : n \in {"a", "b", "c"}} |-> Text]},
                 VTop, "dir", <<>>)
         \cup Of({PyTop :> Bad}, PyTop, "auto", <<>>)
======================================================================================
