------------------------------- MODULE Login -------------------------------
(***************************************************************************)
(* mrg login, mrg logout and the commands that use a stored key, run as    *)
(* processes that share one credentials file and nothing else.  A login    *)
(* asks GitHub for a device code and polls until the user decides, has the *)
(* orchestrator mint a key for the token, and saves it; a logout revokes   *)
(* the key it found and deletes what is stored.  Each rewrites the whole   *)
(* file: read, truncate, write, with no lock, so that a reader or a crash  *)
(* in between meets an empty file, and two writers each other.             *)
(*                                                                         *)
(* mrg run is apart from the other commands: its App looks a key up when   *)
(* the file that defines it is imported, and --api-url comes later.        *)
(*                                                                         *)
(* GitHub and the orchestrator are external.  A login mints at most one    *)
(* key, so the key bears its name.  A key given by --api-key or by         *)
(* $MRG_API_KEY is the user's own choice and not modelled.                 *)
(***************************************************************************)
EXTENDS Naturals, FiniteSets

CONSTANTS Logins, Logouts, Uses,   \* the processes, by command
          Urls,                    \* the orchestrators
          MaxSlow,                 \* bound: slow_down answers per login
          MaxCrashes,              \* bound: processes killed
          None

Procs == Logins \cup Logouts \cup Uses
Writers == Logins \cup Logouts

ASSUME LoginAssumption ==
  /\ MaxSlow \in Nat /\ MaxCrashes \in Nat
  /\ None \notin Procs \cup Urls
  /\ Logins \cap Logouts = {} /\ Logins \cap Uses = {} /\ Logouts \cap Uses = {}

VARIABLES
  pc, url,          \* where a process is, and the orchestrator it was given
  held,             \* the key it minted, is revoking, or uses
  home,             \* the orchestrator an App was written for, under mrg run
  data,             \* the contents a writer is about to write
  code,             \* GitHub: what became of a login's device code
  interval,         \* the seconds a login sleeps between polls, in fives
  live,             \* the keys each orchestrator accepts
  file, text,       \* the credentials, and whether the file holds them whole
  crashes,
  owned, apart, let \* history: what the last commands should have left in the
                    \* file, whether no two rewrites met nor one was killed,
                    \* and the keys knowingly left alive

github == <<code, interval>>
disk == <<file, text>>
history == <<owned, apart, let>>
vars == <<pc, url, held, home, data, github, live, disk, crashes, history>>

Nothing == [u \in Urls |-> None]
Keys == Logins \cup {None}

TypeOK ==
  /\ pc \in [Procs -> {"idle", "code", "poll", "exchange", "revoke", "load",
                       "open", "write", "app", "ok", "failed", "killed"}]
  /\ url \in [Procs -> Urls \cup {None}]
  /\ held \in [Procs -> Keys] /\ home \in [Uses -> Urls \cup {None}]
  /\ data \in [Writers -> [Urls -> Keys]]
  /\ code \in [Logins -> {"none", "pending", "token", "denied", "expired"}]
  /\ interval \in [Logins -> 1..1 + MaxSlow]
  /\ live \in [Urls -> SUBSET Logins]
  /\ file \in [Urls -> Keys] /\ text \in {"whole", "empty", "garbled"}
  /\ crashes \in 0..MaxCrashes
  /\ owned \in [Urls -> Keys] /\ apart \in BOOLEAN /\ let \subseteq Logins

Init ==
  /\ pc = [p \in Procs |-> "idle"] /\ url = [p \in Procs |-> None]
  /\ held = [p \in Procs |-> None] /\ home = [p \in Uses |-> None]
  /\ data = [p \in Writers |-> Nothing]
  /\ code = [p \in Logins |-> "none"]
  /\ interval = [p \in Logins |-> 1]
  /\ live = [u \in Urls |-> {}]
  /\ file = Nothing /\ text = "whole"
  /\ crashes = 0
  /\ owned = Nothing /\ apart = TRUE /\ let = {}

Go(p, l) == pc' = [pc EXCEPT ![p] = l]

\* What a reader finds: an absent, empty or garbled file counts as no logins.
load_all == IF text = "whole" THEN file ELSE Nothing

-----------------------------------------------------------------------------
(* The device flow.                                                        *)

\* With a token at hand the device flow is skipped.
BeginLogin(p) ==
  /\ pc[p] = "idle"
  /\ \E u \in Urls : url' = [url EXCEPT ![p] = u]
  /\ Go(p, "code") \/ Go(p, "exchange")
  /\ UNCHANGED <<held, home, data, github, live, disk, crashes, history>>

\* GitHub hands out a code.
RequestCode(p) ==
  /\ pc[p] = "code"
  /\ Go(p, "poll") /\ code' = [code EXCEPT ![p] = "pending"]
  /\ UNCHANGED <<url, held, home, data, interval, live, disk, crashes, history>>

\* The user approves or refuses, or neither in time.
Decide(p) ==
  /\ code[p] = "pending"
  /\ \E c \in {"token", "denied", "expired"} : code' = [code EXCEPT ![p] = c]
  /\ UNCHANGED <<pc, url, held, home, data, interval, live, disk, crashes, history>>

\* A mistake: every error is authorization still pending.
PollForever(p) ==
  /\ pc[p] = "poll"
  /\ code[p] = "token" /\ Go(p, "exchange")
  /\ UNCHANGED <<url, held, home, data, github, live, disk, crashes, history>>

\* After its sleep the login polls.  authorization_pending changes nothing;
\* slow_down adds five seconds to every later sleep; the token, a refusal and
\* an expired code end the flow.
Poll(p) ==
  /\ pc[p] = "poll"
  /\ \/ /\ code[p] = "pending" /\ interval[p] <= MaxSlow
        /\ interval' = [interval EXCEPT ![p] = @ + 1]
        /\ UNCHANGED pc
     \/ /\ code[p] # "pending" /\ Go(p, IF code[p] = "token" THEN "exchange" ELSE "failed")
        /\ UNCHANGED interval
  /\ UNCHANGED <<url, held, home, data, code, live, disk, crashes, history>>

\* A request to GitHub breaks or is answered with an error, or the
\* orchestrator refuses the token: the login exits with the error.
Refused(p) ==
  /\ pc[p] \in {"code", "poll", "exchange"}
  /\ Go(p, "failed")
  /\ UNCHANGED <<url, held, home, data, github, live, disk, crashes, history>>

\* The token is exchanged for a key.  The orchestrator may mint the key and
\* its answer be lost.
Exchange(p) ==
  /\ pc[p] = "exchange"
  /\ live' = [live EXCEPT ![url[p]] = @ \cup {p}]
  /\ \/ Go(p, "load") /\ held' = [held EXCEPT ![p] = p] /\ UNCHANGED let
     \/ Go(p, "failed") /\ let' = let \cup {p} /\ UNCHANGED held
  /\ UNCHANGED <<url, home, data, github, disk, crashes, owned, apart>>

-----------------------------------------------------------------------------
(* Revocation and use.                                                     *)

\* mrg logout looks the key up; without one it is done.
BeginLogout(p) ==
  /\ pc[p] = "idle"
  /\ \E u \in Urls : /\ url' = [url EXCEPT ![p] = u]
                     /\ held' = [held EXCEPT ![p] = load_all[u]]
  /\ Go(p, IF held'[p] = None THEN "ok" ELSE "revoke")
  /\ UNCHANGED <<home, data, github, live, disk, crashes, history>>

\* A mistake: revoking at the default orchestrator.
RevokeAtDefault(p) ==
  /\ pc[p] = "revoke"
  /\ live' = [live EXCEPT ![CHOOSE u \in Urls : TRUE] = @ \ {held[p]}]
  /\ Go(p, "load")
  /\ UNCHANGED <<url, held, home, data, github, disk, crashes, history>>

\* Best effort: whatever comes of it, the stored key is cleared next.  The
\* answer may be lost after the key was revoked.
Revoke(p) ==
  /\ pc[p] = "revoke"
  /\ \/ /\ live' = [live EXCEPT ![url[p]] = @ \ {held[p]}]
        /\ UNCHANGED let
     \/ let' = let \cup {held[p]} /\ UNCHANGED live
  /\ Go(p, "load")
  /\ UNCHANGED <<url, held, home, data, github, disk, crashes, owned, apart>>

\* Any other command resolves its key from the file, or exits with an error.
Use(p) ==
  /\ pc[p] = "idle"
  /\ \E u \in Urls : /\ url' = [url EXCEPT ![p] = u]
                     /\ held' = [held EXCEPT ![p] = load_all[u]]
  /\ Go(p, IF held'[p] = None THEN "failed" ELSE "ok")
  /\ UNCHANGED <<home, data, github, live, disk, crashes, history>>

\* mrg run imports a file, whose App looks up the key of the URL it was
\* written for, ...
LoadApp(p) ==
  /\ pc[p] = "idle"
  /\ \E u \in Urls : /\ home' = [home EXCEPT ![p] = u]
                     /\ url' = [url EXCEPT ![p] = u]
                     /\ held' = [held EXCEPT ![p] = load_all[u]]
  /\ Go(p, "app")
  /\ UNCHANGED <<data, github, live, disk, crashes, history>>

\* ... and then gives the App the URL of --api-url, if any; a key is looked up
\* for it only when the App found none.
cmd_run(p) ==
  /\ pc[p] = "app"
  /\ \E u \in Urls :
       /\ url' = [url EXCEPT ![p] = u]
       /\ held' = [held EXCEPT ![p] = IF @ = None THEN load_all[u] ELSE @]
  /\ Go(p, IF held'[p] = None THEN "failed" ELSE "ok")
  /\ UNCHANGED <<home, data, github, live, disk, crashes, history>>

-----------------------------------------------------------------------------
(* save and clear: read the file, change one entry, truncate, write.       *)

Rewriting == {p \in Writers : pc[p] \in {"open", "write"}}

\* Mistakes: saving under the default orchestrator, and saving one entry over
\* all the others.
LoadAllDefault(p) ==
  /\ pc[p] = "load"
  /\ LET u == CHOOSE u \in Urls : TRUE IN
       data' = [data EXCEPT ![p] =
                  [load_all EXCEPT ![u] = IF p \in Logins THEN held[p] ELSE None]]
  /\ apart' = (apart /\ Rewriting = {})
  /\ Go(p, "open")
  /\ UNCHANGED <<url, held, home, github, live, disk, crashes, owned, let>>
LoadAllForgetting(p) ==
  /\ pc[p] = "load"
  /\ data' = [data EXCEPT ![p] =
                [Nothing EXCEPT ![url[p]] = IF p \in Logins THEN held[p] ELSE None]]
  /\ apart' = (apart /\ Rewriting = {})
  /\ Go(p, "open")
  /\ UNCHANGED <<url, held, home, github, live, disk, crashes, owned, let>>

\* clear returns when there is nothing under its URL.
LoadAll(p) ==
  /\ pc[p] = "load"
  /\ LET u == url[p] IN
     \/ /\ p \in Logins \/ load_all[u] # None
        /\ data' = [data EXCEPT ![p] =
                      [load_all EXCEPT ![u] = IF p \in Logins THEN held[p] ELSE None]]
        /\ apart' = (apart /\ Rewriting = {})
        /\ Go(p, "open")
     \/ /\ p \in Logouts /\ load_all[u] = None
        /\ Go(p, "ok") /\ UNCHANGED <<data, apart>>
  /\ UNCHANGED <<url, held, home, github, live, disk, crashes, owned, let>>

Truncate(p) ==
  /\ pc[p] = "open"
  /\ text' = "empty"
  /\ Go(p, "write")
  /\ UNCHANGED <<url, held, home, data, github, live, file, crashes, history>>

\* Over an empty file the contents are written whole.  Another writer may have
\* filled it since the truncation: what it wrote beyond the end stays behind.
Write(p) ==
  /\ pc[p] = "write"
  /\ file' = data[p]
  /\ \/ text' = "whole"
     \/ text # "empty" /\ text' = "garbled"
  /\ Go(p, "ok")
  /\ owned' = [owned EXCEPT ![url[p]] = data[p][url[p]]]
  /\ let' = let \cup ({file[url[p]]} \ {None, held[p]})
  /\ UNCHANGED <<url, held, home, data, github, live, crashes, apart>>

\* Ctrl-C, or worse, anywhere in a command that changes something.
Crash(p) ==
  /\ p \in Writers
  /\ pc[p] \notin {"idle", "ok", "failed", "killed"} /\ crashes < MaxCrashes
  /\ crashes' = crashes + 1
  /\ Go(p, "killed")
  /\ apart' = (apart /\ p \notin Rewriting)
  /\ let' = let \cup ({held[p]} \ {None})
  /\ UNCHANGED <<url, held, home, data, github, live, disk, owned>>

Step(p) ==
  \/ p \in Logins /\ (BeginLogin(p) \/ RequestCode(p) \/ Poll(p) \/ Exchange(p))
  \/ p \in Logouts /\ (BeginLogout(p) \/ Revoke(p))
  \/ p \in Uses /\ (Use(p) \/ LoadApp(p) \/ cmd_run(p))
  \/ p \in Writers /\ (LoadAll(p) \/ Truncate(p) \/ Write(p))

Next == \/ \E p \in Procs : Step(p) \/ Crash(p)
        \/ \E p \in Logins : Decide(p) \/ Refused(p)

\* Processes run, requests are answered, and a device code expires.  Nothing
\* fair is assumed of failures: no command ends because one must come.
Spec == /\ Init /\ [][Next]_vars
        /\ \A p \in Procs : WF_vars(Step(p))
        /\ \A p \in Logins : WF_vars(Decide(p))

-----------------------------------------------------------------------------
(* Properties.                                                             *)

\* Whatever meets whatever on the disk, a key is never stored for, revoked at
\* or sent to an orchestrator other than the one that minted it, by any command
\* but mrg run; and a key that mrg run uses was minted by the orchestrator its
\* App was written for, or by the one it talks to, and by no third one.
KeyForServer ==
  /\ \A p \in Procs : held[p] # None =>
       \/ url[held[p]] = url[p]
       \/ p \in Uses /\ home[p] # None /\ url[held[p]] = home[p]
  /\ \A u \in Urls : load_all[u] # None => url[load_all[u]] = u

\* mrg run is said to "fall back to a stored login for the app's orchestrator
\* URL": the stored key it ends up with is one for the URL the App talks to.
RunKeyForServer ==
  \A p \in Uses : pc[p] = "ok" => url[held[p]] = url[p]

\* Commands whose rewrites did not meet and were not killed leave exactly what
\* they said they saved and deleted, for every orchestrator.
StoreFaithful ==
  apart /\ Rewriting = {} => load_all = owned

\* The only keys left alive that no file and no process remembers are those of
\* a lost answer, a failed revocation, a kill, or a newer login or logout that
\* replaced or deleted the entry, as long as rewrites keep apart.
LiveKeysAccounted ==
  apart => \A u \in Urls : \A k \in live[u] :
    k \in let \/ file[u] = k \/ (held[k] = k /\ pc[k] \notin {"ok", "killed"})

\* Every command ends, a login included: the code expires if nobody decides.
CommandsFinish ==
  \A p \in Procs : <>(pc[p] \in {"ok", "failed", "killed"})
=============================================================================
