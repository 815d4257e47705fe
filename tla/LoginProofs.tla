---------------------------- MODULE LoginProofs -----------------------------
(***************************************************************************)
(* The safety of the credentials file of Login, for any number of logins,  *)
(* logouts, other commands and orchestrators.  Three facts carry it: every *)
(* key anywhere belongs to the orchestrator it is filed under (Filed); as  *)
(* long as rewrites keep apart, the one in progress differs from the file  *)
(* in its own entry only (Tidy); and a key that is live has an owner that  *)
(* finished its exchange, a revoked one stays dead (Accounted).            *)
(***************************************************************************)
EXTENDS Login, TLAPS

\* k was minted by the orchestrator u, and its login knows it.
Minted(k, u) ==
  k # None => url[k] = u /\ pc[k] \in {"load", "open", "write", "ok", "killed"}

\* The key a command has in hand is for the orchestrator it was given, or for
\* the one its App was written for.
Own(p) == Minted(held[p], url[p])
App(p) == p \in Uses /\ home[p] # None /\ Minted(held[p], home[p])

Filed ==
  /\ \A p \in Procs : (Own(p) \/ App(p)) /\ (pc[p] = "idle" => held[p] = None)
  /\ \A p \in Writers, u \in Urls : Minted(data[p][u], u)
  /\ \A u \in Urls : Minted(file[u], u)

\* A command past its start was given an orchestrator, and a logout that
\* revokes has a key.
Given ==
  /\ \A p \in Procs : pc[p] # "idle" => url[p] \in Urls
  /\ \A p \in Uses : pc[p] = "app" => home[p] = url[p]
  /\ \A p \in Logouts : pc[p] = "revoke" => held[p] # None

\* The one rewrite in progress changes its own entry; the file is whole but
\* between its truncation and its write.
Tidy ==
  apart =>
    /\ file = owned
    /\ text = "whole" \/ (text = "empty" /\ \E p \in Writers : pc[p] = "write")
    /\ \A p \in Rewriting :
         /\ \A q \in Rewriting : q = p
         /\ \A u \in Urls : u # url[p] => data[p][u] = file[u]
         /\ pc[p] = "open" => text = "whole"
         /\ pc[p] = "write" => text = "empty"

\* A login holds and saves its own key, a logout revoked its own or let it be,
\* and every live key was minted where it is live.
Accounted ==
  /\ \A p \in Logins : pc[p] \in {"load", "open", "write"} => held[p] = p
  /\ \A p \in Logins : p \in Rewriting => data[p][url[p]] = p
  /\ \A p \in Logouts : p \in Rewriting => data[p][url[p]] = None
  /\ \A p \in Logouts : pc[p] \in {"load", "open", "write"} =>
       held[p] # None /\ \A u \in Urls : held[p] \in live[u] => held[p] \in let
  /\ \A u \in Urls : \A k \in live[u] :
       url[k] = u /\ pc[k] \in {"load", "open", "write", "ok", "failed", "killed"}

IInv == TypeOK /\ Given /\ Filed /\ Tidy /\ Accounted /\ LiveKeysAccounted

-----------------------------------------------------------------------------
(* Types.                                                                  *)

LEMMA Names ==
  /\ Logins \subseteq Procs /\ Logouts \subseteq Procs /\ Uses \subseteq Procs
  /\ Writers \subseteq Procs /\ Logins \subseteq Writers /\ Logouts \subseteq Writers
  /\ \A p \in Writers : p \in Logins \/ p \in Logouts
  /\ Logins \cap Logouts = {} /\ Logins \cap Uses = {} /\ Logouts \cap Uses = {}
  /\ None \notin Logins
  BY LoginAssumption DEF Procs, Writers

\* Nobody has begun, and the file is empty of keys.
LEMMA InitType == Init => TypeOK /\ Given
  BY LoginAssumption, Names DEF Init, TypeOK, Given, Nothing, Keys

\* What a reader finds is a file of keys.
LEMMA LoadType == TypeOK => load_all \in [Urls -> Keys]
  BY DEF TypeOK, load_all, Nothing, Keys

\* The steps that touch neither keys nor the file.
Flow(p) == p \in Logins /\ (BeginLogin(p) \/ RequestCode(p) \/ Decide(p) \/ Poll(p) \/ Refused(p))

LEMMA FlowType == ASSUME TypeOK, Given, NEW p \in Procs, Flow(p) PROVE TypeOK' /\ Given'
  <1> USE Names DEF TypeOK, Given, Go, github, disk, history
  <1>0. p \in Logins BY DEF Flow
  <1>1. CASE BeginLogin(p) BY <1>1 DEF BeginLogin
  <1>2. CASE RequestCode(p) BY <1>0, <1>2 DEF RequestCode
  <1>3. CASE Decide(p) BY <1>0, <1>3 DEF Decide
  <1>4. CASE Refused(p) BY <1>4 DEF Refused
  <1>5. CASE Poll(p)
    <2>1. interval' \in [Logins -> 1..1 + MaxSlow]
      <3>1. interval \in [Logins -> 1..1 + MaxSlow] OBVIOUS
      <3> HIDE DEF TypeOK
      <3> QED BY <1>0, <1>5, <3>1, LoginAssumption DEF Poll
    <2> QED BY <1>0, <1>5, <2>1 DEF Poll
  <1> QED BY <1>1, <1>2, <1>3, <1>4, <1>5 DEF Flow

LEMMA KeysType ==
  ASSUME TypeOK, Given, NEW p \in Procs,
         \/ p \in Logins /\ Exchange(p)
         \/ p \in Logouts /\ (BeginLogout(p) \/ Revoke(p))
         \/ p \in Uses /\ (Use(p) \/ LoadApp(p) \/ cmd_run(p))
  PROVE  TypeOK' /\ Given'
  <1> USE Names, LoadType DEF TypeOK, Given, Go, github, disk, history, Keys
  <1>1. CASE p \in Logins /\ Exchange(p)
    <2>1. url[p] \in Urls BY <1>1 DEF Exchange
    <2>2. live' \in [Urls -> SUBSET Logins] BY <1>1, <2>1 DEF Exchange
    <2>3. held' \in [Procs -> Keys] /\ let' \subseteq Logins BY <1>1 DEF Exchange
    <2>4. pc' \in [Procs -> {"idle", "code", "poll", "exchange", "revoke", "load",
                             "open", "write", "app", "ok", "failed", "killed"}]
      BY <1>1 DEF Exchange
    <2> QED BY <1>1, <2>1, <2>2, <2>3, <2>4 DEF Exchange
  <1>2. CASE BeginLogout(p) BY <1>2 DEF BeginLogout
  <1>3. CASE p \in Logouts /\ Revoke(p)
    <2>1. url[p] \in Urls BY <1>3 DEF Revoke
    <2>2. CASE live' = [live EXCEPT ![url[p]] = @ \ {held[p]}] /\ UNCHANGED let
      BY <1>3, <2>1, <2>2 DEF Revoke
    <2>3. CASE let' = let \cup {held[p]} /\ UNCHANGED live
      <3>1. held[p] \in Logins BY <1>3 DEF Revoke
      <3> QED BY <1>3, <2>3, <3>1 DEF Revoke
    <2> QED BY <1>3, <2>2, <2>3 DEF Revoke
  <1>4. CASE Use(p) BY <1>4 DEF Use
  <1>5. CASE p \in Uses /\ LoadApp(p) BY <1>5 DEF LoadApp
  <1>6. CASE cmd_run(p) BY <1>6 DEF cmd_run
  <1> QED BY <1>1, <1>2, <1>3, <1>4, <1>5, <1>6

LEMMA FileType ==
  ASSUME TypeOK, Given, NEW p \in Procs,
         (p \in Writers /\ (LoadAll(p) \/ Truncate(p) \/ Write(p))) \/ Crash(p)
  PROVE  TypeOK' /\ Given'
  <1> USE Names, LoadType DEF TypeOK, Given, Go, github, disk, history, Keys
  <1>1. CASE p \in Writers /\ LoadAll(p)
    <2>1. url[p] \in Urls BY <1>1 DEF LoadAll
    <2>2. data' \in [Writers -> [Urls -> Keys]]
      <3>1. \A x \in Keys : [load_all EXCEPT ![url[p]] = x] \in [Urls -> Keys]
        BY <2>1
      <3>2. \/ UNCHANGED data
            \/ \E x \in Keys : data' = [data EXCEPT ![p] = [load_all EXCEPT ![url[p]] = x]]
        BY <1>1 DEF LoadAll
      <3>3. data \in [Writers -> [Urls -> Keys]] OBVIOUS
      <3> HIDE DEF TypeOK, Keys
      <3> QED BY <3>1, <3>2, <3>3
    <2>3. apart' \in BOOLEAN BY <1>1 DEF LoadAll
    <2> QED BY <1>1, <2>2, <2>3 DEF LoadAll
  <1>2. CASE Truncate(p) BY <1>2 DEF Truncate
  <1>3. CASE p \in Writers /\ Write(p)
    <2>1. url[p] \in Urls BY <1>3 DEF Write
    <2> QED BY <1>3, <2>1 DEF Write
  <1>4. CASE Crash(p)
    <2>1. apart' \in BOOLEAN BY <1>4 DEF Crash
    <2>2. crashes' \in 0..MaxCrashes
      <3>1. crashes \in 0..MaxCrashes OBVIOUS
      <3> HIDE DEF TypeOK
      <3> QED BY <1>4, <3>1, LoginAssumption DEF Crash
    <2>3. url[p] \in Urls BY <1>4 DEF Crash
    <2> QED BY <1>4, <2>1, <2>2, <2>3 DEF Crash
  <1> QED BY <1>1, <1>2, <1>3, <1>4

-----------------------------------------------------------------------------
(* Keys and the orchestrators they are for.                                *)

Past == {"load", "open", "write", "ok", "killed"}

\* A step is of one command; the others, and the orchestrator of a command
\* past its start, stay as they are, and nobody goes back before the exchange.
LEMMA Moves ==
  ASSUME TypeOK, NEW p \in Procs, Step(p) \/ Crash(p) \/ Flow(p)
  PROVE  /\ \A q \in Procs : q # p => UNCHANGED <<pc[q], url[q], held[q]>>
         /\ pc[p] # "idle" /\ p \in Writers => url'[p] = url[p]
         /\ pc[p] \in Past => pc'[p] \in Past
         /\ pc[p] = "failed" => UNCHANGED pc
         /\ pc'[p] = "idle" => UNCHANGED <<pc, url, held>>
  BY Names DEF TypeOK, Step, Crash, Flow, BeginLogin, RequestCode, Decide, Poll, Refused,
     Exchange, BeginLogout, Revoke, Use, LoadApp, cmd_run, LoadAll, Truncate, Write, Go, Past

\* So a minted key stays one.
LEMMA StillMinted ==
  ASSUME TypeOK, NEW p \in Procs, Step(p) \/ Crash(p) \/ Flow(p),
         NEW k \in Keys, NEW u, Minted(k, u)
  PROVE  Minted(k, u)'
  <1>1. CASE k = None BY <1>1 DEF Minted
  <1>2. CASE k # None
    <2>1. k \in Procs /\ k \in Writers /\ pc[k] \in Past BY <1>2, Names DEF Keys, Minted, Past
    <2>2. pc'[k] \in Past /\ url'[k] = url[k]
      <3>1. CASE k = p BY <2>1, <3>1, Moves DEF Past
      <3>2. CASE k # p BY <2>1, <3>2, Moves
      <3> QED BY <3>1, <3>2
    <2> QED BY <1>2, <2>2 DEF Minted, Past
  <1> QED BY <1>1, <1>2

\* Whatever a reader finds was minted for the orchestrator it is filed under.
LEMMA LoadMinted == ASSUME Filed PROVE \A u \in Urls : Minted(load_all[u], u)
  BY DEF Filed, load_all, Nothing, Minted

\* A command looks a key up, and takes what is filed under its orchestrator.
Reads(p) == \/ p \in Logouts /\ BeginLogout(p)
            \/ p \in Uses /\ (Use(p) \/ LoadApp(p) \/ (cmd_run(p) /\ held[p] = None))

\* What a step does to the key in the hand of its command.
LEMMA HandSteps ==
  ASSUME TypeOK, Given, Filed, NEW p \in Procs, Step(p) \/ Crash(p) \/ Flow(p)
  PROVE  \/ UNCHANGED <<held[p], url[p], home>>
         \/ held[p] = None /\ held'[p] = None
         \/ p \in Logins /\ held'[p] = p /\ pc'[p] = "load" /\ UNCHANGED url
         \/ Reads(p) /\ \E u \in Urls : held'[p] = load_all[u] /\ url'[p] = u
         \/ p \in Uses /\ pc[p] = "app" /\ UNCHANGED <<held[p], home>>
  <1>t. /\ held \in [Procs -> Keys] /\ url \in [Procs -> Urls \cup {None}]
        /\ pc \in [Procs -> {"idle", "code", "poll", "exchange", "revoke", "load",
                             "open", "write", "app", "ok", "failed", "killed"}]
    BY DEF TypeOK
  <1>1. CASE p \in Logins /\ Exchange(p) BY <1>t, <1>1 DEF Exchange, Go
  <1>2. CASE BeginLogin(p) BY <1>2 DEF BeginLogin, Filed
  <1>3. CASE RequestCode(p) \/ Decide(p) \/ Poll(p) \/ Refused(p)
    BY <1>3 DEF RequestCode, Decide, Poll, Refused
  <1>4. CASE Revoke(p) \/ LoadAll(p) \/ Truncate(p) \/ Write(p) \/ Crash(p)
    BY <1>4 DEF Revoke, LoadAll, Truncate, Write, Crash
  <1>5. CASE (p \in Logouts /\ BeginLogout(p)) \/ (p \in Uses /\ (Use(p) \/ LoadApp(p)))
    BY <1>t, <1>5 DEF Reads, BeginLogout, Use, LoadApp
  <1>6. CASE p \in Uses /\ cmd_run(p)
    <2>1. PICK u \in Urls :
            /\ url' = [url EXCEPT ![p] = u]
            /\ held' = [held EXCEPT ![p] = IF @ = None THEN load_all[u] ELSE @]
      BY <1>6 DEF cmd_run
    <2>2. pc[p] = "app" /\ UNCHANGED home BY <1>6 DEF cmd_run
    <2>3. url'[p] = u /\ held'[p] = IF held[p] = None THEN load_all[u] ELSE held[p]
      BY <1>t, <2>1
    <2> QED BY <1>6, <2>2, <2>3 DEF Reads
  <1> QED BY <1>1, <1>2, <1>3, <1>4, <1>5, <1>6 DEF Step, Flow

\* A key in hand is for the orchestrator of its command, or of its App.
LEMMA HandStep ==
  ASSUME TypeOK, Given, Filed, NEW p \in Procs, Step(p) \/ Crash(p) \/ Flow(p),
         NEW q \in Procs
  PROVE  (Own(q) \/ App(q))' /\ (pc'[q] = "idle" => held'[q] = None)
  <1>t. /\ held \in [Procs -> Keys] /\ load_all \in [Urls -> Keys]
        /\ home \in [Uses -> Urls \cup {None}]
    BY LoadType DEF TypeOK
  <1>k. \A k \in Keys : \A u :
          Minted(k, u) => (k # None => url'[k] = u /\ pc'[k] \in Past)
    BY StillMinted DEF Minted, Past
  <1>h. held[q] \in Keys /\ (Own(q) \/ App(q)) BY <1>t DEF Filed
  <1>1. pc'[q] = "idle" => held'[q] = None BY Moves DEF Filed
  <1>2. ASSUME UNCHANGED <<held[q], url[q]>>, q \in Uses => UNCHANGED home[q]
        PROVE  (Own(q) \/ App(q))'
    <2>1. CASE Own(q)
      <3>1. held[q] # None => url'[held[q]] = url[q] /\ pc'[held[q]] \in Past
        BY <1>k, <1>h, <2>1 DEF Own
      <3> QED BY <1>2, <3>1 DEF Own, Minted, Past
    <2>2. CASE App(q)
      <3>1. held[q] # None => url'[held[q]] = home[q] /\ pc'[held[q]] \in Past
        BY <1>k, <1>h, <2>2 DEF App
      <3> QED BY <1>2, <2>2, <3>1 DEF App, Minted, Past
    <2> QED BY <1>h, <2>1, <2>2
  <1>3. CASE q # p
    <2>1. q \in Uses => UNCHANGED home[q]
      <3>1. UNCHANGED home \/ \E u \in Urls : home' = [home EXCEPT ![p] = u]
        BY DEF Step, Crash, Flow, BeginLogin, RequestCode, Decide, Poll, Refused,
           Exchange, BeginLogout, Revoke, Use, LoadApp, cmd_run, LoadAll, Truncate, Write
      <3> QED BY <1>t, <1>3, <3>1
    <2> QED BY <1>1, <1>2, <1>3, <2>1, Moves
  <1>4. CASE q = p
    <2>1. CASE UNCHANGED <<held[p], url[p], home>> BY <1>1, <1>2, <1>4, <2>1
    <2>2. CASE held'[p] = None BY <1>1, <1>4, <2>2 DEF Own, Minted
    <2>3. CASE p \in Logins /\ held'[p] = p /\ pc'[p] = "load" /\ UNCHANGED url
      BY <1>1, <1>4, <2>3 DEF Own, Minted
    <2>4. CASE Reads(p) /\ \E u \in Urls : held'[p] = load_all[u] /\ url'[p] = u
      <3>1. PICK u \in Urls : held'[p] = load_all[u] /\ url'[p] = u BY <2>4
      <3>2. Minted(load_all[u], u) /\ load_all[u] \in Keys BY <1>t, LoadMinted
      <3>3. load_all[u] # None => url'[load_all[u]] = u /\ pc'[load_all[u]] \in Past
        BY <1>k, <3>2
      <3> QED BY <1>1, <1>4, <3>1, <3>3 DEF Own, Minted, Past
    <2>5. CASE p \in Uses /\ pc[p] = "app" /\ UNCHANGED <<held[p], home>>
      <3>1. home[p] = url[p] /\ home[p] # None BY <2>5, LoginAssumption DEF Given
      <3>2. Minted(held[p], home[p]) BY <1>h, <1>4, <3>1 DEF Own, App
      <3>3. held[p] # None => url'[held[p]] = home[p] /\ pc'[held[p]] \in Past
        BY <1>h, <1>k, <1>4, <3>2
      <3>4. App(p)' BY <2>5, <3>1, <3>3 DEF App, Minted, Past
      <3> QED BY <1>1, <1>4, <3>4
    <2> QED BY <2>1, <2>2, <2>3, <2>4, <2>5, HandSteps
  <1> QED BY <1>3, <1>4

LEMMA FiledStep ==
  ASSUME TypeOK, Given, Filed, NEW p \in Procs, Step(p) \/ Crash(p) \/ Flow(p)
  PROVE  Filed'
  <1>t. /\ held \in [Procs -> Keys] /\ data \in [Writers -> [Urls -> Keys]]
        /\ file \in [Urls -> Keys] /\ url \in [Procs -> Urls \cup {None}]
        /\ load_all \in [Urls -> Keys]
    BY LoadType DEF TypeOK
  <1>1. \A q \in Procs : (Own(q) \/ App(q))' /\ (pc'[q] = "idle" => held'[q] = None)
    BY HandStep
  <1>2. ASSUME NEW q \in Writers, NEW u \in Urls PROVE Minted(data[q][u], u)'
    <2>1. data[q][u] \in Keys /\ Minted(data[q][u], u) BY <1>t DEF Filed
    <2>2. \A k \in Keys : Minted(k, u) => (k # None => url'[k] = u /\ pc'[k] \in Past)
      BY StillMinted DEF Minted, Past
    <2>3. data'[q][u] \in Keys /\ Minted(data'[q][u], u)
      <3>1. CASE data'[q][u] = data[q][u] BY <2>1, <3>1
      <3>2. CASE p \in Writers /\ LoadAll(p)
        <4>1. url[p] \in Urls BY <3>2, Names DEF LoadAll, Given
        <4>2. \/ data' = data
              \/ data' = [data EXCEPT ![p] =
                            [load_all EXCEPT ![url[p]] = IF p \in Logins THEN held[p] ELSE None]]
          BY <3>2 DEF LoadAll
        <4>3. \/ data'[q][u] \in {data[q][u], load_all[u], None}
              \/ u = url[p] /\ data'[q][u] = held[p]
          <5>1. CASE q # p
            <6>1. data'[q] = data[q] BY <1>t, <4>2, <5>1
            <6> QED BY <6>1
          <5>2. CASE q = p /\ data' # data
            <6> DEFINE x == IF p \in Logins THEN held[p] ELSE None
                       d == [load_all EXCEPT ![url[p]] = x]
            <6>1. data'[p] = d BY <1>t, <3>2, <4>2, <5>2
            <6>2. (u = url[p] /\ d[u] = x) \/ d[u] = load_all[u] BY <1>t, <4>1
            <6>3. x = held[p] \/ x = None OBVIOUS
            <6>4. data'[q][u] = d[u] BY <5>2, <6>1
            <6> HIDE DEF x, d
            <6> QED BY <6>2, <6>3, <6>4
          <5>3. CASE data' = data BY <5>3
          <5> QED BY <5>1, <5>2, <5>3
        <4>4. Minted(load_all[u], u) /\ load_all[u] \in Keys BY <1>t, LoadMinted
        <4>5. Minted(held[p], url[p]) /\ held[p] \in Keys
          BY <1>t, <3>2, Names DEF Filed, Own, App
        <4>6. Minted(None, u) /\ None \in Keys BY DEF Minted, Keys
        <4> QED BY <2>1, <4>3, <4>4, <4>5, <4>6
      <3>3. data' = data \/ (p \in Writers /\ LoadAll(p))
        BY DEF Step, Crash, Flow, BeginLogin, RequestCode, Decide, Poll, Refused,
           Exchange, BeginLogout, Revoke, Use, LoadApp, cmd_run, Truncate, Write
      <3> QED BY <3>1, <3>2, <3>3
    <2> QED BY <2>2, <2>3 DEF Minted, Past
  <1>3. ASSUME NEW u \in Urls PROVE Minted(file[u], u)'
    <2>1. \A k \in Keys : Minted(k, u) => (k # None => url'[k] = u /\ pc'[k] \in Past)
      BY StillMinted DEF Minted, Past
    <2>2. file' = file \/ (p \in Writers /\ file' = data[p])
      BY DEF Step, Crash, Flow, BeginLogin, RequestCode, Decide, Poll, Refused,
         Exchange, BeginLogout, Revoke, Use, LoadApp, cmd_run, LoadAll, Truncate, Write, disk
    <2>3. file'[u] \in Keys /\ Minted(file'[u], u)
      BY <1>t, <2>2 DEF Filed
    <2> QED BY <2>1, <2>3 DEF Minted, Past
  <1> QED BY <1>1, <1>2, <1>3 DEF Filed

-----------------------------------------------------------------------------
(* The file and the rewrite in progress.                                   *)

\* Most steps concern neither the file nor a rewrite.
Busy == {"open", "write"}
Quiet ==
  /\ \A q \in Writers : (pc[q] \in Busy \/ pc'[q] \in Busy) => UNCHANGED <<pc[q], url[q]>>
  /\ UNCHANGED <<data, file, text, owned>>
  /\ apart' => apart

LEMMA QuietSteps ==
  ASSUME TypeOK, NEW p \in Procs, Step(p) \/ Crash(p) \/ Flow(p), apart'
  PROVE  \/ Quiet
         \/ p \in Writers /\ LoadAll(p) /\ pc'[p] = "open"
         \/ p \in Writers /\ Truncate(p)
         \/ p \in Writers /\ Write(p)
  <1>t. pc \in [Procs -> {"idle", "code", "poll", "exchange", "revoke", "load",
                          "open", "write", "app", "ok", "failed", "killed"}]
    BY DEF TypeOK
  <1>m. \A q \in Writers : q # p => UNCHANGED <<pc[q], url[q]>> BY Names, Moves
  <1> DEFINE Off == pc[p] \notin Busy /\ pc'[p] \notin Busy
  <1>1. CASE BeginLogin(p) \/ RequestCode(p) \/ Poll(p) \/ Refused(p)
    <2>1. Off BY <1>t, <1>1 DEF BeginLogin, RequestCode, Poll, Refused, Go, Busy
    <2>2. UNCHANGED <<data, file, text, owned, apart>>
      BY <1>1 DEF BeginLogin, RequestCode, Poll, Refused, disk, history
    <2> QED BY <1>m, <2>1, <2>2 DEF Quiet
  <1>2. CASE p \in Logins /\ Decide(p)
    BY <1>2 DEF Quiet, Decide, disk, history
  <1>3. CASE Exchange(p) \/ BeginLogout(p) \/ Revoke(p) \/ Use(p) \/ LoadApp(p) \/ cmd_run(p)
    <2>1. Off BY <1>t, <1>3 DEF Exchange, BeginLogout, Revoke, Use, LoadApp, cmd_run, Go, Busy
    <2>2. UNCHANGED <<data, file, text, owned, apart>>
      BY <1>3 DEF Exchange, BeginLogout, Revoke, Use, LoadApp, cmd_run, disk, history
    <2> QED BY <1>m, <2>1, <2>2 DEF Quiet
  <1>4. CASE p \in Writers /\ LoadAll(p)
    <2>1. pc'[p] = "open" \/ (pc[p] = "load" /\ pc'[p] = "ok" /\ UNCHANGED <<data, apart>>)
      BY <1>t, <1>4 DEF LoadAll, Go
    <2>2. UNCHANGED <<file, text, owned>> BY <1>4 DEF LoadAll, disk
    <2> QED BY <1>m, <1>4, <2>1, <2>2 DEF Quiet, Busy
  <1>5. CASE Crash(p)
    <2>1. pc'[p] = "killed" /\ UNCHANGED <<data, file, text, owned>>
      BY <1>t, <1>5 DEF Crash, Go, disk
    <2>2. apart /\ p \notin Rewriting BY <1>5 DEF Crash
    <2> QED BY <1>m, <2>1, <2>2, Names DEF Quiet, Rewriting, Busy
  <1> QED BY <1>1, <1>2, <1>3, <1>4, <1>5 DEF Step, Flow

LEMMA TidyStep ==
  ASSUME TypeOK, Given, Tidy, NEW p \in Procs, Step(p) \/ Crash(p) \/ Flow(p), apart'
  PROVE  Tidy'
  <1>t. /\ pc \in [Procs -> {"idle", "code", "poll", "exchange", "revoke", "load",
                             "open", "write", "app", "ok", "failed", "killed"}]
        /\ data \in [Writers -> [Urls -> Keys]]
        /\ file \in [Urls -> Keys] /\ owned \in [Urls -> Keys]
    BY DEF TypeOK
  <1>r. \A q \in Writers : q \in Rewriting <=> pc[q] \in Busy BY DEF Rewriting, Busy
  <1>s. \A q \in Writers : q \in Rewriting' <=> pc'[q] \in Busy BY DEF Rewriting, Busy
  <1>w. Rewriting \subseteq Writers /\ Rewriting' \subseteq Writers BY DEF Rewriting
  <1>m. \A q \in Procs : q # p => UNCHANGED <<pc[q], url[q]>> BY Moves
  <1>1. CASE Quiet
    <2>1. apart BY <1>1 DEF Quiet
    <2>2. \A q \in Writers : q \in Rewriting \/ q \in Rewriting' =>
                              UNCHANGED <<pc[q], url[q]>>
      BY <1>1, <1>r, <1>s DEF Quiet
    <2>3. Rewriting' = Rewriting BY <1>r, <1>s, <1>w, <2>2
    <2>4. \A q \in Writers : pc[q] = "write" => pc'[q] = "write"
      BY <2>2, <1>r DEF Busy
    <2>5. UNCHANGED <<data, file, text, owned>> BY <1>1 DEF Quiet
    <2>6. \A q \in Rewriting' : UNCHANGED <<pc[q], url[q]>> BY <1>w, <2>2
    <2> QED BY <2>1, <2>3, <2>4, <2>5, <2>6 DEF Tidy
  <1>2. CASE p \in Writers /\ LoadAll(p) /\ pc'[p] = "open"
    <2>1. /\ apart /\ Rewriting = {}
          /\ data' = [data EXCEPT ![p] =
                        [load_all EXCEPT ![url[p]] = IF p \in Logins THEN held[p] ELSE None]]
          /\ UNCHANGED <<url, file, text, owned>>
      BY <1>t, <1>2 DEF LoadAll, Go, disk
    <2>2. text = "whole"
      BY <1>r, <2>1 DEF Tidy, Busy
    <2>3. load_all = file BY <2>2 DEF load_all
    <2>4. \A u \in Urls : u # url[p] => data'[p][u] = file[u]
      <3> DEFINE d == [load_all EXCEPT ![url[p]] = IF p \in Logins THEN held[p] ELSE None]
      <3>1. data'[p] = d BY <1>t, <1>2, <2>1
      <3>2. \A u \in Urls : u # url[p] => d[u] = file[u] BY <1>t, <2>3
      <3> QED BY <3>1, <3>2
    <2>5. Rewriting' = {p} BY <1>2, <1>m, <1>r, <1>s, <1>w, <2>1, Names DEF Busy
    <2> QED BY <1>2, <2>1, <2>2, <2>4, <2>5 DEF Tidy
  <1>3. CASE p \in Writers /\ Truncate(p)
    <2>1. /\ apart /\ p \in Rewriting /\ pc'[p] = "write" /\ text' = "empty"
          /\ UNCHANGED <<url, data, file, owned>>
      BY <1>t, <1>3 DEF Truncate, Go, Rewriting, history
    <2>2. Rewriting' = {p}
      BY <1>m, <1>r, <1>s, <1>w, <1>3, <2>1, Names DEF Busy, Tidy
    <2> QED BY <1>3, <2>1, <2>2 DEF Tidy
  <1>4. CASE p \in Writers /\ Write(p)
    <2>1. /\ apart /\ p \in Rewriting /\ pc[p] = "write" /\ pc'[p] = "ok"
          /\ file' = data[p] /\ owned' = [owned EXCEPT ![url[p]] = data[p][url[p]]]
      BY <1>t, <1>4 DEF Write, Go, Rewriting
    <2>2. text = "empty" BY <2>1 DEF Tidy
    <2>3. text' = "whole" BY <1>4, <2>2 DEF Write
    <2>4. Rewriting' = {}
      BY <1>m, <1>r, <1>s, <1>w, <1>4, <2>1, Names DEF Busy, Tidy
    <2>5. file' = owned'
      <3>1. \A u \in Urls : u # url[p] => data[p][u] = owned[u] BY <2>1 DEF Tidy
      <3>2. owned' \in [Urls -> Keys] /\ file' \in [Urls -> Keys]
        BY <1>t, <1>4, <2>1
      <3>3. \A u \in Urls : owned'[u] = data[p][u] BY <1>t, <2>1, <3>1
      <3> QED BY <2>1, <3>2, <3>3
    <2> QED BY <2>3, <2>4, <2>5 DEF Tidy
  <1> QED BY <1>1, <1>2, <1>3, <1>4, QuietSteps

-----------------------------------------------------------------------------
(* The keys left alive.                                                    *)

\* Keys come alive by an exchange alone, and let only grows.
LEMMA LiveSteps ==
  ASSUME TypeOK, Given, NEW p \in Procs, Step(p) \/ Crash(p) \/ Flow(p)
  PROVE  /\ let \subseteq let'
         /\ \A u \in Urls : \A k \in live'[u] :
              k \in live[u] \/ (p \in Logins /\ Exchange(p) /\ k = p /\ u = url[p])
  <1>t. live \in [Urls -> SUBSET Logins] BY DEF TypeOK
  <1>1. CASE p \in Logins /\ Exchange(p)
    <2>1. pc[p] = "exchange" /\ live' = [live EXCEPT ![url[p]] = @ \cup {p}]
          /\ let \subseteq let'
      BY <1>1 DEF Exchange
    <2> QED BY <1>t, <1>1, <2>1
  <1>2. CASE Revoke(p)
    <2>1. \/ live' = [live EXCEPT ![url[p]] = @ \ {held[p]}] /\ let \subseteq let'
          \/ live' = live /\ let \subseteq let'
      BY <1>2 DEF Revoke
    <2> QED BY <1>t, <2>1
  <1>3. (p \in Logins /\ Exchange(p)) \/ Revoke(p) \/ (UNCHANGED live /\ let \subseteq let')
    <2>1. CASE BeginLogin(p) \/ RequestCode(p) \/ Decide(p) \/ Poll(p) \/ Refused(p)
      BY <2>1 DEF BeginLogin, RequestCode, Decide, Poll, Refused, history
    <2>2. CASE BeginLogout(p) \/ Use(p) \/ LoadApp(p) \/ cmd_run(p) \/ LoadAll(p) \/ Truncate(p)
      BY <2>2 DEF BeginLogout, Use, LoadApp, cmd_run, LoadAll, Truncate, history
    <2>3. CASE Write(p) \/ Crash(p) BY <2>3 DEF Write, Crash
    <2> QED BY <2>1, <2>2, <2>3 DEF Step, Flow
  <1> QED BY <1>1, <1>2, <1>3

Saving == {"load", "open", "write"}
Minting == {"load", "open", "write", "ok", "failed", "killed"}

\* What a writer is about to file for its orchestrator.
LEMMA WriterStep ==
  ASSUME TypeOK, Given, Accounted, NEW p \in Procs, Step(p) \/ Crash(p) \/ Flow(p),
         NEW q \in Writers
  PROVE  /\ (pc'[q] \in Saving /\ q \in Logins) => held'[q] = q
         /\ (q \in Rewriting' /\ q \in Logins) => data'[q][url'[q]] = q
         /\ (q \in Rewriting' /\ q \in Logouts) => data'[q][url'[q]] = None
         /\ (pc'[q] \in Saving /\ q \in Logouts) =>
              held'[q] # None /\ (pc[q] \in Saving \/ Revoke(q)) /\ UNCHANGED <<held[q], url[q]>>
  <1>t. /\ pc \in [Procs -> {"idle", "code", "poll", "exchange", "revoke", "load",
                             "open", "write", "app", "ok", "failed", "killed"}]
        /\ data \in [Writers -> [Urls -> Keys]] /\ held \in [Procs -> Keys]
        /\ url \in [Procs -> Urls \cup {None}] /\ load_all \in [Urls -> Keys]
    BY LoadType DEF TypeOK
  <1>m. \A r \in Procs : r # p => UNCHANGED <<pc[r], url[r], held[r]>> BY Moves
  <1>n. q \in Procs /\ (q \in Logins \/ q \in Logouts) /\ ~(q \in Logins /\ q \in Logouts)
    BY Names
  <1>r. q \in Rewriting' <=> pc'[q] \in Busy BY DEF Rewriting, Busy
  <1>a. /\ (pc[q] \in Saving /\ q \in Logins) => held[q] = q
        /\ (pc[q] \in Busy /\ q \in Logins) => data[q][url[q]] = q
        /\ (pc[q] \in Busy /\ q \in Logouts) => data[q][url[q]] = None
        /\ (pc[q] \in Saving /\ q \in Logouts) => held[q] # None
    BY DEF Accounted, Rewriting, Busy, Saving
  <1>1. CASE UNCHANGED <<pc[q], url[q], held[q], data[q]>>
    BY <1>a, <1>n, <1>r, <1>1 DEF Busy, Saving
  <1>2. CASE q = p /\ pc'[q] \notin Saving
    BY <1>r, <1>2 DEF Busy, Saving
  <1>3. CASE q = p /\ p \in Logins /\ Exchange(p)
    <2>1. pc'[q] = "load" => held'[q] = q BY <1>t, <1>n, <1>3 DEF Exchange, Go
    <2>2. pc'[q] \in {"load", "failed"} BY <1>t, <1>n, <1>3 DEF Exchange, Go
    <2> QED BY <1>n, <1>3, <1>r, <2>1, <2>2 DEF Busy, Saving
  <1>4. CASE q = p /\ p \in Logouts /\ Revoke(p)
    <2>1. pc[q] = "revoke" /\ pc'[q] = "load" /\ UNCHANGED <<held, url>>
      BY <1>t, <1>n, <1>4 DEF Revoke, Go
    <2>2. held[q] # None BY <1>4, <2>1 DEF Given
    <2> QED BY <1>n, <1>4, <1>r, <2>1, <2>2 DEF Busy, Saving
  <1>5. CASE q = p /\ LoadAll(p) /\ pc'[q] = "open"
    <2> DEFINE x == IF p \in Logins THEN held[p] ELSE None
               d == [load_all EXCEPT ![url[p]] = x]
    <2>1. pc[q] = "load" /\ UNCHANGED <<held, url>> /\ data' = [data EXCEPT ![p] = d]
      BY <1>t, <1>n, <1>5 DEF LoadAll, Go
    <2>2. url[p] \in Urls BY <1>5, <2>1 DEF Given
    <2>3. data'[q] = d /\ d[url[p]] = x BY <1>t, <1>5, <2>1, <2>2
    <2>4. (p \in Logins => x = q) /\ (p \in Logouts => x = None)
      BY <1>a, <1>n, <1>5, <2>1 DEF Saving
    <2>5. data'[q][url'[q]] = x BY <1>5, <2>1, <2>3
    <2> HIDE DEF x, d
    <2> QED BY <1>a, <1>n, <1>5, <1>r, <2>1, <2>4, <2>5 DEF Busy, Saving
  <1>6. CASE q = p /\ Truncate(p)
    <2>1. pc[q] = "open" /\ pc'[q] = "write" /\ UNCHANGED <<held, url, data>>
      BY <1>t, <1>n, <1>6 DEF Truncate, Go
    <2> QED BY <1>a, <1>n, <1>r, <2>1 DEF Busy, Saving
  <1>7. CASE q # p
    <2>1. UNCHANGED <<pc[q], url[q], held[q]>> BY <1>m, <1>n, <1>7
    <2>2. data'[q] = data[q]
      <3>1. CASE LoadAll(p) BY <1>t, <1>7, <3>1 DEF LoadAll
      <3>2. UNCHANGED data \/ LoadAll(p)
        BY DEF Step, Crash, Flow, BeginLogin, RequestCode, Decide, Poll, Refused,
           Exchange, BeginLogout, Revoke, Use, LoadApp, cmd_run, Truncate, Write
      <3> QED BY <3>1, <3>2
    <2> QED BY <1>1, <2>1, <2>2
  <1>8. CASE q = p
    <2>1. CASE BeginLogin(p) \/ RequestCode(p) \/ Poll(p) \/ Refused(p)
      BY <1>t, <1>n, <1>2, <1>8, <2>1 DEF BeginLogin, RequestCode, Poll, Refused, Go, Saving
    <2>2. CASE Decide(p) BY <1>1, <1>8, <2>2 DEF Decide
    <2>3. CASE BeginLogout(p) \/ Use(p) \/ LoadApp(p) \/ cmd_run(p)
      BY <1>t, <1>n, <1>2, <1>8, <2>3 DEF BeginLogout, Use, LoadApp, cmd_run, Go, Saving
    <2>4. CASE Write(p) \/ Crash(p)
      BY <1>t, <1>n, <1>2, <1>8, <2>4 DEF Write, Crash, Go, Saving
    <2>5. CASE LoadAll(p)
      BY <1>t, <1>n, <1>2, <1>5, <1>8, <2>5 DEF LoadAll, Go, Saving
    <2> QED BY <1>3, <1>4, <1>6, <1>8, <2>1, <2>2, <2>3, <2>4, <2>5 DEF Step, Flow
  <1> QED BY <1>7, <1>8

\* A key on its way out is dead, or was let live.
LEMMA LogoutStep ==
  ASSUME TypeOK, Given, Filed, Accounted, NEW p \in Procs, Step(p) \/ Crash(p) \/ Flow(p),
         NEW q \in Logouts, pc'[q] \in Saving, NEW u \in Urls, held'[q] \in live'[u]
  PROVE  held'[q] \in let'
  <1>t. /\ pc \in [Procs -> {"idle", "code", "poll", "exchange", "revoke", "load",
                             "open", "write", "app", "ok", "failed", "killed"}]
        /\ live \in [Urls -> SUBSET Logins] /\ q \in Writers /\ q \in Procs
    BY Names DEF TypeOK
  <1>1. UNCHANGED <<held[q], url[q]>> /\ (pc[q] \in Saving \/ Revoke(q)) /\ held[q] # None
    BY <1>t, WriterStep
  <1>2. let \subseteq let' BY LiveSteps
  <1>3. url[held[q]] = url[q] /\ pc[held[q]] # "exchange"
    <2>1. q \notin Uses BY Names
    <2>2. Own(q) BY <1>t, <2>1 DEF Filed, App
    <2> QED BY <1>1, <2>2 DEF Own, Minted
  <1>4. held[q] \in live[u] BY <1>1, <1>3, LiveSteps DEF Exchange
  <1>5. CASE pc[q] \in Saving
    BY <1>1, <1>2, <1>4, <1>5 DEF Accounted, Saving
  <1>6. CASE Revoke(q)
    <2>1. url[held[q]] = u BY <1>4 DEF Accounted
    <2>2. CASE live' = [live EXCEPT ![url[q]] = @ \ {held[q]}]
      BY <1>t, <1>1, <1>3, <2>1, <2>2
    <2>3. CASE let' = let \cup {held[q]} BY <1>1, <2>3
    <2> QED BY <1>6, <2>2, <2>3 DEF Revoke
  <1> QED BY <1>1, <1>5, <1>6

\* A live key is live where it was minted.
LEMMA LiveAt ==
  ASSUME TypeOK, Given, Accounted, NEW p \in Procs, Step(p) \/ Crash(p) \/ Flow(p),
         NEW u \in Urls, NEW k \in live'[u]
  PROVE  url'[k] = u /\ pc'[k] \in Minting /\ k \in Logins
  <1>t. /\ pc \in [Procs -> {"idle", "code", "poll", "exchange", "revoke", "load",
                             "open", "write", "app", "ok", "failed", "killed"}]
        /\ live \in [Urls -> SUBSET Logins]
    BY DEF TypeOK
  <1>1. CASE k \in live[u]
    <2>1. url[k] = u /\ pc[k] \in Minting /\ k \in Procs /\ k \in Logins /\ k \in Writers
      BY <1>t, <1>1, Names DEF Accounted, Minting
    <2>2. CASE k # p BY <2>1, <2>2, Moves
    <2>3. CASE k = p /\ pc[k] # "failed"
      <3>1. pc[k] \in Past /\ pc[p] # "idle" BY <2>1, <2>3 DEF Minting, Past
      <3>2. pc'[k] \in Past /\ url'[k] = url[k] BY <2>1, <2>3, <3>1, Moves
      <3> QED BY <2>1, <3>2 DEF Minting, Past
    <2>4. CASE k = p /\ pc[k] = "failed"
      <3>1. UNCHANGED pc /\ url'[k] = url[k] BY <2>1, <2>4, Moves
      <3> QED BY <2>1, <3>1
    <2> QED BY <2>2, <2>3, <2>4
  <1>2. CASE k = p /\ u = url[p] /\ p \in Logins /\ Exchange(p)
    <2>1. url' = url /\ pc'[p] \in {"load", "failed"} BY <1>t, <1>2 DEF Exchange, Go
    <2> QED BY <1>2, <2>1 DEF Minting
  <1> QED BY <1>1, <1>2, LiveSteps

LEMMA AccountedStep ==
  ASSUME TypeOK, Given, Filed, Accounted, NEW p \in Procs, Step(p) \/ Crash(p) \/ Flow(p)
  PROVE  Accounted'
  <1>w. Logins \subseteq Writers /\ Logouts \subseteq Writers BY Names
  <1>1. \A q \in Logins : pc'[q] \in Saving => held'[q] = q BY <1>w, WriterStep
  <1>2. \A q \in Logins : q \in Rewriting' => data'[q][url'[q]] = q BY <1>w, WriterStep
  <1>3. \A q \in Logouts : q \in Rewriting' => data'[q][url'[q]] = None BY <1>w, WriterStep
  <1>4. \A q \in Logouts : pc'[q] \in Saving =>
          held'[q] # None /\ \A u \in Urls : held'[q] \in live'[u] => held'[q] \in let'
    BY <1>w, WriterStep, LogoutStep
  <1>5. \A u \in Urls : \A k \in live'[u] : url'[k] = u /\ pc'[k] \in Minting BY LiveAt
  <1> QED BY <1>1, <1>2, <1>3, <1>4, <1>5 DEF Accounted, Saving, Minting

\* A live key stays filed, in hand, or let live.
LEMMA LiveStep ==
  ASSUME TypeOK, Given, Filed, Tidy, Accounted, LiveKeysAccounted,
         NEW p \in Procs, Step(p) \/ Crash(p) \/ Flow(p), apart',
         NEW u \in Urls, NEW k \in live'[u]
  PROVE  k \in let' \/ file'[u] = k \/ (held'[k] = k /\ pc'[k] \notin {"ok", "killed"})
  <1>t. /\ pc \in [Procs -> {"idle", "code", "poll", "exchange", "revoke", "load",
                             "open", "write", "app", "ok", "failed", "killed"}]
        /\ live \in [Urls -> SUBSET Logins] /\ held \in [Procs -> Keys]
        /\ data \in [Writers -> [Urls -> Keys]]
    BY DEF TypeOK
  <1>k. url'[k] = u /\ k \in Logins /\ k \in Procs /\ k # None BY LiveAt, Names
  <1>1. CASE k \notin live[u]
    <2>1. k = p /\ p \in Logins /\ Exchange(p) BY <1>1, LiveSteps
    <2>2. CASE Go(p, "load") /\ held' = [held EXCEPT ![p] = p]
      <3>1. pc'[p] = "load" /\ held'[p] = p BY <1>t, <2>2 DEF Go
      <3> QED BY <2>1, <3>1
    <2>3. CASE let' = let \cup {p} BY <2>1, <2>3
    <2> QED BY <2>1, <2>2, <2>3 DEF Exchange
  <1>2. CASE k \in live[u]
    <2>a. apart
      BY DEF Step, Crash, Flow, BeginLogin, RequestCode, Decide, Poll, Refused, Exchange,
         BeginLogout, Revoke, Use, LoadApp, cmd_run, LoadAll, Truncate, Write, history
    <2>1. k \in let \/ file[u] = k \/ (held[k] = k /\ pc[k] \notin {"ok", "killed"})
      BY <1>2, <2>a DEF LiveKeysAccounted
    <2>2. let \subseteq let' BY LiveSteps
    <2>3. CASE p \in Writers /\ Write(p)
      <3>1. /\ p \in Rewriting /\ pc'[p] = "ok" /\ file' = data[p] /\ UNCHANGED <<url, held>>
            /\ let' = let \cup ({file[url[p]]} \ {None, held[p]})
        BY <1>t, <2>3 DEF Write, Go, Rewriting
      <3>2. k # p => pc'[k] = pc[k] BY <1>k, Moves
      <3>3. CASE u # url[p]
        <4>1. file'[u] = file[u] BY <2>a, <3>1, <3>3 DEF Tidy
        <4> QED BY <1>k, <2>1, <2>2, <3>1, <3>2, <3>3, <4>1
      <3>4. CASE u = url[p] /\ p \in Logins
        <4>1. file'[u] = p BY <3>1, <3>4 DEF Accounted
        <4>2. held[p] = p BY <3>1, <3>4 DEF Accounted, Rewriting
        <4> QED BY <1>k, <2>1, <2>2, <3>1, <3>2, <3>4, <4>1, <4>2
      <3>5. CASE u = url[p] /\ p \in Logouts
        <4>1. k = held[p] => k \in let
          BY <1>2, <3>1, <3>5 DEF Accounted, Rewriting
        <4>2. k # p BY <1>k, <3>5, Names
        <4> QED BY <1>k, <2>1, <2>2, <3>1, <3>2, <3>5, <4>1, <4>2
      <3> QED BY <2>3, <3>3, <3>4, <3>5, Names
    <2>4. CASE Crash(p)
      <3>1. let' = let \cup ({held[p]} \ {None}) /\ UNCHANGED <<held, file>>
        BY <2>4 DEF Crash, disk
      <3>2. k # p => pc'[k] = pc[k] BY <1>k, Moves
      <3> QED BY <1>k, <2>1, <2>2, <3>1, <3>2
    <2>5. CASE file' = file /\ k # p
      BY <2>1, <2>2, <2>5, <1>k, Moves
    <2>6. CASE k = p /\ ~Crash(p) /\ ~Write(p)
      <3>1. pc[p] \in Minting BY <1>2, <2>6 DEF Accounted, Minting
      <3>2. p \in Logins /\ p \notin Logouts /\ p \notin Uses BY <1>k, <2>6, Names
      <3>3. Decide(p) \/ LoadAll(p) \/ Truncate(p)
        BY <2>6, <3>1, <3>2 DEF Step, Flow, BeginLogin, RequestCode, Poll, Refused, Exchange,
           Minting
      <3>4. UNCHANGED <<file, held>> /\ (UNCHANGED pc \/ pc'[p] \in {"open", "write"})
        BY <1>t, <3>2, <3>3 DEF Decide, LoadAll, Truncate, Go, disk
      <3> QED BY <2>1, <2>2, <2>6, <3>4
    <2>7. file' = file \/ (p \in Writers /\ Write(p))
      BY DEF Step, Crash, Flow, BeginLogin, RequestCode, Decide, Poll, Refused, Exchange,
         BeginLogout, Revoke, Use, LoadApp, cmd_run, LoadAll, Truncate, disk
    <2> QED BY <1>k, <2>3, <2>4, <2>5, <2>6, <2>7, Names
  <1> QED BY <1>1, <1>2

-----------------------------------------------------------------------------
(* The theorems.                                                           *)

\* Initially nothing is stored, minted or held.
LEMMA InitInv == Init => IInv
  <1> SUFFICES ASSUME Init PROVE IInv OBVIOUS
  <1>1. TypeOK /\ Given BY InitType
  <1>2. Filed BY Names DEF Init, Filed, Own, Minted, Nothing
  <1>3. Tidy
    <2>1. file = owned /\ text = "whole" BY DEF Init
    <2>2. Rewriting = {} BY Names DEF Init, Rewriting
    <2> QED BY <2>1, <2>2 DEF Tidy
  <1>4. Accounted BY Names DEF Init, Accounted, Rewriting
  <1>5. LiveKeysAccounted BY DEF Init, LiveKeysAccounted
  <1> QED BY <1>1, <1>2, <1>3, <1>4, <1>5 DEF IInv

LEMMA NextInv == ASSUME IInv, Next PROVE IInv'
  <1>i. TypeOK /\ Given /\ Filed /\ Tidy /\ Accounted /\ LiveKeysAccounted BY DEF IInv
  <1>1. PICK p \in Procs : Step(p) \/ Crash(p) \/ Flow(p) BY Names DEF Next, Flow
  <1>2. TypeOK' /\ Given'
    <2>1. CASE Flow(p) BY <1>i, <2>1, FlowType
    <2>2. CASE Crash(p) BY <1>i, <2>2, FileType
    <2>3. CASE Step(p) /\ ~Flow(p) BY <1>i, <2>3, KeysType, FileType DEF Step, Flow
    <2> QED BY <1>1, <2>1, <2>2, <2>3
  <1>3. Filed' BY <1>i, <1>1, FiledStep
  <1>4. Accounted' BY <1>i, <1>1, AccountedStep
  <1>5. Tidy'
    <2>1. CASE apart' BY <1>i, <1>1, <2>1, TidyStep
    <2>2. CASE ~apart' BY <2>2 DEF Tidy
    <2> QED BY <2>1, <2>2
  <1>6. LiveKeysAccounted'
    <2>1. CASE apart' BY <1>i, <1>1, <2>1, LiveStep DEF LiveKeysAccounted
    <2>2. CASE ~apart' BY <2>2 DEF LiveKeysAccounted
    <2> QED BY <2>1, <2>2
  <1> QED BY <1>2, <1>3, <1>4, <1>5, <1>6 DEF IInv

LEMMA StutterInv == ASSUME IInv, UNCHANGED vars PROVE IInv'
  BY DEF IInv, TypeOK, Given, Filed, Tidy, Accounted, LiveKeysAccounted, Own, App, Minted,
     Rewriting, vars, github, disk, history

\* The inductive invariant holds in every reachable state.
THEOREM Invariance == Spec => []IInv
  <1>1. Init => IInv BY InitInv
  <1>2. IInv /\ [Next]_vars => IInv' BY NextInv, StutterInv
  <1> QED BY <1>1, <1>2, PTL DEF Spec

\* Every variable of the commands, GitHub, the orchestrators and the file keeps
\* its type.
THEOREM TypeCorrect == Spec => []TypeOK
  <1>1. IInv => TypeOK BY DEF IInv
  <1> QED BY <1>1, Invariance, PTL

\* Whatever logins, logouts and kills meet on the disk, a key is stored for,
\* revoked at and sent to the orchestrator that minted it; mrg run alone may
\* send one of the orchestrator its App was written for to another.
THEOREM KeyCorrect == Spec => []KeyForServer
  <1>1. IInv => KeyForServer
    <2> SUFFICES ASSUME IInv PROVE KeyForServer OBVIOUS
    <2>1. Filed BY DEF IInv
    <2>2. \A p \in Procs : held[p] # None =>
            \/ url[held[p]] = url[p]
            \/ p \in Uses /\ home[p] # None /\ url[held[p]] = home[p]
      BY <2>1 DEF Filed, Own, App, Minted
    <2>3. \A u \in Urls : load_all[u] # None => url[load_all[u]] = u
      BY <2>1, LoadMinted DEF Minted
    <2> QED BY <2>2, <2>3 DEF KeyForServer
  <1> QED BY <1>1, Invariance, PTL

\* Commands whose rewrites kept apart leave what they said they saved.
THEOREM StoreCorrect == Spec => []StoreFaithful
  <1>1. IInv => StoreFaithful
    BY DEF IInv, Tidy, StoreFaithful, load_all, Rewriting
  <1> QED BY <1>1, Invariance, PTL

\* Every key left alive is filed, held, or knowingly let live.
THEOREM LiveCorrect == Spec => []LiveKeysAccounted
  <1>1. IInv => LiveKeysAccounted BY DEF IInv
  <1> QED BY <1>1, Invariance, PTL
=============================================================================
