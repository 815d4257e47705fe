# Verification of manhattan-reasoning-gym

TLA+ models of the Python SDK under `src/src/manhattan_reasoning_gym/` and of the
hardware designs under `src/examples/`, their TLC runs, and machine-checked
proofs. File names below are relative to the SDK's directory, or begin with
`examples/`.

To repeat the work: `tlc -config X.cfg M` for every row of the table of runs, and
`tlapm X.tla` for the eight `*Proofs.tla`.

## 1. Inventory

The SDK lets a user's script build a hardware design on a server (the
*orchestrator*, not in this repository), have it flashed to one of a few FPGA
boards, and read and write the design's registers. A second part runs untrusted
agents in a container and brokers their requests for silicon. The examples are
designs for the board with the programs that drive them.

| component | state it keeps | operations | hard behaviours |
|---|---|---|---|
| **WebSocket transport** (`_transport.py`) | `_lock`, `_conn`, `_last_used`, one stop event and watcher thread per socket | `read`, `write`, `close`, the idle watcher | threads against threads, watcher and `close`; replies paired by order only; a retry on a fresh socket; Ctrl-C in mid-exchange; the 25 s idle timeout against the server's 30 s lease |
| **App session** (`_app.py`) | `fpga_id`, `_programmed`, `_connection` | `read`, `write`, `_program`, `release`, `with` | a build of hours that may be interrupted, fail, time out or complete while it is being cancelled; board leaks; state that outlives the session; two threads making the first call |
| **Orchestrator client** (`_client.py`) | none; polling loops | `submit`, `poll_job`, `cancel_job`, `release_session`, `reset_fpga`, `read`, `write`, `_poll_run`, queries | lost requests and responses, deadlines |
| **HTTP transport** (`HttpTransport`, `_client._poll_run`) | none | each call is a queued job that is polled | giving up on a job that runs all the same |
| **Sandbox and promote broker** (`bench/sandbox.py`, `bench/silicon.py`, `_broker_client.py`) | a workspace directory of request and response files, the list of promotions, the stop event | `promote` (in the container), `poll_once`, `Sandbox.run`, `CloudSilicon` | a poller thread and a drain on the same files, a join that times out, exceptions in a daemon thread, removal of the directory |
| **Credentials and login** (`_credentials.py`, `_oauth.py`, `_cli.py`) | one JSON file, keyed by URL | `load`, `save`, `clear`, login, logout, the device flow | read-modify-write without a lock, truncate-then-write, a polling interval that grows |
| **Source discovery** (`_discovery.py`, `_project.py`) | a queue and three maps per bundle | imports, includes and module instances to a set of files | order independence, duplicates, cycles, limits |
| **Build progress and tables** (`_progress.py`, `_cli.py`) | the phase, start time and board of one build | `update`; `mrg jobs`, `mrg status`, `mrg cancel` | phases skipped or seen late, filters and limits applied in the wrong order |
| **Wire codec** (`_wire.py`) | none | `to_bytes`, `from_bytes` | a three-byte length |
| **Echo designs** (`examples/hello_wishbone`, `examples/verilog_hello`) | a memory, the read register, the acknowledge | bus reads and writes | wait states, acknowledge for one cycle, two languages with one timing |
| **MAC design** (`examples/design.py`) | operand and accumulator | bus writes with a side effect | a write held for several cycles must count once |
| **SAT solver** (`examples/sat_solver`) | literal registers, counter, verdict | load, start, poll, read the model | registers rewritten while it searches; a verdict left by an earlier program |
| **FFN accelerator** (`examples/ffn_accel`) | two matrix engines, the GELU table, a windowed register file | load a plan, start, poll, read | pipelines two and three registers deep; off-by-one at drain; a program cut off before it is done |
| progress animation, launcher, local builds, reports, package surface | a few display fields | subprocesses and printing | none that a model would find |

How they interact: an `App` calls the client (HTTP requests) to build, poll,
cancel and release, and makes a transport for the board it was given; the
transport talks to the orchestrator's `/stream` relay, which holds the board's
*link lock* while the socket is open; releasing a board needs that lock. A
`Sandbox` starts a container and a poller thread; they share a directory with
the agent's `promote` calls; the poller calls `CloudSilicon`, which uses the
client just as `App` does. The CLI drives one `App` or one transport, and shares
the credentials file with every other `mrg` process. Before a build, discovery
decides what is uploaded. On the board, the firmware bridge (not in this
repository) turns the frames of the wire codec into bus cycles of the design.

What makes each part correct:

* transports: a caller gets the answer to its own request; nothing runs twice; an
  error that says "did not run" is true; no socket is closed under a call, kept
  for ever, or used after the board's lock is lost; calls and `close` return.
* App: a build nobody waits for is cancelled; a board that stays reserved is one
  its App will release; the socket closes first; calls reach the board of the
  current build; a release touches only the App's own session.
* promotes: one build and one response for each; all of them in the result; a
  waiting agent is answered.
* login: a key goes to no server but its own (`mrg run --api-url` breaks this, see
  the table of disagreements); the file holds what was saved; no
  live key is forgotten without a reason; every command ends.
* discovery: the bundle is exactly what the entry needs, whatever the order.
* designs: every word of a request takes effect once and in order, however the
  bus is paced; verdicts and products are right; a computation ends.

`PROJECT.json` lists the components with their status and every hazard at the
line where it bites.

## 2. Modules

| module | models | lines |
|---|---|---|
| `AtMostOnceCalls` | what a caller of `read`/`write` may rely on: the abstract specification of both transports | 56 |
| `WebSocketTransport` | the transport, the watcher, the library and the relay; all its properties | 578 |
| `WebSocketInvariant`, `WebSocketTransportProofs` | its inductive invariant, the proofs | 105, 1434 |
| `AppSession`, `AppSessionProofs` | one or more Apps, their threads, the orchestrator's jobs and boards; the proofs | 497, 1846 |
| `CloudJobs`, `CloudJobsProofs` | the job table, HTTP calls, a polled build and its progress line, the tables of the CLI; the proofs | 387, 1314 |
| `PromoteBroker`, `PromoteBrokerProofs` | the promote channel, the poller, the drain and `Sandbox.run`; the proofs | 391, 714 |
| `Login`, `LoginProofs` | `mrg` processes over one credentials file; the proofs | 309, 761 |
| `SourceDiscovery`, `DiscoveryProofs` | which files a design is uploaded with; the proofs | 297, 629 |
| `RegisterDevice` | what a memory-mapped design promises its client: the abstract specification of the echo and MAC designs | 47 |
| `WishboneLink` | the frame, the bridge, the bus and the response | 122 |
| `BoardClient` | a program that drives a design over the link | 75 |
| `EchoBoard`, `MacBoard` | the echo memories (Amaranth and Verilog in lock step), the accumulator | 60, 46 |
| `SatCore`, `SatBoard` | the search core; its register file and programs | 135, 135 |
| `MatMulEngine`, `FfnBoard` | one edge of a matrix engine; the accelerator, its driver and the golden model | 116, 188 |
| `Boards`, `BoardsProofs`, `FfnProofs` | one board with one of the designs, and the programs that use it one after the other; the proofs about the bus, the echo designs, the MAC and the solver, and about the accelerator | 110, 4061, 6127 |
| `MCWebSocketTransport`, `MCAppSession`, `MCCloudJobs`, `MCLogin`, `MCSourceDiscovery`, `MCBoards` | small instances for TLC | |

Definitions that a comment calls *Mutant* or *a mistake* are not part of the
specification. Each is a plausible bug in the definition below it; replacing that
definition by it must violate the property named in `PROJECT.json`, which shows
that the property can fail in the run that checks it.

### WebSocketTransport

A thread's `pc` is where it stands in `_transact` (`acquire`, `connect`, `send`,
`reconnect`, `resend`, `recv`) or in `close` (`close`, `join`). `lock` is
`self._lock`, `conn` is `self._conn`, `stopped` the sockets whose stop event is
set, `idle` the time since `_last_used`. One action stands for one stretch of
code between two points where another thread, the network or time can
interfere:

| code | actions |
|---|---|
| `read`/`write`, `_transact` | `Call`, `Acquire`, `Receive`, `CallLost`, `Interrupt`, `InterruptWaiting` |
| `_open_locked`, `_connect` | `ConnectOk`, `ConnectFails` |
| `_send_locked` | `SendOk`, `SendRefused` (then `reconnect`, `resend`), `CallLost` |
| `close` | `CallClose`, `Close`, `Join` |
| `_close_locked` | `CloseLocked`, part of every action that reaches it |
| `_watch_idle` | `WatchReplaced`, `WatchClose`, `WatchSleep`, `WatchWake` |
| relay, library, network | `Forward`, `Drop`, `NoticeClose`, `SeeClose`, `OtherTakes`, `OtherReleases` |

The relay is modelled from what the code says it relies on: it accepts a socket
and closes it with 4409 if the link lock is taken; it pairs requests and replies
by order; only a forwarded operation renews its lease of the lock; a socket that
outlives the lease has its next operation forwarded without the lock and is then
dropped (`_transport.py` 32-51, 109-116, 178-206, 281-297). A reply is
represented by the request it answers. The client cannot see that, and no guard
uses it; `got` merely records it.

*Time.* `Tick` is one unit of time. It happens only when every thread is blocked
and no message is overdue, so local steps take no time compared with seconds of
timeout, and a message takes at most `Latency`. `ForwardsUnderLock` is a
statement about time and needs this; the other safety properties do not depend
on how far time has come.

### AppSession

A thread's `pc` is where it stands in the `with` block (`in`), in `_program`
(`submit`, `poll`, `cancel`, `record`, `mark`), in `_open_connection` and the call
(`connect`, `make`, `use`) or in `release` (`close`, `release`, `reset`). `fpga`,
`programmed` and `connection` are the App's attributes; `live` says which
transports have an open socket, which is all that this module needs of
`WebSocketTransport`. `_program` stores the board (`Record`) and only then counts the
App as programmed (`Mark`); Ctrl-C may come before either. `Given` are the Apps made
with a board, by `App(..., fpga_id=N)` or `mrg run --fpga-id`: they start with
any board, unprogrammed. The orchestrator has jobs (`status`, `assigned`), boards
(`holder`) and sessions that can expire while the board stays reserved, which is
what the 404 fallback of `release` is for.

`Lossy` lets requests and responses get lost. `Mains` are the threads that
receive Ctrl-C. `owner` and `excuse` are history: `excuse[j]` records
which accident left job `j` to itself, so that `NoAbandonedBuild` and
`HeldBoardsTracked` say exactly which accidents can; the first excuse is kept.

### PromoteBroker

`pc` has one entry for the poller thread and one for the main thread; both run
the actions of `poll_once`, on the same files. `todo` is what is left of the
glob, `made` the responses of the current `poll_once`, which reach `promotions`
only when it returns. Requests are numbered in the order of their file names,
random hexadecimal, so agents may make them in any order. `Take` is the request
that `_handle` can read and that its guard refuses or passes, `HandleRaises` any
exception out of `_handle` before the silicon is asked: nothing in `poll_once` catches
it, so it ends the thread that was polling. `Submit`, `Poll` and
`PollHttpError` are `CloudSilicon`.

### CloudJobs

The orchestrator's job table (`job`, `order`, `fpga`, `ran`) and the clients that
only speak HTTP to it. `net[a]` is the request of actor `a`: `quiet`, `asked`, or
the answer on its way. An answer is made from the table at one moment
(`TakeSubmit`, `TakeQuery`) and used at a later one.

| code | actions and operators |
|---|---|
| `_client.read`, `write`, `submit` | `Post`, `Posted`, `Lose` |
| `_poll_run`, the result | `PollRun`, `PolledRun`, `GiveUpRun`, `Result` |
| `poll_job` with its logs and deadline | `PollJob`, `PolledJob`, `Logs`, `Deadline` |
| `BuildProgress.update` on a stream that is no terminal | `update`, `Phase` |
| `list_jobs`, `mrg jobs`, `mrg status`, `mrg cancel` | `list_jobs`, `Among`, `OfType`, `cmd_jobs` (`First`, `Table`), `active_builds`, `cancel_job` |
| orchestrator and workers | `TakeSubmit`, `TakeQuery`, `Start`, `Execute`, `Assign`, `Finish` |

A table of `mrg jobs` without a row counts nothing as hidden: the command says that
there are no such jobs, with a hint at `--type all` unless that was asked for.

`HttpAtMostOnce` maps what a call told its caller to the words of
`AtMostOnceCalls`: an error of the connection, a job that ended otherwise and the
120 rounds running out all leave open whether the call ran.

### Login

Each `mrg` process has a `pc`: a login goes from `code` and `poll` (the device
flow of `_oauth.py`) to `exchange` (the orchestrator mints a key), a logout to
`revoke`, and both to `load`, `open`, `write`, the three steps in which `save` and
`clear` rewrite the credentials file. `text` says whether the file is whole,
empty (truncated) or garbled (two writers wrote over each other); `load_all` is
what a reader makes of it. `Use` is the key lookup (`_creds`, `_creds_optional`) of
every other command but `mrg run`, which is two steps: the user's file is
imported and its App looks a key up for the URL it was written for (`LoadApp`,
`App.__init__`), and then `cmd_run` gives the App the URL of `--api-url`, if any, and
looks a key up only if there was none. `home` is the first of the two URLs. `Crash`
kills a process anywhere. Keys given by `--api-key` or `$MRG_API_KEY` are the
user's choice and not modelled. `owned` is what the commands that finished should have
left in the file, `apart` whether no two rewrites met and none was killed, `let`
the keys knowingly left alive; all three are history.

### SourceDiscovery

A file is what the scanners of `_discovery.py` extract from its text: imports,
includes, memory files, module instances and definitions. `todo` is what is left
of the file being scanned, `queue` the files still to scan, `files` the bundle.
`add`, `scan`, `index`, `finish` and `raise` are the methods of the same names and
the errors they raise. `Garbled` is a text that does not decode or, in Python, does not parse; `Oversize`
the limits of `source_bundle` on the manifest, on the contents with it and on the
archive (`manifest` and `packed` stand for the sizes that JSON and deflate give),
which a single file does not meet because it is uploaded as it is. A module defined
twice, in two files or in one, is ambiguous. The order in which found files are
added is left open: TLC tries all of them, and the reference definition (`Closed`, `Asked`) has none.

### The boards

`WishboneLink` is the path of one request: `to_bytes` and the frame, the bridge,
which serves the words in order with any pauses it likes (`MasterEdge`), the
registered acknowledge every design has (`AckEdge`), and the response, which
arrives in any pieces (`Receive`, `recv_exact`). One clock edge is one step, in
which the design reads the signals of before the edge. `BoardClient` is a client
program on top of it: its straight-line requests, its polling of the control
word, its fetches; `Disconnect` cuts it off anywhere, and another program then
finds the board as it was left.

| design | its edge | its programs |
|---|---|---|
| `EchoSlave` and `echo_slave` | `EchoClock` (`EchoEdge`, `TwinEdge` on the same bus) | `HelloRequests` and the calls of the clients |
| `MacAccumulator` | `MacClock`, `MacWrite`, `MacRead` | `AppRequests` |
| `SatCore`, `SATSlave` | `CoreEdge`, `SatWrite`, `SatRead` | `solve` (socket), `sdk_solve` (SDK) |
| `MatMulEngine`, `FFN`, `FFNSlave` | `EngineEdge`, `GeluStage`, `FfnControl`, the window | `run_plan`; compared with the golden model |

Registers keep their widths: the accelerator's take what `Fits` of a word
(2 bits of target, 16 of pointer, 6 of each shift, the whole word of a multiplier),
the pointer wraps, and the solver's and the MAC's are cut likewise. `Boards` puts one of the four behind the link.
`RegisterDevice` says what a client may rely on: the words of a request take
effect one at a time, in order, exactly once. The echo and MAC boards refine it;
the map counts a word from its acknowledge on (`Landed`), which is when it takes
effect although the bridge has not seen it yet.

## 3. Runs

| run | instance | checks | distinct states |
|---|---|---|---|
| `WebSocketPairing` | 2 threads (one interruptible), 3 calls, 2 sockets, 1 `close`, idle timeout 2, lease 5, latency 1 | `RepliesPaired`, `MidCallSocketKept`, `OpenSocketWatched`, `LeasedInv`, refinement `AtMostOnce`, `ForwardsUnderLock` | 1.0 M |
| `WebSocketLiveness` | 2 threads, 2 calls, 2 sockets, 1 `close`, idle timeout 1, lease 2, latency 0 | `CallsReturn`, `CloseReturns`, `SocketsClose` | 209 k |
| `AppOnce` | 2 Apps on 1 board, 3 jobs, lossy, one thread interruptible, each block entered once | `TypeOK`, `NoAbandonedBuild`, `HeldBoardsTracked`, `SocketClosedFirst` | 241 k |
| `AppReuse` | 1 App made with a board, 2 boards, 3 jobs, 3 transports, block entered twice, early releases | `CallsReachOwnDesign` | 642 k |
| `Promote` | 2 promotes, a guard, silicon of any speed, failing queries, requests that raise, fair | `TypeOK`, `OneBuildPerPromote`, `PromotionsComplete`, `DrainedOnReturn`, `PromotesAnswered` | 265 k |
| `Boards` | each design with two programs one after the other | `CoreTypeOK`, `CoreRight`, `VerdictRight`, `FfnExact`, `SameTiming`, refinements `EchoesInOrder` and `AccumulatesOnce`, `ComputeEnds` | 285 k |
| `Login` | 2 logins, 1 logout, 1 other command, 2 orchestrators, one `slow_down`, one kill | `KeyForServer`, `StoreFaithful`, `LiveKeysAccounted`, `CommandsFinish` | 694 k |
| `CloudJobs` | 1 call, 1 build, 2 earlier resets, 1 board, 2 rounds of `_poll_run`, cancels and lost requests | `TypeOK`, `ListingAccounts`, `LinesHonest`, refinement `HttpAtMostOnce`, `CommandsEnd` | 196 k |
| `Discovery` | 236 small projects, in every order of the queue | `BundleTypeOK`, `BundleExact`, `ImportsResolve`, `CompiledOnce` | 4.0 k |

### Bounds

*Transport.* A stale reply needs one interrupted call and a later one on the same
socket, a double execution needs one reconnect, and competition for the lock
needs two threads; a third call lets both happen after a first success. The
timeouts of `WebSocketPairing` are at the edge: with idle timeout 2 and latency 1
the lease of 5 is safe and a lease of 4 is not, so what the code needs is idle
timeout + 2 * latency < lease; the code's 25 and 30 seconds leave 2.5 seconds in
each direction, the board's own time included. Sockets, jobs and transports run
out (`Conns`, `Jobs`, `Transports` are bounds), after which a thread in `connect`
or `submit` can only fail, and one in `make` stops.

*App.* The interesting cases are a board that changes hands (2 Apps, 1 board) and
an App that changes boards (2 boards, 2 sessions).

*Promotes.* With two promotes one can be answered by the poller and one by the
drain, and either can come too late.

*CloudJobs.* Two rounds stand for 120: one finds the job unfinished, the next is
the last. The limits of the tables are 1 to 3 over up to four jobs of three
types.

*Login.* Two logins and a logout are the three writers that can meet in pairs and
over the same or different URLs; one `slow_down` (`MaxSlow`) changes the interval
once; one process is killed (`MaxCrashes`).

*Discovery.* A Python project (an import that is both a module and a package,
relative imports, a cycle, a name that differs in case only, a symbolic link) and
a Verilog one (an include beside, below and in a skipped directory, modules
defined once, twice and in a cycle, a memory file), each with every subset of
its files, which is what makes imports dangle and lookups ambiguous; with the
entry alone, a whole directory, or a list of sources. `MAX_FILES` 6, `MAX_BYTES` 8,
`MAX_ENTRIES` 12, `MAX_MANIFEST` 3, `MAX_BUNDLE` 8 and `MAX_UPLOAD` 6 are reached by
some and not by others. `BundleTypeOK` says that no bundle exceeds `MAX_FILES` or
`MAX_BYTES`; that the other limits are no stricter or laxer than they should be is
not a property, only part of the model.

*Boards.* Two programs (`MaxRuns`), so that the second finds what the first left;
two polls of the control word before a solve gives up (`POLL_LIMIT`); a memory of
two words; operands of 2 bits and an accumulator of 4, read 3 bits at a time, so
that both wrap; a solver of three variables and two clauses of two literals, with
four formulas, one for each way a sweep can end, and the two of the SDK client in
small; matrices of 2x2, 2x4 and 4x2 in tiles of 2 and codes of 3 bits, the
smallest with more than one tile in a direction; two plans with different
tables. The length field holds up to 15 (`LengthSpan`), longer than any request
here, as the code's three bytes are longer than any of the examples'.

Where an invariant is proved, it holds for every size, so the instance only had
to be large enough to find mistakes.

Runs with `CHECK_DEADLOCK FALSE`: the scripts of `AppSession`, the sandbox run of
`PromoteBroker`, the commands of `Login` and `CloudJobs`, and a discovery all end.
The transport's runs and `Boards` check for deadlock.

Symmetry is used in the safety runs of the transport and the App, on calls,
sockets, jobs, boards and transports, which no formula names; never in the runs
that check liveness.

### Fairness

* `WebSocketTransport`: the operating system schedules threads and watchers and
  the lock is given to a waiting thread (weak fairness for each thread's lock
  acquisition: a call can lose the lock to others only as often as there are
  calls); a handshake ends because of `open_timeout`; the relay serves or closes
  a socket; the library's keep-alive pings find a dead one; time passes. `Join`
  is assumed to return only once the watcher has ended, so `CloseReturns` shows
  that it never needs its one-second limit. `CallsReturn` is as strong as the
  relay: `recv` has no timeout.
* `PromoteBroker`: both threads run, the join returns, and `poll_job`'s deadline
  ends a silicon run; the container need not exit and an agent need not give up.
* `Boards`: the board's clock, and only where it moves the solver or the
  accelerator. The bridge and the clients may stop for ever.
* `Login`: processes run and requests are answered; a device code expires if the
  user does nothing, which is what ends a login nobody approves.
* `CloudJobs`: requests are answered or break, processes run, and `poll_job`'s
  deadline passes in the end (strong fairness: it is looked at once per round).
  Nothing is assumed of the workers.
* `Discovery` claims no liveness.

No failure, kill or loss is ever assumed to happen.

### Where the code and its documentation disagree

Each of these runs checks one sentence of a comment, docstring or test, and
TLC finds it violated (`PROJECT.json` quotes both sides):

| run | property | what happens |
|---|---|---|
| `AppSecondRelease` | `ReleasesOwnSession` | `release` keeps `fpga_id`; the block's exit after an explicit release frees a board that now belongs to another App of the same user |
| `LoginRunUrl` | `RunKeyForServer` | `mrg run --api-url X` sends X the stored key of the URL the App was written for |
| `PromoteHttpError` | `PollerSurvives` | a failed status query is raised out of `CloudSilicon` and ends the poller thread |

The models show more that a maintainer should know of, without a sentence that
says otherwise or with one that a property above already limits:

* Only `_program` counts an App as programmed (`Mark`), so an App that was given the
  board of a live session builds and flashes anew on its first call, and moves to
  whichever board frees up. `_app.py` 39-41 says a board is given "only to reconnect
  [...] without rebuilding", and `mrg run --no-program` (`_cli.py` 232) skips its own
  `_program` only to meet it at the entrypoint's first call. `AppReuse` starts with
  such an App.
* `poll_job`'s deadline raises "The build has NOT been cancelled and may still
  complete" (`_client.py` 175) into the handler of `_program`, which cancels the
  build (`PollRaises` leads to `Cancel`).
* An interrupt at the wrong moment leaves a build or a board behind after the
  `with` block (the excuses of `NoAbandonedBuild` and `HeldBoardsTracked`; the
  README's "releases on exit", `README.md` 111, holds without them).
* Two threads that make an App's first call build twice and open two sockets, of
  which the board's lock admits one.
* When the two-second join times out, the drain takes up the promote the poller
  is still building, and builds it again (`Orderly` in `OneBuildPerPromote`).
* `_progress.py` 113 speaks of one line per phase change; the code writes one per
  status change, so `flashing`, a phase of `running`, seldom gets a line.
* `mrg jobs -n 0` says there are no jobs, which is why `ListingAccounts` asks for
  a limit of at least one.
* A call over HTTP that is given up after 120 rounds is not cancelled and may
  still run; repeating it may run it twice.
* Overlapping rewrites of the credentials lose or garble entries, and a logout
  deletes whatever is stored by then, perhaps the key of a newer login it did not
  revoke (`apart` and `let` in the properties of `Login`).
* Discovery takes `foo.py` for `import foo` also where Python itself would take the
  package `foo/__init__.py`.
* A start pulse while the accelerator computes is dropped without a sign.
* The SDK's SAT client leaves the literals of its previous formula in slots the
  new one does not use; it is right for the two formulas it ships with.
* The Verilog memory has no initial contents, the Amaranth one is zero
  (`SameTiming` compares words once written).
* `to_bytes` cuts a length to three bytes.

## 4. Proofs

Every theorem holds for all values of the constants that satisfy the named
assumptions of its module, and rests on nothing else.

| module | theorems |
|---|---|
| `WebSocketTransportProofs` | `Invariance`, `TypeCorrect`, `PairingCorrect`, `AtMostOnceCorrect`, `RefusalCorrect`, `MidCallCorrect`, `WatchedCorrect`; `Implements`: `Spec => AtMostOnce`; `LeasedInvariance` (`LeasedInv`), `LeaseCorrect` (`ForwardsUnderLock`, for timeouts that leave `Slack`) |
| `AppSessionProofs` | `Invariance`, `TypeCorrect`, `BuildsCorrect` (`NoAbandonedBuild`), `BoardsCorrect` (`HeldBoardsTracked`, for scripts that enter each App once, with one thread), and for the same scripts, of Apps made without a board, `SocketsCorrect` (`SocketClosedFirst`) and `CallsCorrect` (`CallsReachOwnDesign`); `CallsReused`, `SocketsReused`, `BoardsReused`: the same three for scripts of one App, with or without a board in advance, and one thread, whose requests are answered, that enter and release as often as they like |
| `PromoteBrokerProofs` | `Invariance`, `TypeCorrect`, `BuiltOnce`, `ListingCorrect`, `DrainCorrect` |
| `CloudJobsProofs` | `Invariance`, `TypeCorrect`; `Implements`: `Spec => HttpAtMostOnce`; `ProgressCorrect` (`LinesHonest`); `ListingCorrect` (`ListingAccounts`) |
| `LoginProofs` | `Invariance`, `TypeCorrect`, `KeyCorrect`, `StoreCorrect`, `LiveCorrect` |
| `DiscoveryProofs` | `TypeCorrect`, `BundleCorrect` (`BundleExact`), `CompiledCorrect` (`CompiledOnce`), `ImportsCorrect` (`ImportsResolve`) |
| `BoardsProofs` | `BoardInvariance`; `EchoesServed`: `Spec => EchoesInOrder`; `AccumulatedOnce`: `Spec => AccumulatesOnce`; `EchoesAlike` (`SameTiming`); of the solver's core under any writes: `Invariance`, `TypeCorrect`, `VerdictCorrect`; of the core on its board: `SolverInvariance`, `BoardTypeCorrect` (`CoreTypeOK`), `BoardVerdictCorrect` (`CoreRight`), `VerdictTrue` (`VerdictRight`) |
| `FfnProofs` | `FfnInvariance`, `FfnTypeCorrect`; `FfnCorrect` (`FfnExact`) |

In each module `IInv` (`LeasedInv`, `OnceInv`, `UsedInv`, `AloneInv`, `BoardInv`, `SolverInv`, `FfnInv`) is the inductive
invariant, one lemma or step per action shows that the action preserves it, part
by part, and the theorems follow from `Init => IInv` and that. Where a proof goes
by induction over data, it takes the least number at which a claim would fail
(`LeastNumber`, from the well-foundedness of `<`).

The assumptions, and why the code justifies them:

| assumption | what it says | because |
|---|---|---|
| of `WebSocketTransport`, `AppSession`, `PromoteBroker`, `Login`, `EchoBoard`, `MacBoard`, `MatMulEngine` | the constants are sets of distinct names, and bounds, widths and timeouts are numbers | they are |
| `CloudAssumption` | the table's earlier jobs are no actor's and are listed once | a job id is unique |
| `LimitAssumption`, `ProjectAssumption` | the limits are numbers; a project has finitely many files, whose names and imports are made of strings | it is a directory |
| `LengthAssumption` | the length field holds something | three bytes |
| `WordAssumption` | no answer is mistaken for its absence | `None` is no answer |
| `PlanAssumption` | a plan's matrices have the baked-in shape, its entries and its table lie in -127 .. 127, its multipliers are natural numbers and its shifts 1 to 63 | `quantize_int8` and `gelu_lut` clip to that range; `choose_requant` makes a multiplier near 2^31 of a factor, and with it a positive shift of far less than 64; `run_ffn` is called with what `build_plan` returns |
| `ShapeAssumption` | the tiles divide the shape, a burst fits the length field, and the pointer reaches all of a buffer | the assertion of `MatMulEngine.__init__`; three bytes and 16 bits against a few thousand words |
| `CallAssumption` | the requests of the echo and MAC programs have a length, stay in the echo memory, and send the MAC numbers | the calls in the clients are literals |
| `SatAssumption` | the registers are wide enough for every variable and for the two counts | they are sized by `range(MAX_VARS)`, `range(MAX_VARS + 1)` and `range(MAX_CLAUSES + 1)` |
| `ProblemAssumption` | a formula has variables and clauses, fits the registers, and speaks of its own variables | `solve` raises on a formula that does not fit; that it names no variable beyond its count is what a DIMACS header says and `solve` does not check; the SDK's formulas are literals |
| `BlockAssumption` | the length field holds the literal block | three bytes against 200 slots |
| `LeftoverAssumption` | what one of the SDK's formulas leaves in the slots another does not use satisfies no clause that its own literals do not | true of the two it ships with; the SDK's client does not clear them |
| `Slack`, a hypothesis of `LeaseCorrect` only | idle timeout + 2 * latency < lease | 25 and 30 seconds; `_WS_IDLE_TIMEOUT` is chosen for it |

TLC evaluates each named assumption on the instances of the runs.

**WebSocketTransport.** None of the properties is inductive by itself: from a
state in which a reply waits for nobody, the next call would receive it. `IInv`
(`WebSocketInvariant`) adds why that state does not occur:

* `LockInv`, `CallInv`, `SocketInv`: the lock is held exactly by the thread inside
  the exchange, which has a pending call of its own and sees a socket when it
  needs one;
* `RelayInv`: only the current socket is open, and nothing travels on a socket
  without a relay;
* `WireInv`: a socket carries at most one request *or* one reply. A request has
  not run and belongs to the thread waiting on the current socket, or, on a
  socket that is no longer current, to an *interrupted* call; a reply belongs to
  the waiting thread;
* `RanInv`: how often a call ran, by what became of it;
* `WatchInv`: the current socket's watcher is about to look, or sleeps for no
  longer than the idle time that is left.

The middle of the argument is that every way out of the exchange other than a
reply (`CallLost`, `Interrupt`) closes the socket, and that a closed socket's
buffered replies are never read, while a request already under way on it may
still run once, which is why only lost and interrupted calls may run after their
caller was told (`AtMostOnceCalls!Run`). For the refinement, one lemma per group
of actions (quiet ones, a new call, a call that ends, a reply, a forward) shows
that the step is one of `AtMostOnceCalls` or a stutter; the variables map to
themselves.

`ForwardsUnderLock` needs what is known of time (`LeaseInv`): how old the lease of a
socket can be, by what travels on it. A reply set out when the lease was renewed,
so the lease is no older than the reply's time on the way; an idle socket has been
idle since a reply came in, at most one latency after the renewal; and a request
or a close sets out before the idle timeout. That a socket whose caller waits has
something travelling (`WaitInv`) closes the cases. A request therefore arrives no
later than the idle timeout and two latencies after the renewal, which `Slack` puts
before the end of the lease, so nobody else can have taken the lock.

**AppSession.** A job is in the hands of at most one thread, which is at the steps
of `_program` exactly as long (`Waited`), and a board is held by the job it was
assigned to (`Assigned`). `NoAbandonedBuild` then follows for any scripts. That no
board leaks needs `Once`: an App that is entered once by one thread knows no board
but one it was given before its build is recorded (`Fresh`), and once it is programmed
`fpga_id` is that build's board until the block's exit has released it (`Kept`).
Without `Once` it is false, as `AppSecondRelease` shows. For the same scripts, of Apps
made without a board (one that was given a board and is interrupted before its build
is recorded releases the given one, whoever has it by then), `Steady` adds what a thread
relies on at each step: from the record of the build to the release,
the App's board is reserved for that build (`Mine`), because whoever frees a board
frees one that is reserved for its own App. So a call reaches its own design. An
open socket belongs to an App that has not begun its release (`SocketOf`), hence
to another App, with another board, than one that is being released.

A script that enters its App again, or releases it early, makes `fpga_id` outlive its
session, and `Fresh` is lost. With one thread and requests that are answered (`Alone`,
the scripts of `AppReuse`) the argument is another: the App is *programmed* only while
its board is reserved for its build, and it has a connection only while it is
programmed, made for that very board (`Settled`); every other finished build on a
board is in the thread's hands or given up (`Minded`). A stale `fpga_id` may be released
again, but then frees at most what a build that was given up holds. That requests
are answered is needed: a release that frees the board but whose answer is lost
leaves the App programmed, and once the board is given to a build whose submit went
unanswered, the next call reaches that design while it is flashed.

**PromoteBroker.** The two threads take turns as long as the poller ends before
the drain (`Turns`); what one of them builds stays in its hands until the
response is there (`Built`), so the other, which takes up only requests without a
response, does not build it again. `Drain` says that the drain works on a closed
directory, every request of which is answered, ahead, or in its hands; `Lists`
that a response is in the result or in the list of the thread that made it, once.

**CloudJobs.** `CallInv` ties what a client knows of its call to the job in the
table: a refused job never appears, only a call that ran completes, and a job
runs its call once. `IdInv` says that an id was told to its own client. A step of
the client is then the end of a call, and the worker's `Execute` is `Run`. For the
progress lines, `BuildInv` says that an answer on its way is no older than the last
line and no newer than the table (`AnswerInv`), that the board shown is the job's
(`BoardInv`), and that the lines are in the order of the phases (`LineInv`): a
build's status only goes forward, so each stays true until the answer is used. For
the tables, `OrderInv` says that the server's list names each job once, and exactly
the jobs there are. What a filter keeps of a list is a subsequence, given by the
places it picks (`Picks`): so filters compose (`SiftTwice`), the number kept is the
cardinality of the set asked for (`SiftCount`), and cutting after the last filter
hides only jobs whose places come after all that are shown (`NewestShown`).

**Login.** Every key, in the file, in a writer's hands or a process's, was minted
by the orchestrator it is filed under (`Filed`), so no interleaving sends it
elsewhere; the key of an App under `mrg run` was looked up for its `home` or for
its final URL, and is of one of the two. That it is of the second is false, as
`LoginRunUrl` shows. As long as rewrites keep apart, the one in progress differs from the
file in its own entry only (`Tidy`). A live key belongs to a login that finished
its exchange (`Accounted`).

**Discovery.** No induction over the graph of files is needed, because the promise is
stated as a closure. What a scanned file asks for is still to be done or was done
(`Answered`), so that a bundle with nothing left to do is closed; and what is in the
bundle, or still to be added, lies in *every* closed set with the entry (`Needed`),
so that it is the least one. An error is never among what was done, so a bundle is
only returned when each import and include had an answer; and because that answer
is in the bundle, looking it up there gives it again (`CompiledCorrect`,
`ImportsCorrect`), a lookup by file name included.

**The boards.** The master drives the word it has not counted yet, or nothing
(`LinkInv`), so the one cycle in which a design acknowledges is the one in which that
word takes effect, and a step of the board is one `ServeWord` of `RegisterDevice`, an `Ask` or a `Finish`, or a stutter. That the echo and MAC programs ask for
nothing else is `CallsInv`. The two echo designs see the same bus, so they
acknowledge alike and hold the same words where anything was written.

**The solver.** The core alone is right under any writes at any time. The argument is
the sweep: while the formula is the one the last start found (`intact`), nothing
below the counter satisfies it (`SweptClean`), so both places where the core stops, a
hit and the top of the space, are right.

On its board, what has to be shown is that the formula the core searches is the one
the program was given, although the board still holds the literals, the counts and the
verdict of the program before, and may still be searching for it. `SolverInv`
follows a program through its requests: the words it has not yet written are
`Pending` and every other register is `Right` (`Written`); when the start word has
landed, all of them are right and the core searches just this formula
(`Searching`), so that a verdict it then reads (`Polls`) and a model (`Fetches`) are this
search's. The response may arrive in any pieces (`Arriving`), and a request whose
client hung up is served to the end without changing anything a later program would
not overwrite (`Still`). Two lemmas then relate registers to formulas: the encoded
clauses hold of the counter exactly when the formula holds of its bits, and
every assignment is the bits of some number below `Weight[n]`, by induction on `n`.

**The accelerator.** What a client reads must be the golden model's result to the
bit, although the sums are made in pipelines two and three registers deep, the
GELU copy runs two words behind its reads, and the board still holds the
matrices, the results and the registers of the program before. `FfnInv` has three
layers.

*The engines.* In every state of an engine that computes (`EngineRuns`), the words
it has finished are `Exact`, and of the tile at hand is known what each pipeline
stage holds: while it accumulates, every accumulator has the sum of the products
whose operands have passed both registers, and the operand registers hold the
next pair (`Adding`); while it drains, which result is at the requantizer, which
lanes of the word under construction are in place, and which finished word is
about to be written (`Collecting`). The sum is compared with `Total`, the golden
model's, through its law (`TotalLaw`, `SumsGrow`): it exists and is unique by the
least number at which it would not be.

*The pass.* `Pipe` says, state by state of `FfnControl`, which engine runs and what
is already exact: the hidden matrix (`Hid`), the words copied through the table and
the one or two in the copy's registers (`Copied`, `Copying`), the result (`Outcome`).
Engine 2 starts only when every hidden word was copied. From exact words,
`MatrixProduct`, `PassExact` and `UnpackedExact` lead to `y_q`: the packing
of rows and columns into words, the tile walk and the unpacking cancel.

*The program.* `Laid` follows a plan's requests word by word: what they have already
written is on the board, the word on the bus goes where the plan means it, and nothing
else is disturbed. Once the start is answered the board is `Ready`, and remains
so while the client polls and fetches, because none of that writes data
(`Laying`, `Polling`, `Gathering`). A request whose client hung up is still served,
to the end; it may write anything of any plan (`Suited`), which is
why the next program must write all it relies on, and does. What this
needs is that a program begins when the accelerator is at rest, the guard of
`FfnBegin`: a start that comes while it computes would be dropped.

*Only model-checked.* All liveness properties, which are out of the prover's reach.
Every other property of a passing run is stated by a theorem.

## 5. Not modelled

* The words read and written by an SDK call, and the addresses, except on the
  boards. A malformed or text reply of the relay counts as `failed`.
* `_connect` and `_close_locked` are single steps. A Ctrl-C in the middle of
  them, which could leave a connected socket without an owner, is not modelled,
  nor is one between the reply's arrival and the end of the lock. The time
  `conn.close()` may take is not modelled either.
* `release` is modelled without the detail of restoring signal handlers; it is
  shielded from Ctrl-C from its first request on.
* The orchestrator, GitHub, the relay and the firmware bridge are as little as the
  client relies on. The orchestrator assigns boards to jobs in any order.
* The boards that `CloudSilicon`'s jobs hold: it returns on a timeout without
  cancelling, and the board a late build takes is nobody's. This would need the
  boards of `AppSession` next to the promote channel.
* The preparation of the workspace before a sandbox run, docker's command line
  (`bench/launcher.py`), the guard's verdict and the agent's code: their outcomes
  are nondeterministic.
* Argument parsing, formatting, colours and the animation of the progress line.
* The regular expressions with which discovery reads a file: a file is given as
  what they find. Windows paths and text encodings.
* The float calibration that chooses a plan's integers for the accelerator;
  `parse_dimacs` of the SAT client and the SDK client's read of the cycle counter, which is only
  printed. A used board meets the socket client's formulas; the SDK's program always
  starts on a board its App has just flashed, because even an App run with
  `--no-program` builds at its first write (see above). Plans and formulas are given. The accelerator's
  32-bit accumulators hold every sum of the baked-in shapes and are unbounded in
  the model.
* Local builds and their reports, the package's re-exports, and the remaining
  examples (a transformer in numpy, a promote call, a synthesis report, a project
  of two files): one call or one print each, without control of their own.

Four hazards in `PROJECT.json` have no property; each has its reason there.
