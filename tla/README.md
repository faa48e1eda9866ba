# run-python-sandbox in TLA+

run-python-sandbox executes untrusted Python scripts, one container per script. A client posts
`{code, network, cpus, memory_mb, input_files}` to `POST /run` of a worker server; the server makes
three directories in `/tmp`, spawns `podman run`, waits for it under a deadline, collects stdout,
stderr, metrics and output files, removes what it made, and answers. The server exists three times,
in Go, Rust and .NET, with one contract and three ways of cleaning up: Go's `defer` stack, Rust's
drop of a future and a detached task, C#'s `finally` and an inline removal. What the three keep and
what they lose when podman, the client or the server itself gives up half-way is the subject of this
project.

Paths below are relative to the repository's root; `G`, `R` and `D` stand for
`server/server_go/main.go`, `server/server_rust/src/main.rs` and `server/server_dotnet/Program.cs`.
The machine-readable companion is `PROJECT.json`: components, runs, the lines behind every
definition, findings, hazards and theorems.

## 1. The system

| Component | State | Operations | Module |
|---|---|---|---|
| Go server, `POST /run` (G) | `sem`, a handler per request with its `defer` stack and a context with a deadline | `handleRun` | `GoServer`, proofs in `GoServerProofs` |
| Rust server, `POST /run` (R) | `SEM`, a future per request, a detached cleanup task | `handle_run`, `execute_sandbox`, `force_remove` | `RustServer`, proofs in `RustServerProofs` |
| .NET server, `POST /run` (D) | `runSemaphore`, an async handler per request | the `/run` lambda | `DotnetServer`, proofs in `DotnetServerProofs` |
| podman CLI and container | the CLI process, the container, the mounted directories, two clocks | `podman run`, `--timeout`, `podman rm -f` | `Podman` (external, as the servers use it) |
| Container entrypoint (`host/entrypoint.sh`) | ownership of `/output`, `metrics.json` | egress rules, chown, launch, metrics, exit status | `Podman` (`Boot`, `ScriptEnds`, `MetricsRead`), `Collection` (`RecordsAfter`), `Libraries` (`Command`) |
| Capture of stdout and stderr | two pipes, two readers, a cap for each | `io.ReadAll(io.LimitReader)`, `read_capped`, `ReadCappedAsync` | `Streams`, proofs in `StreamsProofs` |
| Collection of `/output` | the metrics record, a listing, a byte budget, the map of files answered | G:351-412, R:500-568, D:391-454 | `Collection`, proofs in `CollectionProofs`; when it happens: the server modules |
| Input files | the names and contents of a request, `/input` | base name, base64, write | `Intake`, proofs in `IntakeProofs` |
| Admission | token, method, body, network mode | 401, 405, 413, 415, 400, 422, 429 | `Intake`; one step `Reject` and `Busy` of the server modules |
| Limits and configuration | environment, `Config` | `clampCPUs`, `clampMemory`, `getenv*` | `Limits`, used by `Intake`, proofs in `IntakeProofs` |
| `GET /libraries` | none | one container per call, a fixed list and what the container says | `Libraries` |
| Host CLI worker (`host/worker.py`) | one run without a server, in a directory of the user's | limits, metrics | `Collection` (the kind `worker`) |
| Web front end (`wfe/index.html`) | selected server, libraries, uploads, panes | switch, run, preview; upload is not modelled | `Frontend`, proofs in `FrontendProofs` |
| Seccomp hardening (`host/make-hardened-seccomp.sh`) | none | a set transformation by `jq` | not modelled: done once, by one `jq` expression |
| Image, podman configuration, kernel isolation | static, or the kernel's | - | not modelled: not this code's behaviour |
| Static pages, `tiff.min.js`, build and test scripts | none | - | not modelled: two files read from disk, a vendored decoder, drivers |

How they interact:

- A client calls a server over HTTP. Requests meet in one place only, the semaphore: it is tried
  once, and a full server answers 429 at once; nothing queues.
- A handler owns three directories (`sandbox-run-`, `sandbox-out-` and `sandbox-in-<GUID>`), one
  podman CLI process and one container, named after the GUID. The container is the child of
  conmon, not of the server: killing the CLI does not stop it. Only the script's end, podman's
  `--timeout` and `podman rm -f` do.
- There are two deadlines: podman's `--timeout` after `SANDBOX_TIMEOUT_SEC`, and the server's own 15
  seconds later, the backstop for a podman that does not keep its own.
- The container gives `/output` to UID 10001, a subuid of the host; from then on an ordinary user may
  empty that directory, but not remove it from a sticky `/tmp`.

What is hard here, and therefore what the properties are about:

- a slot must come back exactly once on every path, the early returns, exceptions, dropped futures
  and restarts included, and not before the container that it stands for has left the host;
- the directories must go, but never from under a running container;
- the CLI's end and the container's end are two events: either may come first, or alone;
- a deadline races with the normal end, on both sides of `wait`;
- `/output` is the script's own: it may hide its metrics there, or leave a named pipe whose open waits for ever;
- two pipes, each with a bounded buffer, are filled by one process and read in three ways;
- file sizes are checked and used in two steps, and a container may be writing in between;
- three servers promise one interface, with checks in three orders, settings of two widths, caps in two
  units, and two ways of taking an input file that cannot be written;
- a record of metrics may be left by an earlier run, where the directory is not the run's own;
- the page's answers and callbacks come late, and in any order.

`PROJECT.json` lists the hazards at their lines, with the properties that watch each, or the reason
why none does.

## 2. Modules

    RunService   what a server promises: refuse, admit, launch, halt, close (and lose)
        ^ implemented by (INSTANCE ... WITH, ImplementsService)
    GoServer     RustServer     DotnetServer        one handler per request, all interleavings
        |             |              |  EXTENDS
        +---------- Podman ----------+              CLI, container, directories, clocks

    Streams      the two pipes, three ways of reading: opens up the step "wait" of the servers
    Collection   metrics and output loop, three variants: opens up the step "collect"; and the worker
    Intake       checks, input files, limits, the servers side by side: opens up what is before "start"
      EXTENDS Limits     settings and clamps as operators
    Libraries    GET /libraries, from the container's command to the answer
    Frontend     the page, as a client of the two

    RunService                              proves what it promises; the servers inherit it
    GoServerProofs, RustServerProofs, DotnetServerProofs
                                            inductive invariant, safety, refinement of RunService,
                                            each EXTENDS its server
    StreamsProofs, CollectionProofs, FrontendProofs
                                            inductive invariants and safety, each EXTENDS its module
    IntakeProofs    EXTENDS Intake          theorems about Limits; inductive invariant and safety
    MCIntake, MCLibraries                   the requests, and the image's distributions, for TLC

### Podman

`cli[r]` and `ctr[r]` are separate variables because the code's hardest cases are those where they
disagree. `Create`, `Boot`, `ScriptEnds`, `TimeoutKill`, `CliExits`, `CliFails` and `CliDies` are
podman's and the container's own steps; `ForceRemoved` is the effect of `podman rm -f`, which the
servers put in steps of their own. `age[r]` is the clock of a run in three values: before podman's
timeout, after it, and after the server's. `dirs[r]` and `owner[r]` are the host directories and who
owns the output one.

Taken from the outside world, and relied on:

- `podman rm -f` succeeds when called, and the name it is given is the container's (it is: the three
  servers pass the same GUID). Its failure is ignored by the code and would leave what a CLI that
  dies leaves.
- A podman CLI that is killed before it has created a container creates none.
- `CliDies` stands for the OOM killer, an operator, and, in the Rust server, for SIGPIPE from a
  reader that was closed at its cap (`Streams` shows when that happens).
- GNU time heads its record with a line of text when the script fails, so its `metrics.json` parses only
  after a success (`MetricsRead`).

The script has `/output` to itself (`HadOutput`). Two sets of requests say what it may do there beside
writing files: one of `Hiding` may leave its metrics where the server cannot read them (a mode of `/output`
that shuts the server out, a directory of that name), one of `Piping` a named pipe. Whether it does is open
in every run of such a request, so these hold of the scripts that do neither as well.

### GoServer

`pc[r]` names the statement the handler is about to run, `defers[r]` the depth of its `defer` stack
(the five deferred calls are always registered in the same order, so their number is the stack),
`slots` is `len(sem)`, `answer[r]` the response as it is built. Each action is one statement of
`handleRun` with all of its outcomes: `MakeDir` and `Prepare` go on or return early; `Start` defers
`podman rm -f` before it tries `cmd.Start`; `ContextKill` is `exec.CommandContext` killing the CLI at
the deadline; `WaitReturns` decides exit code and `timed_out` from the error and `ctx.Err()` as
G:335-345 do; `Collect` reads `/output`, and takes zeros for metrics it cannot read; `Block` is
`os.ReadFile` on a pipe, from which no deadline brings the handler back (`pc` is `blocked`, the slot is held); `RemoveContainer`, `RemoveDir` and `ReleaseSlot` unwind, each
a step in which others may interleave. `Crash` restarts the process: no deferred call runs, `sem`
starts empty, containers go on. The handler's context is `context.Background()`, so a client that
leaves changes nothing, and there is no action for it.

### RustServer

The permit lives in the future; `slots'` therefore changes in every step that ends one: `Fail`
(each `?`), `Collect` (the success) and `Disconnect` (axum drops the future of a client that has
gone, at whichever await). The child is spawned without `kill_on_drop`. `cleaner[r]` is the detached
task of R:570, which only the success path spawns; its three removals are steps. `Deadline` and
`ForceRemove` come before `Collect`, unlike in Go. Rust asks `is_file` before it reads, so `Block` needs a
container that has outlived its CLI and puts the pipe there in between.

### DotnetServer

`Throw` is an exception to the `catch` and `finally`; `Deadline`, `ForceRemove`, `ReadersEnd`,
`Collect` as in Rust; `RemoveRunDir`, `RemoveOutDir`, `RemoveInDir` are the inline removal before the
answer; `Finally` releases the semaphore. `Block` may strike after any run, a successful one
included: D:440 skips links only.

The rejections ahead of the semaphore are one action `Reject` in each module, and the 4xx statuses
other than 429 are all written 400; `Intake` tells them apart.

### RunService

The abstract specification: a request goes from idle to admitted to closed, or is refused; at most
`MaxConcurrency` are admitted at a time; its container is launched at most once; and it is closed
only when the container is no longer running. `Lose` lets a server lose sight of requests, and is
enabled only if `Losses`. The three servers implement it under the same mapping (`PhaseOf`, `BoxOf`)
but with different losses: Go loses requests only by a crash of its own process; Rust and .NET lose
one also when its CLI dies before the container, since they do not remove the container on that path,
and Rust when the client leaves. With no faults at all, `Losses` is FALSE and the three give the same
guarantee, which is proved here once (`ServiceIsCapped`, `CappedWithoutLosses`, `AnswersAreFinal`) and
carried to each server through its refinement.

### Streams and Collection

`Streams` has chunks in place of bytes, a script that writes to either stream in any order, pipes
of capacity `PipeCap`, and the three readers: Go drains stdout to its end or cap before it opens
stderr; Rust's tasks close a stream at its cap; .NET's tasks drain beyond it. `kind` is chosen in
`Init`, so that one run compares the three.

`Collection` starts when the container has ended, or been given up. `ReadMetrics` reads and removes
`metrics.json`, then the loop over `/output` goes by `Look` (stat and compare), `Read` (and charge the
budget), `ReadFails`, `Block`. `quiet` says whether the container has stopped; if not, `Grow`, `Unlink`
and `Replace` (by a pipe) run between the steps. Go and Rust take the types from the listing (`Typed`), .NET
does not; of the metrics only Rust looks at the type (`Waits`). Go lists by name, the others in any order; Rust's budget saturates at zero;
a failed read ends .NET's loop. `ListingFails` is the directory that cannot be listed, at the point
where each server lists it: an error in Go and Rust, an answer without files in .NET. The kind
`worker` is `host/worker.py`: it has no loop, and its directory outlives the run, so `Again` starts
the next container in what the last one left (`RecordsAfter`: the record of a success, GNU time's
unparsable one of a failure, one that is hidden or a pipe, or whatever was there if the container was
killed). A record that is hidden (`shut`) stays, and a later container may uncover it; `Interrupt` ends a
worker before it has read the record; and from `Stray` on another container, of a second worker or of a
podman CLI that died, changes `metrics.json` at any moment (`LateRecord`).

### Limits and Intake

`Limits` has no state: `Setting` and `Count` are the readers of the environment, of which .NET's takes a
number that is no 32-bit int (`Ints`) for none; `Clamp` is `clampCPUs` and `clampMemory`; `LogCap` is how
many bytes are kept of a stream of characters of `width` bytes, with .NET's 32-bit product (`Wrapped`) and
its count of UTF-16 units where the others count bytes. `IntMax` and `LongMB` stand for 2^31 - 1 and
2^43 - 1 (the megabytes whose bytes fit 64 bits).

`Intake` gives one request (`given`: what is wrong with it or in its way, its `input_files`, what it
asks for, the operator's settings, the state of the disk) to the three servers side by side, each with
variables of its own. `Refuse` answers the first check that fails in the server's order (`Checks`);
`Write`, `Skip`, `Reject` and `WriteFails` take one entry of `input_files`, in any order; `Launch`
fixes the limits. Flaws that only one server looks for are modelled as such: a body without
`code` is 422 in Rust and an empty script in the others, .NET does not look at `network` at all, and
an empty one is `offline` in Go and 400 in Rust. A body that is JSON with a value of the wrong type
(`shape`) is 422 in Rust, where one that is no JSON is 400. (None of the three passes it on: `NETWORK_MODE` is always `offline`.) Five keys stand for the names: two
plain ones, one with a directory, one with a trailing slash, which is a name in Go and Rust and none in
.NET, and `..`. Five texts stand for the contents, by which decoder takes them (`Decodable`): base64, the
same with blanks around it, with line breaks in it, with blanks in it, and what is none. The directories are made, and the run goes on, in the modules of the servers.

### Libraries

Without concurrency, but through three programs: the server's command line, podman's handing of its
tail to the image's `ENTRYPOINT`, and `entrypoint.sh`, which logs to stdout and launches
`/sandbox/run.py`. `OutputOf` gives the list of distributions to the command that asks for it, and
`Command` is the one the entrypoint launches.

### Frontend

`target`, `libs`, `busy`, `status` and the panes are the page's variables and elements; each pane holds
the number of the run it shows. Requests in flight (`fetches`, and the run while `busy`) and PDFs being
loaded (`painters`) are answered in any order, or not at all. A painter holds the element it was
made for; `Show` and `ShowNothing` replace it on the page, after which it paints unseen
(`attached`). The metrics pane alone is not cleared by a click on the run button.

## 3. What is checked

Deadlock is checked in every run; a `Terminated` disjunct stutters where everything is over, so that a
deadlock would be a handler or container stuck for good. `RunService` has no run of its own: its
promises are proved, and the runs check that the three servers implement it.

| Run | What it shows | Instance | Distinct states |
|---|---|---|---|
| `GoSafety` | slots, cap, mounts, cleanup on every return, completeness, `ImplementsService`, `EveryRunReturns` | 2 requests, 1 slot, CLI deaths and crashes, rootless; one request hides its metrics or leaves a pipe | 816 000 |
| `RustSafety` | the same safety of the Rust server, with clients that leave; collection after the stop; what the detached task leaves | 2 requests, 1 permit, all three faults, rootless, as above | 738 000 |
| `RustLiveness` | `EveryRunReturns`, the detached task's `AnsweredRunsAreCleaned` | 2 requests, 1 permit, disconnects and crashes, as above | 236 000 |
| `DotnetService` | safety, refinement and `EveryRunReturns` of the .NET server | 2 requests, 1 slot, CLI deaths and crashes, as above | 490 000 |
| `Streams` | what is kept, when a script is sure not to be blocked or killed, that each handler gets through | cap 2, pipe 1, up to 4 chunks a stream | 16 000 |
| `Collection` | the budget is kept, not wasted, and overrun by one file at most; whose metrics are reported | 3 files of up to 2, some unreadable or pipes, budget 3; any number of runs of the worker | 1 518 000 |
| `Intake` | what is in `/input` at the launch, where the servers agree, that limits hold | all sets of 10 flaws; up to 2 files of 5 names and 5 texts, disk full or not; 4 requests by 6 defaults by 6 maxima; 7 caps by 3 widths | 294 000 |
| `Frontend` | panes of one run, libraries of the target, the run button | 3 servers, 3 requests for libraries, 2 runs | 18 000 |
| `GoTimeoutReport`, `RustDisconnect`, `RegularFiles`, `LibrariesListed` | counterexamples to what the documents say (section 5) | 1 request, 2 requests, 2 files, 1 call | - |

The properties:

- `SlotsMatchServing`: the semaphore holds one token for each request being served and no other.
- `ContainerCap` (Go): no more containers than slots, those of a server that has crashed excepted; even
  a CLI that dies alone is covered, since every return removes the container before it frees the
  slot.
- `WatchedCap` (Rust, .NET): the same of the requests being served, and of the
  earlier ones whose container the server has not lost sight of. What it has lost sight of is what
  `RustDisconnect` (section 5) is about.
- `ImplementsService`: the refinement of `RunService`, with the losses of each server.
- `MountsInPlace`: a running container has its three directories, whatever the handler does.
- `NothingLeftBehind` (Go): a handler that has returned, on any path, has left nothing it may remove.
- `AnsweredRunsAreCleaned` (Rust: eventually; .NET: before the answer).
- `CleanersFinish` (Rust): a detached task that is through has left nothing of an answered run but an output
  directory the container made its own; the safe part of `AnsweredRunsAreCleaned`.
- `SuccessIsComplete`: exit code 0 comes with the metrics of the script that ended, not with the zeros in
  their place, unless the script has hidden them itself (`Hiding`).
- `CollectedWhenStopped` (Rust, .NET; an action property): output is collected after the container
  has stopped, on the deadline too. Go does not have this property; `Collection` shows what follows.
- `EveryRunReturns`: a request that was admitted is answered (or lost with its server or client). In Go and
  .NET this is about the requests whose script leaves no pipe, in a server where another's may have blocked
  its handler; in Rust about all, as long as no CLI dies under its container.
- `ScriptFinishes`, `HandlerFinishes`: liveness of the streams.
- `CapturedUpToTheCap`: of what was written, exactly the first `Limit` chunks of each stream.
- `FittingScriptsGoOn`: a script that fits (`ScriptFits`) never waits for room in a pipe that nobody reads,
  and is never killed by one whose reader is gone; the safe part of `ScriptFinishes`.
- `WithinBudget`, `NoneLeftOutThatFits`, `OverrunIsOneFile`: the output budget.
- `MetricsAreTheRuns`: no run reports the metrics of an earlier one, although a container that is
  killed leaves no record and the worker's directory may hold another's; unless an earlier worker was
  interrupted, could not read or remove what it found (`tainted`), or another container writes to the
  directory (`strays`). Of a server it holds without exception.
- `InputsPlaced`: a launched run has in `/input`, under each name, one whole entry of that name and
  nothing that was not given; only on a full disk Rust and .NET may have less. Go launches no run
  without all its input.
- `ServersAgree`: a request as the README describes it is launched by all three, with the same input,
  the same limits if the operator's are 32-bit numbers, and the same of an ASCII stream kept below 2 GB; one
  with a single flaw all look for is refused by all, with the same status but for a value of the wrong type.
- `LimitsEnforced`: what is granted lies in `(0, max]` if the numbers the server has read are positive, and
  no server keeps more of a stream than the number it has read, in the unit it counts in.
- `PanesOfOneRun`: output, files and preview are of the run the badge is about, or empty; the body of
  the preview is of the file in its header; the metrics next to a result are its own.
- `LibsFollowTarget`: if the list is the answer to the last request, it is the target's.
- `RunButtonReturns`: the button does not stay disabled.

Two more are stated of `RunService` and proved (section 4), but not among the runs' properties: `Capped`,
which is `WatchedCap` in the service's terms, and `ClosedIsFinal` (an action property), by which a
request that is closed stays so, and no container of it comes up, goes on or goes away afterwards.
`TypeOK` of the Rust and .NET servers is part of their inductive invariants and is not run either.

Each property is shown to depend on the code by a mutant: the module defines, next to an operation,
a variant with a plausible mistake (`AdmitOneMore`, `ReturnAtOnce`, `OutcomeUnchecked`,
`DeadlineKillsCliOnly`, `FailKeepsPermit`, `FitsBelow`...), and the property fails with that variant
in the operation's place. `PROJECT.json` pairs them.

### Why the bounds are enough

Handlers share nothing but the semaphore, and every action but `Crash` is one request's. One of the two
requests may hide its metrics and leave pipes and the other may not, so the two are not symmetric and none is
declared. Two requests
and one slot give every case of the semaphore: taken, full, and taken again after a release, next to
a container that is still there. For safety the theorems of section 4 remove the bound. Each
run's clock has the two deadlines and no more. In `Streams`, 4 chunks against a cap of 2 and a pipe of
1 give every case the code tells apart: below, at, and one or more beyond the cap, with what is beyond
fitting in the pipe or not. In `Collection`, three files allow two to fill the budget (exactly, or
over it by growing) and a third to be turned away; a budget of 3 against files of up to 2 makes
that happen. The worker's runs are not bounded: what one leaves to the next is one of six values.

In `Intake` two entries are enough for a collision, for a bad one before and after a good one, and for
a write that fails over a file that is there; flaws, entries and limits are combined with plain values of
each other, since no action looks at two of them, and the theorems drop the bounds. TLC counts in 32 bits
itself, so that `IntMax` is 5000 and `LongMB` 6000 there: -1, 0, 1 and 3000 against a built-in default of
1024 and maximum of 2048 give every order of request, default and maximum, of every sign, and `IntMax + 1` the
setting that .NET does not read; 2047, 2048 and 4097 are the sizes around the two ends of a 32-bit product
(`Widths` keeps both constants beyond the first). In `Frontend` two runs give an old and a new one
for every callback, and three requests for libraries an answer that is overtaken by the next two.

### Fairness

- Go: `WF(Server(r))`: the Go scheduler runs every goroutine that can go on; the deadline is a timer of
  the runtime, hence among these steps. Rust: `WF(Server(r))` and `WF(Clean(r))`: tokio polls every
  future that was woken and runs the spawned tasks. .NET: `WF(Server(r))`: the thread pool.
- `WF(Clock(r))`: time passes.
- Nothing is asked of clients, podman, the container or the script: a CLI may hang for ever and
  `--timeout` need never fire. `EveryRunReturns` rests on the deadline alone; its mutant is the
  absence of the deadline. (That containers end is podman's promise and not this code's, and no property.)
- `Frontend`: `WF(RunSettles)`: the browser settles the promise of a request that is answered or
  breaks, and `EveryRunReturns` is the servers' part of it. Nothing is asked of the user, of
  `/libraries` or of PDF.js.
- `Streams`: `WF(Script)` and `WF(Read)`: the script goes on when it can, and the readers run. The
  deadline is not fair, except as the hypothesis of `HandlerFinishes` for Go: in that server, a script that
  writes more than a pipe to stderr while stdout is open, or more than cap and pipe to stdout, is
  blocked until the deadline, and only the deadline ends the handler.

## 4. What is proved

For any finite set of requests, any positive `MaxConcurrency`, any of the known faults, rootless or
not, with any of the requests' scripts hiding metrics or leaving pipes: the assumptions `RequestsFinite`,
`MaxIsPositive`, `FaultsKnown`, `RootlessType` and `ScriptsKnown` of `Podman`.
The Go server (`GoServerProofs`):

| Theorem | Statement |
|---|---|
| `Invariant` | `Spec => []IInv` |
| `TypeCorrect`, `NoSlotLeaks`, `BookkeepingIsRight` | the three parts of `IInv` |
| `MountsStay`, `ReturnsClean`, `ContainersAreCapped`, `SuccessCarriesMetrics` | `MountsInPlace`, `NothingLeftBehind`, `ContainerCap`, `SuccessIsComplete`, always |
| `ServiceIsImplemented` | `Spec => ImplementsService` |
| `CappedWithoutCrash` | `Spec => [](Cardinality(Running) <= MaxConcurrency)` if `"crash" \notin Faults` |
| `AnswersAreFinal` | `Spec => Service!ClosedIsFinal` |

The argument. None of the safety invariants is inductive: `NothingLeftBehind` speaks of handlers that
have returned, and whether their directories are gone depends on what was still on the `defer` stack
when they unwound. `IInv` is `TypeOK /\ SlotsMatchServing /\ Bookkeeping`, where `Bookkeeping` has
four parts:

- `DepthMatchesPc`: the depth of the `defer` stack at each statement;
- `DirsMatchDepth`: a directory is on the stack if and only if it exists (but for an output
  directory the server may not remove, and for requests lost in a crash);
- `UpIsHeld`: a CLI is up only while a handler waits for it, a container only under a handler that
  still has `podman rm -f` to run, or after a crash; and then all its directories are there;
- `ZeroIsFinal`: exit code 0 is only ever taken from a container that ended well, and that end is
  final. With `WhatIsRead` (a container that ended well has metrics to be read, unless its script is of
  `Hiding`) and `CollectedIsAnswer` this gives `SuccessCarriesMetrics`: no fault from outside costs a
  success its metrics.

`GoServerProofs` has a lemma for each action of the handler and of the world, with one step for each
conjunct the action can disturb; the slot count rests on lemmas about the cardinality of a set
to which one element is added or from which one is taken. `ContainerCap` follows because each
running container whose request is not lost belongs to a request in `Serving`, whose size is `slots`.

The refinement proof shows the initial states to map to `RunService!Init`, and every step to one of its
steps or to a stutter: `Admit` to `Admit` (its guard by `SlotsMatchServing`), `Create` to `Launch`, the
ends of a container and `RemoveContainer` to `Halt`, `ReleaseSlot` to `Close` (whose guard, that the
container is not running, is `UpIsHeld` at depth 1), `Reject` and `Busy` to `Refuse`, `Crash` to `Lose`.

`RunService` has theorems of its own, for any finite `Requests` and any `MaxConcurrency` in `Nat`
(`Parameters`, the hypothesis of each):

| Theorem | Statement |
|---|---|
| `ServiceInvariant` | `Spec => []IInv` |
| `ServiceIsCapped`, `AnswersAreFinal` | `Spec => []Capped`, `Spec => ClosedIsFinal` |
| `CappedWithoutLosses` | no more containers than slots, always, if `~Losses` |

Its `IInv` says that no more requests are admitted than there are slots, and that a container is up
only under a request admitted or lost. The servers cite these theorems through their instance
(`Service!ServiceIsCapped`) after `ServiceIsImplemented`, having shown `Parameters`
to follow from their own assumptions (`ServiceAssumes`); so what is said of the service once holds of the three.

The Rust and the .NET server, under the same assumptions:

| Theorem | Statement |
|---|---|
| `Invariant`, `TypeCorrect` | `Spec => []IInv`, `Spec => []TypeOK` |
| `NoPermitLeaks` (Rust), `NoSlotLeaks` (.NET) | `SlotsMatchServing`, always |
| `MountsStay`, `SuccessCarriesMetrics` | `MountsInPlace`, `SuccessIsComplete`, always |
| `AnsweredMeansCleaned` (.NET) | `AnsweredRunsAreCleaned`, always |
| `CollectsWhenStopped` | `Spec => CollectedWhenStopped` |
| `CleanersDoFinish` (Rust) | `CleanersFinish`, always |
| `ServiceIsImplemented` | `Spec => ImplementsService` |
| `WatchedAreCapped` | `WatchedCap`, always |
| `CappedWithoutFaults` | no more containers than slots (in Rust: `ContainerCap`), always, if `Faults = {}` |
| `AnswersAreFinal` | `Spec => Service!ClosedIsFinal` |

Without a `defer` stack, what is known of a request depends on its `pc`. `Bookkeeping` is a predicate
`Book(r)` of one request, so that an action of `r` that leaves the others alone has `r` only to account
for (lemma `Local`). Its parts are `Spawned` (there is no CLI before the spawn, none up once the wait is
over, no container without a CLI), `Mounted` (the directories made so far, all of them as long as the
container is up or may come up, unless the CLI died under it), `Watched` (a container still up after
the wait is one whose CLI was killed by another than the server, and that takes a fault), `Reported` (exit
code 0 is only taken from a container that ended well) and, in .NET, `Cleaned` (what the inline removal
leaves). `Watched` is what `CollectedWhenStopped` and the refinement have in common: a step that gives
a slot back is `Close` where the container is over, and `Lose` where `Lost` says so, which `Losses`
(`Faults # {}`) allows. `CappedWithoutFaults` is the other half of `RustDisconnect`: README.md:109, which
a client that leaves refutes, holds as it stands where nothing strikes from outside.

`CleanersFinish` needs to know how far the task has come (`Sweeping`): `run` is gone before `out` is tried,
and an `out` that is still there while `in` is removed is one the server may not remove. That stays so
because a container the server has lost sight of can give its directory away, but not back.

The capture of streams, for any `Limit`, `PipeCap` and `MaxOutput` (`SizesAreNat`):

| Theorem | Statement |
|---|---|
| `Invariant` | `Spec => []IInv` |
| `CapturesUpToTheCap` | `CapturedUpToTheCap`, always |
| `FittingScriptsAlwaysGoOn` | `FittingScriptsGoOn`, always |

`IInv` says of every stream that kept and in the pipe together are what was written as long as the cap
is not reached, and that a reader leaves its stream only at the cap or at the end of an empty pipe
without writers. From there the second is a count: a full pipe that nobody reads, behind a cap that is
reached or (Go's stderr) a reader that has not begun, has taken in more than `ScriptFits` allows.
`KnownReaders` says which server has which kinds of readers, and that .NET's stop at the very end only.

The collection, for any finite set of files, and any sizes, growth, budget and order (`FilesAreNumbered`,
`BoundsAreNat`):

| Theorem | Statement |
|---|---|
| `BudgetInvariant` | `Spec => []BudgetInv` |
| `BudgetIsNeverExceeded`, `BudgetIsUsed`, `OverrunsByOneFile` | `WithinBudget`, `NoneLeftOutThatFits`, `OverrunIsOneFile`, always |
| `MetricsAreNeverStale` | `MetricsAreTheRuns`, always: a record of an earlier run is there only once a worker left one behind, or others write to its directory |

`BudgetInv` is needed because `WithinBudget` does not say why the next file fits: what is left of the
budget and the bytes kept add up to the setting (`BudgetIsCharged`), the file being read is as
large as when it was looked at if the container has stopped (`StillAsLooked`), and the file that ran
over the budget, if there is one, was the last (`OverrunIsTheLast`). The bytes kept are a sum over a set
that the models write with a fold of the library, defined by recursion. The laws of such sums (that a sum
exists, is unique, grows by what is added, shrinks by what is removed) are lemmas of their own at the head
of `CollectionProofs`. They take an induction, which is done on a set of numbers or of subsets in place
of a predicate (`NatInductionOfSet`, `SubsetInductionOfSet`), from the well-foundedness of `<` and
of strict inclusion.

The page, for any servers and files and any number of runs and of requests on their way (`SomeServer`,
`BoundsArePositive`):

| Theorem | Statement |
|---|---|
| `Invariant` | `Spec => [](PanesInv /\ LibsInv)` |
| `PanesAlwaysBelongTogether`, `LastAnswerIsTheTargets` | `PanesOfOneRun`, `LibsFollowTarget`, always |

`PanesInv` adds to `PanesOfOneRun` that a PDF which may still paint on the page is one of the file in the
header (`AttachedIsShown`) and that the button is disabled exactly while a run executes. `LibsInv` says
of the list shown and of every request on its way that none has a number beyond the last one's, and that
the one with the last number is to the target.

The intake, for any set of requests among `Situation` (`SituationsKnown`): any flaws, any `input_files` over the
five names and five texts, characters of 1 to 3 bytes, requests for any integer, and settings of any 64-bit
number or none (`UnsetIsNoNumber`, `Widths`):

| Theorem | Statement |
|---|---|
| `ClampInRange`, `ClampKeeps`, `ClampIsIdempotent` | a request becomes one in `1..max`, stays as it is if it is one, and is clamped once and for all, if default and maximum are positive |
| `UnlimitedByConfiguration` | podman is handed a limit that is not positive exactly if the maximum is not, or the default is not and the request asks for none |
| `SettingsPart` | a setting means the same to the three exactly if it is absent or a 32-bit int, whatever the built-in value |
| `LogCapsAgree`, `LogCapsPart`, `LogCapIsNoMore` | of a stream of characters of `width` bytes .NET keeps `width` times the bytes of the others below 2048 MB, and less than that from there on; none keeps more than the setting, in the unit it counts in |
| `IntakeInvariant` | `Spec => []IInv` |
| `InputsAlwaysPlaced`, `LimitsAlwaysEnforced`, `ServersAlwaysAgree` | `InputsPlaced`, `LimitsEnforced`, `ServersAgree`, always |

`InputsPlaced` speaks of a launched run only, when nothing is left to be looked at. `IInv` says
of the loop half-way what is needed to get there: a file of `/input` is from one of the entries
already taken, a name without a file has no giver among those, a torn file only comes of a full disk
in Rust and .NET, and Go has taken no entry it could not place; that a server past its checks
has passed each of them; and that one refused has failed one of its checks, or (Go) has
met an entry or a disk it stops for. `ServersAgree` then follows by going through what a conforming
request cannot have. The limits rest on the theorems about `Limits` that head `IntakeProofs`.

Only model-checked: liveness (`EveryRunReturns`, Rust's `AnsweredRunsAreCleaned`,
`ScriptFinishes`, `HandlerFinishes`, `RunButtonReturns`), which is out of the prover's reach (fairness and
ENABLED). Where liveness has a safe part, that part is a property of its own and proved
(`CleanersFinish`, `FittingScriptsGoOn`). `Libraries` and the runs of section 5 end in a counterexample.
Every invariant and action property of a passing run is a theorem.

## 5. Where code and documents part

Four runs end in a counterexample, to a line of the README or of the code's own comments:

- `GoTimeoutReport`. README.md:210 says a container that exceeds the timeout is answered with
  `timed_out` true and exit code 124. podman's own `--timeout` is always the first to fire; its CLI
  then exits with podman's status, 15 s before the server's deadline, and the handler reports that
  status with `timed_out` false. 124 is reported only when podman failed to keep its timeout. All
  three servers decide alike.
- `RustDisconnect`. README.md:109 says the semaphore bounds simultaneous containers. A client that
  leaves frees its permit at once, and its container goes on until podman's timeout.
- `RegularFiles`. README.md:104 says that output collection reads regular files only. Go opens
  `metrics.json`, and .NET every name that is no link, without asking for the type: a named pipe that a script
  has left there (in Go one stopped by the timeout, as otherwise the entrypoint's `mv` replaces it) is
  opened, and the handler waits for a writer that never comes, with its slot. Rust asks first.
- `LibrariesListed`. main.rs:269 says `/libraries` lists the libraries installed in the sandbox. The
  command that would list them becomes the arguments of an entrypoint that ignores them and prints
  lines of its own; what it prints is no JSON list, the error is swallowed, and the answer is always the
  nine built-in names. The Go and .NET servers do the same.

Seen while modelling, and part of the models:

- README.md:102 says the output directory is "removed after". The server empties it, but cannot remove
  a directory in a sticky `/tmp` that the entrypoint has given to a subuid; the error is ignored, and
  an empty directory remains of every run whose container booted (`NothingLeftBehind` excepts it).
- README.md:105-106 and 206-207 promise a limit in `(0, max]`, "never unlimited". That holds if the
  operator's default and maximum are positive (`UnlimitedByConfiguration` says exactly when); no
  server looks at its configuration.
- From 2048 MB on, .NET's `SANDBOX_MAX_LOG_MB` wraps: 2048 keeps nothing of a stream, 4097 keeps a 1 MB
  cap. The cap is in characters there (UTF-16 units) and in bytes in the others. A setting from 2^31 on is
  none to .NET, which falls back to the built-in value.
- A script that exits 0 and has made its `metrics.json` unreadable, by the mode of `/output` or as a
  directory, is answered with zeros and no sign of it, by all three.
- A request with a value of the wrong type is 422 in Rust and 400 in the others; an empty `network` is
  `offline` in Go, 400 in Rust and not looked at in .NET.
- An entry of `input_files` that cannot be decoded or written is an error in Go and silently missing in
  Rust and .NET. Base64 with blanks around it is decoded by Rust and .NET, with line breaks in it by Go
  and .NET, with other blanks in it by .NET. Of two names with the same
  base name one is kept, in Go and Rust a random one. A key with a trailing slash is a file
  in Go and Rust and dropped in .NET.
- The worker leaves the metrics of a failing script, which do not parse, among the user's output, where
  its comment (`worker.py:175`) says they are cleaned up: `os.remove` follows `json.load` in one `try`.
- The page's list of libraries is another server's when an answer is overtaken by an earlier one that
  comes later, and when a request fails; nothing on the page numbers them. After a failed run the
  preview goes on saying that it waits for the execution, and the metrics are those of an earlier run.
- The page sends no `Authorization` header: with `SANDBOX_TOKEN` set every run from it is refused. Go and
  .NET ask for the token on `/run` only, Rust on every route, the page itself included.
- In Rust and .NET an error after the first directory was made leaves the directories in `/tmp`: the
  cleanup is on the success path only. In Rust the same goes for a client that leaves.
- In .NET a file that cannot be read hides all those listed after it (`NoneLeftOutThatFits` says so
  in its hypothesis); Go and Rust skip that file only.
- Rust's saturating budget admits empty files once it is used up, and these may grow between stat and
  read; the signed budgets of the others admit none once they are below zero (`OverrunIsOneFile`).
- Go reads the two pipes one after the other (`ScriptFits`, `GoHandlerFinishes`).

## 6. Plan

Done, in this order: `Podman`, `RunService`, `GoServer` and its proofs, the refinement proof,
`RustServer`, `DotnetServer`, `Streams`, `Collection`, `Limits` with its theorems, `Intake` and its
proofs, `Libraries`, `Frontend`; `Collection` extended by the metrics record and the worker;
then the proofs of `RustServer`, `DotnetServer`, `Streams` and of the metrics in `Collection`; the
proofs of the budget in `Collection` and of `Frontend`, and the theorems of `RunService` with what the
servers inherit from them.

Next, in order of what is at stake:

1. The page's uploads: a `FileReader` that ends late puts back a file that was removed.
2. `GET /libraries` as a process: its containers outside the semaphore, and a stderr that nobody reads in
   .NET; with it, as a theorem, that the answer is always the built-in list (section 5).
3. The egress rules per network mode and UID range, of which a run only ever uses `offline`.

### Not modelled

- What the kernel enforces (namespaces, capabilities, seccomp, iptables), the image and its
  configuration files, and the seccomp profile's `jq` expression: no behaviour of this code over time.
- The static pages and `tiff.min.js` (files read from disk, a vendored decoder), the editor, its
  themes and completions, wording and encoding of answers, CORS preflights, the choice of a seccomp
  profile and of the address: no state that a property could be about.
- Build and test scripts: drivers of the program.
- The options of `worker.py`: they are handed to podman as they are. With `--timeout 0`, its default,
  nothing ends a script that does not end.
- A configuration with a negative or zero `SANDBOX_MAX_CONCURRENCY` or `SANDBOX_TIMEOUT_SEC`: the models
  take both to be positive. (A capacity of 0 refuses every run in Go and Rust; a negative one is
  a panic in Go, the default in Rust; .NET's semaphore accepts neither. A timeout of 0 is none to
  podman, and leaves the servers' 15 seconds.)
