------------------------------ MODULE GoServer ------------------------------
(***************************************************************************)
(* The POST /run handler of the Go server (server/server_go/main.go), one  *)
(* goroutine per request.                                                  *)
(*                                                                         *)
(* pc[r] is the statement the handler of r is about to run.  The handler   *)
(* registers its cleanups with defer as it goes; defers[r] is how many it  *)
(* has registered, and since they are always registered in the same order  *)
(* (the slot, the run, out and in directories, `podman rm -f`) that number *)
(* stands for the whole stack.  A return, early or not, sets the answer    *)
(* and goes to "unwind", which pops them last first.                       *)
(***************************************************************************)
EXTENDS Podman

VARIABLES
  pc,     \* pc[r]: where the handler of r is
  slots,  \* how many tokens the channel sem holds
  defers, \* defers[r]: how many deferred calls the handler of r holds
  answer  \* answer[r]: the HTTP answer to r

handler == <<pc, slots, defers, answer>>
vars    == <<world, handler>>

PrepSteps == {"mkrun", "script", "mkout", "chmod", "mkin", "inputs", "start"}
Steps     == PrepSteps \cup
               {"new", "wait", "collect", "blocked", "unwind", "done", "lost"}
NoAnswer  == [status |-> 0, exit |-> "none", timedOut |-> FALSE, metrics |-> FALSE]
Failure(code) == [NoAnswer EXCEPT !.status = code]
Answers   == [status : {0, 200, 400, 429, 500},
              exit : {"none", "zero", "nonzero", "signal", "124"},
              timedOut : BOOLEAN, metrics : BOOLEAN]

Init ==
  /\ WorldInit
  /\ pc     = [r \in Requests |-> "new"]
  /\ slots  = 0
  /\ defers = [r \in Requests |-> 0]
  /\ answer = [r \in Requests |-> NoAnswer]

\* The deferred calls, by their depth in the stack.
SlotDefer      == 1
DirDefer       == [run |-> 2, out |-> 3, in |-> 4]
ContainerDefer == 5

Goto(r, step) == pc' = [pc EXCEPT ![r] = step]
Defer(r, n)   == defers' = [defers EXCEPT ![r] = n]
Reply(r, a)   == answer' = [answer EXCEPT ![r] = a]

\* Mutant of Return: no deferred call runs.
ReturnAtOnce(r, code) ==
  /\ Goto(r, "done") /\ Reply(r, Failure(code))
  /\ UNCHANGED <<world, slots, defers>>

\* An early return.
Return(r, code) ==
  /\ Goto(r, "unwind") /\ Reply(r, Failure(code))
  /\ UNCHANGED <<world, slots, defers>>
-----------------------------------------------------------------------------
\* The method, the body, its JSON or the network mode is wrong (the 4xx
\* statuses are all written 400 here); no slot has been taken yet.
Reject(r) ==
  /\ pc[r] = "new"
  /\ Goto(r, "done") /\ Reply(r, Failure(400))
  /\ UNCHANGED <<world, slots, defers>>

\* The default branch of the select: no room in sem.
Busy(r) ==
  /\ pc[r] = "new" /\ slots = MaxConcurrency
  /\ Goto(r, "done") /\ Reply(r, Failure(429))
  /\ UNCHANGED <<world, slots, defers>>

\* Mutant of Admit: a sem with room for one more.
AdmitOneMore(r) ==
  /\ pc[r] = "new" /\ slots <= MaxConcurrency
  /\ slots' = slots + 1
  /\ Goto(r, "mkrun") /\ Defer(r, SlotDefer)
  /\ UNCHANGED <<world, answer>>

Admit(r) ==
  /\ pc[r] = "new" /\ slots < MaxConcurrency
  /\ slots' = slots + 1
  /\ Goto(r, "mkrun") /\ Defer(r, SlotDefer)
  /\ UNCHANGED <<world, answer>>

\* MkdirAll of one of the three directories, with the defer of its removal.
MakeDir(r, d, here, next) ==
  /\ pc[r] = here
  /\ \/ /\ dirs' = [dirs EXCEPT ![r] = @ \cup {d}]
        /\ Goto(r, next) /\ Defer(r, DirDefer[d])
        /\ UNCHANGED <<cli, ctr, age, owner, slots, answer>>
     \/ Return(r, 500)

\* A file operation that changes no state of ours, or fails with code.
Prepare(r, here, next, codes) ==
  /\ pc[r] = here
  /\ \/ Goto(r, next) /\ UNCHANGED <<world, slots, defers, answer>>
     \/ \E code \in codes : Return(r, code)

MakeRunDir(r)  == MakeDir(r, "run", "mkrun", "script")
WriteScript(r) == Prepare(r, "script", "mkout", {500})
MakeOutDir(r)  == MakeDir(r, "out", "mkout", "chmod")
Chmod(r)       == Prepare(r, "chmod", "mkin", {500})
MakeInDir(r)   == MakeDir(r, "in", "mkin", "inputs")
WriteInputs(r) == Prepare(r, "inputs", "start", {400, 500})

Preparation(r) == \/ MakeRunDir(r) \/ WriteScript(r) \/ MakeOutDir(r)
                  \/ Chmod(r) \/ MakeInDir(r) \/ WriteInputs(r)

\* `podman rm -f` is deferred before the pipes are made and cmd.Start tried.
Start(r) ==
  /\ pc[r] = "start"
  /\ Defer(r, ContainerDefer)
  /\ \/ /\ Goto(r, "wait")
        /\ cli' = [cli EXCEPT ![r] = "up"]
        /\ UNCHANGED <<ctr, age, dirs, owner, slots, answer>>
     \/ /\ Goto(r, "unwind") /\ Reply(r, Failure(500))
        /\ UNCHANGED <<world, slots>>

\* Mutant of ContextKill: exec.Command in place of exec.CommandContext.
NoDeadline(r) == FALSE /\ UNCHANGED vars

\* The deadline of the context: os/exec kills the CLI, not the container.  A
\* CLI that has exited but is not yet waited for is still there to be killed,
\* and cmd.Wait then reports the deadline in place of a zero status.
ContextKill(r) ==
  /\ pc[r] = "wait" /\ cli[r] \in {"up", "exited"} /\ age[r] = 2
  /\ cli' = [cli EXCEPT ![r] = "killed"]
  /\ UNCHANGED <<ctr, age, dirs, owner, handler>>

\* Mutant of Outcome: exitCode keeps its initial 0 when Wait fails.
OutcomeUnchecked(r) ==
  LET timedOut == ExitStatus(r) # "zero" /\ age[r] = 2
  IN  [exit |-> IF timedOut THEN "124" ELSE "zero", timedOut |-> timedOut]

\* What the handler makes of the status and of ctx.Err().
Outcome(r) ==
  LET timedOut == ExitStatus(r) # "zero" /\ age[r] = 2
  IN  [exit |-> IF timedOut THEN "124" ELSE ExitStatus(r), timedOut |-> timedOut]

\* Both ReadAll calls see the end of the pipes and cmd.Wait returns, once the
\* CLI is gone; an error that is not an exit status is answered with 500.
WaitReturns(r) ==
  /\ pc[r] = "wait" /\ cli[r] # "up"
  /\ \/ /\ Goto(r, "collect")
        /\ Reply(r, [NoAnswer EXCEPT !.exit = Outcome(r).exit,
                                     !.timedOut = Outcome(r).timedOut])
        /\ UNCHANGED <<world, slots, defers>>
     \/ Return(r, 500)

\* The output directory is listed, metrics.json and the files are read, and the
\* answer is written; a directory that cannot be listed is an error.
Collect(r) ==
  /\ pc[r] = "collect"
  /\ \/ /\ Goto(r, "unwind")
        /\ \E m \in MetricsRead(r) :
             Reply(r, [answer[r] EXCEPT !.status = 200, !.metrics = m])
        /\ UNCHANGED <<world, slots, defers>>
     \/ Return(r, 500)

\* os.ReadFile looks at no type: a pipe in the place of metrics.json, or of a
\* regular file that a container still up has replaced since the listing, is
\* opened and waited for.  (A script that ends has its metrics.json replaced by
\* the entrypoint's mv.  A pipe whose other end is opened only takes longer.)
Block(r) ==
  /\ pc[r] = "collect" /\ PipeLeft(r) /\ ctr[r] \notin {"ok", "fail"}
  /\ Goto(r, "blocked")
  /\ UNCHANGED <<world, slots, defers, answer>>
-----------------------------------------------------------------------------
\* The deferred calls run, last first, and ignore their errors.
RemoveContainer(r) ==
  /\ pc[r] = "unwind" /\ defers[r] = ContainerDefer
  /\ ctr' = ForceRemoved(r)
  /\ Defer(r, DirDefer["in"])
  /\ UNCHANGED <<cli, age, dirs, owner, pc, slots, answer>>

RemoveDir(r, d) ==
  /\ pc[r] = "unwind" /\ defers[r] = DirDefer[d]
  /\ dirs' = [dirs EXCEPT ![r] = DirsAfterRemoving(r, d)]
  /\ Defer(r, defers[r] - 1)
  /\ UNCHANGED <<cli, ctr, age, owner, pc, slots, answer>>

\* Mutant of ReleaseSlot: sem is left as it is.
ReleaseNothing(r) ==
  /\ pc[r] = "unwind" /\ defers[r] = SlotDefer
  /\ Defer(r, 0) /\ Goto(r, "done")
  /\ UNCHANGED <<world, slots, answer>>

ReleaseSlot(r) ==
  /\ pc[r] = "unwind" /\ defers[r] = SlotDefer
  /\ slots' = slots - 1
  /\ Defer(r, 0) /\ Goto(r, "done")
  /\ UNCHANGED <<world, answer>>

Unwind(r) == \/ RemoveContainer(r) \/ ReleaseSlot(r)
             \/ \E d \in DirNames : RemoveDir(r, d)

\* The server process dies and is started again: no deferred call runs, the
\* new sem is empty, and the podman CLIs go on without a parent.
Crash ==
  /\ "crash" \in Faults
  /\ \E r \in Requests : pc[r] \notin {"new", "done", "lost"}
  /\ pc'     = [r \in Requests |-> IF pc[r] \in {"new", "done"} THEN pc[r] ELSE "lost"]
  /\ defers' = [r \in Requests |-> 0]
  /\ slots'  = 0
  /\ UNCHANGED <<world, answer>>

\* A CLI without a parent is killed by SIGPIPE if it writes.
BrokenPipe(r) ==
  /\ pc[r] = "lost" /\ cli[r] = "up"
  /\ cli' = [cli EXCEPT ![r] = "killed"]
  /\ UNCHANGED <<ctr, age, dirs, owner, handler>>

\* Time passes for a run whose handler waits or whose container is up.
Clock(r) ==
  /\ pc[r] = "wait" \/ Live(r)
  /\ Tick(r)
  /\ UNCHANGED handler

Server(r) == \/ Preparation(r) \/ Start(r) \/ ContextKill(r)
             \/ WaitReturns(r) \/ Collect(r) \/ Block(r) \/ Unwind(r)

Client(r) == Reject(r) \/ Busy(r) \/ Admit(r)

Environment(r) == \/ Sandbox(r) /\ UNCHANGED handler
                  \/ BrokenPipe(r) \/ Clock(r)

\* Nothing is left to do: every request is over, or blocked for good, and so is
\* its container.
Terminated ==
  /\ \A r \in Requests : pc[r] \in {"done", "lost", "blocked"} /\ ~Live(r) /\ cli[r] # "up"
  /\ UNCHANGED vars

Next == \/ \E r \in Requests : Client(r) \/ Server(r) \/ Environment(r)
        \/ Crash \/ Terminated

Spec == Init /\ [][Next]_vars

\* The Go scheduler runs every goroutine, and time passes.  Nothing is asked
\* of podman: its CLI may hang and its --timeout may never fire.
FairSpec == Spec /\ \A r \in Requests : WF_vars(Server(r)) /\ WF_vars(Clock(r))
-----------------------------------------------------------------------------
\* Every variable stays in its domain.
TypeOK ==
  /\ WorldTypeOK
  /\ pc     \in [Requests -> Steps]
  /\ slots  \in 0..MaxConcurrency
  /\ defers \in [Requests -> 0..5]
  /\ answer \in [Requests -> Answers]

\* A handler is serving its request: admitted, and not yet returned.
Serving == {r \in Requests : pc[r] \notin {"new", "done", "lost"}}

\* sem holds exactly one token for each request being served, on every path
\* through the handler and through a restart: no slot leaks, none is freed twice.
SlotsMatchServing == slots = Cardinality(Serving)

\* No more containers of handlers of this server are on the host than it has
\* slots, since every return removes the container before it frees the slot.
\* Those of a server that crashed are not counted: the restart forgets them.
ContainerCap == Cardinality({r \in Running : pc[r] # "lost"}) <= MaxConcurrency

\* The directories mounted into a container stay as long as it is up, even if
\* its CLI has died and the handler has moved on.
MountsInPlace == \A r \in Requests : Live(r) => dirs[r] = DirNames

\* A handler that has returned, on whichever path, has left no container and
\* no directory, save an output directory that the container made its own.
NothingLeftBehind ==
  \A r \in Requests : pc[r] = "done" =>
    /\ ~Live(r) /\ cli[r] # "up"
    /\ dirs[r] \subseteq {"out"}
    /\ dirs[r] # {} => ~Removable(r, "out")

\* An answer with exit code 0 was collected after the script had ended: unless
\* the script has hidden them, its metrics are there and not the zeros in their
\* place, whatever died or timed out on the way.
SuccessIsComplete ==
  \A r \in Requests \ Hiding : answer[r].status = 200 /\ answer[r].exit = "zero"
                                  => answer[r].metrics

\* The phase and the container of r as a client of the service sees them.
PhaseOf(r) == CASE pc[r] = "new"  -> "idle"
                [] pc[r] = "done" -> "closed"
                [] pc[r] = "lost" -> "lost"
                [] OTHER          -> "admitted"
BoxOf(r)   == CASE ctr[r] = "absent" -> "none"
                [] Live(r)           -> "running"
                [] OTHER             -> "over"

\* The handler implements the service it promises, whatever dies around it; a
\* request is lost with the server only.
Service == INSTANCE RunService WITH
  phase  <- [r \in Requests |-> PhaseOf(r)],
  box    <- [r \in Requests |-> BoxOf(r)],
  Losses <- "crash" \in Faults
ImplementsService == Service!Spec

\* The inductive strengthening of the invariants above: how deep the defer
\* stack is at each statement,
DepthOf(step) == CASE step = "mkrun" -> 1
                   [] step \in {"script", "mkout"} -> 2
                   [] step \in {"chmod", "mkin"} -> 3
                   [] step \in {"inputs", "start"} -> 4
                   [] step \in {"wait", "collect", "blocked"} -> 5
                   [] OTHER -> 0
DepthMatchesPc == \A r \in Requests :
  IF pc[r] = "unwind" THEN defers[r] \in 1..5 ELSE defers[r] = DepthOf(pc[r])

\* which directories exist at each depth of it,
DirsMatchDepth == \A r \in Requests :
  /\ defers[r] >= DirDefer.run => "run" \in dirs[r]
  /\ defers[r] >= DirDefer.out => "out" \in dirs[r]
  /\ defers[r] >= DirDefer.in  => "in" \in dirs[r]
  /\ pc[r] # "lost" =>
       /\ "run" \in dirs[r] => defers[r] >= DirDefer.run
       /\ "in" \in dirs[r]  => defers[r] >= DirDefer.in
       /\ "out" \in dirs[r] => defers[r] >= DirDefer.out \/ ~Removable(r, "out")

\* that a CLI or a container is up only under a handler that still holds
\* its removal, or that a crash has lost.
UpIsHeld == \A r \in Requests :
  /\ cli[r] = "up" => pc[r] \in {"wait", "lost"}
  /\ Live(r) => defers[r] = ContainerDefer \/ pc[r] = "lost"
  /\ cli[r] = "up" \/ Live(r) => dirs[r] = DirNames
  /\ pc[r] = "lost" => "crash" \in Faults

\* and that a zero exit code is the script's, whose end is not taken back.
ZeroIsFinal == \A r \in Requests : answer[r].exit = "zero" => ctr[r] = "ok"

\* The bookkeeping of the handler agrees with what it has made on the host.
Bookkeeping == DepthMatchesPc /\ DirsMatchDepth /\ UpIsHeld /\ ZeroIsFinal

\* Every admitted request whose script leaves no pipe is answered and its handler
\* returns, whatever else the script and podman do, and whatever becomes of the
\* other requests: the deadline of the context is enough.
EveryRunReturns ==
  \A r \in Requests \ Piping : (r \in Serving) ~> (pc[r] \in {"done", "lost"})

\* README.md:210: a container that exceeds the timeout is killed and the
\* response carries "timed_out": true with exit_code 124.
TimeoutReported ==
  \A r \in Requests : answer[r].status = 200 /\ ctr[r] = "timeout"
                         => answer[r].timedOut /\ answer[r].exit = "124"
=============================================================================
