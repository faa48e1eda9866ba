---------------------------- MODULE DotnetServer ----------------------------
(***************************************************************************)
(* The POST /run handler of the .NET server (server_dotnet/Program.cs), an *)
(* async method that a client cannot abandon.                              *)
(*                                                                         *)
(* The slot is released in a finally block.  The directories are removed   *)
(* inline, but only at the end of the success path: an exception on the    *)
(* way skips the removal.                                                  *)
(***************************************************************************)
EXTENDS Podman

VARIABLES
  pc,    \* pc[r]: where the handler of r is
  slots, \* how much of runSemaphore is taken
  answer \* answer[r]: the HTTP answer to r

handler == <<pc, slots, answer>>
vars    == <<world, handler>>

PrepSteps == {"mkrun", "mkout", "mkin", "chmod", "inputs", "script", "start"}
Cleanup   == {"rmrun", "rmout", "rmin"}
Idle      == {"new", "done", "lost"}
Steps     == PrepSteps \cup Cleanup
               \cup {"wait", "remove", "read", "collect", "blocked", "finally"} \cup Idle
NoAnswer  == [status |-> 0, exit |-> "none", timedOut |-> FALSE, metrics |-> FALSE]
Answers   == [status : {0, 200, 400, 429, 500},
              exit : {"none", "zero", "nonzero", "signal", "124"},
              timedOut : BOOLEAN, metrics : BOOLEAN]

Init ==
  /\ WorldInit
  /\ pc     = [r \in Requests |-> "new"]
  /\ slots  = 0
  /\ answer = [r \in Requests |-> NoAnswer]

Goto(r, step) == pc' = [pc EXCEPT ![r] = step]
Reply(r, a)   == answer' = [answer EXCEPT ![r] = a]
Failure(r, code) == [answer[r] EXCEPT !.status = code]

\* Mutant of Throw: the release is not in a finally block.
ThrowKeepsSlot(r) ==
  /\ Goto(r, "done") /\ Reply(r, Failure(r, 500))
  /\ UNCHANGED <<world, slots>>

\* An exception, or Process.Start giving null: straight to the finally block.
Throw(r) ==
  /\ Goto(r, "finally") /\ Reply(r, Failure(r, 500))
  /\ UNCHANGED <<world, slots>>
-----------------------------------------------------------------------------
\* The token or the JSON body is wrong (401 or 400, written 400).
Reject(r) ==
  /\ pc[r] = "new"
  /\ Goto(r, "done") /\ Reply(r, Failure(r, 400))
  /\ UNCHANGED <<world, slots>>

\* WaitAsync(0) gives false.
Busy(r) ==
  /\ pc[r] = "new" /\ slots = MaxConcurrency
  /\ Goto(r, "done") /\ Reply(r, Failure(r, 429))
  /\ UNCHANGED <<world, slots>>

\* Mutant of Admit: a semaphore with room for one more.
AdmitOneMore(r) ==
  /\ pc[r] = "new" /\ slots <= MaxConcurrency
  /\ slots' = slots + 1 /\ Goto(r, "mkrun")
  /\ UNCHANGED <<world, answer>>

Admit(r) ==
  /\ pc[r] = "new" /\ slots < MaxConcurrency
  /\ slots' = slots + 1 /\ Goto(r, "mkrun")
  /\ UNCHANGED <<world, answer>>

MakeDir(r, d, here, next) ==
  /\ pc[r] = here
  /\ \/ /\ dirs' = [dirs EXCEPT ![r] = @ \cup {d}]
        /\ Goto(r, next)
        /\ UNCHANGED <<cli, ctr, age, owner, slots, answer>>
     \/ Throw(r)

\* A file operation that changes no state of ours; the chmod and each input
\* file catch their own exceptions.
Prepare(r, here, next) ==
  /\ pc[r] = here
  /\ Goto(r, next) /\ UNCHANGED <<world, slots, answer>>

MakeRunDir(r)  == MakeDir(r, "run", "mkrun", "mkout")
MakeOutDir(r)  == MakeDir(r, "out", "mkout", "mkin")
MakeInDir(r)   == MakeDir(r, "in", "mkin", "chmod")
Chmod(r)       == Prepare(r, "chmod", "inputs")
WriteInputs(r) == Prepare(r, "inputs", "script")
WriteScript(r) == Prepare(r, "script", "start") \/ (pc[r] = "script" /\ Throw(r))

Preparation(r) == \/ MakeRunDir(r) \/ MakeOutDir(r) \/ MakeInDir(r)
                  \/ Chmod(r) \/ WriteInputs(r) \/ WriteScript(r)

Start(r) ==
  /\ pc[r] = "start"
  /\ \/ /\ cli' = [cli EXCEPT ![r] = "up"]
        /\ Goto(r, "wait")
        /\ UNCHANGED <<ctr, age, dirs, owner, slots, answer>>
     \/ Throw(r)

WaitReturns(r) ==
  /\ pc[r] = "wait" /\ cli[r] # "up"
  /\ Goto(r, "read")
  /\ UNCHANGED <<world, slots, answer>>

\* Mutant of Deadline: there is none.
NoDeadline(r) == FALSE /\ UNCHANGED vars

\* Mutant of Deadline: the container is not removed.
DeadlineKillsCliOnly(r) ==
  /\ pc[r] = "wait" /\ age[r] = 2
  /\ cli' = [cli EXCEPT ![r] = IF @ = "up" THEN "killed" ELSE @]
  /\ Goto(r, "read")
  /\ Reply(r, [answer[r] EXCEPT !.timedOut = TRUE])
  /\ UNCHANGED <<ctr, age, dirs, owner, slots>>

\* The token of the deadline is cancelled first: the CLI is killed with its
\* children, of which the container is not one.
Deadline(r) ==
  /\ pc[r] = "wait" /\ age[r] = 2
  /\ cli' = [cli EXCEPT ![r] = IF @ = "up" THEN "killed" ELSE @]
  /\ Goto(r, "remove")
  /\ Reply(r, [answer[r] EXCEPT !.timedOut = TRUE])
  /\ UNCHANGED <<ctr, age, dirs, owner, slots>>

\* `podman rm -f`, before the output is collected.
ForceRemove(r) ==
  /\ pc[r] = "remove"
  /\ ctr' = ForceRemoved(r)
  /\ Goto(r, "read")
  /\ UNCHANGED <<cli, age, dirs, owner, slots, answer>>

\* Mutant of ReadersEnd: a signal is taken for exit code 0.
SignalIsZero(r) ==
  /\ pc[r] = "read" /\ cli[r] # "up"
  /\ Goto(r, "collect")
  /\ Reply(r, [answer[r] EXCEPT !.exit =
                  IF answer[r].timedOut THEN "124"
                  ELSE IF cli[r] = "killed" THEN "zero" ELSE ExitStatus(r)])
  /\ UNCHANGED <<world, slots>>

\* Both readers have drained their pipes to the end.
ReadersEnd(r) ==
  /\ pc[r] = "read" /\ cli[r] # "up"
  /\ Goto(r, "collect")
  /\ Reply(r, [answer[r] EXCEPT !.exit = IF answer[r].timedOut THEN "124"
                                         ELSE ExitStatus(r)])
  /\ UNCHANGED <<world, slots>>

\* The metrics and the output files are read; every failure is caught.
Collect(r) ==
  /\ pc[r] = "collect"
  /\ Goto(r, "rmrun")
  /\ \E m \in MetricsRead(r) : Reply(r, [answer[r] EXCEPT !.metrics = m])
  /\ UNCHANGED <<world, slots>>

\* File.Exists is true of a pipe, and of the output files only reparse points
\* are skipped: a pipe is opened and waited for, unless a file listed before it
\* ends the loop.
Block(r) ==
  /\ pc[r] = "collect" /\ PipeLeft(r)
  /\ Goto(r, "blocked")
  /\ UNCHANGED <<world, slots, answer>>

RemoveDir(r, d, here, next) ==
  /\ pc[r] = here
  /\ dirs' = [dirs EXCEPT ![r] = DirsAfterRemoving(r, d)]
  /\ Goto(r, next)
  /\ UNCHANGED <<cli, ctr, age, owner, slots, answer>>

\* Mutant of RemoveOutDir: the input directory is forgotten.
RemoveOutDirOnly(r) == RemoveDir(r, "out", "rmout", "finally")

RemoveRunDir(r) == RemoveDir(r, "run", "rmrun", "rmout")
RemoveOutDir(r) == RemoveDir(r, "out", "rmout", "rmin")
RemoveInDir(r)  == RemoveDir(r, "in", "rmin", "finally")

\* The finally block, after which the result is written: Results.Ok unless an
\* exception has set it.
Finally(r) ==
  /\ pc[r] = "finally"
  /\ slots' = slots - 1 /\ Goto(r, "done")
  /\ answer' = [answer EXCEPT ![r].status = IF @ = 0 THEN 200 ELSE @]
  /\ UNCHANGED world
-----------------------------------------------------------------------------
\* The server process dies and is started again with a new runSemaphore.
Crash ==
  /\ "crash" \in Faults
  /\ \E r \in Requests : pc[r] \notin Idle
  /\ pc'    = [r \in Requests |-> IF pc[r] \in Idle THEN pc[r] ELSE "lost"]
  /\ slots' = 0
  /\ UNCHANGED <<world, answer>>

\* A CLI without a parent is killed by SIGPIPE if it writes.
BrokenPipe(r) ==
  /\ pc[r] = "lost" /\ cli[r] = "up"
  /\ cli' = [cli EXCEPT ![r] = "killed"]
  /\ UNCHANGED <<ctr, age, dirs, owner, handler>>

Clock(r) ==
  /\ pc[r] = "wait" \/ Live(r)
  /\ Tick(r)
  /\ UNCHANGED handler

Client(r) == Reject(r) \/ Busy(r) \/ Admit(r)

Server(r) == \/ Preparation(r) \/ Start(r) \/ WaitReturns(r) \/ Deadline(r)
             \/ ForceRemove(r) \/ ReadersEnd(r) \/ Collect(r) \/ Block(r)
             \/ RemoveRunDir(r) \/ RemoveOutDir(r) \/ RemoveInDir(r) \/ Finally(r)

Environment(r) == \/ Sandbox(r) /\ UNCHANGED handler
                  \/ BrokenPipe(r) \/ Clock(r)

Terminated ==
  /\ \A r \in Requests : pc[r] \in (Idle \ {"new"}) \cup {"blocked"}
                         /\ ~Live(r) /\ cli[r] # "up"
  /\ UNCHANGED vars

Next == \/ \E r \in Requests : Client(r) \/ Server(r) \/ Environment(r)
        \/ Crash \/ Terminated

Spec == Init /\ [][Next]_vars

\* The thread pool runs every continuation and time passes; nothing is asked
\* of podman.
FairSpec == Spec /\ \A r \in Requests : WF_vars(Server(r)) /\ WF_vars(Clock(r))
-----------------------------------------------------------------------------
\* Every variable stays in its domain.
TypeOK ==
  /\ WorldTypeOK
  /\ pc     \in [Requests -> Steps]
  /\ slots  \in 0..MaxConcurrency
  /\ answer \in [Requests -> Answers]

Serving == {r \in Requests : pc[r] \notin Idle}

\* runSemaphore is taken once for each request being served, on the success
\* path, on every exception and after a restart.
SlotsMatchServing == slots = Cardinality(Serving)

\* The server has lost sight of the container of r: it crashed, or the CLI
\* died without the server's killing it.
Lost(r) == pc[r] = "lost" \/ (cli[r] = "killed" /\ ~answer[r].timedOut)

\* README.md:109: the semaphore "bounds simultaneous containers": those of the
\* requests being served, and of those before them as long as the server has not
\* lost sight of the container.
WatchedCap == Cardinality({r \in Running : r \in Serving \/ ~Lost(r)}) <= MaxConcurrency

\* The inline removal never pulls a directory from under a container, and no other
\* path removes one; only a CLI that died before its container defeats this.
MountsInPlace == \A r \in Requests :
  Live(r) /\ (cli[r] = "killed" => answer[r].timedOut) => dirs[r] = DirNames

\* An answer with exit code 0 was collected after the script had ended: unless
\* the script has hidden them, its metrics are there.
SuccessIsComplete ==
  \A r \in Requests \ Hiding : answer[r].status = 200 /\ answer[r].exit = "zero"
                                  => answer[r].metrics

\* The output of a run is collected when its container can write no more,
\* on the deadline too.
CollectedWhenStopped ==
  [][\A r \in Requests : ~Lost(r) /\ pc[r] = "collect" /\ pc'[r] = "rmrun"
                           => ~Live(r)]_vars

\* When a client holds an answer 200, nothing of its run is left on the host
\* but an output directory that the container made its own.
AnsweredRunsAreCleaned == \A r \in Requests : answer[r].status = 200 =>
  /\ dirs[r] \subseteq {"out"}
  /\ dirs[r] # {} => ~Removable(r, "out")

\* The phase and the container of r as a client of the service sees them.
PhaseOf(r) == CASE pc[r] = "new"                       -> "idle"
                [] pc[r] \notin Idle                   -> "admitted"
                [] pc[r] \in Idle \ {"new"} /\ Lost(r) -> "lost"
                [] OTHER                               -> "closed"
BoxOf(r)   == CASE ctr[r] = "absent" -> "none"
                [] Live(r)           -> "running"
                [] OTHER             -> "over"

\* The handler implements the service, save for the requests it has lost sight
\* of, and none is lost unless something dies around it.
Service == INSTANCE RunService WITH
  phase  <- [r \in Requests |-> PhaseOf(r)],
  box    <- [r \in Requests |-> BoxOf(r)],
  Losses <- Faults # {}
ImplementsService == Service!Spec

\* Every admitted request whose script leaves no pipe is answered, whatever becomes
\* of the others: the deadline is enough.
EveryRunReturns ==
  \A r \in Requests \ Piping : (r \in Serving) ~> (pc[r] \in Idle)
=============================================================================
