----------------------------- MODULE RustServer -----------------------------
(***************************************************************************)
(* The POST /run handler of the Rust server (server_rust/src/main.rs), one *)
(* future per request.                                                     *)
(*                                                                         *)
(* The slot is a permit dropped with the future, whether handle_run        *)
(* returns or the client goes away and the future is dropped half-way.     *)
(* Nothing else is tied to the future: the directories are removed by a    *)
(* detached task that only the success path spawns, and the podman child   *)
(* is not killed on drop.                                                  *)
(***************************************************************************)
EXTENDS Podman

VARIABLES
  pc,      \* pc[r]: where the future of r is
  slots,   \* permits of SEM in use
  cleaner, \* cleaner[r]: the directory the detached task of r removes next,
           \* "none" without a task, or "lost" when a crash took it
  answer   \* answer[r]: the HTTP answer to r

handler == <<pc, slots, cleaner, answer>>
vars    == <<world, handler>>

PrepSteps == {"mkrun", "mkout", "mkin", "chmod", "script", "inputs", "spawn"}
Idle      == {"new", "done", "dropped", "lost"}
Steps     == PrepSteps \cup {"wait", "remove", "read", "collect", "blocked"} \cup Idle
NoAnswer  == [status |-> 0, exit |-> "none", timedOut |-> FALSE, metrics |-> FALSE]
Answers   == [status : {0, 200, 400, 429, 500},
              exit : {"none", "zero", "nonzero", "signal", "124"},
              timedOut : BOOLEAN, metrics : BOOLEAN]

Init ==
  /\ WorldInit
  /\ pc      = [r \in Requests |-> "new"]
  /\ slots   = 0
  /\ cleaner = [r \in Requests |-> "none"]
  /\ answer  = [r \in Requests |-> NoAnswer]

Goto(r, step) == pc' = [pc EXCEPT ![r] = step]
Reply(r, a)   == answer' = [answer EXCEPT ![r] = a]
Failure(r, code) == [answer[r] EXCEPT !.status = code]

\* Mutant of Fail: the permit is forgotten.
FailKeepsPermit(r) ==
  /\ Goto(r, "done") /\ Reply(r, Failure(r, 500))
  /\ UNCHANGED <<world, slots, cleaner>>

\* The future returns an error: the permit is dropped and nothing else done.
Fail(r) ==
  /\ Goto(r, "done") /\ Reply(r, Failure(r, 500))
  /\ slots' = slots - 1
  /\ UNCHANGED <<world, cleaner>>
-----------------------------------------------------------------------------
\* The token, the JSON body or the network mode is wrong (4xx, written 400).
Reject(r) ==
  /\ pc[r] = "new"
  /\ Goto(r, "done") /\ Reply(r, Failure(r, 400))
  /\ UNCHANGED <<world, slots, cleaner>>

\* try_acquire fails.
Busy(r) ==
  /\ pc[r] = "new" /\ slots = MaxConcurrency
  /\ Goto(r, "done") /\ Reply(r, Failure(r, 429))
  /\ UNCHANGED <<world, slots, cleaner>>

\* Mutant of Admit: a semaphore with room for one more.
AdmitOneMore(r) ==
  /\ pc[r] = "new" /\ slots <= MaxConcurrency
  /\ slots' = slots + 1 /\ Goto(r, "mkrun")
  /\ UNCHANGED <<world, cleaner, answer>>

Admit(r) ==
  /\ pc[r] = "new" /\ slots < MaxConcurrency
  /\ slots' = slots + 1 /\ Goto(r, "mkrun")
  /\ UNCHANGED <<world, cleaner, answer>>

MakeDir(r, d, here, next) ==
  /\ pc[r] = here
  /\ \/ /\ dirs' = [dirs EXCEPT ![r] = @ \cup {d}]
        /\ Goto(r, next)
        /\ UNCHANGED <<cli, ctr, age, owner, slots, cleaner, answer>>
     \/ Fail(r)

\* A file operation that changes no state of ours.
Prepare(r, here, next) ==
  /\ pc[r] = here
  /\ Goto(r, next) /\ UNCHANGED <<world, slots, cleaner, answer>>

MakeRunDir(r)  == MakeDir(r, "run", "mkrun", "mkout")
MakeOutDir(r)  == MakeDir(r, "out", "mkout", "mkin")
MakeInDir(r)   == MakeDir(r, "in", "mkin", "chmod")
SetWritable(r) == Prepare(r, "chmod", "script") \/ (pc[r] = "chmod" /\ Fail(r))
WriteScript(r) == Prepare(r, "script", "inputs") \/ (pc[r] = "script" /\ Fail(r))
\* A name, a base64 text or a write that is no good only skips that file.
WriteInputs(r) == Prepare(r, "inputs", "spawn")

Preparation(r) == \/ MakeRunDir(r) \/ MakeOutDir(r) \/ MakeInDir(r)
                  \/ SetWritable(r) \/ WriteScript(r) \/ WriteInputs(r)

Spawn(r) ==
  /\ pc[r] = "spawn"
  /\ \/ /\ cli' = [cli EXCEPT ![r] = "up"]
        /\ Goto(r, "wait")
        /\ UNCHANGED <<ctr, age, dirs, owner, slots, cleaner, answer>>
     \/ Fail(r)

\* Mutant of WaitReturns: status.code().unwrap_or(0).
WaitDefaultsToZero(r) ==
  /\ pc[r] = "wait" /\ cli[r] # "up"
  /\ Goto(r, "read")
  /\ Reply(r, [NoAnswer EXCEPT !.exit = IF cli[r] = "killed" THEN "zero"
                                        ELSE ExitStatus(r)])
  /\ UNCHANGED <<world, slots, cleaner>>

\* child.wait() is ready before the deadline, or fails (there is no child).
WaitReturns(r) ==
  /\ pc[r] = "wait" /\ cli[r] # "up"
  /\ \/ /\ Goto(r, "read")
        /\ Reply(r, [NoAnswer EXCEPT !.exit = ExitStatus(r)])
        /\ UNCHANGED <<world, slots, cleaner>>
     \/ Fail(r)

\* Mutant of Deadline: there is none.
NoDeadline(r) == FALSE /\ UNCHANGED vars

\* Mutant of Deadline: the container is not removed.
DeadlineKillsCliOnly(r) ==
  /\ pc[r] = "wait" /\ age[r] = 2
  /\ cli' = [cli EXCEPT ![r] = IF @ = "up" THEN "killed" ELSE @]
  /\ Goto(r, "read")
  /\ Reply(r, [NoAnswer EXCEPT !.exit = "124", !.timedOut = TRUE])
  /\ UNCHANGED <<ctr, age, dirs, owner, slots, cleaner>>

\* The deadline passes while child.wait() is pending: the CLI is killed (if
\* it has not exited just now) and waited for.
Deadline(r) ==
  /\ pc[r] = "wait" /\ age[r] = 2
  /\ cli' = [cli EXCEPT ![r] = IF @ = "up" THEN "killed" ELSE @]
  /\ Goto(r, "remove")
  /\ Reply(r, [NoAnswer EXCEPT !.exit = "124", !.timedOut = TRUE])
  /\ UNCHANGED <<ctr, age, dirs, owner, slots, cleaner>>

\* force_remove comes before the output is collected.
ForceRemove(r) ==
  /\ pc[r] = "remove"
  /\ ctr' = ForceRemoved(r)
  /\ Goto(r, "read")
  /\ UNCHANGED <<cli, age, dirs, owner, slots, cleaner, answer>>

\* The two reader tasks reach the end of the pipes.
ReadersEnd(r) ==
  /\ pc[r] = "read" /\ cli[r] # "up"
  /\ Goto(r, "collect")
  /\ UNCHANGED <<world, slots, cleaner, answer>>

\* The output directory is read, the cleaner spawned, the answer returned and
\* the permit dropped; a directory that cannot be read is an error.
Collect(r) ==
  /\ pc[r] = "collect"
  /\ \/ /\ Goto(r, "done")
        /\ \E m \in MetricsRead(r) :
             Reply(r, [answer[r] EXCEPT !.status = 200, !.metrics = m])
        /\ cleaner' = [cleaner EXCEPT ![r] = "run"]
        /\ slots' = slots - 1
        /\ UNCHANGED world
     \/ Fail(r)

\* Only regular files are opened; but a container that has outlived its CLI may
\* put a pipe in the place of one between is_file and the read.
Block(r) ==
  /\ pc[r] = "collect" /\ PipeLeft(r) /\ Live(r)
  /\ Goto(r, "blocked")
  /\ UNCHANGED <<world, slots, cleaner, answer>>

\* Mutant of AfterCleaning: the input directory is forgotten.
AfterCleaningTwo == [run |-> "out", out |-> "none", in |-> "none"]

\* What the task removes after a directory: run, out, in.
AfterCleaning == [run |-> "out", out |-> "in", in |-> "none"]

\* The detached task removes the next directory, ignoring errors.
Clean(r) ==
  /\ cleaner[r] \in DirNames
  /\ dirs' = [dirs EXCEPT ![r] = DirsAfterRemoving(r, cleaner[r])]
  /\ cleaner' = [cleaner EXCEPT ![r] = AfterCleaning[cleaner[r]]]
  /\ UNCHANGED <<cli, ctr, age, owner, pc, slots, answer>>
-----------------------------------------------------------------------------
\* The client goes away and the future is dropped where it awaits: the permit
\* is given back, the child and the directories stay.
Disconnect(r) ==
  /\ "disconnect" \in Faults
  /\ pc[r] \notin Idle
  /\ Goto(r, "dropped")
  /\ slots' = slots - 1
  /\ UNCHANGED <<world, cleaner, answer>>

\* The server process dies, its tasks with it, and is started again.
Crash ==
  /\ "crash" \in Faults
  /\ \E r \in Requests : pc[r] \notin Idle \/ cleaner[r] \in DirNames
  /\ pc'      = [r \in Requests |-> IF pc[r] \in Idle THEN pc[r] ELSE "lost"]
  /\ cleaner' = [r \in Requests |-> IF cleaner[r] \in DirNames THEN "lost" ELSE cleaner[r]]
  /\ slots'   = 0
  /\ UNCHANGED <<world, answer>>

\* A CLI without a parent is killed by SIGPIPE if it writes.
BrokenPipe(r) ==
  /\ pc[r] = "lost" /\ cli[r] = "up"
  /\ cli' = [cli EXCEPT ![r] = "killed"]
  /\ UNCHANGED <<ctr, age, dirs, owner, handler>>

Clock(r) ==
  /\ pc[r] = "wait" \/ Live(r)
  /\ Tick(r)
  /\ UNCHANGED handler

Client(r) == Reject(r) \/ Busy(r) \/ Admit(r) \/ Disconnect(r)

Server(r) == \/ Preparation(r) \/ Spawn(r) \/ WaitReturns(r) \/ Deadline(r)
             \/ ForceRemove(r) \/ ReadersEnd(r) \/ Collect(r) \/ Block(r)

Environment(r) == \/ Sandbox(r) /\ UNCHANGED handler
                  \/ BrokenPipe(r) \/ Clock(r)

Terminated ==
  /\ \A r \in Requests : pc[r] \in (Idle \ {"new"}) \cup {"blocked"}
                         /\ ~Live(r) /\ cli[r] # "up"
                         /\ cleaner[r] \notin DirNames
  /\ UNCHANGED vars

Next == \/ \E r \in Requests : Client(r) \/ Server(r) \/ Clean(r) \/ Environment(r)
        \/ Crash \/ Terminated

Spec == Init /\ [][Next]_vars

\* The tokio runtime polls every future that is ready and runs every task,
\* and time passes; nothing is asked of podman.
FairSpec == Spec /\ \A r \in Requests :
                        WF_vars(Server(r)) /\ WF_vars(Clean(r)) /\ WF_vars(Clock(r))
-----------------------------------------------------------------------------
\* Every variable stays in its domain.
TypeOK ==
  /\ WorldTypeOK
  /\ pc      \in [Requests -> Steps]
  /\ slots   \in 0..MaxConcurrency
  /\ cleaner \in [Requests -> {"none", "lost"} \cup DirNames]
  /\ answer  \in [Requests -> Answers]

Serving == {r \in Requests : pc[r] \notin Idle}

\* A permit is in use for each future alive and for nothing else: neither an
\* error, nor a future dropped half-way, nor a restart leaks or doubles one.
SlotsMatchServing == slots = Cardinality(Serving)

\* The server has lost sight of the container of r: its future was dropped, the
\* server crashed, or the CLI died without the server's killing it.
Lost(r) == pc[r] \in {"dropped", "lost"} \/ (cli[r] = "killed" /\ ~answer[r].timedOut)

\* README.md:109: the semaphore "bounds simultaneous containers".
ContainerCap == Cardinality(Running) <= MaxConcurrency

\* It bounds the containers of the requests being served, and of those before
\* them as long as the server has not lost sight of the container.
WatchedCap == Cardinality({r \in Running : r \in Serving \/ ~Lost(r)}) <= MaxConcurrency

\* The cleaner never pulls a directory from under a container, and no other
\* path removes one; only a CLI that died before its container defeats this.
MountsInPlace == \A r \in Requests :
  Live(r) /\ (cli[r] = "killed" => answer[r].timedOut) => dirs[r] = DirNames

\* An answer with exit code 0 was collected after the script had ended: unless
\* the script has hidden them, its metrics are there.
SuccessIsComplete ==
  \A r \in Requests \ Hiding : answer[r].status = 200 /\ answer[r].exit = "zero"
                                  => answer[r].metrics

\* The output of a run is collected when its container can write no more: on
\* the deadline, force_remove comes first.
CollectedWhenStopped ==
  [][\A r \in Requests : ~Lost(r) /\ answer[r].status # 200 /\ answer'[r].status = 200
                           => ~Live(r)]_vars

\* The phase and the container of r as a client of the service sees them.
PhaseOf(r) == CASE pc[r] = "new"                       -> "idle"
                [] pc[r] \notin Idle                   -> "admitted"
                [] pc[r] \in Idle \ {"new"} /\ Lost(r) -> "lost"
                [] OTHER                               -> "closed"
BoxOf(r)   == CASE ctr[r] = "absent" -> "none"
                [] Live(r)           -> "running"
                [] OTHER             -> "over"

\* The handler implements the service, save for the requests it has lost sight
\* of, and none is lost unless something dies or leaves around it.
Service == INSTANCE RunService WITH
  phase  <- [r \in Requests |-> PhaseOf(r)],
  box    <- [r \in Requests |-> BoxOf(r)],
  Losses <- Faults # {}
ImplementsService == Service!Spec

\* Nothing of the run of r is left on the host but an output directory that the
\* container made its own.
Cleaned(r) == /\ dirs[r] \subseteq {"out"}
              /\ dirs[r] # {} => ~Removable(r, "out")

\* A detached task that is through has done its work, whatever the container
\* did to its directories meanwhile.
CleanersFinish == \A r \in Requests :
  answer[r].status = 200 /\ cleaner[r] = "none" => Cleaned(r)

\* Every admitted request is answered, or dropped with its client, whatever its
\* script leaves in /output, as long as no container outlives its CLI.
EveryRunReturns ==
  \A r \in Requests \ (IF "cliDies" \in Faults THEN Piping ELSE {}) :
    (r \in Serving) ~> (pc[r] \in Idle)

\* An answered run is cleaned in the end, unless the server crashes before.
AnsweredRunsAreCleaned ==
  \A r \in Requests : (answer[r].status = 200) ~> (cleaner[r] = "lost" \/ Cleaned(r))
=============================================================================
