-------------------------- MODULE RustServerProofs --------------------------
(***************************************************************************)
(* Proofs about RustServer, for every set of requests, every number of     *)
(* slots and every combination of faults, disconnecting clients included:  *)
(* the inductive invariant, the properties that follow from it, and that   *)
(* the handler implements RunService.                                      *)
(*                                                                         *)
(* What the handler knows of a request concerns that request alone, so the *)
(* bookkeeping is a predicate of one request: an action of r has to be     *)
(* looked at for r only (lemma Local).                                     *)
(***************************************************************************)
EXTENDS RustServer, FiniteSetTheorems, TLAPS

Made == {"chmod", "script", "inputs", "spawn", "wait", "remove", "read", "collect"}

\* The CLI and the container of r at each await of its future.
Spawned(r) ==
  /\ pc[r] \in {"new"} \cup PrepSteps => cli[r] = "none"
  /\ pc[r] \in {"done", "remove", "read", "collect"} => cli[r] # "up"
  /\ cli[r] = "none" => ctr[r] = "absent"
  /\ cli[r] = "exited" => ~Live(r)

\* The directories of r: they are made in order, and only a cleaner, which
\* only a request that is done has, removes one.
Mounted(r) ==
  /\ pc[r] \in {"mkout", "mkin"} => "run" \in dirs[r]
  /\ pc[r] = "mkin" => "out" \in dirs[r]
  /\ pc[r] \in Made => dirs[r] = DirNames
  /\ Live(r) \/ cli[r] = "up" => dirs[r] = DirNames \/ pc[r] = "done"
  /\ cleaner[r] # "none" => pc[r] = "done"

\* A container that is up once its output is read is one the server has lost
\* sight of, and it loses sight of none without a fault.
Watched(r) ==
  /\ pc[r] \in {"read", "collect", "done"} /\ Live(r)
       => cli[r] = "killed" /\ ~answer[r].timedOut
  /\ Lost(r) => Faults # {}

\* What the answer to r says so far.
Reported(r) ==
  /\ pc[r] \in {"new", "wait"} \cup PrepSteps => ~answer[r].timedOut
  /\ answer[r].exit = "zero" => ctr[r] = "ok"
  /\ r \notin Hiding /\ answer[r].status = 200 /\ answer[r].exit = "zero"
       => answer[r].metrics

Book(r) == Spawned(r) /\ Mounted(r) /\ Watched(r) /\ Reported(r)
Bookkeeping == \A r \in Requests : Book(r)

\* The inductive invariant.
IInv == TypeOK /\ SlotsMatchServing /\ Bookkeeping

\* Nothing of the requests other than r is touched.
Others(r) == \A s \in Requests \ {r} :
  /\ pc'[s] = pc[s] /\ cli'[s] = cli[s] /\ ctr'[s] = ctr[s]
  /\ dirs'[s] = dirs[s] /\ cleaner'[s] = cleaner[s] /\ answer'[s] = answer[s]
-----------------------------------------------------------------------------
\* An action of r that leaves the others alone has only r to account for.
LEMMA Local ==
  ASSUME Bookkeeping, NEW r \in Requests, Others(r), Book(r)'
  PROVE  Bookkeeping'
<1>1. ASSUME NEW s \in Requests \ {r} PROVE Book(s)'
  BY <1>1 DEF Bookkeeping, Book, Spawned, Mounted, Watched, Reported, Lost, Live, Others
<1> QED  BY <1>1 DEF Bookkeeping

\* An error reply only fills in the status (main.rs, the (StatusCode, ..) pairs).
LEMMA FailureIsAnswer ==
  ASSUME TypeOK, NEW r \in Requests, NEW code \in {400, 429, 500}
  PROVE  LET b == Failure(r, code)
         IN  /\ b \in Answers /\ b.status = code
             /\ b.exit = answer[r].exit /\ b.timedOut = answer[r].timedOut
<1>1. PICK a \in Answers : a = answer[r]
  BY DEF TypeOK
<1>2. Failure(r, code) = [a EXCEPT !.status = code]
  BY <1>1 DEF Failure
<1>3. LET b == [a EXCEPT !.status = code]
      IN  /\ b \in Answers /\ b.status = code /\ b.exit = a.exit /\ b.timedOut = a.timedOut
  BY DEF Answers
<1> QED  BY <1>1, <1>2, <1>3

\* An answer with the output and its metrics is an answer, with the exit code as it was.
LEMMA MetricsFilledIn ==
  ASSUME NEW a \in Answers, NEW t \in BOOLEAN
  PROVE  LET b == [a EXCEPT !.status = 200, !.metrics = t]
         IN  /\ b \in Answers /\ b.status = 200 /\ b.metrics = t
             /\ b.exit = a.exit /\ b.timedOut = a.timedOut
<1>1. \A b \in Answers : /\ [b EXCEPT !.metrics = t] \in Answers
                         /\ [b EXCEPT !.metrics = t].status = b.status
  BY DEF Answers
<1>2. [a EXCEPT !.status = 200] \in Answers
  BY DEF Answers
<1>3. [a EXCEPT !.status = 200, !.metrics = t]
        = [[a EXCEPT !.status = 200] EXCEPT !.metrics = t]
  BY DEF Answers
<1>4. LET b == [a EXCEPT !.status = 200, !.metrics = t]
      IN  b.status = 200 /\ b.metrics = t /\ b.exit = a.exit /\ b.timedOut = a.timedOut
  BY DEF Answers
<1> QED  BY <1>1, <1>2, <1>3, <1>4

\* So is one with an exit code,
LEMMA ExitFilledIn ==
  ASSUME NEW a \in Answers, NEW e \in {"zero", "nonzero", "signal", "124"}
  PROVE  LET b == [a EXCEPT !.exit = e]
         IN  /\ b \in Answers /\ b.exit = e
             /\ b.status = a.status /\ b.timedOut = a.timedOut
BY DEF Answers

\* and one with the mark of the deadline as well.
LEMMA TimeoutFilledIn ==
  ASSUME NEW a \in Answers, NEW e \in {"zero", "nonzero", "signal", "124"},
         NEW t \in BOOLEAN
  PROVE  LET b == [a EXCEPT !.exit = e, !.timedOut = t]
         IN  b \in Answers /\ b.exit = e /\ b.status = a.status
<1>1. LET b == [a EXCEPT !.exit = e]
      IN  b \in Answers /\ b.exit = e /\ b.status = a.status
  BY DEF Answers
<1>2. ASSUME NEW b \in Answers
      PROVE  LET c == [b EXCEPT !.timedOut = t]
             IN  c \in Answers /\ c.exit = b.exit /\ c.status = b.status
  BY DEF Answers
<1>3. [a EXCEPT !.exit = e, !.timedOut = t]
        = [[a EXCEPT !.exit = e] EXCEPT !.timedOut = t]
  BY DEF Answers
<1> QED  BY <1>1, <1>2, <1>3

\* Before it says anything, an answer says that nothing has happened.
LEMMA NoAnswerSaysNothing ==
  /\ NoAnswer \in Answers /\ NoAnswer.status = 0
  /\ NoAnswer.exit = "none" /\ NoAnswer.timedOut = FALSE
BY SMT DEF NoAnswer, Answers

\* There are finitely many futures alive, so they can be counted.
LEMMA ServingFinite == IsFiniteSet(Serving) /\ Cardinality(Serving) \in Nat
<1>1. IsFiniteSet(Serving)
  BY RequestsFinite, FS_Subset DEF Serving
<1> QED  BY <1>1, FS_CardinalityType

\* A future that takes a permit is one more alive.
LEMMA ServingGrows ==
  ASSUME TypeOK, SlotsMatchServing, NEW r \in Requests, NEW step \in Steps \ Idle,
         r \notin Serving, Goto(r, step), slots' = slots + 1
  PROVE  SlotsMatchServing'
<1>1. Serving' = Serving \cup {r}
  BY DEF Serving, Goto, TypeOK
<1> QED  BY <1>1, ServingFinite, FS_AddElement DEF SlotsMatchServing

\* A future that drops its permit is one less, and it had one to drop.
LEMMA ServingShrinks ==
  ASSUME TypeOK, SlotsMatchServing, NEW r \in Requests, NEW step \in Idle,
         r \in Serving, Goto(r, step), slots' = slots - 1
  PROVE  SlotsMatchServing' /\ slots' \in 0..MaxConcurrency
<1>1. Serving' = Serving \ {r}
  BY DEF Serving, Goto, TypeOK
<1>2. Cardinality(Serving) # 0
  BY ServingFinite, FS_EmptySet
<1>3. SlotsMatchServing'
  BY <1>1, ServingFinite, FS_RemoveElement DEF SlotsMatchServing
<1> QED  BY <1>2, <1>3, ServingFinite, MaxIsPositive DEF TypeOK, SlotsMatchServing

\* A future that goes on, or one that never had a permit, changes no count.
LEMMA ServingStays ==
  ASSUME TypeOK, SlotsMatchServing, NEW r \in Requests, NEW step, Goto(r, step),
         r \in Serving <=> step \notin Idle, UNCHANGED slots
  PROVE  SlotsMatchServing'
<1>1. Serving' = Serving
  BY DEF Serving, Goto, TypeOK
<1> QED  BY <1>1 DEF SlotsMatchServing
-----------------------------------------------------------------------------
\* The invariant holds when the server starts.
LEMMA InitIInv == Init => IInv
<1> SUFFICES ASSUME Init PROVE IInv
  OBVIOUS
<1> USE DEF Init, WorldInit
<1>1. TypeOK
  BY MaxIsPositive DEF TypeOK, WorldTypeOK, CliStates, CtrStates, Steps, Idle, NoAnswer, Answers
<1>2. SlotsMatchServing
  BY FS_EmptySet DEF SlotsMatchServing, Serving, Idle
<1>3. Bookkeeping
  BY DEF Bookkeeping, Book, Spawned, Mounted, Watched, Reported, Made, Lost, Live, NoAnswer
<1> QED  BY <1>1, <1>2, <1>3 DEF IInv

\* An error keeps the invariant wherever the handler returns one (main.rs, the
\* early returns of handle_run).
LEMMA FailKeeps ==
  ASSUME IInv, NEW r \in Requests, Fail(r),
         pc[r] \in PrepSteps \/ (pc[r] \in {"wait", "collect"} /\ cli[r] # "up")
  PROVE  IInv'
<1> USE DEF IInv, Fail, Reply, world
<1> DEFINE a == Failure(r, 500)
<1>1. /\ a \in Answers /\ a.status = 500
      /\ a.exit = answer[r].exit /\ a.timedOut = answer[r].timedOut
  BY FailureIsAnswer
<1>2. answer' = [answer EXCEPT ![r] = a]
  OBVIOUS
<1> HIDE DEF a
<1>3. SlotsMatchServing' /\ slots' \in 0..MaxConcurrency
  BY ServingShrinks DEF Serving, Idle, PrepSteps
<1>4. TypeOK'
  BY <1>1, <1>2, <1>3 DEF TypeOK, WorldTypeOK, Steps, Idle, Goto
<1>5. Others(r)
  BY <1>2 DEF Others, TypeOK, Goto
<1>6. Book(r)'
  BY <1>1, <1>2 DEF TypeOK, Bookkeeping, Book, Spawned, Mounted, Watched, Reported, Made,
     Goto, Lost, Live, PrepSteps, WorldTypeOK, CliStates
<1> QED  BY <1>3, <1>4, <1>5, <1>6, Local

\* Turning a request away, taking it in, and losing its client keep it.
LEMMA ClientKeeps ==
  ASSUME IInv, NEW r \in Requests, Client(r)
  PROVE  IInv'
<1> USE DEF IInv, Reply, world
<1>1. CASE Reject(r) \/ Busy(r)
  <2>1. PICK code \in {400, 429} : answer' = [answer EXCEPT ![r] = Failure(r, code)]
    BY <1>1 DEF Reject, Busy
  <2> DEFINE a == Failure(r, code)
  <2>2. /\ a \in Answers /\ a.status = code
        /\ a.exit = answer[r].exit /\ a.timedOut = answer[r].timedOut
    BY FailureIsAnswer
  <2> HIDE DEF a
  <2>3. /\ pc[r] = "new" /\ Goto(r, "done") /\ answer' = [answer EXCEPT ![r] = a]
        /\ UNCHANGED <<world, slots, cleaner>>
    BY <1>1, <2>1 DEF Reject, Busy, a
  <2>4. SlotsMatchServing'
    BY <2>3, ServingStays DEF Serving, Idle
  <2>5. TypeOK'
    BY <2>2, <2>3 DEF TypeOK, WorldTypeOK, Steps, Idle, Goto
  <2>6. Others(r)
    BY <2>3 DEF Others, TypeOK, Goto
  <2>7. Book(r)'
    BY <2>2, <2>3 DEF TypeOK, Bookkeeping, Book, Spawned, Mounted, Watched, Reported, Made,
       Goto, Lost, Live
  <2> QED  BY <2>4, <2>5, <2>6, <2>7, Local
<1>2. CASE Admit(r)
  <2> USE <1>2 DEF Admit
  <2>1. SlotsMatchServing'
    BY ServingGrows DEF Serving, Steps, PrepSteps, Idle, Goto
  <2>2. TypeOK'
    BY MaxIsPositive DEF TypeOK, WorldTypeOK, Steps, PrepSteps, Goto
  <2>3. Others(r)
    BY DEF Others, TypeOK, Goto
  <2>4. Book(r)'
    BY DEF TypeOK, Bookkeeping, Book, Spawned, Mounted, Watched, Reported, Made, Goto, Lost, Live,
       PrepSteps
  <2> QED  BY <2>1, <2>2, <2>3, <2>4, Local
<1>3. CASE Disconnect(r)
  <2> USE <1>3 DEF Disconnect
  <2>1. SlotsMatchServing' /\ slots' \in 0..MaxConcurrency
    BY ServingShrinks DEF Serving, Idle
  <2>2. TypeOK'
    BY <2>1 DEF TypeOK, WorldTypeOK, Steps, Idle, Goto
  <2>3. Others(r)
    BY DEF Others, TypeOK, Goto
  <2>4. Book(r)'
    BY DEF TypeOK, Bookkeeping, Book, Spawned, Mounted, Watched, Reported, Made, Goto, Lost, Live,
       PrepSteps, Idle, Goto
  <2> QED  BY <2>1, <2>2, <2>3, <2>4, Local
<1> QED  BY <1>1, <1>2, <1>3 DEF Client

\* The three ways in which the handler goes on: it makes the directories in
\* order, does some other file operation, and spawns the CLI.
LEMMA MakeDirKeeps ==
  ASSUME IInv, NEW r \in Requests, NEW d \in DirNames, NEW here, NEW next,
         MakeDir(r, d, here, next),
         <<d, here, next>> \in {<<"run", "mkrun", "mkout">>, <<"out", "mkout", "mkin">>,
                                <<"in", "mkin", "chmod">>}
  PROVE  IInv'
<1> USE DEF IInv
<1>1. CASE Fail(r)
  BY <1>1, FailKeeps DEF MakeDir, PrepSteps
<1>2. CASE /\ dirs' = [dirs EXCEPT ![r] = @ \cup {d}]
           /\ Goto(r, next)
           /\ UNCHANGED <<cli, ctr, age, owner, slots, cleaner, answer>>
  <2> USE <1>2 DEF MakeDir
  <2>1. /\ pc[r] = here /\ here \in {"mkrun", "mkout", "mkin"}
        /\ next \in {"mkout", "mkin", "chmod"}
    OBVIOUS
  <2>2. SlotsMatchServing'
    BY <2>1, ServingStays DEF Serving, Idle
  <2>3. TypeOK'
    BY <2>1 DEF TypeOK, WorldTypeOK, Steps, PrepSteps, Goto
  <2>4. Others(r)
    BY DEF Others, TypeOK, WorldTypeOK, Goto
  <2>5. Spawned(r)' /\ Watched(r)' /\ Reported(r)'
    BY <2>1 DEF TypeOK, Bookkeeping, Book, Spawned, Watched, Reported, Lost, Live, Goto, PrepSteps
  <2>6. Mounted(r)'
    BY DEF TypeOK, WorldTypeOK, Bookkeeping, Book, Mounted, Spawned, Made, Live, Goto, PrepSteps,
       DirNames
  <2> QED  BY <2>2, <2>3, <2>4, <2>5, <2>6, Local DEF Book
<1> QED  BY <1>1, <1>2 DEF MakeDir

LEMMA PrepareKeeps ==
  ASSUME IInv, NEW r \in Requests, NEW here, NEW next, Prepare(r, here, next),
         <<here, next>> \in {<<"chmod", "script">>, <<"script", "inputs">>, <<"inputs", "spawn">>}
  PROVE  IInv'
<1> USE DEF IInv, Prepare, world
<1>1. SlotsMatchServing'
  BY ServingStays DEF Serving, Idle
<1>2. TypeOK'
  BY DEF TypeOK, WorldTypeOK, Steps, PrepSteps, Goto
<1>3. Others(r)
  BY DEF Others, TypeOK, Goto
<1>4. Book(r)'
  BY DEF TypeOK, Bookkeeping, Book, Spawned, Mounted, Watched, Reported, Made,
     Goto, Lost, Live, PrepSteps
<1> QED  BY <1>1, <1>2, <1>3, <1>4, Local

LEMMA PreparationKeeps ==
  ASSUME IInv, NEW r \in Requests, Preparation(r)
  PROVE  IInv'
BY MakeDirKeeps, PrepareKeeps, FailKeeps DEF Preparation, MakeRunDir, MakeOutDir, MakeInDir,
   SetWritable, WriteScript, WriteInputs, DirNames, PrepSteps

LEMMA SpawnKeeps ==
  ASSUME IInv, NEW r \in Requests, Spawn(r)
  PROVE  IInv'
<1> USE DEF IInv, Spawn
<1>1. CASE Fail(r)
  BY <1>1, FailKeeps DEF PrepSteps
<1>2. CASE /\ cli' = [cli EXCEPT ![r] = "up"]
           /\ Goto(r, "wait")
           /\ UNCHANGED <<ctr, age, dirs, owner, slots, cleaner, answer>>
  <2> USE <1>2
  <2>1. SlotsMatchServing'
    BY ServingStays DEF Serving, Idle
  <2>2. TypeOK'
    BY DEF TypeOK, WorldTypeOK, CliStates, Steps, Goto
  <2>3. Others(r)
    BY DEF Others, TypeOK, WorldTypeOK, Goto
  <2>4. Book(r)'
    BY DEF TypeOK, WorldTypeOK, Bookkeeping, Book, Spawned, Mounted, Watched, Reported, Made,
       Goto, Lost, Live, PrepSteps
  <2> QED  BY <2>1, <2>2, <2>3, <2>4, Local
<1> QED  BY <1>1, <1>2

\* The exit code is zero only for a script that ended with zero, whoever
\* killed the CLI (main.rs, status.code() of a signalled child is -1).
LEMMA WaitReturnsKeeps ==
  ASSUME IInv, NEW r \in Requests, WaitReturns(r)
  PROVE  IInv'
<1> USE DEF IInv, WaitReturns, world
<1>1. CASE Fail(r)
  BY <1>1, FailKeeps
<1>2. CASE /\ Goto(r, "read")
           /\ Reply(r, [NoAnswer EXCEPT !.exit = ExitStatus(r)])
           /\ UNCHANGED <<world, slots, cleaner>>
  <2> DEFINE a == [NoAnswer EXCEPT !.exit = ExitStatus(r)]
  <2>1. PICK e \in {"zero", "nonzero", "signal", "124"} : e = ExitStatus(r)
    BY DEF ExitStatus
  <2>2. LET b == [NoAnswer EXCEPT !.exit = e]
        IN  b \in Answers /\ b.exit = e /\ b.status = 0 /\ b.timedOut = FALSE
    BY ExitFilledIn, NoAnswerSaysNothing, Zenon
  <2>3. a \in Answers /\ a.exit = ExitStatus(r) /\ a.status = 0 /\ ~a.timedOut
    BY <2>1, <2>2
  <2>4. answer' = [answer EXCEPT ![r] = a]
    BY <1>2 DEF Reply
  <2> HIDE DEF a
  <2> USE <1>2
  <2>5. SlotsMatchServing'
    BY ServingStays DEF Serving, Idle
  <2>6. TypeOK'
    BY <2>3, <2>4 DEF TypeOK, WorldTypeOK, Steps, Goto
  <2>7. Others(r)
    BY <2>4 DEF Others, TypeOK, Goto
  <2>8. Book(r)'
    BY <2>3, <2>4 DEF TypeOK, WorldTypeOK, CliStates, Bookkeeping, Book, Spawned, Mounted, Watched,
       Reported, Made, Goto, Lost, Live, PrepSteps, ExitStatus
  <2> QED  BY <2>5, <2>6, <2>7, <2>8, Local
<1> QED  BY <1>1, <1>2

\* On the deadline the CLI is killed, whether or not it has just exited.
LEMMA DeadlineKeeps ==
  ASSUME IInv, NEW r \in Requests, Deadline(r)
  PROVE  IInv'
<1> USE DEF IInv, Deadline
<1> DEFINE a == [NoAnswer EXCEPT !.exit = "124", !.timedOut = TRUE]
<1>1. a \in Answers /\ a.exit = "124" /\ a.status = 0
  BY TimeoutFilledIn, NoAnswerSaysNothing, Zenon
<1>2. answer' = [answer EXCEPT ![r] = a]
  BY DEF Reply
<1> HIDE DEF a
<1>3. SlotsMatchServing'
  BY ServingStays DEF Serving, Idle
<1>4. TypeOK'
  BY <1>1, <1>2 DEF TypeOK, WorldTypeOK, CliStates, Steps, Goto
<1>5. Others(r)
  BY <1>2 DEF Others, TypeOK, WorldTypeOK, Goto
<1>6. Spawned(r)' /\ Mounted(r)'
  BY DEF TypeOK, WorldTypeOK, CliStates, Bookkeeping, Book, Spawned, Mounted, Made, Goto,
     Live, PrepSteps
<1>7. a.timedOut
  BY Zenon DEF a, NoAnswer
<1>8. Watched(r)' /\ Reported(r)'
  BY <1>1, <1>2, <1>7 DEF TypeOK, WorldTypeOK, Watched, Reported, Lost, Goto, PrepSteps
<1> QED  BY <1>3, <1>4, <1>5, <1>6, <1>8, Local DEF Book

\* After force_remove the container writes no more.
LEMMA ForceRemoveKeeps ==
  ASSUME IInv, NEW r \in Requests, ForceRemove(r)
  PROVE  IInv'
<1> USE DEF IInv, ForceRemove
<1>1. ctr' = IF Live(r) THEN [ctr EXCEPT ![r] = "removed"] ELSE ctr
  BY DEF ForceRemoved
<1>2. ~Live(r)' /\ (ctr[r] = "ok" => ctr'[r] = "ok") /\ (ctr[r] = "absent" => ctr'[r] = "absent")
  BY <1>1 DEF Live, TypeOK, WorldTypeOK
<1>3. SlotsMatchServing'
  BY ServingStays DEF Serving, Idle
<1>4. TypeOK'
  BY <1>1 DEF TypeOK, WorldTypeOK, CtrStates, Ended, Steps, Goto
<1>5. Others(r)
  BY <1>1 DEF Others, TypeOK, WorldTypeOK, Goto
<1>6. Book(r)'
  BY <1>2 DEF TypeOK, Bookkeeping, Book, Spawned, Mounted, Watched, Reported, Made, Goto,
     Lost, PrepSteps
<1> QED  BY <1>3, <1>4, <1>5, <1>6, Local

LEMMA ReadersEndKeeps ==
  ASSUME IInv, NEW r \in Requests, ReadersEnd(r)
  PROVE  IInv'
<1> USE DEF IInv, ReadersEnd, world
<1>1. SlotsMatchServing'
  BY ServingStays DEF Serving, Idle
<1>2. TypeOK'
  BY DEF TypeOK, WorldTypeOK, Steps, Goto
<1>3. Others(r)
  BY DEF Others, TypeOK, Goto
<1>4. Book(r)'
  BY DEF TypeOK, Bookkeeping, Book, Spawned, Mounted, Watched, Reported, Made, Goto, Lost,
     Live, PrepSteps
<1> QED  BY <1>1, <1>2, <1>3, <1>4, Local

\* Reading metrics.json ends in one of two ways; in one only after a success
\* whose record is not hidden.
LEMMA WhatIsRead ==
  ASSUME NEW r \in Requests
  PROVE  /\ MetricsRead(r) \subseteq BOOLEAN
         /\ ctr[r] = "ok" /\ r \notin Hiding => MetricsRead(r) = {TRUE}
<1>1. HadOutput(r) \in BOOLEAN
  BY DEF HadOutput
<1> QED  BY <1>1 DEF MetricsRead

\* Adding the output and its metrics to an answer leaves an answer.
LEMMA CollectedIsAnswer ==
  ASSUME NEW r \in Requests, answer[r] \in Answers, NEW m \in BOOLEAN
  PROVE  [answer[r] EXCEPT !.status = 200, !.metrics = m] \in Answers
BY MetricsFilledIn, Zenon

\* What collecting changes, whatever the answer.
LEMMA CollectIsLocal ==
  ASSUME NEW r \in Requests, Collect(r)
  PROVE  /\ pc[r] = "collect" /\ Goto(r, "done") /\ UNCHANGED world
         /\ cleaner' = cleaner \/ cleaner' = [cleaner EXCEPT ![r] = "run"]
         /\ \E a : answer' = [answer EXCEPT ![r] = a]
<1>1. CASE Fail(r)
  BY <1>1, Zenon DEF Collect, Fail, Reply
<1>2. ASSUME NEW m \in MetricsRead(r), Goto(r, "done"),
             Reply(r, [answer[r] EXCEPT !.status = 200, !.metrics = m]),
             cleaner' = [cleaner EXCEPT ![r] = "run"], UNCHANGED world
      PROVE  /\ Goto(r, "done") /\ UNCHANGED world
             /\ cleaner' = [cleaner EXCEPT ![r] = "run"]
             /\ \E a : answer' = [answer EXCEPT ![r] = a]
  BY <1>2, Zenon DEF Reply
<1> QED  BY <1>1, <1>2, Zenon DEF Collect

\* The answer, the cleaner and the permit change in one step.
LEMMA CollectKeeps ==
  ASSUME IInv, NEW r \in Requests, Collect(r)
  PROVE  IInv'
<1> USE DEF IInv, world
<1>0. pc[r] = "collect" /\ cli[r] # "up"
  BY DEF Collect, Bookkeeping, Book, Spawned
<1>1. CASE Fail(r)
  BY <1>0, <1>1, FailKeeps
<1>2. ASSUME NEW m \in MetricsRead(r), Goto(r, "done"),
             Reply(r, [answer[r] EXCEPT !.status = 200, !.metrics = m]),
             cleaner' = [cleaner EXCEPT ![r] = "run"], slots' = slots - 1,
             UNCHANGED world
      PROVE  IInv'
  <2> DEFINE a == [answer[r] EXCEPT !.status = 200, !.metrics = m]
  <2>0. answer[r] \in Answers /\ m \in BOOLEAN
    BY <1>2, WhatIsRead DEF TypeOK
  <2>3. /\ a \in Answers /\ a.metrics = m
        /\ a.exit = answer[r].exit /\ a.timedOut = answer[r].timedOut
    <3>1. a \in Answers
      BY <2>0, CollectedIsAnswer
    <3>2. /\ a.metrics = m
          /\ a.exit = answer[r].exit /\ a.timedOut = answer[r].timedOut
      BY <2>0 DEF Answers
    <3> QED  BY <3>1, <3>2
  <2>4. answer' = [answer EXCEPT ![r] = a]
    BY <1>2 DEF Reply
  <2> HIDE DEF a
  <2> USE <1>0, <1>2
  <2>5. SlotsMatchServing' /\ slots' \in 0..MaxConcurrency
    BY ServingShrinks DEF Serving, Idle
  <2>6. TypeOK'
    BY <2>3, <2>4, <2>5 DEF TypeOK, WorldTypeOK, Steps, Idle, DirNames, Goto
  <2>7. Others(r)
    BY <2>4 DEF Others, TypeOK, Goto
  <2>8. Spawned(r)' /\ Mounted(r)'
    BY DEF TypeOK, Bookkeeping, Book, Spawned, Mounted, Made, Goto, Live, PrepSteps
  <2>9. Watched(r)'
    BY <2>3, <2>4 DEF TypeOK, Bookkeeping, Book, Watched, Goto, Lost, Live
  <2>10. Reported(r)'
    <3>1. answer[r].exit = "zero" => ctr[r] = "ok"
      BY DEF Bookkeeping, Book, Reported
    <3>2. answer'[r] = a /\ ctr' = ctr /\ pc'[r] = "done"
      BY <2>4 DEF TypeOK, Goto
    <3>3. answer[r].exit = "zero" /\ r \notin Hiding => m = TRUE
      BY <3>1, WhatIsRead
    <3> QED  BY <2>3, <3>1, <3>2, <3>3 DEF Reported, PrepSteps
  <2> QED  BY <2>5, <2>6, <2>7, <2>8, <2>9, <2>10, Local DEF Book
<1> QED  BY <1>1, <1>2 DEF Collect

\* A handler that waits in vain changes nothing else.
LEMMA BlockKeeps ==
  ASSUME IInv, NEW r \in Requests, Block(r)
  PROVE  IInv'
<1> USE DEF IInv, Block, world
<1>1. SlotsMatchServing'
  BY ServingStays DEF Serving, Idle
<1>2. TypeOK'
  BY DEF TypeOK, WorldTypeOK, Steps, Goto
<1>3. Others(r)
  BY DEF Others, TypeOK, Goto
<1>4. Book(r)'
  BY DEF TypeOK, Bookkeeping, Book, Spawned, Mounted, Watched, Reported, Made, Goto, Lost,
     Live, PrepSteps
<1> QED  BY <1>1, <1>2, <1>3, <1>4, Local

\* The detached task works on a request that is done.
LEMMA CleanKeeps ==
  ASSUME IInv, NEW r \in Requests, Clean(r)
  PROVE  IInv'
<1> USE DEF IInv, Clean
<1>1. AfterCleaning[cleaner[r]] \in {"none"} \cup DirNames
  BY DEF AfterCleaning, DirNames
<1>2. TypeOK'
  BY <1>1 DEF TypeOK, WorldTypeOK, DirsAfterRemoving
<1>3. SlotsMatchServing'
  BY DEF SlotsMatchServing, Serving
<1>4. Others(r)
  BY DEF Others, TypeOK, WorldTypeOK
<1>5. pc[r] = "done"
  BY DEF Bookkeeping, Book, Mounted, DirNames
<1>6. Book(r)'
  BY <1>5 DEF TypeOK, WorldTypeOK, Bookkeeping, Book, Spawned, Mounted, Watched, Reported, Made,
     Lost, Live, PrepSteps
<1> QED  BY <1>2, <1>3, <1>4, <1>6, Local

\* What podman and the script do, whether or not the server still looks on.
LEMMA SandboxKeeps ==
  ASSUME IInv, NEW r \in Requests, Sandbox(r), UNCHANGED handler
  PROVE  IInv'
<1> USE DEF IInv, handler, Ended
<1>1. /\ cli' \in [Requests -> CliStates] /\ ctr' \in [Requests -> CtrStates]
      /\ owner' \in [Requests -> {"server", "subuid"}]
      /\ UNCHANGED <<age, dirs>>
      /\ \A s \in Requests \ {r} : cli'[s] = cli[s] /\ ctr'[s] = ctr[s]
  BY DEF TypeOK, WorldTypeOK, CliStates, CtrStates, Live, Sandbox, Create, Boot,
         ScriptEnds, TimeoutKill, CliExits, CliFails, CliDies
<1>2. /\ cli[r] # "up" => cli'[r] = cli[r]
      /\ Live(r)' => (Live(r) \/ cli[r] = "up") /\ (cli[r] = "up" => cli'[r] # "exited")
      /\ ctr[r] = "ok" => ctr'[r] = "ok"
      /\ cli[r] = "up" => cli'[r] # "none"
      /\ ctr[r] = "absent" /\ cli[r] # "up" => ctr'[r] = "absent"
      /\ cli'[r] = "killed" => cli[r] = "killed" \/ Faults # {}
  BY DEF TypeOK, WorldTypeOK, CliStates, CtrStates, Live, Sandbox, Create, Boot,
         ScriptEnds, TimeoutKill, CliExits, CliFails, CliDies
<1>3. TypeOK'
  BY <1>1 DEF TypeOK, WorldTypeOK
<1>4. SlotsMatchServing'
  BY DEF SlotsMatchServing, Serving
<1>5. Others(r)
  BY <1>1 DEF Others
<1>6. Spawned(r)' /\ Mounted(r)'
  BY <1>1, <1>2 DEF Bookkeeping, Book, Spawned, Mounted
<1>7. Watched(r)' /\ Reported(r)'
  BY <1>1, <1>2 DEF Bookkeeping, Book, Spawned, Watched, Reported, Lost
<1> QED  BY <1>3, <1>4, <1>5, <1>6, <1>7, Local DEF Book

\* A broken pipe strikes a CLI that a crash has orphaned; time passes.
LEMMA PipeAndClockKeep ==
  ASSUME IInv, NEW r \in Requests, BrokenPipe(r) \/ Clock(r)
  PROVE  IInv'
<1> USE DEF IInv, handler
<1>1. /\ cli' \in [Requests -> CliStates] /\ age' \in [Requests -> 0..2]
      /\ UNCHANGED <<ctr, dirs, owner, pc, slots, cleaner, answer>>
      /\ \A s \in Requests \ {r} : cli'[s] = cli[s]
      /\ cli'[r] = cli[r] \/ (pc[r] = "lost" /\ cli[r] = "up" /\ cli'[r] = "killed")
  BY DEF TypeOK, WorldTypeOK, CliStates, BrokenPipe, Clock, Tick
<1>2. TypeOK' /\ SlotsMatchServing'
  BY <1>1 DEF TypeOK, WorldTypeOK, SlotsMatchServing, Serving
<1>3. Others(r)
  BY <1>1 DEF Others
<1>4. Book(r)'
  BY <1>1 DEF Bookkeeping, Book, Spawned, Mounted, Watched, Reported, Made, Lost, Live, PrepSteps
<1> QED  BY <1>2, <1>3, <1>4, Local

\* After a crash no future is alive and no permit is in use.
LEMMA CrashKeeps ==
  ASSUME IInv, Crash
  PROVE  IInv'
<1> USE DEF IInv, Crash, world
<1>1. TypeOK'
  BY MaxIsPositive DEF TypeOK, WorldTypeOK, Steps, Idle
<1>2. Serving' = {}
  BY DEF Serving, TypeOK, Idle
<1>3. SlotsMatchServing'
  BY <1>2, FS_EmptySet DEF SlotsMatchServing
<1>4. ASSUME NEW r \in Requests PROVE Book(r)'
  <2>1. pc'[r] = "lost" \/ (pc'[r] = pc[r] /\ pc[r] \in {"new", "done", "dropped"})
    BY DEF TypeOK, Idle
  <2>2. cleaner'[r] # "none" <=> cleaner[r] # "none"
    BY DEF TypeOK, DirNames
  <2>3. pc[r] = "done" => pc'[r] = "done"
    BY DEF TypeOK, Idle
  <2>4. Book(r) /\ Faults # {}
    BY DEF Bookkeeping
  <2> QED  BY <2>1, <2>2, <2>3, <2>4 DEF Book, Spawned, Mounted, Watched, Reported, Made, Lost,
              Live, PrepSteps
<1> QED  BY <1>1, <1>3, <1>4 DEF Bookkeeping

\* Every step of the server and of its environment keeps the invariant.
LEMMA NextKeeps == IInv /\ [Next]_vars => IInv'
<1> SUFFICES ASSUME IInv, [Next]_vars PROVE IInv'
  OBVIOUS
<1>1. ASSUME NEW r \in Requests, Server(r) PROVE IInv'
  BY <1>1, PreparationKeeps, SpawnKeeps, WaitReturnsKeeps, DeadlineKeeps, ForceRemoveKeeps,
     ReadersEndKeeps, CollectKeeps, BlockKeeps DEF Server
<1>2. ASSUME NEW r \in Requests, Environment(r) PROVE IInv'
  BY <1>2, SandboxKeeps, PipeAndClockKeep DEF Environment
<1>3. CASE UNCHANGED vars
  BY <1>3 DEF vars, world, handler, IInv, TypeOK, WorldTypeOK, SlotsMatchServing, Serving,
     Bookkeeping, Book, Spawned, Mounted, Watched, Reported, Lost, Live
<1> QED  BY <1>1, <1>2, <1>3, ClientKeeps, CleanKeeps, CrashKeeps DEF Next, Terminated

\* The inductive invariant holds of every state the server can be in.
THEOREM Invariant == Spec => []IInv
BY InitIInv, NextKeeps, PTL DEF Spec
-----------------------------------------------------------------------------
\* Every variable stays in its domain; in particular SEM never has fewer than
\* no permits in use nor more than it was made with (main.rs, try_acquire).
THEOREM TypeCorrect == Spec => []TypeOK
BY Invariant, PTL DEF IInv

\* No permit leaks and none is doubled, though a future may be dropped at any
\* of its awaits (main.rs, the permit of handle_run).
THEOREM NoPermitLeaks == Spec => []SlotsMatchServing
BY Invariant, PTL DEF IInv

\* The detached cleaner never takes the mounts from a container the server has
\* not lost sight of (main.rs, the spawned removal).
THEOREM MountsStay == Spec => []MountsInPlace
<1>1. IInv => MountsInPlace
  BY DEF IInv, Bookkeeping, Book, Mounted, Watched, MountsInPlace
<1> QED  BY <1>1, Invariant, PTL

\* An answer with exit code 0 carries the script's own metrics, unless the script
\* itself has hidden them (main.rs, from child.wait() to the metrics of the
\* response).
THEOREM SuccessCarriesMetrics == Spec => []SuccessIsComplete
<1>1. IInv => SuccessIsComplete
  BY DEF IInv, Bookkeeping, Book, Reported, SuccessIsComplete
<1> QED  BY <1>1, Invariant, PTL

\* Only a collected output is answered with status 200.
LEMMA SuccessIsCollected ==
  ASSUME IInv, [Next]_vars, NEW r \in Requests,
         answer[r].status # 200, answer'[r].status = 200
  PROVE  Collect(r)
<1> USE DEF IInv
<1>1. ASSUME NEW s \in Requests, NEW a, a.status # 200, Reply(s, a) PROVE FALSE
  BY <1>1 DEF Reply, TypeOK
<1>2. ASSUME NEW s \in Requests, NEW code \in {400, 429, 500}, Reply(s, Failure(s, code))
      PROVE  FALSE
  <2>1. Failure(s, code).status # 200
    BY FailureIsAnswer
  <2> QED  BY <1>1, <1>2, <2>1
<1>3. ASSUME NEW s \in Requests,
             \/ Reply(s, [NoAnswer EXCEPT !.exit = ExitStatus(s)])
             \/ Reply(s, [NoAnswer EXCEPT !.exit = "124", !.timedOut = TRUE])
      PROVE  FALSE
  <2>1. PICK e \in {"zero", "nonzero", "signal", "124"} : e = ExitStatus(s)
    BY DEF ExitStatus
  <2>2. [NoAnswer EXCEPT !.exit = e].status = 0
    BY ExitFilledIn, NoAnswerSaysNothing, Zenon
  <2>3. [NoAnswer EXCEPT !.exit = "124", !.timedOut = TRUE].status = 0
    BY TimeoutFilledIn, NoAnswerSaysNothing, Zenon
  <2> DEFINE b == [NoAnswer EXCEPT !.exit = ExitStatus(s)]
             c == [NoAnswer EXCEPT !.exit = "124", !.timedOut = TRUE]
  <2>4. b.status # 200 /\ c.status # 200
    BY <2>1, <2>2, <2>3
  <2>5. Reply(s, b) \/ Reply(s, c)
    BY <1>3
  <2> HIDE DEF b, c
  <2> QED  BY <1>1, <2>4, <2>5
<1>4. UNCHANGED answer => FALSE
  OBVIOUS
<1>5. ASSUME NEW s \in Requests, Client(s) PROVE FALSE
  BY <1>2, <1>4, <1>5 DEF Client, Reject, Busy, Admit, Disconnect
<1>6. ASSUME NEW s \in Requests, Preparation(s) \/ Spawn(s) \/ Clean(s) \/ Environment(s)
      PROVE  FALSE
  BY <1>2, <1>4, <1>6 DEF Preparation, MakeRunDir, MakeOutDir, MakeInDir, SetWritable,
     WriteScript, WriteInputs, MakeDir, Prepare, Fail, Spawn, Clean, Environment, BrokenPipe,
     Clock, handler
<1>7. ASSUME NEW s \in Requests, WaitReturns(s) \/ Deadline(s) \/ ForceRemove(s) \/ ReadersEnd(s)
               \/ Block(s)
      PROVE  FALSE
  BY <1>2, <1>3, <1>4, <1>7 DEF WaitReturns, Deadline, ForceRemove, ReadersEnd, Block, Fail
<1>8. ASSUME NEW s \in Requests, Collect(s), s # r PROVE FALSE
  <2>1. PICK a : answer' = [answer EXCEPT ![s] = a]
    BY <1>8, CollectIsLocal
  <2> QED  BY <1>8, <2>1 DEF TypeOK
<1> QED  BY <1>4, <1>5, <1>6, <1>7, <1>8 DEF Next, Server, Crash, Terminated, vars, handler

\* The output of a run the server has not lost sight of is collected when its
\* container has stopped: force_remove is awaited on the deadline, and without
\* the deadline the CLI has seen the container end (main.rs, handle_run).
THEOREM CollectsWhenStopped == Spec => CollectedWhenStopped
<1>1. ASSUME IInv, [Next]_vars, NEW r \in Requests, ~Lost(r),
             answer[r].status # 200, answer'[r].status = 200
      PROVE  ~Live(r)
  <2>1. Collect(r)
    BY <1>1, SuccessIsCollected
  <2> QED  BY <1>1, <2>1 DEF Collect, IInv, Bookkeeping, Book, Watched, Lost
<1>2. IInv /\ [Next]_vars
        => [\A r \in Requests : ~Lost(r) /\ answer[r].status # 200 /\ answer'[r].status = 200
                                  => ~Live(r)]_vars
  BY <1>1
<1> QED  BY <1>2, Invariant, PTL DEF Spec, CollectedWhenStopped
-----------------------------------------------------------------------------
\* What a client sees of the server starts as the service does.
LEMMA InitRefines == Init => Service!Init
<1> SUFFICES ASSUME Init PROVE Service!Init
  OBVIOUS
<1>1. \A r \in Requests : PhaseOf(r) = "idle" /\ BoxOf(r) = "none"
  BY DEF Init, WorldInit, PhaseOf, BoxOf, Live, Idle
<1> QED  BY <1>1 DEF Service!Init

\* The requests the service counts as admitted are the futures alive.
LEMMA AdmittedIsServing == Service!Admitted = Serving
BY DEF Service!Admitted, Serving, PhaseOf, Idle

\* The service counts as the handler does.
LEMMA SameCount == \A S : Service!Cardinality(S) = Cardinality(S)
BY DEF Service!Cardinality, Cardinality

\* The phase of a request that nothing happens to stays as it is.
LEMMA OthersUnseen ==
  ASSUME NEW r \in Requests, Others(r)
  PROVE  \A s \in Requests \ {r} : PhaseOf(s)' = PhaseOf(s) /\ BoxOf(s)' = BoxOf(s)
BY DEF Others, PhaseOf, BoxOf, Lost, Live

\* A future that is alive is seen as admitted, whatever becomes of its CLI and
\* of its answer; one that is over is seen as lost or closed for good.
LEMMA AliveUnseen ==
  ASSUME NEW r \in Requests, Others(r), pc[r] \notin Idle, pc'[r] \notin Idle, ctr'[r] = ctr[r]
  PROVE  UNCHANGED Service!svars
<1>1. PhaseOf(r)' = PhaseOf(r) /\ BoxOf(r)' = BoxOf(r)
  BY DEF PhaseOf, BoxOf, Live, Idle
<1> QED  BY <1>1, OthersUnseen DEF Service!svars

\* A container that ends is seen to halt.
LEMMA EndRefines ==
  ASSUME NEW r \in Requests, Others(r), Live(r), ctr'[r] \in Ended, PhaseOf(r)' = PhaseOf(r)
  PROVE  Service!Halt(r)
<1>1. BoxOf(r) = "running" /\ BoxOf(r)' = "over"
  BY DEF BoxOf, Live, Ended
<1> QED  BY <1>1, OthersUnseen DEF Service!Halt

\* A permit given back closes the request if its container is gone, and is the
\* sight lost of it otherwise, which takes a fault.
LEMMA ReturnRefines ==
  ASSUME IInv, IInv', NEW r \in Requests, Others(r), pc[r] \notin Idle, pc'[r] \in {"done", "dropped"},
         UNCHANGED ctr
  PROVE  Service!Close(r) \/ Service!Lose
<1>1. PhaseOf(r) = "admitted" /\ \A s \in Requests : BoxOf(s)' = BoxOf(s)
  BY DEF PhaseOf, Idle, BoxOf, Live
<1>2. CASE Lost(r)'
  <2>1. PhaseOf(r)' = "lost" /\ Faults # {}
    BY <1>2 DEF PhaseOf, Idle, IInv, Bookkeeping, Book, Watched
  <2>2. {r} \in SUBSET Service!Admitted
    BY <1>1 DEF Service!Admitted
  <2>3. \A s \in Requests : PhaseOf(s)' = IF s \in {r} THEN "lost" ELSE PhaseOf(s)
    BY <2>1, OthersUnseen
  <2>4. Service!Lose
    BY <1>1, <2>1, <2>2, <2>3 DEF Service!Lose
  <2> QED  BY <2>4
<1>3. CASE ~Lost(r)'
  <2>1. pc'[r] = "done" /\ PhaseOf(r)' = "closed"
    BY <1>3 DEF PhaseOf, Idle, Lost
  <2>2. BoxOf(r) # "running"
    BY <1>3, <2>1 DEF IInv, Bookkeeping, Book, Watched, Lost, BoxOf, Live
  <2>3. Service!Close(r)
    BY <1>1, <2>1, <2>2, OthersUnseen DEF Service!Close
  <2> QED  BY <2>3
<1> QED  BY <1>2, <1>3

\* Turning away, taking in, and losing a client are what the service calls
\* refusing, admitting and losing.
LEMMA ClientRefines ==
  ASSUME IInv, IInv', NEW r \in Requests, Client(r)
  PROVE  Service!Next
<1>1. Others(r) /\ UNCHANGED <<ctr, cli>>
  BY DEF Client, Reject, Busy, Admit, Disconnect, Goto, Reply, IInv, TypeOK, Others, world
<1>2. \A s \in Requests : BoxOf(s)' = BoxOf(s)
  BY <1>1 DEF BoxOf, Live
<1>3. CASE Reject(r) \/ Busy(r)
  <2>1. pc[r] = "new" /\ pc'[r] = "done" /\ cli[r] = "none"
    BY <1>3 DEF Reject, Busy, Goto, IInv, TypeOK, Bookkeeping, Book, Spawned
  <2>2. PhaseOf(r) = "idle" /\ PhaseOf(r)' = "closed"
    BY <1>1, <2>1 DEF PhaseOf, Idle, Lost
  <2>3. Service!Refuse(r)
    BY <1>1, <1>2, <2>2, OthersUnseen DEF Service!Refuse
  <2> QED  BY <2>3 DEF Service!Next
<1>4. CASE Admit(r)
  <2>1. PhaseOf(r) = "idle" /\ PhaseOf(r)' = "admitted"
    BY <1>4 DEF Admit, Goto, IInv, TypeOK, PhaseOf, Idle
  <2>2. Service!Cardinality(Service!Admitted) < MaxConcurrency
    BY <1>4, AdmittedIsServing, SameCount DEF Admit, IInv, SlotsMatchServing
  <2>3. Service!Admit(r)
    BY <1>1, <1>2, <2>1, <2>2, OthersUnseen DEF Service!Admit
  <2> QED  BY <2>3 DEF Service!Next
<1>5. CASE Disconnect(r)
  <2>1. pc[r] \notin Idle /\ pc'[r] = "dropped"
    BY <1>5 DEF Disconnect, Goto, IInv, TypeOK
  <2> QED  BY <1>1, <2>1, ReturnRefines DEF Service!Next
<1> QED  BY <1>3, <1>4, <1>5 DEF Client

\* An error gives the permit back, from wherever it is returned.
LEMMA FailRefines ==
  ASSUME IInv, IInv', NEW r \in Requests, Fail(r), pc[r] \notin Idle
  PROVE  Service!Next
<1>1. Others(r) /\ pc'[r] = "done" /\ UNCHANGED ctr
  BY DEF Fail, Goto, Reply, IInv, TypeOK, Others, world
<1> QED  BY <1>1, ReturnRefines DEF Service!Next

\* The handler's own steps: those that neither return nor remove a container
\* are not seen.
LEMMA ServerRefines ==
  ASSUME IInv, IInv', NEW r \in Requests, Server(r)
  PROVE  Service!Next \/ UNCHANGED Service!svars
<1>1. CASE Fail(r) /\ pc[r] \notin Idle
  BY <1>1, FailRefines
<1>2. CASE ForceRemove(r)
  <2>1. Others(r) /\ pc[r] = "remove" /\ pc'[r] = "read"
    BY <1>2 DEF ForceRemove, ForceRemoved, Goto, IInv, TypeOK, WorldTypeOK, Others
  <2>2. CASE Live(r)
    <3>1. ctr'[r] \in Ended
      BY <1>2, <2>2 DEF ForceRemove, ForceRemoved, IInv, TypeOK, WorldTypeOK, Ended
    <3>2. PhaseOf(r)' = PhaseOf(r)
      BY <2>1 DEF PhaseOf, Idle
    <3> QED  BY <2>1, <2>2, <3>1, <3>2, EndRefines DEF Service!Next
  <2>3. CASE ~Live(r)
    BY <1>2, <2>1, <2>3, AliveUnseen DEF ForceRemove, ForceRemoved, Idle
  <2> QED  BY <2>2, <2>3
<1>3. CASE Collect(r) /\ pc'[r] = "done"
  <2>1. Others(r) /\ pc[r] \notin Idle /\ UNCHANGED ctr
    <3>1. PICK a : answer' = [answer EXCEPT ![r] = a]
      BY <1>3, CollectIsLocal
    <3> QED  BY <1>3, <3>1, CollectIsLocal
             DEF Goto, IInv, TypeOK, WorldTypeOK, Others, Idle, world
  <2> QED  BY <1>3, <2>1, ReturnRefines DEF Service!Next
<1>4. CASE \/ (Preparation(r) \/ Spawn(r) \/ WaitReturns(r)) /\ ~Fail(r)
           \/ Deadline(r) \/ ReadersEnd(r) \/ Block(r)
  <2> USE DEF IInv, TypeOK, WorldTypeOK, Goto, Reply, Idle, world
  <2>1. pc[r] \notin Idle /\ pc'[r] \notin Idle
    BY <1>4 DEF Preparation, MakeRunDir, MakeOutDir, MakeInDir, SetWritable, WriteScript,
       WriteInputs, MakeDir, Prepare, Spawn, WaitReturns, Deadline, ReadersEnd, Block
  <2>2. Others(r) /\ UNCHANGED ctr
    BY <1>4 DEF Preparation, MakeRunDir, MakeOutDir, MakeInDir, SetWritable, WriteScript,
       WriteInputs, MakeDir, Prepare, Spawn, WaitReturns, Deadline, ReadersEnd, Block,
       Others
  <2> QED  BY <2>1, <2>2, AliveUnseen
<1>5. CASE Collect(r)
  BY <1>3, <1>5 DEF Collect, Fail, Goto, IInv, TypeOK
<1>6. Preparation(r) \/ Spawn(r) \/ WaitReturns(r) => pc[r] \notin Idle
  BY DEF Preparation, MakeRunDir, MakeOutDir, MakeInDir, SetWritable, WriteScript,
     WriteInputs, MakeDir, Prepare, Spawn, WaitReturns, Idle
<1> QED  BY <1>1, <1>2, <1>4, <1>5, <1>6 DEF Server

\* What podman and the script do is a launch, a halt or not seen; a container
\* starts once, under a request that is admitted or lost.
LEMMA SandboxRefines ==
  ASSUME IInv, NEW r \in Requests, Sandbox(r), UNCHANGED handler
  PROVE  Service!Launch(r) \/ Service!Halt(r) \/ UNCHANGED Service!svars
<1> USE DEF IInv, TypeOK, WorldTypeOK, handler
<1>1. Others(r)
  BY DEF Sandbox, Create, Boot, ScriptEnds, TimeoutKill, CliExits, CliFails, CliDies, Others
<1>2. PhaseOf(r)' = PhaseOf(r)
  <2>1. CASE pc[r] \in {"new", "done"}
    <3>1. cli[r] # "up"
      BY <2>1 DEF Bookkeeping, Book, Spawned
    <3>2. cli'[r] = cli[r]
      BY <3>1 DEF Sandbox, Create, Boot, ScriptEnds, TimeoutKill, CliExits, CliFails, CliDies
    <3> QED  BY <3>2 DEF PhaseOf, Lost
  <2>2. CASE pc[r] \notin {"new", "done"}
    BY <2>2 DEF PhaseOf, Lost, Idle
  <2> QED  BY <2>1, <2>2
<1>3. CASE Create(r)
  <2>1. BoxOf(r) = "none" /\ BoxOf(r)' = "running"
    BY <1>3 DEF Create, BoxOf, Live
  <2>2. PhaseOf(r) \in {"admitted", "lost"}
    BY <1>3 DEF Create, Bookkeeping, Book, Spawned, PhaseOf, Lost, Idle
  <2>3. Service!Launch(r)
    BY <1>1, <1>2, <2>1, <2>2, OthersUnseen DEF Service!Launch
  <2> QED  BY <2>3
<1>4. CASE Live(r) /\ ctr'[r] \in Ended
  BY <1>1, <1>2, <1>4, EndRefines
<1>5. CASE BoxOf(r)' = BoxOf(r)
  BY <1>1, <1>2, <1>5, OthersUnseen DEF Service!svars
<1>6. Boot(r) /\ ctr'[r] = "script" => BoxOf(r)' = BoxOf(r)
  BY DEF Boot, BoxOf, Live
<1>7. UNCHANGED ctr => BoxOf(r)' = BoxOf(r)
  BY DEF BoxOf, Live
<1> QED  BY <1>3, <1>4, <1>5, <1>6, <1>7
         DEF Sandbox, Boot, ScriptEnds, TimeoutKill, CliExits, CliFails, CliDies, Live, Ended

\* The detached task, a broken pipe and the clock are not seen.
LEMMA RestUnseen ==
  ASSUME IInv, NEW r \in Requests, Clean(r) \/ BrokenPipe(r) \/ Clock(r)
  PROVE  UNCHANGED Service!svars
<1>1. UNCHANGED <<pc, ctr, answer>> /\ \A s \in Requests : cli'[s] = cli[s] \/ pc[s] = "lost"
  BY DEF Clean, BrokenPipe, Clock, Tick, handler, IInv, TypeOK, WorldTypeOK
<1>2. \A s \in Requests : PhaseOf(s)' = PhaseOf(s) /\ BoxOf(s)' = BoxOf(s)
  BY <1>1 DEF PhaseOf, BoxOf, Live, Lost, Idle
<1> QED  BY <1>2 DEF Service!svars

\* A crash loses every future that is alive at once.
LEMMA CrashRefines ==
  ASSUME IInv, Crash
  PROVE  Service!Lose
<1> USE DEF IInv, TypeOK, Crash, world
<1>1. Serving \in SUBSET Service!Admitted
  BY AdmittedIsServing
<1>2. ASSUME NEW r \in Requests
      PROVE  PhaseOf(r)' = IF r \in Serving THEN "lost" ELSE PhaseOf(r)
  BY <1>2 DEF Serving, PhaseOf, Lost, Idle
<1>3. \A r \in Requests : BoxOf(r)' = BoxOf(r)
  BY DEF BoxOf, Live
<1> QED  BY <1>1, <1>2, <1>3 DEF Service!Lose

\* Every step of the server is a step of the service, or is not seen.
LEMMA StepRefines ==
  IInv /\ IInv' /\ [Next]_vars => [Service!Next]_Service!svars
<1> SUFFICES ASSUME IInv, IInv', [Next]_vars PROVE Service!Next \/ UNCHANGED Service!svars
  OBVIOUS
<1>1. ASSUME NEW r \in Requests, Environment(r)
      PROVE  Service!Next \/ UNCHANGED Service!svars
  BY <1>1, SandboxRefines, RestUnseen DEF Environment, Service!Next
<1>2. CASE Crash
  BY <1>2, CrashRefines DEF Service!Next
<1>3. CASE UNCHANGED vars
  <2>1. \A s \in Requests : PhaseOf(s)' = PhaseOf(s) /\ BoxOf(s)' = BoxOf(s)
    BY <1>3 DEF vars, world, handler, PhaseOf, BoxOf, Lost, Live
  <2> QED  BY <2>1 DEF Service!svars
<1> QED  BY <1>1, <1>2, <1>3, ClientRefines, ServerRefines, RestUnseen DEF Next, Terminated

\* The handler keeps the promise of RunService on every path, save for the
\* requests it loses sight of, and without faults it loses none (main.rs,
\* handle_run).
THEOREM ServiceIsImplemented == Spec => ImplementsService
BY InitRefines, StepRefines, Invariant, PTL DEF Spec, ImplementsService, Service!Spec
-----------------------------------------------------------------------------
\* A container still up that the handler holds or has not lost sight of is one
\* the service counts.
LEMMA WatchedIsSeen == {r \in Running : r \in Serving \/ ~Lost(r)}
    \subseteq Service!Boxes({r \in Requests : [q \in Requests |-> PhaseOf(q)][r] # "lost"})
<1> SUFFICES ASSUME NEW r \in Requests, Live(r), r \in Serving \/ ~Lost(r)
             PROVE  BoxOf(r) = "running" /\ PhaseOf(r) # "lost"
  BY DEF Running, Service!Boxes
<1> QED  BY DEF BoxOf, PhaseOf, Serving, Live

\* Any of the containers can be counted, here as in the service.
LEMMA CountsOfContainers ==
  ASSUME NEW S \in SUBSET Requests, NEW T \in SUBSET S
  PROVE  Cardinality(T) <= Service!Cardinality(S) /\ Cardinality(T) \in Nat
                                                  /\ Service!Cardinality(S) \in Nat
<1>1. IsFiniteSet(S) /\ IsFiniteSet(T)
  BY RequestsFinite, FS_Subset
<1> QED  BY <1>1, SameCount, FS_Subset, FS_CardinalityType

\* The server's parameters are good for the service.
LEMMA ServiceAssumes == Service!Parameters
BY RequestsFinite, MaxIsPositive DEF Service!Parameters, Service!IsFiniteSet, IsFiniteSet

\* SEM bounds the containers the server has not lost sight of, those of errors
\* and of answers long given included: no slot comes back before its container
\* is gone (main.rs, the permit of handle_run).
THEOREM WatchedAreCapped == Spec => []WatchedCap
<1>1. Service!Capped => WatchedCap
  <2> DEFINE Seen == Service!Boxes({r \in Requests : [q \in Requests |-> PhaseOf(q)][r] # "lost"})
  <2>1. Seen \in SUBSET Requests
    BY DEF Service!Boxes
  <2> QED  BY <2>1, WatchedIsSeen, CountsOfContainers, MaxIsPositive DEF Service!Capped, WatchedCap
<1>2. Service!Spec => []Service!Capped
  BY ServiceAssumes, Service!ServiceIsCapped
<1> QED  BY <1>1, <1>2, ServiceIsImplemented, PTL DEF ImplementsService

\* README.md:109 holds as it stands as long as nothing strikes from outside: no
\* client leaves, no CLI is killed under its container, no server dies.  (With
\* clients that leave it does not: the run RustDisconnect.)
THEOREM CappedWithoutFaults ==
  ASSUME Faults = {}
  PROVE  Spec => []ContainerCap
<1>1. Service!Boxes(Requests) = Running
  BY DEF Service!Boxes, Running, BoxOf, Live
<1>2. Service!Cardinality(Service!Boxes(Requests)) = Cardinality(Running)
  BY <1>1, SameCount
<1>3. Service!Spec => [](Service!Cardinality(Service!Boxes(Requests)) <= MaxConcurrency)
  BY ServiceAssumes, Service!CappedWithoutLosses
<1>4. (Service!Cardinality(Service!Boxes(Requests)) <= MaxConcurrency) <=> ContainerCap
  BY <1>2 DEF ContainerCap
<1> QED  BY <1>3, <1>4, ServiceIsImplemented, PTL DEF ImplementsService

\* What a client was told of a run that the server has not lost sight of is final:
\* no container of it comes up or goes on after the answer.
THEOREM AnswersAreFinal == Spec => Service!ClosedIsFinal
<1>1. Service!Spec => Service!ClosedIsFinal
  BY ServiceAssumes, Service!AnswersAreFinal
<1> QED  BY <1>1, ServiceIsImplemented, PTL DEF ImplementsService
-----------------------------------------------------------------------------
\* How far the detached task of r has come.
Sweeping(r) ==
  /\ cleaner[r] \in {"out", "in"} => "run" \notin dirs[r]
  /\ cleaner[r] = "in" /\ "out" \in dirs[r] => ~Removable(r, "out")
  /\ answer[r].status = 200 => pc[r] = "done" /\ (cleaner[r] = "none" => Cleaned(r))
Swept == \A r \in Requests : Sweeping(r)

\* Once a request is done, only its cleaner and its container have a hand in it.
LEMMA DoneStays ==
  ASSUME IInv, [Next]_vars, NEW r \in Requests, pc[r] = "done"
  PROVE  /\ pc'[r] = "done" /\ answer'[r] = answer[r]
         /\ owner'[r] \in {owner[r], "subuid"}
         /\ Clean(r) \/ (dirs'[r] = dirs[r] /\ cleaner'[r] = cleaner[r])
                     \/ (dirs'[r] = dirs[r] /\ cleaner'[r] = "lost")
<1> USE DEF IInv, TypeOK, WorldTypeOK, Goto, Reply, world, handler, Idle
<1>1. ASSUME NEW s \in Requests, Client(s)
      PROVE  s # r /\ UNCHANGED <<world, cleaner>>
                   /\ pc'[r] = pc[r] /\ answer'[r] = answer[r]
  BY <1>1 DEF Client, Reject, Busy, Admit, Disconnect
<1>2. ASSUME NEW s \in Requests, Preparation(s) \/ Spawn(s) \/ WaitReturns(s)
      PROVE  s # r /\ UNCHANGED <<owner, cleaner>> /\ dirs'[r] = dirs[r]
                   /\ pc'[r] = pc[r] /\ answer'[r] = answer[r]
  BY <1>2 DEF Preparation, MakeRunDir, MakeOutDir, MakeInDir, SetWritable, WriteScript,
     WriteInputs, MakeDir, Prepare, Spawn, WaitReturns, Fail
<1>3. ASSUME NEW s \in Requests, Deadline(s) \/ ForceRemove(s) \/ ReadersEnd(s) \/ Block(s)
      PROVE  s # r /\ UNCHANGED <<owner, cleaner, dirs>>
                   /\ pc'[r] = pc[r] /\ answer'[r] = answer[r]
  BY <1>3 DEF Deadline, ForceRemove, ReadersEnd, Block
<1>4. ASSUME NEW s \in Requests, Collect(s)
      PROVE  s # r /\ UNCHANGED <<owner, dirs>> /\ cleaner'[r] = cleaner[r]
                   /\ pc'[r] = pc[r] /\ answer'[r] = answer[r]
  <2>1. PICK a : answer' = [answer EXCEPT ![s] = a]
    BY <1>4, CollectIsLocal
  <2> QED  BY <1>4, <2>1, CollectIsLocal
<1>5. ASSUME NEW s \in Requests, Clean(s)
      PROVE  /\ UNCHANGED <<pc, answer, owner>>
             /\ s # r => dirs'[r] = dirs[r] /\ cleaner'[r] = cleaner[r]
  BY <1>5 DEF Clean
<1>6. ASSUME NEW s \in Requests, Environment(s)
      PROVE  UNCHANGED <<pc, answer, dirs, cleaner>> /\ owner'[r] \in {owner[r], "subuid"}
  BY <1>6 DEF Environment, Sandbox, Create, Boot, ScriptEnds, TimeoutKill, CliExits, CliFails,
     CliDies, BrokenPipe, Clock, Tick
<1>7. CASE Crash
  BY <1>7 DEF Crash
<1>8. CASE UNCHANGED vars
  BY <1>8 DEF vars
<1> QED  BY <1>1, <1>2, <1>3, <1>4, <1>5, <1>6, <1>7, <1>8 DEF Next, Server, Terminated

\* A request gets a cleaner with its answer, and not before.
LEMMA CleanerComesWithAnswer ==
  ASSUME IInv, [Next]_vars, NEW r \in Requests, cleaner[r] = "none"
  PROVE  cleaner'[r] = "none" \/ (Collect(r) /\ cleaner'[r] = "run" /\ pc'[r] = "done")
<1> USE DEF IInv, TypeOK, Goto, handler, DirNames
<1>1. ASSUME NEW s \in Requests, Client(s) \/ Environment(s) PROVE UNCHANGED cleaner
  BY <1>1 DEF Client, Reject, Busy, Admit, Disconnect, Environment, BrokenPipe, Clock
<1>2. ASSUME NEW s \in Requests, Server(s), ~Collect(s) PROVE UNCHANGED cleaner
  BY <1>2 DEF Server, Preparation, MakeRunDir, MakeOutDir, MakeInDir, SetWritable, WriteScript,
     WriteInputs, MakeDir, Prepare, Spawn, WaitReturns, Deadline, ForceRemove, ReadersEnd, Block,
     Fail
<1>3. ASSUME NEW s \in Requests, Collect(s)
      PROVE  cleaner'[r] = "none" \/ (Collect(r) /\ cleaner'[r] = "run" /\ pc'[r] = "done")
  BY <1>3 DEF Collect, Fail
<1>4. ASSUME NEW s \in Requests, Clean(s) PROVE cleaner'[r] = "none"
  BY <1>4 DEF Clean
<1>5. Crash \/ UNCHANGED vars => cleaner'[r] = "none"
  BY DEF Crash, vars
<1> QED  BY <1>1, <1>2, <1>3, <1>4, <1>5 DEF Next, Terminated, Server

\* The task removes run, out and in, one after the other; that a container it
\* cannot see gives the output directory away meanwhile does not matter.
LEMMA SweepKeeps ==
  ASSUME IInv, IInv', Swept, [Next]_vars, NEW r \in Requests
  PROVE  Sweeping(r)'
<1> USE DEF DirNames
<1>1. Sweeping(r) /\ dirs[r] \in SUBSET DirNames /\ cleaner[r] \in {"none", "lost"} \cup DirNames
  BY DEF Swept, IInv, TypeOK, WorldTypeOK
<1>2. CASE pc[r] = "done"
  <2>1. /\ pc'[r] = "done" /\ answer'[r] = answer[r]
        /\ owner'[r] \in {owner[r], "subuid"}
        /\ Clean(r) \/ (dirs'[r] = dirs[r] /\ cleaner'[r] \in {cleaner[r], "lost"})
    BY <1>2, DoneStays
  <2>2. \A d \in DirNames : ~Removable(r, d) => ~Removable(r, d)'
    BY <2>1 DEF Removable
  <2>3. CASE dirs'[r] = dirs[r] /\ cleaner'[r] \in {cleaner[r], "lost"}
    BY <1>1, <2>1, <2>2, <2>3 DEF Sweeping, Cleaned
  <2>4. CASE Clean(r)
    <3>1. /\ cleaner[r] \in DirNames /\ cleaner'[r] = AfterCleaning[cleaner[r]]
          /\ dirs'[r] = IF Removable(r, cleaner[r]) THEN dirs[r] \ {cleaner[r]} ELSE dirs[r]
      BY <2>4 DEF Clean, DirsAfterRemoving, IInv, TypeOK, WorldTypeOK
    <3>2. Removable(r, "run") /\ Removable(r, "in")
      BY DEF Removable
    <3>3. CASE cleaner[r] = "run"
      BY <1>1, <2>1, <3>1, <3>2, <3>3 DEF AfterCleaning, Sweeping
    <3>4. CASE cleaner[r] = "out"
      BY <1>1, <2>1, <2>2, <3>1, <3>4 DEF AfterCleaning, Sweeping
    <3>5. CASE cleaner[r] = "in"
      BY <1>1, <2>1, <2>2, <3>1, <3>2, <3>5 DEF AfterCleaning, Sweeping, Cleaned
    <3> QED  BY <3>1, <3>3, <3>4, <3>5
  <2> QED  BY <2>1, <2>3, <2>4
<1>3. CASE pc[r] # "done"
  <2>1. cleaner[r] = "none" /\ answer[r].status # 200
    BY <1>1, <1>3 DEF IInv, Bookkeeping, Book, Mounted, Sweeping
  <2>2. CASE answer'[r].status = 200
    <3>1. Collect(r)
      BY <2>1, <2>2, SuccessIsCollected
    <3>2. ~Fail(r)
      <4>1. Failure(r, 500).status # 200
        BY FailureIsAnswer DEF IInv
      <4> QED  BY <2>2, <4>1 DEF Fail, Reply, IInv, TypeOK
    <3>3. cleaner'[r] = "run" /\ pc'[r] = "done"
      BY <3>1, <3>2 DEF Collect, Goto, IInv, TypeOK
    <3> QED  BY <3>3 DEF Sweeping
  <2>3. CASE answer'[r].status # 200
    <3>1. cleaner'[r] \in {"none", "run"}
      BY <2>1, CleanerComesWithAnswer
    <3> QED  BY <2>3, <3>1 DEF Sweeping
  <2> QED  BY <2>2, <2>3
<1> QED  BY <1>2, <1>3

\* A detached task that is through has left nothing of an answered run (main.rs,
\* tokio::spawn at the end of handle_run).
THEOREM CleanersDoFinish == Spec => []CleanersFinish
<1>1. Init => Swept
  BY DEF Init, Swept, Sweeping, NoAnswer
<1>2. IInv /\ IInv' /\ Swept /\ [Next]_vars => Swept'
  BY SweepKeeps DEF Swept
<1>3. Swept => CleanersFinish
  BY DEF Swept, Sweeping, CleanersFinish
<1> QED  BY <1>1, <1>2, <1>3, Invariant, PTL DEF Spec
=============================================================================
