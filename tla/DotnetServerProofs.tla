------------------------- MODULE DotnetServerProofs -------------------------
(***************************************************************************)
(* Proofs about DotnetServer, for every set of requests, every number of   *)
(* slots and every combination of faults: the inductive invariant, the     *)
(* properties that follow from it, and that the handler implements         *)
(* RunService.                                                             *)
(*                                                                         *)
(* As in RustServerProofs the bookkeeping is a predicate of one request.   *)
(***************************************************************************)
EXTENDS DotnetServer, FiniteSetTheorems, TLAPS

Made == {"chmod", "inputs", "script", "start", "wait", "remove", "read", "collect", "rmrun"}
Over == {"read", "collect", "finally", "done"} \cup Cleanup

\* The output directory may stay, if the container has made it its own.
OutMayStay(r) == "out" \in dirs[r] => ~Removable(r, "out")

\* The CLI and the container of r at each await.
Spawned(r) ==
  /\ pc[r] \in {"new"} \cup PrepSteps => cli[r] = "none"
  /\ pc[r] \in {"remove"} \cup Over => cli[r] # "up"
  /\ cli[r] = "none" => ctr[r] = "absent"
  /\ cli[r] = "exited" => ~Live(r)

\* The directories of r: made in order and removed in order, and there as long
\* as the container is up or may come up, unless its CLI died under it.
Mounted(r) ==
  /\ pc[r] \in {"mkout", "mkin"} => "run" \in dirs[r]
  /\ pc[r] = "mkin" => "out" \in dirs[r]
  /\ pc[r] \in Made => dirs[r] = DirNames
  /\ cli[r] = "up" => dirs[r] = DirNames
  /\ Live(r) /\ (cli[r] = "killed" => answer[r].timedOut) => dirs[r] = DirNames

\* What is left of them while they are removed.
Cleaned(r) ==
  /\ pc[r] \in {"rmout", "rmin"} => "run" \notin dirs[r]
  /\ pc[r] = "rmin" => OutMayStay(r)
  /\ (pc[r] = "finally" /\ answer[r].status = 0) \/ answer[r].status = 200
       => dirs[r] \subseteq {"out"} /\ OutMayStay(r)

\* A container that is up once the CLI is gone for the handler is one the
\* server has lost sight of, and it loses sight of none without a fault.
Watched(r) ==
  /\ pc[r] \in Over /\ Live(r) => cli[r] = "killed" /\ ~answer[r].timedOut
  /\ Lost(r) => Faults # {}

\* What the answer to r says so far.
Reported(r) ==
  /\ pc[r] \in {"new", "wait"} \cup PrepSteps => ~answer[r].timedOut
  /\ pc[r] \in {"new", "wait", "remove", "read"} \cup PrepSteps => answer[r].exit = "none"
  /\ answer[r].exit = "zero" => ctr[r] = "ok"
  /\ pc[r] \in {"finally", "done"} \cup Cleanup /\ answer[r].exit = "zero"
       => r \in Hiding \/ answer[r].metrics
  /\ answer[r].status = 200 => pc[r] = "done"

Book(r) == Spawned(r) /\ Mounted(r) /\ Cleaned(r) /\ Watched(r) /\ Reported(r)
Bookkeeping == \A r \in Requests : Book(r)

\* The inductive invariant.
IInv == TypeOK /\ SlotsMatchServing /\ Bookkeeping

\* Nothing of the requests other than r is touched.
Others(r) == \A s \in Requests \ {r} :
  /\ pc'[s] = pc[s] /\ cli'[s] = cli[s] /\ ctr'[s] = ctr[s]
  /\ dirs'[s] = dirs[s] /\ owner'[s] = owner[s] /\ answer'[s] = answer[s]
-----------------------------------------------------------------------------
\* An action of r that leaves the others alone has only r to account for.
LEMMA Local ==
  ASSUME Bookkeeping, NEW r \in Requests, Others(r), Book(r)'
  PROVE  Bookkeeping'
<1>1. ASSUME NEW s \in Requests \ {r} PROVE Book(s)'
  <2>1. Book(s)
    BY <1>1 DEF Bookkeeping
  <2>2. Spawned(s)' /\ Mounted(s)' /\ Watched(s)' /\ Reported(s)'
    BY <1>1, <2>1 DEF Book, Spawned, Mounted, Watched, Reported, Lost, Live, Others
  <2>3. Cleaned(s)'
    BY <1>1, <2>1 DEF Book, Cleaned, OutMayStay, Removable, Others
  <2> QED  BY <2>2, <2>3 DEF Book
<1> QED  BY <1>1 DEF Bookkeeping

\* An error reply only fills in the status.
LEMMA FailureIsAnswer ==
  ASSUME TypeOK, NEW r \in Requests, NEW code \in {400, 429, 500}
  PROVE  LET b == Failure(r, code)
         IN  /\ b \in Answers /\ b.status = code
             /\ b.exit = answer[r].exit /\ b.timedOut = answer[r].timedOut
<1>1. PICK a \in Answers : a = answer[r]
  BY DEF TypeOK
<1>2. Failure(r, code) = [a EXCEPT !.status = code]
  BY <1>1 DEF Failure
<1>3. LET b == [a EXCEPT !.status = code]
      IN  /\ b \in Answers /\ b.status = code /\ b.exit = a.exit /\ b.timedOut = a.timedOut
  BY DEF Answers
<1> QED  BY <1>1, <1>2, <1>3

\* There are finitely many requests being served, so they can be counted.
LEMMA ServingFinite == IsFiniteSet(Serving) /\ Cardinality(Serving) \in Nat
<1>1. IsFiniteSet(Serving)
  BY RequestsFinite, FS_Subset DEF Serving
<1> QED  BY <1>1, FS_CardinalityType

\* A handler that takes a slot is one more being served.
LEMMA ServingGrows ==
  ASSUME TypeOK, SlotsMatchServing, NEW r \in Requests, NEW step \in Steps \ Idle,
         r \notin Serving, Goto(r, step), slots' = slots + 1
  PROVE  SlotsMatchServing'
<1>1. Serving' = Serving \cup {r}
  BY DEF Serving, Goto, TypeOK
<1> QED  BY <1>1, ServingFinite, FS_AddElement DEF SlotsMatchServing

\* A handler that releases its slot is one less, and it had one to release.
LEMMA ServingShrinks ==
  ASSUME TypeOK, SlotsMatchServing, NEW r \in Requests, NEW step \in Idle,
         r \in Serving, Goto(r, step), slots' = slots - 1
  PROVE  SlotsMatchServing' /\ slots' \in 0..MaxConcurrency
<1>1. Serving' = Serving \ {r}
  BY DEF Serving, Goto, TypeOK
<1>2. Cardinality(Serving) # 0
  BY ServingFinite, FS_EmptySet
<1>3. SlotsMatchServing'
  BY <1>1, ServingFinite, FS_RemoveElement DEF SlotsMatchServing
<1> QED  BY <1>2, <1>3, ServingFinite, MaxIsPositive DEF TypeOK, SlotsMatchServing

\* A handler that goes on, or one that never had a slot, changes no count.
LEMMA ServingStays ==
  ASSUME TypeOK, SlotsMatchServing, NEW r \in Requests, NEW step, Goto(r, step),
         r \in Serving <=> step \notin Idle, UNCHANGED slots
  PROVE  SlotsMatchServing'
<1>1. Serving' = Serving
  BY DEF Serving, Goto, TypeOK
<1> QED  BY <1>1 DEF SlotsMatchServing
-----------------------------------------------------------------------------
\* The invariant holds when the server starts.
LEMMA InitIInv == Init => IInv
<1> SUFFICES ASSUME Init PROVE IInv
  OBVIOUS
<1> USE DEF Init, WorldInit
<1>1. TypeOK
  BY MaxIsPositive DEF TypeOK, WorldTypeOK, CliStates, CtrStates, Steps, Idle, NoAnswer, Answers
<1>2. SlotsMatchServing
  BY FS_EmptySet DEF SlotsMatchServing, Serving, Idle
<1>3. Bookkeeping
  BY DEF Bookkeeping, Book, Spawned, Mounted, Cleaned, OutMayStay, Watched, Reported, Made,
     Over, Cleanup, Lost, Live, NoAnswer
<1> QED  BY <1>1, <1>2, <1>3 DEF IInv

\* An exception keeps the invariant wherever it is thrown.
LEMMA ThrowKeeps ==
  ASSUME IInv, NEW r \in Requests, Throw(r), pc[r] \in PrepSteps
  PROVE  IInv'
<1> USE DEF IInv, Throw, Reply, world
<1> DEFINE a == Failure(r, 500)
<1>1. /\ a \in Answers /\ a.status = 500
      /\ a.exit = answer[r].exit /\ a.timedOut = answer[r].timedOut
  BY FailureIsAnswer
<1>2. answer' = [answer EXCEPT ![r] = a]
  OBVIOUS
<1> HIDE DEF a
<1>3. SlotsMatchServing'
  BY ServingStays DEF Serving, Idle, PrepSteps
<1>4. TypeOK'
  BY <1>1, <1>2 DEF TypeOK, WorldTypeOK, Steps, Goto
<1>5. Others(r)
  BY <1>2 DEF Others, TypeOK, Goto
<1>6. Spawned(r)' /\ Mounted(r)'
  BY <1>1, <1>2 DEF TypeOK, Bookkeeping, Book, Spawned, Mounted, Made, Over, Cleanup, Live,
     PrepSteps, Goto
<1>7. Cleaned(r)'
  BY <1>1, <1>2 DEF TypeOK, Bookkeeping, Book, Cleaned, PrepSteps, Goto
<1>8. Watched(r)' /\ Reported(r)'
  BY <1>1, <1>2 DEF TypeOK, Bookkeeping, Book, Spawned, Watched, Reported, Over, Cleanup, Lost,
     Live, PrepSteps, Goto
<1> QED  BY <1>3, <1>4, <1>5, <1>6, <1>7, <1>8, Local DEF Book

\* Turning a request away and taking it in keep it.
LEMMA ClientKeeps ==
  ASSUME IInv, NEW r \in Requests, Client(r)
  PROVE  IInv'
<1> USE DEF IInv, Reply, world
<1>1. CASE Reject(r) \/ Busy(r)
  <2>1. PICK code \in {400, 429} : answer' = [answer EXCEPT ![r] = Failure(r, code)]
    BY <1>1 DEF Reject, Busy
  <2> DEFINE a == Failure(r, code)
  <2>2. /\ a \in Answers /\ a.status = code
        /\ a.exit = answer[r].exit /\ a.timedOut = answer[r].timedOut
    BY FailureIsAnswer
  <2> HIDE DEF a
  <2>3. /\ pc[r] = "new" /\ Goto(r, "done") /\ answer' = [answer EXCEPT ![r] = a]
        /\ UNCHANGED <<world, slots>>
    BY <1>1, <2>1 DEF Reject, Busy, a
  <2>4. SlotsMatchServing'
    BY <2>3, ServingStays DEF Serving, Idle
  <2>5. TypeOK'
    BY <2>2, <2>3 DEF TypeOK, WorldTypeOK, Steps, Idle, Goto
  <2>6. Others(r)
    BY <2>3 DEF Others, TypeOK, Goto
  <2>7. Spawned(r)' /\ Mounted(r)'
    BY <2>2, <2>3 DEF TypeOK, Bookkeeping, Book, Spawned, Mounted, Made, Over, Cleanup, Live, Goto
  <2>8. Cleaned(r)'
    BY <2>2, <2>3 DEF TypeOK, Bookkeeping, Book, Cleaned, Goto
  <2>9. Watched(r)' /\ Reported(r)'
    BY <2>2, <2>3 DEF TypeOK, Bookkeeping, Book, Spawned, Watched, Reported, Lost, Live, Goto
  <2> QED  BY <2>4, <2>5, <2>6, <2>7, <2>8, <2>9, Local DEF Book
<1>2. CASE Admit(r)
  <2> USE <1>2 DEF Admit
  <2>1. SlotsMatchServing'
    BY ServingGrows DEF Serving, Steps, PrepSteps, Idle
  <2>2. TypeOK'
    BY MaxIsPositive DEF TypeOK, WorldTypeOK, Steps, PrepSteps, Goto
  <2>3. Others(r)
    BY DEF Others, TypeOK, Goto
  <2>4. Spawned(r)' /\ Mounted(r)' /\ Watched(r)' /\ Reported(r)'
    BY DEF TypeOK, Bookkeeping, Book, Spawned, Mounted, Watched, Reported, Made, Over, Cleanup,
       Lost, Live, PrepSteps, Goto
  <2>5. Cleaned(r)'
    BY DEF TypeOK, Bookkeeping, Book, Cleaned, OutMayStay, Removable, Goto
  <2> QED  BY <2>1, <2>2, <2>3, <2>4, <2>5, Local DEF Book
<1> QED  BY <1>1, <1>2 DEF Client

\* Making the directories in order, doing some other file operation, and
\* starting the CLI keep it.
LEMMA MakeDirKeeps ==
  ASSUME IInv, NEW r \in Requests, NEW d \in DirNames, NEW here, NEW next,
         MakeDir(r, d, here, next),
         <<d, here, next>> \in {<<"run", "mkrun", "mkout">>, <<"out", "mkout", "mkin">>,
                                <<"in", "mkin", "chmod">>}
  PROVE  IInv'
<1> USE DEF IInv
<1>1. CASE Throw(r)
  BY <1>1, ThrowKeeps DEF MakeDir, PrepSteps
<1>2. CASE /\ dirs' = [dirs EXCEPT ![r] = @ \cup {d}]
           /\ Goto(r, next)
           /\ UNCHANGED <<cli, ctr, age, owner, slots, answer>>
  <2> USE <1>2 DEF MakeDir
  <2>1. /\ pc[r] = here /\ here \in {"mkrun", "mkout", "mkin"}
        /\ next \in {"mkout", "mkin", "chmod"}
    OBVIOUS
  <2>2. SlotsMatchServing'
    BY <2>1, ServingStays DEF Serving, Idle
  <2>3. TypeOK'
    BY <2>1 DEF TypeOK, WorldTypeOK, Steps, PrepSteps, Goto
  <2>4. Others(r)
    BY DEF Others, TypeOK, WorldTypeOK, Goto
  <2>5. Spawned(r)' /\ Watched(r)' /\ Reported(r)'
    BY <2>1 DEF TypeOK, Bookkeeping, Book, Spawned, Watched, Reported, Over, Cleanup, Lost, Live,
       Goto, PrepSteps
  <2>6. Mounted(r)'
    BY DEF TypeOK, WorldTypeOK, Bookkeeping, Book, Mounted, Spawned, Made, Live, Goto, PrepSteps,
       DirNames
  <2>7. answer[r].status # 200 /\ pc'[r] \notin {"rmout", "rmin", "finally"} /\ answer' = answer
    BY <2>1 DEF TypeOK, Bookkeeping, Book, Reported, Goto
  <2> QED  BY <2>2, <2>3, <2>4, <2>5, <2>6, <2>7, Local DEF Book, Cleaned
<1> QED  BY <1>1, <1>2 DEF MakeDir

LEMMA PrepareKeeps ==
  ASSUME IInv, NEW r \in Requests, NEW here, NEW next, Prepare(r, here, next),
         <<here, next>> \in {<<"chmod", "inputs">>, <<"inputs", "script">>, <<"script", "start">>}
  PROVE  IInv'
<1> USE DEF IInv, Prepare, world
<1>1. SlotsMatchServing'
  BY ServingStays DEF Serving, Idle
<1>2. TypeOK'
  BY DEF TypeOK, WorldTypeOK, Steps, PrepSteps, Goto
<1>3. Others(r)
  BY DEF Others, TypeOK, Goto
<1>4. Spawned(r)' /\ Mounted(r)' /\ Watched(r)' /\ Reported(r)'
  BY DEF TypeOK, Bookkeeping, Book, Spawned, Mounted, Watched, Reported, Made, Over, Cleanup,
     Goto, Lost, Live, PrepSteps
<1>5. answer[r].status # 200 /\ pc'[r] \notin {"rmout", "rmin", "finally"} /\ answer' = answer
  BY DEF TypeOK, Bookkeeping, Book, Reported, Goto
<1> QED  BY <1>1, <1>2, <1>3, <1>4, <1>5, Local DEF Book, Cleaned

LEMMA PreparationKeeps ==
  ASSUME IInv, NEW r \in Requests, Preparation(r)
  PROVE  IInv'
BY MakeDirKeeps, PrepareKeeps, ThrowKeeps DEF Preparation, MakeRunDir, MakeOutDir, MakeInDir,
   Chmod, WriteScript, WriteInputs, DirNames, PrepSteps

LEMMA StartKeeps ==
  ASSUME IInv, NEW r \in Requests, Start(r)
  PROVE  IInv'
<1> USE DEF IInv, Start
<1>1. CASE Throw(r)
  BY <1>1, ThrowKeeps DEF PrepSteps
<1>2. CASE /\ cli' = [cli EXCEPT ![r] = "up"]
           /\ Goto(r, "wait")
           /\ UNCHANGED <<ctr, age, dirs, owner, slots, answer>>
  <2> USE <1>2
  <2>1. SlotsMatchServing'
    BY ServingStays DEF Serving, Idle
  <2>2. TypeOK'
    BY DEF TypeOK, WorldTypeOK, CliStates, Steps, Goto
  <2>3. Others(r)
    BY DEF Others, TypeOK, WorldTypeOK, Goto
  <2>4. Spawned(r)' /\ Mounted(r)' /\ Watched(r)' /\ Reported(r)'
    BY DEF TypeOK, WorldTypeOK, Bookkeeping, Book, Spawned, Mounted, Watched, Reported, Made,
       Over, Cleanup, Goto, Lost, Live, PrepSteps
  <2>5. answer[r].status # 200 /\ pc'[r] = "wait" /\ answer' = answer
    BY DEF TypeOK, Bookkeeping, Book, Reported, Goto
  <2> QED  BY <2>1, <2>2, <2>3, <2>4, <2>5, Local DEF Book, Cleaned
<1> QED  BY <1>1, <1>2

LEMMA WaitReturnsKeeps ==
  ASSUME IInv, NEW r \in Requests, WaitReturns(r)
  PROVE  IInv'
<1> USE DEF IInv, WaitReturns, world
<1>1. SlotsMatchServing'
  BY ServingStays DEF Serving, Idle
<1>2. TypeOK'
  BY DEF TypeOK, WorldTypeOK, Steps, Goto
<1>3. Others(r)
  BY DEF Others, TypeOK, Goto
<1>4. Spawned(r)' /\ Mounted(r)' /\ Watched(r)' /\ Reported(r)'
  BY DEF TypeOK, WorldTypeOK, CliStates, Bookkeeping, Book, Spawned, Mounted, Watched, Reported,
     Made, Over, Cleanup, Goto, Lost, Live, PrepSteps
<1>5. answer[r].status # 200 /\ pc'[r] = "read" /\ answer' = answer
  BY DEF TypeOK, Bookkeeping, Book, Reported, Goto
<1> QED  BY <1>1, <1>2, <1>3, <1>4, <1>5, Local DEF Book, Cleaned

\* On the deadline the CLI is killed, whether or not it has just exited.
LEMMA DeadlineKeeps ==
  ASSUME IInv, NEW r \in Requests, Deadline(r)
  PROVE  IInv'
<1> USE DEF IInv, Deadline
<1> DEFINE a == [answer[r] EXCEPT !.timedOut = TRUE]
<1>1. PICK b \in Answers, t \in BOOLEAN : b = answer[r] /\ t = TRUE
  BY DEF TypeOK
<1>2. LET c == [b EXCEPT !.timedOut = t]
      IN  /\ c \in Answers /\ c.timedOut = t /\ c.status = b.status /\ c.exit = b.exit
  BY DEF Answers
<1>3. a \in Answers /\ a.timedOut /\ a.status = answer[r].status /\ a.exit = answer[r].exit
  BY <1>1, <1>2
<1>4. answer' = [answer EXCEPT ![r] = a]
  BY DEF Reply
<1> HIDE DEF a
<1>5. SlotsMatchServing'
  BY ServingStays DEF Serving, Idle
<1>6. TypeOK'
  BY <1>3, <1>4 DEF TypeOK, WorldTypeOK, CliStates, Steps, Goto
<1>7. Others(r)
  BY <1>4 DEF Others, TypeOK, WorldTypeOK, Goto
<1>8. Spawned(r)' /\ Mounted(r)'
  BY <1>3, <1>4 DEF TypeOK, WorldTypeOK, CliStates, Bookkeeping, Book, Spawned, Mounted, Made,
     Over, Cleanup, Goto, Live, PrepSteps
<1>9. Watched(r)' /\ Reported(r)'
  BY <1>3, <1>4 DEF TypeOK, WorldTypeOK, Bookkeeping, Book, Watched, Reported, Over, Cleanup,
     Lost, Goto, PrepSteps
<1>10. answer'[r].status # 200 /\ pc'[r] = "remove"
  BY <1>3, <1>4 DEF TypeOK, Bookkeeping, Book, Reported, Goto
<1> QED  BY <1>5, <1>6, <1>7, <1>8, <1>9, <1>10, Local DEF Book, Cleaned

\* After `podman rm -f` the container writes no more.
LEMMA ForceRemoveKeeps ==
  ASSUME IInv, NEW r \in Requests, ForceRemove(r)
  PROVE  IInv'
<1> USE DEF IInv, ForceRemove
<1>1. ctr' = IF Live(r) THEN [ctr EXCEPT ![r] = "removed"] ELSE ctr
  BY DEF ForceRemoved
<1>2. ~Live(r)' /\ (ctr[r] = "ok" => ctr'[r] = "ok") /\ (ctr[r] = "absent" => ctr'[r] = "absent")
  BY <1>1 DEF Live, TypeOK, WorldTypeOK
<1>3. SlotsMatchServing'
  BY ServingStays DEF Serving, Idle
<1>4. TypeOK'
  BY <1>1 DEF TypeOK, WorldTypeOK, CtrStates, Ended, Steps, Goto
<1>5. Others(r)
  BY <1>1 DEF Others, TypeOK, WorldTypeOK, Goto
<1>6. Spawned(r)' /\ Mounted(r)' /\ Watched(r)' /\ Reported(r)'
  BY <1>2 DEF TypeOK, Bookkeeping, Book, Spawned, Mounted, Watched, Reported, Made, Over, Cleanup,
     Goto, Lost, PrepSteps
<1>7. answer[r].status # 200 /\ pc'[r] = "read" /\ answer' = answer
  BY DEF TypeOK, Bookkeeping, Book, Reported, Goto
<1> QED  BY <1>3, <1>4, <1>5, <1>6, <1>7, Local DEF Book, Cleaned

\* The exit code is 124 after the deadline and zero only for a script that
\* ended with zero.
LEMMA ReadersEndKeeps ==
  ASSUME IInv, NEW r \in Requests, ReadersEnd(r)
  PROVE  IInv'
<1> USE DEF IInv, ReadersEnd, world
<1> DEFINE code == IF answer[r].timedOut THEN "124" ELSE ExitStatus(r)
           a    == [answer[r] EXCEPT !.exit = code]
<1>1. PICK e \in {"zero", "nonzero", "signal", "124"} : e = code /\ (e = "zero" => ctr[r] = "ok")
  BY DEF ExitStatus
<1>2. PICK b \in Answers : b = answer[r]
  BY DEF TypeOK
<1>3. LET c == [b EXCEPT !.exit = e]
      IN  /\ c \in Answers /\ c.exit = e /\ c.status = b.status /\ c.timedOut = b.timedOut
  BY DEF Answers
<1>4. /\ a \in Answers /\ (a.exit = "zero" => ctr[r] = "ok")
      /\ a.status = answer[r].status /\ a.timedOut = answer[r].timedOut
  BY <1>1, <1>2, <1>3
<1>5. answer' = [answer EXCEPT ![r] = a]
  BY DEF Reply
<1> HIDE DEF a, code
<1>6. SlotsMatchServing'
  BY ServingStays DEF Serving, Idle
<1>7. TypeOK'
  BY <1>4, <1>5 DEF TypeOK, WorldTypeOK, Steps, Goto
<1>8. Others(r)
  BY <1>5 DEF Others, TypeOK, Goto
<1>9. Spawned(r)' /\ Mounted(r)'
  BY <1>4, <1>5 DEF TypeOK, Bookkeeping, Book, Spawned, Mounted, Made, Over, Cleanup, Goto,
     Live, PrepSteps
<1>10. Watched(r)' /\ Reported(r)'
  BY <1>4, <1>5 DEF TypeOK, Bookkeeping, Book, Watched, Reported, Over, Cleanup, Lost, Live,
     Goto, PrepSteps
<1>11. answer'[r].status # 200 /\ pc'[r] = "collect"
  BY <1>4, <1>5 DEF TypeOK, Bookkeeping, Book, Reported, Goto
<1> QED  BY <1>6, <1>7, <1>8, <1>9, <1>10, <1>11, Local DEF Book, Cleaned

\* Reading metrics.json ends in one of two ways; in one only after a success
\* whose record is not hidden.
LEMMA WhatIsRead ==
  ASSUME NEW r \in Requests
  PROVE  /\ MetricsRead(r) \subseteq BOOLEAN
         /\ ctr[r] = "ok" /\ r \notin Hiding => MetricsRead(r) = {TRUE}
<1>1. HadOutput(r) \in BOOLEAN
  BY DEF HadOutput
<1> QED  BY <1>1 DEF MetricsRead

\* Adding the metrics leaves the rest of an answer alone.
LEMMA CollectedIsAnswer ==
  ASSUME NEW r \in Requests, answer[r] \in Answers, NEW m \in BOOLEAN
  PROVE  LET a == [answer[r] EXCEPT !.metrics = m]
         IN  /\ a \in Answers /\ a.metrics = m /\ a.status = answer[r].status
             /\ a.exit = answer[r].exit /\ a.timedOut = answer[r].timedOut
BY DEF Answers

\* A zero status was the script's, so its metrics are there if it left them.
LEMMA CollectKeeps ==
  ASSUME IInv, NEW r \in Requests, Collect(r)
  PROVE  IInv'
<1> USE DEF IInv, world
<1>1. PICK m \in MetricsRead(r) : Reply(r, [answer[r] EXCEPT !.metrics = m])
  BY Zenon DEF Collect
<1>2. pc[r] = "collect" /\ Goto(r, "rmrun") /\ UNCHANGED <<world, slots>>
  BY DEF Collect
<1>0. answer[r] \in Answers /\ m \in BOOLEAN
  BY WhatIsRead DEF TypeOK
<1> DEFINE a == [answer[r] EXCEPT !.metrics = m]
<1>3. /\ a \in Answers /\ a.metrics = m /\ a.status = answer[r].status
      /\ a.exit = answer[r].exit /\ a.timedOut = answer[r].timedOut
  BY <1>0, CollectedIsAnswer
<1>4. answer' = [answer EXCEPT ![r] = a]
  BY <1>1 DEF Reply
<1> HIDE DEF a
<1> USE <1>2
<1>5. SlotsMatchServing'
  BY ServingStays DEF Serving, Idle, Cleanup
<1>6. TypeOK'
  BY <1>3, <1>4 DEF TypeOK, WorldTypeOK, Steps, Cleanup, Goto
<1>7. Others(r)
  BY <1>4 DEF Others, TypeOK, Goto
<1>8. Spawned(r)' /\ Mounted(r)'
  BY <1>3, <1>4 DEF TypeOK, Bookkeeping, Book, Spawned, Mounted, Made, Over, Cleanup, Goto,
     Live, PrepSteps
<1>9. Watched(r)'
  BY <1>3, <1>4 DEF TypeOK, Bookkeeping, Book, Watched, Over, Cleanup, Lost, Live, Goto
<1>10. Reported(r)'
  <2>1. answer[r].exit = "zero" => ctr[r] = "ok"
    BY DEF Bookkeeping, Book, Reported
  <2>2. answer[r].exit = "zero" /\ r \notin Hiding => m = TRUE
    BY <2>1, WhatIsRead
  <2> QED  BY <1>3, <1>4, <2>2 DEF TypeOK, Bookkeeping, Book, Reported, Cleanup, Goto, PrepSteps
<1>11. answer'[r].status # 200 /\ pc'[r] = "rmrun"
  BY <1>3, <1>4 DEF TypeOK, Bookkeeping, Book, Reported, Goto
<1> QED  BY <1>5, <1>6, <1>7, <1>8, <1>9, <1>10, <1>11, Local DEF Book, Cleaned

\* A handler that waits in vain changes nothing else.
LEMMA BlockKeeps ==
  ASSUME IInv, NEW r \in Requests, Block(r)
  PROVE  IInv'
<1> USE DEF IInv, Block, world
<1>1. SlotsMatchServing'
  BY ServingStays DEF Serving, Idle
<1>2. TypeOK'
  BY DEF TypeOK, WorldTypeOK, Steps, Goto
<1>3. Others(r)
  BY DEF Others, TypeOK, Goto
<1>4. Book(r)'
  BY DEF TypeOK, Bookkeeping, Book, Spawned, Mounted, Cleaned, Watched, Reported, Made, Over,
     Cleanup, Goto, Lost, Live, PrepSteps
<1> QED  BY <1>1, <1>2, <1>3, <1>4, Local

\* The directories are removed one by one; the output directory alone may stay.
LEMMA RemoveDirKeeps ==
  ASSUME IInv, NEW r \in Requests, NEW d \in DirNames, NEW here, NEW next,
         RemoveDir(r, d, here, next),
         <<d, here, next>> \in {<<"run", "rmrun", "rmout">>, <<"out", "rmout", "rmin">>,
                                <<"in", "rmin", "finally">>}
  PROVE  IInv'
<1> USE DEF IInv, RemoveDir
<1>1. /\ pc[r] = here /\ here \in Cleanup /\ next \in {"rmout", "rmin", "finally"}
  BY DEF Cleanup
<1>2. SlotsMatchServing'
  BY <1>1, ServingStays DEF Serving, Idle, Cleanup
<1>3. TypeOK'
  BY <1>1 DEF TypeOK, WorldTypeOK, DirsAfterRemoving, Steps, Cleanup, Goto
<1>4. Others(r)
  BY DEF Others, TypeOK, WorldTypeOK, Goto
<1>5. pc'[r] = next /\ answer' = answer /\ cli' = cli /\ ctr' = ctr /\ owner' = owner
  BY DEF TypeOK, Goto
<1>6. Spawned(r)' /\ Mounted(r)' /\ Watched(r)' /\ Reported(r)'
  BY <1>1, <1>5 DEF Bookkeeping, Book, Spawned, Mounted, Watched, Reported, Made, Over, Cleanup,
     Lost, Live, PrepSteps
<1>7. Cleaned(r)'
  <2>1. dirs'[r] = DirsAfterRemoving(r, d)
    BY DEF TypeOK, WorldTypeOK
  <2>2. answer'[r].status # 200
    BY <1>1, <1>5 DEF Bookkeeping, Book, Reported, Cleanup
  <2>3. CASE d = "run"
    BY <1>1, <1>5, <2>1, <2>2, <2>3 DEF Cleaned, DirsAfterRemoving, Removable
  <2>4. CASE d = "out"
    BY <1>1, <1>5, <2>1, <2>2, <2>4 DEF Bookkeeping, Book, Cleaned, OutMayStay,
       DirsAfterRemoving, Removable
  <2>5. CASE d = "in"
    BY <1>1, <1>5, <2>1, <2>2, <2>5 DEF TypeOK, WorldTypeOK, DirNames, Bookkeeping, Book, Cleaned,
       OutMayStay, DirsAfterRemoving, Removable
  <2> QED  BY <2>3, <2>4, <2>5 DEF DirNames
<1> QED  BY <1>2, <1>3, <1>4, <1>6, <1>7, Local DEF Book

\* The finally block releases the slot and the answer is written.
LEMMA FinallyKeeps ==
  ASSUME IInv, NEW r \in Requests, Finally(r)
  PROVE  IInv'
<1> USE DEF IInv, Finally, world
<1> DEFINE code == IF answer[r].status = 0 THEN 200 ELSE answer[r].status
           a    == [answer[r] EXCEPT !.status = code]
<1>1. PICK b \in Answers : b = answer[r]
  BY DEF TypeOK
<1>2. PICK c \in {0, 200, 400, 429, 500} : c = code
  BY <1>1 DEF Answers
<1>3. LET f == [b EXCEPT !.status = c]
      IN  /\ f \in Answers /\ f.status = c /\ f.exit = b.exit
          /\ f.timedOut = b.timedOut /\ f.metrics = b.metrics
  BY DEF Answers
<1>4. /\ a \in Answers /\ a.status = code /\ a.exit = answer[r].exit
      /\ a.timedOut = answer[r].timedOut /\ a.metrics = answer[r].metrics
  BY <1>1, <1>2, <1>3
<1>5. answer' = [answer EXCEPT ![r] = a]
  OBVIOUS
<1> HIDE DEF a
<1>6. SlotsMatchServing' /\ slots' \in 0..MaxConcurrency
  BY ServingShrinks DEF Serving, Idle
<1>7. TypeOK'
  BY <1>4, <1>5, <1>6 DEF TypeOK, WorldTypeOK, Steps, Idle, Goto
<1>8. Others(r)
  BY <1>5 DEF Others, TypeOK, Goto
<1>9. Spawned(r)' /\ Mounted(r)'
  BY <1>4, <1>5 DEF TypeOK, Bookkeeping, Book, Spawned, Mounted, Made, Over, Cleanup, Goto,
     Live, PrepSteps
<1>10. Watched(r)' /\ Reported(r)'
  BY <1>4, <1>5 DEF TypeOK, Bookkeeping, Book, Watched, Reported, Over, Cleanup, Lost, Live,
     Goto, PrepSteps
<1>11. Cleaned(r)'
  <2>1. answer[r].status # 200
    BY DEF Bookkeeping, Book, Reported
  <2>2. answer'[r].status = code /\ pc'[r] = "done"
    BY <1>4, <1>5 DEF TypeOK, Goto
  <2> QED  BY <2>1, <2>2 DEF Bookkeeping, Book, Cleaned, OutMayStay, Removable
<1> QED  BY <1>6, <1>7, <1>8, <1>9, <1>10, <1>11, Local DEF Book

\* What podman and the script do, whether or not the server still looks on.
LEMMA SandboxKeeps ==
  ASSUME IInv, NEW r \in Requests, Sandbox(r), UNCHANGED handler
  PROVE  IInv'
<1> USE DEF IInv, handler, Ended
<1>1. /\ cli' \in [Requests -> CliStates] /\ ctr' \in [Requests -> CtrStates]
      /\ owner' \in [Requests -> {"server", "subuid"}]
      /\ UNCHANGED <<age, dirs>>
      /\ \A s \in Requests \ {r} : cli'[s] = cli[s] /\ ctr'[s] = ctr[s] /\ owner'[s] = owner[s]
  BY DEF TypeOK, WorldTypeOK, CliStates, CtrStates, Live, Sandbox, Create, Boot,
         ScriptEnds, TimeoutKill, CliExits, CliFails, CliDies
<1>2. /\ cli[r] # "up" => cli'[r] = cli[r]
      /\ Live(r)' => (Live(r) \/ cli[r] = "up") /\ (cli[r] = "up" => cli'[r] # "exited")
      /\ ctr[r] = "ok" => ctr'[r] = "ok"
      /\ cli[r] = "up" => cli'[r] # "none"
      /\ ctr[r] = "absent" /\ cli[r] # "up" => ctr'[r] = "absent"
      /\ cli'[r] = "killed" => cli[r] = "killed" \/ Faults # {}
      /\ owner[r] = "subuid" => owner'[r] = "subuid"
  BY DEF TypeOK, WorldTypeOK, CliStates, CtrStates, Live, Sandbox, Create, Boot,
         ScriptEnds, TimeoutKill, CliExits, CliFails, CliDies
<1>3. TypeOK'
  BY <1>1 DEF TypeOK, WorldTypeOK
<1>4. SlotsMatchServing'
  BY DEF SlotsMatchServing, Serving
<1>5. Others(r)
  BY <1>1 DEF Others
<1>6. Spawned(r)' /\ Mounted(r)'
  BY <1>1, <1>2 DEF Bookkeeping, Book, Spawned, Mounted
<1>7. Watched(r)' /\ Reported(r)'
  BY <1>1, <1>2 DEF Bookkeeping, Book, Spawned, Watched, Reported, Lost
<1>8. Cleaned(r)'
  BY <1>1, <1>2 DEF Bookkeeping, Book, Cleaned, OutMayStay, Removable
<1> QED  BY <1>3, <1>4, <1>5, <1>6, <1>7, <1>8, Local DEF Book

\* A broken pipe strikes a CLI that a crash has orphaned; time passes.
LEMMA PipeAndClockKeep ==
  ASSUME IInv, NEW r \in Requests, BrokenPipe(r) \/ Clock(r)
  PROVE  IInv'
<1> USE DEF IInv, handler
<1>1. /\ cli' \in [Requests -> CliStates] /\ age' \in [Requests -> 0..2]
      /\ UNCHANGED <<ctr, dirs, owner, pc, slots, answer>>
      /\ \A s \in Requests \ {r} : cli'[s] = cli[s]
      /\ cli'[r] = cli[r] \/ (pc[r] = "lost" /\ cli[r] = "up" /\ cli'[r] = "killed")
  BY DEF TypeOK, WorldTypeOK, CliStates, BrokenPipe, Clock, Tick
<1>2. TypeOK' /\ SlotsMatchServing'
  BY <1>1 DEF TypeOK, WorldTypeOK, SlotsMatchServing, Serving
<1>3. Others(r)
  BY <1>1 DEF Others
<1>4. Spawned(r)' /\ Mounted(r)' /\ Watched(r)' /\ Reported(r)'
  BY <1>1 DEF Bookkeeping, Book, Spawned, Mounted, Watched, Reported, Made, Over, Cleanup, Lost,
     Live, PrepSteps
<1>5. Cleaned(r)'
  BY <1>1 DEF Bookkeeping, Book, Cleaned, OutMayStay, Removable
<1> QED  BY <1>2, <1>3, <1>4, <1>5, Local DEF Book

\* After a crash no request is being served and no slot is taken.
LEMMA CrashKeeps ==
  ASSUME IInv, Crash
  PROVE  IInv'
<1> USE DEF IInv, Crash, world
<1>1. TypeOK'
  BY MaxIsPositive DEF TypeOK, WorldTypeOK, Steps, Idle
<1>2. Serving' = {}
  BY DEF Serving, TypeOK, Idle
<1>3. SlotsMatchServing'
  BY <1>2, FS_EmptySet DEF SlotsMatchServing
<1>4. ASSUME NEW r \in Requests PROVE Book(r)'
  <2>1. pc'[r] = "lost" \/ (pc'[r] = pc[r] /\ pc[r] \in {"new", "done"})
    BY DEF TypeOK, Idle
  <2>2. pc[r] = "done" => pc'[r] = "done"
    BY DEF TypeOK, Idle
  <2>3. Book(r) /\ Faults # {}
    BY DEF Bookkeeping
  <2>4. Spawned(r)' /\ Mounted(r)' /\ Watched(r)' /\ Reported(r)'
    BY <2>1, <2>2, <2>3 DEF Book, Spawned, Mounted, Watched, Reported, Made, Over, Cleanup, Lost,
       Live, PrepSteps
  <2>5. Cleaned(r)'
    BY <2>1, <2>3 DEF Book, Cleaned, OutMayStay, Removable
  <2> QED  BY <2>4, <2>5 DEF Book
<1> QED  BY <1>1, <1>3, <1>4 DEF Bookkeeping

\* Every step of the server and of its environment keeps the invariant.
LEMMA NextKeeps == IInv /\ [Next]_vars => IInv'
<1> SUFFICES ASSUME IInv, [Next]_vars PROVE IInv'
  OBVIOUS
<1>1. ASSUME NEW r \in Requests, RemoveRunDir(r) \/ RemoveOutDir(r) \/ RemoveInDir(r) PROVE IInv'
  BY <1>1, RemoveDirKeeps DEF RemoveRunDir, RemoveOutDir, RemoveInDir, DirNames
<1>2. ASSUME NEW r \in Requests, Server(r) PROVE IInv'
  BY <1>1, <1>2, PreparationKeeps, StartKeeps, WaitReturnsKeeps, DeadlineKeeps, ForceRemoveKeeps,
     ReadersEndKeeps, CollectKeeps, BlockKeeps, FinallyKeeps DEF Server
<1>3. ASSUME NEW r \in Requests, Environment(r) PROVE IInv'
  BY <1>3, SandboxKeeps, PipeAndClockKeep DEF Environment
<1>4. CASE UNCHANGED vars
  BY <1>4 DEF vars, world, handler, IInv, TypeOK, WorldTypeOK, SlotsMatchServing, Serving,
     Bookkeeping, Book, Spawned, Mounted, Cleaned, OutMayStay, Removable, Watched, Reported,
     Lost, Live
<1> QED  BY <1>2, <1>3, <1>4, ClientKeeps, CrashKeeps DEF Next, Terminated

\* The inductive invariant holds of every state the server can be in.
THEOREM Invariant == Spec => []IInv
BY InitIInv, NextKeeps, PTL DEF Spec
-----------------------------------------------------------------------------
\* Every variable stays in its domain; in particular runSemaphore is never
\* released beyond its maximum, which would throw (Program.cs:50).
THEOREM TypeCorrect == Spec => []TypeOK
BY Invariant, PTL DEF IInv

\* No slot leaks and none is released twice (Program.cs:466, in a finally block).
THEOREM NoSlotLeaks == Spec => []SlotsMatchServing
BY Invariant, PTL DEF IInv

\* The inline removal never takes the mounts from a container the server has
\* not lost sight of.
THEOREM MountsStay == Spec => []MountsInPlace
<1>1. IInv => MountsInPlace
  BY DEF IInv, Bookkeeping, Book, Mounted, MountsInPlace
<1> QED  BY <1>1, Invariant, PTL

\* An answer with exit code 0 carries the script's own metrics, unless the script
\* itself has hidden them.
THEOREM SuccessCarriesMetrics == Spec => []SuccessIsComplete
<1>1. IInv => SuccessIsComplete
  BY DEF IInv, Bookkeeping, Book, Reported, SuccessIsComplete
<1> QED  BY <1>1, Invariant, PTL

\* An answer 200 is written when the run's directories are gone.
THEOREM AnsweredMeansCleaned == Spec => []AnsweredRunsAreCleaned
<1>1. IInv => AnsweredRunsAreCleaned
  BY DEF IInv, Bookkeeping, Book, Cleaned, OutMayStay, AnsweredRunsAreCleaned
<1> QED  BY <1>1, Invariant, PTL

\* The output of a run the server has not lost sight of is collected when its
\* container has stopped (Program.cs, WaitForExitAsync and `podman rm -f`).
THEOREM CollectsWhenStopped == Spec => CollectedWhenStopped
<1>1. IInv /\ [Next]_vars
        => [\A r \in Requests : ~Lost(r) /\ pc[r] = "collect" /\ pc'[r] = "rmrun" => ~Live(r)]_vars
  BY DEF IInv, Bookkeeping, Book, Watched, Over, Lost
<1> QED  BY <1>1, Invariant, PTL DEF Spec, CollectedWhenStopped
-----------------------------------------------------------------------------
\* What a client sees of the server starts as the service does.
LEMMA InitRefines == Init => Service!Init
<1> SUFFICES ASSUME Init PROVE Service!Init
  OBVIOUS
<1>1. \A r \in Requests : PhaseOf(r) = "idle" /\ BoxOf(r) = "none"
  BY DEF Init, WorldInit, PhaseOf, BoxOf, Live, Idle
<1> QED  BY <1>1 DEF Service!Init

\* The requests the service counts as admitted are those being served.
LEMMA AdmittedIsServing == Service!Admitted = Serving
BY DEF Service!Admitted, Serving, PhaseOf, Idle

\* The service counts as the handler does.
LEMMA SameCount == \A S : Service!Cardinality(S) = Cardinality(S)
BY DEF Service!Cardinality, Cardinality

\* A request that nothing happens to is seen as it was.
LEMMA OthersUnseen ==
  ASSUME NEW r \in Requests, Others(r)
  PROVE  \A s \in Requests \ {r} : PhaseOf(s)' = PhaseOf(s) /\ BoxOf(s)' = BoxOf(s)
BY DEF Others, PhaseOf, BoxOf, Lost, Live

\* A handler that goes on is seen as admitted, whatever becomes of its CLI and
\* of its answer.
LEMMA AliveUnseen ==
  ASSUME NEW r \in Requests, Others(r), pc[r] \notin Idle, pc'[r] \notin Idle, ctr'[r] = ctr[r]
  PROVE  UNCHANGED Service!svars
<1>1. PhaseOf(r)' = PhaseOf(r) /\ BoxOf(r)' = BoxOf(r)
  BY DEF PhaseOf, BoxOf, Live, Idle
<1> QED  BY <1>1, OthersUnseen DEF Service!svars

\* A container that ends is seen to halt.
LEMMA EndRefines ==
  ASSUME NEW r \in Requests, Others(r), Live(r), ctr'[r] \in Ended, PhaseOf(r)' = PhaseOf(r)
  PROVE  Service!Halt(r)
<1>1. BoxOf(r) = "running" /\ BoxOf(r)' = "over"
  BY DEF BoxOf, Live, Ended
<1> QED  BY <1>1, OthersUnseen DEF Service!Halt

\* Turning away and taking in are what the service calls them.
LEMMA ClientRefines ==
  ASSUME IInv, NEW r \in Requests, Client(r)
  PROVE  Service!Next
<1>1. Others(r) /\ UNCHANGED <<ctr, cli>>
  BY DEF Client, Reject, Busy, Admit, Goto, Reply, IInv, TypeOK, Others, world
<1>2. \A s \in Requests : BoxOf(s)' = BoxOf(s)
  BY <1>1 DEF BoxOf, Live
<1>3. CASE Reject(r) \/ Busy(r)
  <2>1. pc[r] = "new" /\ pc'[r] = "done" /\ cli[r] = "none"
    BY <1>3 DEF Reject, Busy, Goto, IInv, TypeOK, Bookkeeping, Book, Spawned
  <2>2. PhaseOf(r) = "idle" /\ PhaseOf(r)' = "closed"
    BY <1>1, <2>1 DEF PhaseOf, Idle, Lost
  <2>3. Service!Refuse(r)
    BY <1>1, <1>2, <2>2, OthersUnseen DEF Service!Refuse
  <2> QED  BY <2>3 DEF Service!Next
<1>4. CASE Admit(r)
  <2>1. PhaseOf(r) = "idle" /\ PhaseOf(r)' = "admitted"
    BY <1>4 DEF Admit, Goto, IInv, TypeOK, PhaseOf, Idle
  <2>2. Service!Cardinality(Service!Admitted) < MaxConcurrency
    BY <1>4, AdmittedIsServing, SameCount DEF Admit, IInv, SlotsMatchServing
  <2>3. Service!Admit(r)
    BY <1>1, <1>2, <2>1, <2>2, OthersUnseen DEF Service!Admit
  <2> QED  BY <2>3 DEF Service!Next
<1> QED  BY <1>3, <1>4 DEF Client

\* The release of the slot closes the request if its container is gone, and is
\* the sight lost of it otherwise, which takes a fault.
LEMMA FinallyRefines ==
  ASSUME IInv, IInv', NEW r \in Requests, Finally(r)
  PROVE  Service!Close(r) \/ Service!Lose
<1>1. Others(r) /\ pc[r] = "finally" /\ pc'[r] = "done" /\ UNCHANGED ctr
  BY DEF Finally, Goto, IInv, TypeOK, Others, world
<1>2. PhaseOf(r) = "admitted" /\ \A s \in Requests : BoxOf(s)' = BoxOf(s)
  BY <1>1 DEF PhaseOf, Idle, BoxOf, Live
<1>3. CASE Lost(r)'
  <2>1. PhaseOf(r)' = "lost" /\ Faults # {}
    BY <1>1, <1>3 DEF PhaseOf, Idle, IInv, Bookkeeping, Book, Watched
  <2>2. {r} \in SUBSET Service!Admitted
    BY <1>2 DEF Service!Admitted
  <2>3. \A s \in Requests : PhaseOf(s)' = IF s \in {r} THEN "lost" ELSE PhaseOf(s)
    BY <1>1, <2>1, OthersUnseen
  <2>4. Service!Lose
    BY <1>2, <2>1, <2>2, <2>3 DEF Service!Lose
  <2> QED  BY <2>4
<1>4. CASE ~Lost(r)'
  <2>1. PhaseOf(r)' = "closed"
    BY <1>1, <1>4 DEF PhaseOf, Idle
  <2>2. BoxOf(r) # "running"
    BY <1>1, <1>4 DEF IInv, Bookkeeping, Book, Watched, Over, Lost, BoxOf, Live
  <2>3. Service!Close(r)
    BY <1>1, <1>2, <2>1, <2>2, OthersUnseen DEF Service!Close
  <2> QED  BY <2>3
<1> QED  BY <1>3, <1>4

\* Of the other steps of the handler only the removal of the container is seen.
LEMMA ServerRefines ==
  ASSUME IInv, IInv', NEW r \in Requests, Server(r)
  PROVE  Service!Next \/ UNCHANGED Service!svars
<1>1. CASE Finally(r)
  BY <1>1, FinallyRefines DEF Service!Next
<1>2. CASE ForceRemove(r)
  <2>1. Others(r) /\ pc[r] = "remove" /\ pc'[r] = "read"
    BY <1>2 DEF ForceRemove, ForceRemoved, Goto, IInv, TypeOK, WorldTypeOK, Others
  <2>2. CASE Live(r)
    <3>1. ctr'[r] \in Ended
      BY <1>2, <2>2 DEF ForceRemove, ForceRemoved, IInv, TypeOK, WorldTypeOK, Ended
    <3>2. PhaseOf(r)' = PhaseOf(r)
      BY <2>1 DEF PhaseOf, Idle
    <3> QED  BY <2>1, <2>2, <3>1, <3>2, EndRefines DEF Service!Next
  <2>3. CASE ~Live(r)
    BY <1>2, <2>1, <2>3, AliveUnseen DEF ForceRemove, ForceRemoved, Idle
  <2> QED  BY <2>2, <2>3
<1>3. CASE \/ Preparation(r) \/ Start(r) \/ WaitReturns(r) \/ Deadline(r) \/ ReadersEnd(r)
           \/ Collect(r) \/ Block(r) \/ RemoveRunDir(r) \/ RemoveOutDir(r) \/ RemoveInDir(r)
  <2> USE DEF IInv, TypeOK, WorldTypeOK, Goto, Reply, Idle, world
  <2>1. pc[r] \notin Idle /\ pc'[r] \notin Idle
    BY <1>3 DEF Preparation, MakeRunDir, MakeOutDir, MakeInDir, Chmod, WriteScript, WriteInputs,
       MakeDir, Prepare, Throw, Start, WaitReturns, Deadline, ReadersEnd, Collect, Block,
       RemoveRunDir, RemoveOutDir, RemoveInDir, RemoveDir
  <2>2. Others(r) /\ UNCHANGED ctr
    BY <1>3 DEF Preparation, MakeRunDir, MakeOutDir, MakeInDir, Chmod, WriteScript, WriteInputs,
       MakeDir, Prepare, Throw, Start, WaitReturns, Deadline, ReadersEnd, Collect, Block,
       RemoveRunDir, RemoveOutDir, RemoveInDir, RemoveDir, Others
  <2> QED  BY <2>1, <2>2, AliveUnseen
<1> QED  BY <1>1, <1>2, <1>3 DEF Server

\* What podman and the script do is a launch, a halt or not seen; a container
\* starts once, under a request that is admitted or lost.
LEMMA SandboxRefines ==
  ASSUME IInv, NEW r \in Requests, Sandbox(r), UNCHANGED handler
  PROVE  Service!Launch(r) \/ Service!Halt(r) \/ UNCHANGED Service!svars
<1> USE DEF IInv, TypeOK, WorldTypeOK, handler
<1>1. Others(r)
  BY DEF Sandbox, Create, Boot, ScriptEnds, TimeoutKill, CliExits, CliFails, CliDies, Others
<1>2. PhaseOf(r)' = PhaseOf(r)
  <2>1. CASE pc[r] \in {"new", "done"}
    <3>1. cli[r] # "up"
      BY <2>1 DEF Bookkeeping, Book, Spawned, Over
    <3>2. cli'[r] = cli[r]
      BY <3>1 DEF Sandbox, Create, Boot, ScriptEnds, TimeoutKill, CliExits, CliFails, CliDies
    <3> QED  BY <3>2 DEF PhaseOf, Lost
  <2>2. CASE pc[r] \notin {"new", "done"}
    BY <2>2 DEF PhaseOf, Lost, Idle
  <2> QED  BY <2>1, <2>2
<1>3. CASE Create(r)
  <2>1. BoxOf(r) = "none" /\ BoxOf(r)' = "running"
    BY <1>3 DEF Create, BoxOf, Live
  <2>2. PhaseOf(r) \in {"admitted", "lost"}
    BY <1>3 DEF Create, Bookkeeping, Book, Spawned, Over, PhaseOf, Lost, Idle
  <2>3. Service!Launch(r)
    BY <1>1, <1>2, <2>1, <2>2, OthersUnseen DEF Service!Launch
  <2> QED  BY <2>3
<1>4. CASE Live(r) /\ ctr'[r] \in Ended
  BY <1>1, <1>2, <1>4, EndRefines
<1>5. CASE BoxOf(r)' = BoxOf(r)
  BY <1>1, <1>2, <1>5, OthersUnseen DEF Service!svars
<1>6. Boot(r) /\ ctr'[r] = "script" => BoxOf(r)' = BoxOf(r)
  BY DEF Boot, BoxOf, Live
<1>7. UNCHANGED ctr => BoxOf(r)' = BoxOf(r)
  BY DEF BoxOf, Live
<1> QED  BY <1>3, <1>4, <1>5, <1>6, <1>7
         DEF Sandbox, Boot, ScriptEnds, TimeoutKill, CliExits, CliFails, CliDies, Live, Ended

\* A broken pipe and the clock are not seen.
LEMMA RestUnseen ==
  ASSUME IInv, NEW r \in Requests, BrokenPipe(r) \/ Clock(r)
  PROVE  UNCHANGED Service!svars
<1>1. UNCHANGED <<pc, ctr, answer>> /\ \A s \in Requests : cli'[s] = cli[s] \/ pc[s] = "lost"
  BY DEF BrokenPipe, Clock, Tick, handler, IInv, TypeOK, WorldTypeOK
<1>2. \A s \in Requests : PhaseOf(s)' = PhaseOf(s) /\ BoxOf(s)' = BoxOf(s)
  BY <1>1 DEF PhaseOf, BoxOf, Live, Lost, Idle
<1> QED  BY <1>2 DEF Service!svars

\* A crash loses every request being served at once.
LEMMA CrashRefines ==
  ASSUME IInv, Crash
  PROVE  Service!Lose
<1> USE DEF IInv, TypeOK, Crash, world
<1>1. Serving \in SUBSET Service!Admitted
  BY AdmittedIsServing
<1>2. ASSUME NEW r \in Requests
      PROVE  PhaseOf(r)' = IF r \in Serving THEN "lost" ELSE PhaseOf(r)
  BY <1>2 DEF Serving, PhaseOf, Lost, Idle
<1>3. \A r \in Requests : BoxOf(r)' = BoxOf(r)
  BY DEF BoxOf, Live
<1> QED  BY <1>1, <1>2, <1>3 DEF Service!Lose

\* Every step of the server is a step of the service, or is not seen.
LEMMA StepRefines ==
  IInv /\ IInv' /\ [Next]_vars => [Service!Next]_Service!svars
<1> SUFFICES ASSUME IInv, IInv', [Next]_vars PROVE Service!Next \/ UNCHANGED Service!svars
  OBVIOUS
<1>1. ASSUME NEW r \in Requests, Environment(r)
      PROVE  Service!Next \/ UNCHANGED Service!svars
  BY <1>1, SandboxRefines, RestUnseen DEF Environment, Service!Next
<1>2. CASE Crash
  BY <1>2, CrashRefines DEF Service!Next
<1>3. CASE UNCHANGED vars
  <2>1. \A s \in Requests : PhaseOf(s)' = PhaseOf(s) /\ BoxOf(s)' = BoxOf(s)
    BY <1>3 DEF vars, world, handler, PhaseOf, BoxOf, Lost, Live
  <2> QED  BY <2>1 DEF Service!svars
<1> QED  BY <1>1, <1>2, <1>3, ClientRefines, ServerRefines DEF Next, Terminated

\* The handler keeps the promise of RunService on every path, save for the
\* requests it loses sight of, and without faults it loses none (Program.cs,
\* the POST /run handler).
THEOREM ServiceIsImplemented == Spec => ImplementsService
BY InitRefines, StepRefines, Invariant, PTL DEF Spec, ImplementsService, Service!Spec
-----------------------------------------------------------------------------
\* A container still up that the handler holds or has not lost sight of is one
\* the service counts.
LEMMA WatchedIsSeen == {r \in Running : r \in Serving \/ ~Lost(r)}
    \subseteq Service!Boxes({r \in Requests : [q \in Requests |-> PhaseOf(q)][r] # "lost"})
<1> SUFFICES ASSUME NEW r \in Requests, Live(r), r \in Serving \/ ~Lost(r)
             PROVE  BoxOf(r) = "running" /\ PhaseOf(r) # "lost"
  BY DEF Running, Service!Boxes
<1> QED  BY DEF BoxOf, PhaseOf, Serving, Live

\* Any of the containers can be counted, here as in the service.
LEMMA CountsOfContainers ==
  ASSUME NEW S \in SUBSET Requests, NEW T \in SUBSET S
  PROVE  Cardinality(T) <= Service!Cardinality(S) /\ Cardinality(T) \in Nat
                                                  /\ Service!Cardinality(S) \in Nat
<1>1. IsFiniteSet(S) /\ IsFiniteSet(T)
  BY RequestsFinite, FS_Subset
<1> QED  BY <1>1, SameCount, FS_Subset, FS_CardinalityType

\* The server's parameters are good for the service.
LEMMA ServiceAssumes == Service!Parameters
BY RequestsFinite, MaxIsPositive DEF Service!Parameters, Service!IsFiniteSet, IsFiniteSet

\* runSemaphore bounds the containers the server has not lost sight of, those of errors
\* and of answers long given included: no slot comes back before its container
\* is gone (Program.cs, the finally block).
THEOREM WatchedAreCapped == Spec => []WatchedCap
<1>1. Service!Capped => WatchedCap
  <2> DEFINE Seen == Service!Boxes({r \in Requests : [q \in Requests |-> PhaseOf(q)][r] # "lost"})
  <2>1. Seen \in SUBSET Requests
    BY DEF Service!Boxes
  <2> QED  BY <2>1, WatchedIsSeen, CountsOfContainers, MaxIsPositive DEF Service!Capped, WatchedCap
<1>2. Service!Spec => []Service!Capped
  BY ServiceAssumes, Service!ServiceIsCapped
<1> QED  BY <1>1, <1>2, ServiceIsImplemented, PTL DEF ImplementsService

\* README.md:109 holds as it stands as long as nothing strikes from outside: no
\* CLI is killed under its container and no server dies.
THEOREM CappedWithoutFaults ==
  ASSUME Faults = {}
  PROVE  Spec => [](Cardinality(Running) <= MaxConcurrency)
<1>1. Service!Boxes(Requests) = Running
  BY DEF Service!Boxes, Running, BoxOf, Live
<1>2. Service!Cardinality(Service!Boxes(Requests)) = Cardinality(Running)
  BY <1>1, SameCount
<1>3. Service!Spec => [](Service!Cardinality(Service!Boxes(Requests)) <= MaxConcurrency)
  BY ServiceAssumes, Service!CappedWithoutLosses
<1>4. (Service!Cardinality(Service!Boxes(Requests)) <= MaxConcurrency) <=> Cardinality(Running) <= MaxConcurrency
  BY <1>2
<1> QED  BY <1>3, <1>4, ServiceIsImplemented, PTL DEF ImplementsService

\* What a client was told of a run that the server has not lost sight of is final:
\* no container of it comes up or goes on after the answer.
THEOREM AnswersAreFinal == Spec => Service!ClosedIsFinal
<1>1. Service!Spec => Service!ClosedIsFinal
  BY ServiceAssumes, Service!AnswersAreFinal
<1> QED  BY <1>1, ServiceIsImplemented, PTL DEF ImplementsService
=============================================================================
