--------------------------- MODULE GoServerProofs ---------------------------
(***************************************************************************)
(* Proofs about GoServer, for every set of requests, every number of slots *)
(* and every combination of faults: its invariants, and then that it       *)
(* implements RunService.                                                  *)
(***************************************************************************)
EXTENDS GoServer, FiniteSetTheorems, TLAPS

\* The inductive invariant: types, slot count and bookkeeping need each other
\* (a slot is given back only where one is held, or slots would leave Nat).
IInv == TypeOK /\ SlotsMatchServing /\ Bookkeeping
-----------------------------------------------------------------------------
\* An error reply is an answer of the handler (main.go, http.Error).
LEMMA FailureIsAnswer ==
  ASSUME NEW code \in {400, 429, 500}
  PROVE  Failure(code) \in Answers /\ Failure(code).exit = "none"
<1>1. NoAnswer \in Answers /\ NoAnswer.exit = "none"
  BY SMT DEF NoAnswer, Answers
<1>2. Failure(code) = [NoAnswer EXCEPT !.status = code]
  BY DEF Failure
<1> QED  BY <1>1, <1>2, SMT DEF Answers

\* An answer whose exit code and timeout flag are filled in is an answer.
LEMMA ExitFilledIn ==
  ASSUME NEW a \in Answers, NEW t \in BOOLEAN,
         NEW e \in {"zero", "nonzero", "signal", "124"}
  PROVE  [a EXCEPT !.exit = e, !.timedOut = t] \in Answers
<1>1. \A b \in Answers : [b EXCEPT !.timedOut = t] \in Answers
  BY DEF Answers
<1>2. [a EXCEPT !.exit = e] \in Answers
  BY DEF Answers
<1>3. [a EXCEPT !.exit = e, !.timedOut = t] = [[a EXCEPT !.exit = e] EXCEPT !.timedOut = t]
  BY DEF Answers
<1> QED  BY <1>1, <1>2, <1>3

\* So is one whose status and metrics are.
LEMMA MetricsFilledIn ==
  ASSUME NEW a \in Answers, NEW t \in BOOLEAN
  PROVE  [a EXCEPT !.status = 200, !.metrics = t] \in Answers
<1>1. \A b \in Answers : [b EXCEPT !.metrics = t] \in Answers
  BY DEF Answers
<1>2. [a EXCEPT !.status = 200] \in Answers
  BY DEF Answers
<1>3. [a EXCEPT !.status = 200, !.metrics = t]
        = [[a EXCEPT !.status = 200] EXCEPT !.metrics = t]
  BY DEF Answers
<1> QED  BY <1>1, <1>2, <1>3

\* There are finitely many requests being served, so they can be counted.
LEMMA ServingFinite == IsFiniteSet(Serving) /\ Cardinality(Serving) \in Nat
<1>1. IsFiniteSet(Serving)
  BY RequestsFinite, FS_Subset DEF Serving
<1> QED  BY <1>1, FS_CardinalityType

\* A handler that starts to serve adds one to the number being served.
LEMMA ServingGrows ==
  ASSUME TypeOK, NEW r \in Requests, NEW step,
         pc[r] = "new", Goto(r, step), step \notin {"new", "done", "lost"}
  PROVE  Cardinality(Serving') = Cardinality(Serving) + 1
<1>1. Serving' = Serving \cup {r} /\ r \notin Serving
  BY DEF Serving, Goto, TypeOK
<1> QED  BY <1>1, ServingFinite, FS_AddElement

\* A handler that returns takes one from the number being served.
LEMMA ServingShrinks ==
  ASSUME TypeOK, NEW r \in Requests, r \in Serving, Goto(r, "done")
  PROVE  Cardinality(Serving') = Cardinality(Serving) - 1 /\ Cardinality(Serving) > 0
<1>1. Serving' = Serving \ {r}
  BY DEF Serving, Goto, TypeOK
<1>2. Cardinality(Serving) # 0
  BY ServingFinite, FS_EmptySet
<1> QED  BY <1>1, <1>2, ServingFinite, FS_RemoveElement

\* A handler that goes from one statement to the next changes no count.
LEMMA ServingStays ==
  ASSUME TypeOK, NEW r \in Requests, NEW step, Goto(r, step),
         r \in Serving <=> step \notin {"new", "done", "lost"}
  PROVE  Serving' = Serving
BY DEF Serving, Goto, TypeOK

-----------------------------------------------------------------------------
\* The invariant holds when the server starts.
LEMMA InitIInv == Init => IInv
<1> SUFFICES ASSUME Init PROVE IInv
  OBVIOUS
<1> USE DEF Init, WorldInit
<1>1. TypeOK
  BY MaxIsPositive DEF TypeOK, WorldTypeOK, CliStates, CtrStates, Steps, NoAnswer, Answers
<1>2. SlotsMatchServing
  BY FS_EmptySet DEF SlotsMatchServing, Serving
<1>3. Bookkeeping
  BY DEF Bookkeeping, DepthMatchesPc, DepthOf, DirsMatchDepth, DirDefer, UpIsHeld,
         Live, ZeroIsFinal, NoAnswer, Removable
<1> QED  BY <1>1, <1>2, <1>3 DEF IInv

\* An early return keeps the invariant (main.go, the http.Error paths).
LEMMA ReturnKeeps ==
  ASSUME IInv, NEW r \in Requests, NEW code \in {400, 500}, Return(r, code),
         pc[r] \in PrepSteps \/ (pc[r] \in {"wait", "collect"} /\ cli[r] # "up")
  PROVE  IInv'
<1> USE DEF IInv
<1>1. TypeOK'
  BY FailureIsAnswer DEF TypeOK, WorldTypeOK, Return, Goto, Reply, Steps, world
<1>2. SlotsMatchServing'
  BY ServingStays DEF SlotsMatchServing, Serving, Return, PrepSteps
<1>3. Bookkeeping'
  <2> USE DEF Bookkeeping, Return, Goto, Reply, world, TypeOK, WorldTypeOK
  <2>1. DepthMatchesPc'
    BY DEF DepthMatchesPc, DepthOf, PrepSteps
  <2>2. DirsMatchDepth'
    BY DEF DirsMatchDepth, Removable, PrepSteps
  <2>3. UpIsHeld'
    BY DEF UpIsHeld, Live, PrepSteps
  <2>4. ZeroIsFinal'
    BY FailureIsAnswer DEF ZeroIsFinal
  <2> QED  BY <2>1, <2>2, <2>3, <2>4
<1> QED  BY <1>1, <1>2, <1>3

\* Turning a request away, or taking it in, keeps the invariant.
LEMMA ClientKeeps ==
  ASSUME IInv, NEW r \in Requests, Client(r)
  PROVE  IInv'
<1> USE DEF IInv, Goto, Reply, Defer
<1>1. CASE \E code \in {400, 429} : /\ pc[r] = "new"
                                    /\ Goto(r, "done") /\ Reply(r, Failure(code))
                                    /\ UNCHANGED <<world, slots, defers>>
  <2>1. TypeOK'
    BY <1>1, FailureIsAnswer DEF TypeOK, WorldTypeOK, Steps, world
  <2>2. SlotsMatchServing'
    BY <1>1, ServingStays DEF SlotsMatchServing, Serving
  <2>3. DepthMatchesPc'
    BY <1>1 DEF TypeOK, Bookkeeping, DepthMatchesPc, DepthOf
  <2>4. DirsMatchDepth' /\ UpIsHeld'
    BY <1>1 DEF TypeOK, Bookkeeping, DirsMatchDepth, UpIsHeld, Live, Removable, world
  <2>5. ZeroIsFinal'
    BY <1>1, FailureIsAnswer DEF TypeOK, Bookkeeping, ZeroIsFinal, world
  <2> QED  BY <2>1, <2>2, <2>3, <2>4, <2>5 DEF Bookkeeping
<1>2. CASE Admit(r)
  <2> USE <1>2 DEF Admit, SlotDefer
  <2>1. SlotsMatchServing'
    BY ServingGrows DEF SlotsMatchServing
  <2>2. TypeOK'
    BY MaxIsPositive DEF TypeOK, WorldTypeOK, Steps, PrepSteps, world
  <2>3. DepthMatchesPc'
    BY DEF TypeOK, Bookkeeping, DepthMatchesPc, DepthOf
  <2>4. DirsMatchDepth' /\ UpIsHeld'
    BY DEF TypeOK, Bookkeeping, DepthMatchesPc, DepthOf, DirsMatchDepth, DirDefer,
           UpIsHeld, ContainerDefer, Live, Removable, world
  <2>5. ZeroIsFinal'
    BY DEF TypeOK, Bookkeeping, ZeroIsFinal, world
  <2> QED  BY <2>1, <2>2, <2>3, <2>4, <2>5 DEF Bookkeeping
<1> QED  BY <1>1, <1>2 DEF Client, Reject, Busy

\* Making a directory and deferring its removal keeps the invariant, for each
\* of the three directories at the depth where the handler makes it.
LEMMA MakeDirKeeps ==
  ASSUME IInv, NEW r \in Requests, NEW d \in DirNames, NEW here, NEW next,
         MakeDir(r, d, here, next),
         <<d, here, next>> \in {<<"run", "mkrun", "script">>,
                                <<"out", "mkout", "chmod">>,
                                <<"in", "mkin", "inputs">>}
  PROVE  IInv'
<1> USE DEF IInv, Goto, Defer
<1>1. CASE Return(r, 500)
  BY <1>1, ReturnKeeps DEF MakeDir, PrepSteps
<1>2. CASE /\ dirs' = [dirs EXCEPT ![r] = @ \cup {d}]
           /\ Goto(r, next) /\ Defer(r, DirDefer[d])
           /\ UNCHANGED <<cli, ctr, age, owner, slots, answer>>
  <2> USE <1>2 DEF MakeDir
  <2>0. /\ pc[r] = here /\ here \in {"mkrun", "mkout", "mkin"}
        /\ next \in {"script", "chmod", "inputs"} /\ DirDefer[d] \in 2..4
    BY DEF DirDefer
  <2>1. TypeOK'
    BY <2>0 DEF TypeOK, WorldTypeOK, Steps, PrepSteps
  <2>2. SlotsMatchServing'
    BY <2>0, ServingStays DEF SlotsMatchServing, Serving
  <2>3. DepthMatchesPc'
    BY DEF TypeOK, Bookkeeping, DepthMatchesPc, DepthOf, DirDefer
  <2>4. DirsMatchDepth'
    BY DEF TypeOK, WorldTypeOK, Bookkeeping, DepthMatchesPc, DepthOf,
           DirsMatchDepth, DirDefer, Removable
  <2>5. UpIsHeld'
    BY <2>0 DEF TypeOK, WorldTypeOK, Bookkeeping, DepthMatchesPc, DepthOf,
           UpIsHeld, ContainerDefer, Live
  <2>6. ZeroIsFinal'
    BY DEF TypeOK, Bookkeeping, ZeroIsFinal
  <2> QED  BY <2>1, <2>2, <2>3, <2>4, <2>5, <2>6 DEF Bookkeeping
<1> QED  BY <1>1, <1>2 DEF MakeDir

\* So does a file operation of the preparation, whether it works or fails.
LEMMA PrepareKeeps ==
  ASSUME IInv, NEW r \in Requests, NEW here, NEW next, NEW codes \in SUBSET {400, 500},
         Prepare(r, here, next, codes),
         <<here, next>> \in {<<"script", "mkout">>, <<"chmod", "mkin">>,
                             <<"inputs", "start">>}
  PROVE  IInv'
<1> USE DEF IInv, Goto
<1>1. CASE \E code \in codes : Return(r, code)
  BY <1>1, ReturnKeeps DEF Prepare, PrepSteps
<1>2. CASE Goto(r, next) /\ UNCHANGED <<world, slots, defers, answer>>
  <2> USE <1>2 DEF Prepare
  <2>1. TypeOK'
    BY DEF TypeOK, WorldTypeOK, Steps, PrepSteps, world
  <2>2. SlotsMatchServing'
    BY ServingStays DEF SlotsMatchServing, Serving
  <2>3. DepthMatchesPc'
    BY DEF TypeOK, Bookkeeping, DepthMatchesPc, DepthOf
  <2>4. DirsMatchDepth' /\ UpIsHeld'
    BY DEF TypeOK, Bookkeeping, DirsMatchDepth, UpIsHeld, Live, Removable, world
  <2>5. ZeroIsFinal'
    BY DEF TypeOK, Bookkeeping, ZeroIsFinal, world
  <2> QED  BY <2>1, <2>2, <2>3, <2>4, <2>5 DEF Bookkeeping
<1> QED  BY <1>1, <1>2 DEF Prepare

\* Every step up to cmd.Start keeps the invariant.
LEMMA PreparationKeeps ==
  ASSUME IInv, NEW r \in Requests, Preparation(r)
  PROVE  IInv'
BY MakeDirKeeps, PrepareKeeps DEF Preparation, MakeRunDir, WriteScript, MakeOutDir,
   Chmod, MakeInDir, WriteInputs, DirNames

\* Starting the CLI, under the deferred `podman rm -f`, keeps the invariant.
LEMMA StartKeeps ==
  ASSUME IInv, NEW r \in Requests, Start(r)
  PROVE  IInv'
<1> USE DEF IInv, Start, Goto, Defer, Reply, ContainerDefer
<1>1. /\ pc[r] = "start" /\ defers[r] = 4 /\ dirs[r] = DirNames
      /\ cli[r] # "up" /\ ~Live(r)
  BY DEF TypeOK, WorldTypeOK, Bookkeeping, DepthMatchesPc, DepthOf, DirsMatchDepth,
         DirDefer, DirNames, UpIsHeld
<1>2. PICK next \in {"wait", "unwind"} : Goto(r, next)
  OBVIOUS
<1>3. TypeOK'
  BY FailureIsAnswer DEF TypeOK, WorldTypeOK, Steps, CliStates, world
<1>4. SlotsMatchServing'
  BY <1>1, <1>2, ServingStays DEF SlotsMatchServing, Serving
<1>5. DepthMatchesPc'
  BY DEF TypeOK, Bookkeeping, DepthMatchesPc, DepthOf
<1>6. DirsMatchDepth'
  BY <1>1 DEF TypeOK, WorldTypeOK, Bookkeeping, DirsMatchDepth, DirDefer, Removable, world
<1>7. UpIsHeld'
  BY <1>1 DEF TypeOK, WorldTypeOK, Bookkeeping, UpIsHeld, Live, world
<1>8. ZeroIsFinal'
  BY FailureIsAnswer DEF TypeOK, Bookkeeping, ZeroIsFinal, world
<1> QED  BY <1>3, <1>4, <1>5, <1>6, <1>7, <1>8 DEF Bookkeeping

\* What the handler reports as the exit code is one of its answers' codes, and
\* it is zero only for a script that ended with zero.
LEMMA OutcomeIsAnswer ==
  ASSUME NEW r \in Requests
  PROVE  LET a == [NoAnswer EXCEPT !.exit = Outcome(r).exit,
                                   !.timedOut = Outcome(r).timedOut]
         IN  a \in Answers /\ (a.exit = "zero" => ctr[r] = "ok")
<1>1. NoAnswer \in Answers
  BY DEF NoAnswer, Answers
<1>2. PICK e \in {"zero", "nonzero", "signal", "124"}, t \in BOOLEAN :
         e = Outcome(r).exit /\ t = Outcome(r).timedOut /\ (e = "zero" => ctr[r] = "ok")
  BY DEF Outcome, ExitStatus
<1>3. [NoAnswer EXCEPT !.exit = e, !.timedOut = t] \in Answers
  BY <1>1, ExitFilledIn, Zenon
<1>4. [NoAnswer EXCEPT !.exit = e, !.timedOut = t].exit = e
  BY DEF NoAnswer
<1> QED  BY <1>2, <1>3, <1>4

\* Adding the output and its metrics to an answer leaves its exit code alone.
LEMMA CollectedIsAnswer ==
  ASSUME NEW r \in Requests, answer[r] \in Answers, NEW m \in BOOLEAN
  PROVE  /\ [answer[r] EXCEPT !.status = 200, !.metrics = m] \in Answers
         /\ [answer[r] EXCEPT !.status = 200, !.metrics = m].exit = answer[r].exit
         /\ [answer[r] EXCEPT !.status = 200, !.metrics = m].metrics = m
<1>1. [answer[r] EXCEPT !.status = 200, !.metrics = m] \in Answers
  BY MetricsFilledIn, Zenon
<1>2. /\ [answer[r] EXCEPT !.status = 200, !.metrics = m].exit = answer[r].exit
      /\ [answer[r] EXCEPT !.status = 200, !.metrics = m].metrics = m
  BY DEF Answers
<1> QED  BY <1>1, <1>2

\* Reading metrics.json ends in one of two ways; in one only after a success
\* whose record is not hidden.
LEMMA WhatIsRead ==
  ASSUME NEW r \in Requests
  PROVE  /\ MetricsRead(r) \subseteq BOOLEAN
         /\ ctr[r] = "ok" /\ r \notin Hiding => MetricsRead(r) = {TRUE}
<1>1. HadOutput(r) \in BOOLEAN
  BY DEF HadOutput
<1> QED  BY <1>1 DEF MetricsRead

\* The end of the CLI's output and of the CLI itself keeps the invariant.
LEMMA WaitReturnsKeeps ==
  ASSUME IInv, NEW r \in Requests, WaitReturns(r)
  PROVE  IInv'
<1> USE DEF IInv, WaitReturns, Goto
<1>1. CASE Return(r, 500)
  BY <1>1, ReturnKeeps
<1>2. CASE /\ Goto(r, "collect")
           /\ Reply(r, [NoAnswer EXCEPT !.exit = Outcome(r).exit,
                                        !.timedOut = Outcome(r).timedOut])
           /\ UNCHANGED <<world, slots, defers>>
  <2> DEFINE a == [NoAnswer EXCEPT !.exit = Outcome(r).exit,
                                   !.timedOut = Outcome(r).timedOut]
  <2>1. a \in Answers /\ (a.exit = "zero" => ctr[r] = "ok")
    BY OutcomeIsAnswer
  <2>2. answer' = [answer EXCEPT ![r] = a]
    BY <1>2 DEF Reply
  <2> HIDE DEF a
  <2> USE <1>2
  <2>3. TypeOK'
    BY <2>1, <2>2 DEF TypeOK, WorldTypeOK, Steps, world
  <2>4. SlotsMatchServing'
    BY ServingStays DEF SlotsMatchServing, Serving
  <2>5. DepthMatchesPc'
    BY DEF TypeOK, Bookkeeping, DepthMatchesPc, DepthOf
  <2>6. DirsMatchDepth' /\ UpIsHeld'
    BY DEF TypeOK, Bookkeeping, DirsMatchDepth, UpIsHeld, Live, Removable, world
  <2>7. ZeroIsFinal'
    BY <2>1, <2>2 DEF TypeOK, Bookkeeping, ZeroIsFinal, world
  <2> QED  BY <2>3, <2>4, <2>5, <2>6, <2>7 DEF Bookkeeping
<1> QED  BY <1>1, <1>2

\* Reading the output and writing the answer keeps the invariant.
LEMMA CollectKeeps ==
  ASSUME IInv, NEW r \in Requests, Collect(r)
  PROVE  IInv'
<1> USE DEF IInv, Goto
<1>0. pc[r] = "collect"
  BY DEF Collect
<1>1. CASE Return(r, 500)
  BY <1>0, <1>1, ReturnKeeps DEF Bookkeeping, UpIsHeld
<1>2. ASSUME NEW m \in MetricsRead(r), Goto(r, "unwind"),
             Reply(r, [answer[r] EXCEPT !.status = 200, !.metrics = m]),
             UNCHANGED <<world, slots, defers>>
      PROVE  IInv'
  <2> DEFINE a == [answer[r] EXCEPT !.status = 200, !.metrics = m]
  <2>0. answer[r] \in Answers /\ m \in BOOLEAN
    BY <1>2, WhatIsRead DEF TypeOK
  <2>1. a \in Answers /\ a.exit = answer[r].exit
    BY <2>0, CollectedIsAnswer
  <2>2. answer' = [answer EXCEPT ![r] = a]
    BY <1>2 DEF Reply
  <2> HIDE DEF a
  <2> USE <1>0, <1>2
  <2>3. TypeOK'
    BY <2>1, <2>2 DEF TypeOK, WorldTypeOK, Steps, world
  <2>4. SlotsMatchServing'
    BY ServingStays DEF SlotsMatchServing, Serving
  <2>5. DepthMatchesPc'
    BY DEF TypeOK, Bookkeeping, DepthMatchesPc, DepthOf
  <2>6. DirsMatchDepth' /\ UpIsHeld'
    BY DEF TypeOK, Bookkeeping, DirsMatchDepth, UpIsHeld, Live, Removable, world
  <2>7. ZeroIsFinal'
    BY <2>1, <2>2 DEF TypeOK, Bookkeeping, ZeroIsFinal, world
  <2> QED  BY <2>3, <2>4, <2>5, <2>6, <2>7 DEF Bookkeeping
<1> QED  BY <1>1, <1>2 DEF Collect

\* So does a handler that waits in vain.
LEMMA BlockKeeps ==
  ASSUME IInv, NEW r \in Requests, Block(r)
  PROVE  IInv'
<1> USE DEF IInv, Block, Goto
<1>1. TypeOK'
  BY DEF TypeOK, WorldTypeOK, Steps, world
<1>2. SlotsMatchServing'
  BY ServingStays DEF SlotsMatchServing, Serving
<1>3. DepthMatchesPc'
  BY DEF TypeOK, Bookkeeping, DepthMatchesPc, DepthOf
<1>4. DirsMatchDepth' /\ UpIsHeld'
  BY DEF TypeOK, Bookkeeping, DirsMatchDepth, UpIsHeld, Live, Removable, world
<1>5. ZeroIsFinal'
  BY DEF Bookkeeping, ZeroIsFinal, world
<1> QED  BY <1>1, <1>2, <1>3, <1>4, <1>5 DEF Bookkeeping

\* The deferred `podman rm -f` keeps the invariant.
LEMMA RemoveContainerKeeps ==
  ASSUME IInv, NEW r \in Requests, RemoveContainer(r)
  PROVE  IInv'
<1> USE DEF IInv, RemoveContainer, Defer, ContainerDefer, DirDefer
<1>1. ctr' = IF Live(r) THEN [ctr EXCEPT ![r] = "removed"] ELSE ctr
  BY DEF ForceRemoved
<1>2. ~Live(r)'
  BY <1>1 DEF Live, TypeOK, WorldTypeOK
<1>3. TypeOK'
  BY <1>1 DEF TypeOK, WorldTypeOK, CtrStates, Ended
<1>4. SlotsMatchServing'
  BY DEF SlotsMatchServing, Serving
<1>5. DepthMatchesPc'
  BY DEF TypeOK, Bookkeeping, DepthMatchesPc
<1>6. DirsMatchDepth'
  BY DEF TypeOK, WorldTypeOK, Bookkeeping, DirsMatchDepth, Removable
<1>7. UpIsHeld'
  BY <1>1, <1>2 DEF TypeOK, WorldTypeOK, Bookkeeping, UpIsHeld, Live
<1>8. ZeroIsFinal'
  BY <1>1 DEF TypeOK, WorldTypeOK, Bookkeeping, ZeroIsFinal, Live
<1> QED  BY <1>3, <1>4, <1>5, <1>6, <1>7, <1>8 DEF Bookkeeping

\* A deferred os.RemoveAll, which may fail for the output directory alone,
\* keeps the invariant.
LEMMA RemoveDirKeeps ==
  ASSUME IInv, NEW r \in Requests, NEW d \in DirNames, RemoveDir(r, d)
  PROVE  IInv'
<1> USE DEF IInv, RemoveDir, Defer
<1>1. /\ DirDefer[d] \in 2..4 /\ defers[r] = DirDefer[d] /\ pc[r] = "unwind"
      /\ dirs' = [dirs EXCEPT ![r] = DirsAfterRemoving(r, d)]
      /\ defers' = [defers EXCEPT ![r] = defers[r] - 1]
  BY DEF DirDefer, DirNames
<1>2. cli[r] # "up" /\ ~Live(r)
  BY <1>1 DEF Bookkeeping, UpIsHeld, ContainerDefer
<1>3. TypeOK'
  BY <1>1 DEF TypeOK, WorldTypeOK, DirsAfterRemoving
<1>4. SlotsMatchServing'
  BY DEF SlotsMatchServing, Serving
<1>5. DepthMatchesPc'
  BY <1>1 DEF TypeOK, Bookkeeping, DepthMatchesPc
<1>6. DirsMatchDepth'
  BY <1>1 DEF TypeOK, WorldTypeOK, Bookkeeping, DirsMatchDepth, Removable,
              DirsAfterRemoving, DirDefer, DirNames
<1>7. UpIsHeld'
  BY <1>1, <1>2 DEF TypeOK, WorldTypeOK, Bookkeeping, UpIsHeld, Live, ContainerDefer
<1>8. ZeroIsFinal'
  BY DEF Bookkeeping, ZeroIsFinal
<1> QED  BY <1>3, <1>4, <1>5, <1>6, <1>7, <1>8 DEF Bookkeeping

\* Giving the slot back, the last deferred call, keeps the invariant.
LEMMA ReleaseSlotKeeps ==
  ASSUME IInv, NEW r \in Requests, ReleaseSlot(r)
  PROVE  IInv'
<1> USE DEF IInv, ReleaseSlot, Defer, SlotDefer
<1>1. pc[r] = "unwind" /\ defers[r] = 1 /\ r \in Serving
  BY DEF Serving
<1>2. Cardinality(Serving') = slots - 1 /\ slots > 0
  BY <1>1, ServingShrinks DEF SlotsMatchServing
<1>3. TypeOK'
  BY <1>2, MaxIsPositive DEF TypeOK, WorldTypeOK, Goto, Steps, world
<1>4. SlotsMatchServing'
  BY <1>2 DEF SlotsMatchServing
<1>5. DepthMatchesPc'
  BY DEF TypeOK, Bookkeeping, DepthMatchesPc, DepthOf, Goto
<1>6. DirsMatchDepth'
  BY <1>1 DEF TypeOK, WorldTypeOK, Bookkeeping, DirsMatchDepth, Removable, DirDefer,
              Goto, world
<1>7. UpIsHeld'
  BY <1>1 DEF TypeOK, WorldTypeOK, Bookkeeping, UpIsHeld, Live, Goto, ContainerDefer, world
<1>8. ZeroIsFinal'
  BY DEF TypeOK, Bookkeeping, ZeroIsFinal, world
<1> QED  BY <1>3, <1>4, <1>5, <1>6, <1>7, <1>8 DEF Bookkeeping

\* What podman and the script do keeps the invariant, whichever handler the
\* container belongs to.
LEMMA SandboxKeeps ==
  ASSUME IInv, NEW r \in Requests, Sandbox(r), UNCHANGED handler
  PROVE  IInv'
<1> USE DEF IInv, handler, Ended
<1>1. /\ cli' \in [Requests -> CliStates] /\ ctr' \in [Requests -> CtrStates]
      /\ owner' \in [Requests -> {"server", "subuid"}]
      /\ UNCHANGED <<age, dirs>>
      /\ \A s \in Requests : cli'[s] = "up" => cli[s] = "up"
      /\ \A s \in Requests : Live(s)' => Live(s) \/ cli[s] = "up"
      /\ \A s \in Requests : owner[s] = "subuid" => owner'[s] = "subuid"
      /\ \A s \in Requests : ctr[s] = "ok" => ctr'[s] = "ok"
  BY DEF TypeOK, WorldTypeOK, CliStates, CtrStates, Live, Sandbox, Create, Boot,
         ScriptEnds, TimeoutKill, CliExits, CliFails, CliDies
<1>2. \A s \in Requests : Live(s)' => defers[s] = ContainerDefer \/ pc[s] = "lost"
  BY <1>1 DEF Bookkeeping, UpIsHeld, DepthMatchesPc, DepthOf, ContainerDefer
<1>3. TypeOK'
  BY <1>1 DEF TypeOK, WorldTypeOK
<1>4. SlotsMatchServing'
  BY DEF SlotsMatchServing, Serving
<1>5. DepthMatchesPc'
  BY DEF Bookkeeping, DepthMatchesPc
<1>6. DirsMatchDepth'
  BY <1>1 DEF TypeOK, WorldTypeOK, Bookkeeping, DirsMatchDepth, Removable
<1>7. UpIsHeld'
  BY <1>1, <1>2 DEF Bookkeeping, UpIsHeld
<1>8. ZeroIsFinal'
  BY <1>1 DEF Bookkeeping, ZeroIsFinal
<1> QED  BY <1>3, <1>4, <1>5, <1>6, <1>7, <1>8 DEF Bookkeeping

\* A CLI killed by the deadline or by a broken pipe, and the passage of time,
\* keep the invariant.
LEMMA KillAndClockKeep ==
  ASSUME IInv, NEW r \in Requests, ContextKill(r) \/ BrokenPipe(r) \/ Clock(r)
  PROVE  IInv'
<1> USE DEF IInv, handler
<1>1. /\ cli' \in [Requests -> CliStates] /\ age' \in [Requests -> 0..2]
      /\ UNCHANGED <<ctr, dirs, owner, pc, slots, defers, answer>>
      /\ \A s \in Requests : cli'[s] = "up" => cli[s] = "up"
  BY DEF TypeOK, WorldTypeOK, CliStates, ContextKill, BrokenPipe, Clock, Tick
<1>2. TypeOK' /\ SlotsMatchServing'
  BY <1>1 DEF TypeOK, WorldTypeOK, SlotsMatchServing, Serving
<1>3. Bookkeeping'
  BY <1>1 DEF Bookkeeping, DepthMatchesPc, DirsMatchDepth, UpIsHeld, ZeroIsFinal,
              Live, Removable
<1> QED  BY <1>2, <1>3

\* A crash and the restart that follows keep the invariant: the new channel is
\* empty, and no handler is being served.
LEMMA CrashKeeps ==
  ASSUME IInv, Crash
  PROVE  IInv'
<1> USE DEF IInv, Crash, world
<1>1. TypeOK'
  BY MaxIsPositive DEF TypeOK, WorldTypeOK, Steps
<1>2. Serving' = {}
  BY DEF Serving, TypeOK
<1>3. SlotsMatchServing'
  BY <1>2, FS_EmptySet DEF SlotsMatchServing
<1>4. DepthMatchesPc'
  BY DEF TypeOK, DepthMatchesPc, DepthOf
<1>5. DirsMatchDepth'
  <2>1. \A r \in Requests : pc'[r] # "lost" => pc[r] \in {"new", "done"} /\ defers[r] = 0
    BY DEF TypeOK, Bookkeeping, DepthMatchesPc, DepthOf
  <2> QED  BY <2>1 DEF TypeOK, Bookkeeping, DirsMatchDepth, DirDefer, Removable
<1>6. UpIsHeld'
  BY DEF TypeOK, Bookkeeping, DepthMatchesPc, DepthOf, UpIsHeld, Live, ContainerDefer
<1>7. ZeroIsFinal'
  BY DEF Bookkeeping, ZeroIsFinal
<1> QED  BY <1>1, <1>3, <1>4, <1>5, <1>6, <1>7 DEF Bookkeeping

\* Every step of the server and of its environment keeps the invariant.
LEMMA NextKeeps == IInv /\ [Next]_vars => IInv'
<1> SUFFICES ASSUME IInv, [Next]_vars PROVE IInv'
  OBVIOUS
<1>1. ASSUME NEW r \in Requests, Client(r) PROVE IInv'
  BY <1>1, ClientKeeps
<1>2. ASSUME NEW r \in Requests, Server(r) PROVE IInv'
  BY <1>2, PreparationKeeps, StartKeeps, KillAndClockKeep, WaitReturnsKeeps,
     CollectKeeps, BlockKeeps, RemoveContainerKeeps, RemoveDirKeeps, ReleaseSlotKeeps
     DEF Server, Unwind
<1>3. ASSUME NEW r \in Requests, Environment(r) PROVE IInv'
  BY <1>3, SandboxKeeps, KillAndClockKeep DEF Environment
<1>4. CASE UNCHANGED vars
  BY <1>4 DEF vars, world, handler, IInv, TypeOK, WorldTypeOK, SlotsMatchServing, Serving,
     Bookkeeping, DepthMatchesPc, DirsMatchDepth, Removable, UpIsHeld, Live, ZeroIsFinal
<1> QED  BY <1>1, <1>2, <1>3, <1>4, CrashKeeps DEF Next, Terminated

\* The inductive invariant holds of every state the server can be in.
THEOREM Invariant == Spec => []IInv
BY InitIInv, NextKeeps, PTL DEF Spec
-----------------------------------------------------------------------------
\* Every variable stays in its domain; in particular sem, a buffered channel,
\* never holds fewer than no tokens nor more than its capacity (main.go:38).
THEOREM TypeCorrect == Spec => []TypeOK
BY Invariant, PTL DEF IInv

\* The bookkeeping agrees with the host on every path through the handler.
THEOREM BookkeepingIsRight == Spec => []Bookkeeping
BY Invariant, PTL DEF IInv

\* No slot leaks and none is freed twice (main.go, sem and its defer).
THEOREM NoSlotLeaks == Spec => []SlotsMatchServing
BY Invariant, PTL DEF IInv

\* The mounts of a container outlive it, even when its CLI has died.
THEOREM MountsStay == Spec => []MountsInPlace
<1>1. IInv => MountsInPlace
  BY DEF IInv, Bookkeeping, UpIsHeld, MountsInPlace
<1> QED  BY <1>1, Invariant, PTL

\* A handler that returns leaves nothing but an output directory it may not
\* remove, on every one of its paths (main.go, the defers).
THEOREM ReturnsClean == Spec => []NothingLeftBehind
<1>1. IInv => NothingLeftBehind
  BY DEF IInv, TypeOK, WorldTypeOK, Bookkeeping, DepthMatchesPc, DepthOf, DirsMatchDepth,
         DirDefer, DirNames, UpIsHeld, ContainerDefer, NothingLeftBehind
<1> QED  BY <1>1, Invariant, PTL

\* The slots bound the containers on the host and not the requests alone, since
\* a container is gone before its slot is (main.go, the order of the defers).
THEOREM ContainersAreCapped == Spec => []ContainerCap
<1>1. ASSUME IInv PROVE ContainerCap
  <2> DEFINE Held == {r \in Running : pc[r] # "lost"}
  <2>1. Held \subseteq Serving
    BY <1>1 DEF IInv, Bookkeeping, UpIsHeld, DepthMatchesPc, DepthOf, ContainerDefer,
                Running, Serving
  <2>2. Cardinality(Held) <= Cardinality(Serving) /\ Cardinality(Held) \in Nat
    BY <2>1, ServingFinite, FS_Subset, FS_CardinalityType
  <2>3. Cardinality(Serving) <= MaxConcurrency
    BY <1>1, MaxIsPositive DEF IInv, TypeOK, SlotsMatchServing
  <2> QED  BY <2>2, <2>3, ServingFinite, MaxIsPositive DEF ContainerCap
<1> QED  BY <1>1, Invariant, PTL
-----------------------------------------------------------------------------
\* A reply that reports no success keeps to the property.
LEMMA OtherAnswersComplete ==
  ASSUME TypeOK, SuccessIsComplete, NEW r \in Requests, NEW a,
         Reply(r, a), r \notin Hiding /\ a.status = 200 /\ a.exit = "zero" => a.metrics
  PROVE  SuccessIsComplete'
BY DEF TypeOK, SuccessIsComplete, Reply

\* An error reply reports no success.
LEMMA FailureIsNoSuccess ==
  ASSUME NEW code \in {400, 429, 500}
  PROVE  Failure(code).status # 200 \/ Failure(code).exit # "zero"
BY FailureIsAnswer

\* An answer with exit code 0 carries the script's own metrics, unless the script
\* itself has hidden them: the handler reads metrics.json only after the container
\* has ended, and a zero status is the script's (main.go, from cmd.Wait on).
THEOREM SuccessCarriesMetrics == Spec => []SuccessIsComplete
<1>1. Init => SuccessIsComplete
  BY DEF Init, NoAnswer, SuccessIsComplete
<1>2. IInv /\ SuccessIsComplete /\ [Next]_vars => SuccessIsComplete'
  <2> SUFFICES ASSUME IInv, SuccessIsComplete, [Next]_vars
               PROVE  SuccessIsComplete'
    OBVIOUS
  <2> USE DEF IInv
  <2>1. CASE UNCHANGED answer
    BY <2>1 DEF SuccessIsComplete
  <2>2. ASSUME NEW r \in Requests, NEW code \in {400, 429, 500}, Reply(r, Failure(code))
        PROVE  SuccessIsComplete'
    BY <2>2, OtherAnswersComplete, FailureIsNoSuccess
  <2>3. ASSUME NEW r \in Requests, Collect(r) PROVE SuccessIsComplete'
    <3>1. CASE Return(r, 500)
      BY <3>1, <2>2 DEF Return
    <3>2. ASSUME NEW m \in MetricsRead(r),
                 Reply(r, [answer[r] EXCEPT !.status = 200, !.metrics = m])
          PROVE  SuccessIsComplete'
      <4>1. answer[r] \in Answers /\ m \in BOOLEAN
        BY WhatIsRead DEF TypeOK
      <4>2. answer[r].exit = "zero" /\ r \notin Hiding => m = TRUE
        BY WhatIsRead DEF Bookkeeping, ZeroIsFinal
      <4> DEFINE a == [answer[r] EXCEPT !.status = 200, !.metrics = m]
      <4>3. a.exit = answer[r].exit /\ a.metrics = m
        BY <4>1 DEF Answers
      <4>4. Reply(r, a)
        BY <3>2
      <4> HIDE DEF a
      <4> QED  BY <4>2, <4>3, <4>4, OtherAnswersComplete
    <3> QED  BY <2>3, <3>1, <3>2 DEF Collect
  <2>4. ASSUME NEW r \in Requests, WaitReturns(r) PROVE SuccessIsComplete'
    <3>1. CASE Return(r, 500)
      BY <3>1, <2>2 DEF Return
    <3>2. CASE Reply(r, [NoAnswer EXCEPT !.exit = Outcome(r).exit,
                                         !.timedOut = Outcome(r).timedOut])
      <4> DEFINE a == [NoAnswer EXCEPT !.exit = Outcome(r).exit,
                                       !.timedOut = Outcome(r).timedOut]
      <4>1. a.status = 0 /\ Reply(r, a)
        BY <3>2 DEF NoAnswer
      <4> HIDE DEF a
      <4> QED  BY <4>1, OtherAnswersComplete
    <3> QED  BY <2>4, <3>1, <3>2 DEF WaitReturns
  <2>5. ASSUME NEW r \in Requests, Client(r) PROVE SuccessIsComplete'
    BY <2>1, <2>2, <2>5 DEF Client, Reject, Busy, Admit
  <2>6. ASSUME NEW r \in Requests, Preparation(r) \/ Start(r) PROVE SuccessIsComplete'
    BY <2>1, <2>2, <2>6 DEF Preparation, MakeRunDir, WriteScript, MakeOutDir, Chmod,
       MakeInDir, WriteInputs, MakeDir, Prepare, Return, Start, world
  <2>7. ASSUME NEW r \in Requests,
               Unwind(r) \/ Environment(r) \/ ContextKill(r) \/ Block(r)
        PROVE  UNCHANGED answer
    BY <2>7 DEF Unwind, RemoveContainer, RemoveDir, ReleaseSlot, Environment, BrokenPipe,
       Clock, ContextKill, Block, handler
  <2> QED  BY <2>1, <2>3, <2>4, <2>5, <2>6, <2>7
           DEF Next, Server, Crash, Terminated, vars, handler
<1> QED  BY <1>1, <1>2, Invariant, PTL DEF Spec
-----------------------------------------------------------------------------
\* What a client sees of the server starts as the service does.
LEMMA InitRefines == Init => Service!Init
<1> SUFFICES ASSUME Init PROVE Service!Init
  OBVIOUS
<1>1. \A r \in Requests : PhaseOf(r) = "idle" /\ BoxOf(r) = "none"
  BY DEF Init, WorldInit, PhaseOf, BoxOf, Live
<1> QED  BY <1>1 DEF Service!Init

\* The requests the service counts as admitted are those being served.
LEMMA AdmittedIsServing == Service!Admitted = Serving
BY DEF Service!Admitted, Serving, PhaseOf

\* The service counts as the handler does.
LEMMA SameCount == \A S : Service!Cardinality(S) = Cardinality(S)
BY DEF Service!Cardinality, Cardinality

\* A step that moves no container over a visible threshold, and no handler but
\* one that serves and goes on serving, is not seen.
LEMMA UnseenStep ==
  ASSUME TypeOK,
         \/ UNCHANGED pc
         \/ \E r \in Serving : \E step \in Steps \ {"new", "done", "lost"} : Goto(r, step),
         UNCHANGED ctr
  PROVE  UNCHANGED Service!svars
<1>1. \A r \in Requests : PhaseOf(r)' = PhaseOf(r)
  BY DEF TypeOK, Goto, Serving, PhaseOf
<1>2. \A r \in Requests : BoxOf(r)' = BoxOf(r)
  BY DEF BoxOf, Live
<1> QED  BY <1>1, <1>2 DEF Service!svars

\* A container that ends, for whatever reason, is seen to halt.
LEMMA EndRefines ==
  ASSUME TypeOK, NEW r \in Requests, NEW end \in Ended,
         Live(r), ctr' = [ctr EXCEPT ![r] = end], UNCHANGED pc
  PROVE  Service!Halt(r)
<1>1. BoxOf(r) = "running" /\ BoxOf(r)' = "over"
  BY DEF TypeOK, WorldTypeOK, BoxOf, Live, Ended
<1>2. \A s \in Requests \ {r} : BoxOf(s)' = BoxOf(s)
  BY DEF TypeOK, WorldTypeOK, BoxOf, Live
<1>3. \A s \in Requests : PhaseOf(s)' = PhaseOf(s)
  BY DEF PhaseOf
<1> QED  BY <1>1, <1>2, <1>3 DEF Service!Halt

\* Turning away and taking in are what the service calls them.
LEMMA ClientRefines ==
  ASSUME IInv, NEW r \in Requests, Client(r)
  PROVE  Service!Refuse(r) \/ Service!Admit(r)
<1> USE DEF Goto, world
<1>1. \A s \in Requests : BoxOf(s)' = BoxOf(s)
  BY DEF Client, Reject, Busy, Admit, BoxOf, Live
<1>2. PhaseOf(r) = "idle" /\ \A s \in Requests \ {r} : PhaseOf(s)' = PhaseOf(s)
  BY DEF Client, Reject, Busy, Admit, IInv, TypeOK, PhaseOf
<1>3. CASE Reject(r) \/ Busy(r)
  <2>1. PhaseOf(r)' = "closed"
    BY <1>3 DEF Reject, Busy, IInv, TypeOK, PhaseOf
  <2>2. Service!Refuse(r)
    BY <1>1, <1>2, <2>1 DEF Service!Refuse
  <2> QED  BY <2>2
<1>4. CASE Admit(r)
  <2>1. PhaseOf(r)' = "admitted"
    BY <1>4 DEF Admit, IInv, TypeOK, PhaseOf
  <2>2. Service!Cardinality(Service!Admitted) < MaxConcurrency
    BY <1>4, AdmittedIsServing, SameCount DEF Admit, IInv, SlotsMatchServing
  <2>3. Service!Admit(r)
    BY <1>1, <1>2, <2>1, <2>2 DEF Service!Admit
  <2> QED  BY <2>3
<1> QED  BY <1>3, <1>4 DEF Client

\* Preparing the run, starting it and collecting it are not seen; nor is the
\* removal of its directories.
LEMMA ServingUnseen ==
  ASSUME IInv, NEW r \in Requests,
         \/ Preparation(r) \/ Start(r) \/ ContextKill(r) \/ WaitReturns(r)
         \/ Collect(r) \/ Block(r) \/ \E d \in DirNames : RemoveDir(r, d)
  PROVE  UNCHANGED Service!svars
<1>1. \/ UNCHANGED pc
      \/ \E step \in Steps \ {"new", "done", "lost"} : Goto(r, step)
  BY DEF Preparation, MakeRunDir, WriteScript, MakeOutDir, Chmod, MakeInDir, WriteInputs,
         MakeDir, Prepare, Return, Start, ContextKill, WaitReturns, Collect, Block, RemoveDir,
         Steps, PrepSteps, handler
<1>2. UNCHANGED ctr
  BY DEF Preparation, MakeRunDir, WriteScript, MakeOutDir, Chmod, MakeInDir, WriteInputs,
         MakeDir, Prepare, Return, Start, ContextKill, WaitReturns, Collect, Block, RemoveDir, world
<1>3. r \in Serving \/ UNCHANGED pc
  BY DEF Preparation, MakeRunDir, WriteScript, MakeOutDir, Chmod, MakeInDir, WriteInputs,
         MakeDir, Prepare, Start, ContextKill, WaitReturns, Collect, Block, RemoveDir, Serving
<1> QED  BY <1>1, <1>2, <1>3, UnseenStep DEF IInv

\* The last deferred call closes the request, when its container is gone.
LEMMA ReleaseRefines ==
  ASSUME IInv, NEW r \in Requests, ReleaseSlot(r)
  PROVE  Service!Close(r)
<1> USE DEF ReleaseSlot, IInv, TypeOK, Goto, SlotDefer, world
<1>1. BoxOf(r) # "running" /\ \A s \in Requests : BoxOf(s)' = BoxOf(s)
  BY DEF Bookkeeping, UpIsHeld, ContainerDefer, BoxOf, Live
<1>2. PhaseOf(r) = "admitted" /\ PhaseOf(r)' = "closed"
  BY DEF PhaseOf
<1>3. \A s \in Requests \ {r} : PhaseOf(s)' = PhaseOf(s)
  BY DEF PhaseOf
<1> QED  BY <1>1, <1>2, <1>3 DEF Service!Close

\* A container starts once, under a handler that waits for it or is lost.
LEMMA CreateRefines ==
  ASSUME IInv, NEW r \in Requests, Create(r), UNCHANGED handler
  PROVE  Service!Launch(r)
<1> USE DEF Create, IInv, TypeOK, WorldTypeOK, handler
<1>1. BoxOf(r) = "none" /\ BoxOf(r)' = "running"
  BY DEF BoxOf, Live
<1>2. \A s \in Requests \ {r} : BoxOf(s)' = BoxOf(s)
  BY DEF BoxOf, Live
<1>3. PhaseOf(r) \in {"admitted", "lost"} /\ \A s \in Requests : PhaseOf(s)' = PhaseOf(s)
  BY DEF Bookkeeping, UpIsHeld, PhaseOf
<1> QED  BY <1>1, <1>2, <1>3 DEF Service!Launch

\* What podman and the script do is a launch, a halt or not seen.
LEMMA SandboxRefines ==
  ASSUME IInv, NEW r \in Requests, Sandbox(r), UNCHANGED handler
  PROVE  Service!Launch(r) \/ Service!Halt(r) \/ UNCHANGED Service!svars
<1> USE DEF IInv, handler
<1>1. CASE Create(r)
  BY <1>1, CreateRefines
<1>2. CASE \E end \in Ended : Live(r) /\ ctr' = [ctr EXCEPT ![r] = end]
  BY <1>2, EndRefines
<1>3. CASE Boot(r) /\ ctr' = [ctr EXCEPT ![r] = "script"]
  <2>1. \A s \in Requests : BoxOf(s)' = BoxOf(s)
    BY <1>3 DEF Boot, TypeOK, WorldTypeOK, BoxOf, Live
  <2>2. \A s \in Requests : PhaseOf(s)' = PhaseOf(s)
    BY DEF PhaseOf
  <2>3. UNCHANGED Service!svars
    BY <2>1, <2>2 DEF Service!svars
  <2> QED  BY <2>3
<1>4. CASE UNCHANGED ctr
  BY <1>4, UnseenStep
<1> QED  BY <1>1, <1>2, <1>3, <1>4
         DEF Sandbox, Boot, ScriptEnds, TimeoutKill, CliExits, CliFails, CliDies, Live, Ended

\* A crash loses every request being served at once.
LEMMA CrashRefines ==
  ASSUME IInv, Crash
  PROVE  Service!Lose
<1> USE DEF IInv, Crash, world
<1>1. Serving \in SUBSET Service!Admitted
  BY AdmittedIsServing
<1>2. \A r \in Requests : PhaseOf(r)' = IF r \in Serving THEN "lost" ELSE PhaseOf(r)
  <2>1. ASSUME NEW r \in Requests, r \in Serving PROVE PhaseOf(r)' = "lost"
    BY <2>1 DEF Serving, PhaseOf, TypeOK
  <2>2. ASSUME NEW r \in Requests, r \notin Serving PROVE PhaseOf(r)' = PhaseOf(r)
    BY <2>2 DEF Serving, PhaseOf, TypeOK
  <2> QED  BY <2>1, <2>2
<1>3. \A r \in Requests : BoxOf(r)' = BoxOf(r)
  BY DEF BoxOf, Live
<1> QED  BY <1>1, <1>2, <1>3 DEF Service!Lose

\* Every step of the server is a step of the service, or is not seen.
LEMMA StepRefines ==
  IInv /\ [Next]_vars => [Service!Next]_Service!svars
<1> SUFFICES ASSUME IInv, [Next]_vars PROVE [Service!Next]_Service!svars
  OBVIOUS
<1>1. ASSUME NEW r \in Requests, Client(r) PROVE Service!Next
  BY <1>1, ClientRefines DEF Service!Next
<1>2. ASSUME NEW r \in Requests, Server(r) PROVE Service!Next \/ UNCHANGED Service!svars
  <2>1. CASE RemoveContainer(r)
    <3>1. CASE Live(r)
      BY <2>1, <3>1, EndRefines DEF RemoveContainer, ForceRemoved, Ended, IInv, Service!Next
    <3>2. CASE ~Live(r)
      BY <2>1, <3>2, UnseenStep DEF RemoveContainer, ForceRemoved, IInv
    <3> QED  BY <3>1, <3>2
  <2>2. CASE ReleaseSlot(r)
    BY <2>2, ReleaseRefines DEF Service!Next
  <2> QED  BY <1>2, <2>1, <2>2, ServingUnseen DEF Server, Unwind
<1>3. ASSUME NEW r \in Requests, Environment(r)
      PROVE  Service!Next \/ UNCHANGED Service!svars
  <2>1. CASE Sandbox(r) /\ UNCHANGED handler
    BY <2>1, SandboxRefines DEF Service!Next
  <2>2. CASE BrokenPipe(r) \/ Clock(r)
    BY <2>2, UnseenStep DEF BrokenPipe, Clock, Tick, handler, IInv
  <2> QED  BY <1>3, <2>1, <2>2 DEF Environment
<1>4. CASE Crash
  BY <1>4, CrashRefines DEF Service!Next
<1>5. CASE UNCHANGED vars
  BY <1>5, UnseenStep DEF vars, world, handler, IInv
<1> QED  BY <1>1, <1>2, <1>3, <1>4, <1>5 DEF Next, Terminated

\* The handler keeps the promise of RunService, on every path and whatever dies
\* around it (main.go, handleRun).
THEOREM ServiceIsImplemented == Spec => ImplementsService
BY InitRefines, StepRefines, Invariant, PTL DEF Spec, ImplementsService, Service!Spec
-----------------------------------------------------------------------------
\* The server's parameters are good for the service.
LEMMA ServiceAssumes == Service!Parameters
BY RequestsFinite, MaxIsPositive DEF Service!Parameters, Service!IsFiniteSet, IsFiniteSet

\* README.md:109 holds as it stands unless the server itself is restarted: a CLI
\* that dies does not matter here, since the deferred `podman rm -f` finds the
\* container by its name (main.go:304).
THEOREM CappedWithoutCrash ==
  ASSUME "crash" \notin Faults
  PROVE  Spec => [](Cardinality(Running) <= MaxConcurrency)
<1>1. Service!Boxes(Requests) = Running
  BY DEF Service!Boxes, Running, BoxOf, Live
<1>2. Service!Cardinality(Service!Boxes(Requests)) = Cardinality(Running)
  BY <1>1, SameCount
<1>3. Service!Spec => [](Service!Cardinality(Service!Boxes(Requests)) <= MaxConcurrency)
  BY ServiceAssumes, Service!CappedWithoutLosses
<1>4. (Service!Cardinality(Service!Boxes(Requests)) <= MaxConcurrency) <=> Cardinality(Running) <= MaxConcurrency
  BY <1>2
<1> QED  BY <1>3, <1>4, ServiceIsImplemented, PTL DEF ImplementsService

\* What a client was told of a run is final, unless the server crashed:
\* no container of it comes up or goes on after the answer.
THEOREM AnswersAreFinal == Spec => Service!ClosedIsFinal
<1>1. Service!Spec => Service!ClosedIsFinal
  BY ServiceAssumes, Service!AnswersAreFinal
<1> QED  BY <1>1, ServiceIsImplemented, PTL DEF ImplementsService
=============================================================================
