----------------------------- MODULE RunService -----------------------------
(***************************************************************************)
(* What every worker server promises about POST /run, whatever its         *)
(* language: a request is refused at once or admitted, at most             *)
(* MaxConcurrency requests are admitted at a time, an admitted request     *)
(* runs at most one container, and it is closed (its slot given back) only *)
(* when that container has left the host.                                  *)
(*                                                                         *)
(* Where the server can lose sight of a container (Losses), a request may  *)
(* instead be lost: its slot is given back while its container may still   *)
(* be up, or yet to come up.                                               *)
(***************************************************************************)
EXTENDS Integers, FiniteSets, FiniteSetTheorems, TLAPS

CONSTANTS Requests, MaxConcurrency, Losses

\* What the theorems below ask of the parameters.
Parameters == IsFiniteSet(Requests) /\ MaxConcurrency \in Nat

VARIABLES
  phase, \* phase[r]: "idle", "admitted", "closed" or "lost"
  box    \* box[r]: the container of r, "none", "running" or "over"

svars == <<phase, box>>

Admitted == {r \in Requests : phase[r] = "admitted"}

Init ==
  /\ phase = [r \in Requests |-> "idle"]
  /\ box   = [r \in Requests |-> "none"]

\* A bad request, or one that finds the server full, is turned away.
Refuse(r) ==
  /\ phase[r] = "idle"
  /\ phase' = [phase EXCEPT ![r] = "closed"]
  /\ UNCHANGED box

Admit(r) ==
  /\ phase[r] = "idle"
  /\ Cardinality(Admitted) < MaxConcurrency
  /\ phase' = [phase EXCEPT ![r] = "admitted"]
  /\ UNCHANGED box

\* The container of a request starts, once.
Launch(r) ==
  /\ phase[r] \in {"admitted", "lost"} /\ box[r] = "none"
  /\ box' = [box EXCEPT ![r] = "running"]
  /\ UNCHANGED phase

Halt(r) ==
  /\ box[r] = "running"
  /\ box' = [box EXCEPT ![r] = "over"]
  /\ UNCHANGED phase

\* The request is over; nothing of it runs on the host any more.
Close(r) ==
  /\ phase[r] = "admitted" /\ box[r] # "running"
  /\ phase' = [phase EXCEPT ![r] = "closed"]
  /\ UNCHANGED box

\* The server loses sight of some of the requests it has admitted.
Lose ==
  /\ Losses
  /\ \E S \in SUBSET Admitted :
       phase' = [r \in Requests |-> IF r \in S THEN "lost" ELSE phase[r]]
  /\ UNCHANGED box

Next == \/ \E r \in Requests :
             Refuse(r) \/ Admit(r) \/ Launch(r) \/ Halt(r) \/ Close(r)
        \/ Lose

Spec == Init /\ [][Next]_svars
-----------------------------------------------------------------------------
Boxes(S) == {r \in S : box[r] = "running"}

\* README.md:109: the semaphore "bounds simultaneous containers".  It bounds
\* those of all requests, refused, admitted or answered, but for the ones the
\* server has lost sight of.
Capped == Cardinality(Boxes({r \in Requests : phase[r] # "lost"})) <= MaxConcurrency

\* What a client has been told is final: no container of an answered request
\* comes up, goes on or goes away afterwards, and no slot is taken for it again.
ClosedIsFinal ==
  [][\A r \in Requests : phase[r] = "closed" => phase'[r] = "closed" /\ box'[r] = box[r]]_svars
-----------------------------------------------------------------------------
\* The inductive invariant: the semaphore counts the admitted requests, and a
\* container is up only under one of these or a lost one.
IInv ==
  /\ phase \in [Requests -> {"idle", "admitted", "closed", "lost"}]
  /\ box   \in [Requests -> {"none", "running", "over"}]
  /\ Cardinality(Admitted) <= MaxConcurrency
  /\ \A r \in Requests : /\ box[r] = "running" => phase[r] \in {"admitted", "lost"}
                         /\ phase[r] = "lost" => Losses

\* There are finitely many admitted requests, so their number is one.
LEMMA AdmittedFinite ==
  ASSUME Parameters
  PROVE  IsFiniteSet(Admitted) /\ Cardinality(Admitted) \in Nat
<1>1. IsFiniteSet(Admitted)
  BY FS_Subset DEF Parameters, Admitted
<1> QED  BY <1>1, FS_CardinalityType

\* At the start nothing is admitted and nothing is up.
LEMMA InitIInv ==
  ASSUME Parameters
  PROVE  Init => IInv
<1> SUFFICES ASSUME Init PROVE IInv
  OBVIOUS
<1>1. Admitted = {}
  BY DEF Init, Admitted
<1> QED  BY <1>1, FS_EmptySet DEF Parameters, Init, IInv

\* A step that admits no one leaves the semaphore no fuller than it was.
LEMMA NotFuller ==
  ASSUME Parameters, Cardinality(Admitted) <= MaxConcurrency, Admitted' \subseteq Admitted
  PROVE  Cardinality(Admitted') <= MaxConcurrency
<1>1. Cardinality(Admitted') <= Cardinality(Admitted)
  BY AdmittedFinite, FS_Subset
<1>2. Cardinality(Admitted') \in Nat
  BY AdmittedFinite, FS_Subset, FS_CardinalityType
<1> QED  BY <1>1, <1>2, AdmittedFinite DEF Parameters

\* Every step of the service keeps the invariant.
LEMMA NextKeeps ==
  ASSUME Parameters
  PROVE  IInv /\ [Next]_svars => IInv'
<1> SUFFICES ASSUME IInv, [Next]_svars PROVE IInv'
  OBVIOUS
<1> USE DEF IInv
<1>1. ASSUME NEW r \in Requests, Admit(r) PROVE IInv'
  <2>1. Admitted' = Admitted \cup {r} /\ r \notin Admitted
    BY <1>1 DEF Admit, Admitted
  <2>2. Cardinality(Admitted') = Cardinality(Admitted) + 1
    BY <2>1, AdmittedFinite, FS_AddElement
  <2>3. Cardinality(Admitted') <= MaxConcurrency
    BY <1>1, <2>2, AdmittedFinite DEF Parameters, Admit
  <2> QED  BY <1>1, <2>3 DEF Admit
<1>2. ASSUME NEW r \in Requests, Refuse(r) \/ Close(r) PROVE IInv'
  <2>1. Admitted' \subseteq Admitted
    BY <1>2 DEF Refuse, Close, Admitted
  <2> QED  BY <1>2, <2>1, NotFuller DEF Refuse, Close
<1>3. ASSUME NEW r \in Requests, Launch(r) \/ Halt(r) PROVE IInv'
  <2>1. Admitted' \subseteq Admitted
    BY <1>3 DEF Launch, Halt, Admitted
  <2> QED  BY <1>3, <2>1, NotFuller DEF Launch, Halt
<1>4. CASE Lose
  <2>1. Admitted' \subseteq Admitted
    BY <1>4 DEF Lose, Admitted
  <2> QED  BY <1>4, <2>1, NotFuller DEF Lose, Admitted
<1>5. CASE UNCHANGED svars
  <2>1. Admitted' \subseteq Admitted
    BY <1>5 DEF svars, Admitted
  <2> QED  BY <1>5, <2>1, NotFuller DEF svars
<1> QED  BY <1>1, <1>2, <1>3, <1>4, <1>5 DEF Next

\* The service's invariant, for every set of requests and number of slots.
THEOREM ServiceInvariant ==
  ASSUME Parameters
  PROVE  Spec => []IInv
BY InitIInv, NextKeeps, PTL DEF Spec

\* A service that closes a request only without its container has no more of
\* them up than it has slots (the semaphores of the three servers).
THEOREM ServiceIsCapped ==
  ASSUME Parameters
  PROVE  Spec => []Capped
<1>1. ASSUME IInv PROVE Capped
  <2> DEFINE Held == Boxes({r \in Requests : phase[r] # "lost"})
  <2>1. Held \subseteq Admitted
    BY <1>1 DEF IInv, Boxes, Admitted
  <2>2. Cardinality(Held) <= Cardinality(Admitted) /\ Cardinality(Held) \in Nat
    BY <2>1, AdmittedFinite, FS_Subset, FS_CardinalityType
  <2> QED  BY <1>1, <2>2, AdmittedFinite DEF Parameters, IInv, Capped
<1> QED  BY <1>1, ServiceInvariant, PTL

\* If it loses sight of nothing, none is excepted: README.md:109 as it stands.
THEOREM CappedWithoutLosses ==
  ASSUME Parameters, ~Losses
  PROVE  Spec => [](Cardinality(Boxes(Requests)) <= MaxConcurrency)
<1>1. IInv /\ Capped => Cardinality(Boxes(Requests)) <= MaxConcurrency
  BY DEF IInv, Capped, Boxes
<1> QED  BY <1>1, ServiceInvariant, ServiceIsCapped, PTL

\* An answer is final, since no container is up when a request is closed.
THEOREM AnswersAreFinal ==
  ASSUME Parameters
  PROVE  Spec => ClosedIsFinal
<1>1. IInv /\ [Next]_svars =>
        [\A r \in Requests : phase[r] = "closed" => phase'[r] = "closed" /\ box'[r] = box[r]]_svars
  BY DEF IInv, Next, Refuse, Admit, Launch, Halt, Close, Lose, Admitted, svars
<1> QED  BY <1>1, ServiceInvariant, PTL DEF Spec, ClosedIsFinal
=============================================================================
