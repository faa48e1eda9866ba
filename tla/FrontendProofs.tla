--------------------------- MODULE FrontendProofs ---------------------------
(***************************************************************************)
(* Proofs about the page, for any set of servers, any number of runs and   *)
(* of requests for libraries: what the panes show belongs together, and    *)
(* the answer to the last request for libraries is the target's.           *)
(***************************************************************************)
EXTENDS Frontend, TLAPS

Names == FileNames \cup {"none"}
File  == [run : Nat, name : Names]

TypeOK ==
  /\ target \in Servers /\ asked \in Nat
  /\ fetches \in SUBSET [server : Servers, number : Nat]
  /\ libs \in [server : Servers, number : Nat]
  /\ runs \in Nat /\ busy \in BOOLEAN
  /\ status \in {"ready", "executing", "result", "error"}
  /\ out \in Nat /\ metrics \in Nat
  /\ files \in [run : Nat, names : SUBSET FileNames]
  /\ preview \in [header : File, body : File]
  /\ painters \in SUBSET [file : File, attached : BOOLEAN]

\* The button is disabled exactly as long as the handler awaits the answer.
BusyIsExecuting == busy <=> status = "executing"

\* Only a PDF of the file in the header paints the body on the page.
AttachedIsShown == \A p \in painters : p.attached => p.file = preview.header

\* The inductive invariant of the panes.
PanesInv == TypeOK /\ BusyIsExecuting /\ AttachedIsShown /\ PanesOfOneRun

\* No request has a number beyond the last one's, and the last is to the target.
NumberedInOrder(request) ==
  request.number <= asked /\ (request.number = asked => request.server = target)

\* The inductive invariant of the libraries.
LibsInv == TypeOK /\ NumberedInOrder(libs) /\ \A request \in fetches : NumberedInOrder(request)
-----------------------------------------------------------------------------
\* The page starts with empty panes and one request on its way.
LEMMA InitInv == Init => PanesInv /\ LibsInv
<1> SUFFICES ASSUME Init PROVE PanesInv /\ LibsInv
  OBVIOUS
<1> USE DEF Init, Request, NoFiles, Blank
<1>1. TypeOK
  <2>1. Blank \in File
    BY DEF File, Names
  <2>2. /\ fetches \in SUBSET [server : Servers, number : Nat]
        /\ libs \in [server : Servers, number : Nat]
        /\ files \in [run : Nat, names : SUBSET FileNames]
    OBVIOUS
  <2>3. preview \in [header : File, body : File]
    <3> HIDE DEF Blank
    <3> QED  BY <2>1
  <2> QED  BY <2>2, <2>3 DEF TypeOK
<1>2. BusyIsExecuting /\ AttachedIsShown /\ PanesOfOneRun
  BY DEF BusyIsExecuting, AttachedIsShown, PanesOfOneRun
<1>3. NumberedInOrder(libs) /\ \A request \in fetches : NumberedInOrder(request)
  BY DEF NumberedInOrder
<1> QED  BY <1>1, <1>2, <1>3 DEF PanesInv, LibsInv

\* Who paints into a body that was replaced is not attached any more.
LEMMA DetachedPaintUnseen ==
  ASSUME TypeOK
  PROVE  /\ Detached \in SUBSET [file : File, attached : BOOLEAN]
         /\ \A p \in Detached : ~p.attached
BY DEF Detached, TypeOK

\* A file that is shown is the one in the header, and the body is its own.
LEMMA ShowIsConsistent ==
  ASSUME TypeOK, NEW file \in File, Show(file)
  PROVE  /\ preview' \in [header : File, body : File]
         /\ painters' \in SUBSET [file : File, attached : BOOLEAN]
         /\ AttachedIsShown'
         /\ preview'.header = file /\ preview'.body \in {Blank, file}
<1>1. Blank \in File
  BY DEF Blank, File, Names
<1>2. preview'.header = file /\ preview'.body \in {Blank, file}
  BY DEF Show
<1>3. painters' \in SUBSET [file : File, attached : BOOLEAN]
  <2>1. [file |-> file, attached |-> TRUE] \in [file : File, attached : BOOLEAN]
    OBVIOUS
  <2> QED  BY <2>1, DetachedPaintUnseen DEF Show
<1>4. AttachedIsShown'
  BY <1>2, DetachedPaintUnseen DEF Show, AttachedIsShown
<1>5. preview' \in [header : File, body : File]
  BY <1>1 DEF Show
<1> QED  BY <1>2, <1>3, <1>4, <1>5

\* So is a pane that shows nothing.
LEMMA NothingIsConsistent ==
  ASSUME TypeOK, ShowNothing
  PROVE  /\ preview' \in [header : File, body : File]
         /\ painters' \in SUBSET [file : File, attached : BOOLEAN]
         /\ AttachedIsShown'
         /\ preview'.header = Blank /\ preview'.body = Blank
<1>1. Blank \in File
  BY DEF Blank, File, Names
<1> QED  BY <1>1, DetachedPaintUnseen DEF ShowNothing, AttachedIsShown

\* The requests for libraries do not touch the panes.
LEMMA AskingKeepsPanes ==
  ASSUME PanesInv, TypeOK', UNCHANGED <<runs, busy, status, panes>>
  PROVE  PanesInv'
BY DEF PanesInv, BusyIsExecuting, AttachedIsShown, PanesOfOneRun, panes

\* A click clears every pane but the metrics, which are of no result then.
LEMMA ClickKeepsPanes ==
  ASSUME PanesInv, Click
  PROVE  PanesInv'
<1> USE DEF PanesInv, Click, asking
<1>1. /\ preview' \in [header : File, body : File]
      /\ painters' \in SUBSET [file : File, attached : BOOLEAN]
      /\ AttachedIsShown'
      /\ preview'.header = Blank /\ preview'.body = Blank
  BY NothingIsConsistent
<1>2. TypeOK'
  BY <1>1 DEF TypeOK, NoFiles
<1>3. BusyIsExecuting' /\ PanesOfOneRun'
  BY <1>1 DEF BusyIsExecuting, PanesOfOneRun, NoFiles, Blank
<1> QED  BY <1>1, <1>2, <1>3

\* A result sets every pane.
LEMMA ResultKeepsPanes ==
  ASSUME PanesInv, NEW names \in SUBSET FileNames, Result(names)
  PROVE  PanesInv'
<1> USE DEF PanesInv, Result, asking
<1>1. /\ preview' \in [header : File, body : File]
      /\ painters' \in SUBSET [file : File, attached : BOOLEAN]
      /\ AttachedIsShown'
      /\ preview'.header.run \in {0, runs}
      /\ preview'.body \in {Blank, preview'.header}
      /\ preview'.header # Blank => preview'.header.name \in names
  <2>1. CASE names = {}
    BY <2>1, NothingIsConsistent DEF Blank
  <2>2. CASE names # {}
    <3>1. PICK name \in names : Show([run |-> runs, name |-> name])
      BY <2>2
    <3>2. [run |-> runs, name |-> name] \in File
      BY DEF File, Names, TypeOK
    <3> QED  BY <3>1, <3>2, ShowIsConsistent
  <2> QED  BY <2>1, <2>2
<1>2. TypeOK'
  BY <1>1 DEF TypeOK
<1>3. BusyIsExecuting' /\ PanesOfOneRun'
  BY <1>1 DEF BusyIsExecuting, PanesOfOneRun
<1> QED  BY <1>1, <1>2, <1>3

\* A run that fails leaves the panes as the click made them.
LEMMA FailureKeepsPanes ==
  ASSUME PanesInv, RunFails
  PROVE  PanesInv'
<1> USE DEF PanesInv, RunFails, asking, panes
<1>1. TypeOK' /\ AttachedIsShown' /\ BusyIsExecuting'
  BY DEF TypeOK, AttachedIsShown, BusyIsExecuting
<1>2. PanesOfOneRun'
  BY DEF PanesOfOneRun
<1> QED  BY <1>1, <1>2

\* A card that is clicked is of the run whose files are listed.
LEMMA PreviewKeepsPanes ==
  ASSUME PanesInv, NEW name \in FileNames, Preview(name)
  PROVE  PanesInv'
<1> USE DEF PanesInv, Preview, asking
<1> DEFINE file == [run |-> files.run, name |-> name]
<1>1. file \in File
  BY DEF File, Names, TypeOK
<1>2. /\ preview' \in [header : File, body : File]
      /\ painters' \in SUBSET [file : File, attached : BOOLEAN]
      /\ AttachedIsShown'
      /\ preview'.header = file /\ preview'.body \in {Blank, file}
  <2> HIDE DEF file
  <2>1. Show(file)
    BY DEF file
  <2> QED  BY <1>1, <2>1, ShowIsConsistent
<1>3. TypeOK'
  BY <1>2 DEF TypeOK
<1>4. BusyIsExecuting' /\ PanesOfOneRun'
  BY <1>2 DEF BusyIsExecuting, PanesOfOneRun
<1> QED  BY <1>2, <1>3, <1>4

\* A PDF is painted under the header that names it, or unseen.
LEMMA PaintKeepsPanes ==
  ASSUME PanesInv, NEW p \in painters, Paint(p)
  PROVE  PanesInv'
<1> USE DEF PanesInv, Paint, asking
<1>1. preview'.header = preview.header /\ preview'.body \in {preview.body, preview.header}
  BY DEF TypeOK, AttachedIsShown
<1>2. TypeOK' /\ AttachedIsShown' /\ BusyIsExecuting'
  BY <1>1 DEF TypeOK, AttachedIsShown, BusyIsExecuting
<1>3. PanesOfOneRun'
  BY <1>1 DEF PanesOfOneRun
<1> QED  BY <1>2, <1>3

\* The steps that only the libraries know keep both invariants.
LEMMA AskingKeepsLibs ==
  ASSUME LibsInv,
         \/ \E s \in Servers : Switch(s)
         \/ \E request \in fetches : LibsArrive(request) \/ LibsFail(request)
  PROVE  LibsInv' /\ UNCHANGED <<runs, busy, status, panes>>
<1> USE DEF LibsInv, panes
<1>1. ASSUME NEW s \in Servers, Switch(s) PROVE LibsInv'
  <2>1. TypeOK'
    BY <1>1 DEF Switch, Request, TypeOK
  <2>2. NumberedInOrder(libs)' /\ \A request \in fetches' : NumberedInOrder(request)'
    BY <1>1 DEF Switch, Request, TypeOK, NumberedInOrder
  <2> QED  BY <2>1, <2>2
<1>2. ASSUME NEW request \in fetches, LibsArrive(request) \/ LibsFail(request) PROVE LibsInv'
  <2>1. TypeOK'
    BY <1>2 DEF LibsArrive, LibsFail, TypeOK
  <2>2. NumberedInOrder(libs)' /\ \A r \in fetches' : NumberedInOrder(r)'
    BY <1>2 DEF LibsArrive, LibsFail, NumberedInOrder
  <2> QED  BY <2>1, <2>2
<1> QED  BY <1>1, <1>2 DEF Switch, LibsArrive, LibsFail

\* Every step keeps the invariants.
LEMMA NextKeeps == PanesInv /\ LibsInv /\ [Next]_vars => PanesInv' /\ LibsInv'
<1> SUFFICES ASSUME PanesInv, LibsInv, [Next]_vars PROVE PanesInv' /\ LibsInv'
  OBVIOUS
<1>1. CASE \/ \E s \in Servers : Switch(s)
           \/ \E request \in fetches : LibsArrive(request) \/ LibsFail(request)
  BY <1>1, AskingKeepsLibs, AskingKeepsPanes DEF LibsInv
<1>2. CASE Click \/ RunSettles \/ (\E name \in FileNames : Preview(name))
           \/ \E p \in painters : Paint(p)
  <2>1. PanesInv'
    BY <1>2, ClickKeepsPanes, ResultKeepsPanes, FailureKeepsPanes, PreviewKeepsPanes,
       PaintKeepsPanes DEF RunSettles
  <2>2. UNCHANGED asking
    BY <1>2 DEF Click, RunSettles, Result, RunFails, Preview, Paint, asking
  <2> QED  BY <2>1, <2>2 DEF PanesInv, LibsInv, NumberedInOrder, asking
<1>3. CASE UNCHANGED vars
  <2>1. TypeOK'
    BY <1>3 DEF vars, asking, panes, TypeOK, LibsInv
  <2> QED  BY <1>3, <2>1, AskingKeepsPanes DEF vars, asking, LibsInv, NumberedInOrder
<1> QED  BY <1>1, <1>2, <1>3 DEF Next, Idle

\* The inductive invariants hold in every state of the page.
THEOREM Invariant == Spec => [](PanesInv /\ LibsInv)
BY InitInv, NextKeeps, PTL DEF Spec

\* index.html: the panes show one run, the one the badge is about, or nothing,
\* and a late PDF is painted under its own name only.
THEOREM PanesAlwaysBelongTogether == Spec => []PanesOfOneRun
<1>1. PanesInv => PanesOfOneRun
  BY DEF PanesInv
<1> QED  BY <1>1, Invariant, PTL

\* index.html: the answer to the last request for libraries is the target's.
THEOREM LastAnswerIsTheTargets == Spec => []LibsFollowTarget
<1>1. LibsInv => LibsFollowTarget
  BY DEF LibsInv, NumberedInOrder, LibsFollowTarget
<1> QED  BY <1>1, Invariant, PTL
=============================================================================
