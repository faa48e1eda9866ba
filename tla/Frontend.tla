------------------------------ MODULE Frontend ------------------------------
(***************************************************************************)
(* The page wfe/index.html: one user, one thread of JavaScript, and        *)
(* answers that come when they come.  The user picks one of the servers,   *)
(* whose list of libraries the page then asks for; runs the script there;  *)
(* and looks at the files of the result, of which a PDF is painted later,  *)
(* by a callback of PDF.js.  An action is a handler or a callback, from    *)
(* one return to the event loop to the next.  The editor has loaded: until *)
(* then the run button does nothing.                                       *)
(***************************************************************************)
EXTENDS Integers, FiniteSets

CONSTANTS
  Servers,   \* the buttons: the Go, Rust and .NET server
  MaxAsked,  \* how often the libraries are asked for
  MaxRuns    \* how often the script is run

ASSUME BoundsArePositive == MaxAsked \in Nat \ {0} /\ MaxRuns \in Nat \ {0}
ASSUME SomeServer == Servers # {}

FileNames == {"pdf", "other"}
Blank     == [run |-> 0, name |-> "none"] \* a pane with nothing of any run

VARIABLES
  target,   \* targetServerOrigin
  asked,    \* how many requests for libraries have been sent, numbered 1, 2...
  fetches,  \* those not yet answered
  libs,     \* the request whose answer sandboxLibs is; 0 is the page's own list
  runs,     \* the number of the last run
  busy,     \* the run button is disabled
  status,   \* the badge: "ready", "executing", "result" or "error"
  out,      \* the run whose stdout and stderr are shown, or 0
  metrics,  \* the run whose metrics are shown, or 0
  files,    \* the run whose files are listed and their names
  preview,  \* the file named in the preview's header, and the one in its body
  painters  \* the PDFs being loaded, and whether their body is still the page's

asking == <<target, asked, fetches, libs>>
panes  == <<out, metrics, files, preview, painters>>
vars   == <<asking, runs, busy, status, panes>>

NoFiles == [run |-> 0, names |-> {}]
Request(s, n) == [server |-> s, number |-> n]

Init ==
  /\ target \in Servers
  /\ asked = 1 /\ fetches = {Request(target, 1)}
  /\ libs = Request(target, 0)
  /\ runs = 0 /\ busy = FALSE /\ status = "ready"
  /\ out = 0 /\ metrics = 0 /\ files = NoFiles
  /\ preview = [header |-> Blank, body |-> Blank] /\ painters = {}
-----------------------------------------------------------------------------
\* Mutant of Switch: the libraries are asked for before the target is set.
SwitchLate(s) ==
  /\ asked < MaxAsked
  /\ target' = s /\ asked' = asked + 1
  /\ fetches' = fetches \cup {Request(target, asked + 1)}
  /\ UNCHANGED <<libs, runs, busy, status, panes>>

\* A server button: the target changes, then updateSandboxLibraries is called.
Switch(s) ==
  /\ asked < MaxAsked
  /\ target' = s /\ asked' = asked + 1
  /\ fetches' = fetches \cup {Request(s, asked + 1)}
  /\ UNCHANGED <<libs, runs, busy, status, panes>>

\* An answer replaces the list, whichever request it is to.
LibsArrive(request) ==
  /\ request \in fetches
  /\ libs' = request
  /\ fetches' = fetches \ {request}
  /\ UNCHANGED <<target, asked, runs, busy, status, panes>>

\* No answer, or none that is JSON: the list stays.
LibsFail(request) ==
  /\ request \in fetches
  /\ fetches' = fetches \ {request}
  /\ UNCHANGED <<target, asked, libs, runs, busy, status, panes>>
-----------------------------------------------------------------------------
\* The body of the preview is replaced: those who still paint hold the old one.
Detached == {[p EXCEPT !.attached = FALSE] : p \in painters}

\* previewFile: a PDF is loaded first, the rest is shown at once.
Show(file) ==
  /\ preview' = [header |-> file, body |-> IF file.name = "pdf" THEN Blank ELSE file]
  /\ painters' = IF file.name = "pdf" THEN Detached \cup {[file |-> file, attached |-> TRUE]}
                 ELSE Detached

\* A pane is cleared of everything there was in it.
ShowNothing ==
  /\ preview' = [header |-> Blank, body |-> Blank]
  /\ painters' = Detached

\* The run button: disabled, the panes cleared (not the metrics), and the
\* request sent.
Click ==
  /\ ~busy /\ runs < MaxRuns
  /\ runs' = runs + 1 /\ busy' = TRUE /\ status' = "executing"
  /\ out' = 0 /\ files' = NoFiles /\ ShowNothing
  /\ UNCHANGED <<asking, metrics>>

\* The handler awaits the answer as long as the badge says "executing".  With
\* the result, every pane is set, a file previewed, and the button enabled.
Result(names) ==
  /\ status = "executing"
  /\ busy' = FALSE /\ status' = "result"
  /\ out' = runs /\ metrics' = runs
  /\ files' = [run |-> runs, names |-> names]
  /\ IF names = {} THEN ShowNothing
     ELSE \E name \in names : Show([run |-> runs, name |-> name])
  /\ UNCHANGED <<asking, runs>>

\* Mutant of RunFails: the button is enabled after a result only.
RunFailsBusy ==
  /\ status = "executing"
  /\ status' = "error"
  /\ UNCHANGED <<asking, runs, busy, panes>>

\* A status other than 200, or no answer: the preview keeps the text it was
\* given by Click, and the metrics are those of an earlier run.
RunFails ==
  /\ status = "executing"
  /\ busy' = FALSE /\ status' = "error"
  /\ UNCHANGED <<asking, runs, panes>>

RunSettles == RunFails \/ \E names \in SUBSET FileNames : Result(names)
-----------------------------------------------------------------------------
\* A click on a card of the list.
Preview(name) ==
  /\ name \in files.names
  /\ Show([run |-> files.run, name |-> name])
  /\ UNCHANGED <<asking, runs, busy, status, out, metrics, files>>

\* Mutant of Paint: the body is looked up when the PDF is there.
PaintCurrent(p) ==
  /\ p \in painters
  /\ preview' = [preview EXCEPT !.body = p.file]
  /\ painters' = painters \ {p}
  /\ UNCHANGED <<asking, runs, busy, status, out, metrics, files>>

\* A PDF is there (or the text that it cannot be rendered), and painted into the
\* body it was to be painted into.
Paint(p) ==
  /\ p \in painters
  /\ preview' = IF p.attached THEN [preview EXCEPT !.body = p.file] ELSE preview
  /\ painters' = painters \ {p}
  /\ UNCHANGED <<asking, runs, busy, status, out, metrics, files>>

\* Nothing is under way: the page waits for its user, who need do nothing.
Idle == status # "executing" /\ fetches = {} /\ painters = {} /\ UNCHANGED vars

Next == \/ \E s \in Servers : Switch(s)
        \/ \E request \in fetches : LibsArrive(request) \/ LibsFail(request)
        \/ Click \/ RunSettles
        \/ \E name \in FileNames : Preview(name)
        \/ \E p \in painters : Paint(p)
        \/ Idle

\* The request for a run is answered, or breaks: EveryRunReturns of the
\* servers.  Nothing is asked of the user, of /libraries or of PDF.js.
Spec == Init /\ [][Next]_vars /\ WF_vars(RunSettles)
-----------------------------------------------------------------------------
\* Whatever comes late, and in whatever order the user clicks: the panes show
\* the run that the badge is about or nothing, and nothing while it executes;
\* the body of the preview shows the file named above it or nothing; and the
\* metrics next to a result are its own.  (Next to an error they may be those
\* of an earlier run.)
PanesOfOneRun ==
  /\ {out, files.run, preview.header.run} \subseteq {0, runs}
  /\ preview.body \in {Blank, preview.header}
  /\ busy => {out, files.run, preview.header.run} = {0}
  /\ preview.header # Blank => preview.header.name \in files.names
  /\ status = "result" => out = runs /\ files.run = runs /\ metrics = runs

\* The list of libraries is the target's if its answer is the one to the last
\* request.  (It is another server's if an earlier answer came later.)
LibsFollowTarget == libs.number = asked => libs.server = target

\* The run button does not stay disabled.
RunButtonReturns == busy ~> ~busy
=============================================================================
