----------------------------- MODULE Libraries ------------------------------
(***************************************************************************)
(* GET /libraries: a server asks a container of the image which Python     *)
(* distributions it has, and answers a fixed list of modules followed by   *)
(* what it was told.  The container is started as                          *)
(*     podman run --rm run-python-sandbox python3 -c '...'                 *)
(* without the capabilities, the device and the mounts of a run; the words *)
(* after the image are the arguments of its ENTRYPOINT, entrypoint.sh.     *)
(***************************************************************************)
EXTENDS Sequences, SequencesExt

CONSTANT Installed \* the distributions of the image (host/Dockerfile)

Kinds == {"go", "rust", "dotnet"}

VARIABLES
  kind,   \* the server
  step,   \* "boot", "launch", "exited" or "answered"
  stdout, \* what the container has written to stdout
  exit,   \* the status of the container
  answer  \* the list of the answer

vars == <<kind, step, stdout, exit, answer>>

\* What podman gives the entrypoint: its arguments, and the files mounted.
Arguments == <<"python3", "-c", "list the distributions">>
Mounted   == {}

\* What is on stdout: a line of the entrypoint, or the list that was asked for.
Log     == [text |-> "log", names |-> <<>>]
Listing == [text |-> "json", names |-> Installed]

Init ==
  /\ kind \in Kinds
  /\ step = "boot" /\ stdout = <<>> /\ exit = "none" /\ answer = <<>>
-----------------------------------------------------------------------------
\* The entrypoint reports the network mode, and its setup may fail (set -e).
Boot ==
  /\ step = "boot"
  /\ stdout' = Append(stdout, Log)
  /\ \/ step' = "launch" /\ exit' = exit
     \/ step' = "exited" /\ exit' = "nonzero"
  /\ UNCHANGED <<kind, answer>>

\* The command the entrypoint launches: it never looks at its arguments.
Command == <<"python3", "/sandbox/run.py">>

\* What that command writes: there is a run.py only if one is mounted.
OutputOf(command) == IF command = Arguments THEN <<Listing>> ELSE <<>>

\* The entrypoint launches its command and exits with its status.  unshare
\* needs a capability this container does not have.
Launch ==
  /\ step = "launch"
  /\ stdout' = stdout \o <<Log>> \o OutputOf(Command)
  /\ step' = "exited"
  /\ exit' = IF "run.py" \in Mounted THEN "zero" ELSE "nonzero"
  /\ UNCHANGED <<kind, answer>>
-----------------------------------------------------------------------------
\* The three servers parse the whole of stdout; Go and .NET only after a zero
\* status.  What does not parse is no list, and no error either.
Parsed ==
  IF Len(stdout) = 1 /\ stdout[1].text = "json" /\ (kind = "rust" \/ exit = "zero")
  THEN stdout[1].names ELSE <<>>

Builtins == <<"os", "sys", "json", "math", "urllib", "time", "subprocess", "random", "re">>

\* packageMap: the name a distribution is imported by.
ImportName(name) == IF name = "Pillow" THEN "PIL" ELSE name

AddTo(list, name) == IF Contains(list, ImportName(name)) THEN list
                     ELSE Append(list, ImportName(name))
FinalList(names) == FoldLeft(AddTo, Builtins, names)

Answer ==
  /\ step = "exited"
  /\ answer' = FinalList(Parsed)
  /\ step' = "answered"
  /\ UNCHANGED <<kind, stdout, exit>>

Terminated == step = "answered" /\ UNCHANGED vars

Next == Boot \/ Launch \/ Answer \/ Terminated
Spec == Init /\ [][Next]_vars
-----------------------------------------------------------------------------
\* main.rs:269: the handler "returns a list of pre-installed Python libraries
\* in the sandbox"; at least if the container got as far as its command.
LibrariesListed == step = "answered" /\ Len(stdout) > 1 =>
  \A i \in DOMAIN Installed : Contains(answer, ImportName(Installed[i]))
=============================================================================
