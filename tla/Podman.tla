------------------------------- MODULE Podman -------------------------------
(***************************************************************************)
(* The world in which a worker server executes a run: the podman CLI it    *)
(* spawns, the container behind that CLI (host/entrypoint.sh), the three   *)
(* host directories mounted into the container, and the run's clock.       *)
(*                                                                         *)
(* The Go, Rust and .NET servers share this world and differ only in the   *)
(* order in which they act on it.  Each server module EXTENDS this one,    *)
(* adds the control state of its handlers, and schedules these actions.    *)
(* An action here names the variables it changes and those it leaves       *)
(* alone among world; the server modules do the same for their own.        *)
(***************************************************************************)
EXTENDS Integers, FiniteSets

CONSTANTS
  Requests,       \* the POST /run requests clients send; each is one run
  MaxConcurrency, \* SANDBOX_MAX_CONCURRENCY
  Faults,         \* the failures that may strike from outside the handler
  Rootless,       \* TRUE: podman and the server run as an ordinary user
  Hiding,         \* the requests whose script may leave /output/metrics.json
                  \* where the server cannot read it: chmod, or a directory
  Piping          \* those whose script may leave a named pipe in /output

ASSUME RequestsFinite == IsFiniteSet(Requests)
ASSUME MaxIsPositive  == MaxConcurrency \in Nat \ {0}
ASSUME FaultsKnown    == Faults \subseteq {"cliDies", "crash", "disconnect"}
ASSUME RootlessType   == Rootless \in BOOLEAN
ASSUME ScriptsKnown   == Hiding \subseteq Requests /\ Piping \subseteq Requests

VARIABLES
  cli,   \* cli[r]: the `podman run` process of r
  ctr,   \* ctr[r]: the container of r, and how it ended
  age,   \* age[r]: 0, then 1 after SANDBOX_TIMEOUT_SEC, 2 after 15 s more
  dirs,  \* dirs[r]: which of the run's host directories exist
  owner  \* owner[r]: who owns the output directory of r

world == <<cli, ctr, age, dirs, owner>>

DirNames  == {"run", "out", "in"}
CliStates == {"none", "up", "exited", "killed"}
Ended     == {"ok", "fail", "timeout", "removed"}
CtrStates == {"absent", "boot", "script"} \cup Ended

WorldTypeOK ==
  /\ cli   \in [Requests -> CliStates]
  /\ ctr   \in [Requests -> CtrStates]
  /\ age   \in [Requests -> 0..2]
  /\ dirs  \in [Requests -> SUBSET DirNames]
  /\ owner \in [Requests -> {"server", "subuid"}]

WorldInit ==
  /\ cli   = [r \in Requests |-> "none"]
  /\ ctr   = [r \in Requests |-> "absent"]
  /\ age   = [r \in Requests |-> 0]
  /\ dirs  = [r \in Requests |-> {}]
  /\ owner = [r \in Requests |-> "server"]

\* The container of r has processes on the host.
Live(r) == ctr[r] \in {"boot", "script"}
Running == {r \in Requests : Live(r)}

\* The status the CLI of r leaves to whoever waits for it: the container's
\* own, podman's (125 and the like) when there is none, or a signal.
ExitStatus(r) == IF cli[r] = "killed" THEN "signal"
                 ELSE IF ctr[r] = "ok" THEN "zero" ELSE "nonzero"

\* The script of r has had /output to itself, and may have done to it what the
\* request is known for.  (The entrypoint gives it away just before the launch.)
HadOutput(r) == owner[r] = "subuid"

\* Whether the server gets a record of metrics that parses: after a success, if
\* the script does not hide it.  `time -o` heads its record with the line
\* "Command exited with non-zero status" when the script fails.  A container
\* that is killed, or still up, has none but what the script itself has written.
MetricsRead(r) ==
  (IF r \in Hiding THEN {FALSE} ELSE {})
    \cup (CASE ctr[r] = "ok"   -> {TRUE}
            [] ctr[r] = "fail" -> {FALSE}
            [] OTHER           -> {FALSE, HadOutput(r)})

\* A named pipe may be among what the server finds in /output.
PipeLeft(r) == r \in Piping /\ HadOutput(r)

\* In a sticky /tmp only the owner of an entry may remove it.
Removable(r, d) == ~(Rootless /\ d = "out" /\ owner[r] = "subuid")
DirsAfterRemoving(r, d) == IF Removable(r, d) THEN dirs[r] \ {d} ELSE dirs[r]
-----------------------------------------------------------------------------
\* The CLI creates the container and starts the entrypoint.
Create(r) ==
  /\ cli[r] = "up" /\ ctr[r] = "absent"
  /\ ctr' = [ctr EXCEPT ![r] = "boot"]
  /\ UNCHANGED <<cli, age, dirs, owner>>

\* The entrypoint sets the egress policy and gives /output to UID 10001, a
\* subuid of the host; any later command that fails ends it (set -e).
Boot(r) ==
  /\ ctr[r] = "boot"
  /\ owner' = [owner EXCEPT ![r] = "subuid"]
  /\ \E next \in {"script", "fail"} : ctr' = [ctr EXCEPT ![r] = next]
  /\ UNCHANGED <<cli, age, dirs>>

\* The script ends, its metrics file is moved to /output, and the entrypoint
\* exits with the script's status.
ScriptEnds(r) ==
  /\ ctr[r] = "script"
  /\ \E end \in {"ok", "fail"} : ctr' = [ctr EXCEPT ![r] = end]
  /\ UNCHANGED <<cli, age, dirs, owner>>

\* podman's own --timeout stops the container.
TimeoutKill(r) ==
  /\ Live(r) /\ age[r] >= 1
  /\ ctr' = [ctr EXCEPT ![r] = "timeout"]
  /\ UNCHANGED <<cli, age, dirs, owner>>

\* The CLI reports the end of the container and exits.
CliExits(r) ==
  /\ cli[r] = "up" /\ ctr[r] \in Ended
  /\ cli' = [cli EXCEPT ![r] = "exited"]
  /\ UNCHANGED <<ctr, age, dirs, owner>>

\* The CLI exits before there is a container: no image, no such mount...
CliFails(r) ==
  /\ cli[r] = "up" /\ ctr[r] = "absent"
  /\ cli' = [cli EXCEPT ![r] = "exited"]
  /\ UNCHANGED <<ctr, age, dirs, owner>>

\* The CLI alone dies (the host's OOM killer, an operator); its container
\* belongs to conmon and goes on.
CliDies(r) ==
  /\ "cliDies" \in Faults
  /\ cli[r] = "up"
  /\ cli' = [cli EXCEPT ![r] = "killed"]
  /\ UNCHANGED <<ctr, age, dirs, owner>>

Sandbox(r) == \/ Create(r) \/ Boot(r) \/ ScriptEnds(r) \/ TimeoutKill(r)
              \/ CliExits(r) \/ CliFails(r) \/ CliDies(r)

\* One of the two deadlines of run r passes.
Tick(r) ==
  /\ age[r] < 2
  /\ age' = [age EXCEPT ![r] = @ + 1]
  /\ UNCHANGED <<cli, ctr, dirs, owner>>
-----------------------------------------------------------------------------
\* Mutant of ForceRemoved: the name given is not the container's.
OtherRemoved(r) == ctr

\* What `podman rm -f` makes of the container of r.
ForceRemoved(r) == IF Live(r) THEN [ctr EXCEPT ![r] = "removed"] ELSE ctr
=============================================================================
