------------------------------ MODULE Streams -------------------------------
(***************************************************************************)
(* How the servers capture what a run writes to stdout and stderr.         *)
(*                                                                         *)
(* The podman CLI copies the container's output into two pipes, one chunk  *)
(* after the other: a chunk that finds its pipe full holds up everything   *)
(* behind it.  The servers cap what they keep of each stream and read the  *)
(* pipes in three different ways:                                          *)
(*   Go    stdout to its end or cap, then stderr, then waits for the CLI   *)
(*   Rust  both at once; a stream at its cap is closed                     *)
(*   .NET  both at once; a stream past its cap is drained                  *)
(* Sizes are counted in chunks.                                            *)
(***************************************************************************)
EXTENDS Integers

CONSTANTS
  Limit,    \* SANDBOX_MAX_LOG_MB, the cap on each stream
  PipeCap,  \* what the kernel holds of a pipe nobody reads
  MaxOutput \* the most a script writes to one stream

ASSUME SizesAreNat == Limit \in Nat /\ PipeCap \in Nat \ {0} /\ MaxOutput \in Nat

Streams == {"stdout", "stderr"}

VARIABLES
  kind,   \* the server: "go", "rust" or "dotnet"
  total,  \* total[s]: what the script writes to s in all
  left,   \* left[s]: what is still to be written
  turn,   \* the stream of the chunk being written, or "none"
  pipe,   \* pipe[s]: what is in the pipe
  got,    \* got[s]: what the server has kept
  reader, \* reader[s]: "idle", "open", "drain", "eof" or "closed"
  child,  \* the CLI: "up", "exited" or "killed"
  late,   \* the deadline of the run has passed
  server  \* the handler: "reading" or "done"

script == <<kind, total, left, turn, child>>
capture == <<got, reader, server>>
vars == <<script, pipe, capture, late>>

\* Go opens stderr to its reader when stdout is over; the others open both.
Init ==
  /\ kind \in {"go", "rust", "dotnet"}
  /\ total \in [Streams -> 0..MaxOutput]
  /\ left = total
  /\ turn = "none"
  /\ pipe = [s \in Streams |-> 0]
  /\ got = [s \in Streams |-> 0]
  /\ reader = [s \in Streams |-> IF kind = "go" /\ s = "stderr" THEN "idle" ELSE "open"]
  /\ child = "up"
  /\ late = FALSE
  /\ server = "reading"
-----------------------------------------------------------------------------
\* The script's next output is for s; the CLI takes it up.
Produce(s) ==
  /\ child = "up" /\ turn = "none" /\ left[s] > 0
  /\ turn' = s
  /\ UNCHANGED <<kind, total, left, pipe, child, late, capture>>

\* The chunk goes into its pipe, once there is room.
Write ==
  /\ child = "up" /\ turn # "none"
  /\ reader[turn] # "closed" /\ pipe[turn] < PipeCap
  /\ pipe' = [pipe EXCEPT ![turn] = @ + 1]
  /\ left' = [left EXCEPT ![turn] = @ - 1]
  /\ turn' = "none"
  /\ UNCHANGED <<kind, total, child, late, capture>>

\* A write to a pipe whose reader is gone: SIGPIPE.
WriteFails ==
  /\ child = "up" /\ turn # "none" /\ reader[turn] = "closed"
  /\ child' = "killed"
  /\ UNCHANGED <<kind, total, left, turn, pipe, late, capture>>

Exit ==
  /\ child = "up" /\ \A s \in Streams : left[s] = 0
  /\ child' = "exited"
  /\ UNCHANGED <<kind, total, left, turn, pipe, late, capture>>

\* Mutant of Deadline: there is none.
NoDeadline == FALSE /\ UNCHANGED vars

\* The server's deadline kills the CLI.
Deadline ==
  /\ server = "reading" /\ child = "up"
  /\ child' = "killed" /\ late' = TRUE
  /\ UNCHANGED <<kind, total, left, turn, pipe, capture>>

Script == Write \/ WriteFails \/ Exit \/ \E s \in Streams : Produce(s)
-----------------------------------------------------------------------------
\* A reader takes a chunk and keeps it.
Keep(s) ==
  /\ reader[s] = "open" /\ pipe[s] > 0 /\ got[s] < Limit
  /\ pipe' = [pipe EXCEPT ![s] = @ - 1]
  /\ got'  = [got EXCEPT ![s] = @ + 1]
  /\ UNCHANGED <<script, reader, server, late>>

\* Mutant of AtEof: the CLI is gone, whatever it left in the pipe.
CliGone(s) == child # "up"

\* Every writer of the pipe is gone and it is empty.
AtEof(s) == pipe[s] = 0 /\ child # "up"
AtCap(s) == got[s] = Limit

\* The reader of s leaves the state "open" for another.
Leave(s, state) ==
  /\ reader' = [reader EXCEPT ![s] = state]
  /\ UNCHANGED <<script, pipe, got, server, late>>

Over(s) == reader[s] \in {"eof", "closed"}

\* The handler has both streams and the status of the CLI.
Finish ==
  /\ server = "reading" /\ child # "up" /\ \A s \in Streams : Over(s)
  /\ server' = "done"
  /\ UNCHANGED <<script, pipe, got, reader, late>>

\* Go: io.ReadAll(io.LimitReader(...)) of stdout, then of stderr.  A stream
\* that is at its cap stays open, unread.
GoStdoutEnds ==
  /\ kind = "go" /\ reader["stdout"] = "open"
  /\ AtEof("stdout") \/ AtCap("stdout")
  /\ reader' = [stdout |-> "eof", stderr |-> "open"]
  /\ UNCHANGED <<script, pipe, got, server, late>>
GoStderrEnds ==
  /\ kind = "go" /\ reader["stderr"] = "open"
  /\ AtEof("stderr") \/ AtCap("stderr")
  /\ Leave("stderr", "eof")

\* Mutant of RustEnds: a reader at its cap neither reads on nor closes.
RustEndsAtEof(s) ==
  /\ kind = "rust" /\ reader[s] = "open" /\ AtEof(s)
  /\ Leave(s, "closed")

\* Rust: a task per stream, whose reader is dropped at the end or at the cap.
RustEnds(s) ==
  /\ kind = "rust" /\ reader[s] = "open"
  /\ AtEof(s) \/ AtCap(s)
  /\ Leave(s, "closed")

\* Mutant of DotnetFull: a stream at its cap is read no more, and kept open.
DotnetStops(s) ==
  /\ kind = "dotnet" /\ reader[s] = "open" /\ AtCap(s)
  /\ Leave(s, "eof")

\* .NET: a task per stream, which reads on to the end and drops the rest.
DotnetFull(s) ==
  /\ kind = "dotnet" /\ reader[s] = "open" /\ AtCap(s)
  /\ Leave(s, "drain")
DotnetEnds(s) ==
  /\ kind = "dotnet" /\ reader[s] \in {"open", "drain"} /\ AtEof(s)
  /\ Leave(s, "eof")

\* Mutant of DotnetDrain: the rest stays in the pipe.
NoDrain(s) == FALSE /\ UNCHANGED vars

DotnetDrain(s) ==
  /\ reader[s] = "drain" /\ pipe[s] > 0
  /\ pipe' = [pipe EXCEPT ![s] = @ - 1]
  /\ UNCHANGED <<script, capture, late>>

Read == \/ GoStdoutEnds \/ GoStderrEnds \/ Finish
        \/ \E s \in Streams : \/ Keep(s) \/ RustEnds(s)
                              \/ DotnetFull(s) \/ DotnetDrain(s) \/ DotnetEnds(s)
-----------------------------------------------------------------------------
Terminated == server = "done" /\ UNCHANGED vars

Next == Script \/ Read \/ Deadline \/ Terminated

\* The script goes on and the server reads; the deadline may or may not come.
Spec == Init /\ [][Next]_vars /\ WF_vars(Script) /\ WF_vars(Read)
-----------------------------------------------------------------------------
\* When the server is done it has kept of each stream what was written to it
\* up to the cap, whether the CLI exited or was killed: nothing left in a pipe
\* is forgotten and no chunk is dropped before the cap.
CapturedUpToTheCap == server = "done" =>
  \A s \in Streams :
    LET written == total[s] - left[s]
    IN  got[s] = IF written < Limit THEN written ELSE Limit

\* What a script may write.  Go: its stderr fits in a pipe and its stdout in
\* the cap and a pipe.  (A script that says more can block for good, with
\* the server at one pipe and the CLI at the other: see HandlerFinishes.)
\* Rust: no stream goes beyond its cap; one that does is closed, and the next
\* write to it ends the CLI under its container.  .NET: anything.
ScriptFits == CASE kind = "go"   -> /\ total["stderr"] <= PipeCap
                                    /\ total["stdout"] <= Limit + PipeCap
                [] kind = "rust" -> \A s \in Streams : total[s] <= Limit
                [] OTHER         -> TRUE

\* No script that fits is ever held up by a pipe that nobody reads, or killed
\* by one whose reader is gone.
FittingScriptsGoOn == ScriptFits =>
  /\ child = "killed" => late
  /\ child = "up" /\ turn # "none" =>
       pipe[turn] < PipeCap \/ reader[turn] \in {"open", "drain"}

\* So its CLI exits by itself, unless the deadline comes first.
ScriptFinishes == ScriptFits => <>(child = "exited" \/ late)

\* The handler is done, whatever the script writes: in Rust and .NET without any
\* help of the deadline; in Go, where a handler blocked against a blocked script
\* has no other way on, once the deadline has come.
HandlerFinishes == (kind = "go" => WF_vars(Deadline)) => <>(server = "done")
=============================================================================
