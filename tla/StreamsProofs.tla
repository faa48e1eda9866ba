---------------------------- MODULE StreamsProofs ----------------------------
(***************************************************************************)
(* Proofs that all three ways of reading the pipes capture a stream up to  *)
(* the cap, and that none holds up or kills a script that fits, for every  *)
(* cap, every size of a pipe and every output.                             *)
(***************************************************************************)
EXTENDS Streams, TLAPS

Readers == {"idle", "open", "drain", "eof", "closed"}

TypeOK ==
  /\ total \in [Streams -> Nat] /\ left \in [Streams -> Nat]
  /\ pipe \in [Streams -> Nat] /\ got \in [Streams -> Nat]
  /\ turn \in Streams \cup {"none"}
  /\ reader \in [Streams -> Readers]

\* The CLI takes up a chunk only of what is still to be written.
Owed == turn # "none" => left[turn] > 0

\* What is kept of s never exceeds the cap or what was written, and below the
\* cap the rest of what was written is in the pipe.
Accounted(s) ==
  /\ left[s] <= total[s] /\ got[s] <= Limit
  /\ got[s] + pipe[s] <= total[s] - left[s]
  /\ got[s] < Limit => got[s] + pipe[s] = total[s] - left[s]

\* A reader leaves its stream at the cap, or at its end.
LeftForAReason(s) ==
  /\ reader[s] = "drain" => got[s] = Limit
  /\ Over(s) => got[s] = Limit \/ AtEof(s)

\* The inductive invariant.
IInv ==
  /\ TypeOK /\ Owed
  /\ \A s \in Streams : Accounted(s) /\ LeftForAReason(s)
  /\ server = "done" => child # "up" /\ \A s \in Streams : Over(s)
-----------------------------------------------------------------------------
\* The invariant holds when the run starts.
LEMMA InitIInv == Init => IInv
BY SizesAreNat DEF Init, IInv, TypeOK, Owed, Accounted, LeftForAReason, Over, AtEof, Streams, Readers

\* The script, the CLI and the deadline keep it.
LEMMA ScriptKeeps ==
  ASSUME IInv, Script \/ Deadline
  PROVE  IInv'
<1> USE SizesAreNat DEF IInv, TypeOK, capture
<1>1. CASE \E s \in Streams : Produce(s)
  BY <1>1 DEF Produce, Owed, Accounted, LeftForAReason, Over, AtEof, Streams
<1>2. CASE Write
  <2>1. turn \in Streams /\ left[turn] > 0
    BY <1>2 DEF Write, Owed
  <2>2. TypeOK' /\ Owed'
    BY <1>2, <2>1 DEF Write, Owed
  <2>3. ASSUME NEW s \in Streams PROVE Accounted(s)'
    BY <1>2, <2>1, <2>3 DEF Write, Accounted
  <2>4. ASSUME NEW s \in Streams PROVE LeftForAReason(s)'
    BY <1>2, <2>1, <2>4 DEF Write, LeftForAReason, Over, AtEof
  <2>5. server' = "done" => child' # "up" /\ \A s \in Streams : Over(s)'
    BY <1>2 DEF Write, Over
  <2> QED  BY <2>2, <2>3, <2>4, <2>5
<1>3. CASE WriteFails \/ Exit \/ Deadline
  BY <1>3 DEF WriteFails, Exit, Deadline, Owed, Accounted, LeftForAReason, Over, AtEof
<1> QED  BY <1>1, <1>2, <1>3 DEF Script

\* A chunk that is kept, or dropped beyond the cap, stays accounted for.
LEMMA ChunkKeeps ==
  ASSUME IInv, NEW s \in Streams, Keep(s) \/ DotnetDrain(s)
  PROVE  IInv'
<1> USE SizesAreNat DEF IInv, TypeOK, script, capture, Keep, DotnetDrain
<1>1. TypeOK' /\ Owed'
  BY DEF Owed
<1>2. ASSUME NEW t \in Streams PROVE Accounted(t)'
  BY <1>2 DEF Accounted, LeftForAReason
<1>3. ASSUME NEW t \in Streams PROVE LeftForAReason(t)'
  BY <1>3 DEF LeftForAReason, Over, AtEof
<1>4. server' = "done" => child' # "up" /\ \A t \in Streams : Over(t)'
  BY DEF Over
<1> QED  BY <1>1, <1>2, <1>3, <1>4

\* A reader that leaves its stream does so at the cap or at the end of it.
LEMMA LeaveKeeps ==
  ASSUME IInv, NEW s \in Streams, NEW state \in {"drain", "eof", "closed"}, Leave(s, state),
         ~Over(s), got[s] = Limit \/ (AtEof(s) /\ state # "drain")
  PROVE  IInv'
<1> USE SizesAreNat DEF IInv, TypeOK, script, Leave
<1>1. TypeOK' /\ Owed'
  BY DEF Owed, Readers
<1>2. ASSUME NEW t \in Streams PROVE Accounted(t)' /\ LeftForAReason(t)'
  BY <1>2 DEF Accounted, LeftForAReason, Over, AtEof
<1>3. server' # "done"
  OBVIOUS
<1> QED  BY <1>1, <1>2, <1>3

\* Go opens stderr when it leaves stdout.
LEMMA GoKeeps ==
  ASSUME IInv, GoStdoutEnds
  PROVE  IInv'
<1> USE SizesAreNat DEF IInv, TypeOK, script, GoStdoutEnds
<1>1. TypeOK' /\ Owed'
  BY DEF Owed, Readers, Streams
<1>2. ASSUME NEW t \in Streams PROVE Accounted(t)' /\ LeftForAReason(t)'
  BY <1>2 DEF Accounted, LeftForAReason, Over, AtEof, AtCap, Streams
<1>3. server' # "done"
  BY DEF Over, Streams
<1> QED  BY <1>1, <1>2, <1>3

\* Every step keeps the invariant.
LEMMA NextKeeps == IInv /\ [Next]_vars => IInv'
<1> SUFFICES ASSUME IInv, [Next]_vars PROVE IInv'
  OBVIOUS
<1>1. CASE GoStderrEnds
  BY <1>1, LeaveKeeps DEF GoStderrEnds, AtCap, Over, Streams
<1>2. ASSUME NEW s \in Streams, RustEnds(s) \/ DotnetFull(s) \/ DotnetEnds(s) PROVE IInv'
  BY <1>2, LeaveKeeps DEF RustEnds, DotnetFull, DotnetEnds, AtCap, Over
<1>3. CASE Finish \/ Terminated \/ UNCHANGED vars
  BY <1>3 DEF Finish, Terminated, vars, script, capture, IInv, TypeOK, Owed, Accounted,
     LeftForAReason, Over, AtEof
<1> QED  BY <1>1, <1>2, <1>3, ScriptKeeps, ChunkKeeps, GoKeeps DEF Next, Read

\* The inductive invariant holds of every state of the capture.
THEOREM Invariant == Spec => []IInv
BY InitIInv, NextKeeps, PTL DEF Spec

\* A server that is done has kept what was written to each stream up to the
\* cap, in whatever way it reads the pipes and whatever ended the CLI
\* (main.go io.LimitReader, main.rs and Program.cs the reader tasks).
THEOREM CapturesUpToTheCap == Spec => []CapturedUpToTheCap
<1>1. IInv => CapturedUpToTheCap
  BY SizesAreNat DEF IInv, TypeOK, Accounted, LeftForAReason, AtEof, CapturedUpToTheCap
<1> QED  BY <1>1, Invariant, PTL
-----------------------------------------------------------------------------
\* The readers of each server: only Go leaves stderr alone at first, only .NET
\* drains, and only Rust closes; and .NET stops reading at the very end alone.
ReadersOf(k) == CASE k = "go"   -> {"idle", "open", "eof"}
                  [] k = "rust" -> {"open", "closed"}
                  [] OTHER      -> {"open", "drain", "eof"}
KnownReaders ==
  /\ kind \in {"go", "rust", "dotnet"}
  /\ \A s \in Streams : /\ reader[s] \in ReadersOf(kind)
                        /\ kind = "go" /\ s = "stdout" => reader[s] # "idle"
                        /\ kind = "dotnet" /\ reader[s] = "eof" => AtEof(s)

\* Nothing but the deadline kills the CLI of a script that fits.
Unharmed == ScriptFits /\ child = "killed" => late

\* What a script that fits has still to write has room to go to, or a reader:
\* the counting behind FittingScriptsGoOn.
LEMMA RoomOrReader ==
  ASSUME IInv, KnownReaders, ScriptFits, child = "up", turn # "none"
  PROVE  pipe[turn] < PipeCap \/ reader[turn] \in {"open", "drain"}
<1> DEFINE s == turn
<1>1. /\ s \in Streams /\ left[s] > 0
      /\ got[s] + pipe[s] <= total[s] - left[s]
      /\ Over(s) => got[s] = Limit
      /\ reader[s] \in ReadersOf(kind)
  BY DEF IInv, TypeOK, Owed, Accounted, LeftForAReason, AtEof, KnownReaders
<1>2. /\ left[s] \in Nat /\ got[s] \in Nat /\ pipe[s] \in Nat /\ total[s] \in Nat
      /\ Limit \in Nat /\ PipeCap \in Nat
  BY <1>1, SizesAreNat DEF IInv, TypeOK
<1> HIDE DEF s
<1>3. CASE kind = "go"
  <2>1. total["stderr"] <= PipeCap /\ total["stdout"] <= Limit + PipeCap
    BY <1>3 DEF ScriptFits
  <2>2. CASE s = "stderr"
    BY <1>1, <1>2, <2>1, <2>2 DEF s
  <2>3. CASE s = "stdout"
    BY <1>1, <1>2, <1>3, <2>1, <2>3 DEF s, ReadersOf, Over, KnownReaders, Streams
  <2> QED  BY <1>1, <2>2, <2>3 DEF Streams
<1>4. CASE kind = "rust"
  <2>1. total[s] <= Limit
    BY <1>1, <1>4 DEF ScriptFits
  <2>2. reader[s] # "closed"
    BY <1>1, <1>2, <2>1 DEF Over
  <2> QED  BY <1>1, <1>4, <2>2 DEF s, ReadersOf
<1>5. CASE kind = "dotnet"
  <2>1. reader[s] # "eof"
    BY <1>1, <1>5 DEF KnownReaders, AtEof
  <2> QED  BY <1>1, <1>5, <2>1 DEF s, ReadersOf
<1> QED  BY <1>3, <1>4, <1>5 DEF KnownReaders

\* Every reader stays one of its server's.
LEMMA ReadersKeep ==
  ASSUME IInv, KnownReaders, [Next]_vars
  PROVE  KnownReaders'
<1> USE DEF KnownReaders, IInv, TypeOK, script, capture, AtEof
<1>1. CASE Script \/ Deadline
  BY <1>1 DEF Script, Produce, Write, WriteFails, Exit, Deadline
<1>2. ASSUME NEW s \in Streams, Keep(s) \/ DotnetDrain(s) PROVE KnownReaders'
  BY <1>2, SizesAreNat DEF Keep, DotnetDrain
<1>3. CASE GoStdoutEnds \/ GoStderrEnds
  BY <1>3 DEF GoStdoutEnds, GoStderrEnds, Leave, ReadersOf, Streams
<1>4. ASSUME NEW s \in Streams, RustEnds(s) PROVE KnownReaders'
  BY <1>4 DEF RustEnds, Leave, ReadersOf
<1>5. ASSUME NEW s \in Streams, DotnetFull(s) \/ DotnetEnds(s) PROVE KnownReaders'
  BY <1>5 DEF DotnetFull, DotnetEnds, Leave, ReadersOf
<1>6. CASE Finish \/ Terminated \/ UNCHANGED vars
  BY <1>6 DEF Finish, Terminated, vars
<1> QED  BY <1>1, <1>2, <1>3, <1>4, <1>5, <1>6 DEF Next, Read

\* A write can fail only where a reader has closed a stream at its cap.
LEMMA UnharmedKeeps ==
  ASSUME IInv, KnownReaders, Unharmed, [Next]_vars
  PROVE  Unharmed'
<1>1. ScriptFits' <=> ScriptFits
  BY DEF Next, Script, Produce, Write, WriteFails, Exit, Deadline, Read, Keep, DotnetDrain,
     GoStdoutEnds, GoStderrEnds, RustEnds, DotnetFull, DotnetEnds, Leave, Finish, Terminated,
     vars, script, ScriptFits
<1>2. CASE WriteFails
  <2>1. turn \in Streams /\ left[turn] > 0 /\ Over(turn) /\ ~AtEof(turn) /\ kind = "rust"
    BY <1>2 DEF WriteFails, IInv, TypeOK, Owed, Over, AtEof, KnownReaders, ReadersOf
  <2>2. got[turn] = Limit /\ got[turn] + pipe[turn] <= total[turn] - left[turn]
    BY <2>1 DEF IInv, Accounted, LeftForAReason
  <2>3. total[turn] > Limit
    BY <2>1, <2>2, SizesAreNat DEF IInv, TypeOK
  <2>4. ~ScriptFits
    BY <2>1, <2>3, SizesAreNat DEF ScriptFits, IInv, TypeOK
  <2> QED  BY <1>1, <2>4 DEF Unharmed
<1>3. CASE Deadline
  BY <1>3 DEF Deadline, Unharmed
<1>4. CASE ~WriteFails /\ ~Deadline
  <2>1. child' = "killed" => child = "killed" /\ late' = late
    BY <1>4 DEF Next, Script, Produce, Write, Exit, Read, Keep, DotnetDrain, GoStdoutEnds,
       GoStderrEnds, RustEnds, DotnetFull, DotnetEnds, Leave, Finish, Terminated, vars, script, capture
  <2> QED  BY <1>1, <2>1 DEF Unharmed
<1> QED  BY <1>2, <1>3, <1>4

\* No script that fits is blocked or killed by its server, in whatever order the
\* two pipes are filled and emptied: the safe part of ScriptFinishes (main.go
\* the two ReadAll, main.rs read_capped, Program.cs ReadCappedAsync).
THEOREM FittingScriptsAlwaysGoOn == Spec => []FittingScriptsGoOn
<1>1. Init => KnownReaders /\ Unharmed
  BY DEF Init, KnownReaders, ReadersOf, AtEof, Unharmed, Streams
<1>2. IInv /\ KnownReaders /\ Unharmed /\ [Next]_vars => (KnownReaders /\ Unharmed)'
  BY ReadersKeep, UnharmedKeeps
<1>3. IInv /\ KnownReaders /\ Unharmed => FittingScriptsGoOn
  BY RoomOrReader DEF Unharmed, FittingScriptsGoOn
<1> QED  BY <1>1, <1>2, <1>3, Invariant, PTL DEF Spec
=============================================================================
