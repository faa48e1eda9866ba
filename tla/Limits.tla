------------------------------- MODULE Limits -------------------------------
(***************************************************************************)
(* The limits of a run: how the three servers read them from environment   *)
(* variables and what they make of the memory_mb of a request.  (cpus goes *)
(* through the same clamp; its settings are floating-point numbers, which  *)
(* no server has a range for.)  Everything is counted in megabytes.        *)
(***************************************************************************)
EXTENDS Integers

CONSTANTS
  Unset,  \* a variable that is absent or not a number
  IntMax, \* the largest 32-bit int, 2^31 - 1
  LongMB  \* the most megabytes whose bytes a 64-bit long can count, 2^43 - 1

ASSUME UnsetIsNoNumber == Unset \notin Int
ASSUME Widths == IntMax \in Nat /\ LongMB \in Nat /\ 2047 <= IntMax /\ IntMax <= LongMB

Kinds   == {"go", "rust", "dotnet"}
Ints    == -IntMax - 1..IntMax
Numbers == -LongMB - 1..LongMB
Raw     == Numbers \cup {Unset}

\* A signed setting such as SANDBOX_MAX_MEMORY_MB.  .NET parses it as an int
\* and takes a number that is none for no number; the others parse 64 bits.
Setting(kind, raw, builtin) ==
  IF raw = Unset \/ (kind = "dotnet" /\ raw \notin Ints) THEN builtin ELSE raw

\* A size such as SANDBOX_MAX_LOG_MB.  In Rust its type has no negative
\* numbers, and one that does not parse is as good as none.
Count(kind, raw, builtin) ==
  IF kind = "rust" /\ raw # Unset /\ raw < 0 THEN builtin ELSE Setting(kind, raw, builtin)

\* Mutant of Clamp: a request for no limit is passed on.
ClampFromAbove(req, def, max) == IF req > max THEN max ELSE req

\* clampCPUs and clampMemory: a request that is not positive (podman would
\* take 0 for no limit) becomes the default, and the maximum caps both.
Clamp(req, def, max) ==
  LET wanted == IF req <= 0 THEN def ELSE req
  IN  IF wanted > max THEN max ELSE wanted

\* mb * 1024 * 1024 in 32-bit arithmetic, in megabytes: 2^32 bytes are 4096.
Wrapped(mb) == ((mb + 2048) % 4096) - 2048

\* How many bytes of each stream are kept where mb is configured.  Go and Rust
\* count bytes in 64 bits; .NET counts, in 32 bits, the UTF-16 units of the
\* decoded text, of which each was width bytes.  Under a negative cap nothing is
\* kept.
LogCap(kind, mb, width) ==
  LET cap == IF kind = "dotnet" THEN width * Wrapped(mb) ELSE mb
  IN  IF cap > 0 THEN cap ELSE 0
=============================================================================
