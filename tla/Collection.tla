----------------------------- MODULE Collection -----------------------------
(***************************************************************************)
(* What is taken from /output when the container has ended: the metrics    *)
(* record metrics.json first, then the files, under a total budget.  The   *)
(* Collect actions of the server modules take all of it as one step.       *)
(*                                                                         *)
(* Each file is stat'ed, compared with what is left of the budget, and     *)
(* then read.  As a rule the container has stopped by then (quiet); but    *)
(* Go's deadline leaves its removal to a deferred call, and a CLI that has *)
(* died leaves it running, so that the script may write between the stat   *)
(* and the read.  The three loops differ in what they do then:             *)
(*   Go    in the order of names; the budget may go below zero             *)
(*   Rust  in any order; the budget stops at zero                          *)
(*   .NET  in any order; may go below zero; a failed read ends the loop    *)
(* metrics.json is left out by its name.  Go and Rust leave out what the    *)
(* listing says is no regular file; .NET leaves out links only, and would  *)
(* wait for ever for a writer of a named pipe.  So would the read of the   *)
(* metrics, for which Rust alone looks at the type.  (Links and the other  *)
(* things that are no files are not modelled.)                             *)
(*                                                                         *)
(* A server makes a directory for each run.  The command line worker       *)
(* (host/worker.py) mounts the one its user names, run after run, reads    *)
(* the metrics only, and leaves the files where they are.                  *)
(***************************************************************************)
EXTENDS Integers, FiniteSetsExt

CONSTANTS
  Files,         \* the files and pipes of /output, numbered by name
  MaxSize,       \* the largest a file gets
  MaxOutputBytes \* SANDBOX_MAX_OUTPUT_MB

ASSUME FilesAreNumbered == Files \subseteq Nat /\ IsFiniteSet(Files)
ASSUME BoundsAreNat == MaxSize \in Nat /\ MaxOutputBytes \in Nat

Servers == {"go", "rust", "dotnet"}
Kinds   == Servers \cup {"worker"}
Absent  == -1

\* A metrics record that parses is this run's own or left of an earlier run.
Parsable == {"own", "left"}

VARIABLES
  kind,    \* the server, or the worker
  quiet,   \* no process writes to /output any more
  size,    \* size[f] on disk, or Absent once it is removed
  pipes,   \* the names that are of named pipes
  sealed,  \* the files that cannot be read
  record,  \* metrics.json: "none", "own", "left", "garbled", "pipe", or "shut"
           \* (there, but hidden: by the mode of /output, as a directory...)
  tainted, \* a worker left a record that it had not read, or could not remove
  strays,  \* containers but the worker's own may write to its directory
  pending, \* the files the loop has still to look at
  current, \* the file found to fit and about to be read, in a singleton, or {}
  budget,  \* what is left of the budget
  kept,    \* kept[f]: how much of f is in the answer, or Absent
  metrics, \* what is reported: "zeros", or the record that was read
  step     \* "metrics", "loop", "blocked", "done" or "error"

fixed == <<kind, quiet, sealed>>
disk  == <<size, pipes>>
meta  == <<record, tainted, strays, metrics>>
loop  == <<pending, current, budget, kept, step>>
vars  == <<fixed, disk, meta, loop>>

\* metrics.json after a container, old being what was there before: the record
\* of a script that succeeded; GNU time's, headed by a line of text, of one that
\* failed; of a container that was killed none, or what the script has made of
\* it, an earlier record that it uncovers or does not touch included.
RecordsAfter(old) == {"none", "own", "garbled", "pipe", "shut"}
                       \cup (IF old \in {"own", "left", "shut"} THEN {"left"} ELSE {})

Init ==
  /\ kind \in Kinds /\ quiet \in BOOLEAN
  /\ size \in [Files -> 0..MaxSize]
  /\ sealed \in SUBSET Files /\ pipes \in SUBSET (Files \ sealed)
  /\ \A f \in pipes : size[f] = 0
  /\ kind = "worker" => quiet /\ size = [f \in Files |-> 0] /\ sealed = {} /\ pipes = {}
  /\ record \in RecordsAfter("none") /\ tainted = FALSE /\ strays = FALSE
  /\ metrics = "zeros"
  /\ pending = Files /\ current = {}
  /\ budget = MaxOutputBytes
  /\ kept = [f \in Files |-> Absent]
  /\ step = "metrics"

\* os.ReadDir gives the names in order, the other two in no order.
NextFiles == IF kind = "go" /\ pending # {} THEN {Min(pending)} ELSE pending

\* Mutant of Fits: the budget is not looked at.
FitsAlways(f) == size[f] # Absent

\* Mutant of Fits: a file of exactly the remaining size is left out.
FitsBelow(f) == size[f] # Absent /\ size[f] < budget

\* The file can be stat'ed and is not larger than what is left.
Fits(f) == size[f] # Absent /\ size[f] <= budget

\* Mutant of Left: every server stops at zero.
LeftAtZero(n) == Max({budget - n, 0})

\* What is left after n bytes: saturating_sub in Rust, a signed subtraction in
\* the others.
Left(n) == IF kind = "rust" THEN Max({budget - n, 0}) ELSE budget - n
-----------------------------------------------------------------------------
\* What each comes to remove after reading it: the worker what parses, Go what
\* it can read, the others also what they cannot.
Removes == [worker |-> Parsable,
            go     |-> Parsable \cup {"garbled"},
            rust   |-> Parsable \cup {"garbled", "shut"},
            dotnet |-> Parsable \cup {"garbled", "shut"}]

\* The entries that are not looked at: Go and Rust have the types from the
\* listing.
Typed == IF kind = "dotnet" THEN {} ELSE pipes

\* Reading metrics.json waits for ever: it is a pipe, and only Rust looks.
Waits == record = "pipe" /\ kind # "rust"

\* Mutant of ReadMetrics: the record is read and left where it is.
ReadMetricsOnly ==
  /\ step = "metrics" /\ ~Waits
  /\ metrics' = IF record \in Parsable THEN record ELSE "zeros"
  /\ tainted' = (tainted \/ record = "shut")
  /\ step' = IF kind = "worker" THEN "done" ELSE "loop"
  /\ pending' = pending \ Typed
  /\ UNCHANGED <<fixed, disk, record, strays, current, budget, kept>>

\* The record is read if it can be, and removed if it can be.
ReadMetrics == \E removable \in BOOLEAN :
  /\ step = "metrics" /\ ~Waits
  /\ metrics' = IF record \in Parsable THEN record ELSE "zeros"
  /\ record' = IF removable /\ record \in Removes[kind] THEN "none" ELSE record
  /\ tainted' = (tainted \/ record = "shut" \/ (record \in Parsable /\ ~removable))
  /\ step' = IF kind = "worker" THEN "done" ELSE "loop"
  /\ pending' = pending \ Typed
  /\ UNCHANGED <<fixed, disk, strays, current, budget, kept>>

BlockOnRecord ==
  /\ step = "metrics" /\ Waits
  /\ step' = "blocked"
  /\ UNCHANGED <<fixed, disk, meta, pending, current, budget, kept>>

\* The worker is interrupted at the terminal, which no except of its catches.
Interrupt ==
  /\ kind = "worker" /\ step \in {"metrics", "blocked"}
  /\ step' = "done" /\ tainted' = TRUE
  /\ UNCHANGED <<fixed, disk, record, strays, metrics, pending, current, budget, kept>>

\* The next run of the worker, up to the end of its podman CLI.
Again ==
  /\ kind = "worker" /\ step = "done"
  /\ record' \in RecordsAfter(record)
  /\ metrics' = "zeros" /\ step' = "metrics"
  /\ UNCHANGED <<fixed, disk, tainted, strays, pending, current, budget, kept>>

\* A second worker is started in the directory, or a podman CLI dies and its
\* container goes on: from now on metrics.json may come and go at any time.
Stray ==
  /\ kind = "worker" /\ strays' = TRUE
  /\ UNCHANGED <<fixed, disk, record, tainted, metrics, loop>>
LateRecord ==
  /\ strays /\ record' \in RecordsAfter("left") \ {"own"}
  /\ UNCHANGED <<fixed, disk, tainted, strays, metrics, loop>>
-----------------------------------------------------------------------------
\* The next entry is stat'ed and compared; it is skipped or to be read.
Look(f) ==
  /\ step = "loop" /\ current = {} /\ f \in NextFiles
  /\ pending' = pending \ {f}
  /\ current' = IF Fits(f) THEN {f} ELSE {}
  /\ UNCHANGED <<fixed, disk, meta, budget, kept, step>>

\* The file is read to its end and encoded into the answer.
Read(f) ==
  /\ f \in current /\ f \notin sealed \cup pipes /\ size[f] # Absent
  /\ kept' = [kept EXCEPT ![f] = size[f]]
  /\ budget' = Left(size[f])
  /\ current' = {}
  /\ UNCHANGED <<fixed, disk, meta, pending, step>>

\* The read fails: Go and Rust go on with the next file, .NET leaves the loop
\* for the catch around it and answers with what it has.
ReadFails(f) ==
  /\ f \in current /\ (f \in sealed \/ size[f] = Absent)
  /\ current' = {}
  /\ step' = IF kind = "dotnet" THEN "done" ELSE step
  /\ UNCHANGED <<fixed, disk, meta, pending, budget, kept>>

\* The file is a pipe, and its open waits for a writer.
Block(f) ==
  /\ f \in current /\ f \in pipes /\ size[f] # Absent
  /\ current' = {} /\ step' = "blocked"
  /\ UNCHANGED <<fixed, disk, meta, pending, budget, kept>>

\* The directory cannot be listed.  Go lists it before it reads the metrics, and
\* Rust asks for the entries one at a time: their answer is an error.  .NET
\* lists it at once, in the try around the loop, and answers with no file.
ListingFails ==
  /\ \/ kind = "go" /\ step = "metrics" /\ step' = "error"
     \/ kind = "rust" /\ step = "loop" /\ current = {} /\ step' = "error"
     \/ kind = "dotnet" /\ step = "loop" /\ pending = Files /\ step' = "done"
  /\ UNCHANGED <<fixed, disk, meta, pending, current, budget, kept>>

Finish ==
  /\ step = "loop" /\ current = {} /\ pending = {}
  /\ step' = "done"
  /\ UNCHANGED <<fixed, disk, meta, pending, current, budget, kept>>

\* A container that is still up writes to a file, removes it, or puts a pipe in
\* its place.
Grow(f) ==
  /\ ~quiet /\ step = "loop" /\ f \notin pipes /\ size[f] \in 0..MaxSize - 1
  /\ size' = [size EXCEPT ![f] = @ + 1]
  /\ UNCHANGED <<fixed, pipes, meta, loop>>
Unlink(f) ==
  /\ ~quiet /\ step = "loop" /\ size[f] # Absent
  /\ size' = [size EXCEPT ![f] = Absent]
  /\ UNCHANGED <<fixed, pipes, meta, loop>>
Replace(f) ==
  /\ ~quiet /\ step = "loop" /\ f \notin sealed /\ size[f] # Absent
  /\ size' = [size EXCEPT ![f] = 0] /\ pipes' = pipes \cup {f}
  /\ UNCHANGED <<fixed, meta, loop>>

Terminated == step \in {"done", "error", "blocked"} /\ UNCHANGED vars

Next == \/ \E f \in Files : \/ Look(f) \/ Read(f) \/ ReadFails(f) \/ Block(f)
                            \/ Grow(f) \/ Unlink(f) \/ Replace(f)
        \/ ReadMetrics \/ BlockOnRecord \/ Interrupt \/ Again \/ Stray \/ LateRecord
        \/ ListingFails \/ Finish \/ Terminated

Spec == Init /\ [][Next]_vars
-----------------------------------------------------------------------------
Collected == {f \in Files : kept[f] # Absent}
Total(S)  == MapThenSumSet(LAMBDA f : kept[f], S)

\* README.md:111: "total /output byte budget".  The answer never holds more of
\* a container that has stopped, in whatever order its files come.
WithinBudget == quiet => Total(Collected) <= MaxOutputBytes

\* Nor is the budget wasted: when the listing is through, no file that was left
\* out and could have been read would still fit.  (In .NET a file that cannot
\* be read ends the loop, and those pending are left out for no reason.)
NoneLeftOutThatFits ==
  quiet /\ step = "done" /\ pending = {} =>
    \A f \in Files \ (Collected \cup sealed \cup pipes) :
      size[f] > MaxOutputBytes - Total(Collected)

\* With the container still up, files that grow between stat and read may go
\* over the budget; but in Go and .NET one of them at most does, since a budget
\* below zero admits no other, not even an empty one that is about to grow.
\* (Rust's saturating budget admits those.)
OverrunIsOneFile ==
  kind # "rust" /\ Total(Collected) > MaxOutputBytes =>
    \E f \in Collected : Total(Collected \ {f}) <= MaxOutputBytes

\* worker.py:175: "Clean up so it doesn't pollute user output".  The metrics
\* reported are those of the run or zeros, never an earlier run's, although the
\* worker's directory outlives its runs and a run may leave no record - unless
\* a worker was stopped before it had read and removed one, or could not, or
\* other containers write to the directory.
MetricsAreTheRuns == metrics = "left" => kind = "worker" /\ (tainted \/ strays)

\* README.md:104: "Output collection reads regular files only (skips symlinks)
\* - servers".  A server is never held up by a pipe that a container which has
\* stopped has left, as metrics.json or as another name.
RegularFilesOnly == quiet /\ kind \in Servers => step # "blocked"
=============================================================================
