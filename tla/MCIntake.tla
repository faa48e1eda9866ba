------------------------------ MODULE MCIntake ------------------------------
(* Intake for TLC: requests that are flawed, or laden, or greedy.  The widths *)
(* of integers are scaled down in the .cfg to what TLC can count to.          *)
EXTENDS Intake, FiniteSets

CONSTANT MaxFiles \* the most entries of input_files

Asks     == {-1, 0, 1, 3000}                   \* what a request asks for
Values   == {-1, 0, 1, 3000, IntMax + 1}       \* what a limit is set to
LogSizes == {-1, 2, 2047, 2048, 4097, IntMax + 1} \* and the cap on the streams

Plain == [flaws |-> {}, files |-> <<>>, ask |-> 1, width |-> 1,
          def |-> Unset, max |-> Unset, log |-> Unset, disk |-> "ok"]

Flawed == {[Plain EXCEPT !.flaws = F] : F \in SUBSET Flaws}
Laden  == {[Plain EXCEPT !.files = f, !.disk = d] :
             f \in {g \in Files : Cardinality(DOMAIN g) <= MaxFiles}, d \in {"ok", "full"}}
Greedy == {[Plain EXCEPT !.ask = a, !.def = d, !.max = m] :
             a \in Asks, d \in Values \cup {Unset}, m \in Values \cup {Unset}}
Wordy  == {[Plain EXCEPT !.log = g, !.width = w] : g \in LogSizes \cup {Unset}, w \in 1..3}

AllSituations == Flawed \cup Laden \cup Greedy \cup Wordy
=============================================================================
