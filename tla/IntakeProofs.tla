---------------------------- MODULE IntakeProofs ----------------------------
(***************************************************************************)
(* Proofs about Limits, for every configuration and every request, and     *)
(* about Intake, for every set of Situations: a launched run has the input *)
(* files the request gave it, and the limits the server has.               *)
(***************************************************************************)
EXTENDS Intake, TLAPS
-----------------------------------------------------------------------------
\* README.md:207: a request is "clamped to (0, SANDBOX_MAX_MEMORY_MB]", as long as
\* the operator's own two numbers are positive.
THEOREM ClampInRange ==
  ASSUME NEW req \in Int, NEW def \in Int, NEW max \in Int, def > 0, max > 0
  PROVE  Clamp(req, def, max) \in 1..max
  BY DEF Clamp

\* A request within the limits is granted as it is.
THEOREM ClampKeeps ==
  ASSUME NEW def \in Int, NEW max \in Int, NEW req \in 1..max
  PROVE  Clamp(req, def, max) = req
  BY DEF Clamp

\* "Never unlimited" (README.md:207) is up to the operator: the limit handed to
\* podman is not positive exactly if the maximum is not, or if the default is
\* not and the request does not ask for anything either.
THEOREM UnlimitedByConfiguration ==
  ASSUME NEW req \in Int, NEW def \in Int, NEW max \in Int
  PROVE  Clamp(req, def, max) <= 0 <=> max <= 0 \/ (req <= 0 /\ def <= 0)
  BY DEF Clamp

\* To clamp twice is to clamp once.
THEOREM ClampIsIdempotent ==
  ASSUME NEW req \in Int, NEW def \in Int, NEW max \in Int, def > 0, max > 0
  PROVE  Clamp(Clamp(req, def, max), def, max) = Clamp(req, def, max)
  BY DEF Clamp

\* A setting that a 32-bit int can hold is the same to all three servers; one
\* that only 64 bits can hold .NET replaces by its own default (Program.cs:9).
THEOREM SettingsPart ==
  ASSUME NEW kind \in Kinds \ {"dotnet"}, NEW raw \in Raw, NEW builtin \in Ints
  PROVE  Setting("dotnet", raw, builtin) = Setting(kind, raw, builtin)
           <=> raw \in Ints \cup {Unset}
  <1>1. CASE raw = Unset
    BY <1>1 DEF Setting
  <1>2. CASE raw # Unset /\ raw \in Ints
    BY <1>2 DEF Setting
  <1>3. CASE raw # Unset /\ raw \notin Ints
    BY <1>3 DEF Setting, Kinds
  <1> QED
    BY <1>1, <1>2, <1>3

\* The three servers keep the same of an ASCII stream below 2048 MB.
THEOREM LogCapsAgree ==
  ASSUME NEW kind \in Kinds, NEW mb \in 0..2047
  PROVE  LogCap(kind, mb, 1) = mb
  <1>1. Wrapped(mb) = mb
    BY DEF Wrapped
  <1> QED
    BY <1>1 DEF LogCap

\* No configuration makes a server keep more than it says, in the unit it counts
\* in: bytes, or in .NET (Program.cs:23) characters of up to three.
THEOREM LogCapIsNoMore ==
  ASSUME NEW kind \in Kinds, NEW mb \in Nat, NEW width \in 1..3
  PROVE  LogCap(kind, mb, width) \in 0..(IF kind = "dotnet" THEN width * mb ELSE mb)
  <1>1. Wrapped(mb) <= mb /\ Wrapped(mb) \in Int
    BY DEF Wrapped
  <1>2. kind # "dotnet" => LogCap(kind, mb, width) = mb
    BY DEF LogCap
  <1>3. ASSUME kind = "dotnet"
        PROVE  LogCap(kind, mb, width) \in 0..width * mb
    <2>1. CASE width = 1
      BY <1>1, <1>3, <2>1 DEF LogCap
    <2>2. CASE width = 2
      BY <1>1, <1>3, <2>2 DEF LogCap
    <2>3. CASE width = 3
      BY <1>1, <1>3, <2>3 DEF LogCap
    <2> QED
      BY <2>1, <2>2, <2>3
  <1> QED
    BY <1>2, <1>3

\* Up to 2047 MB .NET keeps as many characters as the others keep bytes, which is
\* more of a stream that is not ASCII; and from there on fewer, since it computes
\* the cap in 32 bits (Program.cs:23).
THEOREM LogCapsPart ==
  ASSUME NEW kind \in Kinds \ {"dotnet"}, NEW mb \in Nat, NEW width \in 1..3
  PROVE  /\ mb < 2048  => LogCap("dotnet", mb, width) = width * LogCap(kind, mb, width)
         /\ mb >= 2048 => LogCap("dotnet", mb, width) < width * LogCap(kind, mb, width)
  <1>1. mb < 2048 => Wrapped(mb) = mb
    BY DEF Wrapped
  <1>2. mb >= 2048 => Wrapped(mb) < mb /\ Wrapped(mb) \in Int
    BY DEF Wrapped
  <1>3. LogCap(kind, mb, width) = mb
    BY DEF LogCap, Kinds
  <1>4. CASE width = 1
    BY <1>1, <1>2, <1>3, <1>4 DEF LogCap
  <1>5. CASE width = 2
    BY <1>1, <1>2, <1>3, <1>5 DEF LogCap
  <1>6. CASE width = 3
    BY <1>1, <1>2, <1>3, <1>6 DEF LogCap
  <1> QED
    BY <1>4, <1>5, <1>6
-----------------------------------------------------------------------------

\* What is in /input while k is at the entries: under each name an entry of
\* those behind it, or nothing as long as all that would give it are ahead.
Placed(k) ==
  /\ \A n \in Names :
       \/ input[k][n] \in Givers(k, n) \ todo[k]
       \/ input[k][n] = Absent /\ Givers(k, n) \subseteq todo[k]
       \/ given.disk = "full" /\ k # "go" /\ Givers(k, n) # {}
            /\ input[k][n] \in {Absent, Torn}
  /\ k = "go" => \A key \in DOMAIN given.files \ todo[k] : key \in Givers(k, BaseOf(k, key))

Granted(k) == [limit |-> Clamp(given.ask, Default(k), Maximum(k)),
               log   |-> LogCap(k, LogMB(k), given.width)]

\* No check of k found anything.
Passed(k) == \A i \in DOMAIN Checks[k] : Checks[k][i] \cap given.flaws = {}

\* Why k has refused the request: a check, or (in Go) an entry.
Reason(k) ==
  \/ \E i \in DOMAIN Checks[k] : \E flaw \in Checks[k][i] \cap given.flaws :
       status[k] = StatusOf(k, flaw)
  \/ /\ k = "go" /\ Passed(k)
     /\ \E key \in DOMAIN given.files :
          given.disk = "full" \/ ~Decodes(k, key) \/ BaseOf(k, key) = NoName

\* The inductive invariant: what is true of each server at each step.
Progress == \A k \in Kinds :
  /\ todo[k] \subseteq DOMAIN given.files
  /\ step[k] = "admit" => /\ todo[k] = DOMAIN given.files
                          /\ input[k] = [n \in Names |-> Absent]
  /\ step[k] \in {"inputs", "launched"} => Passed(k) /\ Placed(k)
  /\ step[k] = "refused" => Reason(k)
  /\ step[k] = "launched" => todo[k] = {} /\ grant[k] = Granted(k)

IInv == TypeOK /\ Progress

\* The numbers behind the limits are integers.
LEMMA LimitTypes ==
  ASSUME given \in Situation, NEW k \in Kinds
  PROVE  /\ Default(k) \in Int /\ Maximum(k) \in Int /\ LogMB(k) \in Int
         /\ Granted(k) \in [limit : Int, log : Int]
  <1>1. /\ given.def \in Raw /\ given.max \in Raw /\ given.log \in Raw
        /\ given.ask \in Int /\ given.width \in 1..3
    BY DEF Situation
  <1>2. \A raw \in Raw : raw = Unset \/ raw \in Int
    BY Widths DEF Raw, Numbers
  <1>3. Default(k) \in Int /\ Maximum(k) \in Int
    BY <1>1, <1>2 DEF Default, Maximum, Setting
  <1>4. LogMB(k) \in Int
    BY <1>1, <1>2 DEF LogMB, Count, Setting
  <1>5. Clamp(given.ask, Default(k), Maximum(k)) \in Int
    BY <1>1, <1>3 DEF Clamp
  <1>6. LogCap(k, LogMB(k), given.width) \in Int
    <2>1. Wrapped(LogMB(k)) \in Int
      BY <1>4 DEF Wrapped
    <2>2. given.width * Wrapped(LogMB(k)) \in Int
      BY <1>1, <2>1
    <2> QED
      BY <1>4, <2>2 DEF LogCap
  <1> QED
    BY <1>3, <1>4, <1>5, <1>6 DEF Granted

\* What a key can be, and the name it is written under.
LEMMA BaseTypes ==
  ASSUME NEW k \in Kinds, NEW key \in Keys
  PROVE  BaseOf(k, key) \in Names \cup {NoName}
  BY DEF BaseOf, Keys, Names, NoName, Kinds

LEMMA FileTypes ==
  ASSUME given \in Situation
  PROVE  DOMAIN given.files \subseteq Keys
  BY DEF Situation, Files

LEMMA InitEstablishes == Init => IInv
  <1> SUFFICES ASSUME Init PROVE IInv
    OBVIOUS
  <1>1. given \in Situation
    BY SituationsKnown DEF Init
  <1>2. DOMAIN given.files \subseteq Keys
    BY <1>1, FileTypes
  <1>3. TypeOK
    BY <1>1, <1>2 DEF Init, TypeOK, NoGrant, Absent, Torn
  <1>4. Progress
    BY DEF Init, Progress
  <1> QED
    BY <1>3, <1>4 DEF IInv

\* A server that refuses has nothing left to keep.
LEMMA RefusedKeeps ==
  ASSUME IInv, NEW k \in Kinds, NEW code \in {400, 401, 405, 413, 415, 422, 429, 500},
         Refused(k, code), Reason(k)'
  PROVE  IInv'
  <1>1. TypeOK'
    BY DEF IInv, TypeOK, Refused
  <1>2. \A l \in Kinds : Reason(l) /\ status'[l] = status[l] => Reason(l)'
    BY DEF Refused, Reason, Passed, Decodes
  <1>3. \A l \in Kinds : Passed(l) /\ Placed(l) => Passed(l)' /\ Placed(l)'
    BY DEF Refused, Passed, Placed, Givers, Decodes
  <1>4. Progress'
    BY <1>2, <1>3 DEF IInv, TypeOK, Progress, Refused, Granted, Default, Maximum, LogMB
  <1> QED
    BY <1>1, <1>4 DEF IInv

LEMMA RefuseKeeps ==
  ASSUME IInv, NEW k \in Kinds, Refuse(k)
  PROVE  IInv'
  <1>1. PICK i \in DOMAIN Checks[k], flaw \in Flaws :
          flaw \in Checks[k][i] \cap given.flaws /\ Refused(k, StatusOf(k, flaw))
    BY DEF Refuse, IInv, TypeOK, Situation
  <1>2. StatusOf(k, flaw) \in {400, 401, 405, 413, 415, 422, 429, 500}
    BY DEF StatusOf, Flaws
  <1>3. Reason(k)'
    BY <1>1 DEF Reason, Refused, IInv, TypeOK
  <1> QED
    BY <1>1, <1>2, <1>3, RefusedKeeps

\* The two servers other than k are where they were.
Elsewhere(k) == \A l \in Kinds \ {k} :
  /\ step'[l] = step[l] /\ todo'[l] = todo[l]
  /\ input'[l] = input[l] /\ grant'[l] = grant[l] /\ status'[l] = status[l]

\* Progress follows from what k alone has come to.
LEMMA OneServer ==
  ASSUME IInv, NEW k \in Kinds, UNCHANGED given, Elsewhere(k), TypeOK',
         todo'[k] \subseteq DOMAIN given.files,
         step'[k] # "admit",
         step'[k] \in {"inputs", "launched"} => Passed(k)' /\ Placed(k)',
         step'[k] = "refused" => Reason(k)',
         step'[k] = "launched" => todo'[k] = {} /\ grant'[k] = Granted(k)
  PROVE  IInv'
  <1>1. ASSUME NEW l \in Kinds \ {k}
        PROVE  /\ Passed(l) /\ Placed(l) => Passed(l)' /\ Placed(l)'
               /\ Reason(l) => Reason(l)'
    BY <1>1 DEF Elsewhere, Passed, Placed, Reason, Givers, Decodes
  <1>2. \A l \in Kinds : Granted(l)' = Granted(l)
    BY DEF Granted, Default, Maximum, LogMB
  <1>3. Progress'
    BY <1>1, <1>2 DEF IInv, Progress, Elsewhere
  <1> QED
    BY <1>3 DEF IInv

LEMMA AdmitKeeps ==
  ASSUME IInv, NEW k \in Kinds, Admit(k)
  PROVE  IInv'
  <1>1. TypeOK'
    BY DEF IInv, TypeOK, Admit
  <1>2. Placed(k)' /\ Passed(k)'
    <2>1. todo[k] = DOMAIN given.files /\ input[k] = [n \in Names |-> Absent]
      BY DEF IInv, Progress, Admit
    <2> QED
      BY <2>1 DEF Admit, Placed, Passed, Givers, Decodes
  <1>3. step'[k] = "inputs"
    BY DEF Admit, IInv, TypeOK
  <1>4. Elsewhere(k)
    BY DEF Elsewhere, Admit, IInv, TypeOK
  <1> QED
    BY <1>1, <1>2, <1>3, <1>4, OneServer DEF Admit, IInv, Progress

LEMMA WriteKeeps ==
  ASSUME IInv, NEW k \in Kinds, NEW key \in DOMAIN given.files, Write(k, key)
  PROVE  IInv'
  <1> DEFINE base == BaseOf(k, key)
  <1>1. key \in Keys /\ base \in Names
    BY BaseTypes, FileTypes DEF IInv, TypeOK, Write
  <1>2. Passed(k) /\ Placed(k) /\ step[k] = "inputs" /\ todo[k] \subseteq DOMAIN given.files
    BY DEF IInv, Progress, Write, Take
  <1>3. /\ todo'[k] = todo[k] \ {key}
        /\ \A n \in Names : input'[k][n] = IF n = base THEN key ELSE input[k][n]
        /\ UNCHANGED <<given, step, grant>>
    BY <1>1 DEF Write, Take, IInv, TypeOK
  <1>4. TypeOK'
    BY <1>1 DEF IInv, TypeOK, Write, Take
  <1>5. key \in Givers(k, base)
    BY DEF Write, Givers
  <1>6. \A n \in Names : Givers(k, n)' = Givers(k, n)
    BY <1>3 DEF Givers, Decodes
  <1>7. \A n \in Names \ {base} : key \notin Givers(k, n)
    BY DEF Givers
  <1>8. Placed(k)'
    <2>1. ASSUME NEW n \in Names
          PROVE  \/ input'[k][n] \in Givers(k, n) \ todo'[k]
                 \/ input'[k][n] = Absent /\ Givers(k, n) \subseteq todo'[k]
                 \/ given.disk = "full" /\ k # "go" /\ Givers(k, n) # {}
                      /\ input'[k][n] \in {Absent, Torn}
      <3>1. CASE n = base
        BY <3>1, <1>3, <1>5
      <3>2. CASE n # base
        BY <3>2, <1>2, <1>3, <1>7 DEF Placed
      <3> QED
        BY <3>1, <3>2
    <2>2. k = "go" => \A e \in DOMAIN given.files \ todo'[k] : e \in Givers(k, BaseOf(k, e))
      BY <1>2, <1>3, <1>5 DEF Placed
    <2>3. \A e, n : (e \in Givers(k, n))' <=> e \in Givers(k, n)
      BY <1>3 DEF Givers, Decodes
    <2> QED
      BY <2>1, <2>2, <2>3, <1>3, <1>6 DEF Placed
  <1>9. Elsewhere(k)
    BY DEF Elsewhere, Write, Take, IInv, TypeOK
  <1> QED
    BY <1>2, <1>3, <1>4, <1>8, <1>9, OneServer DEF Passed

LEMMA SkipKeeps ==
  ASSUME IInv, NEW k \in Kinds, NEW key \in DOMAIN given.files, Skip(k, key)
  PROVE  IInv'
  <1>1. Passed(k) /\ Placed(k) /\ step[k] = "inputs" /\ todo[k] \subseteq DOMAIN given.files
    BY DEF IInv, Progress, Skip, Take
  <1>2. todo'[k] = todo[k] \ {key} /\ UNCHANGED <<given, step, input, grant>> /\ k # "go"
    BY DEF Skip, Take, IInv, TypeOK
  <1>3. TypeOK'
    BY DEF IInv, TypeOK, Skip, Take
  <1>4. \A n \in Names : key \notin Givers(k, n)
    BY DEF Skip, Givers, Names, NoName
  <1>5. \A n \in Names : Givers(k, n)' = Givers(k, n)
    BY <1>2 DEF Givers, Decodes
  <1>6. Placed(k)'
    BY <1>1, <1>2, <1>4, <1>5 DEF Placed
  <1>7. Elsewhere(k)
    BY DEF Elsewhere, Skip, Take, IInv, TypeOK
  <1> QED
    BY <1>1, <1>2, <1>3, <1>6, <1>7, OneServer DEF Passed

LEMMA RejectKeeps ==
  ASSUME IInv, NEW k \in Kinds, NEW key \in DOMAIN given.files, Reject(k, key)
  PROVE  IInv'
  <1>1. Passed(k)
    BY DEF IInv, Progress, Reject
  <1>2. UNCHANGED given
    BY DEF Reject, Refused
  <1>3. Reason(k)'
    BY <1>1, <1>2 DEF Reject, Reason, Passed, Decodes
  <1>4. CASE Decodes(k, key)
    BY <1>3, <1>4, RefusedKeeps DEF Reject
  <1>5. CASE ~Decodes(k, key)
    BY <1>3, <1>5, RefusedKeeps DEF Reject
  <1> QED
    BY <1>4, <1>5

LEMMA WriteFailsKeeps ==
  ASSUME IInv, NEW k \in Kinds, NEW key \in DOMAIN given.files, WriteFails(k, key)
  PROVE  IInv'
  <1> DEFINE base == BaseOf(k, key)
  <1>1. key \in Keys /\ base \in Names
    BY BaseTypes, FileTypes DEF IInv, TypeOK, WriteFails
  <1>2. Passed(k) /\ Placed(k) /\ step[k] = "inputs" /\ todo[k] \subseteq DOMAIN given.files
    BY DEF IInv, Progress, WriteFails, Take
  <1>3. PICK rest \in {input[k][base], Torn} : input' = [input EXCEPT ![k][base] = rest]
    BY DEF WriteFails, LeftBy
  <1>4. /\ todo'[k] = todo[k] \ {key}
        /\ \A n \in Names : input'[k][n] = IF n = base THEN rest ELSE input[k][n]
        /\ given' = given /\ grant' = grant /\ given.disk = "full"
    BY <1>1, <1>3 DEF WriteFails, Take, IInv, TypeOK
  <1>5. rest \in Keys \cup {Absent, Torn}
    BY <1>1, <1>3 DEF IInv, TypeOK
  <1>6. TypeOK'
    <2>1. input' \in [Kinds -> [Names -> Keys \cup {Absent, Torn}]]
      BY <1>1, <1>3, <1>5 DEF IInv, TypeOK
    <2>2. /\ step'   \in [Kinds -> {"admit", "inputs", "refused", "launched"}]
          /\ status' \in [Kinds -> {0, 400, 401, 405, 413, 415, 422, 429, 500}]
      BY DEF IInv, TypeOK, WriteFails
    <2>3. todo' \in [Kinds -> SUBSET Keys]
      BY DEF IInv, TypeOK, WriteFails, Take
    <2> QED
      BY <2>1, <2>2, <2>3, <1>4 DEF IInv, TypeOK
  <1>7. key \in Givers(k, base) /\ \A n \in Names \ {base} : key \notin Givers(k, n)
    BY DEF WriteFails, Givers
  <1>8. \A n \in Names : Givers(k, n)' = Givers(k, n)
    BY <1>4 DEF Givers, Decodes
  <1>9. k # "go" => Placed(k)'
    <2>1. ASSUME k # "go", NEW n \in Names
          PROVE  \/ input'[k][n] \in Givers(k, n) \ todo'[k]
                 \/ input'[k][n] = Absent /\ Givers(k, n) \subseteq todo'[k]
                 \/ given.disk = "full" /\ k # "go" /\ Givers(k, n) # {}
                      /\ input'[k][n] \in {Absent, Torn}
      <3>1. CASE n = base
        BY <3>1, <2>1, <1>2, <1>3, <1>4, <1>7 DEF Placed
      <3>2. CASE n # base
        BY <3>2, <1>2, <1>4, <1>7 DEF Placed
      <3> QED
        BY <3>1, <3>2
    <2> QED
      BY <2>1, <1>4, <1>8 DEF Placed
  <1>10. Elsewhere(k)
    BY <1>3 DEF Elsewhere, WriteFails, Take, IInv, TypeOK
  <1>11. step'[k] = IF k = "go" THEN "refused" ELSE "inputs"
    BY <1>2 DEF WriteFails, IInv, TypeOK
  <1>12. k = "go" => Reason(k)'
    BY <1>2, <1>4 DEF Reason, Passed
  <1> QED
    BY <1>2, <1>4, <1>6, <1>9, <1>10, <1>11, <1>12, OneServer DEF Passed

LEMMA LaunchKeeps ==
  ASSUME IInv, NEW k \in Kinds, Launch(k)
  PROVE  IInv'
  <1>1. Passed(k) /\ Placed(k) /\ todo[k] = {}
    BY DEF IInv, Progress, Launch
  <1>2. /\ UNCHANGED <<given, todo, input>>
        /\ step'[k] = "launched" /\ grant'[k] = Granted(k)
    BY DEF Launch, Granted, IInv, TypeOK
  <1>3. TypeOK'
    BY LimitTypes DEF IInv, TypeOK, Launch, Granted
  <1>4. Passed(k)' /\ Placed(k)'
    BY <1>1, <1>2 DEF Passed, Placed, Givers, Decodes
  <1>5. Elsewhere(k)
    BY DEF Elsewhere, Launch, IInv, TypeOK
  <1> QED
    BY <1>1, <1>2, <1>3, <1>4, <1>5, OneServer

\* The invariant holds at every step, for every set of situations.
THEOREM IntakeInvariant == Spec => []IInv
  <1>1. Init => IInv
    BY InitEstablishes
  <1>2. IInv /\ [Next]_vars => IInv'
    <2> SUFFICES ASSUME IInv, [Next]_vars PROVE IInv'
      OBVIOUS
    <2>1. CASE UNCHANGED vars
      BY <2>1 DEF vars, IInv, TypeOK, Progress, Passed, Placed, Reason, Givers, Decodes, Granted,
                  Default, Maximum, LogMB
    <2>2. ASSUME NEW k \in Kinds, Refuse(k) \/ Admit(k) \/ Launch(k)
          PROVE  IInv'
      BY <2>2, RefuseKeeps, AdmitKeeps, LaunchKeeps
    <2>3. ASSUME NEW k \in Kinds, NEW key \in DOMAIN given.files,
                 Write(k, key) \/ Skip(k, key) \/ Reject(k, key) \/ WriteFails(k, key)
          PROVE  IInv'
      BY <2>3, WriteKeeps, SkipKeeps, RejectKeeps, WriteFailsKeeps
    <2> QED
      BY <2>1, <2>2, <2>3 DEF Next, Terminated
  <1> QED
    BY <1>1, <1>2, PTL DEF Spec

\* A launched run has under each name one of the entries that have it, whole,
\* and in Go all of its input: the decoding and writing loops of the three.
THEOREM InputsAlwaysPlaced == Spec => []InputsPlaced
  <1>1. IInv => InputsPlaced
    BY DEF IInv, Progress, Placed, InputsPlaced, Launched
  <1> QED
    BY <1>1, IntakeInvariant, PTL

\* No request gets more than the maximum, or no limit at all, from a server
\* whose limits are positive: what clampCPUs and clampMemory are for.
THEOREM LimitsAlwaysEnforced == Spec => []LimitsEnforced
  <1>1. IInv => LimitsEnforced
    <2> SUFFICES ASSUME IInv, NEW k \in Kinds, Launched(k)
                 PROVE  /\ Default(k) > 0 /\ Maximum(k) > 0 => grant[k].limit \in 1..Maximum(k)
                        /\ LogMB(k) >= 0 => grant[k].log <=
                             LogMB(k) * (IF k = "dotnet" THEN given.width ELSE 1)
      BY DEF LimitsEnforced
    <2>1. grant[k] = Granted(k)
      BY DEF IInv, Progress, Launched
    <2>2. /\ Default(k) \in Int /\ Maximum(k) \in Int /\ LogMB(k) \in Int
          /\ given.ask \in Int /\ given.width \in 1..3
      BY LimitTypes DEF IInv, TypeOK, Situation
    <2>3. Default(k) > 0 /\ Maximum(k) > 0 =>
            Clamp(given.ask, Default(k), Maximum(k)) \in 1..Maximum(k)
      BY <2>2, ClampInRange
    <2>4. LogMB(k) >= 0 => LogCap(k, LogMB(k), given.width) <=
            LogMB(k) * (IF k = "dotnet" THEN given.width ELSE 1)
      <3> SUFFICES ASSUME LogMB(k) \in Nat
                   PROVE  LogCap(k, LogMB(k), given.width) <=
                            LogMB(k) * (IF k = "dotnet" THEN given.width ELSE 1)
        BY <2>2
      <3>1. LogCap(k, LogMB(k), given.width) \in
              0..(IF k = "dotnet" THEN given.width * LogMB(k) ELSE LogMB(k))
        BY <2>2, LogCapIsNoMore
      <3>2. given.width * LogMB(k) = LogMB(k) * given.width
        BY <2>2
      <3> QED
        BY <2>2, <3>1, <3>2
    <2> QED
      BY <2>1, <2>3, <2>4 DEF Granted
  <1> QED
    BY <1>1, IntakeInvariant, PTL

\* A conforming request has at most one entry for each name, and the same one
\* for each server.
LEMMA OneGiver ==
  ASSUME Conforming, given \in Situation, NEW k \in Kinds, NEW l \in Kinds, NEW n \in Names
  PROVE  /\ Givers(k, n) = Givers(l, n)
         /\ \A d, e \in Givers(k, n) : d = e
  <1>1. DOMAIN given.files \subseteq Names \/ DOMAIN given.files \subseteq {"a/x", "y"}
    BY DEF Conforming
  <1>2. \A key \in DOMAIN given.files : Decodes(k, key) /\ Decodes(l, key)
    BY DEF Conforming, Decodes, Decodable, Kinds
  <1>3. CASE DOMAIN given.files \subseteq Names
    <2>1. \A key \in DOMAIN given.files : BaseOf(k, key) = key /\ BaseOf(l, key) = key
      BY <1>3 DEF BaseOf
    <2> QED
      BY <1>2, <2>1 DEF Givers
  <1>4. CASE DOMAIN given.files \subseteq {"a/x", "y"}
    <2>1. \A key \in DOMAIN given.files :
            LET name == IF key = "y" THEN "y" ELSE "x"
            IN  BaseOf(k, key) = name /\ BaseOf(l, key) = name
      BY <1>4 DEF BaseOf, Names
    <2> QED
      BY <1>2, <1>4, <2>1 DEF Givers
  <1> QED
    BY <1>1, <1>3, <1>4

\* Settings that an int can hold are read alike.
LEMMA SettingsAlike ==
  ASSUME NEW raw \in Ints \cup {Unset}, NEW k, NEW l, NEW builtin
  PROVE  Setting(k, raw, builtin) = Setting(l, raw, builtin)
BY DEF Setting

\* So is a size that is not negative.
LEMMA SizesAlike ==
  ASSUME NEW raw, raw = Unset \/ raw \in 0..2047, NEW k \in Kinds, NEW l \in Kinds
  PROVE  Count(k, raw, 4) = Count(l, raw, 4) /\ Count(k, raw, 4) \in 0..2047
  <1>1. CASE raw = Unset
    BY <1>1 DEF Count, Setting
  <1>2. CASE raw \in 0..2047
    <2>1. raw \in Int /\ ~(raw < 0) /\ raw \in Ints
      BY <1>2, Widths DEF Ints
    <2>2. raw # Unset
      BY <2>1, UnsetIsNoNumber, Zenon
    <2> QED
      BY <1>2, <2>1, <2>2 DEF Count, Setting
  <1> QED
    BY <1>1, <1>2

\* A server that is through with a conforming request has launched it.
LEMMA ConformingLaunched ==
  ASSUME IInv, Conforming, NEW k \in Kinds, Over(k)
  PROVE  Launched(k)
  <1>1. \A key \in DOMAIN given.files : Decodes(k, key) /\ BaseOf(k, key) # NoName
    BY DEF Conforming, Decodes, Decodable, Kinds, BaseOf, Names, NoName
  <1>2. ~Reason(k)
    BY <1>1 DEF Reason, Conforming
  <1> QED
    BY <1>2 DEF IInv, Progress, Over, Launched

\* A server that is through with a request with one flaw that it looks for has
\* refused it for that flaw.
LEMMA FlawIsFound ==
  ASSUME IInv, NEW k \in Kinds, Over(k), NEW flaw \in CommonFlaws, given.flaws = {flaw}
  PROVE  step[k] = "refused" /\ status[k] = StatusOf(k, flaw)
  <1>1. \E i \in DOMAIN Checks[k] : flaw \in Checks[k][i]
    <2>1. CASE k = "go"
      <3>1. Checks[k] = <<{"token"}, {"method"}, {"size"}, {"json", "shape"}, {"network"},
                          {"slot"}>>
        BY <2>1 DEF Checks
      <3> QED
        BY <3>1 DEF CommonFlaws
    <2>2. CASE k = "rust"
      <3>1. Checks[k] = <<{"token"}, {"method"}, {"type"}, {"size"}, {"json", "shape", "code"},
                          {"network", "blank"}, {"slot"}>>
        BY <2>2 DEF Checks
      <3> QED
        BY <3>1 DEF CommonFlaws
    <2>3. CASE k = "dotnet"
      <3>1. Checks[k] = <<{"token"}, {"method"}, {"type"}, {"size"}, {"json", "shape"},
                          {"slot"}>>
        BY <2>3 DEF Checks
      <3> QED
        BY <3>1 DEF CommonFlaws
    <2> QED
      BY <2>1, <2>2, <2>3 DEF Kinds
  <1>2. ~Passed(k)
    BY <1>1 DEF Passed
  <1>3. step[k] = "refused" /\ Reason(k)
    BY <1>2 DEF IInv, Progress, Over
  <1> QED
    BY <1>2, <1>3 DEF Reason

\* The three servers are one interface: conforming requests are launched alike
\* and flawed ones refused alike, in whatever order maps are walked.
THEOREM ServersAlwaysAgree == Spec => []ServersAgree
  <1>1. IInv => ServersAgree
    <2> SUFFICES ASSUME IInv, \A k \in Kinds : Over(k), NEW k \in Kinds, NEW l \in Kinds
                 PROVE  /\ Conforming =>
                             /\ Launched(k) /\ input[k] = input[l]
                             /\ {given.def, given.max} \subseteq Ints \cup {Unset}
                                  => grant[k].limit = grant[l].limit
                             /\ given.width = 1 /\ given.log \in 0..2047 \cup {Unset}
                                  => grant[k].log = grant[l].log
                        /\ \A flaw \in CommonFlaws : given.flaws = {flaw} =>
                             /\ step[k] = "refused"
                             /\ flaw = "shape" \/ status[k] = status[l]
      BY DEF ServersAgree
    <2>1. ASSUME Conforming
          PROVE  Launched(k) /\ Launched(l)
      BY <2>1, ConformingLaunched
    <2>2. ASSUME Conforming
          PROVE  input[k] = input[l]
      <3>1. \A n \in Names : input[k][n] = input[l][n]
        <4> SUFFICES ASSUME NEW n \in Names PROVE input[k][n] = input[l][n]
          OBVIOUS
        <4>1. ASSUME NEW m \in {k, l}
              PROVE  \/ input[m][n] \in Givers(m, n)
                     \/ input[m][n] = Absent /\ Givers(m, n) = {}
          BY <4>1, <2>1, <2>2 DEF IInv, Progress, Placed, Launched, Conforming
        <4> QED
          BY <4>1, <2>2, OneGiver DEF IInv, TypeOK
      <3>2. input[k] \in [Names -> Keys \cup {Absent, Torn}]
            /\ input[l] \in [Names -> Keys \cup {Absent, Torn}]
        BY DEF IInv, TypeOK
      <3> QED
        BY <3>1, <3>2
    <2>3. ASSUME Conforming
          PROVE  /\ {given.def, given.max} \subseteq Ints \cup {Unset}
                      => grant[k].limit = grant[l].limit
                 /\ given.width = 1 /\ given.log \in 0..2047 \cup {Unset}
                      => grant[k].log = grant[l].log
      <3>1. grant[k] = Granted(k) /\ grant[l] = Granted(l)
        BY <2>1, <2>3 DEF IInv, Progress, Launched
      <3>2. ASSUME {given.def, given.max} \subseteq Ints \cup {Unset}
            PROVE  Default(k) = Default(l) /\ Maximum(k) = Maximum(l)
        BY <3>2, SettingsAlike DEF Default, Maximum
      <3>3. ASSUME given.width = 1, given.log \in 0..2047 \cup {Unset}
            PROVE  LogCap(k, LogMB(k), given.width) = LogCap(l, LogMB(l), given.width)
        <4>1. LogMB(k) = LogMB(l) /\ LogMB(k) \in 0..2047
          BY <3>3, SizesAlike DEF LogMB
        <4> QED
          BY <3>3, <4>1, LogCapsAgree
      <3> QED
        BY <3>1, <3>2, <3>3 DEF Granted
    <2>4. ASSUME NEW flaw \in CommonFlaws, given.flaws = {flaw}, NEW m \in Kinds, Over(m)
          PROVE  step[m] = "refused" /\ status[m] = StatusOf(m, flaw)
      BY <2>4, FlawIsFound
    <2>5. ASSUME NEW flaw \in CommonFlaws \ {"shape"}
          PROVE  StatusOf(k, flaw) = StatusOf(l, flaw)
      BY <2>5 DEF StatusOf
    <2> QED
      BY <2>1, <2>2, <2>3, <2>4, <2>5
  <1> QED
    BY <1>1, IntakeInvariant, PTL
=============================================================================
