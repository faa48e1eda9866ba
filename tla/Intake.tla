------------------------------- MODULE Intake -------------------------------
(***************************************************************************)
(* What the three servers make of one POST /run up to the start of its     *)
(* container.  They promise the same interface, so the same request is     *)
(* given to the three side by side: the checks each makes, in its order;   *)
(* the entries of input_files, which Go and Rust keep in a map and take in *)
(* any order and .NET in the order of the document, which is left open     *)
(* here; and the limits.  (What a run does from there on, and how it is    *)
(* undone, is in the modules of the servers.)                              *)
(***************************************************************************)
EXTENDS Limits

CONSTANT Situations \* the requests, each with what the servers meet it with

\* What may be wrong with a request, or in its way: "json" is a body that is no
\* JSON, "shape" one with a value that no server can take for its field (a
\* memory_mb of 1.5), "code" one without that field, "blank" an empty network,
\* "network" one that is not known, and "slot" a full semaphore.
Flaws == {"token", "method", "type", "size", "json", "shape", "code", "network",
          "blank", "slot"}

\* The names of input_files that behave differently, and the texts: base64,
\* base64 with blanks around it, with line breaks in it, with blanks in it, and
\* anything else.
Keys  == {"x", "y", "a/x", "x/", ".."}
Texts == {"good", "padded", "wrapped", "spaced", "bad"}
Names == {"x", "y"}
Files == UNION {[S -> Texts] : S \in SUBSET Keys}

Situation == [flaws : SUBSET Flaws, files : Files, ask : Int,
              def : Raw, max : Raw, log : Raw, width : 1..3, disk : {"ok", "full"}]
ASSUME SituationsKnown == Situations \subseteq Situation

VARIABLES
  given,  \* the request and what it meets
  step,   \* step[k]: "admit", "inputs", "refused" or "launched", at server k
  status, \* status[k]: the status k refuses it with, or 0
  todo,   \* todo[k]: the entries of input_files k has still to look at
  input,  \* input[k]: which entry each file of /input is from, or "torn"
  grant   \* grant[k]: the limits k gives the run

vars == <<given, step, status, todo, input, grant>>

Absent  == "absent"
Torn    == "torn"
NoName  == "none"
NoGrant == [limit |-> 0, log |-> 0]

Init ==
  /\ given \in Situations
  /\ step   = [k \in Kinds |-> "admit"]
  /\ status = [k \in Kinds |-> 0]
  /\ todo   = [k \in Kinds |-> DOMAIN given.files]
  /\ input  = [k \in Kinds |-> [n \in Names |-> Absent]]
  /\ grant  = [k \in Kinds |-> NoGrant]
-----------------------------------------------------------------------------
\* Mutant of Checks: .NET has no middleware that asks for the token.
ChecksNoToken ==
  [go     |-> <<{"token"}, {"method"}, {"size"}, {"json", "shape"}, {"network"}, {"slot"}>>,
   rust   |-> <<{"token"}, {"method"}, {"type"}, {"size"}, {"json", "shape", "code"},
                {"network", "blank"}, {"slot"}>>,
   dotnet |-> <<{"method"}, {"type"}, {"size"}, {"json", "shape"}, {"slot"}>>]

\* The checks of each server in their order, with the flaws that each finds: of
\* several in the body the one that comes first there, which is left open.  Only
\* Rust misses a code; an empty network is "offline" to Go; .NET looks at
\* neither the code nor the network.
Checks ==
  [go     |-> <<{"token"}, {"method"}, {"size"}, {"json", "shape"}, {"network"}, {"slot"}>>,
   rust   |-> <<{"token"}, {"method"}, {"type"}, {"size"}, {"json", "shape", "code"},
                {"network", "blank"}, {"slot"}>>,
   dotnet |-> <<{"token"}, {"method"}, {"type"}, {"size"}, {"json", "shape"}, {"slot"}>>]

StatusOf(k, flaw) ==
  IF flaw = "shape" /\ k = "rust" THEN 422
  ELSE [token |-> 401, method |-> 405, type |-> 415, size |-> 413, json |-> 400,
        shape |-> 400, code |-> 422, network |-> 400, blank |-> 400, slot |-> 429][flaw]

Refused(k, code) ==
  /\ step' = [step EXCEPT ![k] = "refused"]
  /\ status' = [status EXCEPT ![k] = code]
  /\ UNCHANGED <<given, todo, input, grant>>

\* The first check that fails gives the answer.
Refuse(k) ==
  /\ step[k] = "admit"
  /\ \E i \in DOMAIN Checks[k] : \E flaw \in Checks[k][i] \cap given.flaws :
       /\ \A j \in 1..(i - 1) : Checks[k][j] \cap given.flaws = {}
       /\ Refused(k, StatusOf(k, flaw))

Admit(k) ==
  /\ step[k] = "admit"
  /\ \A i \in DOMAIN Checks[k] : Checks[k][i] \cap given.flaws = {}
  /\ step' = [step EXCEPT ![k] = "inputs"]
  /\ UNCHANGED <<given, status, todo, input, grant>>
-----------------------------------------------------------------------------
\* filepath.Base, Path::file_name and Path.GetFileName: the last component.
\* A trailing slash is no name to .NET; ".." is a name to none of them, or
\* that of a directory, which cannot be written.
BaseOf(k, key) == IF key \in Names THEN key
                  ELSE IF key = "a/x" \/ (key = "x/" /\ k # "dotnet") THEN "x"
                  ELSE NoName

\* The texts that each decodes.  Rust and .NET trim a text before; the decoder
\* of Go passes over line breaks, that of .NET over all blanks.
Decodable == [go     |-> {"good", "wrapped"},
              rust   |-> {"good", "padded"},
              dotnet |-> {"good", "padded", "wrapped", "spaced"}]
Decodes(k, key) == given.files[key] \in Decodable[k]

Take(k, key) ==
  /\ step[k] = "inputs" /\ key \in todo[k]
  /\ todo' = [todo EXCEPT ![k] = @ \ {key}]

\* The entry is decoded and written, over another of its name if there is one.
Write(k, key) ==
  /\ Take(k, key)
  /\ Decodes(k, key) /\ BaseOf(k, key) # NoName
  /\ input' = [input EXCEPT ![k][BaseOf(k, key)] = key]
  /\ UNCHANGED <<given, step, status, grant>>

\* An entry that does not decode, or has no name to be written under.  Rust
\* and .NET leave it out.
Skip(k, key) ==
  /\ k # "go"
  /\ Take(k, key)
  /\ ~Decodes(k, key) \/ BaseOf(k, key) = NoName
  /\ UNCHANGED <<given, step, status, input, grant>>

\* Go refuses the request for it; the text is looked at first.
Reject(k, key) ==
  /\ k = "go" /\ step[k] = "inputs" /\ key \in todo[k]
  /\ ~Decodes(k, key) \/ BaseOf(k, key) = NoName
  /\ Refused(k, IF Decodes(k, key) THEN 500 ELSE 400)

\* What a write that fails leaves of a file: what was there, or a part.
LeftBy(k, key) ==
  \E rest \in {input[k][BaseOf(k, key)], Torn} :
    input' = [input EXCEPT ![k][BaseOf(k, key)] = rest]

\* Mutant of WriteFails: Go goes on as well.
WriteFailsUnseen(k, key) ==
  /\ given.disk = "full"
  /\ Decodes(k, key) /\ BaseOf(k, key) # NoName
  /\ Take(k, key) /\ LeftBy(k, key)
  /\ UNCHANGED <<given, step, status, grant>>

\* No room on the disk: Go refuses, Rust and .NET go on without the file.
WriteFails(k, key) ==
  /\ given.disk = "full"
  /\ Decodes(k, key) /\ BaseOf(k, key) # NoName
  /\ Take(k, key) /\ LeftBy(k, key)
  /\ IF k = "go"
     THEN /\ step' = [step EXCEPT ![k] = "refused"]
          /\ status' = [status EXCEPT ![k] = 500]
     ELSE UNCHANGED <<step, status>>
  /\ UNCHANGED <<given, grant>>
-----------------------------------------------------------------------------
\* The settings, with their built-in values.
Default(k) == Setting(k, given.def, 1024)
Maximum(k) == Setting(k, given.max, 2048)
LogMB(k) == Count(k, given.log, 4)

\* The podman command is put together and started.
Launch(k) ==
  /\ step[k] = "inputs" /\ todo[k] = {}
  /\ step' = [step EXCEPT ![k] = "launched"]
  /\ grant' = [grant EXCEPT ![k] = [limit |-> Clamp(given.ask, Default(k), Maximum(k)),
                                    log   |-> LogCap(k, LogMB(k), given.width)]]
  /\ UNCHANGED <<given, status, todo, input>>

Over(k) == step[k] \in {"refused", "launched"}
Terminated == (\A k \in Kinds : Over(k)) /\ UNCHANGED vars

Next == \/ \E k \in Kinds :
             \/ Refuse(k) \/ Admit(k) \/ Launch(k)
             \/ \E key \in DOMAIN given.files :
                  Write(k, key) \/ Skip(k, key) \/ Reject(k, key) \/ WriteFails(k, key)
        \/ Terminated

Spec == Init /\ [][Next]_vars
-----------------------------------------------------------------------------
\* Every variable stays in its domain.
TypeOK ==
  /\ given \in Situation
  /\ step   \in [Kinds -> {"admit", "inputs", "refused", "launched"}]
  /\ status \in [Kinds -> {0, 400, 401, 405, 413, 415, 422, 429, 500}]
  /\ todo   \in [Kinds -> SUBSET Keys]
  /\ input  \in [Kinds -> [Names -> Keys \cup {Absent, Torn}]]
  /\ grant  \in [Kinds -> [limit : Int, log : Int]]

Launched(k) == step[k] = "launched"

\* The entries of the request that server k writes under name n.
Givers(k, n) == {key \in DOMAIN given.files : Decodes(k, key) /\ BaseOf(k, key) = n}

\* A launched run has in /input, under each name, one of the entries of that
\* name, whole, and nothing that the request did not give; if the disk was
\* full, Rust and .NET may have less.  Go launches no run without all of its
\* input, save entries that another of the same name has replaced.
InputsPlaced == \A k \in Kinds : Launched(k) =>
  /\ \A n \in Names :
       \/ input[k][n] \in Givers(k, n)
       \/ input[k][n] = Absent /\ Givers(k, n) = {}
       \/ given.disk = "full" /\ k # "go" /\ Givers(k, n) # {}
            /\ input[k][n] \in {Absent, Torn}
  /\ k = "go" => \A key \in DOMAIN given.files : key \in Givers(k, BaseOf(k, key))

\* As README.md:195-208 asks for it: nothing wrong, plain base64, and names
\* that stay apart.
Conforming ==
  /\ given.flaws = {} /\ given.disk = "ok"
  /\ \A key \in DOMAIN given.files : given.files[key] = "good"
  /\ DOMAIN given.files \subseteq Names \/ DOMAIN given.files \subseteq {"a/x", "y"}

\* The flaws that all three look for.
CommonFlaws == {"token", "method", "size", "json", "shape", "slot"}

\* README.md:195: one interface.  Two servers launch a conforming request with
\* the same input and, as long as the settings are 32-bit numbers, the same
\* limits; the same of an ASCII stream is kept by each below 2 GB.  They refuse
\* a request that has a single flaw all three look for with the same status, but
\* for a value of the wrong type (422 in Rust, 400 in the others).
ServersAgree ==
  (\A k \in Kinds : Over(k)) => \A k, l \in Kinds :
    /\ Conforming =>
         /\ Launched(k) /\ input[k] = input[l]
         /\ {given.def, given.max} \subseteq Ints \cup {Unset} => grant[k].limit = grant[l].limit
         /\ given.width = 1 /\ given.log \in 0..2047 \cup {Unset} => grant[k].log = grant[l].log
    /\ \A flaw \in CommonFlaws : given.flaws = {flaw} =>
         /\ step[k] = "refused"
         /\ flaw = "shape" \/ status[k] = status[l]

\* README.md:207: memory_mb is "clamped to (0, SANDBOX_MAX_MEMORY_MB]", "never
\* unlimited", whatever a request asks for, if the server has read positive
\* numbers; and README.md:175: of a stream no server keeps more than it has read
\* as the cap - which are bytes in two, and in .NET units of width bytes.
LimitsEnforced == \A k \in Kinds : Launched(k) =>
  /\ Default(k) > 0 /\ Maximum(k) > 0 => grant[k].limit \in 1..Maximum(k)
  /\ LogMB(k) >= 0 => grant[k].log <= LogMB(k) * (IF k = "dotnet" THEN given.width ELSE 1)
=============================================================================
