--------------------------------- MODULE Egress --------------------------------
(***************************************************************************)
(* egress.py: no value of the policy's secret files leaves in a request.   *)
(* find walks every string of a request's parameters and looks, in each    *)
(* one, for the value, its hex and the part of its base64 that does not    *)
(* depend on what surrounds it.  Parameters are a graph: JSON nests, and   *)
(* one object may hold another twice, or itself.                           *)
(*                                                                         *)
(* A string is told by what it holds: a value in some spelling, `before`   *)
(* other bytes ahead of it and `after` behind, percent-encoded `quoted`    *)
(* times.                                                                  *)
(***************************************************************************)
EXTENDS Integers, Sequences

CONSTANTS Secrets, Bytes,       \* the values of the secret files, and their lengths
          Texts,                \* the strings in requests
          Containers,           \* dicts and lists, by identity
          Skipped,              \* booleans and None
          Requests,             \* parameters: a root, and what every container holds
          MaxScanChars          \* MAX_SCAN_CHARS

VARIABLES secrets,              \* those of the policy's secret_files
          params,               \* the parameters being looked through
          stack, seen, total,   \* strings: items to visit, containers visited, characters
          passed,               \* history: strings looked at
          stage

walk == <<stack, seen, total, passed>>
vars == <<secrets, params, walk, stage>>

MinLength == 8
Forms == {"plain", "hex", "base64", "reversed"}
Items == Texts \cup Containers \cup Skipped

ASSUME EgressAssumption ==
    /\ Bytes \in [Secrets -> Nat]
    /\ Texts \subseteq [secret : Secrets, form : Forms, before : Nat, after : Nat,
                        quoted : Nat, number : BOOLEAN]
    /\ Texts \cap Containers = {} /\ Texts \cap Skipped = {} /\ Containers \cap Skipped = {}
    /\ Requests \subseteq [root : Items, holds : [Containers -> Seq(Items)]]
    /\ MaxScanChars \in Nat

-----------------------------------------------------------------------------
(* Spellings of a value of n bytes. *)

Outside == -1

(* Base64 of the bytes from..to-1 of a string with the value at byte `at`: the bits of the
   value that each character stands for. *)
Encoded(at, n, from, to) ==
    [k \in from..(to - 1) |-> [b \in 0..5 |->
        IF 6 * k + b \in (8 * at)..(8 * (at + n) - 1) THEN 6 * k + b - 8 * at ELSE Outside]]

(* Mutant of Start: a character shared with what comes before counts as the value's. *)
StartShared(offset) == (8 * offset) \div 6

Start(offset) == (8 * offset + 5) \div 6
End(offset, n) == (8 * (offset + n)) \div 6

(* The part of the base64 of the value behind `offset` bytes that spellings keeps. *)
Core(offset, n) == Encoded(offset, n, Start(offset), End(offset, n))

(* The core, at character c of the base64 that the string is. *)
CoreAt(offset, t, c) ==
    LET n     == Bytes[t.secret]
        size  == End(offset, n) - Start(offset)
        chars == (8 * (t.before + n + t.after) + 5) \div 6
        text  == Encoded(t.before, n, 0, chars)
    IN /\ size >= MinLength
       /\ c + size <= chars
       /\ \A k \in 0..(size - 1), b \in 0..5 :
             /\ text[c + k][b] # Outside
             /\ text[c + k][b] = Core(offset, n)[Start(offset) + k][b]

(* The string as it is, and decoded once and twice. *)
Candidates(t) == {t.quoted, IF t.quoted > 0 THEN t.quoted - 1 ELSE 0,
                  IF t.quoted > 1 THEN t.quoted - 2 ELSE 0}

Finds(t) ==
    /\ t.secret \in secrets /\ Bytes[t.secret] >= MinLength
    /\ 0 \in Candidates(t)
    /\ \/ t.form \in {"plain", "hex"}
       \/ /\ t.form = "base64"
          /\ \E offset \in 0..2, c \in 0..(2 * (t.before + Bytes[t.secret])) : CoreAt(offset, t, c)

-----------------------------------------------------------------------------
(* strings, find: the walk, one item at a time. *)

Init ==
    /\ secrets \in SUBSET Secrets
    /\ params \in Requests
    /\ stack = <<params.root>> /\ seen = {} /\ total = 0 /\ passed = {}
    /\ stage = IF secrets = {} THEN "clean" ELSE "scanning"

Top == stack[Len(stack)]
Rest == SubSeq(stack, 1, Len(stack) - 1)

(* Only what is a string in the request counts, not a number. *)
Size(t) == IF t.number THEN 0 ELSE t.before + Bytes[t.secret] + t.after

TakeString ==
    /\ stage = "scanning" /\ stack # <<>> /\ Top \in Texts
    /\ total' = total + Size(Top)
    /\ IF total' > MaxScanChars
       THEN stage' = "too large" /\ UNCHANGED <<stack, passed>>
       ELSE /\ stack' = Rest /\ passed' = passed \cup {Top}
            /\ stage' = IF Finds(Top) THEN "found" ELSE stage
    /\ UNCHANGED <<secrets, params, seen>>

(* Mutant of Visited: containers are not remembered. *)
VisitedNone == {}

Visited == seen

Skip ==
    /\ stage = "scanning" /\ stack # <<>> /\ Top \in Skipped \cup Visited
    /\ stack' = Rest
    /\ UNCHANGED <<secrets, params, seen, total, passed, stage>>

Open ==
    /\ stage = "scanning" /\ stack # <<>> /\ Top \in Containers \ Visited
    /\ seen' = seen \cup {Top}
    /\ stack' = Rest \o params.holds[Top]
    /\ UNCHANGED <<secrets, params, total, passed, stage>>

Finish ==
    /\ stage = "scanning" /\ stack = <<>>
    /\ stage' = "clean"
    /\ UNCHANGED <<secrets, params, walk>>

Next == TakeString \/ Skip \/ Open \/ Finish

Spec == Init /\ [][Next]_vars /\ WF_vars(Next)

-----------------------------------------------------------------------------
(* Properties. *)

Elems(s) == {s[i] : i \in DOMAIN s}

TypeOK ==
    /\ secrets \subseteq Secrets /\ params \in Requests
    /\ stack \in Seq(Items) /\ seen \subseteq Containers /\ passed \subseteq Texts
    /\ total \in Nat
    /\ stage \in {"scanning", "found", "too large", "clean"}

(* What a request holds: its root, and all that is in a container that every set has which
   has the root and, with a container, the containers in it. *)
Closed(S) ==
    /\ {params.root} \cap Containers \subseteq S
    /\ \A c \in S : Elems(params.holds[c]) \cap Containers \subseteq S
Reached == {c \in Containers : \A S \in SUBSET Containers : Closed(S) => c \in S}
Held == {params.root} \cup UNION {Elems(params.holds[c]) : c \in Reached}

(* "as written and percent-decoded once and twice [...], for the value itself and for its
   base64 (at any offset inside a longer encoded string) and hex" (egress.py 30-33). *)
Carries(t) ==
    /\ t.secret \in secrets /\ Bytes[t.secret] >= MinLength
    /\ t.form \in {"plain", "hex", "base64"} /\ t.quoted <= 2

(* A request is passed as free of secrets only if none of its strings, however deep, shared
   or in a loop, carries one in a spelling that is looked for, at any offset. *)
SecretStopped == stage = "clean" => \A t \in Held \cap Texts : ~Carries(t)

(* A request that holds itself is looked through all the same. *)
ScanEnds == <>(stage # "scanning")
=============================================================================
