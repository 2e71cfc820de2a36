----------------------------- MODULE ReadersProofs -----------------------------
(***************************************************************************)
(* Proofs about what the firewall makes of the text of a request, and what *)
(* is made of it afterwards (Readers).                                     *)
(*                                                                         *)
(* The walk for secrets, for values of any length, any strings and any     *)
(* graph of containers, finite or not: the arithmetic of base64 says that  *)
(* a value which is carried is found in its string, and the invariant of   *)
(* the walk that no string is left out.                                    *)
(*                                                                         *)
(* The readers, for lines, argvs, words and URLs of any length: each       *)
(* reader is a function of how far it has come, and two readers of a text  *)
(* agree at its end because they agree behind every character.  That rests *)
(* on induction over a set (Induction), which Nat's well-foundedness gives.*)
(***************************************************************************)
EXTENDS Readers, WellFoundedInduction, SequenceTheorems, TLAPS

-----------------------------------------------------------------------------
(* What a request holds. *)

(* What the walk has not forgotten. *)
Accounted == Elems(stack) \cup seen \cup passed \cup Skipped

WalkInv ==
    /\ params.root \in Accounted
    /\ \A c \in seen : Elems(params.holds[c]) \subseteq Accounted
    /\ stage \in {"scanning", "clean"} => \A t \in passed : ~Finds(t)
    /\ stage = "clean" => secrets = {} \/ stack = <<>>

IInv == TypeOK /\ WalkInv

-----------------------------------------------------------------------------
(* The base64 of a value behind `before` bytes is, from a whole group of three bytes on,
   that of the value behind before % 3. *)

LEMMA OffsetInGroup ==
  ASSUME NEW before \in Nat
  PROVE  /\ before \div 3 \in Nat /\ before % 3 \in 0..2
         /\ before = 3 * (before \div 3) + (before % 3)
  OBVIOUS

(* The core is made of bits of the value only, and of enough characters. *)
LEMMA CoreIsInside ==
  ASSUME NEW n \in Nat, n >= MinLength, NEW offset \in 0..2
  PROVE  /\ Start(offset) \in 0..3 /\ End(offset, n) \in Nat
         /\ End(offset, n) - Start(offset) >= MinLength
         /\ 8 * offset <= 6 * Start(offset)
         /\ 6 * End(offset, n) <= 8 * (offset + n)
<1>1. CASE offset = 0 BY <1>1 DEF MinLength, Start, End
<1>2. CASE offset = 1 BY <1>2 DEF MinLength, Start, End
<1>3. CASE offset = 2 BY <1>3 DEF MinLength, Start, End
<1> QED BY <1>1, <1>2, <1>3

LEMMA CoreFits ==
  ASSUME NEW n \in Nat, NEW after \in Nat, NEW q \in Nat, NEW offset \in 0..2,
         NEW before \in Nat, before = 3 * q + offset
  PROVE  /\ (8 * (before + n + after) + 5) \div 6 \in Nat
         /\ 4 * q + End(offset, n) <= (8 * (before + n + after) + 5) \div 6
  BY DEF End

(* The characters of the core, in the text of a string with q groups before. *)
LEMMA CoreIsThere ==
  ASSUME NEW n \in Nat, n >= MinLength, NEW q \in Nat, NEW offset \in 0..2, NEW chars \in Nat,
         4 * q + End(offset, n) <= chars,
         NEW k \in 0..(End(offset, n) - Start(offset) - 1), NEW b \in 0..5
  PROVE  LET base == Encoded(3 * q + offset, n, 0, chars) IN
         /\ base[4 * q + Start(offset) + k][b] # Outside
         /\ base[4 * q + Start(offset) + k][b] = Core(offset, n)[Start(offset) + k][b]
<1> DEFINE start == Start(offset)
           end == End(offset, n)
           before == 3 * q + offset
           place == 6 * (start + k) + b
<1>1. start \in 0..3 /\ end \in Nat /\ 8 * offset <= 6 * start /\ 6 * end <= 8 * (offset + n)
  BY CoreIsInside
<1> HIDE DEF start, end
<1>2. 4 * q + end <= chars /\ k \in 0..(end - start - 1)
  BY DEF start, end
<1>3. 4 * q + start + k \in 0..(chars - 1) /\ start + k \in start..(end - 1)
  BY <1>1, <1>2
<1>4. place \in (8 * offset)..(8 * (offset + n) - 1)
  BY <1>1, <1>2
<1>5. 6 * (4 * q + start + k) + b = 24 * q + place /\ 8 * before = 24 * q + 8 * offset
  BY <1>1, <1>2
<1>6. 6 * (4 * q + start + k) + b \in (8 * before)..(8 * (before + n) - 1)
  BY <1>1, <1>2, <1>4, <1>5
<1>7. Encoded(before, n, 0, chars)[4 * q + start + k][b] = 6 * (4 * q + start + k) + b - 8 * before
  BY <1>3, <1>6 DEF Encoded
<1>8. Core(offset, n)[start + k][b] = place - 8 * offset
  BY <1>3, <1>4 DEF Core, Encoded, start, end
<1> HIDE DEF before, place
<1>9. /\ 6 * (4 * q + start + k) + b - 8 * before = place - 8 * offset
      /\ place - 8 * offset # Outside
  <2>1. place \in Int /\ before \in Int /\ place >= 8 * offset
    BY <1>1, <1>2, <1>4 DEF place, before
  <2> QED BY <1>1, <1>2, <1>5, <2>1 DEF Outside
<1> QED BY <1>7, <1>8, <1>9 DEF start, before

(* A value in base64 is found, wherever it stands in its string. *)
LEMMA CoreIsFound ==
  ASSUME NEW t \in Texts, Bytes[t.secret] >= MinLength
  PROVE  \E offset \in 0..2, c \in 0..(2 * (t.before + Bytes[t.secret])) : CoreAt(offset, t, c)
<1>1. Bytes[t.secret] \in Nat /\ t.before \in Nat /\ t.after \in Nat
  BY EgressAssumption
<1>2. PICK q \in Nat, offset \in 0..2 : t.before = 3 * q + offset
  BY <1>1, OffsetInGroup
<1> DEFINE n == Bytes[t.secret]
           c == 4 * q + Start(offset)
           chars == (8 * (t.before + n + t.after) + 5) \div 6
<1>3. /\ Start(offset) \in 0..3 /\ End(offset, n) \in Nat
      /\ End(offset, n) - Start(offset) >= MinLength
  BY <1>1, CoreIsInside
<1>4. chars \in Nat /\ 4 * q + End(offset, n) <= chars
  BY <1>1, <1>2, CoreFits
<1>5. \A k \in 0..(End(offset, n) - Start(offset) - 1), b \in 0..5 :
         /\ Encoded(t.before, n, 0, chars)[c + k][b] # Outside
         /\ Encoded(t.before, n, 0, chars)[c + k][b] = Core(offset, n)[Start(offset) + k][b]
  BY <1>1, <1>2, <1>4, CoreIsThere, SMTT(30)
<1>6. c + (End(offset, n) - Start(offset)) <= chars
  <2> HIDE DEF n, chars
  <2> QED BY <1>2, <1>3, <1>4
<1>7. c \in 0..(2 * (t.before + n))
  <2>1. n \in Nat /\ n >= 8
    BY <1>1 DEF MinLength
  <2> HIDE DEF n
  <2> QED BY <1>1, <1>2, <1>3, <2>1
<1>8. CoreAt(offset, t, c)
  BY <1>3, <1>5, <1>6 DEF CoreAt
<1> QED BY <1>7, <1>8

(* What egress.py says is looked for is found. *)
LEMMA CarriedIsFound ==
  ASSUME NEW t \in Texts, Carries(t)
  PROVE  Finds(t)
<1>1. t.quoted \in Nat
  BY EgressAssumption
<1>2. 0 \in Candidates(t)
  BY <1>1 DEF Carries, Candidates
<1>3. CASE t.form = "base64"
  BY <1>2, <1>3, CoreIsFound DEF Carries, Finds
<1> QED BY <1>2, <1>3 DEF Carries, Finds

-----------------------------------------------------------------------------
(* Sequences as the walk uses them. *)

LEMMA TopAndRest ==
  ASSUME NEW S, NEW s \in Seq(S), s # <<>>
  PROVE  /\ s[Len(s)] \in S
         /\ SubSeq(s, 1, Len(s) - 1) \in Seq(S)
         /\ Elems(s) = Elems(SubSeq(s, 1, Len(s) - 1)) \cup {s[Len(s)]}
<1>1. Len(s) \in Nat \ {0} /\ DOMAIN s = 1..Len(s)
  OBVIOUS
<1> DEFINE r == SubSeq(s, 1, Len(s) - 1)
<1>2. r \in Seq(S) /\ Len(r) = Len(s) - 1 /\ \A i \in 1..(Len(s) - 1) : r[i] = s[i]
  BY <1>1
<1>3. DOMAIN r = 1..(Len(s) - 1)
  BY <1>1, <1>2
<1> HIDE DEF r
<1>4. Elems(s) = Elems(r) \cup {s[Len(s)]}
  BY <1>1, <1>2, <1>3 DEF Elems
<1> QED BY <1>1, <1>2, <1>4 DEF r

LEMMA ElemsOfBoth ==
  ASSUME NEW S, NEW s \in Seq(S), NEW u \in Seq(S)
  PROVE  s \o u \in Seq(S) /\ Elems(s \o u) = Elems(s) \cup Elems(u)
<1> DEFINE v == s \o u
<1>1. v \in Seq(S) /\ Len(v) = Len(s) + Len(u) /\ Len(s) \in Nat /\ Len(u) \in Nat
  OBVIOUS
<1>2. DOMAIN s = 1..Len(s) /\ DOMAIN u = 1..Len(u) /\ DOMAIN v = 1..(Len(s) + Len(u))
  BY <1>1
<1>3. \A i \in 1..Len(s) : v[i] = s[i]
  OBVIOUS
<1>4. \A i \in 1..Len(u) : v[Len(s) + i] = u[i]
  OBVIOUS
<1>5. \A i \in DOMAIN v : i \in 1..Len(s) \/ (i - Len(s) \in 1..Len(u) /\ i = Len(s) + (i - Len(s)))
  BY <1>1, <1>2
<1> HIDE DEF v
<1>6. Elems(v) \subseteq Elems(s) \cup Elems(u)
  BY <1>2, <1>3, <1>4, <1>5 DEF Elems
<1>7. Elems(s) \cup Elems(u) \subseteq Elems(v)
  <2>1. \A i \in 1..Len(s) : i \in DOMAIN v
    BY <1>1, <1>2
  <2>2. \A i \in 1..Len(u) : Len(s) + i \in DOMAIN v
    BY <1>1, <1>2
  <2> QED BY <1>2, <1>3, <1>4, <2>1, <2>2 DEF Elems
<1> QED BY <1>1, <1>6, <1>7 DEF v

-----------------------------------------------------------------------------
(* Every step keeps the types, and forgets nothing of what it has to look at. *)

LEMMA InitIInv == Init => IInv
<1> SUFFICES ASSUME Init PROVE IInv
  OBVIOUS
<1>1. params.root \in Items /\ stack = <<params.root>> /\ params \in Requests
  BY EgressAssumption DEF Init
<1>2. stack \in Seq(Items) /\ Elems(stack) = {params.root}
  BY <1>1 DEF Elems
<1>3. TypeOK
  BY <1>1, <1>2 DEF Init, TypeOK
<1>4. WalkInv
  BY <1>2 DEF Init, WalkInv, Accounted
<1> QED BY <1>3, <1>4 DEF IInv

(* The top of the stack, and what is under it. *)
LEMMA StackTop ==
  ASSUME TypeOK, stack # <<>>
  PROVE  /\ Top \in Items /\ Rest \in Seq(Items)
         /\ Elems(stack) = Elems(Rest) \cup {Top}
  BY TopAndRest DEF TypeOK, Top, Rest

LEMMA SizeIsNat ==
  ASSUME NEW t \in Texts
  PROVE  Size(t) \in Nat
  BY EgressAssumption DEF Size

LEMMA NextIInv == IInv /\ [Next]_vars => IInv'
<1> SUFFICES ASSUME IInv, [Next]_vars PROVE IInv'
  OBVIOUS
<1> USE DEF IInv
<1>1. CASE TakeString
  <2>1. Top \in Texts /\ stack # <<>> /\ stage = "scanning" /\ UNCHANGED <<secrets, params, seen>>
    BY <1>1 DEF TakeString
  <2>2. total' \in Nat
    <3>1. Size(Top) \in Nat
      BY <2>1, SizeIsNat
    <3>2. total' = total + Size(Top) /\ total \in Nat
      BY <1>1 DEF TakeString, TypeOK
    <3> QED BY <3>1, <3>2
  <2>3. CASE stage' = "too large" /\ UNCHANGED <<stack, passed>>
    BY <2>1, <2>2, <2>3 DEF TypeOK, WalkInv, Accounted
  <2>4. CASE /\ stack' = Rest /\ passed' = passed \cup {Top}
             /\ stage' = IF Finds(Top) THEN "found" ELSE stage
    <3>1. TypeOK'
      BY <2>1, <2>2, <2>4, StackTop DEF TypeOK
    <3>2. Accounted' = Accounted
      BY <2>1, <2>4, StackTop DEF Accounted
    <3>3. \A t \in Texts : Finds(t)' = Finds(t)
      BY <2>1 DEF Finds, Candidates, CoreAt
    <3>4. stage' \in {"scanning", "clean"} => \A t \in passed' : ~Finds(t)'
      BY <2>1, <2>4, <3>3 DEF WalkInv, TypeOK
    <3> QED BY <2>1, <2>4, <3>1, <3>2, <3>4 DEF WalkInv
  <2> QED BY <1>1, <2>3, <2>4 DEF TakeString
<1>2. CASE Skip
  <2>1. /\ Top \in Skipped \cup seen /\ stack # <<>> /\ stack' = Rest
        /\ UNCHANGED <<secrets, params, seen, total, passed, stage>>
    BY <1>2 DEF Skip, Visited
  <2>2. TypeOK'
    BY <2>1, StackTop DEF TypeOK
  <2>3. Accounted' = Accounted
    BY <2>1, StackTop DEF Accounted
  <2> QED BY <1>2, <2>1, <2>2, <2>3 DEF WalkInv, Skip, Finds, Candidates, CoreAt
<1>3. CASE Open
  <2>1. /\ Top \in Containers /\ stack # <<>> /\ stage = "scanning"
        /\ seen' = seen \cup {Top} /\ stack' = Rest \o params.holds[Top]
        /\ UNCHANGED <<secrets, params, total, passed, stage>>
    BY <1>3 DEF Open
  <2>2. params.holds[Top] \in Seq(Items)
    BY <2>1, EgressAssumption DEF TypeOK
  <2>3. stack' \in Seq(Items) /\ Elems(stack') = Elems(Rest) \cup Elems(params.holds[Top])
    BY <2>1, <2>2, StackTop, ElemsOfBoth
  <2>4. TypeOK'
    BY <2>1, <2>3 DEF TypeOK
  <2>5. Accounted \cup Elems(params.holds[Top]) \subseteq Accounted'
    BY <2>1, <2>3, StackTop DEF Accounted
  <2> QED BY <2>1, <2>4, <2>5 DEF WalkInv, Finds, Candidates, CoreAt
<1>4. CASE Finish
  BY <1>4 DEF Finish, walk, TypeOK, WalkInv, Accounted, Finds, Candidates, CoreAt
<1>5. CASE UNCHANGED vars
  BY <1>5 DEF vars, walk, TypeOK, WalkInv, Accounted, Finds, Candidates, CoreAt
<1> QED BY <1>1, <1>2, <1>3, <1>4, <1>5 DEF Next

(* When the walk is over, all that the request holds has been passed or visited: the
   visited containers are a closed set, so nothing that can be reached is outside. *)
LEMMA NothingForgotten ==
  ASSUME IInv, stage = "clean", secrets # {}
  PROVE  Held \cap Texts \subseteq passed
<1>1. stack = <<>> /\ Elems(stack) = {}
  BY DEF IInv, WalkInv, Elems
<1>2. /\ params.root \in seen \cup passed \cup Skipped
      /\ \A c \in seen : Elems(params.holds[c]) \subseteq seen \cup passed \cup Skipped
  BY <1>1 DEF IInv, WalkInv, Accounted
<1>3. /\ seen \subseteq Containers /\ passed \subseteq Texts
      /\ Texts \cap Containers = {} /\ Texts \cap Skipped = {} /\ Containers \cap Skipped = {}
  BY EgressAssumption DEF IInv, TypeOK
<1>4. Closed(seen)
  BY <1>2, <1>3 DEF Closed
<1>5. Reached \subseteq seen
  BY <1>3, <1>4 DEF Reached
<1> QED BY <1>2, <1>3, <1>5 DEF Held

LEMMA Stopped == IInv => SecretStopped
<1> SUFFICES ASSUME IInv, stage = "clean", NEW t \in Held \cap Texts, Carries(t) PROVE FALSE
  BY DEF SecretStopped
<1>1. secrets # {}
  BY DEF Carries
<1>2. t \in passed
  BY <1>1, NothingForgotten
<1>3. ~Finds(t)
  BY <1>2 DEF IInv, WalkInv
<1> QED BY <1>3, CarriedIsFound

-----------------------------------------------------------------------------
(* The inductive invariant of the walk over a request's parameters (egress.py, strings). *)
THEOREM Invariance == Spec => []IInv
  BY InitIInv, NextIInv, PTL DEF Spec

(* The walk's variables keep their types, for any parameters. *)
THEOREM TypeCorrect == Spec => []TypeOK
<1>1. IInv => TypeOK
  BY DEF IInv
<1> QED BY <1>1, Invariance, PTL

(* No request is passed as free of secrets while one of its strings, at any depth, carries a
   secret value as it is, in hex or in base64 at any offset, percent-encoded up to
   twice: for any values, strings and containers (egress.py, find). *)
THEOREM NoSecretPasses == Spec => []SecretStopped
  BY Stopped, Invariance, PTL

-----------------------------------------------------------------------------
(* How far a reader has come. *)

(* Numbers have a least. *)
LEMMA LeastOf ==
  ASSUME NEW S \in SUBSET Nat, S # {}
  PROVE  \E i \in S : \A j \in S : i <= j
<1>1. PICK i \in S : \A j \in S : <<j, i>> \notin OpToRel(<, Nat)
  BY WFMin, NatLessThanWellFounded, Zenon
<1>2. \A j \in S : ~(j < i)
  BY <1>1, Zenon DEF OpToRel
<1> QED BY <1>2

(* A set that holds 0 and with each number the next holds them all. *)
LEMMA Induction ==
  ASSUME NEW S, 0 \in S, \A i \in Nat : i \in S => i + 1 \in S
  PROVE  Nat \subseteq S
<1> SUFFICES ASSUME Nat \ S # {} PROVE FALSE
  OBVIOUS
<1>1. PICK i \in Nat \ S : \A j \in Nat \ S : i <= j
  BY LeastOf
<1>2. i # 0 /\ i - 1 \in Nat /\ i - 1 \in S
  BY <1>1
<1> QED BY <1>1, <1>2

(* A reader's states along a text of n characters. *)
Reads(f, base, n, next) == f[0] = base /\ \A i \in 1..n : f[i] = next[<<f[i - 1], i>>]

(* Who computes each state from the one before it computes them all. *)
LEMMA Reading ==
  ASSUME NEW S, NEW base \in S, NEW n \in Nat, NEW next \in [S \X (1..n) -> S]
  PROVE  \E f \in [0..n -> S] : Reads(f, base, n, next)
<1> DEFINE Known(m) == \E f \in [0..m -> S] : Reads(f, base, m, next)
           All == {m \in Nat : m <= n => Known(m)}
<1>1. 0 \in All
  <2>1. [i \in 0..0 |-> base] \in [0..0 -> S] /\ Reads([i \in 0..0 |-> base], base, 0, next)
    BY DEF Reads
  <2> QED BY <2>1
<1>2. ASSUME NEW m \in Nat, m \in All PROVE m + 1 \in All
  <2> SUFFICES ASSUME m + 1 <= n PROVE Known(m + 1)
    OBVIOUS
  <2>1. PICK f \in [0..m -> S] : Reads(f, base, m, next)
    BY <1>2
  <2> DEFINE g == [i \in 0..(m + 1) |-> IF i = m + 1 THEN next[<<f[m], m + 1>>] ELSE f[i]]
  <2>2. <<f[m], m + 1>> \in S \X (1..n)
    OBVIOUS
  <2>3. g \in [0..(m + 1) -> S]
    BY <2>2
  <2>4. Reads(g, base, m + 1, next)
    <3>1. g[0] = base
      BY <2>1 DEF Reads
    <3>2. ASSUME NEW i \in 1..(m + 1) PROVE g[i] = next[<<g[i - 1], i>>]
      <4>1. CASE i = m + 1
        <5>1. g[m] = f[m] /\ g[m + 1] = next[<<f[m], m + 1>>] /\ i - 1 = m
          BY <4>1
        <5> HIDE DEF g
        <5> QED BY <4>1, <5>1
      <4>2. CASE i # m + 1
        <5>1. i \in 1..m /\ g[i] = f[i] /\ g[i - 1] = f[i - 1]
          BY <4>2
        <5> QED BY <2>1, <5>1 DEF Reads
      <4> QED BY <4>1, <4>2
    <3> HIDE DEF g
    <3> QED BY <3>1, <3>2 DEF Reads
  <2> QED BY <2>3, <2>4
<1> HIDE DEF All
<1>3. Nat \subseteq All
  BY <1>1, <1>2, Induction
<1> QED BY <1>3 DEF All

(* What holds of the start and is kept by every step holds to the end. *)
LEMMA UpTo ==
  ASSUME NEW n \in Nat, NEW S, 0 \in S, \A i \in 1..n : i - 1 \in S => i \in S
  PROVE  \A i \in 0..n : i \in S
<1> DEFINE T == {i \in Nat : i <= n => i \in S}
<1>1. 0 \in T
  OBVIOUS
<1>2. ASSUME NEW i \in Nat, i \in T PROVE i + 1 \in T
  <2>1. CASE i + 1 <= n
    <3>1. i + 1 \in 1..n /\ (i + 1) - 1 \in S
      BY <1>2, <2>1
    <3> QED BY <3>1
  <2> QED BY <2>1
<1> HIDE DEF T
<1>3. Nat \subseteq T
  BY <1>1, <1>2, Induction
<1> QED BY <1>3 DEF T

(* What holds of the end and is kept by every step back holds to the start. *)
LEMMA DownTo ==
  ASSUME NEW n \in Nat, NEW S, n \in S, \A i \in 1..n : i \in S => i - 1 \in S
  PROVE  \A i \in 0..n : i \in S
<1> DEFINE T == {k \in 0..n : n - k \in S}
<1>1. 0 \in T
  OBVIOUS
<1>2. ASSUME NEW k \in 1..n, k - 1 \in T PROVE k \in T
  <2>1. n - (k - 1) \in 1..n /\ n - (k - 1) - 1 = n - k /\ n - (k - 1) \in S
    BY <1>2
  <2> QED BY <2>1
<1> HIDE DEF T
<1>3. \A k \in 0..n : k \in T
  BY <1>1, <1>2, UpTo
<1>4. ASSUME NEW i \in 0..n PROVE i \in S
  <2>1. n - i \in 0..n /\ n - (n - i) = i
    OBVIOUS
  <2> QED BY <1>3, <2>1 DEF T
<1> QED BY <1>4

-----------------------------------------------------------------------------
(* A line, read by the scan, by shlex and by a shell. *)

Quotes == {Shell!Outside, Shell!Single, Shell!Double}
LookStates == [quote : Quotes, last : Shell!Chars, start : BOOLEAN, escaped : BOOLEAN, bad : BOOLEAN]
Strings == Seq(Shell!Chars)
ReadStates == [words : Seq(Strings), word : Strings, open : BOOLEAN,
               quote : Quotes, escaped : BOOLEAN, more : BOOLEAN]

(* The scan keeps the types of its state. *)
LEMMA LookType ==
  ASSUME NEW s \in LookStates, NEW c \in Shell!Chars
  PROVE  Shell!Look(s, c) \in LookStates
<1>1. Shell!Quoting(s, c) \in Quotes
  BY DEF LookStates, Quotes, Shell!Quoting
<1>2. Shell!Alive(s, c) \in BOOLEAN /\ Shell!Literal(s, c) \in BOOLEAN
  BY DEF Shell!Alive, Shell!Literal, LookStates
<1>3. Shell!Letter \in Shell!Chars
  BY DEF Shell!Chars
<1> QED BY <1>1, <1>2, <1>3 DEF Shell!Look, LookStates

(* So do the steps of the readers that make words. *)
LEMMA PutType ==
  ASSUME NEW r \in ReadStates, NEW cs \in Strings
  PROVE  Shell!Put(r, cs) \in ReadStates
<1>1. r.word \o cs \in Strings
  BY DEF ReadStates, Strings
<1> QED BY <1>1 DEF ReadStates, Shell!Put

LEMMA EndType ==
  ASSUME NEW r \in ReadStates
  PROVE  Shell!EndWord(r) \in ReadStates
<1>1. <<>> \in Strings
  BY DEF Strings
<1>2. Append(r.words, r.word) \in Seq(Strings)
  BY DEF ReadStates
<1> QED BY <1>1, <1>2 DEF ReadStates, Shell!EndWord

LEMMA PlainType ==
  ASSUME NEW r \in ReadStates, NEW c \in Shell!Chars
  PROVE  Shell!Plain(r, c) \in ReadStates
<1>0. <<c>> \in Strings
  BY DEF Strings
<1>1. Shell!Put(r, <<c>>) \in ReadStates /\ Shell!EndWord(r) \in ReadStates
  BY <1>0, PutType, EndType
<1>2. CASE r.quote = c
  BY <1>2 DEF ReadStates, Shell!Plain, Quotes, Shell!Outside, Shell!Blank, Shell!Single, Shell!Double,
              Shell!Backslash
<1>3. CASE r.quote # c /\ c \in {Shell!Single, Shell!Double}
  BY <1>1, <1>3 DEF ReadStates, Shell!Plain, Quotes, Shell!Blank, Shell!Single, Shell!Double, Shell!Backslash
<1>4. CASE r.quote # c /\ c \notin {Shell!Single, Shell!Double}
  <2> DEFINE chosen == Shell!Plain(r, c)
  <2>1. chosen \in {Shell!EndWord(r), [r EXCEPT !.escaped = TRUE], Shell!Put(r, <<c>>)}
    BY <1>4 DEF Shell!Plain, Shell!Blank, Shell!Backslash
  <2>2. [r EXCEPT !.escaped = TRUE] \in ReadStates
    BY DEF ReadStates
  <2> QED BY <1>1, <2>1, <2>2
<1> QED BY <1>2, <1>3, <1>4

LEMMA ShlexType ==
  ASSUME NEW r \in ReadStates, NEW c \in Shell!Chars
  PROVE  Shell!ShlexStep(r, c) \in ReadStates
<1>1. <<c>> \in Strings /\ <<Shell!Backslash, c>> \in Strings
  BY DEF Strings, Shell!Chars
<1> QED BY <1>1, PutType, EndType, PlainType DEF Shell!ShlexStep

LEMMA ShellType ==
  ASSUME NEW r \in ReadStates, NEW c \in Shell!Chars
  PROVE  Shell!ShellStep(r, c) \in ReadStates
<1>1. <<c>> \in Strings /\ <<Shell!Backslash, c>> \in Strings
  BY DEF Strings, Shell!Chars
<1>2. [r EXCEPT !.escaped = FALSE] \in ReadStates
  BY DEF ReadStates
<1>3. ASSUME NEW p \in ReadStates, NEW more \in BOOLEAN
      PROVE  [p EXCEPT !.more = p.more \/ more] \in ReadStates
  BY DEF ReadStates
<1>4. CASE r.escaped
  BY <1>1, <1>2, <1>4, PutType DEF Shell!ShellStep
<1>5. CASE ~r.escaped
  <2> DEFINE more == \/ r.quote = Shell!Outside /\ c \in Shell!Active \cup {Shell!LineBreak}
                     \/ r.quote = Shell!Outside /\ c = Shell!Equals /\ ~r.open
                     \/ r.quote = Shell!Double /\ c = Shell!Dollar
                     \/ c = Shell!Bell
  <2>1. Shell!Plain(r, c) \in ReadStates /\ more \in BOOLEAN
    BY PlainType
  <2>2. Shell!ShellStep(r, c) = [Shell!Plain(r, c) EXCEPT !.more = Shell!Plain(r, c).more \/ more]
    BY <1>5, Zenon DEF Shell!ShellStep
  <2> QED BY <1>3, <2>1, <2>2
<1> QED BY <1>4, <1>5

-----------------------------------------------------------------------------
(* What each reader knows behind a character follows from what it knew ahead of it. *)

LEMMA LooksOn ==
  ASSUME NEW line \in Strings
  PROVE  /\ Shell!Looks(line)[0] = Shell!Fresh
         /\ \A i \in 0..Len(line) : Shell!Looks(line)[i] \in LookStates
         /\ \A i \in 1..Len(line) :
               Shell!Looks(line)[i] = Shell!Look(Shell!Looks(line)[i - 1], line[i])
<1> DEFINE n == Len(line)
           next == [p \in LookStates \X (1..n) |-> Shell!Look(p[1], line[p[2]])]
<1>1. n \in Nat /\ \A i \in 1..n : line[i] \in Shell!Chars
  BY DEF Strings
<1>2. Shell!Fresh \in LookStates
  BY DEF LookStates, Shell!Fresh, Quotes, Shell!Chars
<1>3. next \in [LookStates \X (1..n) -> LookStates]
  BY <1>1, LookType
<1>4. \A s \in LookStates : \A i \in 1..n : next[<<s, i>>] = Shell!Look(s, line[i])
  OBVIOUS
<1> HIDE DEF next, n
<1>5. PICK f \in [0..n -> LookStates] : Reads(f, Shell!Fresh, n, next)
  BY <1>1, <1>2, <1>3, Reading
<1>6. ASSUME NEW i \in 1..n PROVE f[i] = Shell!Look(f[i - 1], line[i])
  <2>1. i - 1 \in 0..n /\ f[i - 1] \in LookStates
    BY <1>1, <1>5
  <2> QED BY <1>4, <1>5, <2>1 DEF Reads
<1>7. f = [i \in 0..n |-> IF i = 0 THEN Shell!Fresh ELSE Shell!Look(f[i - 1], line[i])]
  BY <1>1, <1>5, <1>6 DEF Reads
<1>8. Shell!Looks(line) =
         [i \in 0..n |-> IF i = 0 THEN Shell!Fresh
                         ELSE Shell!Look(Shell!Looks(line)[i - 1], line[i])]
  BY <1>7, Zenon DEF Shell!Looks, n
<1> DEFINE looks == Shell!Looks(line)
<1> HIDE DEF looks
<1>9. looks[0] = Shell!Fresh /\ \A i \in 1..n : looks[i] = Shell!Look(looks[i - 1], line[i])
  BY <1>1, <1>8 DEF looks
<1> DEFINE good == {i \in 0..n : looks[i] \in LookStates}
<1>10. 0 \in good /\ \A i \in 1..n : i - 1 \in good => i \in good
  BY <1>1, <1>2, <1>9, LookType
<1> HIDE DEF good
<1>11. \A i \in 0..n : i \in good
  BY <1>1, <1>10, UpTo
<1> QED BY <1>9, <1>11 DEF looks, n, good

LEMMA ShlexOn ==
  ASSUME NEW line \in Strings
  PROVE  /\ Shell!ShlexSteps(line)[0] = Shell!Start
         /\ \A i \in 0..Len(line) : Shell!ShlexSteps(line)[i] \in ReadStates
         /\ \A i \in 1..Len(line) :
               Shell!ShlexSteps(line)[i] = Shell!ShlexStep(Shell!ShlexSteps(line)[i - 1], line[i])
<1> DEFINE n == Len(line)
           next == [p \in ReadStates \X (1..n) |-> Shell!ShlexStep(p[1], line[p[2]])]
<1>1. n \in Nat /\ \A i \in 1..n : line[i] \in Shell!Chars
  BY DEF Strings
<1>2. Shell!Start \in ReadStates
  BY DEF ReadStates, Strings, Shell!Start, Quotes
<1>3. next \in [ReadStates \X (1..n) -> ReadStates]
  BY <1>1, ShlexType
<1>4. \A s \in ReadStates : \A i \in 1..n : next[<<s, i>>] = Shell!ShlexStep(s, line[i])
  OBVIOUS
<1> HIDE DEF next, n
<1>5. PICK f \in [0..n -> ReadStates] : Reads(f, Shell!Start, n, next)
  BY <1>1, <1>2, <1>3, Reading
<1>6. ASSUME NEW i \in 1..n PROVE f[i] = Shell!ShlexStep(f[i - 1], line[i])
  <2>1. i - 1 \in 0..n /\ f[i - 1] \in ReadStates
    BY <1>1, <1>5
  <2> QED BY <1>4, <1>5, <2>1 DEF Reads
<1>7. f = [i \in 0..n |-> IF i = 0 THEN Shell!Start ELSE Shell!ShlexStep(f[i - 1], line[i])]
  BY <1>1, <1>5, <1>6 DEF Reads
<1>8. Shell!ShlexSteps(line) =
         [i \in 0..n |-> IF i = 0 THEN Shell!Start
                         ELSE Shell!ShlexStep(Shell!ShlexSteps(line)[i - 1], line[i])]
  BY <1>7, Zenon DEF Shell!ShlexSteps, n
<1> DEFINE reads == Shell!ShlexSteps(line)
<1> HIDE DEF reads
<1>9. reads[0] = Shell!Start /\ \A i \in 1..n : reads[i] = Shell!ShlexStep(reads[i - 1], line[i])
  BY <1>1, <1>8 DEF reads
<1> DEFINE good == {i \in 0..n : reads[i] \in ReadStates}
<1>10. 0 \in good /\ \A i \in 1..n : i - 1 \in good => i \in good
  BY <1>1, <1>2, <1>9, ShlexType
<1> HIDE DEF good
<1>11. \A i \in 0..n : i \in good
  BY <1>1, <1>10, UpTo
<1> QED BY <1>9, <1>11 DEF reads, n, good

LEMMA ShellOn ==
  ASSUME NEW line \in Strings
  PROVE  /\ Shell!ShellSteps(line)[0] = Shell!Start
         /\ \A i \in 0..Len(line) : Shell!ShellSteps(line)[i] \in ReadStates
         /\ \A i \in 1..Len(line) :
               Shell!ShellSteps(line)[i] = Shell!ShellStep(Shell!ShellSteps(line)[i - 1], line[i])
<1> DEFINE n == Len(line)
           next == [p \in ReadStates \X (1..n) |-> Shell!ShellStep(p[1], line[p[2]])]
<1>1. n \in Nat /\ \A i \in 1..n : line[i] \in Shell!Chars
  BY DEF Strings
<1>2. Shell!Start \in ReadStates
  BY DEF ReadStates, Strings, Shell!Start, Quotes
<1>3. next \in [ReadStates \X (1..n) -> ReadStates]
  BY <1>1, ShellType
<1>4. \A s \in ReadStates : \A i \in 1..n : next[<<s, i>>] = Shell!ShellStep(s, line[i])
  OBVIOUS
<1> HIDE DEF next, n
<1>5. PICK f \in [0..n -> ReadStates] : Reads(f, Shell!Start, n, next)
  BY <1>1, <1>2, <1>3, Reading
<1>6. ASSUME NEW i \in 1..n PROVE f[i] = Shell!ShellStep(f[i - 1], line[i])
  <2>1. i - 1 \in 0..n /\ f[i - 1] \in ReadStates
    BY <1>1, <1>5
  <2> QED BY <1>4, <1>5, <2>1 DEF Reads
<1>7. f = [i \in 0..n |-> IF i = 0 THEN Shell!Start ELSE Shell!ShellStep(f[i - 1], line[i])]
  BY <1>1, <1>5, <1>6 DEF Reads
<1>8. Shell!ShellSteps(line) =
         [i \in 0..n |-> IF i = 0 THEN Shell!Start
                         ELSE Shell!ShellStep(Shell!ShellSteps(line)[i - 1], line[i])]
  BY <1>7, Zenon DEF Shell!ShellSteps, n
<1> DEFINE reads == Shell!ShellSteps(line)
<1> HIDE DEF reads
<1>9. reads[0] = Shell!Start /\ \A i \in 1..n : reads[i] = Shell!ShellStep(reads[i - 1], line[i])
  BY <1>1, <1>8 DEF reads
<1> DEFINE good == {i \in 0..n : reads[i] \in ReadStates}
<1>10. 0 \in good /\ \A i \in 1..n : i - 1 \in good => i \in good
  BY <1>1, <1>2, <1>9, ShellType
<1> HIDE DEF good
<1>11. \A i \in 0..n : i \in good
  BY <1>1, <1>10, UpTo
<1> QED BY <1>9, <1>11 DEF reads, n, good

-----------------------------------------------------------------------------
(* The scan and the readers are in step. *)

(* Both are in the same quotes, a backslash is pending for both or for none, and a word has
   begun unless the scan is at the start of one. *)
InStep(s, r) ==
    /\ r.quote = s.quote /\ r.escaped = s.escaped /\ ~r.more
    /\ s.quote # Shell!Outside => r.open
    /\ s.quote = Shell!Single => ~s.escaped
    /\ s.quote = Shell!Outside /\ ~s.escaped => (s.start <=> ~r.open)

(* Whatever character comes next, if the scan lets it pass both readers make the same of it. *)
LEMMA SameStep ==
  ASSUME NEW s \in LookStates, NEW r \in ReadStates, InStep(s, r),
         NEW c \in Shell!Chars \ {Shell!LineBreak, Shell!Bell}, ~Shell!Look(s, c).bad
  PROVE  /\ Shell!ShellStep(r, c) = Shell!ShlexStep(r, c)
         /\ InStep(Shell!Look(s, c), Shell!ShlexStep(r, c))
<1> USE DEF Shell!Outside, Shell!Single, Shell!Double, Shell!Backslash, Shell!Blank, Shell!Letter,
            Shell!Dollar, Shell!Semicolon, Shell!Equals, Shell!LineBreak, Shell!Bell, Shell!Active
<1>1. CASE s.escaped
  <2>1. CASE Shell!Literal(s, c)
    BY <1>1, <2>1 DEF InStep, Shell!Literal, Shell!Look, Shell!ShellStep, Shell!ShlexStep,
                      Shell!Put, LookStates, ReadStates, Quotes, Shell!Chars
  <2>2. CASE ~Shell!Literal(s, c)
    BY <1>1, <2>2 DEF InStep, Shell!Literal, Shell!Look, Shell!ShellStep, Shell!ShlexStep,
                      Shell!Put, LookStates, ReadStates, Quotes, Shell!Chars, Shell!Alive, Shell!Quoting
  <2> QED BY <2>1, <2>2
<1>2. CASE ~s.escaped
  <2>1. Shell!ShlexStep(r, c) = Shell!Plain(r, c)
    BY <1>2 DEF InStep, Shell!ShlexStep
  <2>2. ~Shell!Alive(s, c)
    BY <1>2 DEF Shell!Look, Shell!Literal, LookStates
  <2>3. ~Shell!Plain(r, c).more
    BY DEF InStep, Shell!Plain, Shell!Put, Shell!EndWord, ReadStates
  <2>4. Shell!ShellStep(r, c) = Shell!Plain(r, c)
    BY <1>2, <2>2, <2>3, PlainType DEF InStep, Shell!ShellStep, Shell!Alive, ReadStates
  <2>5. InStep(Shell!Look(s, c), Shell!Plain(r, c))
    BY <1>2, <2>2, <2>3 DEF InStep, Shell!Look, Shell!Literal, Shell!Quoting, Shell!Plain,
                            Shell!Put, Shell!EndWord, ReadStates, LookStates, Quotes, Shell!Chars
  <2> QED BY <2>1, <2>4, <2>5
<1> QED BY <1>1, <1>2 DEF LookStates

(* What alarms the scan once is not forgotten. *)
LEMMA BadStays ==
  ASSUME NEW line \in Strings, ~Shell!Looks(line)[Len(line)].bad
  PROVE  \A i \in 0..Len(line) : ~Shell!Looks(line)[i].bad
<1> DEFINE n == Len(line)
           looks == Shell!Looks(line)
           good == {i \in 0..n : ~looks[i].bad}
<1>1. n \in Nat /\ \A i \in 0..n : looks[i] \in LookStates
  BY LooksOn DEF Strings
<1>2. ASSUME NEW i \in 1..n, looks[i - 1].bad PROVE looks[i].bad
  <2>1. looks[i] = Shell!Look(looks[i - 1], line[i]) /\ looks[i - 1] \in LookStates
    BY LooksOn, <1>1
  <2> HIDE DEF looks
  <2> QED BY <1>2, <2>1 DEF Shell!Look, LookStates
<1> HIDE DEF looks, n
<1>3. n \in good /\ \A i \in 1..n : i \in good => i - 1 \in good
  BY <1>1, <1>2 DEF looks, n
<1> HIDE DEF good
<1>4. \A i \in 0..n : i \in good
  BY <1>1, <1>3, DownTo
<1> QED BY <1>4 DEF looks, n, good

(* A line of any length that the scan has no problem with is read alike. *)
LEMMA SameReading ==
  ASSUME NEW line \in Strings, ~Shell!Problem(line)
  PROVE  Shell!SameWords(line)
<1> DEFINE n == Len(line)
           looks == Shell!Looks(line)
           lex == Shell!ShlexSteps(line)
           bash == Shell!ShellSteps(line)
           good == {i \in 0..n : bash[i] = lex[i] /\ InStep(looks[i], lex[i])}
<1>1. /\ n \in Nat
      /\ \A i \in 1..n : line[i] \in Shell!Chars \ {Shell!LineBreak, Shell!Bell}
  BY DEF Strings, Shell!Problem
<1>2. /\ ~looks[n].bad /\ ~looks[n].escaped /\ looks[n].quote = Shell!Outside
      /\ \A i \in 0..n : looks[i] \in LookStates /\ lex[i] \in ReadStates /\ ~looks[i].bad
  BY LooksOn, ShlexOn, BadStays DEF Shell!Problem
<1>3. 0 \in good
  <2>1. looks[0] = Shell!Fresh /\ lex[0] = Shell!Start /\ bash[0] = Shell!Start
    BY LooksOn, ShlexOn, ShellOn
  <2>2. InStep(Shell!Fresh, Shell!Start)
    BY DEF InStep, Shell!Fresh, Shell!Start, Shell!Outside, Shell!Single
  <2> QED BY <1>1, <2>1, <2>2
<1>4. ASSUME NEW i \in 1..n, i - 1 \in good PROVE i \in good
  <2>1. /\ looks[i] = Shell!Look(looks[i - 1], line[i])
        /\ lex[i] = Shell!ShlexStep(lex[i - 1], line[i])
        /\ bash[i] = Shell!ShellStep(bash[i - 1], line[i])
    BY LooksOn, ShlexOn, ShellOn
  <2>2. looks[i - 1] \in LookStates /\ lex[i - 1] \in ReadStates /\ ~looks[i].bad
    BY <1>1, <1>2
  <2> HIDE DEF looks, lex, bash, n
  <2>3. bash[i - 1] = lex[i - 1] /\ InStep(looks[i - 1], lex[i - 1])
    BY <1>4
  <2>4. bash[i] = lex[i] /\ InStep(looks[i], lex[i])
    BY <1>1, <2>1, <2>2, <2>3, SameStep
  <2> QED BY <2>4
<1> HIDE DEF looks, lex, bash, n
<1>5. n \in good
  <2> HIDE DEF good
  <2> QED BY <1>1, <1>3, <1>4, UpTo
<1>6. bash[n] = lex[n] /\ ~lex[n].escaped /\ ~lex[n].more /\ lex[n].quote = Shell!Outside
  BY <1>2, <1>5 DEF InStep
<1>7. /\ Shell!Shell(line) = [words |-> Shell!EndWord(bash[n]).words,
                              more |-> bash[n].more \/ bash[n].escaped \/ bash[n].quote # Shell!Outside]
      /\ Shell!Shlex(line) = [words |-> Shell!EndWord(lex[n]).words,
                              more |-> lex[n].escaped \/ lex[n].quote # Shell!Outside]
  BY Zenon DEF Shell!Shell, Shell!Shlex, bash, lex, n
<1>8. /\ Shell!Shell(line) = [words |-> Shell!EndWord(lex[n]).words, more |-> FALSE]
      /\ Shell!Shlex(line) = [words |-> Shell!EndWord(lex[n]).words, more |-> FALSE]
  BY <1>6, <1>7
<1> QED BY <1>8 DEF Shell!SameWords

-----------------------------------------------------------------------------
(* An argv, read by a grammar and by getopt_long. *)

Kinds == {"value", "path", "pattern", "pattern-file", "directories"}

(* What every grammar of the table is: no option is in two classes. *)
GrammarOK(g) ==
    /\ g.flags \cap DOMAIN g.values = {}
    /\ g.longFlags \cap g.longOptional = {} /\ g.longFlags \cap DOMAIN g.longValues = {}
    /\ g.longOptional \cap DOMAIN g.longValues = {}
    /\ g.longWalk \subseteq g.longFlags
    /\ \A o \in DOMAIN g.values : g.values[o] \in Kinds
    /\ \A o \in DOMAIN g.longValues : g.longValues[o] \in Kinds

(* The four grammars are. *)
LEMMA GrammarsOK == \A g \in Grammars : GrammarOK(g)
<1>1. GrammarOK(Args!CatGrammar)
  BY DEF GrammarOK, Args!CatGrammar, Args!None, Kinds
<1>2. GrammarOK(Args!HeadGrammar)
  BY DEF GrammarOK, Args!HeadGrammar, Args!None, Kinds
<1>3. GrammarOK(Args!LsGrammar)
  BY DEF GrammarOK, Args!LsGrammar, Kinds
<1>4. GrammarOK(Args!GrepGrammar)
  BY DEF GrammarOK, Args!GrepGrammar, Kinds
<1> QED BY <1>1, <1>2, <1>3, <1>4 DEF Grammars

(* A set of words: a cluster has letters. *)
WordsOK(W) == \A w \in W : w.form = "short" => Len(w.letters) \in Nat /\ DOMAIN w.letters = 1..Len(w.letters)

Files(W) == [word : W, from : Nat]
ArgStates(W) ==
    [paths : SUBSET Files(W), operands : Seq(W), recursive : BOOLEAN, pattern : BOOLEAN,
     errors : BOOLEAN, pending : Kinds \cup {Args!No}, ended : BOOLEAN]

(* What FiniteSetsExt calls the minimum is one. *)
LEMMA MinIs ==
  ASSUME NEW N \in SUBSET Nat, N # {}
  PROVE  Args!Min(N) \in N /\ \A i \in N : Args!Min(N) <= i
<1>1. \E i \in N : \A j \in N : i <= j
  BY LeastOf
<1> QED BY <1>1 DEF Args!Min

(* Where a cluster stops being flags. *)
LEMMA StopIs ==
  ASSUME NEW g, NEW W, WordsOK(W), NEW w \in W, w.form = "short"
  PROVE  /\ Args!Stop(g, w) \in 1..(Len(w.letters) + 1)
         /\ \A i \in 1..(Args!Stop(g, w) - 1) : w.letters[i] \in g.flags
         /\ Args!Stop(g, w) <= Len(w.letters) => w.letters[Args!Stop(g, w)] \notin g.flags
<1> DEFINE N == {i \in DOMAIN w.letters : w.letters[i] \notin g.flags} \cup {Len(w.letters) + 1}
<1>1. N \in SUBSET Nat /\ N # {} /\ Len(w.letters) \in Nat /\ DOMAIN w.letters = 1..Len(w.letters)
  BY DEF WordsOK
<1>2. Args!Stop(g, w) \in N /\ \A i \in N : Args!Stop(g, w) <= i
  BY <1>1, MinIs DEF Args!Stop
<1> QED BY <1>1, <1>2

(* Types of what the grammar reads. *)
LEMMA ValueType ==
  ASSUME NEW W, NEW file \in Files(W), NEW r \in ArgStates(W), NEW kind
  PROVE  Args!Value(kind, file, r) \in ArgStates(W)
  BY DEF ArgStates, Args!Value

LEMMA StepType ==
  ASSUME NEW g, GrammarOK(g), NEW W, WordsOK(W), NEW w \in W, NEW r \in ArgStates(W)
  PROVE  Args!GnuStep(g, r, w) \in ArgStates(W)
<1>1. ASSUME NEW s \in ArgStates(W), NEW kind \in Kinds \cup {Args!No}
      PROVE  [s EXCEPT !.pending = kind] \in ArgStates(W)
  BY <1>1 DEF ArgStates
<1>2. ASSUME NEW s \in ArgStates(W) PROVE Args!Failed(s) \in ArgStates(W)
  BY <1>2 DEF ArgStates, Args!Failed
<1>3. Args!Whole(w) \in Files(W) /\ \A i \in Nat : Args!Part(w, i) \in Files(W)
  BY DEF Files, Args!Whole, Args!Part
<1>4. [r EXCEPT !.operands = Append(r.operands, w)] \in ArgStates(W)
  BY DEF ArgStates
<1>5. [r EXCEPT !.ended = TRUE] \in ArgStates(W)
  BY DEF ArgStates
<1>6. Args!LongOption(g, r, w) \in ArgStates(W)
  <2>1. Args!Walks(w.name \in g.longWalk, r) \in ArgStates(W)
    BY DEF ArgStates, Args!Walks
  <2> QED BY <1>1, <1>2, <1>3, <2>1, ValueType DEF Args!LongOption, GrammarOK
<1>7. w.form = "short" => Args!Cluster(g, r, w) \in ArgStates(W)
  <2> SUFFICES ASSUME w.form = "short" PROVE Args!Cluster(g, r, w) \in ArgStates(W)
    OBVIOUS
  <2> DEFINE stop == Args!Stop(g, w)
             walks == \E j \in 1..(stop - 1) : w.letters[j] \in g.walk
             flags == Args!Walks(walks, r)
  <2>1. stop \in 1..(Len(w.letters) + 1)
    BY StopIs, Zenon
  <2>. stop \in Nat
    BY <2>1
  <2>2. flags \in ArgStates(W)
    BY DEF ArgStates, Args!Walks
  <2> HIDE DEF stop, flags
  <2>3. Args!Cluster(g, r, w) =
           IF stop > Len(w.letters) THEN flags
           ELSE IF w.letters[stop] \notin DOMAIN g.values THEN Args!Failed(flags)
           ELSE IF Args!Attached(g, w)
           THEN Args!Value(g.values[w.letters[stop]], Args!Part(w, stop), flags)
           ELSE [flags EXCEPT !.pending = g.values[w.letters[stop]]]
    BY Zenon DEF Args!Cluster, stop, flags
  <2> QED BY <1>1, <1>2, <1>3, <2>1, <2>2, <2>3, ValueType DEF GrammarOK
<1> QED BY <1>1, <1>2, <1>3, <1>4, <1>5, <1>6, <1>7, ValueType DEF Args!GnuStep

(* Its state behind a word follows from the one ahead of it, and is typed. *)
LEMMA GnuOn ==
  ASSUME NEW g, GrammarOK(g), NEW W, WordsOK(W), NEW args \in Seq(W)
  PROVE  /\ Args!GnuSteps(g, args)[0] = Args!Nothing
         /\ \A i \in 0..Len(args) : Args!GnuSteps(g, args)[i] \in ArgStates(W)
         /\ \A i \in 1..Len(args) :
               Args!GnuSteps(g, args)[i] = Args!GnuStep(g, Args!GnuSteps(g, args)[i - 1], args[i])
<1> DEFINE n == Len(args)
           next == [p \in ArgStates(W) \X (1..n) |-> Args!GnuStep(g, p[1], args[p[2]])]
<1>1. n \in Nat /\ \A i \in 1..n : args[i] \in W
  OBVIOUS
<1>2. Args!Nothing \in ArgStates(W)
  BY DEF ArgStates, Args!Nothing
<1>3. next \in [ArgStates(W) \X (1..n) -> ArgStates(W)]
  BY <1>1, StepType
<1>4. \A s \in ArgStates(W) : \A i \in 1..n : next[<<s, i>>] = Args!GnuStep(g, s, args[i])
  OBVIOUS
<1> HIDE DEF next, n
<1>5. PICK f \in [0..n -> ArgStates(W)] : Reads(f, Args!Nothing, n, next)
  BY <1>1, <1>2, <1>3, Reading
<1>6. ASSUME NEW i \in 1..n PROVE f[i] = Args!GnuStep(g, f[i - 1], args[i])
  <2>1. i - 1 \in 0..n /\ f[i - 1] \in ArgStates(W)
    BY <1>1, <1>5
  <2> QED BY <1>4, <1>5, <2>1 DEF Reads
<1>7. f = [i \in 0..n |-> IF i = 0 THEN Args!Nothing ELSE Args!GnuStep(g, f[i - 1], args[i])]
  BY <1>1, <1>5, <1>6 DEF Reads
<1>8. Args!GnuSteps(g, args) =
         [i \in 0..n |-> IF i = 0 THEN Args!Nothing
                         ELSE Args!GnuStep(g, Args!GnuSteps(g, args)[i - 1], args[i])]
  BY <1>7, Zenon DEF Args!GnuSteps, n
<1> DEFINE reads == Args!GnuSteps(g, args)
<1> HIDE DEF reads
<1>9. reads[0] = Args!Nothing /\ \A i \in 1..n : reads[i] = Args!GnuStep(g, reads[i - 1], args[i])
  BY <1>1, <1>8 DEF reads
<1> DEFINE good == {i \in 0..n : reads[i] \in ArgStates(W)}
<1>10. 0 \in good /\ \A i \in 1..n : i - 1 \in good => i \in good
  BY <1>1, <1>2, <1>9, StepType
<1> HIDE DEF good
<1>11. \A i \in 0..n : i \in good
  BY <1>1, <1>10, UpTo
<1> QED BY <1>9, <1>11 DEF reads, n, good

AllRoles == {"command", "value", "rest", "end", "operand", "option"}

LEMMA RoleType ==
  ASSUME NEW g, NEW args, NEW i, NEW before
  PROVE  Args!Role(g, args, i, before) \in AllRoles
  BY DEF Args!Role, AllRoles

(* getopt_long's roles: each follows from the one before it. *)
LEMMA RolesOn ==
  ASSUME NEW g, NEW W, NEW args \in Seq(W)
  PROVE  /\ Args!Roles(g, args)[0] = "command"
         /\ \A i \in 0..Len(args) : Args!Roles(g, args)[i] \in AllRoles
         /\ \A i \in 1..Len(args) :
               Args!Roles(g, args)[i] = Args!Role(g, args, i, Args!Roles(g, args)[i - 1])
<1> DEFINE n == Len(args)
           next == [p \in AllRoles \X (1..n) |-> Args!Role(g, args, p[2], p[1])]
<1>1. n \in Nat /\ \A i \in 1..n : args[i] \in W
  OBVIOUS
<1>2. "command" \in AllRoles
  BY DEF AllRoles
<1>3. next \in [AllRoles \X (1..n) -> AllRoles]
  BY <1>1, RoleType
<1>4. \A s \in AllRoles : \A i \in 1..n : next[<<s, i>>] = Args!Role(g, args, i, s)
  OBVIOUS
<1> HIDE DEF next, n
<1>5. PICK f \in [0..n -> AllRoles] : Reads(f, "command", n, next)
  BY <1>1, <1>2, <1>3, Reading
<1>6. ASSUME NEW i \in 1..n PROVE f[i] = Args!Role(g, args, i, f[i - 1])
  <2>1. i - 1 \in 0..n /\ f[i - 1] \in AllRoles
    BY <1>1, <1>5
  <2> QED BY <1>4, <1>5, <2>1 DEF Reads
<1>7. f = [i \in 0..n |-> IF i = 0 THEN "command" ELSE Args!Role(g, args, i, f[i - 1])]
  BY <1>1, <1>5, <1>6 DEF Reads
<1>8. Args!Roles(g, args) =
         [i \in 0..n |-> IF i = 0 THEN "command"
                         ELSE Args!Role(g, args, i, Args!Roles(g, args)[i - 1])]
  BY <1>7, Zenon DEF Args!Roles, n
<1> DEFINE roles == Args!Roles(g, args)
<1> HIDE DEF roles
<1>9. roles[0] = "command" /\ \A i \in 1..n : roles[i] = Args!Role(g, args, i, roles[i - 1])
  BY <1>1, <1>8 DEF roles
<1> DEFINE good == {i \in 0..n : roles[i] \in AllRoles}
<1>10. 0 \in good /\ \A i \in 1..n : i - 1 \in good => i \in good
  BY <1>1, <1>2, <1>9, RoleType
<1> HIDE DEF good
<1>11. \A i \in 0..n : i \in good
  BY <1>1, <1>10, UpTo
<1> QED BY <1>9, <1>11 DEF roles, n, good

-----------------------------------------------------------------------------
(* One word, to the firewall and to getopt_long. *)

(* What a state has from a value more than one before it. *)
Taken(kind, file, r, s) ==
    /\ r.paths \subseteq s.paths /\ (kind \in {"path", "pattern-file"} => file \in s.paths)
    /\ s.pattern <=> r.pattern \/ kind \in {"pattern", "pattern-file"}
    /\ (r.recursive \/ (kind = "directories" /\ Args!Recurses(file))) => s.recursive

(* take_value adds what it takes and forgets nothing. *)
LEMMA ValueTakes ==
  ASSUME NEW W, NEW r \in ArgStates(W), NEW kind, NEW file
  PROVE  LET s == Args!Value(kind, file, r) IN
         /\ Taken(kind, file, r, s)
         /\ s.operands = r.operands /\ s.errors = r.errors /\ s.pending = r.pending /\ s.ended = r.ended
<1>1. CASE kind \in {"path", "pattern", "pattern-file"}
  BY <1>1 DEF Args!Value, Taken, ArgStates
<1>2. CASE kind = "directories"
  BY <1>2 DEF Args!Value, Taken, ArgStates
<1>3. CASE kind \notin {"path", "pattern", "pattern-file", "directories"}
  BY <1>3 DEF Args!Value, Taken, ArgStates
<1> QED BY <1>1, <1>2, <1>3

(* The part of an option's word that is its value. *)
Own(g, w) == IF w.form = "long" THEN Args!Whole(w) ELSE Args!Part(w, Args!Taker(g, w))

(* The word makes grep or ls walk a tree. *)
Walker(g, w) ==
    \/ w.form = "long" /\ w.name \in g.longWalk
    \/ w.form = "short" /\ \E j \in DOMAIN w.letters :
          /\ w.letters[j] \in g.walk
          /\ Args!TakesValue(g, w) => j < Args!Taker(g, w)

(* Where a cluster stops at an option with a value, that option takes it. *)
LEMMA TakerIs ==
  ASSUME NEW g, GrammarOK(g), NEW W, WordsOK(W), NEW w \in W, w.form = "short",
         Args!Stop(g, w) <= Len(w.letters) => w.letters[Args!Stop(g, w)] \in DOMAIN g.values
  PROVE  /\ Args!TakesValue(g, w) <=> Args!Stop(g, w) <= Len(w.letters)
         /\ Args!TakesValue(g, w) => Args!Taker(g, w) = Args!Stop(g, w)
<1> DEFINE stop == Args!Stop(g, w)
           N == {i \in DOMAIN w.letters : w.letters[i] \in DOMAIN g.values}
<1>1. /\ stop \in 1..(Len(w.letters) + 1)
      /\ \A i \in 1..(stop - 1) : w.letters[i] \in g.flags
  BY StopIs, Zenon
<1>2. Len(w.letters) \in Nat /\ DOMAIN w.letters = 1..Len(w.letters)
  BY DEF WordsOK
<1>3. \A i \in 1..(stop - 1) : w.letters[i] \notin DOMAIN g.values
  BY <1>1 DEF GrammarOK
<1>4. Args!TakesValue(g, w) <=> N # {}
  BY DEF Args!TakesValue, Args!Range
<1>5. stop <= Len(w.letters) => stop \in N
  BY <1>1, <1>2
<1>6. ASSUME NEW i \in N PROVE stop <= i
  BY <1>1, <1>2, <1>3
<1>7. N # {} => Args!Taker(g, w) \in N /\ \A i \in N : Args!Taker(g, w) <= i
  <2>1. N \in SUBSET Nat
    BY <1>2
  <2> QED BY <2>1, MinIs DEF Args!Taker
<1> HIDE DEF N, stop
<1>8. N # {} => stop <= Len(w.letters)
  <2> SUFFICES ASSUME NEW i \in N PROVE stop <= Len(w.letters)
    OBVIOUS
  <2>1. i \in 1..Len(w.letters) /\ stop <= i /\ stop \in Int
    BY <1>1, <1>2, <1>6 DEF N
  <2> QED BY <1>2, <2>1
<1>9. N # {} => Args!Taker(g, w) = stop
  <2> SUFFICES ASSUME N # {} PROVE Args!Taker(g, w) = stop
    OBVIOUS
  <2>1. Args!Taker(g, w) \in Nat /\ stop \in Nat
    BY <1>1, <1>2, <1>7 DEF N
  <2> QED BY <1>5, <1>6, <1>7, <1>8, <2>1
<1> QED BY <1>4, <1>5, <1>8, <1>9 DEF stop

(* An option that is known leaves in the state what getopt_long makes of it. *)
LEMMA OptionStep ==
  ASSUME NEW g, GrammarOK(g), NEW W, WordsOK(W), NEW w \in W, NEW r \in ArgStates(W),
         r.pending = Args!No, ~r.ended, w.form \notin {"word", "stdin", "end"},
         ~Args!GnuStep(g, r, w).errors
  PROVE  LET s == Args!GnuStep(g, r, w) IN
         /\ s.operands = r.operands /\ ~s.ended /\ (r.recursive => s.recursive)
         /\ ~Args!TakesValue(g, w) => s.pending = Args!No /\ s.paths = r.paths /\ s.pattern = r.pattern
         /\ Args!Hungry(g, w) => s.pending = Args!Kind(g, w) /\ s.paths = r.paths /\ s.pattern = r.pattern
         /\ Args!TakesValue(g, w) /\ ~Args!Hungry(g, w) =>
               s.pending = Args!No /\ Taken(Args!Kind(g, w), Own(g, w), r, s)
         /\ Walker(g, w) => s.recursive
<1>1. CASE w.form = "long"
  <2>1. Args!GnuStep(g, r, w) = Args!LongOption(g, r, w)
    BY <1>1 DEF Args!GnuStep, ArgStates
  <2>2. CASE w.name \in g.longFlags /\ ~w.eq
    <3> DEFINE walks == w.name \in g.longWalk
               flags == [r EXCEPT !.recursive = r.recursive \/ walks]
    <3>1. Args!GnuStep(g, r, w) = flags
      BY <2>1, <2>2 DEF Args!LongOption, Args!Walks
    <3>2. /\ flags.operands = r.operands /\ flags.ended = r.ended /\ flags.pending = r.pending
          /\ flags.paths = r.paths /\ flags.pattern = r.pattern
          /\ (r.recursive \/ walks) => flags.recursive
      BY DEF ArgStates
    <3> HIDE DEF flags
    <3>3. ~Args!TakesValue(g, w) /\ ~Args!Hungry(g, w) /\ (Walker(g, w) => walks)
      BY <1>1, <2>2 DEF GrammarOK, Args!TakesValue, Args!Hungry, Walker
    <3> QED BY <3>1, <3>2, <3>3
  <2>3. CASE w.name \in g.longOptional
    BY <1>1, <2>1, <2>3 DEF Args!LongOption, Args!Walks, ArgStates, GrammarOK, Args!TakesValue, Args!Hungry, Walker
  <2>4. CASE w.name \in DOMAIN g.longValues
    <3>1. ~Walker(g, w) /\ Args!TakesValue(g, w) /\ Args!Kind(g, w) = g.longValues[w.name]
          /\ (Args!Hungry(g, w) <=> ~w.eq) /\ Own(g, w) = Args!Whole(w)
      BY <1>1, <2>4 DEF GrammarOK, Walker, Args!TakesValue, Args!Kind, Args!Hungry, Own
    <3>2. Args!LongOption(g, r, w) = IF w.eq THEN Args!Value(g.longValues[w.name], Args!Whole(w), r)
                                     ELSE [r EXCEPT !.pending = g.longValues[w.name]]
      BY <2>4 DEF Args!LongOption, GrammarOK
    <3>3. CASE w.eq
      BY <2>1, <3>1, <3>2, <3>3, ValueTakes DEF Taken
    <3>4. CASE ~w.eq
      BY <2>1, <3>1, <3>2, <3>4 DEF ArgStates
    <3> QED BY <3>3, <3>4
  <2>5. CASE w.name \notin g.longOptional \cup DOMAIN g.longValues /\ ~(w.name \in g.longFlags /\ ~w.eq)
    BY <2>1, <2>5 DEF Args!LongOption, Args!Failed, ArgStates
  <2> QED BY <2>2, <2>3, <2>4, <2>5
<1>2. CASE w.form = "short"
  <2>1. Args!GnuStep(g, r, w) = Args!Cluster(g, r, w)
    BY <1>2 DEF Args!GnuStep, ArgStates
  <2> DEFINE stop == Args!Stop(g, w)
             walks == \E j \in 1..(stop - 1) : w.letters[j] \in g.walk
             flags == [r EXCEPT !.recursive = r.recursive \/ walks]
  <2>2. stop \in 1..(Len(w.letters) + 1)
    BY <1>2, StopIs, Zenon
  <2>3. /\ Len(w.letters) \in Nat /\ DOMAIN w.letters = 1..Len(w.letters)
    BY <1>2 DEF WordsOK
  <2>4. flags \in ArgStates(W) /\ (r.recursive => flags.recursive) /\ (walks => flags.recursive)
        /\ flags.errors = r.errors /\ flags.pending = r.pending /\ flags.paths = r.paths /\ flags.ended = r.ended
        /\ flags.pattern = r.pattern /\ flags.operands = r.operands
    BY DEF ArgStates
  <2> HIDE DEF stop, flags
  <2>5. Args!Cluster(g, r, w) =
           IF stop > Len(w.letters) THEN flags
           ELSE IF w.letters[stop] \notin DOMAIN g.values THEN Args!Failed(flags)
           ELSE IF stop < Len(w.letters)
           THEN Args!Value(g.values[w.letters[stop]], Args!Part(w, stop), flags)
           ELSE [flags EXCEPT !.pending = g.values[w.letters[stop]]]
    BY Zenon DEF Args!Cluster, Args!Walks, Args!Attached, stop, flags
  <2>6. stop <= Len(w.letters) => w.letters[stop] \in DOMAIN g.values
    BY <2>1, <2>2, <2>4, <2>5 DEF Args!Failed, ArgStates
  <2>7. /\ Args!TakesValue(g, w) <=> stop <= Len(w.letters)
        /\ Args!TakesValue(g, w) => Args!Taker(g, w) = stop
    BY <1>2, <2>6, TakerIs DEF stop
  <2>8. Walker(g, w) => walks
    BY <1>2, <2>2, <2>3, <2>7 DEF Walker
  <2> HIDE DEF walks
  <2>9. CASE stop > Len(w.letters)
    BY <1>2, <2>1, <2>2, <2>3, <2>4, <2>5, <2>7, <2>8, <2>9 DEF Args!Hungry
  <2>10. CASE stop < Len(w.letters)
    <3>1. ~Args!Hungry(g, w) /\ Args!TakesValue(g, w) /\ Args!Kind(g, w) = g.values[w.letters[stop]]
          /\ Own(g, w) = Args!Part(w, stop)
      BY <1>2, <2>2, <2>3, <2>7, <2>10 DEF Args!Kind, Args!Hungry, Own
    <3>2. Args!Cluster(g, r, w) = Args!Value(g.values[w.letters[stop]], Args!Part(w, stop), flags)
      BY <2>2, <2>3, <2>5, <2>6, <2>10
    <3>3. Taken(Args!Kind(g, w), Own(g, w), flags, Args!GnuStep(g, r, w))
          /\ Args!GnuStep(g, r, w).operands = r.operands /\ ~Args!GnuStep(g, r, w).ended
          /\ Args!GnuStep(g, r, w).pending = Args!No
      BY <2>1, <2>4, <3>1, <3>2, ValueTakes
    <3> QED BY <2>4, <2>8, <3>1, <3>3 DEF Taken
  <2>11. CASE stop = Len(w.letters)
    BY <1>2, <2>1, <2>2, <2>3, <2>4, <2>5, <2>6, <2>7, <2>8, <2>11 DEF Args!Hungry, Args!Kind, ArgStates
  <2> QED BY <2>2, <2>3, <2>9, <2>10, <2>11
<1>3. CASE w.form \notin {"long", "short"}
  BY <1>3 DEF Args!GnuStep, Args!TakesValue, Args!Hungry, Walker, ArgStates, Args!Failed
<1> QED BY <1>1, <1>2, <1>3

-----------------------------------------------------------------------------
(* All words up to one, to the firewall and to getopt_long. *)

(* Word j is an operand; it is an option whose value is no later than word i. *)
IsOperand(g, args, j) == Args!Roles(g, args)[j] \in {"operand", "rest"}
HasValue(g, args, j, i) ==
    /\ Args!Roles(g, args)[j] = "option" /\ Args!TakesValue(g, args[j])
    /\ Args!Hungry(g, args[j]) => j < i
Waiting(g, args, i) == i > 0 /\ Args!Roles(g, args)[i] = "option" /\ Args!Hungry(g, args[i])
ValueOf(g, args, j) ==
    IF Args!Hungry(g, args[j]) THEN Args!Whole(args[j + 1]) ELSE Own(g, args[j])

(* Operand k of the state's is word j of the argv, and the first is the first. *)
Matches(g, args, r, k, j) ==
    /\ r.operands[k] = args[j]
    /\ k > 1 <=> \E l \in 1..(j - 1) : IsOperand(g, args, l)

OperandsRead(g, args, i, r) ==
    /\ \A j \in 1..i : IsOperand(g, args, j) => \E k \in 1..Len(r.operands) : Matches(g, args, r, k, j)
    /\ \A k \in 1..Len(r.operands) : \E j \in 1..i : IsOperand(g, args, j) /\ Matches(g, args, r, k, j)

IsPattern(g, args, j) == Args!Kind(g, args[j]) \in {"pattern", "pattern-file"}

ValuesRead(g, args, i, r) ==
    /\ \A j \in 1..i : HasValue(g, args, j, i) =>
          /\ Args!Kind(g, args[j]) \in {"path", "pattern-file"} => ValueOf(g, args, j) \in r.paths
          /\ IsPattern(g, args, j) => r.pattern
          /\ Args!Kind(g, args[j]) = "directories" /\ Args!Recurses(ValueOf(g, args, j)) => r.recursive
    /\ r.pattern => \E j \in 1..i : HasValue(g, args, j, i) /\ IsPattern(g, args, j)
    /\ \A j \in 1..i : Args!Roles(g, args)[j] = "option" /\ Walker(g, args[j]) => r.recursive

(* As long as nothing was refused, the state is what getopt_long has read so far. *)
ReadAlike(g, args, i, r) ==
    /\ r.pending = IF Waiting(g, args, i) THEN Args!Kind(g, args[i]) ELSE Args!No
    /\ r.ended <=> Args!Roles(g, args)[i] \in {"end", "rest"}
    /\ OperandsRead(g, args, i, r)
    /\ ValuesRead(g, args, i, r)

(* A refused argv stays refused. *)
LEMMA ErrorStays ==
  ASSUME NEW g, GrammarOK(g), NEW W, WordsOK(W), NEW w \in W, NEW r \in ArgStates(W), r.errors
  PROVE  Args!GnuStep(g, r, w).errors
<1> DEFINE Sticks(s) == s \in ArgStates(W) /\ s.errors
<1>1. ASSUME NEW s, Sticks(s), NEW kind, NEW file PROVE Args!Value(kind, file, s).errors
  BY <1>1, ValueTakes
<1>2. ASSUME NEW s, Sticks(s), NEW kind PROVE [s EXCEPT !.pending = kind].errors
  BY <1>2 DEF ArgStates
<1>3. ASSUME NEW s, Sticks(s) PROVE Args!Failed(s).errors
  BY <1>3 DEF Args!Failed, ArgStates
<1>4. ASSUME NEW yes PROVE Sticks(Args!Walks(yes, r))
  BY DEF Args!Walks, ArgStates
<1>5. CASE r.pending # Args!No
  <2>1. \E s \in ArgStates(W) : s.errors /\ Args!GnuStep(g, r, w) = [s EXCEPT !.pending = Args!No]
    <3>1. Args!Whole(w) \in Files(W)
      BY DEF Files, Args!Whole
    <3> QED BY <1>1, <1>5, <3>1, ValueType DEF Args!GnuStep
  <2> QED BY <1>2, <2>1
<1>6. CASE r.pending = Args!No
  <2>1. Args!LongOption(g, r, w).errors
    BY <1>1, <1>2, <1>3, <1>4 DEF Args!LongOption
  <2>2. Args!Cluster(g, r, w).errors
    <3> DEFINE stop == Args!Stop(g, w)
               flags == Args!Walks(\E j \in 1..(stop - 1) : w.letters[j] \in g.walk, r)
    <3>1. Sticks(flags)
      BY <1>4
    <3> HIDE DEF flags, stop
    <3>2. \/ Args!Cluster(g, r, w) = flags
          \/ Args!Cluster(g, r, w) = Args!Failed(flags)
          \/ Args!Cluster(g, r, w) = Args!Value(g.values[w.letters[stop]], Args!Part(w, stop), flags)
          \/ Args!Cluster(g, r, w) = [flags EXCEPT !.pending = g.values[w.letters[stop]]]
      BY Zenon DEF Args!Cluster, flags, stop
    <3> QED BY <1>1, <1>2, <1>3, <3>1, <3>2
  <2> QED BY <1>3, <1>6, <2>1, <2>2 DEF Args!GnuStep, ArgStates
<1> QED BY <1>5, <1>6

(* A word that is no operand leaves the operands as they are read. *)
LEMMA SameOperands ==
  ASSUME NEW g, NEW args, NEW i \in Nat \ {0}, NEW r, NEW s,
         s.operands = r.operands, ~IsOperand(g, args, i), OperandsRead(g, args, i - 1, r)
  PROVE  OperandsRead(g, args, i, s)
<1>1. ASSUME NEW j \in 1..i, IsOperand(g, args, j)
      PROVE  \E k \in 1..Len(s.operands) : Matches(g, args, s, k, j)
  <2>1. j \in 1..(i - 1)
    BY <1>1
  <2> QED BY <1>1, <2>1 DEF OperandsRead, Matches
<1>2. ASSUME NEW k \in 1..Len(s.operands)
      PROVE  \E j \in 1..i : IsOperand(g, args, j) /\ Matches(g, args, s, k, j)
  <2>1. PICK j \in 1..(i - 1) : IsOperand(g, args, j) /\ Matches(g, args, r, k, j)
    BY <1>2 DEF OperandsRead
  <2> QED BY <2>1 DEF Matches
<1> QED BY <1>1, <1>2 DEF OperandsRead

(* A word that is one comes behind them. *)
LEMMA MoreOperands ==
  ASSUME NEW g, NEW args, NEW i \in Nat \ {0}, NEW W, NEW r, NEW s, r.operands \in Seq(W),
         args[i] \in W, s.operands = Append(r.operands, args[i]),
         IsOperand(g, args, i), OperandsRead(g, args, i - 1, r)
  PROVE  OperandsRead(g, args, i, s)
<1> DEFINE n == Len(r.operands)
<1>1. /\ n \in Nat /\ Len(s.operands) = n + 1 /\ s.operands[n + 1] = args[i]
      /\ \A k \in 1..n : s.operands[k] = r.operands[k]
  OBVIOUS
<1>2. n + 1 > 1 <=> \E l \in 1..(i - 1) : IsOperand(g, args, l)
  <2>1. ASSUME n + 1 > 1 PROVE \E l \in 1..(i - 1) : IsOperand(g, args, l)
    <3>1. 1 \in 1..n
      BY <1>1, <2>1
    <3> QED BY <3>1 DEF OperandsRead
  <2>2. ASSUME NEW l \in 1..(i - 1), IsOperand(g, args, l) PROVE n + 1 > 1
    <3>1. \E k \in 1..n : TRUE
      BY <2>2 DEF OperandsRead
    <3> QED BY <1>1, <3>1
  <2> QED BY <2>1, <2>2
<1>3. Matches(g, args, s, n + 1, i)
  BY <1>1, <1>2 DEF Matches
<1>4. ASSUME NEW j \in 1..i, IsOperand(g, args, j)
      PROVE  \E k \in 1..Len(s.operands) : Matches(g, args, s, k, j)
  <2>1. CASE j = i
    BY <1>1, <1>3, <2>1
  <2>2. CASE j # i
    <3>1. PICK k \in 1..n : Matches(g, args, r, k, j)
      BY <1>4, <2>2 DEF OperandsRead
    <3>2. k \in 1..Len(s.operands) /\ Matches(g, args, s, k, j)
      BY <1>1, <3>1 DEF Matches
    <3> QED BY <3>2
  <2> QED BY <2>1, <2>2
<1>5. ASSUME NEW k \in 1..Len(s.operands)
      PROVE  \E j \in 1..i : IsOperand(g, args, j) /\ Matches(g, args, s, k, j)
  <2>1. CASE k = n + 1
    BY <1>3, <2>1
  <2>2. CASE k # n + 1
    <3>1. k \in 1..n
      BY <1>1, <2>2
    <3>2. PICK j \in 1..(i - 1) : IsOperand(g, args, j) /\ Matches(g, args, r, k, j)
      BY <3>1 DEF OperandsRead
    <3> QED BY <1>1, <3>1, <3>2 DEF Matches
  <2> QED BY <2>1, <2>2
<1> QED BY <1>4, <1>5 DEF OperandsRead

(* What the values of the words up to one come to, with those it completes. *)
LEMMA MoreValues ==
  ASSUME NEW g, NEW args, NEW i \in Nat \ {0}, NEW r, NEW s, NEW new \in SUBSET (1..i),
         ValuesRead(g, args, i - 1, r),
         \A j \in 1..i : HasValue(g, args, j, i) <=> j \in new \/ (j < i /\ HasValue(g, args, j, i - 1)),
         r.paths \subseteq s.paths, r.recursive => s.recursive,
         s.pattern <=> r.pattern \/ \E j \in new : IsPattern(g, args, j),
         \A j \in new :
            /\ Args!Kind(g, args[j]) \in {"path", "pattern-file"} => ValueOf(g, args, j) \in s.paths
            /\ Args!Kind(g, args[j]) = "directories" /\ Args!Recurses(ValueOf(g, args, j)) => s.recursive,
         Args!Roles(g, args)[i] = "option" /\ Walker(g, args[i]) => s.recursive
  PROVE  ValuesRead(g, args, i, s)
<1>1. ASSUME NEW j \in 1..i, HasValue(g, args, j, i)
      PROVE  /\ Args!Kind(g, args[j]) \in {"path", "pattern-file"} => ValueOf(g, args, j) \in s.paths
             /\ IsPattern(g, args, j) => s.pattern
             /\ Args!Kind(g, args[j]) = "directories" /\ Args!Recurses(ValueOf(g, args, j)) => s.recursive
  <2>1. CASE j \in new
    BY <2>1
  <2>2. CASE j \notin new
    <3>1. j \in 1..(i - 1) /\ HasValue(g, args, j, i - 1)
      BY <1>1, <2>2
    <3> QED BY <3>1 DEF ValuesRead
  <2> QED BY <2>1, <2>2
<1>2. ASSUME s.pattern PROVE \E j \in 1..i : HasValue(g, args, j, i) /\ IsPattern(g, args, j)
  <2>1. CASE \E j \in new : IsPattern(g, args, j)
    BY <2>1
  <2>2. CASE r.pattern
    <3>1. PICK j \in 1..(i - 1) : HasValue(g, args, j, i - 1) /\ IsPattern(g, args, j)
      BY <2>2 DEF ValuesRead
    <3>2. j \in 1..i /\ j < i
      BY <3>1
    <3> QED BY <3>1, <3>2
  <2> QED BY <1>2, <2>1, <2>2
<1>3. ASSUME NEW j \in 1..i, Args!Roles(g, args)[j] = "option", Walker(g, args[j]) PROVE s.recursive
  <2>1. CASE j = i
    BY <1>3, <2>1
  <2>2. CASE j # i
    <3>1. j \in 1..(i - 1)
      BY <2>2
    <3> QED BY <1>3, <3>1 DEF ValuesRead
  <2> QED BY <2>1, <2>2
<1> QED BY <1>1, <1>2, <1>3 DEF ValuesRead

(* A value is of a kind that the grammars have. *)
LEMMA KindType ==
  ASSUME NEW g, GrammarOK(g), NEW W, WordsOK(W), NEW w \in W, Args!TakesValue(g, w)
  PROVE  Args!Kind(g, w) \in Kinds /\ w.form \in {"long", "short"}
<1>1. CASE w.form = "long"
  BY <1>1 DEF GrammarOK, Args!Kind, Args!TakesValue
<1>2. CASE w.form = "short"
  <2> DEFINE N == {i \in DOMAIN w.letters : w.letters[i] \in DOMAIN g.values}
  <2>1. N \in SUBSET Nat
    BY <1>2 DEF WordsOK
  <2>2. N # {}
    BY <1>2 DEF Args!TakesValue, Args!Range
  <2>3. Args!Taker(g, w) \in N
    BY <2>1, <2>2, MinIs DEF Args!Taker
  <2> QED BY <1>2, <2>3 DEF GrammarOK, Args!Kind
<1> QED BY <1>1, <1>2 DEF Args!TakesValue

(* The options that have their value with word i. *)
Done(g, args, i) ==
    {j \in {i} : Args!Roles(g, args)[i] = "option" /\ Args!TakesValue(g, args[i]) /\ ~Args!Hungry(g, args[i])}
      \cup {j \in {i - 1} : Waiting(g, args, i - 1)}

(* Behind one more word, the same options have their value and those that have it with this word. *)
LEMMA DoneIs ==
  ASSUME NEW g, NEW args, NEW i \in Nat \ {0}
  PROVE  /\ Done(g, args, i) \in SUBSET (1..i)
         /\ \A j \in 1..i : HasValue(g, args, j, i) <=>
               j \in Done(g, args, i) \/ (j < i /\ HasValue(g, args, j, i - 1))
<1>1. Done(g, args, i) \in SUBSET (1..i)
  BY DEF Done, Waiting
<1>2. ASSUME NEW j \in 1..i
      PROVE  HasValue(g, args, j, i) <=> j \in Done(g, args, i) \/ (j < i /\ HasValue(g, args, j, i - 1))
  <2>1. CASE j = i
    BY <2>1 DEF HasValue, Done
  <2>2. CASE j = i - 1
    BY <2>2 DEF HasValue, Done, Waiting, Args!Hungry
  <2>3. CASE j < i - 1
    BY <2>3 DEF HasValue, Done
  <2> QED BY <2>1, <2>2, <2>3
<1> QED BY <1>1, <1>2

(* Whatever word comes next, if it is not refused, it is read alike. *)
LEMMA AlikeStep ==
  ASSUME NEW g, GrammarOK(g), NEW W, WordsOK(W), NEW args \in Seq(W), NEW i \in 1..Len(args),
         NEW r \in ArgStates(W), ReadAlike(g, args, i - 1, r), ~Args!GnuStep(g, r, args[i]).errors
  PROVE  ReadAlike(g, args, i, Args!GnuStep(g, r, args[i]))
<1> DEFINE s == Args!GnuStep(g, r, args[i])
           w == args[i]
           role == Args!Roles(g, args)
           new == Done(g, args, i)
<1> SUFFICES ReadAlike(g, args, i, s)
  OBVIOUS
<1>1. w \in W /\ i \in Nat \ {0} /\ i - 1 \in 0..Len(args)
  OBVIOUS
<1>2. role[0] = "command" /\ role[i] = Args!Role(g, args, i, role[i - 1])
  BY RolesOn
<1>3. role[i] = "value" <=> Waiting(g, args, i - 1)
  BY <1>1, <1>2 DEF Args!Role, Waiting
<1>4. r.pending # Args!No <=> Waiting(g, args, i - 1)
  <2>1. ASSUME Waiting(g, args, i - 1) PROVE Args!Kind(g, args[i - 1]) \in Kinds
    <3>1. args[i - 1] \in W /\ Args!TakesValue(g, args[i - 1])
      BY <2>1 DEF Waiting, Args!Hungry
    <3> QED BY <3>1, KindType
  <2>2. Args!No \notin Kinds
    BY DEF Args!No, Kinds
  <2> QED BY <2>1, <2>2 DEF ReadAlike
<1>5. new \in SUBSET (1..i) /\ \A j \in 1..i : HasValue(g, args, j, i) <=>
               j \in new \/ (j < i /\ HasValue(g, args, j, i - 1))
  BY <1>1, DoneIs
<1>6. OperandsRead(g, args, i - 1, r) /\ ValuesRead(g, args, i - 1, r)
  BY DEF ReadAlike
<1> HIDE DEF new
<1>7. CASE r.pending # Args!No
  <2> DEFINE t == Args!Value(r.pending, Args!Whole(w), r)
  <2>1. s = [t EXCEPT !.pending = Args!No]
    BY <1>7 DEF Args!GnuStep
  <2>2. Taken(r.pending, Args!Whole(w), r, t) /\ t.operands = r.operands /\ t.ended = r.ended
    BY ValueTakes
  <2>3. t \in ArgStates(W)
    <3>1. Args!Whole(w) \in Files(W)
      BY <1>1 DEF Files, Args!Whole
    <3> QED BY <3>1, ValueType
  <2> HIDE DEF t
  <2>4. /\ Taken(r.pending, Args!Whole(w), r, s) /\ s.operands = r.operands /\ s.ended = r.ended
        /\ s.pending = Args!No
    BY <2>1, <2>2, <2>3 DEF Taken, ArgStates
  <2>5. role[i] = "value" /\ role[i - 1] = "option" /\ r.pending = Args!Kind(g, args[i - 1])
        /\ Args!Hungry(g, args[i - 1])
    BY <1>3, <1>4, <1>7 DEF ReadAlike, Waiting
  <2> HIDE DEF s
  <2>6. new = {i - 1} /\ ValueOf(g, args, i - 1) = Args!Whole(w)
    BY <1>3, <1>4, <1>7, <2>5 DEF Done, ValueOf, new
  <2>7. OperandsRead(g, args, i, s)
    BY <1>1, <1>6, <2>4, <2>5, SameOperands DEF IsOperand
  <2>8. ValuesRead(g, args, i, s)
    <3>1. r.paths \subseteq s.paths /\ (r.recursive => s.recursive)
      BY <2>4 DEF Taken
    <3>2. s.pattern <=> r.pattern \/ \E j \in new : IsPattern(g, args, j)
      BY <2>4, <2>5, <2>6 DEF Taken, IsPattern
    <3>3. \A j \in new :
            /\ Args!Kind(g, args[j]) \in {"path", "pattern-file"} => ValueOf(g, args, j) \in s.paths
            /\ Args!Kind(g, args[j]) = "directories" /\ Args!Recurses(ValueOf(g, args, j)) => s.recursive
      BY <2>4, <2>5, <2>6 DEF Taken
    <3>4. Args!Roles(g, args)[i] = "option" /\ Walker(g, args[i]) => s.recursive
      BY <2>5
    <3> QED BY <1>1, <1>5, <1>6, <3>1, <3>2, <3>3, <3>4, MoreValues
  <2> QED BY <2>4, <2>5, <2>7, <2>8 DEF ReadAlike, Waiting
<1>8. CASE r.pending = Args!No
  <2>1. role[i] # "value" /\ ~Waiting(g, args, i - 1)
    BY <1>3, <1>4, <1>8
  <2>2. ASSUME role[i] # "option" PROVE new = {} /\ ~Waiting(g, args, i)
    BY <2>1, <2>2 DEF Done, Waiting, new
  <2>3. ASSUME role[i] # "option", s.paths = r.paths, s.recursive = r.recursive, s.pattern = r.pattern
        PROVE  ValuesRead(g, args, i, s)
    <3> HIDE DEF s
    <3> QED BY <1>1, <1>5, <1>6, <2>2, <2>3, MoreValues
  <2>4. CASE r.ended \/ w.form \in {"word", "stdin"}
    <3>1. s = [r EXCEPT !.operands = Append(r.operands, w)]
      BY <1>8, <2>4 DEF Args!GnuStep
    <3>2. /\ s.operands = Append(r.operands, w) /\ s.paths = r.paths /\ s.recursive = r.recursive
          /\ s.pattern = r.pattern /\ s.ended = r.ended /\ s.pending = Args!No
      BY <1>8, <3>1 DEF ArgStates
    <3>3. role[i] = IF r.ended THEN "rest" ELSE "operand"
      BY <1>2, <2>1, <2>4 DEF ReadAlike, Args!Role
    <3> HIDE DEF s
    <3>4. OperandsRead(g, args, i, s)
      <4>1. r.operands \in Seq(W)
        BY DEF ArgStates
      <4> QED BY <1>1, <1>6, <3>2, <3>3, <4>1, MoreOperands DEF IsOperand
    <3> QED BY <2>2, <2>3, <3>2, <3>3, <3>4 DEF ReadAlike, ArgStates
  <2>5. CASE ~r.ended /\ w.form = "end"
    <3>1. s = [r EXCEPT !.ended = TRUE]
      BY <1>8, <2>5 DEF Args!GnuStep
    <3>2. /\ s.operands = r.operands /\ s.paths = r.paths /\ s.recursive = r.recursive
          /\ s.pattern = r.pattern /\ s.ended /\ s.pending = Args!No
      BY <1>8, <3>1 DEF ArgStates
    <3>3. role[i] = "end"
      BY <1>2, <2>1, <2>5 DEF ReadAlike, Args!Role
    <3> HIDE DEF s
    <3>4. OperandsRead(g, args, i, s)
      BY <1>1, <1>6, <3>2, <3>3, SameOperands DEF IsOperand
    <3> QED BY <2>2, <2>3, <3>2, <3>3, <3>4 DEF ReadAlike
  <2>6. CASE ~r.ended /\ w.form \notin {"word", "stdin", "end"}
    <3>1. role[i] = "option"
      BY <1>2, <2>1, <2>6 DEF ReadAlike, Args!Role
    <3>2. /\ s.operands = r.operands /\ ~s.ended /\ (r.recursive => s.recursive)
          /\ ~Args!TakesValue(g, w) => s.pending = Args!No /\ s.paths = r.paths /\ s.pattern = r.pattern
          /\ Args!Hungry(g, w) => s.pending = Args!Kind(g, w) /\ s.paths = r.paths /\ s.pattern = r.pattern
          /\ Args!TakesValue(g, w) /\ ~Args!Hungry(g, w) =>
                s.pending = Args!No /\ Taken(Args!Kind(g, w), Own(g, w), r, s)
          /\ Walker(g, w) => s.recursive
      BY <1>1, <1>8, <2>6, OptionStep
    <3> HIDE DEF s
    <3>3. OperandsRead(g, args, i, s)
      <4>1. ~IsOperand(g, args, i) /\ s.operands = r.operands
        BY <3>1, <3>2 DEF IsOperand
      <4> QED BY <1>1, <1>6, <4>1, SameOperands
    <3>4. CASE Args!TakesValue(g, w) /\ ~Args!Hungry(g, w)
      <4>1. new = {i} /\ ValueOf(g, args, i) = Own(g, w)
        BY <2>1, <3>1, <3>4 DEF Done, ValueOf, new
      <4>2. r.paths \subseteq s.paths /\ (s.pattern <=> r.pattern \/ \E j \in new : IsPattern(g, args, j))
        BY <3>2, <3>4, <4>1 DEF Taken, IsPattern
      <4>3. \A j \in new :
            /\ Args!Kind(g, args[j]) \in {"path", "pattern-file"} => ValueOf(g, args, j) \in s.paths
            /\ Args!Kind(g, args[j]) = "directories" /\ Args!Recurses(ValueOf(g, args, j)) => s.recursive
        BY <3>2, <3>4, <4>1 DEF Taken
      <4>4. ValuesRead(g, args, i, s)
        BY <1>1, <1>5, <1>6, <3>2, <4>2, <4>3, MoreValues
      <4> QED BY <3>1, <3>2, <3>3, <3>4, <4>4 DEF ReadAlike, Waiting
    <3>5. CASE ~(Args!TakesValue(g, w) /\ ~Args!Hungry(g, w))
      <4>1. new = {} /\ s.paths = r.paths /\ s.pattern = r.pattern
        BY <2>1, <3>2, <3>5 DEF Done, Args!Hungry, new
      <4>2. ValuesRead(g, args, i, s)
        BY <1>1, <1>5, <1>6, <3>2, <4>1, MoreValues
      <4> QED BY <1>1, <3>1, <3>2, <3>3, <3>5, <4>2 DEF ReadAlike, Waiting, Args!Hungry
    <3> QED BY <3>4, <3>5
  <2> QED BY <2>4, <2>5, <2>6
<1> QED BY <1>7, <1>8

(* Every state of an argv that is not refused is what getopt_long has read by then. *)
LEMMA AlikeAll ==
  ASSUME NEW g, GrammarOK(g), NEW W, WordsOK(W), NEW args \in Seq(W),
         ~Args!GnuSteps(g, args)[Len(args)].errors
  PROVE  \A i \in 0..Len(args) : ReadAlike(g, args, i, Args!GnuSteps(g, args)[i])
<1> DEFINE n == Len(args)
           reads == Args!GnuSteps(g, args)
           clean == {i \in 0..n : ~reads[i].errors}
           good == {i \in 0..n : ReadAlike(g, args, i, reads[i])}
<1>1. n \in Nat /\ \A i \in 1..n : args[i] \in W /\ i - 1 \in 0..n
  OBVIOUS
<1>2. /\ reads[0] = Args!Nothing /\ \A i \in 0..n : reads[i] \in ArgStates(W)
      /\ \A i \in 1..n : reads[i] = Args!GnuStep(g, reads[i - 1], args[i])
  BY GnuOn
<1>3. \A i \in 0..n : ~reads[i].errors
  <2> HIDE DEF reads, n
  <2>1. \A i \in 1..n : reads[i - 1].errors => reads[i].errors
    BY <1>1, <1>2, ErrorStays
  <2>2. n \in clean /\ \A i \in 1..n : i \in clean => i - 1 \in clean
    BY <1>1, <1>2, <2>1 DEF reads, n
  <2> HIDE DEF clean
  <2>3. \A i \in 0..n : i \in clean
    BY <1>1, <2>2, DownTo
  <2> QED BY <2>3 DEF clean
<1>4. 0 \in good
  <2>1. Args!Roles(g, args)[0] = "command"
    BY RolesOn
  <2>2. ReadAlike(g, args, 0, Args!Nothing)
    BY <2>1 DEF ReadAlike, Args!Nothing, Waiting, OperandsRead, ValuesRead
  <2> QED BY <1>1, <1>2, <2>2
<1> HIDE DEF reads, n
<1>5. ASSUME NEW i \in 1..n, i - 1 \in good PROVE i \in good
  <2>1. reads[i - 1] \in ArgStates(W) /\ ReadAlike(g, args, i - 1, reads[i - 1])
        /\ ~Args!GnuStep(g, reads[i - 1], args[i]).errors
    BY <1>1, <1>2, <1>3, <1>5
  <2>2. ReadAlike(g, args, i, Args!GnuStep(g, reads[i - 1], args[i]))
    BY <2>1, AlikeStep DEF n
  <2> QED BY <1>2, <2>2
<1> HIDE DEF good
<1>6. \A i \in 0..n : i \in good
  BY <1>1, <1>4, <1>5, UpTo
<1> QED BY <1>6 DEF reads, n, good

(* What getopt_long takes from a whole argv, in the words of the states. *)
LEMMA ValuesAre ==
  ASSUME NEW g, NEW W, NEW args \in Seq(W)
  PROVE  Args!Values(g, args) =
            {[kind |-> Args!Kind(g, args[j]), file |-> ValueOf(g, args, j)] :
                j \in {l \in 1..Len(args) : HasValue(g, args, l, Len(args))}}
<1>1. DOMAIN args = 1..Len(args)
  OBVIOUS
<1> QED BY <1>1, Zenon DEF Args!Values, HasValue, ValueOf, Own

(* The files of an argv: its operands but for the pattern, and the values that are files. *)
LEMMA FilesRead ==
  ASSUME NEW g, GrammarOK(g), NEW W, WordsOK(W), NEW args \in Seq(W), NEW r \in ArgStates(W),
         ReadAlike(g, args, Len(args), r)
  PROVE  LET operands == IF g.patternFirst /\ ~r.pattern /\ r.operands # <<>>
                         THEN Tail(r.operands) ELSE r.operands
         IN Args!GnuOperands(g, args) = {Args!Whole(w) : w \in Args!Range(operands) \ {Args!Stdin}}
<1> DEFINE n == Len(args)
           all == {j \in DOMAIN args : IsOperand(g, args, j)}
           pattern == g.patternFirst /\ ~\E v \in Args!Values(g, args) : v.kind \in {"pattern", "pattern-file"}
           chosen == {j \in all : ~(pattern /\ j = Args!Min(all)) /\ args[j] # Args!Stdin}
           skips == g.patternFirst /\ ~r.pattern
           operands == IF skips /\ r.operands # <<>> THEN Tail(r.operands) ELSE r.operands
<1>1. n \in Nat /\ DOMAIN args = 1..n
  OBVIOUS
<1>2. /\ \A j \in 1..n : IsOperand(g, args, j) => \E k \in 1..Len(r.operands) : Matches(g, args, r, k, j)
      /\ \A k \in 1..Len(r.operands) : \E j \in 1..n : IsOperand(g, args, j) /\ Matches(g, args, r, k, j)
  BY DEF ReadAlike, OperandsRead
<1>3. pattern <=> skips
  <2>1. r.pattern <=> \E j \in 1..n : HasValue(g, args, j, n) /\ IsPattern(g, args, j)
    BY DEF ReadAlike, ValuesRead
  <2>2. (\E v \in Args!Values(g, args) : v.kind \in {"pattern", "pattern-file"}) <=>
           \E j \in 1..n : HasValue(g, args, j, n) /\ IsPattern(g, args, j)
    <3> HIDE DEF n
    <3>1. Args!Values(g, args) = {[kind |-> Args!Kind(g, args[j]), file |-> ValueOf(g, args, j)] :
                                     j \in {l \in 1..n : HasValue(g, args, l, n)}}
      BY ValuesAre DEF n
    <3>2. ASSUME NEW v \in Args!Values(g, args), v.kind \in {"pattern", "pattern-file"}
          PROVE  \E j \in 1..n : HasValue(g, args, j, n) /\ IsPattern(g, args, j)
      <4>1. PICK j \in 1..n : /\ HasValue(g, args, j, n)
                              /\ v = [kind |-> Args!Kind(g, args[j]), file |-> ValueOf(g, args, j)]
        BY <3>1
      <4>2. v.kind = Args!Kind(g, args[j])
        BY <4>1
      <4> QED BY <3>2, <4>1, <4>2 DEF IsPattern
    <3>3. ASSUME NEW j \in 1..n, HasValue(g, args, j, n), IsPattern(g, args, j)
          PROVE  \E v \in Args!Values(g, args) : v.kind \in {"pattern", "pattern-file"}
      <4> DEFINE v == [kind |-> Args!Kind(g, args[j]), file |-> ValueOf(g, args, j)]
      <4>1. v \in Args!Values(g, args) /\ v.kind = Args!Kind(g, args[j])
        BY <3>1, <3>3
      <4> QED BY <3>3, <4>1 DEF IsPattern
    <3> QED BY <3>2, <3>3
  <2> QED BY <2>1, <2>2
<1>4. Args!GnuOperands(g, args) = {Args!Whole(args[j]) : j \in chosen}
  BY Zenon DEF Args!GnuOperands, IsOperand
<1>5. ASSUME NEW j \in all PROVE j # Args!Min(all) <=> \E l \in 1..(j - 1) : IsOperand(g, args, l)
  <2>1. all \in SUBSET Nat /\ all # {}
    BY <1>1, <1>5
  <2>2. Args!Min(all) \in all /\ \A l \in all : Args!Min(all) <= l
    BY <2>1, MinIs
  <2>3. ASSUME j # Args!Min(all) PROVE \E l \in 1..(j - 1) : IsOperand(g, args, l)
    <3> DEFINE l == Args!Min(all)
    <3>1. l \in 1..n /\ IsOperand(g, args, l) /\ l <= j /\ j \in 1..n
      BY <1>1, <1>5, <2>2
    <3> HIDE DEF l
    <3>2. l \in 1..(j - 1)
      BY <1>1, <2>3, <3>1 DEF l
    <3> QED BY <3>1, <3>2
  <2>4. ASSUME NEW l \in 1..(j - 1), IsOperand(g, args, l) PROVE j # Args!Min(all)
    <3>1. l \in all /\ j \in 1..n
      BY <1>1, <2>4
    <3>2. Args!Min(all) <= l /\ Args!Min(all) \in Nat
      BY <1>1, <2>2, <3>1
    <3> QED BY <2>4, <3>1, <3>2
  <2> QED BY <2>3, <2>4
<1>6. Len(r.operands) \in Nat /\ r.operands \in Seq(W)
  BY DEF ArgStates
<1> HIDE DEF all, pattern, chosen, n
<1>7. ASSUME NEW j \in chosen PROVE args[j] \in Args!Range(operands) \ {Args!Stdin}
  <2>1. j \in all /\ j \in 1..n /\ IsOperand(g, args, j) /\ args[j] # Args!Stdin
    BY <1>1, <1>7 DEF chosen, all
  <2>2. PICK k \in 1..Len(r.operands) : Matches(g, args, r, k, j)
    BY <1>2, <2>1
  <2>3. skips => k > 1
    BY <1>3, <1>5, <1>7, <2>1, <2>2 DEF chosen, Matches
  <2>4. \E l \in DOMAIN operands : operands[l] = r.operands[k]
    <3>1. CASE skips
      <4>1. k - 1 \in 1..Len(Tail(r.operands)) /\ Tail(r.operands)[k - 1] = r.operands[k]
            /\ DOMAIN Tail(r.operands) = 1..Len(Tail(r.operands)) /\ r.operands # <<>>
        BY <1>6, <2>2, <2>3, <3>1
      <4> QED BY <3>1, <4>1
    <3>2. CASE ~skips
      BY <1>6, <2>2, <3>2
    <3> QED BY <3>1, <3>2
  <2> QED BY <2>1, <2>2, <2>4 DEF Matches, Args!Range
<1>8. ASSUME NEW w \in Args!Range(operands) \ {Args!Stdin} PROVE \E j \in chosen : w = args[j]
  <2>1. PICK l \in DOMAIN operands : operands[l] = w
    BY <1>8 DEF Args!Range
  <2>2. PICK k \in 1..Len(r.operands) : w = r.operands[k] /\ (skips => k > 1)
    <3>1. CASE skips /\ r.operands # <<>>
      <4>1. l + 1 \in 1..Len(r.operands) /\ w = r.operands[l + 1] /\ l + 1 > 1
        BY <1>6, <2>1, <3>1
      <4> QED BY <4>1
    <3>2. CASE ~(skips /\ r.operands # <<>>)
      <4>1. l \in 1..Len(r.operands) /\ w = r.operands[l] /\ r.operands # <<>>
        BY <1>6, <2>1, <3>2
      <4> QED BY <3>2, <4>1
    <3> QED BY <3>1, <3>2
  <2>3. PICK j \in 1..n : IsOperand(g, args, j) /\ Matches(g, args, r, k, j)
    BY <1>2, <2>2
  <2>4. j \in all
    BY <1>1, <2>3 DEF all
  <2> QED BY <1>3, <1>5, <1>8, <2>2, <2>3, <2>4 DEF chosen, Matches
<1> HIDE DEF operands
<1>9. {Args!Whole(args[j]) : j \in chosen} = {Args!Whole(w) : w \in Args!Range(operands) \ {Args!Stdin}}
  BY <1>7, <1>8
<1> QED BY <1>4, <1>9 DEF operands

(* Of an argv that no grammar refuses, the command opens and walks what is checked, if it
   does not abbreviate recurse. *)
LEMMA GnuReadsAll ==
  ASSUME NEW g, GrammarOK(g), NEW W, WordsOK(W), NEW args \in Seq(W), ~Args!Gnu(g, args).errors
  PROVE  /\ Args!GnuOpens(g, args) \subseteq Args!Gnu(g, args).paths
         /\ \/ Args!Abbreviated(g, args)
            \/ Args!GnuWalks(g, args) \subseteq Args!Gnu(g, args).walks
<1> DEFINE n == Len(args)
           all == Args!GnuSteps(g, args)[n]
           operands == IF g.patternFirst /\ ~all.pattern /\ all.operands # <<>>
                       THEN Tail(all.operands) ELSE all.operands
           files == {Args!Whole(w) : w \in Args!Range(operands) \ {Args!Stdin}}
           walks == IF ~all.recursive THEN {} ELSE IF files # {} THEN files
                    ELSE IF g.defaultRoot THEN {Args!Here} ELSE {}
<1>1. Args!Gnu(g, args) = [paths |-> all.paths \cup files, errors |-> all.errors \/ all.pending # Args!No,
                           walks |-> walks]
  BY Zenon DEF Args!Gnu
<1> HIDE DEF all
<1>2. n \in 0..Len(args) /\ ~all.errors /\ all \in ArgStates(W)
  <2>1. ~all.errors
    <3> HIDE DEF files, walks
    <3>1. Args!Gnu(g, args).errors = (all.errors \/ all.pending # Args!No)
      BY <1>1
    <3> QED BY <3>1
  <2>2. n \in 0..Len(args)
    OBVIOUS
  <2>3. \A i \in 0..Len(args) : Args!GnuSteps(g, args)[i] \in ArgStates(W)
    BY GnuOn
  <2> HIDE DEF n
  <2> QED BY <2>1, <2>2, <2>3 DEF all
<1>3. ReadAlike(g, args, n, all)
  BY <1>2, AlikeAll DEF all
<1>4. Args!GnuOperands(g, args) = files
  BY <1>2, <1>3, FilesRead
<1>5. DOMAIN args = 1..n
  OBVIOUS
<1> HIDE DEF files, n
<1>6. ASSUME NEW v \in Args!Values(g, args)
      PROVE  /\ v.kind \in {"path", "pattern-file"} => v.file \in all.paths
             /\ v.kind = "directories" /\ Args!Recurses(v.file) => all.recursive
  <2>1. PICK j \in 1..n : /\ HasValue(g, args, j, n)
                          /\ v = [kind |-> Args!Kind(g, args[j]), file |-> ValueOf(g, args, j)]
    BY ValuesAre DEF n
  <2>2. v.kind = Args!Kind(g, args[j]) /\ v.file = ValueOf(g, args, j)
    BY <2>1
  <2> QED BY <1>3, <2>1, <2>2 DEF ReadAlike, ValuesRead
<1>7. Args!GnuRecursive(g, args) /\ ~Args!Abbreviated(g, args) => all.recursive
  <2>1. \A j \in 1..n : Args!Roles(g, args)[j] = "option" /\ Walker(g, args[j]) => all.recursive
    BY <1>3 DEF ReadAlike, ValuesRead
  <2>2. ASSUME NEW v \in Args!Values(g, args), v.kind = "directories",
               Args!Says(v.file, "recurse") \/ Args!Abbreviates(v.file), ~Args!Abbreviated(g, args)
        PROVE  all.recursive
    BY <1>6, <2>2 DEF Args!Abbreviated, Args!Recurses
  <2> QED BY <1>5, <2>1, <2>2 DEF Args!GnuRecursive, Walker
<1>8. Args!GnuOpens(g, args) \subseteq all.paths \cup files
  BY <1>4, <1>6 DEF Args!GnuOpens
<1>9. Args!Abbreviated(g, args) \/ Args!GnuWalks(g, args) \subseteq walks
  BY <1>4, <1>7 DEF Args!GnuWalks
<1> HIDE DEF walks
<1> QED BY <1>1, <1>8, <1>9

-----------------------------------------------------------------------------
(* An argv of find's. *)

Takings == {"nothing", "value", "path", "depth", "date", "refused"}
FindWordsOK(W) ==
    \A w \in W : w.form # "argument" /\ (w.form = "predicate" => w.takes \in Takings)

FoundStates(W) ==
    [phase : {"options", "starts", "predicates", "stopped"}, starts : SUBSET Files(W),
     paths : SUBSET Files(W), pending : Takings \cup {Args!No}, errors : BOOLEAN]

(* Types of what find's reader reads. *)
LEMMA FindStepType ==
  ASSUME NEW W, FindWordsOK(W), NEW w \in W, NEW r \in FoundStates(W)
  PROVE  Args!FindStep(r, w) \in FoundStates(W)
<1>1. Args!Whole(w) \in Files(W)
  BY DEF Files, Args!Whole
<1>2. [r EXCEPT !.phase = "starts", !.starts = r.starts \cup {Args!Whole(w)}] \in FoundStates(W)
  BY <1>1 DEF FoundStates
<1>3. ASSUME NEW e \in BOOLEAN, NEW P \in SUBSET Files(W)
      PROVE  [r EXCEPT !.pending = Args!No, !.errors = r.errors \/ e, !.paths = P] \in FoundStates(W)
  BY DEF FoundStates
<1>4. ASSUME NEW k \in Takings \cup {Args!No}
      PROVE  [r EXCEPT !.phase = "predicates", !.pending = k] \in FoundStates(W)
  BY DEF FoundStates
<1>5. [r EXCEPT !.phase = "stopped", !.errors = TRUE] \in FoundStates(W)
  BY DEF FoundStates
<1>6. [r EXCEPT !.pending = Args!No, !.errors = r.errors \/ (r.pending = "depth" /\ ~Args!Number(w)),
                !.paths = IF r.pending = "path" THEN r.paths \cup {Args!Whole(w)} ELSE r.paths] \in FoundStates(W)
  <2>1. (IF r.pending = "path" THEN r.paths \cup {Args!Whole(w)} ELSE r.paths) \in SUBSET Files(W)
    BY <1>1 DEF FoundStates
  <2>2. (r.pending = "depth" /\ ~Args!Number(w)) \in BOOLEAN
    OBVIOUS
  <2> QED BY <1>3, <2>1, <2>2, Zenon
<1>7. w.form = "predicate" => (IF w.takes = "nothing" THEN Args!No ELSE w.takes) \in Takings \cup {Args!No}
  BY DEF FindWordsOK
<1> QED BY <1>2, <1>4, <1>5, <1>6, <1>7, Zenon DEF Args!FindStep

(* Its state behind a word follows from the one ahead of it, and is typed. *)
LEMMA FindOn ==
  ASSUME NEW W, FindWordsOK(W), NEW args \in Seq(W)
  PROVE  /\ Args!FindSteps(args)[0] = Args!Found
         /\ \A i \in 0..Len(args) : Args!FindSteps(args)[i] \in FoundStates(W)
         /\ \A i \in 1..Len(args) :
               Args!FindSteps(args)[i] = Args!FindStep(Args!FindSteps(args)[i - 1], args[i])
<1> DEFINE n == Len(args)
           next == [p \in FoundStates(W) \X (1..n) |-> Args!FindStep(p[1], args[p[2]])]
<1>1. n \in Nat /\ \A i \in 1..n : args[i] \in W
  OBVIOUS
<1>2. Args!Found \in FoundStates(W)
  BY DEF FoundStates, Args!Found
<1>3. next \in [FoundStates(W) \X (1..n) -> FoundStates(W)]
  BY <1>1, FindStepType
<1>4. \A s \in FoundStates(W) : \A i \in 1..n : next[<<s, i>>] = Args!FindStep(s, args[i])
  OBVIOUS
<1> HIDE DEF next, n
<1>5. PICK f \in [0..n -> FoundStates(W)] : Reads(f, Args!Found, n, next)
  BY <1>1, <1>2, <1>3, Reading
<1>6. ASSUME NEW i \in 1..n PROVE f[i] = Args!FindStep(f[i - 1], args[i])
  <2>1. i - 1 \in 0..n /\ f[i - 1] \in FoundStates(W)
    BY <1>1, <1>5
  <2> QED BY <1>4, <1>5, <2>1 DEF Reads
<1>7. f = [i \in 0..n |-> IF i = 0 THEN Args!Found ELSE Args!FindStep(f[i - 1], args[i])]
  BY <1>1, <1>5, <1>6 DEF Reads
<1>8. Args!FindSteps(args) =
         [i \in 0..n |-> IF i = 0 THEN Args!Found
                         ELSE Args!FindStep(Args!FindSteps(args)[i - 1], args[i])]
  BY <1>7, Zenon DEF Args!FindSteps, n
<1> DEFINE reads == Args!FindSteps(args)
<1> HIDE DEF reads
<1>9. reads[0] = Args!Found /\ \A i \in 1..n : reads[i] = Args!FindStep(reads[i - 1], args[i])
  BY <1>1, <1>8 DEF reads
<1> DEFINE good == {i \in 0..n : reads[i] \in FoundStates(W)}
<1>10. 0 \in good /\ \A i \in 1..n : i - 1 \in good => i \in good
  BY <1>1, <1>2, <1>9, FindStepType
<1> HIDE DEF good
<1>11. \A i \in 0..n : i \in good
  BY <1>1, <1>10, UpTo
<1> QED BY <1>9, <1>11 DEF reads, n, good

(* The roles that find gives the words are these. *)
LEMMA FindRolesOn ==
  ASSUME NEW W, NEW args \in Seq(W)
  PROVE  /\ Args!FindRoles(args)[0] = "command"
         /\ \A i \in 1..Len(args) :
               Args!FindRoles(args)[i] = Args!FindRole(args, i, Args!FindRoles(args)[i - 1])
<1> DEFINE n == Len(args)
           forms == {"command", "argument"} \cup {args[i].form : i \in 1..n}
           next == [p \in forms \X (1..n) |-> Args!FindRole(args, p[2], p[1])]
<1>1. n \in Nat /\ "command" \in forms
  OBVIOUS
<1>2. next \in [forms \X (1..n) -> forms]
  BY DEF Args!FindRole
<1>3. \A s \in forms : \A i \in 1..n : next[<<s, i>>] = Args!FindRole(args, i, s)
  OBVIOUS
<1> HIDE DEF next, n, forms
<1>4. PICK f \in [0..n -> forms] : Reads(f, "command", n, next)
  BY <1>1, <1>2, Reading
<1>5. ASSUME NEW i \in 1..n PROVE f[i] = Args!FindRole(args, i, f[i - 1])
  <2>1. i - 1 \in 0..n /\ f[i - 1] \in forms
    BY <1>1, <1>4
  <2> QED BY <1>3, <1>4, <2>1 DEF Reads
<1>6. f = [i \in 0..n |-> IF i = 0 THEN "command" ELSE Args!FindRole(args, i, f[i - 1])]
  BY <1>1, <1>4, <1>5 DEF Reads
<1>7. Args!FindRoles(args) =
         [i \in 0..n |-> IF i = 0 THEN "command"
                         ELSE Args!FindRole(args, i, Args!FindRoles(args)[i - 1])]
  BY <1>6, Zenon DEF Args!FindRoles, n
<1> DEFINE roles == Args!FindRoles(args)
<1> HIDE DEF roles
<1>8. roles[0] = "command" /\ \A i \in 1..n : roles[i] = Args!FindRole(args, i, roles[i - 1])
  BY <1>1, <1>7 DEF roles
<1> QED BY <1>8 DEF roles, n

-----------------------------------------------------------------------------

(* The next word is the argument of predicate i. *)
Asks(args, i) == Args!FindRoles(args)[i] = "predicate" /\ args[i].takes # "nothing"

(* As long as nothing was refused, the state is what find has read so far. *)
FoundAlike(args, i, r) ==
    /\ r.phase # "stopped"
    /\ r.pending = IF i > 0 /\ Asks(args, i) THEN args[i].takes ELSE Args!No
    /\ r.phase \in {"options", "starts"} => r.pending = Args!No
    /\ \A j \in 1..i : Args!FindRoles(args)[j] = "word" => Args!Whole(args[j]) \in r.starts
    /\ \A file \in r.starts : \E j \in 1..i : Args!FindRoles(args)[j] = "word" /\ file = Args!Whole(args[j])
    /\ \A j \in 1..i : Args!FindRoles(args)[j] = "argument" /\ args[j - 1].takes = "path" =>
          Args!Whole(args[j]) \in r.paths

(* Whatever word comes next, if it is not refused, it is read alike. *)
LEMMA FoundStep ==
  ASSUME NEW W, FindWordsOK(W), NEW args \in Seq(W), NEW i \in 1..Len(args),
         NEW r \in FoundStates(W), FoundAlike(args, i - 1, r), ~Args!FindStep(r, args[i]).errors
  PROVE  FoundAlike(args, i, Args!FindStep(r, args[i]))
<1> DEFINE w == args[i]
           s == Args!FindStep(r, w)
           role == Args!FindRoles(args)
<1> SUFFICES FoundAlike(args, i, s)
  OBVIOUS
<1>1. w \in W /\ i \in Nat \ {0}
  OBVIOUS
<1>2. role[0] = "command" /\ role[i] = Args!FindRole(args, i, role[i - 1])
  BY FindRolesOn
<1>3. role[i] = IF i > 1 /\ Asks(args, i - 1) THEN "argument" ELSE w.form
  BY <1>1, <1>2 DEF Args!FindRole, Asks
<1>4. r.pending # Args!No <=> i > 1 /\ Asks(args, i - 1)
  <2>1. ASSUME i > 1, Asks(args, i - 1) PROVE args[i - 1].takes \in Takings
    <3>1. i - 1 \in 1..Len(args) /\ args[i - 1] \in W /\ (i - 1) - 1 \in Nat
      BY <2>1
    <3>2. role[i - 1] = Args!FindRole(args, i - 1, role[i - 1 - 1])
      BY <3>1, FindRolesOn
    <3>3. args[i - 1].form = "predicate"
      BY <2>1, <3>2 DEF Args!FindRole, Asks
    <3> QED BY <3>1, <3>3 DEF FindWordsOK
  <2>2. Args!No \notin Takings
    BY DEF Args!No, Takings
  <2> QED BY <1>1, <2>1, <2>2 DEF FoundAlike
<1>5. /\ r.phase # "stopped" /\ (r.phase \in {"options", "starts"} => r.pending = Args!No)
      /\ \A j \in 1..(i - 1) : role[j] = "word" => Args!Whole(args[j]) \in r.starts
      /\ \A file \in r.starts : \E j \in 1..(i - 1) : role[j] = "word" /\ file = Args!Whole(args[j])
      /\ \A j \in 1..(i - 1) : role[j] = "argument" /\ args[j - 1].takes = "path" =>
            Args!Whole(args[j]) \in r.paths
  BY DEF FoundAlike
<1>6. ASSUME s.phase # "stopped", s.pending = IF Asks(args, i) THEN w.takes ELSE Args!No,
             s.phase \in {"options", "starts"} => s.pending = Args!No,
             s.starts = IF role[i] = "word" THEN r.starts \cup {Args!Whole(w)} ELSE r.starts,
             r.paths \subseteq s.paths,
             role[i] = "argument" /\ args[i - 1].takes = "path" => Args!Whole(w) \in s.paths
      PROVE  FoundAlike(args, i, s)
  <2> HIDE DEF s
  <2>1. \A j \in 1..i : j = i \/ j \in 1..(i - 1)
    BY <1>1
  <2>2. \A j \in 1..(i - 1) : j \in 1..i
    BY <1>1
  <2>3. \A j \in 1..i : role[j] = "word" => Args!Whole(args[j]) \in s.starts
    BY <1>5, <1>6, <2>1
  <2>4. \A file \in s.starts : \E j \in 1..i : role[j] = "word" /\ file = Args!Whole(args[j])
    BY <1>1, <1>5, <1>6, <2>2
  <2>5. \A j \in 1..i : role[j] = "argument" /\ args[j - 1].takes = "path" => Args!Whole(args[j]) \in s.paths
    BY <1>5, <1>6, <2>1
  <2> QED BY <1>1, <1>6, <2>3, <2>4, <2>5 DEF FoundAlike
<1>7. CASE r.pending # Args!No
  <2>1. role[i] = "argument" /\ r.pending = args[i - 1].takes
    BY <1>3, <1>4, <1>7 DEF FoundAlike
  <2>2. s = [r EXCEPT !.pending = Args!No, !.errors = r.errors \/ (r.pending = "depth" /\ ~Args!Number(w)),
                      !.paths = IF r.pending = "path" THEN r.paths \cup {Args!Whole(w)} ELSE r.paths]
    BY <1>5, <1>7 DEF Args!FindStep
  <2>3. /\ s.phase = r.phase /\ s.pending = Args!No /\ s.starts = r.starts
        /\ s.paths = IF r.pending = "path" THEN r.paths \cup {Args!Whole(w)} ELSE r.paths
    BY <2>2 DEF FoundStates
  <2> HIDE DEF s
  <2> QED BY <1>5, <1>6, <2>1, <2>3 DEF Asks
<1>8. CASE r.pending = Args!No
  <2>1. role[i] = w.form
    BY <1>3, <1>4, <1>8
  <2>2. CASE r.phase = "options" /\ w.form = "pre"
    <3>1. s = r
      BY <2>2 DEF Args!FindStep
    <3> HIDE DEF s
    <3> QED BY <1>5, <1>6, <1>8, <2>1, <2>2, <3>1 DEF Asks
  <2>3. CASE r.phase \in {"options", "starts"} /\ w.form = "word"
    <3>1. s = [r EXCEPT !.phase = "starts", !.starts = r.starts \cup {Args!Whole(w)}]
      BY <2>3 DEF Args!FindStep
    <3>2. s.phase = "starts" /\ s.pending = Args!No /\ s.starts = r.starts \cup {Args!Whole(w)}
          /\ s.paths = r.paths
      BY <1>8, <3>1 DEF FoundStates
    <3> HIDE DEF s
    <3> QED BY <1>6, <2>1, <2>3, <3>2 DEF Asks
  <2>4. CASE /\ ~(r.phase = "options" /\ w.form = "pre")
             /\ ~(r.phase \in {"options", "starts"} /\ w.form = "word")
    <3>1. w.form = "predicate" /\ w.takes # "refused"
      BY <1>5, <1>8, <2>4 DEF Args!FindStep, FoundStates
    <3>2. s = [r EXCEPT !.phase = "predicates", !.pending = IF w.takes = "nothing" THEN Args!No ELSE w.takes]
      BY <1>5, <1>8, <2>4, <3>1 DEF Args!FindStep
    <3>3. s.phase = "predicates" /\ s.pending = (IF w.takes = "nothing" THEN Args!No ELSE w.takes)
          /\ s.starts = r.starts /\ s.paths = r.paths
      BY <3>2 DEF FoundStates
    <3> HIDE DEF s
    <3> QED BY <1>6, <2>1, <3>1, <3>3 DEF Asks
  <2> QED BY <2>2, <2>3, <2>4
<1> QED BY <1>7, <1>8

(* A refused argv stays refused. *)
LEMMA FoundErrorStays ==
  ASSUME NEW W, NEW w \in W, NEW r \in FoundStates(W), r.errors
  PROVE  Args!FindStep(r, w).errors
  BY DEF Args!FindStep, FoundStates

(* Of an argv of find's that is not refused, find opens and walks what is checked. *)
LEMMA FindReadsAll ==
  ASSUME NEW W, FindWordsOK(W), NEW args \in Seq(W), ~Args!Find(args).errors
  PROVE  LET find == Args!FindOpens(args) IN
         /\ find.walks \cup find.files \subseteq Args!Find(args).paths
         /\ find.walks \subseteq Args!Find(args).walks
<1> DEFINE n == Len(args)
           reads == Args!FindSteps(args)
           all == reads[n]
           role == Args!FindRoles(args)
           starts == IF all.starts = {} THEN {Args!Here} ELSE all.starts
           clean == {i \in 0..n : ~reads[i].errors}
           good == {i \in 0..n : FoundAlike(args, i, reads[i])}
<1>1. n \in Nat /\ DOMAIN args = 1..n /\ \A i \in 1..n : args[i] \in W /\ i - 1 \in 0..n
  OBVIOUS
<1>2. /\ reads[0] = Args!Found /\ \A i \in 0..n : reads[i] \in FoundStates(W)
      /\ \A i \in 1..n : reads[i] = Args!FindStep(reads[i - 1], args[i])
  BY FindOn
<1>3. Args!Find(args) = [paths |-> all.paths \cup starts, walks |-> starts,
                         errors |-> all.errors \/ all.pending # Args!No]
  BY Zenon DEF Args!Find
<1>4. role[0] = "command"
  BY FindRolesOn
<1> HIDE DEF reads, n
<1>5. \A i \in 0..n : ~reads[i].errors
  <2>1. \A i \in 1..n : reads[i - 1].errors => reads[i].errors
    BY <1>1, <1>2, FoundErrorStays
  <2>2. n \in clean /\ \A i \in 1..n : i \in clean => i - 1 \in clean
    <3>0. all.errors \in BOOLEAN
      BY <1>1, <1>2 DEF FoundStates
    <3> DEFINE fails == all.errors \/ all.pending # Args!No
               paths == all.paths \cup starts
    <3>2. Args!Find(args) = [paths |-> paths, walks |-> starts, errors |-> fails]
      BY <1>3
    <3> HIDE DEF starts, all, fails, paths
    <3>3. ~fails
      BY <3>2
    <3>1. ~all.errors
      BY <3>0, <3>3 DEF fails
    <3> QED BY <1>1, <2>1, <3>1 DEF all
  <2> HIDE DEF clean
  <2>3. \A i \in 0..n : i \in clean
    BY <1>1, <2>2, DownTo
  <2> QED BY <2>3 DEF clean
<1>6. 0 \in good
  <2>1. FoundAlike(args, 0, Args!Found)
    BY DEF FoundAlike, Args!Found
  <2> QED BY <1>1, <1>2, <2>1
<1>7. ASSUME NEW i \in 1..n, i - 1 \in good PROVE i \in good
  <2>1. reads[i - 1] \in FoundStates(W) /\ FoundAlike(args, i - 1, reads[i - 1])
        /\ ~Args!FindStep(reads[i - 1], args[i]).errors
    BY <1>1, <1>2, <1>5, <1>7
  <2>2. FoundAlike(args, i, Args!FindStep(reads[i - 1], args[i]))
    BY <2>1, FoundStep DEF n
  <2> QED BY <1>2, <2>2
<1>8. FoundAlike(args, n, all)
  <2> HIDE DEF good
  <2>1. n \in good
    BY <1>1, <1>6, <1>7, UpTo
  <2> QED BY <2>1 DEF good
<1> DEFINE walks == IF \E i \in DOMAIN args : role[i] = "word"
                    THEN {Args!Whole(args[i]) : i \in {j \in DOMAIN args : role[j] = "word"}} ELSE {Args!Here}
           files == {Args!Whole(args[i]) : i \in {j \in DOMAIN args :
                        role[j] = "argument" /\ args[j - 1].takes = "path"}}
<1>9. Args!FindOpens(args) = [walks |-> walks, files |-> files]
  BY Zenon DEF Args!FindOpens
<1> HIDE DEF all
<1>10. walks \subseteq starts
  BY <1>1, <1>8 DEF FoundAlike
<1>11. files \subseteq all.paths
  BY <1>1, <1>8 DEF FoundAlike
<1> HIDE DEF walks, files, starts
<1> QED BY <1>3, <1>9, <1>10, <1>11

-----------------------------------------------------------------------------
(* A word of a program without a grammar. *)

(* The first k items of a sequence, and the rest. *)
Upto(t, k) == SubSeq(t, 1, k)
Behind(t, k) == SubSeq(t, k + 1, Len(t))

(* Sequences, cut in two. *)
LEMMA UptoIs ==
  ASSUME NEW S, NEW t \in Seq(S), NEW k \in 0..Len(t)
  PROVE  Upto(t, k) \in Seq(S) /\ Len(Upto(t, k)) = k /\ \A i \in 1..k : Upto(t, k)[i] = t[i]
  BY DEF Upto

LEMMA BehindIs ==
  ASSUME NEW S, NEW t \in Seq(S), NEW k \in 0..Len(t)
  PROVE  /\ Behind(t, k) \in Seq(S) /\ Len(Behind(t, k)) = Len(t) - k
         /\ \A i \in 1..(Len(t) - k) : Behind(t, k)[i] = t[k + i]
  BY DEF Behind

LEMMA NotEmpty ==
  ASSUME NEW S, NEW t \in Seq(S), Len(t) > 0
  PROVE  t # <<>>
  OBVIOUS

LEMMA TailIs ==
  ASSUME NEW S, NEW t \in Seq(S), Len(t) > 1
  PROVE  /\ t # <<>> /\ Tail(t) # <<>>
         /\ Tail(t) \in Seq(S) /\ Len(Tail(t)) = Len(t) - 1 /\ Tail(t)[1] = t[2]
<1>1. t # <<>>
  BY NotEmpty
<1>2. Tail(t) \in Seq(S) /\ Len(Tail(t)) = Len(t) - 1 /\ Tail(t)[1] = t[2]
  BY <1>1
<1>3. Tail(t) # <<>>
  <2>1. Len(Tail(t)) > 0
    BY <1>2
  <2> QED BY <1>2, <2>1, NotEmpty
<1> QED BY <1>1, <1>2, <1>3

LEMMA UptoUpto ==
  ASSUME NEW S, NEW t \in Seq(S), NEW k \in 0..Len(t), NEW l \in 0..k
  PROVE  Upto(Upto(t, k), l) = Upto(t, l)
<1>1. /\ Upto(t, k) \in Seq(S) /\ Len(Upto(t, k)) = k /\ \A i \in 1..k : Upto(t, k)[i] = t[i]
      /\ Upto(t, l) \in Seq(S) /\ Len(Upto(t, l)) = l /\ \A i \in 1..l : Upto(t, l)[i] = t[i]
  BY UptoIs
<1>2. /\ Upto(Upto(t, k), l) \in Seq(S) /\ Len(Upto(Upto(t, k), l)) = l
      /\ \A i \in 1..l : Upto(Upto(t, k), l)[i] = Upto(t, k)[i]
  BY <1>1, UptoIs
<1> QED BY <1>1, <1>2, SeqEqual

(* After takes what is behind the first c. *)
LEMMA AfterIs ==
  ASSUME NEW S, NEW t \in Seq(S), NEW c, NEW k \in 1..Len(t), t[k] = c, \A i \in 1..(k - 1) : t[i] # c
  PROVE  Args!After(c, t) = Behind(t, k)
<1> DEFINE N == {i \in DOMAIN t : t[i] = c}
<1>1. N \in SUBSET Nat /\ k \in N /\ \A i \in N : k <= i
  OBVIOUS
<1>2. Args!Min(N) = k
  <2> HIDE DEF N
  <2>1. Args!Min(N) \in N /\ Args!Min(N) <= k
    BY <1>1, MinIs
  <2>2. Args!Min(N) \in Nat /\ k <= Args!Min(N)
    BY <1>1, <2>1
  <2> QED BY <2>1, <2>2
<1>3. \E i \in DOMAIN t : t[i] = c
  BY <1>1
<1> QED BY <1>2, <1>3, Zenon DEF Args!After, Behind

(* What ends in the first c of it has no other. *)
LEMMA EndsIn ==
  ASSUME NEW S, NEW t \in Seq(S), t # <<>>, NEW c, t[Len(t)] = c, Args!After(c, t) = <<>>
  PROVE  \A i \in 1..(Len(t) - 1) : t[i] # c
<1> DEFINE N == {i \in DOMAIN t : t[i] = c}
           m == Args!Min(N)
<1>1. Len(t) \in N /\ N \in SUBSET Nat
  OBVIOUS
<1>2. m \in N /\ \A i \in N : m <= i
  BY <1>1, MinIs
<1>3. SubSeq(t, m + 1, Len(t)) = <<>>
  <2>1. \E i \in DOMAIN t : t[i] = c
    BY <1>1
  <2> QED BY <2>1, Zenon DEF Args!After
<1>4. m \in 1..Len(t)
  BY <1>2
<1> HIDE DEF m
<1>5. m = Len(t)
  BY <1>3, <1>4
<1> QED BY <1>2, <1>5

(* What stands behind the name of an option or its first =. *)
Leftover(t, k) ==
    \/ k = 0 \/ (k = 2 /\ Args!Dashes(t) = 1)
    \/ k > 0 /\ t[k] = "=" /\ \A i \in 1..(k - 1) : t[i] # "="

(* What may come before a name: nothing, a short option, or all up to a first =. *)
LEMMA NamesAre ==
  ASSUME NEW S, NEW t \in Seq(S), NEW k \in 0..Len(t), Args!Names(Upto(t, k))
  PROVE  Leftover(t, k)
<1> DEFINE pre == Upto(t, k)
<1>1. pre \in Seq(S) /\ Len(pre) = k /\ \A i \in 1..k : pre[i] = t[i]
  BY UptoIs
<1> HIDE DEF pre
<1>2. CASE pre = <<>>
  BY <1>1, <1>2 DEF Leftover
<1>3. CASE Len(pre) = 2 /\ Args!Dashes(pre) = 1
  <2>1. k = 2 /\ Len(t) >= 2 /\ pre[1] = t[1] /\ pre[2] = t[2]
    BY <1>1, <1>3
  <2>2. pre # <<>> /\ Tail(pre) # <<>> /\ Tail(pre)[1] = pre[2]
    <3>1. Len(pre) > 1
      BY <1>3
    <3> QED BY <1>1, <3>1, TailIs
  <2>3. t # <<>> /\ Tail(t) # <<>> /\ Tail(t)[1] = t[2]
    BY <2>1, TailIs
  <2>4. Args!Leads("-", pre) /\ ~Args!Leads("-", Tail(pre))
    BY <1>3 DEF Args!Dashes
  <2>5. Args!Leads("-", t) /\ ~Args!Leads("-", Tail(t))
    BY <2>1, <2>2, <2>3, <2>4, Zenon DEF Args!Leads
  <2>6. Args!Dashes(t) = 1
    BY <2>5 DEF Args!Dashes
  <2> QED BY <2>1, <2>6 DEF Leftover
<1>4. CASE pre # <<>> /\ Args!After("=", pre) = <<>> /\ pre[Len(pre)] = "="
  <2>1. \A i \in 1..(k - 1) : pre[i] # "="
    BY <1>1, <1>4, EndsIn
  <2>2. k > 0 /\ \A i \in 1..(k - 1) : i \in 1..k
    BY <1>1, <1>4
  <2> QED BY <1>1, <1>4, <2>1, <2>2 DEF Leftover
<1> QED BY <1>2, <1>3, <1>4 DEF Args!Names, pre

(* What is left over behind these is among the spellings that are looked up. *)
LEMMA LeftoverIs ==
  ASSUME NEW S, NEW t \in Seq(S), NEW k \in 0..Len(t), Leftover(t, k)
  PROVE  Behind(t, k) \in {t, Args!After("=", t)} \cup (IF Args!Dashes(t) = 1 THEN {SubSeq(t, 3, Len(t))} ELSE {})
<1>1. CASE k = 0
  BY <1>1 DEF Behind
<1>2. CASE k = 2 /\ Args!Dashes(t) = 1
  BY <1>2 DEF Behind
<1>3. CASE k > 0 /\ t[k] = "=" /\ \A i \in 1..(k - 1) : t[i] # "="
  <2>1. Args!After("=", t) = Behind(t, k)
    BY <1>3, AfterIs
  <2> QED BY <2>1
<1> QED BY <1>1, <1>2, <1>3 DEF Leftover

(* A word may open a file by its last item: behind a leftover, or an @ and then one. *)
LEMMA MayOpenIs ==
  ASSUME NEW S, NEW t \in Seq(S), Args!MayOpen(t)
  PROVE  \E k \in Nat : /\ Len(t) = k + 1 /\ t[k + 1] = Args!File
                        /\ \/ Leftover(t, k)
                           \/ \E l \in Nat : /\ k = l + 1 /\ t[k] = "@"
                                             /\ Leftover(t, l) \/ \A i \in 1..l : t[i] # "@"
<1> DEFINE k == Len(t) - 1
           l == k - 1
<1>1. t # <<>> /\ t[Len(t)] = Args!File
  BY DEF Args!MayOpen
<1>2. k \in Nat /\ Len(t) = k + 1 /\ k \in 0..Len(t)
  BY <1>1
<1> DEFINE pre == Upto(t, k)
           bare == Upto(pre, Len(pre) - 1)
<1>3. \/ Args!Names(pre)
      \/ pre # <<>> /\ pre[Len(pre)] = "@" /\ (Args!Names(bare) \/ "@" \notin Args!Range(bare))
  BY Zenon DEF Args!MayOpen, Upto
<1> HIDE DEF k
<1>4. pre \in Seq(S) /\ Len(pre) = k /\ \A i \in 1..k : pre[i] = t[i]
  BY <1>2, UptoIs
<1>5. CASE Args!Names(pre)
  <2>1. Leftover(t, k)
    BY <1>2, <1>5, NamesAre
  <2> QED BY <1>1, <1>2, <2>1
<1> HIDE DEF pre
<1>6. CASE pre # <<>> /\ pre[Len(pre)] = "@" /\ (Args!Names(bare) \/ "@" \notin Args!Range(bare))
  <2>1. k > 0 /\ l \in Nat /\ k = l + 1 /\ t[k] = "@" /\ l \in 0..k /\ l \in 0..Len(t)
    BY <1>2, <1>4, <1>6
  <2> HIDE DEF l
  <2>2. bare = Upto(t, l)
    <3>1. Upto(pre, l) = Upto(t, l)
      BY <1>2, <2>1, UptoUpto DEF pre
    <3> QED BY <1>4, <3>1 DEF l
  <2>3. CASE Args!Names(bare)
    <3>1. Leftover(t, l)
      BY <2>1, <2>2, <2>3, NamesAre
    <3> QED BY <1>1, <1>2, <2>1, <3>1
  <2>4. CASE "@" \notin Args!Range(bare)
    <3>1. Upto(t, l) \in Seq(S) /\ Len(Upto(t, l)) = l /\ \A i \in 1..l : Upto(t, l)[i] = t[i]
      BY <2>1, UptoIs
    <3>2. \A i \in 1..l : t[i] # "@"
      BY <2>2, <2>4, <3>1 DEF Args!Range
    <3> QED BY <1>1, <1>2, <2>1, <3>2
  <2> QED BY <1>6, <2>3, <2>4
<1> QED BY <1>3, <1>5, <1>6

(* A file that a program without a grammar may open by one word is looked up. *)
LEMMA WordIsRead ==
  ASSUME NEW S, NEW t \in Seq(S), Args!MayOpen(t)
  PROVE  <<Args!File>> \in Args!Spellings(t)
<1> DEFINE file == <<Args!File>>
           found == {t, Args!After("=", t), Args!After("@", t)}
                      \cup (IF Args!Dashes(t) = 1 THEN {SubSeq(t, 3, Len(t))} ELSE {})
<1> SUFFICES file \in Args!Spellings(t)
  OBVIOUS
<1>1. PICK k \in Nat : /\ Len(t) = k + 1 /\ t[k + 1] = Args!File
                       /\ \/ Leftover(t, k)
                          \/ \E l \in Nat : /\ k = l + 1 /\ t[k] = "@"
                                            /\ Leftover(t, l) \/ \A i \in 1..l : t[i] # "@"
  BY MayOpenIs
<1>2. Args!Spellings(t) = Args!Bare(found) \ {<<>>}
  BY Zenon DEF Args!Spellings
<1>3. ASSUME NEW u \in found, u = file \/ (Args!Leads("@", u) /\ Tail(u) = file)
      PROVE  file \in Args!Spellings(t)
  <2> HIDE DEF found
  <2>1. file # <<>>
    OBVIOUS
  <2> HIDE DEF file
  <2> QED BY <1>2, <1>3, <2>1 DEF Args!Bare
<1>4. ASSUME NEW i \in 0..Len(t), Leftover(t, i) PROVE Behind(t, i) \in found
  <2>1. Behind(t, i) \in {t, Args!After("=", t)} \cup (IF Args!Dashes(t) = 1 THEN {SubSeq(t, 3, Len(t))} ELSE {})
    BY <1>4, LeftoverIs
  <2> QED BY <2>1
<1>5. Args!After("@", t) \in found
  OBVIOUS
<1>6. Behind(t, k) = file
  <2>1. k \in 0..Len(t) /\ Len(t) - k = 1
    BY <1>1
  <2>2. Behind(t, k) \in Seq(S) /\ Len(Behind(t, k)) = 1 /\ Behind(t, k)[1] = Args!File
    <3>1. /\ Behind(t, k) \in Seq(S) /\ Len(Behind(t, k)) = Len(t) - k
          /\ \A i \in 1..(Len(t) - k) : Behind(t, k)[i] = t[k + i]
      BY <2>1, BehindIs
    <3> QED BY <1>1, <2>1, <3>1
  <2>3. file \in Seq(S) /\ Len(file) = 1 /\ file[1] = Args!File
    BY <1>1
  <2> HIDE DEF file
  <2> QED BY <2>2, <2>3, SeqEqual
<1> HIDE DEF found, file
<1>7. CASE Leftover(t, k)
  <2>1. k \in 0..Len(t)
    BY <1>1
  <2> QED BY <1>3, <1>4, <1>6, <1>7, <2>1
<1>8. ASSUME NEW l \in Nat, k = l + 1, t[k] = "@", Leftover(t, l) \/ \A i \in 1..l : t[i] # "@"
      PROVE  file \in Args!Spellings(t)
  <2>1. l \in 0..Len(t) /\ k \in 1..Len(t) /\ k - 1 = l
    BY <1>1, <1>8
  <2>2. CASE Leftover(t, l)
    <3>1. Behind(t, l) \in Seq(S) /\ Len(Behind(t, l)) = 2 /\ Behind(t, l)[1] = "@" /\ Behind(t, l)[2] = Args!File
      <4>1. Len(t) - l = 2 /\ l + 1 = k /\ l + 2 = k + 1
        BY <1>1, <1>8
      <4>2. /\ Behind(t, l) \in Seq(S) /\ Len(Behind(t, l)) = Len(t) - l
            /\ \A i \in 1..(Len(t) - l) : Behind(t, l)[i] = t[l + i]
        BY <2>1, BehindIs
      <4> QED BY <1>1, <1>8, <4>1, <4>2
    <3> DEFINE u == Behind(t, l)
    <3> HIDE DEF u
    <3>2. u \in Seq(S) /\ Len(u) = 2 /\ u[1] = "@" /\ u[2] = Args!File
      BY <3>1 DEF u
    <3>3. Tail(u) \in Seq(S) /\ Len(Tail(u)) = 1 /\ Tail(u)[1] = Args!File /\ u # <<>>
      BY <3>2, TailIs
    <3>4. file \in Seq(S) /\ Len(file) = 1 /\ file[1] = Args!File
      BY <1>1 DEF file
    <3>5. Tail(u) = file
      <4> DEFINE v == Tail(u)
      <4> HIDE DEF v
      <4>1. v \in Seq(S) /\ Len(v) = 1 /\ v[1] = Args!File
        BY <3>3 DEF v
      <4>2. v = file
        BY <3>4, <4>1, SeqEqual
      <4> QED BY <4>2 DEF v
    <3> QED BY <1>3, <1>4, <2>1, <2>2, <3>2, <3>3, <3>5 DEF Args!Leads, u
  <2>3. CASE \A i \in 1..l : t[i] # "@"
    <3>1. Args!After("@", t) = Behind(t, k)
      BY <1>8, <2>1, <2>3, AfterIs
    <3> QED BY <1>3, <1>5, <1>6, <3>1
  <2> QED BY <1>8, <2>2, <2>3
<1>9. CASE \E l \in Nat : k = l + 1 /\ t[k] = "@" /\ (Leftover(t, l) \/ \A i \in 1..l : t[i] # "@")
  BY <1>8, <1>9
<1> QED BY <1>1, <1>7, <1>9

(* The word alone is an argv of one word. *)
LEMMA FallbackReads ==
  ASSUME NEW S, NEW t \in Seq(S), Args!MayOpen(t)
  PROVE  <<Args!File>> \in Args!Fallback(<<t>>).names
<1>1. Args!Fallback(<<t>>).names = UNION {Args!Spellings(<<t>>[i]) : i \in DOMAIN <<t>>}
  BY DEF Args!Fallback
<1>2. 1 \in DOMAIN <<t>> /\ <<t>>[1] = t
  OBVIOUS
<1> QED BY <1>1, <1>2, WordIsRead

-----------------------------------------------------------------------------
(* A URL, read by urlsplit, by a browser and by a server. *)

(* What FiniteSetsExt calls the minimum is one, here too. *)
LEMMA NetMinIs ==
  ASSUME NEW N \in SUBSET Nat, N # {}
  PROVE  Net!Min(N) \in N /\ \A i \in N : Net!Min(N) <= i
<1>1. \E i \in N : \A j \in N : i <= j
  BY LeastOf
<1> QED BY <1>1 DEF Net!Min

(* Where the first of some characters stands. *)
LEMMA FirstIs ==
  ASSUME NEW T, NEW s \in Seq(T), NEW S
  PROVE  /\ Net!First(S, s) \in 1..(Len(s) + 1)
         /\ \A i \in 1..(Net!First(S, s) - 1) : s[i] \notin S
         /\ Net!First(S, s) <= Len(s) => s[Net!First(S, s)] \in S
<1> DEFINE N == {i \in DOMAIN s : s[i] \in S} \cup {Len(s) + 1}
<1>1. N \in SUBSET Nat /\ N # {} /\ N \subseteq 1..(Len(s) + 1)
  OBVIOUS
<1>2. Net!First(S, s) \in N /\ \A i \in N : Net!First(S, s) <= i
  BY <1>1, NetMinIs DEF Net!First
<1> QED BY <1>1, <1>2

(* A place with none of them before it is the first. *)
LEMMA FirstWhere ==
  ASSUME NEW T, NEW s \in Seq(T), NEW S, NEW k \in 1..(Len(s) + 1),
         \A i \in 1..(k - 1) : s[i] \notin S, k <= Len(s) => s[k] \in S
  PROVE  Net!First(S, s) = k
<1>1. /\ Net!First(S, s) \in 1..(Len(s) + 1)
      /\ \A i \in 1..(Net!First(S, s) - 1) : s[i] \notin S
      /\ Net!First(S, s) <= Len(s) => s[Net!First(S, s)] \in S
  BY FirstIs
<1> DEFINE f == Net!First(S, s)
<1> HIDE DEF f
<1>2. f \in 1..(Len(s) + 1) /\ (\A i \in 1..(f - 1) : s[i] \notin S) /\ (f <= Len(s) => s[f] \in S)
  BY <1>1 DEF f
<1>3. ~(f < k) /\ ~(k < f)
  BY <1>2
<1>4. f = k
  BY <1>2, <1>3
<1> QED BY <1>4 DEF f

(* What comes before is from there, and has none of them. *)
LEMMA BeforeIs ==
  ASSUME NEW T, NEW s \in Seq(T), NEW S
  PROVE  /\ Net!Before(S, s) \in Seq(T) /\ Len(Net!Before(S, s)) \in 0..Len(s)
         /\ \A i \in 1..Len(Net!Before(S, s)) : Net!Before(S, s)[i] = s[i] /\ s[i] \notin S
<1> DEFINE f == Net!First(S, s)
<1>1. f \in 1..(Len(s) + 1) /\ \A i \in 1..(f - 1) : s[i] \notin S
  BY FirstIs
<1> HIDE DEF f
<1>2. Net!Before(S, s) = SubSeq(s, 1, f - 1)
  BY DEF Net!Before, f
<1> QED BY <1>1, <1>2

(* All of a text that has none of them comes before them. *)
LEMMA NoneBefore ==
  ASSUME NEW T, NEW s \in Seq(T), NEW S, \A i \in 1..Len(s) : s[i] \notin S
  PROVE  Net!Before(S, s) = s
<1>1. Net!First(S, s) = Len(s) + 1
  BY FirstWhere
<1> QED BY <1>1 DEF Net!Before

(* Decoding, character by character. *)
LEMMA UnquoteIs ==
  ASSUME NEW T, NEW s \in Seq(T)
  PROVE  /\ Net!Unquote(s) \in Seq(T \cup {".", "/", "\\"}) /\ Len(Net!Unquote(s)) = Len(s)
         /\ \A i \in 1..Len(s) : Net!Unquote(s)[i] = Net!Decoded(s[i])
<1> DEFINE n == Len(s)
           W == T \cup {".", "/", "\\"}
<1>1. n \in Nat /\ DOMAIN s = 1..n /\ \A i \in 1..n : s[i] \in T
  OBVIOUS
<1>2. \A i \in 1..n : Net!Decoded(s[i]) \in W
  BY <1>1 DEF Net!Decoded
<1>3. Net!Unquote(s) = [i \in 1..n |-> Net!Decoded(s[i])]
  BY <1>1 DEF Net!Unquote
<1> HIDE DEF n, W
<1>4. [i \in 1..n |-> Net!Decoded(s[i])] \in Seq(W) /\ Len([i \in 1..n |-> Net!Decoded(s[i])]) = n
  BY <1>1, <1>2
<1> QED BY <1>1, <1>3, <1>4 DEF n, W

(* What has nothing encoded is decoded as it stands. *)
LEMMA Unquoted ==
  ASSUME NEW T, NEW s \in Seq(T), \A i \in 1..Len(s) : s[i] \notin Net!Encoded
  PROVE  Net!Unquote(s) = s
<1>1. /\ Net!Unquote(s) \in Seq(T \cup {".", "/", "\\"}) /\ Len(Net!Unquote(s)) = Len(s)
      /\ \A i \in 1..Len(s) : Net!Unquote(s)[i] = Net!Decoded(s[i])
  BY UnquoteIs
<1>2. \A i \in 1..Len(s) : Net!Decoded(s[i]) = s[i]
  BY DEF Net!Decoded, Net!Encoded
<1>3. s \in Seq(T \cup {".", "/", "\\"})
  OBVIOUS
<1> QED BY <1>1, <1>2, <1>3, SeqEqual

(* A browser goes to the host and the port that the firewall has read. *)
LEMMA SameHost ==
  ASSUME NEW T, NEW url \in Seq(T), Net!Strict(url), Numbers \cap (Labels \cup Addresses) = {}
  PROVE  Net!Browser(url) = [host |-> Net!HostIn(Net!Netloc(url)),
                             port |-> Net!PortNumber(Net!PortIn(Net!Netloc(url)))]
<1> DEFINE netloc == Net!Netloc(url)
           host == Net!HostIn(netloc)
<1>1. /\ \A i \in 1..Len(url) : url[i] # "\\"
      /\ \A i \in DOMAIN netloc : netloc[i] \notin Net!Encoded /\ netloc[i] # "@"
      /\ host # <<>> /\ (Net!IsAddress(host) \/ Net!IsName(host))
  BY DEF Net!Strict, Net!Has, Net!Canonical
<1>2. netloc \in Seq(T)
  BY BeforeIs DEF Net!Netloc
<1>3. Net!Before({"/", "\\", "?"}, url) = netloc
  <2>1. {i \in DOMAIN url : url[i] \in {"/", "\\", "?"}} = {i \in DOMAIN url : url[i] \in {"/", "?"}}
    BY <1>1
  <2>2. Net!First({"/", "\\", "?"}, url) = Net!First({"/", "?"}, url)
    BY <2>1, Zenon DEF Net!First
  <2> QED BY <2>2 DEF Net!Before, Net!Netloc
<1> HIDE DEF netloc
<1>4. Net!AfterUser(netloc) = netloc
  <2>1. {i \in DOMAIN netloc : netloc[i] = "@"} \cup {0} = {0}
    BY <1>1
  <2>2. Net!Max({0}) = 0
    BY DEF Net!Max
  <2>3. Net!AfterUser(netloc) = SubSeq(netloc, 0 + 1, Len(netloc))
    BY <2>1, <2>2, Zenon DEF Net!AfterUser
  <2> QED BY <1>2, <2>3
<1>5. host \in Seq(T) /\ Len(host) <= Len(netloc) /\ \A i \in 1..Len(host) : host[i] = netloc[i]
  BY <1>2, <1>4, BeforeIs DEF Net!HostIn
<1> HIDE DEF host
<1>6. Net!Unquote(host) = host
  <2>1. \A i \in 1..Len(host) : host[i] \notin Net!Encoded
    BY <1>1, <1>2, <1>5
  <2> QED BY <1>5, <2>1, Unquoted
<1>7. host[Len(host)] \notin Numbers
  BY <1>1, <1>5 DEF Net!IsAddress, Net!IsName
<1>8. Net!Browser(url) = [host |-> host, port |-> Net!PortNumber(Net!PortIn(netloc))]
  <2>1. Net!Browser(url) =
          [host |-> IF Net!Unquote(host) # <<>> /\ Net!Unquote(host)[Len(Net!Unquote(host))] \in Numbers
                    THEN <<"IPv4">> ELSE Net!Unquote(host),
           port |-> Net!PortNumber(Net!PortIn(netloc))]
    BY <1>3, Zenon DEF Net!Browser, host
  <2> QED BY <1>6, <1>7, <2>1
<1> QED BY <1>8 DEF netloc, host

(* A server's reading of a path, as far as it has come. *)
ServeStates(n, W) == [dirs : Seq(Seq(W)), from : 1..(n + 1)]

(* Types of what a server reads. *)
LEMMA NameType ==
  ASSUME NEW W, NEW part \in Seq(W), NEW server
  PROVE  Net!Name(server, part) \in Seq(W)
  BY BeforeIs DEF Net!Name

LEMMA EnterType ==
  ASSUME NEW W, NEW dirs \in Seq(Seq(W)), NEW name \in Seq(W)
  PROVE  Net!Enter(dirs, name) \in Seq(Seq(W))
<1>1. dirs # <<>> => Net!Front(dirs) \in Seq(Seq(W))
  BY DEF Net!Front
<1>2. Append(dirs, name) \in Seq(Seq(W))
  OBVIOUS
<1> QED BY <1>1, <1>2 DEF Net!Enter

LEMMA ServeStepType ==
  ASSUME NEW W, NEW chars \in Seq(W), NEW i \in 1..Len(chars), NEW server,
         NEW r \in ServeStates(Len(chars), W)
  PROVE  Net!ServeStep(server, chars, i, r) \in ServeStates(Len(chars), W)
<1> DEFINE part == SubSeq(chars, r.from, i - 1)
           dirs == Net!Enter(r.dirs, Net!Name(server, part))
<1>1. part \in Seq(W)
  BY DEF ServeStates
<1>2. r.dirs \in Seq(Seq(W))
  BY DEF ServeStates
<1> HIDE DEF part
<1>3. dirs \in Seq(Seq(W))
  BY <1>1, <1>2, NameType, EnterType
<1> HIDE DEF dirs
<1>4. i + 1 \in 1..(Len(chars) + 1)
  OBVIOUS
<1>5. [dirs |-> dirs, from |-> i + 1] \in ServeStates(Len(chars), W)
  BY <1>3, <1>4 DEF ServeStates
<1> QED BY <1>5 DEF Net!ServeStep, dirs, part

(* Its state behind a character follows from the one ahead of it, and is typed. *)
LEMMA ServingOn ==
  ASSUME NEW W, NEW chars \in Seq(W), NEW server
  PROVE  /\ Net!Serving(server, chars)[0] = [dirs |-> <<>>, from |-> 1]
         /\ \A i \in 0..Len(chars) : Net!Serving(server, chars)[i] \in ServeStates(Len(chars), W)
         /\ \A i \in 1..Len(chars) :
               Net!Serving(server, chars)[i] = Net!ServeStep(server, chars, i, Net!Serving(server, chars)[i - 1])
<1> DEFINE n == Len(chars)
           base == [dirs |-> <<>>, from |-> 1]
           states == ServeStates(n, W)
           next == [p \in states \X (1..n) |-> Net!ServeStep(server, chars, p[2], p[1])]
<1>1. n \in Nat
  OBVIOUS
<1>2. base \in states
  BY <1>1 DEF ServeStates
<1>3. next \in [states \X (1..n) -> states]
  BY ServeStepType
<1>4. \A s \in states : \A i \in 1..n : next[<<s, i>>] = Net!ServeStep(server, chars, i, s)
  OBVIOUS
<1> HIDE DEF next, n, states, base
<1>5. PICK f \in [0..n -> states] : Reads(f, base, n, next)
  BY <1>1, <1>2, <1>3, Reading
<1>6. ASSUME NEW i \in 1..n PROVE f[i] = Net!ServeStep(server, chars, i, f[i - 1])
  <2>1. i - 1 \in 0..n /\ f[i - 1] \in states
    BY <1>1, <1>5
  <2> QED BY <1>4, <1>5, <2>1 DEF Reads
<1>7. f = [i \in 0..n |-> IF i = 0 THEN base ELSE Net!ServeStep(server, chars, i, f[i - 1])]
  BY <1>1, <1>5, <1>6 DEF Reads
<1>8. Net!Serving(server, chars) =
         [i \in 0..n |-> IF i = 0 THEN base
                         ELSE Net!ServeStep(server, chars, i, Net!Serving(server, chars)[i - 1])]
  BY <1>7, Zenon DEF Net!Serving, n, base
<1> DEFINE reads == Net!Serving(server, chars)
<1> HIDE DEF reads
<1>9. reads[0] = base /\ \A i \in 1..n : reads[i] = Net!ServeStep(server, chars, i, reads[i - 1])
  BY <1>1, <1>8 DEF reads
<1> DEFINE good == {i \in 0..n : reads[i] \in states}
<1>10. 0 \in good /\ \A i \in 1..n : i - 1 \in good => i \in good
  BY <1>1, <1>2, <1>9, ServeStepType DEF states, n
<1> HIDE DEF good
<1>11. \A i \in 0..n : i \in good
  BY <1>1, <1>10, UpTo
<1> QED BY <1>9, <1>11 DEF reads, n, good, states, base

(* Between the place where a segment starts and where the server is, there is no slash. *)
Within(server, chars, i, r) ==
    /\ r.from <= i + 1
    /\ r.from = 1 \/ chars[r.from - 1] \in Net!Slashes(server)
    /\ \A j \in (r.from)..i : chars[j] \notin Net!Slashes(server)

(* That is so behind every character. *)
LEMMA WithinAll ==
  ASSUME NEW W, NEW chars \in Seq(W), NEW server
  PROVE  \A i \in 0..Len(chars) : Within(server, chars, i, Net!Serving(server, chars)[i])
<1> DEFINE n == Len(chars)
           reads == Net!Serving(server, chars)
           good == {i \in 0..n : Within(server, chars, i, reads[i])}
<1>1. n \in Nat
  OBVIOUS
<1>2. /\ reads[0] = [dirs |-> <<>>, from |-> 1] /\ \A i \in 0..n : reads[i] \in ServeStates(n, W)
      /\ \A i \in 1..n : reads[i] = Net!ServeStep(server, chars, i, reads[i - 1])
  BY ServingOn
<1> HIDE DEF reads, n
<1>3. 0 \in good
  BY <1>1, <1>2 DEF Within
<1>4. ASSUME NEW i \in 1..n, i - 1 \in good PROVE i \in good
  <2> DEFINE r == reads[i - 1]
  <2>1. i - 1 \in 0..n /\ Within(server, chars, i - 1, r) /\ r.from \in Nat
    BY <1>1, <1>2, <1>4 DEF ServeStates
  <2>2. reads[i] = Net!ServeStep(server, chars, i, r)
    BY <1>2
  <2> HIDE DEF r
  <2>3. CASE chars[i] \in Net!Slashes(server)
    <3>1. reads[i].from = i + 1
      BY <2>2, <2>3 DEF Net!ServeStep
    <3> QED BY <1>1, <2>3, <3>1 DEF Within
  <2>4. CASE chars[i] \notin Net!Slashes(server)
    <3>1. reads[i] = r
      BY <2>2, <2>4 DEF Net!ServeStep
    <3> QED BY <1>1, <2>1, <2>4, <3>1 DEF Within
  <2> QED BY <2>3, <2>4
<1> HIDE DEF good
<1>5. \A i \in 0..n : i \in good
  BY <1>1, <1>3, <1>4, UpTo
<1> QED BY <1>5 DEF good, reads, n

(* What a server has read of a path depends on no more of it. *)
LEMMA SameStart ==
  ASSUME NEW W, NEW one \in Seq(W), NEW two \in Seq(W), NEW m \in Nat, m <= Len(one), m <= Len(two),
         \A i \in 1..m : one[i] = two[i], NEW server
  PROVE  Net!Serving(server, one)[m] = Net!Serving(server, two)[m]
<1> DEFINE first == Net!Serving(server, one)
           second == Net!Serving(server, two)
           good == {i \in 0..m : first[i] = second[i]}
<1>1. /\ first[0] = [dirs |-> <<>>, from |-> 1] /\ second[0] = first[0]
      /\ \A i \in 0..m : first[i] \in ServeStates(Len(one), W)
      /\ \A i \in 1..m : first[i] = Net!ServeStep(server, one, i, first[i - 1])
      /\ \A i \in 1..m : second[i] = Net!ServeStep(server, two, i, second[i - 1])
  BY ServingOn
<1> HIDE DEF first, second
<1>2. 0 \in good
  BY <1>1
<1>3. ASSUME NEW i \in 1..m, i - 1 \in good PROVE i \in good
  <2> DEFINE r == first[i - 1]
             left == SubSeq(one, r.from, i - 1)
             right == SubSeq(two, r.from, i - 1)
  <2>1. r.from \in Nat \ {0} /\ second[i - 1] = r
    BY <1>1, <1>3 DEF ServeStates
  <2>2. first[i] = Net!ServeStep(server, one, i, r) /\ second[i] = Net!ServeStep(server, two, i, r)
    BY <1>1, <2>1
  <2> HIDE DEF r
  <2>3. left = right
    <3>1. \A j \in (r.from)..(i - 1) : one[j] = two[j] /\ one[j] \in W /\ two[j] \in W
      BY <2>1
    <3>2. /\ left \in Seq(W) /\ Len(left) = (IF r.from <= i - 1 THEN i - 1 - r.from + 1 ELSE 0)
          /\ \A j \in 1..(i - 1 - r.from + 1) : left[j] = one[r.from + j - 1]
      BY <2>1, <3>1, SubSeqProperties
    <3>3. /\ right \in Seq(W) /\ Len(right) = (IF r.from <= i - 1 THEN i - 1 - r.from + 1 ELSE 0)
          /\ \A j \in 1..(i - 1 - r.from + 1) : right[j] = two[r.from + j - 1]
      BY <2>1, <3>1, SubSeqProperties
    <3> HIDE DEF left, right
    <3>4. ASSUME NEW j \in 1..Len(left) PROVE left[j] = right[j]
      <4>1. j \in 1..(i - 1 - r.from + 1) /\ r.from + j - 1 \in (r.from)..(i - 1)
        BY <2>1, <3>2
      <4> QED BY <3>1, <3>2, <3>3, <4>1
    <3> QED BY <3>2, <3>3, <3>4, SeqEqual
  <2>4. one[i] = two[i]
    OBVIOUS
  <2>5. Net!ServeStep(server, one, i, r) = Net!ServeStep(server, two, i, r)
    BY <2>3, <2>4, Zenon DEF Net!ServeStep
  <2> QED BY <2>2, <2>5
<1> HIDE DEF good
<1>4. m \in good
  <2>1. \A i \in 0..m : i \in good
    BY <1>2, <1>3, UpTo
  <2> QED BY <2>1
<1> QED BY <1>4 DEF good, first, second

-----------------------------------------------------------------------------

(* A character of the path as the server reads it. *)
Char(server, c) == IF server.decodes THEN Net!Decoded(c) ELSE c

LEMMA TextIs ==
  ASSUME NEW T, NEW path \in Seq(T), NEW server
  PROVE  /\ Net!Text(server, path) \in Seq(T \cup {".", "/", "\\"})
         /\ Len(Net!Text(server, path)) = Len(path) + 1
         /\ Net!Text(server, path)[Len(path) + 1] = "/"
         /\ \A i \in 1..Len(path) : Net!Text(server, path)[i] = Char(server, path[i])
<1> DEFINE W == T \cup {".", "/", "\\"}
           read == IF server.decodes THEN Net!Unquote(path) ELSE path
<1>1. read \in Seq(W) /\ Len(read) = Len(path) /\ \A i \in 1..Len(path) : read[i] = Char(server, path[i])
  <2>1. path \in Seq(W)
    OBVIOUS
  <2>2. /\ Net!Unquote(path) \in Seq(W) /\ Len(Net!Unquote(path)) = Len(path)
        /\ \A i \in 1..Len(path) : Net!Unquote(path)[i] = Net!Decoded(path[i])
    BY UnquoteIs
  <2> QED BY <2>1, <2>2 DEF Char
<1>2. "/" \in W /\ Len(path) \in Nat
  OBVIOUS
<1> HIDE DEF read, W
<1>3. Net!Text(server, path) = Append(read, "/")
  BY DEF Net!Text, read
<1>4. /\ Append(read, "/") \in Seq(W) /\ Len(Append(read, "/")) = Len(path) + 1
      /\ Append(read, "/")[Len(path) + 1] = "/"
      /\ \A i \in 1..Len(path) : Append(read, "/")[i] = read[i]
  BY <1>1, <1>2, AppendProperties
<1> QED BY <1>1, <1>3, <1>4 DEF W

(* A character that is no slash is in some segment. *)
LEMMA InSegment ==
  ASSUME NEW T, NEW path \in Seq(T), NEW i \in 1..Len(path), path[i] # "/"
  PROVE  \E a \in 1..i, b \in i..Len(path) : Net!IsPart({"/"}, path, a, b)
<1> DEFINE n == Len(path)
           ends == {j \in i..n : j = n \/ path[j + 1] = "/"}
           starts == {k \in Nat : k < i /\ (i - k = 1 \/ path[i - k - 1] = "/")}
<1>1. n \in Nat /\ n \in ends /\ ends \in SUBSET Nat
  OBVIOUS
<1>2. PICK b \in ends : \A j \in ends : b <= j
  BY <1>1, LeastOf
<1>3. i - 1 \in starts /\ starts \in SUBSET Nat
  BY <1>1
<1>4. PICK k \in starts : \A j \in starts : k <= j
  BY <1>3, LeastOf
<1> DEFINE a == i - k
<1>5. a \in 1..i /\ b \in i..n /\ (a = 1 \/ path[a - 1] = "/") /\ (b = n \/ path[b + 1] = "/")
  BY <1>1, <1>2, <1>4
<1>6. \A j \in i..b : path[j] # "/"
  <2> SUFFICES ASSUME NEW j \in i..b, path[j] = "/" PROVE FALSE
    OBVIOUS
  <2>1. j > i /\ j - 1 \in i..n /\ (j - 1) + 1 = j
    BY <1>1, <1>5
  <2>2. j - 1 \in ends
    BY <2>1
  <2>3. b <= j - 1
    BY <1>2, <2>2
  <2> QED BY <1>1, <1>5, <2>3
<1>7. \A j \in a..i : path[j] # "/"
  <2> SUFFICES ASSUME NEW j \in a..i, path[j] = "/" PROVE FALSE
    OBVIOUS
  <2> DEFINE l == i - (j + 1)
  <2>1. k \in Nat /\ j \in Nat /\ j < i /\ l \in Nat /\ l < i /\ i - l - 1 = j /\ l < k
    BY <1>4, <1>5
  <2>2. l \in starts
    BY <2>1
  <2>3. k <= l
    BY <1>4, <2>2
  <2> QED BY <2>1, <2>3
<1> HIDE DEF a, ends, starts
<1>8. \A j \in a..b : j \in a..i \/ j \in i..b
  BY <1>1, <1>5
<1>9. a <= b + 1
  BY <1>1, <1>5
<1> QED BY <1>5, <1>6, <1>7, <1>8, <1>9 DEF Net!IsPart, n

(* A part is one of the parts. *)
LEMMA PartOf ==
  ASSUME NEW S, NEW s, NEW a \in 1..(Len(s) + 1), NEW b \in 0..Len(s), Net!IsPart(S, s, a, b)
  PROVE  SubSeq(s, a, b) \in Net!Parts(S, s)
<1> DEFINE p == <<a, b>>
           All == {q \in (1..(Len(s) + 1)) \X (0..Len(s)) : Net!IsPart(S, s, q[1], q[2])}
<1>1. p[1] = a /\ p[2] = b /\ p \in (1..(Len(s) + 1)) \X (0..Len(s))
  OBVIOUS
<1> HIDE DEF p
<1>2. p \in All
  BY <1>1, Zenon
<1>3. SubSeq(s, p[1], p[2]) = SubSeq(s, a, b)
  BY <1>1, Zenon
<1>4. Net!Parts(S, s) = {SubSeq(s, q[1], q[2]) : q \in All}
  BY Zenon DEF Net!Parts
<1> HIDE DEF All
<1> QED BY <1>2, <1>3, <1>4, Zenon

(* In a path without dots to resolve, a server takes nothing for a slash but slashes. *)
LEMMA SlashIs ==
  ASSUME NEW T, NEW path \in Seq(T), ~Net!DotSegments(path), \A i \in 1..Len(path) : path[i] # "\\",
         NEW server, NEW i \in 1..Len(path)
  PROVE  Char(server, path[i]) \in Net!Slashes(server) <=> path[i] = "/"
<1>1. CASE path[i] = "/"
  BY <1>1 DEF Char, Net!Decoded, Net!Slashes
<1>2. CASE path[i] # "/"
  <2>1. PICK a \in 1..i, b \in i..Len(path) : Net!IsPart({"/"}, path, a, b)
    BY <1>2, InSegment
  <2> DEFINE s == SubSeq(path, a, b)
  <2>2. s \in Net!Parts({"/"}, path)
    <3>1. a \in 1..(Len(path) + 1) /\ b \in 0..Len(path)
      OBVIOUS
    <3> QED BY <2>1, <3>1, PartOf
  <2>3. s \in Seq(T) /\ Len(s) = b - a + 1 /\ s[i - a + 1] = path[i] /\ i - a + 1 \in 1..Len(s)
    <3>1. \A j \in a..b : path[j] \in T
      OBVIOUS
    <3>2. /\ s \in Seq(T) /\ Len(s) = (IF a <= b THEN b - a + 1 ELSE 0)
          /\ \A j \in 1..(b - a + 1) : s[j] = path[a + j - 1]
      BY <3>1, SubSeqProperties
    <3>3. i - a + 1 \in 1..(b - a + 1) /\ a + (i - a + 1) - 1 = i
      OBVIOUS
    <3> HIDE DEF s
    <3> QED BY <3>2, <3>3
  <2> HIDE DEF s
  <2>4. Net!Unquote(s)[i - a + 1] \notin {"/", "\\"} /\ Net!Unquote(s)[i - a + 1] = Net!Decoded(path[i])
    <3>1. /\ Net!Unquote(s) \in Seq(T \cup {".", "/", "\\"}) /\ Len(Net!Unquote(s)) = Len(s)
          /\ \A j \in 1..Len(s) : Net!Unquote(s)[j] = Net!Decoded(s[j])
      BY <2>3, UnquoteIs
    <3>2. ~Net!Has({"/", "\\"}, Net!Unquote(s))
      BY <2>2 DEF Net!DotSegments
    <3>3. i - a + 1 \in DOMAIN Net!Unquote(s)
      BY <2>3, <3>1
    <3> QED BY <2>3, <3>1, <3>2, <3>3 DEF Net!Has
  <2> QED BY <1>2, <2>4 DEF Char, Net!Slashes
<1> QED BY <1>1, <1>2

(* The segment that goes up. *)
Up == <<".", ".">>

LEMMA TwoDots ==
  ASSUME NEW W, NEW s \in Seq(W), "." \in W, Len(s) = 2, s[1] = ".", s[2] = "."
  PROVE  s = Up
<1> DEFINE up == <<".", ".">>
<1>1. up \in Seq(W) /\ Len(up) = 2 /\ up[1] = "." /\ up[2] = "."
  OBVIOUS
<1>2. \A i \in 1..Len(s) : s[i] = up[i]
  BY <1>1
<1>3. s = up
  BY <1>1, <1>2, SeqEqual
<1> QED BY <1>3 DEF up, Up

(* No segment goes up when it is decoded. *)
Calm(s) == Net!Before({";"}, Net!Unquote(s)) # Up

(* Two texts that stop at the same place. *)
Alike(S, s, t) == Len(s) = Len(t) /\ \A i \in 1..Len(s) : s[i] \in S <=> t[i] \in S
BothTo(S, s, t, k) == Net!Before(S, s) = SubSeq(s, 1, k) /\ Net!Before(S, t) = SubSeq(t, 1, k)

LEMMA BothBefore ==
  ASSUME NEW W, NEW s \in Seq(W), NEW t \in Seq(W), NEW S, Alike(S, s, t)
  PROVE  \E k \in 0..Len(s) : BothTo(S, s, t, k)
<1> DEFINE f == Net!First(S, s)
           n == Len(s)
<1>1. f \in 1..(n + 1) /\ (\A i \in 1..(f - 1) : s[i] \notin S) /\ (f <= n => s[f] \in S)
  BY FirstIs
<1>2. n \in Nat /\ Len(t) = n /\ \A i \in 1..n : s[i] \in S <=> t[i] \in S
  BY DEF Alike
<1> HIDE DEF f, n
<1>3. Net!First(S, t) = f
  <2>1. ASSUME NEW i \in 1..(f - 1) PROVE t[i] \notin S
    <3>1. i \in 1..n
      BY <1>1, <1>2
    <3> QED BY <1>1, <1>2, <3>1
  <2>2. f <= Len(t) => t[f] \in S
    BY <1>1, <1>2
  <2> QED BY <1>1, <1>2, <2>1, <2>2, FirstWhere
<1>4. f - 1 \in 0..n
  BY <1>1, <1>2
<1>5. BothTo(S, s, t, f - 1)
  BY <1>3, Zenon DEF Net!Before, BothTo, f
<1> QED BY <1>4, <1>5 DEF n

(* What has dots where the other has them goes up if the other does. *)
LEMMA DotsAlike ==
  ASSUME NEW W, "." \in W, NEW s \in Seq(W), NEW t \in Seq(W), NEW n \in Nat, Len(s) = n, Len(t) = n,
         \A i \in 1..n : s[i] = "." => t[i] = ".",
         NEW k \in 0..n, SubSeq(s, 1, k) = Up
  PROVE  SubSeq(t, 1, k) = Up
<1> DEFINE one == SubSeq(s, 1, k)
           two == SubSeq(t, 1, k)
<1>1. one \in Seq(W) /\ Len(one) = k /\ \A i \in 1..k : one[i] = s[i]
  OBVIOUS
<1>2. two \in Seq(W) /\ Len(two) = k /\ \A i \in 1..k : two[i] = t[i]
  OBVIOUS
<1>3. Len(Up) = 2 /\ Up[1] = "." /\ Up[2] = "."
  BY DEF Up
<1>4. one = Up
  OBVIOUS
<1> HIDE DEF one, two
<1>5. k = 2 /\ 1 \in 1..n /\ 2 \in 1..n
  <2>1. k = 2
    BY <1>1, <1>3, <1>4, Zenon
  <2> QED BY <2>1
<1>6. two[1] = "." /\ two[2] = "."
  BY <1>1, <1>2, <1>3, <1>4, <1>5
<1>7. two = Up
  BY <1>2, <1>5, <1>6, TwoDots
<1> QED BY <1>7 DEF two

(* A segment that is calm when it is decoded does not go up, decoded or not. *)
LEMMA NoneUp ==
  ASSUME NEW T, NEW s \in Seq(T), NEW chars \in Seq(T \cup {".", "/", "\\"}), NEW server,
         Len(chars) = Len(s), \A i \in 1..Len(s) : chars[i] = Char(server, s[i]),
         Calm(s)
  PROVE  Net!Name(server, chars) # Up
<1> DEFINE W == T \cup {".", "/", "\\"}
           n == Len(s)
           plain == Net!Unquote(s)
<1>1. plain \in Seq(W) /\ Len(plain) = n /\ \A i \in 1..n : plain[i] = Net!Decoded(s[i])
  BY UnquoteIs
<1>2. n \in Nat /\ Len(chars) = n /\ chars \in Seq(W) /\ "." \in W
  OBVIOUS
<1>3. \A i \in 1..n : chars[i] = Char(server, s[i])
  OBVIOUS
<1> HIDE DEF plain, W, n
<1>4. ASSUME NEW i \in 1..n PROVE (plain[i] = ";" <=> chars[i] = ";") /\ (chars[i] = "." => plain[i] = ".")
  <2>1. plain[i] = Net!Decoded(s[i]) /\ (chars[i] = s[i] \/ chars[i] = plain[i])
    BY <1>1, <1>3 DEF Char
  <2> QED BY <2>1 DEF Net!Decoded
<1>5. PICK k \in 0..n : BothTo({";"}, chars, plain, k)
  <2>1. Alike({";"}, chars, plain)
    BY <1>1, <1>2, <1>4 DEF Alike
  <2>2. \E k \in 0..Len(chars) : BothTo({";"}, chars, plain, k)
    BY <1>1, <1>2, <2>1, BothBefore
  <2> QED BY <1>2, <2>2
<1>6. Net!Before({";"}, plain) # Up
  BY DEF Calm, plain
<1>7. CASE server.parameters
  <2>1. Net!Before({";"}, chars) # Up
    BY <1>1, <1>2, <1>4, <1>5, <1>6, DotsAlike DEF BothTo
  <2> QED BY <1>7, <2>1 DEF Net!Name
<1>8. CASE ~server.parameters /\ chars = Up
  <2>1. Len(Up) = 2 /\ Up[1] = "." /\ Up[2] = "."
    BY DEF Up
  <2>2. ASSUME NEW i \in 1..Len(chars) PROVE chars[i] \notin {";"}
    <3>1. Len(chars) = 2 /\ chars[1] = "." /\ chars[2] = "."
      BY <1>8, <2>1, Zenon
    <3>2. i \in {1, 2}
      BY <3>1
    <3> QED BY <3>1, <3>2
  <2>3. Net!Before({";"}, chars) = chars
    BY <1>2, <2>2, NoneBefore
  <2>4. Net!Before({";"}, chars) # Up
    BY <1>1, <1>2, <1>4, <1>5, <1>6, DotsAlike DEF BothTo
  <2> QED BY <1>8, <2>3, <2>4
<1>9. CASE ~server.parameters /\ chars # Up
  BY <1>9 DEF Net!Name
<1> QED BY <1>7, <1>8, <1>9

(* No segment that a server makes out of such a path goes up. *)
LEMMA EntersDown ==
  ASSUME NEW T, NEW path \in Seq(T), ~Net!DotSegments(path), \A i \in 1..Len(path) : path[i] # "\\",
         NEW server, NEW i \in 1..(Len(path) + 1), Net!Text(server, path)[i] \in Net!Slashes(server),
         NEW a \in Nat, Within(server, Net!Text(server, path), i - 1, [from |-> a]), a > 0
  PROVE  Net!Name(server, SubSeq(Net!Text(server, path), a, i - 1)) # Up
<1> DEFINE W == T \cup {".", "/", "\\"}
           chars == Net!Text(server, path)
           b == i - 1
           s == SubSeq(path, a, b)
           part == SubSeq(chars, a, b)
<1>1. /\ chars \in Seq(W) /\ Len(chars) = Len(path) + 1 /\ chars[Len(path) + 1] = "/"
      /\ \A j \in 1..Len(path) : chars[j] = Char(server, path[j])
  BY TextIs
<1>2. /\ a <= b + 1 /\ (a = 1 \/ chars[a - 1] \in Net!Slashes(server))
      /\ \A j \in a..b : chars[j] \notin Net!Slashes(server)
  BY DEF Within
<1>3. b \in 0..Len(path) /\ a \in 1..(Len(path) + 1) /\ b + 1 = i
  BY <1>2
<1> HIDE DEF chars, b, W
<1>4. \A j \in 1..Len(path) : chars[j] \in Net!Slashes(server) <=> path[j] = "/"
  BY <1>1, SlashIs
<1>5. Net!IsPart({"/"}, path, a, b)
  <2>1. \A j \in a..b : j \in 1..Len(path)
    BY <1>3
  <2>2. a = 1 \/ path[a - 1] = "/"
    <3>1. a # 1 => a - 1 \in 1..Len(path)
      BY <1>3
    <3> QED BY <1>2, <1>4, <3>1
  <2>3. b = Len(path) \/ path[b + 1] = "/"
    <3>1. b # Len(path) => i \in 1..Len(path)
      BY <1>3
    <3> QED BY <1>3, <1>4, <3>1 DEF chars
  <2> QED BY <1>2, <1>4, <2>1, <2>2, <2>3 DEF Net!IsPart
<1>6. s \in Net!Parts({"/"}, path)
  <2> QED BY <1>3, <1>5, PartOf
<1>7. Calm(s)
  <2> HIDE DEF s
  <2> QED BY <1>6 DEF Net!DotSegments, Up, Calm
<1>8. /\ s \in Seq(T) /\ part \in Seq(W) /\ Len(part) = Len(s)
      /\ \A j \in 1..Len(s) : part[j] = Char(server, s[j])
  <2>1. \A j \in a..b : j \in 1..Len(path) /\ path[j] \in T /\ chars[j] \in W
    BY <1>1, <1>3
  <2>2. /\ s \in Seq(T) /\ Len(s) = (IF a <= b THEN b - a + 1 ELSE 0)
        /\ \A j \in 1..(b - a + 1) : s[j] = path[a + j - 1]
    BY <1>3, <2>1, SubSeqProperties
  <2>3. /\ part \in Seq(W) /\ Len(part) = (IF a <= b THEN b - a + 1 ELSE 0)
        /\ \A j \in 1..(b - a + 1) : part[j] = chars[a + j - 1]
    BY <1>3, <2>1, SubSeqProperties
  <2> HIDE DEF s, part
  <2>4. ASSUME NEW j \in 1..Len(s) PROVE part[j] = Char(server, s[j])
    <3>1. j \in 1..(b - a + 1) /\ a + j - 1 \in a..b
      BY <1>3, <2>2
    <3> QED BY <1>1, <2>1, <2>2, <2>3, <3>1
  <2> QED BY <2>2, <2>3, <2>4
<1> HIDE DEF s, part
<1>9. Net!Name(server, part) # Up
  BY <1>7, <1>8, NoneUp DEF W
<1> QED BY <1>9 DEF part, chars, b

(* One sequence starts with the other. *)
Pre(s, t) == Len(s) <= Len(t) /\ \A i \in 1..Len(s) : t[i] = s[i]

(* That is an order. *)
LEMMA PreSame ==
  ASSUME NEW T, NEW s \in Seq(T)
  PROVE  Pre(s, s)
  BY DEF Pre

LEMMA PreOn ==
  ASSUME NEW T, NEW s \in Seq(T), NEW t \in Seq(T), NEW u \in Seq(T), Pre(s, t), Pre(t, u)
  PROVE  Pre(s, u)
<1>1. Len(s) \in Nat /\ Len(t) \in Nat /\ Len(u) \in Nat
  OBVIOUS
<1>2. Len(s) <= Len(t) /\ Len(t) <= Len(u)
  BY DEF Pre
<1>3. ASSUME NEW i \in 1..Len(s) PROVE u[i] = s[i]
  <2>1. i \in 1..Len(t)
    BY <1>1, <1>2
  <2> QED BY <2>1 DEF Pre
<1> QED BY <1>1, <1>2, <1>3 DEF Pre

(* It is the one of SequencesExt. *)
LEMMA PrePrefix ==
  ASSUME NEW T, NEW s \in Seq(T), NEW t \in Seq(T)
  PROVE  Net!IsPrefix(s, t) <=> Pre(s, t)
<1> DEFINE n == Len(s)
           one == SubSeq(s, 1, n)
           two == SubSeq(t, 1, n)
<1>1. n \in Nat /\ Len(t) \in Nat
  OBVIOUS
<1>2. Net!IsPrefix(s, t) <=> n <= Len(t) /\ one = two
  BY DEF Net!IsPrefix
<1>3. one \in Seq(T) /\ Len(one) = n /\ \A i \in 1..n : one[i] = s[i]
  OBVIOUS
<1> SUFFICES ASSUME n <= Len(t) PROVE one = two <=> Pre(s, t)
  BY <1>2 DEF Pre
<1>4. two \in Seq(T) /\ Len(two) = n /\ \A i \in 1..n : two[i] = t[i]
  BY <1>1
<1> HIDE DEF one, two
<1>5. Pre(s, t) <=> \A i \in 1..n : t[i] = s[i]
  BY DEF Pre
<1> HIDE DEF n
<1>6. one = two <=> \A i \in 1..n : one[i] = two[i]
  BY <1>3, <1>4, SeqEqual
<1> QED BY <1>3, <1>4, <1>5, <1>6

(* Who does not go up stays below. *)
LEMMA EnterKeeps ==
  ASSUME NEW W, NEW dirs \in Seq(Seq(W)), NEW name \in Seq(W), name # Up
  PROVE  Pre(dirs, Net!Enter(dirs, name))
<1>1. Net!Enter(dirs, name) = dirs \/ Net!Enter(dirs, name) = Append(dirs, name)
  BY DEF Net!Enter, Up
<1>2. Pre(dirs, dirs)
  BY PreSame
<1>3. Pre(dirs, Append(dirs, name))
  <2>1. /\ Len(Append(dirs, name)) = Len(dirs) + 1
        /\ \A i \in 1..Len(dirs) : Append(dirs, name)[i] = dirs[i]
    BY AppendProperties
  <2>2. Len(dirs) \in Nat
    OBVIOUS
  <2> QED BY <2>1, <2>2 DEF Pre
<1> QED BY <1>1, <1>2, <1>3

(* A server goes only down in a path that has no dots for it to resolve. *)
LEMMA Grows ==
  ASSUME NEW T, NEW path \in Seq(T), ~Net!DotSegments(path), \A i \in 1..Len(path) : path[i] # "\\",
         NEW server, NEW m \in 0..(Len(path) + 1)
  PROVE  Pre(Net!Serving(server, Net!Text(server, path))[m].dirs, Net!Served(server, path))
<1> DEFINE W == T \cup {".", "/", "\\"}
           chars == Net!Text(server, path)
           n == Len(path) + 1
           reads == Net!Serving(server, chars)
           good == {i \in 0..n : m <= i => Pre(reads[m].dirs, reads[i].dirs)}
<1>1. n \in Nat /\ m \in 0..n
  OBVIOUS
<1>2. chars \in Seq(W) /\ Len(chars) = n
  BY TextIs
<1>3. /\ \A i \in 0..n : reads[i] \in ServeStates(n, W)
      /\ \A i \in 1..n : reads[i] = Net!ServeStep(server, chars, i, reads[i - 1])
  <2> HIDE DEF chars, W, n
  <2> QED BY <1>2, ServingOn
<1>4. \A i \in 0..n : Within(server, chars, i, reads[i])
  <2> HIDE DEF chars, W, n
  <2> QED BY <1>2, WithinAll
<1>5. ASSUME NEW i \in 1..n PROVE Pre(reads[i - 1].dirs, reads[i].dirs)
  <2> DEFINE r == reads[i - 1]
             part == SubSeq(chars, r.from, i - 1)
  <2> HIDE DEF reads, n
  <2>1. i - 1 \in 0..n /\ r \in ServeStates(n, W) /\ Within(server, chars, i - 1, r)
    <3>1. i - 1 \in 0..n
      BY <1>1
    <3> HIDE DEF chars, W
    <3> QED BY <1>3, <1>4, <3>1
  <2>2. reads[i] = Net!ServeStep(server, chars, i, r)
    BY <1>3
  <2> HIDE DEF r
  <2>3. r.dirs \in Seq(Seq(W)) /\ r.from \in Nat /\ r.from > 0
    BY <1>1, <2>1 DEF ServeStates
  <2>4. CASE chars[i] \notin Net!Slashes(server)
    <3>1. reads[i] = r
      BY <2>2, <2>4 DEF Net!ServeStep
    <3> HIDE DEF W
    <3> QED BY <2>3, <3>1, PreSame DEF r
  <2>5. CASE chars[i] \in Net!Slashes(server)
    <3>1. Within(server, chars, i - 1, [from |-> r.from])
      BY <2>1 DEF Within
    <3>2. i \in 1..(Len(path) + 1)
      BY DEF n
    <3>3. Net!Name(server, part) # Up
      BY <2>3, <2>5, <3>1, <3>2, EntersDown
    <3>4. part \in Seq(W)
      <4>1. \A j \in (r.from)..(i - 1) : chars[j] \in W
        <5> HIDE DEF chars, W
        <5> QED BY <1>1, <1>2, <2>3
      <4> HIDE DEF chars, W
      <4> QED BY <1>1, <1>2, <2>3, <4>1, SubSeqProperties
    <3> HIDE DEF part, chars, W
    <3>5. Net!Name(server, part) \in Seq(W)
      BY <3>4, NameType
    <3>6. reads[i].dirs = Net!Enter(r.dirs, Net!Name(server, part))
      BY <2>2, <2>5 DEF Net!ServeStep, part
    <3>7. Pre(r.dirs, reads[i].dirs)
      BY <2>3, <3>3, <3>5, <3>6, EnterKeeps
    <3> QED BY <3>7 DEF r
  <2> QED BY <2>4, <2>5
<1> HIDE DEF reads, n, chars, W
<1>6. \A i \in 0..n : reads[i].dirs \in Seq(Seq(W))
  BY <1>3 DEF ServeStates
<1>7. 0 \in good
  <2>1. Pre(reads[0].dirs, reads[0].dirs)
    BY <1>1, <1>6, PreSame
  <2>2. m <= 0 => m = 0
    BY <1>1
  <2> QED BY <1>1, <2>1, <2>2
<1>8. ASSUME NEW i \in 1..n, i - 1 \in good PROVE i \in good
  <2>1. CASE i < m
    BY <1>1, <2>1
  <2>2. CASE i = m
    BY <1>1, <1>6, <2>2, PreSame
  <2>3. CASE i > m
    <3>1. m <= i - 1 /\ i - 1 \in 0..n
      BY <1>1, <2>3
    <3>2. Pre(reads[m].dirs, reads[i - 1].dirs)
      BY <1>8, <3>1
    <3>3. Pre(reads[m].dirs, reads[i].dirs)
      BY <1>1, <1>5, <1>6, <3>1, <3>2, PreOn
    <3> QED BY <1>1, <3>3
  <2> QED BY <1>1, <2>1, <2>2, <2>3
<1>9. \A i \in 0..n : i \in good
  <2> HIDE DEF good
  <2> QED BY <1>1, <1>7, <1>8, UpTo
<1>10. Pre(reads[m].dirs, reads[n].dirs)
  BY <1>1, <1>9
<1>11. Net!Served(server, path) = reads[n].dirs
  BY <1>2 DEF Net!Served, reads, chars
<1> QED BY <1>10, <1>11 DEF reads, chars

(* What a server has read of both, where they are alike. *)
LEMMA ReadBoth ==
  ASSUME NEW T, NEW one \in Seq(T), NEW two \in Seq(T), NEW m \in Nat, m <= Len(one), m <= Len(two),
         \A i \in 1..m : one[i] = two[i], NEW server
  PROVE  Net!Serving(server, Net!Text(server, one))[m] = Net!Serving(server, Net!Text(server, two))[m]
<1> DEFINE W == T \cup {".", "/", "\\"}
           left == Net!Text(server, one)
           right == Net!Text(server, two)
<1>1. left \in Seq(W) /\ Len(left) = Len(one) + 1 /\ \A i \in 1..Len(one) : left[i] = Char(server, one[i])
  BY TextIs
<1>2. right \in Seq(W) /\ Len(right) = Len(two) + 1 /\ \A i \in 1..Len(two) : right[i] = Char(server, two[i])
  BY TextIs
<1>3. Len(one) \in Nat /\ Len(two) \in Nat
  OBVIOUS
<1> HIDE DEF left, right, W
<1>4. m <= Len(left) /\ m <= Len(right)
  <2>1. Len(left) = Len(one) + 1 /\ Len(right) = Len(two) + 1
    BY <1>1, <1>2
  <2> QED BY <1>3, <2>1
<1>5. ASSUME NEW i \in 1..m PROVE left[i] = right[i]
  <2>1. i \in 1..Len(one) /\ i \in 1..Len(two)
    BY <1>3
  <2> QED BY <1>1, <1>2, <2>1
<1>6. Net!Serving(server, left)[m] = Net!Serving(server, right)[m]
  <2>1. left \in Seq(W) /\ right \in Seq(W)
    BY <1>1, <1>2
  <2> QED BY <1>4, <1>5, <2>1, SameStart
<1> QED BY <1>6 DEF left, right

(* A slash at the end adds nothing to what is read. *)
LEMMA EndSlash ==
  ASSUME NEW T, NEW path \in Seq(T), NEW server,
         path = <<>> \/ path[Len(path)] = "/"
  PROVE  Net!Served(server, path) = Net!Serving(server, Net!Text(server, path))[Len(path)].dirs
<1> DEFINE W == T \cup {".", "/", "\\"}
           chars == Net!Text(server, path)
           n == Len(path)
           reads == Net!Serving(server, chars)
           part == SubSeq(chars, n + 1, (n + 1) - 1)
<1>1. n \in Nat /\ (path = <<>> => n = 0) /\ (n # 0 => n \in 1..n)
  OBVIOUS
<1>2. /\ chars \in Seq(W) /\ Len(chars) = n + 1 /\ chars[n + 1] = "/"
      /\ \A i \in 1..n : chars[i] = Char(server, path[i])
  BY TextIs
<1> HIDE DEF chars, W, n
<1>3. /\ reads[0] = [dirs |-> <<>>, from |-> 1] /\ \A i \in 0..(n + 1) : reads[i] \in ServeStates(n + 1, W)
      /\ \A i \in 1..(n + 1) : reads[i] = Net!ServeStep(server, chars, i, reads[i - 1])
  BY <1>2, ServingOn
<1> HIDE DEF reads
<1>4. reads[n].from = n + 1
  <2>1. CASE n = 0
    <3>1. reads[0].from = 1
      BY <1>3
    <3> QED BY <2>1, <3>1
  <2>2. CASE n # 0
    <3>1. path[n] = "/" /\ n \in 1..n /\ n \in 1..(n + 1)
      BY <1>1, <2>2 DEF n
    <3>2. chars[n] \in Net!Slashes(server)
      BY <1>2, <3>1 DEF Char, Net!Decoded, Net!Slashes
    <3>3. reads[n] = Net!ServeStep(server, chars, n, reads[n - 1])
      BY <1>3, <3>1
    <3> QED BY <3>2, <3>3 DEF Net!ServeStep
  <2> QED BY <2>1, <2>2
<1>5. part = <<>>
  BY <1>1, <1>2
<1>6. Net!Name(server, <<>>) = <<>>
  <2>1. <<>> \in Seq(W) /\ \A i \in 1..Len(<<>>) : <<>>[i] \notin {";"}
    OBVIOUS
  <2>2. Net!Before({";"}, <<>>) = <<>>
    BY <2>1, NoneBefore
  <2> QED BY <2>2 DEF Net!Name
<1>7. reads[n + 1].dirs = reads[n].dirs
  <2>1. n + 1 \in 1..(n + 1) /\ (n + 1) - 1 = n
    BY <1>1
  <2>2. reads[n + 1] = Net!ServeStep(server, chars, n + 1, reads[n])
    BY <1>3, <2>1
  <2>3. chars[n + 1] \in Net!Slashes(server)
    BY <1>2 DEF Net!Slashes
  <2>4. reads[n + 1].dirs = Net!Enter(reads[n].dirs, Net!Name(server, part))
    BY <1>4, <2>2, <2>3 DEF Net!ServeStep
  <2>5. reads[n + 1].dirs = Net!Enter(reads[n].dirs, <<>>)
    BY <1>5, <1>6, <2>4, Zenon
  <2> DEFINE dirs == reads[n].dirs
  <2> HIDE DEF dirs
  <2>6. Net!Enter(dirs, <<>>) = dirs
    BY DEF Net!Enter
  <2> QED BY <2>5, <2>6 DEF dirs
<1>8. Net!Served(server, path) = reads[Len(chars)].dirs
  BY Zenon DEF Net!Served, reads, chars
<1>9. Net!Served(server, path) = reads[n].dirs
  BY <1>2, <1>7, <1>8
<1> QED BY <1>9, Zenon DEF reads, chars, n

(* What is served is a sequence of segments. *)
LEMMA ServedType ==
  ASSUME NEW T, NEW path \in Seq(T), NEW server
  PROVE  Net!Served(server, path) \in Seq(Seq(T \cup {".", "/", "\\"}))
<1> DEFINE W == T \cup {".", "/", "\\"}
           chars == Net!Text(server, path)
<1>1. chars \in Seq(W) /\ Len(chars) \in Nat /\ Len(chars) \in 0..Len(chars)
  BY TextIs
<1> HIDE DEF chars, W
<1>2. Net!Serving(server, chars)[Len(chars)] \in ServeStates(Len(chars), W)
  BY <1>1, ServingOn
<1>3. Net!Serving(server, chars)[Len(chars)].dirs \in Seq(Seq(W))
  BY <1>2 DEF ServeStates
<1> QED BY <1>3, Zenon DEF Net!Served, chars, W

(* Whatever serves a path under a prefix serves it from below the prefix. *)
LEMMA PathKept ==
  ASSUME NEW T, NEW prefix \in Seq(T), NEW path \in Seq(T), \A i \in 1..Len(path) : path[i] # "\\",
         Net!UnderPrefix(prefix, path), NEW server
  PROVE  Net!IsPrefix(Net!Served(server, prefix), Net!Served(server, path))
<1> DEFINE W == T \cup {".", "/", "\\"}
           dirs(s, i) == Net!Serving(server, Net!Text(server, s))[i].dirs
           m == Len(prefix)
           n == Len(path)
<1>1. m \in Nat /\ n \in Nat
  OBVIOUS
<1>2. /\ Net!Served(server, prefix) \in Seq(Seq(W)) /\ Net!Served(server, path) \in Seq(Seq(W))
  BY ServedType
<1> HIDE DEF W
<1> SUFFICES Pre(Net!Served(server, prefix), Net!Served(server, path))
  BY <1>2, PrePrefix
<1>3. CASE path = prefix
  BY <1>2, <1>3, PreSame
<1>4. CASE prefix = <<>>
  <2>1. Net!Served(server, prefix) = dirs(prefix, 0)
    <3>1. Len(prefix) = 0
      BY <1>4
    <3> QED BY <1>4, <3>1, EndSlash
  <2>2. dirs(prefix, 0) = <<>>
    <3>1. Net!Text(server, prefix) \in Seq(W)
      BY TextIs DEF W
    <3>2. Net!Serving(server, Net!Text(server, prefix))[0] = [dirs |-> <<>>, from |-> 1]
      BY <3>1, ServingOn
    <3> QED BY <3>2
  <2>3. Len(Net!Served(server, prefix)) = 0 /\ Len(Net!Served(server, path)) \in Nat
    BY <1>2, <2>1, <2>2
  <2> QED BY <2>3 DEF Pre
<1>5. CASE prefix # <<>> /\ path # prefix
  <2> DEFINE base == IF prefix[m] = "/" THEN prefix ELSE Append(prefix, "/")
  <2>1. ~Net!DotSegments(path) /\ Net!IsPrefix(base, path)
    BY <1>5 DEF Net!UnderPrefix
  <2>2. \A k \in 0..(n + 1) : Pre(dirs(path, k), Net!Served(server, path))
    <3> HIDE DEF n
    <3> QED BY <2>1, Grows DEF n
  <2>3. CASE prefix[m] = "/"
    <3>1. Pre(prefix, path)
      <4>1. Net!IsPrefix(prefix, path)
        BY <2>1, <2>3
      <4> QED BY <4>1, PrePrefix
    <3>2. m <= n /\ \A i \in 1..m : prefix[i] = path[i]
      BY <3>1 DEF Pre
    <3>3. dirs(prefix, m) = dirs(path, m)
      BY <1>1, <3>2, ReadBoth
    <3>4. Net!Served(server, prefix) = dirs(prefix, m)
      BY <2>3, EndSlash
    <3>5. m \in 0..(n + 1)
      BY <1>1, <3>2
    <3> HIDE DEF dirs, m, n
    <3> QED BY <2>2, <3>3, <3>4, <3>5
  <2>4. CASE prefix[m] # "/"
    <3> DEFINE all == Append(prefix, "/")
               Z == T \cup {"/"}
    <3>1. prefix \in Seq(Z) /\ path \in Seq(Z) /\ "/" \in Z
      OBVIOUS
    <3> HIDE DEF Z
    <3>2. /\ all \in Seq(Z) /\ Len(all) = m + 1 /\ all[m + 1] = "/"
          /\ \A i \in 1..m : all[i] = prefix[i]
      BY <3>1, AppendProperties
    <3>3. Net!IsPrefix(all, path)
      BY <2>1, <2>4
    <3> HIDE DEF all
    <3>4. Pre(all, path)
      BY <3>1, <3>2, <3>3, PrePrefix
    <3>5. m + 1 <= n /\ \A i \in 1..(m + 1) : path[i] = all[i]
      BY <3>2, <3>4 DEF Pre
    <3>6. \A i \in 1..m : i \in 1..(m + 1)
      BY <1>1
    <3>7. /\ path[m + 1] = "/" /\ \A i \in 1..m : path[i] = prefix[i]
      BY <1>1, <3>2, <3>5, <3>6
    <3>8. dirs(prefix, m + 1) = dirs(path, m + 1)
      <4> DEFINE left == Net!Text(server, prefix)
                 right == Net!Text(server, path)
      <4>1. /\ left \in Seq(W) /\ Len(left) = m + 1 /\ left[m + 1] = "/"
            /\ \A i \in 1..m : left[i] = Char(server, prefix[i])
        BY TextIs DEF W
      <4>2. /\ right \in Seq(W) /\ Len(right) = n + 1
            /\ \A i \in 1..n : right[i] = Char(server, path[i])
        BY TextIs DEF W
      <4> HIDE DEF left, right, m, n
      <4>3. ASSUME NEW i \in 1..(m + 1) PROVE left[i] = right[i]
        <5>1. i \in 1..n /\ (i = m + 1 \/ i \in 1..m)
          BY <1>1, <3>5
        <5>2. Char(server, "/") = "/"
          BY DEF Char, Net!Decoded
        <5> QED BY <3>7, <4>1, <4>2, <5>1, <5>2
      <4>4. m + 1 \in Nat /\ m + 1 <= Len(left) /\ m + 1 <= Len(right)
        BY <1>1, <3>5, <4>1, <4>2
      <4>5. Net!Serving(server, left)[m + 1] = Net!Serving(server, right)[m + 1]
        BY <4>1, <4>2, <4>3, <4>4, SameStart
      <4> QED BY <4>5 DEF left, right
    <3>9. Net!Served(server, prefix) = dirs(prefix, m + 1)
      <4>1. Len(Net!Text(server, prefix)) = m + 1
        BY TextIs
      <4> QED BY <4>1, Zenon DEF Net!Served
    <3>10. m + 1 \in 0..(n + 1)
      BY <1>1, <3>5
    <3> HIDE DEF dirs, m, n
    <3> QED BY <2>2, <3>8, <3>9, <3>10
  <2> QED BY <2>3, <2>4
<1> QED BY <1>3, <1>4, <1>5

(* A URL that an entry covers is read by all as the firewall has read it. *)
LEMMA UrlReadAlike ==
  ASSUME NEW T, NEW url \in Seq(T), NEW entry, entry.path \in Seq(T), Net!Covers(entry, url),
         Numbers \cap (Labels \cup Addresses) = {}
  PROVE  Net!Kept(entry, url)
<1> DEFINE host == Net!HostIn(Net!Netloc(url))
           path == Net!Path(url)
<1>1. /\ Net!Strict(url) /\ Net!PortNumber(Net!PortIn(Net!Netloc(url))) = entry.port
      /\ host = entry.host \/ (entry.wildcard /\ Net!Below(host, entry.host))
      /\ Net!UnderPrefix(entry.path, path)
  BY DEF Net!Covers
<1>2. Net!Browser(url) = [host |-> host, port |-> entry.port]
  BY <1>1, SameHost
<1>3. path \in Seq(T) /\ \A i \in 1..Len(path) : path[i] # "\\"
  <2> DEFINE S == {"/", "?"}
             f == Net!First(S, url)
             from == Net!From(S, url)
  <2>1. \A i \in 1..Len(url) : url[i] # "\\"
    BY <1>1 DEF Net!Strict, Net!Has
  <2>2. f \in 1..(Len(url) + 1) /\ Len(url) \in Nat
    <3> HIDE DEF S
    <3> QED BY FirstIs
  <2>3. from = SubSeq(url, f, Len(url))
    BY DEF Net!From
  <2>4. path = Net!Before({"?"}, from)
    BY DEF Net!Path
  <2> HIDE DEF S, f, from, path
  <2>5. /\ from \in Seq(T) /\ Len(from) = (IF f <= Len(url) THEN Len(url) - f + 1 ELSE 0)
        /\ \A j \in 1..(Len(url) - f + 1) : from[j] = url[f + j - 1]
    <3>1. \A j \in f..Len(url) : url[j] \in T
      BY <2>2
    <3> QED BY <2>2, <2>3, <3>1, SubSeqProperties
  <2>6. ASSUME NEW j \in 1..Len(from) PROVE from[j] # "\\"
    <3>1. j \in 1..(Len(url) - f + 1) /\ f + j - 1 \in 1..Len(url)
      BY <2>2, <2>5
    <3> QED BY <2>1, <2>5, <3>1
  <2>7. path \in Seq(T) /\ Len(path) \in 0..Len(from) /\ \A i \in 1..Len(path) : path[i] = from[i]
    BY <2>4, <2>5, BeforeIs
  <2>8. \A i \in 1..Len(path) : i \in 1..Len(from)
    BY <2>5, <2>7
  <2> QED BY <2>6, <2>7, <2>8
<1> HIDE DEF path, host
<1>4. \A server \in Net!Servers :
        Net!IsPrefix(Net!Served(server, entry.path), Net!Served(server, path))
  BY <1>1, <1>3, PathKept
<1>5. Net!Browser(url).host = host
  BY <1>2
<1>6. Net!Browser(url).host = entry.host \/ (entry.wildcard /\ Net!Below(Net!Browser(url).host, entry.host))
  BY <1>1, <1>5, Zenon
<1> QED BY <1>2, <1>4, <1>6, Zenon DEF Net!Kept, path, host

-----------------------------------------------------------------------------
(* The firewall's reader has its turn, and says what it makes of one of the texts. *)

ReaderInv ==
    \/ text = [reader |-> "none"]
    \/ \E line \in Lines :
          text = [reader |-> "line", line |-> line, passes |-> ~Shell!Problem(line)]
    \/ \E grammar \in Grammars, args \in Argvs :
          text = [reader |-> "argv", grammar |-> grammar, args |-> args,
                  passes |-> ~Args!Gnu(grammar, args).errors]
    \/ \E args \in FindArgvs :
          text = [reader |-> "find", predicates |-> args, passes |-> ~Args!Find(args).errors]
    \/ \E word \in Words : text = [reader |-> "word", word |-> word, passes |-> TRUE]
    \/ \E entry \in Entries, url \in Urls :
          text = [reader |-> "url", entry |-> entry, url |-> url, passes |-> Net!Covers(entry, url)]

(* Nothing is said at first; each reader says what it makes of its text. *)
LEMMA InitReaderInv == ReadersInit => ReaderInv
  BY DEF ReadersInit, ReaderInv

LEMMA NextReaderInv == ReaderInv /\ [ReadersNext]_<<vars, text>> => ReaderInv'
<1> SUFFICES ASSUME ReaderInv, [ReadersNext]_<<vars, text>> PROVE ReaderInv'
  OBVIOUS
<1>1. CASE UNCHANGED text
  BY <1>1 DEF ReaderInv
<1>2. ASSUME NEW line \in Lines, ReadLine(line) PROVE ReaderInv'
  BY <1>2, Zenon DEF ReadLine, ReaderInv
<1>3. ASSUME NEW grammar \in Grammars, NEW args \in Argvs, ReadArgv(grammar, args) PROVE ReaderInv'
  BY <1>3, Zenon DEF ReadArgv, ReaderInv
<1>4. ASSUME NEW args \in FindArgvs, ReadFind(args) PROVE ReaderInv'
  BY <1>4, Zenon DEF ReadFind, ReaderInv
<1>5. ASSUME NEW word \in Words, ReadWord(word) PROVE ReaderInv'
  BY <1>5, Zenon DEF ReadWord, ReaderInv
<1>6. ASSUME NEW entry \in Entries, NEW url \in Urls, ReadUrl(entry, url) PROVE ReaderInv'
  BY <1>6, Zenon DEF ReadUrl, ReaderInv
<1>7. CASE Read
  BY <1>2, <1>3, <1>4, <1>5, <1>6, <1>7, Zenon DEF Read
<1>8. CASE Scan
  BY <1>1, <1>8 DEF Scan
<1> QED BY <1>1, <1>7, <1>8, Zenon DEF ReadersNext

(* Of a line that passes, the words are those of the shell. *)
LEMMA LinePasses == ReaderInv => LineIsWords
<1> SUFFICES ASSUME ReaderInv, Passed("line") PROVE Shell!SameWords(text.line)
  BY DEF LineIsWords
<1>1. text.reader = "line" /\ text.passes
  BY DEF Passed
<1>2. PICK line \in Lines :
        text = [reader |-> "line", line |-> line, passes |-> ~Shell!Problem(line)]
  BY <1>1 DEF ReaderInv
<1>3. line \in Strings
  BY ReadersAssumption DEF Strings
<1>4. text.line = line /\ ~Shell!Problem(line)
  BY <1>1, <1>2
<1>5. Shell!SameWords(line)
  BY <1>3, <1>4, SameReading
<1> QED BY <1>4, <1>5

(* Of an argv that passes, all is checked that the command may open or walk. *)
LEMMA ArgvPasses == ReaderInv => ArgvIsRead
<1> SUFFICES ASSUME ReaderInv PROVE ArgvIsRead
  OBVIOUS
<1>1. ASSUME Passed("argv")
      PROVE  /\ Args!GnuOpens(text.grammar, text.args) \subseteq Args!Gnu(text.grammar, text.args).paths
             /\ \/ Args!Abbreviated(text.grammar, text.args)
                \/ Args!GnuWalks(text.grammar, text.args) \subseteq Args!Gnu(text.grammar, text.args).walks
  <2>1. text.reader = "argv" /\ text.passes
    BY <1>1 DEF Passed
  <2>2. PICK grammar \in Grammars, args \in Argvs :
          text = [reader |-> "argv", grammar |-> grammar, args |-> args,
                  passes |-> ~Args!Gnu(grammar, args).errors]
    BY <2>1 DEF ReaderInv
  <2>3. text.grammar = grammar /\ text.args = args /\ ~Args!Gnu(grammar, args).errors
    BY <2>1, <2>2
  <2>4. args \in Seq(WordsOf(Argvs))
    BY ReadersAssumption
  <2>5. WordsOK(WordsOf(Argvs))
    BY ReadersAssumption DEF WordsOK
  <2>6. GrammarOK(grammar)
    BY GrammarsOK
  <2>7. /\ Args!GnuOpens(grammar, args) \subseteq Args!Gnu(grammar, args).paths
        /\ \/ Args!Abbreviated(grammar, args)
           \/ Args!GnuWalks(grammar, args) \subseteq Args!Gnu(grammar, args).walks
    BY <2>3, <2>4, <2>5, <2>6, GnuReadsAll
  <2> QED BY <2>3, <2>7
<1>2. ASSUME Passed("find")
      PROVE  LET parsed == Args!Find(text.predicates)
                 find   == Args!FindOpens(text.predicates) IN
             find.walks \cup find.files \subseteq parsed.paths /\ find.walks \subseteq parsed.walks
  <2>1. text.reader = "find" /\ text.passes
    BY <1>2 DEF Passed
  <2>2. PICK args \in FindArgvs :
          text = [reader |-> "find", predicates |-> args, passes |-> ~Args!Find(args).errors]
    BY <2>1 DEF ReaderInv
  <2>3. text.predicates = args /\ ~Args!Find(args).errors
    BY <2>1, <2>2
  <2>4. args \in Seq(WordsOf(FindArgvs))
    BY ReadersAssumption
  <2>5. FindWordsOK(WordsOf(FindArgvs))
    BY ReadersAssumption DEF FindWordsOK, Takings
  <2> QED BY <2>3, <2>4, <2>5, FindReadsAll
<1>3. ASSUME Passed("word"), Args!MayOpen(text.word)
      PROVE  <<Args!File>> \in Args!Fallback(<<text.word>>).names
  <2>1. text.reader = "word"
    BY <1>3 DEF Passed
  <2>2. PICK word \in Words : text = [reader |-> "word", word |-> word, passes |-> TRUE]
    BY <2>1 DEF ReaderInv
  <2>3. text.word \in Seq(STRING)
    BY <2>2, ReadersAssumption
  <2> QED BY <1>3, <2>3, FallbackReads
<1> QED BY <1>1, <1>2, <1>3, Zenon DEF ArgvIsRead

(* A URL that passes leads where the entry says. *)
LEMMA UrlPasses == ReaderInv => UrlIsKept
<1> SUFFICES ASSUME ReaderInv, Passed("url") PROVE Net!Kept(text.entry, text.url)
  BY DEF UrlIsKept
<1>1. text.reader = "url" /\ text.passes
  BY DEF Passed
<1>2. PICK entry \in Entries, url \in Urls :
        text = [reader |-> "url", entry |-> entry, url |-> url, passes |-> Net!Covers(entry, url)]
  BY <1>1 DEF ReaderInv
<1>3. text.entry = entry /\ text.url = url /\ Net!Covers(entry, url)
  BY <1>1, <1>2
<1>4. url \in Seq(STRING) /\ entry.path \in Seq(STRING) /\ Numbers \cap (Labels \cup Addresses) = {}
  BY ReadersAssumption
<1>5. Net!Kept(entry, url)
  BY <1>3, <1>4, UrlReadAlike
<1> QED BY <1>3, <1>5

(* That is so in every state. *)
LEMMA ReaderInvariance == ReadersSpec => []ReaderInv
  BY InitReaderInv, NextReaderInv, PTL DEF ReadersSpec

(* The handler's reader has its turn when the walk is over, and does not disturb it: no
   request is passed as free of secrets while it carries one (policy.py, evaluate). *)
THEOREM SecretsStayHere == ReadersSpec => []SecretStopped
<1>1. ReadersInit => IInv
  BY InitIInv DEF ReadersInit
<1>2. IInv /\ [ReadersNext]_<<vars, text>> => IInv'
  <2>1. [ReadersNext]_<<vars, text>> => [Next]_vars
    BY DEF ReadersNext, Scan, Read, ReadLine, ReadArgv, ReadFind, ReadWord, ReadUrl
  <2> QED BY <2>1, NextIInv
<1> QED BY <1>1, <1>2, Stopped, PTL DEF ReadersSpec

(* "The argv the policy checks is the argv that runs": for command lines of any length, if
   the scan finds no problem, bash and zsh split them as shlex does (shell_syntax.py). *)
THEOREM ShellReadsAlike == ReadersSpec => []LineIsWords
  BY LinePasses, ReaderInvariance, PTL

(* For argvs of any length: no file is opened and no tree walked that is not among those the
   policy checks, by a command with a grammar, by find, or by a word of a program without
   one, if nothing is refused (argv.py). *)
THEOREM ProgramsReadAlike == ReadersSpec => []ArgvIsRead
  BY ArgvPasses, ReaderInvariance, PTL

(* For URLs and paths of any length: what an entry of network.allow covers goes to the
   entry's host and port, and stays below its path for any server (network.py). *)
THEOREM ServersReadAlike == ReadersSpec => []UrlIsKept
  BY UrlPasses, ReaderInvariance, PTL
=============================================================================
