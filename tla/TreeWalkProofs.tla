---------------------------- MODULE TreeWalkProofs ----------------------------
(***************************************************************************)
(* Proofs about TreeWalk for any tree, any links and any limit.            *)
(*                                                                         *)
(* A walk without a depth has, for every directory it has seen, either the *)
(* directory still on the stack or all of its entries looked at, but for   *)
(* those still to come of the one being listed (Covered).  A directory is  *)
(* put on the stack once and listed once (Once), so what was looked at can *)
(* be counted by directory and place in it (Counted).  To every directory  *)
(* that was put on the stack there is a way of as many links as its depth  *)
(* says, by directories seen before it (WayInv).                           *)
(***************************************************************************)
EXTENDS TreeWalk, FiniteSetTheorems, SequenceTheorems, TLAPS

Items(s) == {s[i] : i \in 1..Len(s)}

OnStack(d) == \E i \in 1..Len(stack) : stack[i].dir = d

(* Of the directory being listed, entry e is still to be looked at. *)
ToCome(d, e) == d = here.dir /\ e \in Items(rest)

Fine(e) == e \notin Bad /\ (e \in Dirs => e \in seen)

Covered ==
    /\ Root \in seen
    /\ maxDepth = NoLimit /\ hit \in {"walking", "nothing"} =>
          \A d \in seen :
              /\ near[d] = NoLimit
              /\ OnStack(d) \/ (d \in DOMAIN holds /\ \A e \in Entries(d) : Fine(e) \/ ToCome(d, e))

(* What is still to be looked at is the end of the listing. *)
EndOf(t, es) ==
    /\ Len(t) <= Len(es)
    /\ \A i \in 1..Len(t) : t[i] = es[Len(es) - Len(t) + i]

Once ==
    /\ \A i, j \in 1..Len(stack) : stack[i].dir = stack[j].dir => i = j
    /\ \A i \in 1..Len(stack) : stack[i].dir \in seen /\ stack[i].dir \notin DOMAIN holds
    /\ DOMAIN holds \subseteq seen
    /\ rest # <<>> => here.dir \in DOMAIN holds /\ EndOf(rest, holds[here.dir])

(* Place i of directory d is still to be looked at. *)
Ahead(d, i) == d = here.dir /\ i > Len(holds[d]) - Len(rest)

Looked == {p \in Listed : ~Ahead(p[1], p[2])}

Counted ==
    /\ Cardinality(Looked) = visited
    /\ hit = "limit" <=> visited > TreeWalkLimit
    /\ visited <= TreeWalkLimit + 1

Ended == hit = "nothing" => rest = <<>> /\ stack = <<>>

IInv == TypeOK /\ Covered /\ Once /\ Counted /\ Ended

-----------------------------------------------------------------------------
LEMMA ShorterStack ==
  ASSUME TypeOK, stack # <<>>, stack' = SubSeq(stack, 1, Len(stack) - 1)
  PROVE  /\ stack' \in Seq(Places) /\ Len(stack) \in Nat \ {0} /\ Len(stack') = Len(stack) - 1
         /\ \A i \in 1..Len(stack') : i \in 1..Len(stack) /\ i # Len(stack) /\ stack'[i] = stack[i]
         /\ stack[Len(stack)] \in Places
<1>1. stack \in Seq(Places) /\ Len(stack) \in Nat \ {0}
  BY DEF TypeOK
<1>2. \A i \in 1..Len(stack) : stack[i] \in Places
  BY <1>1
<1>3. /\ stack' \in Seq(Places) /\ Len(stack') = Len(stack) - 1
      /\ \A i \in 1..(Len(stack) - 1) : stack'[i] = stack[1 + i - 1]
  <2> DEFINE n == Len(stack) - 1
  <2>1. n \in Nat /\ \A i \in 1..n : stack[i] \in Places
    BY <1>1, <1>2
  <2>2. stack' = SubSeq(stack, 1, n)
    OBVIOUS
  <2> HIDE DEF n
  <2>3. /\ SubSeq(stack, 1, n) \in Seq(Places)
        /\ Len(SubSeq(stack, 1, n)) = IF 1 <= n THEN n - 1 + 1 ELSE 0
        /\ \A i \in 1..(n - 1 + 1) : SubSeq(stack, 1, n)[i] = stack[1 + i - 1]
    BY <2>1, SubSeqProperties
  <2>4. n - 1 + 1 = n /\ (~(1 <= n) => n = 0)
    BY <2>1
  <2>5. /\ stack' \in Seq(Places) /\ Len(stack') = n
        /\ \A i \in 1..n : stack'[i] = stack[1 + i - 1]
    BY <2>2, <2>3, <2>4
  <2> QED BY <2>5 DEF n
<1>4. ASSUME NEW i \in 1..Len(stack')
      PROVE  i \in 1..Len(stack) /\ i # Len(stack) /\ stack'[i] = stack[i]
  <2>1. i \in 1..(Len(stack) - 1) /\ 1 + i - 1 = i
    BY <1>1, <1>3, <1>4
  <2>2. stack'[i] = stack[1 + i - 1]
    BY <1>3, <2>1
  <2> QED BY <1>1, <2>1, <2>2
<1>5. Len(stack) \in 1..Len(stack)
  BY <1>1
<1> QED BY <1>1, <1>2, <1>3, <1>4, <1>5

(* What a directory can be listed as. *)
LEMMA ListingTypes ==
  ASSUME NEW es \in Listings
  PROVE  es \in Seq(Dirs \cup Others) /\ DOMAIN es = 1..Len(es) /\ Len(es) \in 0..MaxEntries
<1>1. PICK n \in 0..MaxEntries : es \in [1..n -> Dirs \cup Others]
  BY DEF Listings
<1>2. n \in Nat /\ es \in Seq(Dirs \cup Others) /\ Len(es) = n /\ DOMAIN es = 1..n
  BY <1>1, TreeAssumption
<1> QED BY <1>2

LEMMA RestFacts ==
  ASSUME TypeOK, rest # <<>>, rest' = Tail(rest)
  PROVE  /\ Head(rest) \in Dirs \cup Others /\ rest' \in Seq(Dirs \cup Others)
         /\ Head(rest) = rest[1] /\ Len(rest) \in Nat \ {0} /\ Len(rest') = Len(rest) - 1
         /\ \A i \in 1..Len(rest') : i + 1 \in 1..Len(rest) /\ rest'[i] = rest[i + 1]
         /\ Items(rest) = Items(rest') \cup {Head(rest)}
<1>1. /\ Head(rest) \in Dirs \cup Others /\ rest' \in Seq(Dirs \cup Others)
      /\ Head(rest) = rest[1] /\ Len(rest) \in Nat \ {0} /\ Len(rest') = Len(rest) - 1
      /\ \A i \in 1..Len(rest') : i + 1 \in 1..Len(rest) /\ rest'[i] = rest[i + 1]
  BY DEF TypeOK
<1>2. \A i \in 1..Len(rest) : i = 1 \/ (i - 1 \in 1..Len(rest') /\ rest'[i - 1] = rest[i])
  BY <1>1
<1>3. 1 \in 1..Len(rest)
  BY <1>1
<1> QED BY <1>1, <1>2, <1>3 DEF Items

LEMMA GrownStack ==
  ASSUME TypeOK, NEW p \in Places, stack' = Append(stack, p)
  PROVE  /\ stack' \in Seq(Places) /\ Len(stack) \in Nat /\ Len(stack') = Len(stack) + 1
         /\ \A i \in 1..Len(stack) : stack'[i] = stack[i]
         /\ stack'[Len(stack) + 1] = p
  BY DEF TypeOK

LEMMA ListingDomain ==
  ASSUME TypeOK, NEW d \in DOMAIN holds
  PROVE  /\ holds[d] \in Seq(Dirs \cup Others) /\ Len(holds[d]) \in 0..MaxEntries
         /\ DOMAIN holds[d] = 1..Len(holds[d])
<1>1. holds[d] \in Listings
  BY DEF TypeOK
<1> QED BY <1>1, ListingTypes

(* Where there is an entry, known by the numbers alone. *)
LEMMA ListedAre ==
  ASSUME TypeOK
  PROVE  /\ \A d, i : <<d, i>> \in Listed <=> d \in DOMAIN holds /\ i \in 1..Len(holds[d])
         /\ \A p \in Listed : p = <<p[1], p[2]>>
<1>1. ASSUME NEW d, NEW i
      PROVE  <<d, i>> \in Listed <=> d \in DOMAIN holds /\ i \in 1..Len(holds[d])
  <2>1. CASE d \in DOMAIN holds
    <3>1. DOMAIN holds[d] = 1..Len(holds[d]) /\ Len(holds[d]) \in 0..MaxEntries
      BY <2>1, ListingDomain
    <3>2. DOMAIN holds[d] \subseteq 1..MaxEntries
      BY <3>1, TreeAssumption
    <3> QED BY <2>1, <3>1, <3>2 DEF Listed
  <2>2. CASE d \notin DOMAIN holds
    BY <2>2 DEF Listed
  <2> QED BY <2>1, <2>2
<1> QED BY <1>1 DEF Listed

LEMMA ListedFinite ==
  ASSUME TypeOK
  PROVE  IsFiniteSet(Listed) /\ IsFiniteSet(Looked)
<1>1. IsFiniteSet(DOMAIN holds) /\ IsFiniteSet(1..MaxEntries)
  <2>1. DOMAIN holds \subseteq Dirs /\ IsFiniteSet(Dirs)
    BY TreeAssumption DEF TypeOK
  <2>2. MaxEntries \in Int /\ 1 \in Int
    BY TreeAssumption
  <2>3. IsFiniteSet(1..MaxEntries)
    BY <2>2, FS_Interval
  <2> QED BY <2>1, <2>3, FS_Subset
<1>2. IsFiniteSet((DOMAIN holds) \X (1..MaxEntries))
  BY <1>1, FS_Product
<1>3. Listed \subseteq (DOMAIN holds) \X (1..MaxEntries) /\ Looked \subseteq Listed
  BY DEF Listed, Looked
<1> QED BY <1>2, <1>3, FS_Subset

LEMMA EntryTypes ==
  ASSUME TypeOK, NEW d \in DOMAIN holds, NEW e \in Entries(d)
  PROVE  e \in Dirs \cup Others
<1>1. holds[d] \in Seq(Dirs \cup Others)
  BY ListingDomain
<1> QED BY <1>1 DEF Entries

LEMMA InitIInv == Init => IInv
<1> SUFFICES ASSUME Init PROVE IInv
  OBVIOUS
<1>1. DOMAIN holds = {} /\ rest = <<>> /\ Len(rest) = 0
  BY DEF Init
<1>2. stack \in Seq(Places) /\ Len(stack) = 1 /\ stack[1] = [dir |-> Root, depth |-> 0] /\ here \in Places
  BY TreeAssumption DEF Init, Places
<1>3. TypeOK
  BY <1>1, <1>2, TreeAssumption DEF Init, TypeOK
<1>4. Covered
  <2>1. OnStack(Root)
    BY <1>2 DEF OnStack
  <2>2. maxDepth = NoLimit /\ hit \in {"walking", "nothing"} => near[Root] = NoLimit
    BY DEF Init, ListedBelow
  <2> QED BY <2>1, <2>2 DEF Init, Covered
<1>5. Once
  BY <1>1, <1>2 DEF Init, Once, Items
<1>6. Counted
  <2>1. Looked = {}
    BY <1>1 DEF Looked, Listed
  <2> QED BY <2>1, FS_EmptySet, TreeAssumption DEF Init, Counted
<1>7. Ended
  BY DEF Init, Ended
<1> QED BY <1>3, <1>4, <1>5, <1>6, <1>7 DEF IInv

-----------------------------------------------------------------------------
(* The next directory. *)

LEMMA PassStep ==
  ASSUME IInv, Pop, TooDeep(stack[Len(stack)].depth), UNCHANGED <<holds, here, rest>>
  PROVE  IInv'
<1>1. /\ stack' \in Seq(Places)
      /\ \A i \in 1..Len(stack') : i \in 1..Len(stack) /\ stack'[i] = stack[i]
  BY ShorterStack DEF Pop, IInv
<1>2. maxDepth # NoLimit /\ UNCHANGED <<maxDepth, near, seen, visited, hit>> /\ hit = "walking"
  BY DEF Pop, TooDeep
<1>3. TypeOK'
  BY <1>1, <1>2 DEF IInv, TypeOK
<1>4. Covered' /\ Ended'
  BY <1>2 DEF IInv, Covered, Ended
<1>5. Once'
  <2>1. /\ \A i, j \in 1..Len(stack') : stack'[i].dir = stack'[j].dir => i = j
        /\ \A i \in 1..Len(stack') : stack'[i].dir \in seen /\ stack'[i].dir \notin DOMAIN holds
    BY <1>1 DEF IInv, Once
  <2>2. /\ DOMAIN holds \subseteq seen
        /\ rest # <<>> => here.dir \in DOMAIN holds /\ EndOf(rest, holds[here.dir])
    BY DEF IInv, Once
  <2>3. UNCHANGED <<holds, here, rest, seen>>
    BY <1>2
  <2> QED BY <2>1, <2>2, <2>3 DEF Once
<1>6. Counted'
  BY <1>2 DEF IInv, Counted, Looked, Listed, Ahead
<1> QED BY <1>3, <1>4, <1>5, <1>6 DEF IInv

LEMMA ListStep ==
  ASSUME IInv, Pop, NEW es \in Listings, here' = stack[Len(stack)], rest' = es,
         holds' = [d \in DOMAIN holds \cup {stack[Len(stack)].dir} |->
                      IF d = stack[Len(stack)].dir THEN es ELSE holds[d]]
  PROVE  IInv'
<1> DEFINE top == stack[Len(stack)]
<1>1. /\ stack' \in Seq(Places) /\ Len(stack) \in Nat \ {0} /\ top \in Places
      /\ Len(stack') = Len(stack) - 1
      /\ \A i \in 1..Len(stack') : i \in 1..Len(stack) /\ i # Len(stack) /\ stack'[i] = stack[i]
  BY ShorterStack DEF Pop, IInv
<1>2. UNCHANGED <<maxDepth, near, seen, visited, hit>> /\ hit = "walking" /\ rest = <<>>
  BY DEF Pop
<1>3. es \in Seq(Dirs \cup Others) /\ DOMAIN es = 1..Len(es) /\ Len(es) \in Nat
  BY ListingTypes
<1>4. /\ top.dir \in seen /\ top.dir \notin DOMAIN holds
      /\ \A i \in 1..Len(stack') : stack'[i].dir # top.dir
  BY <1>1 DEF IInv, Once
<1>5. /\ DOMAIN holds' = DOMAIN holds \cup {top.dir} /\ holds'[top.dir] = es
      /\ \A d \in DOMAIN holds : holds'[d] = holds[d]
  BY <1>4
<1> HIDE DEF top
<1>6. top.dir \in Dirs /\ here' = top
  BY <1>1 DEF Places, top
<1>7. TypeOK'
  BY <1>1, <1>2, <1>3, <1>5, <1>6 DEF IInv, TypeOK
<1>8. {holds'[top.dir][i] : i \in DOMAIN holds'[top.dir]} = Items(es) /\ rest' = es
      /\ \A d \in DOMAIN holds : {holds'[d][i] : i \in DOMAIN holds'[d]} = Entries(d)
  BY <1>3, <1>5 DEF Entries, Items, top
<1>9. Items(rest) = {}
  BY <1>2 DEF Items
<1>10. Covered'
  <2> SUFFICES ASSUME maxDepth = NoLimit, NEW d \in seen
               PROVE  \/ \E i \in 1..Len(stack') : stack'[i].dir = d
                      \/ d \in DOMAIN holds' /\ \A e \in {holds'[d][i] : i \in DOMAIN holds'[d]} :
                            Fine(e) \/ (d = here'.dir /\ e \in Items(rest'))
    BY <1>2 DEF Covered, IInv, OnStack, Entries, Fine, ToCome, Items
  <2>1. CASE d = top.dir
    BY <1>5, <1>6, <1>8, <2>1
  <2>2. CASE d # top.dir /\ OnStack(d)
    <3>1. PICK i \in 1..Len(stack) : stack[i].dir = d
      BY <2>2 DEF OnStack
    <3>2. i # Len(stack)
      BY <2>2, <3>1 DEF top
    <3>3. i \in 1..Len(stack') /\ stack'[i] = stack[i]
      BY <1>1, <3>2
    <3> QED BY <3>1, <3>3
  <2>3. CASE ~OnStack(d)
    <3>1. d \in DOMAIN holds /\ \A e \in Entries(d) : Fine(e)
      BY <1>2, <1>9, <2>3 DEF IInv, Covered, ToCome
    <3> QED BY <1>5, <1>8, <3>1
  <2> QED BY <2>1, <2>2, <2>3
<1>11. Once'
  <2>1. \A i, j \in 1..Len(stack') : stack'[i].dir = stack'[j].dir => i = j
    BY <1>1 DEF IInv, Once
  <2>2. \A i \in 1..Len(stack') : stack'[i].dir \in seen' /\ stack'[i].dir \notin DOMAIN holds'
    BY <1>1, <1>2, <1>4, <1>5 DEF IInv, Once
  <2>3. DOMAIN holds' \subseteq seen'
    BY <1>2, <1>4, <1>5 DEF IInv, Once
  <2>4. here'.dir \in DOMAIN holds' /\ EndOf(rest', holds'[here'.dir])
    <3>1. holds'[here'.dir] = es /\ rest' = es
      BY <1>5, <1>6
    <3>2. EndOf(es, es)
      BY <1>3 DEF EndOf
    <3> QED BY <1>5, <1>6, <3>1, <3>2
  <2> QED BY <2>1, <2>2, <2>3, <2>4 DEF Once, EndOf
<1>12. Counted'
  <2>1. Looked' = Looked
    <3>1. ASSUME NEW d, NEW i PROVE <<d, i>> \in Looked' <=> <<d, i>> \in Looked
      <4>1. <<d, i>> \in Listed' <=> d \in DOMAIN holds' /\ i \in 1..Len(holds'[d])
        <5>1. <<d, i>> \in Listed' <=> /\ d \in DOMAIN holds' /\ i \in 1..MaxEntries
                                       /\ i \in DOMAIN holds'[d]
          BY DEF Listed
        <5>2. ASSUME d \in DOMAIN holds'
              PROVE  /\ DOMAIN holds'[d] = 1..Len(holds'[d]) /\ Len(holds'[d]) \in 0..MaxEntries
          <6>1. holds'[d] \in Listings
            BY <1>7, <5>2 DEF TypeOK
          <6> QED BY <6>1, ListingTypes
        <5>3. d \in DOMAIN holds' => DOMAIN holds'[d] \subseteq 1..MaxEntries
          BY <5>2, TreeAssumption
        <5> QED BY <5>1, <5>2, <5>3
      <4>2. <<d, i>> \in Looked' <=> <<d, i>> \in Listed' /\ ~(d = top.dir /\ i > Len(holds'[d]) - Len(es))
        BY <1>6 DEF Looked, Ahead
      <4>3. <<d, i>> \in Looked <=> /\ d \in DOMAIN holds /\ i \in 1..Len(holds[d])
                                    /\ ~(d = here.dir /\ i > Len(holds[d]) - Len(rest))
        BY ListedAre DEF IInv, Looked, Ahead
      <4>4. CASE d = top.dir
        <5>1. <<d, i>> \notin Looked
          BY <1>4, <4>3, <4>4
        <5>2. Len(holds'[d]) = Len(es)
          BY <1>5, <4>4
        <5> QED BY <1>3, <4>1, <4>2, <4>4, <5>1, <5>2
      <4>5. CASE d # top.dir /\ d \in DOMAIN holds
        <5>1. Len(rest) = 0 /\ Len(holds[d]) \in Nat
          BY <1>2, <4>5, ListingDomain DEF IInv
        <5>2. holds'[d] = holds[d] /\ d \in DOMAIN holds'
          BY <1>5, <4>5
        <5>3. i \in 1..Len(holds[d]) => ~(i > Len(holds[d]) - Len(rest))
          BY <5>1
        <5> QED BY <4>1, <4>2, <4>3, <4>5, <5>2, <5>3
      <4>6. CASE d # top.dir /\ d \notin DOMAIN holds
        BY <1>5, <4>1, <4>2, <4>3, <4>6
      <4> QED BY <4>4, <4>5, <4>6
    <3>2. /\ \A p \in Looked : p = <<p[1], p[2]>>
          /\ \A p \in Looked' : p = <<p[1], p[2]>>
      BY DEF Looked, Listed
    <3>3. (\A p \in Looked : p \in Looked') /\ (\A p \in Looked' : p \in Looked)
      BY <3>1, <3>2
    <3> QED BY <3>3
  <2> QED BY <1>2, <2>1 DEF IInv, Counted
<1>13. Ended'
  BY <1>2 DEF Ended
<1> QED BY <1>7, <1>10, <1>11, <1>12, <1>13 DEF IInv
-----------------------------------------------------------------------------
(* The next entry. *)

LEMMA OnePlace ==
  ASSUME NEW k \in Nat, NEW r \in Nat, NEW i \in Nat
  PROVE  i > k - (r - 1) <=> i > k - r /\ i # k - r + 1
  OBVIOUS

(* It is one more to have been looked at, and leaves the rest in order. *)
LEMMA OneMoreLooked ==
  ASSUME IInv, Look
  PROVE  /\ Cardinality(Looked') = Cardinality(Looked) + 1
         /\ here.dir \in DOMAIN holds /\ EndOf(rest', holds[here.dir])
         /\ Head(rest) \in Entries(here.dir) /\ Items(rest) = Items(rest') \cup {Head(rest)}
<1> DEFINE es == holds[here.dir]
           n == Len(es) - Len(rest) + 1
           q == <<here.dir, n>>
<1>1. rest # <<>> /\ rest' = Tail(rest) /\ UNCHANGED <<here, holds>>
  BY DEF Look
<1>2. /\ Head(rest) = rest[1] /\ Len(rest) \in Nat \ {0} /\ Len(rest') = Len(rest) - 1
      /\ \A i \in 1..Len(rest') : i + 1 \in 1..Len(rest) /\ rest'[i] = rest[i + 1]
      /\ Items(rest) = Items(rest') \cup {Head(rest)}
  BY <1>1, RestFacts DEF IInv
<1>3. /\ here.dir \in DOMAIN holds /\ Len(rest) <= Len(es) /\ Len(es) \in Nat
      /\ DOMAIN es = 1..Len(es)
      /\ \A i \in 1..Len(rest) : rest[i] = es[Len(es) - Len(rest) + i]
  <2>1. here.dir \in DOMAIN holds /\ EndOf(rest, es)
    BY <1>1 DEF IInv, Once
  <2> QED BY <2>1, ListingDomain DEF IInv, EndOf
<1> HIDE DEF es
<1>4. n \in 1..Len(es) /\ Head(rest) = es[n]
  BY <1>2, <1>3
<1>5. EndOf(rest', es)
  <2>1. ASSUME NEW i \in 1..Len(rest') PROVE rest'[i] = es[Len(es) - Len(rest') + i]
    <3>1. rest'[i] = rest[i + 1] /\ i + 1 \in 1..Len(rest)
      BY <1>2
    <3>2. Len(es) - Len(rest) + (i + 1) = Len(es) - Len(rest') + i
      BY <1>2, <1>3
    <3> QED BY <1>3, <3>1, <3>2
  <2> QED BY <1>2, <1>3, <2>1 DEF EndOf
<1>6. Head(rest) \in Entries(here.dir)
  BY <1>3, <1>4 DEF Entries, es
<1>7. Looked' = Looked \cup {q} /\ q \notin Looked
  <2>1. ASSUME NEW d, NEW i
        PROVE  <<d, i>> \in Looked' <=> <<d, i>> \in Looked \/ (d = here.dir /\ i = n)
    <3>1. <<d, i>> \in Listed' <=> <<d, i>> \in Listed
      BY <1>1 DEF Listed
    <3>2. <<d, i>> \in Looked' <=> <<d, i>> \in Listed /\ ~(d = here.dir /\ i > Len(holds[d]) - Len(rest'))
      BY <1>1, <3>1 DEF Looked, Ahead
    <3>3. <<d, i>> \in Looked <=> <<d, i>> \in Listed /\ ~(d = here.dir /\ i > Len(holds[d]) - Len(rest))
      BY DEF Looked, Ahead
    <3>4. CASE d # here.dir
      BY <3>2, <3>3, <3>4
    <3>5. CASE d = here.dir
      <4>1. <<d, i>> \in Listed <=> i \in 1..Len(es)
        BY <1>3, <3>5, ListedAre DEF IInv, es
      <4>2. i \in 1..Len(es) => (i > Len(es) - Len(rest') <=> i > Len(es) - Len(rest) /\ i # n)
        <5>1. Len(rest') = Len(rest) - 1 /\ Len(rest) \in Nat /\ Len(es) \in Nat
          BY <1>2, <1>3
        <5>2. i \in 1..Len(es) => i \in Nat
          OBVIOUS
        <5> QED BY <5>1, <5>2, OnePlace
      <4>3. <<d, i>> \in Looked' <=> i \in 1..Len(es) /\ ~(i > Len(es) - Len(rest'))
        BY <3>2, <3>5, <4>1 DEF es
      <4>4. <<d, i>> \in Looked <=> i \in 1..Len(es) /\ ~(i > Len(es) - Len(rest))
        BY <3>3, <3>5, <4>1 DEF es
      <4> QED BY <1>2, <1>3, <1>4, <3>5, <4>2, <4>3, <4>4
    <3> QED BY <3>4, <3>5
  <2>2. /\ \A p \in Looked : p = <<p[1], p[2]>>
        /\ \A p \in Looked' : p = <<p[1], p[2]>>
    BY DEF Looked, Listed
  <2>3. q \notin Looked
    <3>1. n > Len(es) - Len(rest)
      BY <1>2, <1>3
    <3> QED BY <3>1 DEF Looked, Ahead, es
  <2> HIDE DEF n
  <2>4. \A p \in Looked' : p \in Looked \cup {q}
    BY <2>1, <2>2
  <2>5. \A p \in Looked \cup {q} : p \in Looked'
    BY <2>1, <2>2
  <2> QED BY <2>3, <2>4, <2>5
<1>8. Cardinality(Looked') = Cardinality(Looked) + 1
  BY <1>7, ListedFinite, FS_AddElement DEF IInv
<1> QED BY <1>2, <1>3, <1>5, <1>6, <1>8 DEF es

LEMMA LookStep ==
  ASSUME IInv, Look
  PROVE  IInv'
<1> DEFINE e == Head(rest)
           pushed == e \in Dirs /\ New(e)
           listed == ListedBelow(e, here.depth + 1)
           place == Place(e, here.depth + 1)
           limited == visited + 1 > TreeWalkLimit
<1>1. /\ hit = "walking" /\ rest # <<>> /\ rest' = Tail(rest) /\ visited' = visited + 1
      /\ UNCHANGED <<here, holds, maxDepth, near>>
  BY DEF Look
<1>2. /\ e \in Dirs \cup Others /\ rest' \in Seq(Dirs \cup Others)
      /\ visited \in Nat /\ TreeWalkLimit \in Nat /\ stack \in Seq(Places)
  BY <1>1, RestFacts, TreeAssumption DEF IInv, TypeOK
<1>3. \/ limited /\ hit' = "limit" /\ UNCHANGED <<stack, seen>>
      \/ ~limited /\ hit' = Judge(e) /\ ~pushed /\ UNCHANGED <<stack, seen>>
      \/ /\ ~limited /\ hit' = "protected" /\ pushed
         /\ seen' = seen \cup {e} /\ UNCHANGED stack
      \/ /\ ~limited /\ hit' = Judge(e) /\ pushed /\ ~listed
         /\ seen' = seen \cup {e} /\ stack' = Append(stack, place)
  <2>1. visited \in Nat /\ TreeWalkLimit \in Nat
    BY TreeAssumption DEF IInv, TypeOK
  <2> QED BY <2>1 DEF Look
<1>4. pushed => place \in Places /\ place.dir = e
  BY DEF IInv, TypeOK, Places, Place
<1>5. pushed => e \in Dirs /\ e \notin seen
  BY DEF New
<1>6. /\ Judge(e) \in {"walking", "protected", "escape"}
      /\ Judge(e) = "walking" => e \notin Bad
  BY DEF Judge, Bad
<1>7. /\ Cardinality(Looked') = Cardinality(Looked) + 1
      /\ here.dir \in DOMAIN holds /\ EndOf(rest', holds[here.dir])
      /\ Items(rest) = Items(rest') \cup {e}
  BY OneMoreLooked
<1>8. stack' = Append(stack, place) /\ pushed =>
         /\ stack' \in Seq(Places) /\ Len(stack) \in Nat /\ Len(stack') = Len(stack) + 1
         /\ \A i \in 1..Len(stack) : stack'[i] = stack[i]
         /\ stack'[Len(stack) + 1] = place
  BY <1>4, GrownStack DEF IInv
<1> HIDE DEF e, place
<1>9. TypeOK'
  <2>1. stack' \in Seq(Places) /\ seen' \subseteq Dirs
    BY <1>2, <1>3, <1>5, <1>8 DEF IInv, TypeOK
  <2>2. hit' \in {"walking", "nothing", "protected", "escape", "limit"} /\ visited' \in Nat
    BY <1>1, <1>2, <1>3, <1>6
  <2> QED BY <1>1, <1>2, <2>1, <2>2 DEF IInv, TypeOK
<1>10. Covered'
  <2>1. seen \subseteq seen' /\ \A d \in seen : OnStack(d) => OnStack(d)'
    BY <1>3, <1>8 DEF OnStack
  <2>2. ASSUME hit' \in {"walking", "nothing"} PROVE e \notin Bad /\ (e \in Dirs => e \in seen')
    BY <1>3, <1>6, <2>2 DEF New
  <2>3. ASSUME hit' \in {"walking", "nothing"}
        PROVE  \A d \in seen' : d \in seen \/ (OnStack(d)' /\ d = e /\ (maxDepth = NoLimit => near[e] = NoLimit))
    <3>1. pushed /\ stack' = Append(stack, place) => Len(stack) + 1 \in 1..Len(stack')
      BY <1>8
    <3>2. ~listed /\ maxDepth = NoLimit => near[e] = NoLimit
      BY DEF ListedBelow
    <3> QED BY <1>3, <1>4, <1>8, <2>3, <3>1, <3>2 DEF OnStack
  <2>4. ASSUME maxDepth = NoLimit, hit' \in {"walking", "nothing"}, NEW d \in seen, ~OnStack(d),
               NEW x \in Entries(d)
        PROVE  Fine(x)' \/ (d = here.dir /\ x \in Items(rest'))
    <3>1. Fine(x) \/ (d = here.dir /\ x \in Items(rest))
      BY <1>1, <2>4 DEF IInv, Covered, ToCome
    <3>2. Fine(x) => Fine(x)'
      BY <2>1 DEF Fine
    <3>3. x = e => Fine(x)'
      BY <2>2, <2>4 DEF Fine
    <3> QED BY <1>7, <3>1, <3>2, <3>3
  <2>5. ASSUME maxDepth = NoLimit, hit' \in {"walking", "nothing"}, NEW d \in seen, ~OnStack(d)
        PROVE  d \in DOMAIN holds
    BY <1>1, <2>5 DEF IInv, Covered
  <2>6. ASSUME maxDepth = NoLimit, hit' \in {"walking", "nothing"}, NEW d \in seen'
        PROVE  \/ OnStack(d)'
               \/ d \in DOMAIN holds' /\ \A x \in {holds'[d][i] : i \in DOMAIN holds'[d]} :
                     Fine(x)' \/ (d = here'.dir /\ x \in Items(rest'))
    <3>1. CASE d \in seen /\ ~OnStack(d)
      BY <1>1, <2>4, <2>5, <2>6, <3>1 DEF Entries
    <3> QED BY <2>1, <2>3, <2>6, <3>1
  <2>7. Root \in seen'
    BY <2>1 DEF IInv, Covered
  <2>8. ASSUME maxDepth = NoLimit, hit' \in {"walking", "nothing"}, NEW d \in seen'
        PROVE  near[d] = NoLimit
    BY <1>1, <2>3, <2>8 DEF IInv, Covered
  <2> QED BY <1>1, <2>6, <2>7, <2>8 DEF Covered, Fine, ToCome, Entries, Items, OnStack
<1>11. Once'
  <2>1. \A i \in 1..Len(stack) : stack[i].dir \in seen
    BY DEF IInv, Once
  <2>2. \A i, j \in 1..Len(stack') : stack'[i].dir = stack'[j].dir => i = j
    <3>1. CASE UNCHANGED stack
      BY <3>1 DEF IInv, Once
    <3>2. CASE stack' = Append(stack, place) /\ pushed
      <4>1. \A i \in 1..Len(stack') : i \in 1..Len(stack) \/ i = Len(stack) + 1
        BY <1>8, <3>2
      <4>2. \A i \in 1..Len(stack) : stack'[i].dir # e
        BY <1>5, <1>8, <2>1, <3>2
      <4>3. stack'[Len(stack) + 1].dir = e
        BY <1>4, <1>8, <3>2
      <4>4. \A i, j \in 1..Len(stack) : stack'[i].dir = stack'[j].dir => i = j
        BY <1>8, <3>2 DEF IInv, Once
      <4> QED BY <4>1, <4>2, <4>3, <4>4
    <3> QED BY <1>3, <3>1, <3>2
  <2>3. \A i \in 1..Len(stack') : stack'[i].dir \in seen' /\ stack'[i].dir \notin DOMAIN holds
    <3>1. CASE UNCHANGED stack
      BY <1>3, <3>1 DEF IInv, Once
    <3>2. CASE stack' = Append(stack, place) /\ pushed /\ seen' = seen \cup {e}
      <4>1. \A i \in 1..Len(stack') : i \in 1..Len(stack) \/ i = Len(stack) + 1
        BY <1>8, <3>2
      <4>2. e \notin DOMAIN holds
        BY <1>5, <3>2 DEF IInv, Once
      <4> QED BY <1>4, <1>8, <3>2, <4>1, <4>2 DEF IInv, Once
    <3> QED BY <1>3, <3>1, <3>2
  <2>4. DOMAIN holds \subseteq seen'
    BY <1>3 DEF IInv, Once
  <2>5. here'.dir \in DOMAIN holds' /\ EndOf(rest', holds'[here'.dir])
    BY <1>1, <1>7
  <2> QED BY <1>1, <2>2, <2>3, <2>4, <2>5 DEF Once, EndOf
<1>12. Counted'
  <2>1. Cardinality(Looked) = visited /\ ~(visited > TreeWalkLimit)
    BY <1>1 DEF IInv, Counted
  <2>2. hit' = "limit" <=> limited
    BY <1>3, <1>6
  <2> QED BY <1>1, <1>2, <1>7, <2>1, <2>2 DEF Counted
<1>13. Ended'
  BY <1>3, <1>6 DEF Ended
<1> QED BY <1>9, <1>10, <1>11, <1>12, <1>13 DEF IInv

LEMMA FinishStep ==
  ASSUME IInv, Finish
  PROVE  IInv'
<1>1. TypeOK' /\ Ended'
  BY DEF Finish, IInv, TypeOK, Ended
<1>2. Covered'
  BY DEF Finish, IInv, Covered, OnStack, Fine, ToCome, Entries, Items
<1>3. Once' /\ Counted'
  BY DEF Finish, IInv, Once, EndOf, Counted, Looked, Listed, Ahead
<1> QED BY <1>1, <1>2, <1>3 DEF IInv

-----------------------------------------------------------------------------
(* The theorems. *)

(* The inductive invariant. *)
THEOREM Invariance == Spec => []IInv
<1>1. Init => IInv
  BY InitIInv
<1>2. IInv /\ [Next]_vars => IInv'
  <2> SUFFICES ASSUME IInv, [Next]_vars PROVE IInv'
    OBVIOUS
  <2>1. CASE Pop
    <3>1. CASE TooDeep(stack[Len(stack)].depth) /\ UNCHANGED <<holds, here, rest>>
      BY <2>1, <3>1, PassStep
    <3>2. ASSUME NEW es \in Listings, here' = stack[Len(stack)], rest' = es,
                 holds' = [d \in DOMAIN holds \cup {stack[Len(stack)].dir} |->
                              IF d = stack[Len(stack)].dir THEN es ELSE holds[d]]
          PROVE  IInv'
      BY <2>1, <3>2, ListStep
    <3>3. ASSUME stack[Len(stack)].dir \in DOMAIN holds PROVE FALSE
      <4>1. Len(stack) \in 1..Len(stack)
        BY <2>1 DEF Pop, IInv, TypeOK
      <4> QED BY <3>3, <4>1 DEF IInv, Once
    <3> QED BY <2>1, <3>1, <3>2, <3>3 DEF Pop
  <2>2. CASE Look \/ Finish
    BY <2>2, LookStep, FinishStep
  <2>3. CASE UNCHANGED vars
    <3>1. TypeOK' /\ Ended'
      BY <2>3 DEF vars, IInv, TypeOK, Ended
    <3>2. Covered'
      BY <2>3 DEF vars, IInv, Covered, OnStack, Fine, ToCome, Entries, Items
    <3>3. Once' /\ Counted'
      BY <2>3 DEF vars, IInv, Once, EndOf, Counted, Looked, Listed, Ahead
    <3> QED BY <3>1, <3>2, <3>3 DEF IInv
  <2> QED BY <2>1, <2>2, <2>3 DEF Next
<1> QED BY <1>1, <1>2, PTL DEF Spec

(* The variables keep their types. *)
THEOREM TypeCorrect == Spec => []TypeOK
<1>1. IInv => TypeOK
  BY DEF IInv
<1> QED BY <1>1, Invariance, PTL

(* A walk without a depth that finds nothing has been everywhere the command would
   come, whatever links there are (policy.py 395-432). *)
THEOREM NothingMissed == Spec => []NothingIsNothing
<1>1. ASSUME IInv PROVE NothingIsNothing
  <2> SUFFICES ASSUME hit = "nothing", maxDepth = NoLimit PROVE Closed(seen)
    BY DEF NothingIsNothing
  <2>1. \A d : ~OnStack(d)
    <3>1. Len(stack) = 0
      BY <1>1 DEF IInv, Ended
    <3> QED BY <3>1 DEF OnStack
  <2>2. \A d, e : ~ToCome(d, e)
    <3>1. Len(rest) = 0
      BY <1>1 DEF IInv, Ended
    <3> QED BY <3>1 DEF ToCome, Items
  <2>3. Root \in seen /\ \A d \in seen : /\ d \in DOMAIN holds /\ \A e \in Entries(d) : Fine(e)
                                        /\ near[d] = NoLimit
    BY <1>1, <2>1, <2>2 DEF IInv, Covered
  <2> QED BY <2>3 DEF Closed, Fine
<1> QED BY <1>1, Invariance, PTL

(* A walk gives up on trees that are larger than the limit, and on no other: links
   that lead in circles are not counted again (policy.py 395-432). *)
THEOREM OnlyHugeTreesRefused == Spec => []LimitIsReal
<1>1. ASSUME IInv PROVE LimitIsReal
  <2>1. Cardinality(Looked) = visited /\ (hit = "limit" => visited > TreeWalkLimit)
        /\ visited <= TreeWalkLimit + 1 /\ visited \in Nat /\ TreeWalkLimit \in Nat
    BY <1>1, TreeAssumption DEF IInv, Counted, TypeOK
  <2>2. Looked \subseteq Listed
    BY DEF Looked
  <2>3. Cardinality(Looked) <= Cardinality(Listed) /\ Cardinality(Listed) \in Nat
    BY <1>1, <2>2, ListedFinite, FS_Subset, FS_CardinalityType DEF IInv
  <2> QED BY <2>1, <2>3 DEF LimitIsReal
<1> QED BY <1>1, Invariance, PTL

-----------------------------------------------------------------------------
(* How the walk came to where it is: by a way that is in no directory twice. *)

KnownBy(h, d) == IF d \in DOMAIN h THEN {h[d][i] : i \in DOMAIN h[d]} ELSE {}

Led(h, S, d, n) == \E p \in [0..n -> S] :
    /\ p[0] = Root /\ p[n] = d /\ \A i \in 1..n : p[i] \in KnownBy(h, p[i - 1])
    /\ \A i, j \in 0..n : p[i] = p[j] => i = j

(* Where the walk is, the command would come too. *)
Here(e) == e \in KnownBy(holds, here.dir) /\ ~TooDeep(here.depth)

(* The command would come as deep as a listed path below a directory on its way. *)
Near == \E d \in Dirs : \E n \in Nat : Led(holds, seen, d, n) /\ ListedBelow(d, n)

WayInv ==
    /\ \A i \in 1..Len(stack) : Led(holds, seen, stack[i].dir, stack[i].depth)
    /\ Led(holds, seen, here.dir, here.depth)
    /\ rest # <<>> => ~TooDeep(here.depth)
    /\ hit = "protected" => Here("protected") \/ Near
    /\ hit = "escape" => Here("outside")

(* What is known stays known, so a way stays a way. *)
LEMMA LedStays ==
  ASSUME NEW h, NEW k, NEW S, NEW T, S \subseteq T,
         \A c \in DOMAIN h : c \in DOMAIN k /\ k[c] = h[c],
         NEW d, NEW n \in Nat, Led(h, S, d, n)
  PROVE  Led(k, T, d, n)
<1>1. PICK p \in [0..n -> S] :
         /\ p[0] = Root /\ p[n] = d /\ \A i \in 1..n : p[i] \in KnownBy(h, p[i - 1])
         /\ \A i, j \in 0..n : p[i] = p[j] => i = j
  BY DEF Led
<1>2. ASSUME NEW c PROVE KnownBy(h, c) \subseteq KnownBy(k, c)
  BY DEF KnownBy
<1>3. p \in [0..n -> T]
  BY <1>1
<1> QED BY <1>1, <1>2, <1>3 DEF Led

(* A link on to a directory not seen before. *)
LEMMA LedOn ==
  ASSUME NEW h, NEW S, NEW d, NEW n \in Nat, Led(h, S, d, n), NEW e, e \notin S,
         e \in KnownBy(h, d)
  PROVE  Led(h, S \cup {e}, e, n + 1)
<1>1. PICK p \in [0..n -> S] :
         /\ p[0] = Root /\ p[n] = d /\ \A i \in 1..n : p[i] \in KnownBy(h, p[i - 1])
         /\ \A i, j \in 0..n : p[i] = p[j] => i = j
  BY DEF Led
<1> DEFINE q == [i \in 0..(n + 1) |-> IF i = n + 1 THEN e ELSE p[i]]
<1>2. /\ \A i \in 0..n : i \in 0..(n + 1) /\ i # n + 1
      /\ \A i \in 0..(n + 1) : i \in 0..n \/ i = n + 1
      /\ 0 \in 0..n /\ n \in 0..n /\ n + 1 \in 0..(n + 1)
  OBVIOUS
<1>3. q[n + 1] = e /\ \A i \in 0..n : q[i] = p[i] /\ p[i] \in S
  BY <1>1, <1>2
<1>4. q \in [0..(n + 1) -> S \cup {e}]
  BY <1>1, <1>2
<1> HIDE DEF q
<1>5. ASSUME NEW i \in 1..(n + 1) PROVE q[i] \in KnownBy(h, q[i - 1])
  <2>1. CASE i = n + 1
    <3>1. i - 1 = n
      BY <2>1
    <3> QED BY <1>1, <1>2, <1>3, <2>1, <3>1
  <2>2. CASE i \in 1..n
    <3>1. i \in 0..n /\ i - 1 \in 0..n
      BY <2>2
    <3> QED BY <1>1, <1>3, <2>2, <3>1
  <2> QED BY <2>1, <2>2
<1>6. ASSUME NEW i \in 0..(n + 1), NEW j \in 0..(n + 1), q[i] = q[j] PROVE i = j
  BY <1>1, <1>2, <1>3, <1>6
<1> QED BY <1>1, <1>2, <1>3, <1>4, <1>5, <1>6 DEF Led

LEMMA InitWayInv == Init => WayInv
<1> SUFFICES ASSUME Init PROVE WayInv
  OBVIOUS
<1>1. /\ stack = <<[dir |-> Root, depth |-> 0]>> /\ here = [dir |-> Root, depth |-> 0]
      /\ seen = {Root} /\ rest = <<>> /\ hit \in {"walking", "protected"}
      /\ hit = "protected" => ListedBelow(Root, 0)
  BY DEF Init
<1>2. Led(holds, seen, Root, 0)
  <2> DEFINE p == [i \in 0..0 |-> Root]
  <2>1. p \in [0..0 -> seen] /\ p[0] = Root
    BY <1>1
  <2>2. \A i, j \in 0..0 : i = j
    OBVIOUS
  <2>3. \A i \in 1..0 : FALSE
    OBVIOUS
  <2> HIDE DEF p
  <2> QED BY <2>1, <2>2, <2>3 DEF Led
<1>3. \A i \in 1..Len(stack) : stack[i] = [dir |-> Root, depth |-> 0]
  BY <1>1
<1>4. hit = "protected" => Near
  BY <1>1, <1>2, TreeAssumption DEF Near
<1> QED BY <1>1, <1>2, <1>3, <1>4 DEF WayInv

LEMMA PopKeepsWays ==
  ASSUME IInv, WayInv, Pop
  PROVE  WayInv'
<1> DEFINE top == stack[Len(stack)]
<1>1. /\ \A i \in 1..Len(stack') : i \in 1..Len(stack) /\ stack'[i] = stack[i]
      /\ Len(stack) \in 1..Len(stack)
  BY ShorterStack DEF Pop, IInv
<1>2. \A i \in 1..Len(stack) : stack[i] \in Places
  BY DEF IInv, TypeOK
<1>3. top.dir \notin DOMAIN holds
  BY <1>1 DEF IInv, Once
<1>4. UNCHANGED <<maxDepth, near, seen, visited, hit>> /\ hit = "walking" /\ rest = <<>>
  BY DEF Pop
<1>5. /\ \/ UNCHANGED <<holds, here, rest>>
         \/ ~TooDeep(top.depth) /\ here' = top
      /\ \A c \in DOMAIN holds : c \in DOMAIN holds' /\ holds'[c] = holds[c]
  <2> HIDE DEF top
  <2> QED BY <1>3 DEF Pop, top
<1>6. ASSUME NEW d, NEW n \in Nat, Led(holds, seen, d, n) PROVE Led(holds', seen', d, n)
  BY <1>4, <1>5, <1>6, LedStays
<1>7. \A i \in 1..Len(stack') : Led(holds', seen', stack'[i].dir, stack'[i].depth)
  BY <1>1, <1>2, <1>6 DEF WayInv, Places
<1>8. Led(holds', seen', here'.dir, here'.depth)
  <2>1. here' = here \/ here' = top
    BY <1>5
  <2>2. here \in Places /\ Led(holds, seen, here.dir, here.depth)
    BY DEF IInv, TypeOK, WayInv
  <2>3. top \in Places /\ Led(holds, seen, top.dir, top.depth)
    BY <1>1, <1>2 DEF WayInv
  <2> HIDE DEF top
  <2> QED BY <1>6, <2>1, <2>2, <2>3 DEF Places
<1>9. rest' # <<>> => ~TooDeep(here.depth)'
  BY <1>4, <1>5 DEF TooDeep
<1> QED BY <1>4, <1>7, <1>8, <1>9 DEF WayInv

LEMMA LookKeepsWays ==
  ASSUME IInv, WayInv, Look
  PROVE  WayInv'
<1> DEFINE e == Head(rest)
           place == Place(e, here.depth + 1)
<1>1. /\ hit = "walking" /\ rest # <<>> /\ UNCHANGED <<maxDepth, near, holds, here>>
      /\ \/ hit' = "limit" /\ UNCHANGED <<stack, seen>>
         \/ hit' = Judge(e) /\ UNCHANGED <<stack, seen>>
         \/ /\ hit' = "protected" /\ e \in Dirs /\ e \notin seen
            /\ seen' = seen \cup {e} /\ UNCHANGED stack
            /\ ListedBelow(e, here.depth + 1)
         \/ /\ hit' = Judge(e) /\ e \in Dirs /\ e \notin seen
            /\ seen' = seen \cup {e} /\ stack' = Append(stack, place)
  BY DEF Look, New
<1>2. e \in KnownBy(holds, here.dir)
  BY OneMoreLooked DEF KnownBy, Entries
<1>3. /\ here.depth \in Nat /\ ~TooDeep(here.depth) /\ Led(holds, seen, here.dir, here.depth)
      /\ \A i \in 1..Len(stack) :
            stack[i].depth \in Nat /\ Led(holds, seen, stack[i].dir, stack[i].depth)
  <2>1. here \in Places /\ \A i \in 1..Len(stack) : stack[i] \in Places
    BY DEF IInv, TypeOK
  <2>2. here.depth \in Nat /\ \A i \in 1..Len(stack) : stack[i].depth \in Nat
    BY <2>1 DEF Places
  <2>3. rest # <<>>
    BY DEF Look
  <2> QED BY <2>2, <2>3 DEF WayInv
<1>4. /\ Judge(e) = "protected" => e = "protected"
      /\ Judge(e) = "escape" => e = "outside"
  BY DEF Judge
<1>5. e \in Dirs => place \in Places /\ place.dir = e /\ place.depth = here.depth + 1
  BY <1>3 DEF Place, Places
<1>6. stack' = Append(stack, place) /\ e \in Dirs =>
         /\ Len(stack) \in Nat /\ Len(stack') = Len(stack) + 1
         /\ \A i \in 1..Len(stack) : stack'[i] = stack[i]
         /\ stack'[Len(stack) + 1] = place
  BY <1>5, GrownStack DEF IInv
<1> HIDE DEF e, place
<1>7. seen \subseteq seen'
  BY <1>1
<1>8. ASSUME NEW d, NEW n \in Nat, Led(holds, seen, d, n) PROVE Led(holds', seen', d, n)
  BY <1>1, <1>7, <1>8, LedStays
<1>9. \A i \in 1..Len(stack') : Led(holds', seen', stack'[i].dir, stack'[i].depth)
  <2>1. CASE UNCHANGED stack
    BY <1>3, <1>8, <2>1
  <2>2. CASE /\ e \in Dirs /\ e \notin seen /\ seen' = seen \cup {e}
             /\ stack' = Append(stack, place)
    <3>1. Led(holds', seen', e, here.depth + 1)
      BY <1>1, <1>2, <1>3, <2>2, LedOn
    <3>2. \A i \in 1..Len(stack') : i \in 1..Len(stack) \/ i = Len(stack) + 1
      BY <1>6, <2>2
    <3> QED BY <1>3, <1>5, <1>6, <1>8, <2>2, <3>1, <3>2
  <2> QED BY <1>1, <2>1, <2>2
<1>10. Led(holds', seen', here'.dir, here'.depth)
  BY <1>1, <1>3, <1>8
<1>11. ~TooDeep(here.depth)'
  BY <1>1, <1>3 DEF TooDeep
<1>12. /\ hit' = "protected" => Here("protected")' \/ Near'
       /\ hit' = "escape" => Here("outside")'
  <2>1. CASE hit' = Judge(e)
    BY <1>1, <1>2, <1>4, <1>11, <2>1 DEF Here
  <2>2. CASE /\ hit' = "protected" /\ e \in Dirs /\ e \notin seen /\ seen' = seen \cup {e}
             /\ ListedBelow(e, here.depth + 1)
    <3>1. Led(holds', seen', e, here.depth + 1)
      BY <1>1, <1>2, <1>3, <2>2, LedOn
    <3> DEFINE n == here.depth + 1
    <3>2. n \in Nat /\ Led(holds', seen', e, n) /\ near'[e] # NoLimit
          /\ (maxDepth' = NoLimit \/ n + near'[e] <= maxDepth')
      BY <1>1, <1>3, <2>2, <3>1 DEF ListedBelow
    <3> HIDE DEF n
    <3>3. Near'
      BY <2>2, <3>2 DEF Near, ListedBelow
    <3> QED BY <2>2, <3>3
  <2>3. CASE hit' = "limit"
    BY <2>3
  <2> QED BY <1>1, <2>1, <2>2, <2>3
<1> QED BY <1>9, <1>10, <1>11, <1>12 DEF WayInv

LEMMA NextWayInv == IInv /\ WayInv /\ [Next]_vars => WayInv'
<1> SUFFICES ASSUME IInv, WayInv, [Next]_vars PROVE WayInv'
  OBVIOUS
<1>1. CASE Finish
  BY <1>1 DEF Finish, WayInv, Here, Near, ListedBelow, TooDeep
<1>2. CASE UNCHANGED vars
  BY <1>2 DEF vars, WayInv, Here, Near, ListedBelow, TooDeep
<1> QED BY <1>1, <1>2, PopKeepsWays, LookKeepsWays DEF Next

(* A way without repetition is no longer than there are directories. *)
LEMMA LedIsWithin ==
  ASSUME IInv, NEW d \in Dirs, NEW n \in Nat, Led(holds, seen, d, n)
  PROVE  /\ \A m \in Nat : n <= m => d \in Within(m)
         /\ Cardinality(Dirs) \in Nat /\ n <= Cardinality(Dirs)
<1>1. seen \subseteq Dirs
  BY DEF IInv, TypeOK
<1>2. PICK p \in [0..n -> seen] :
         /\ p[0] = Root /\ p[n] = d /\ \A i \in 1..n : p[i] \in KnownBy(holds, p[i - 1])
         /\ \A i, j \in 0..n : p[i] = p[j] => i = j
  BY DEF Led
<1>3. p \in [0..n -> Dirs]
  BY <1>1, <1>2
<1>4. Way(p, n, d)
  BY <1>2 DEF Way, Known, KnownBy, Entries
<1>5. ASSUME NEW m \in Nat, n <= m PROVE d \in Within(m)
  <2>1. n \in 0..m
    BY <1>5
  <2> QED BY <1>3, <1>4, <2>1 DEF Within
<1>6. p \in Injection(0..n, Dirs)
  BY <1>2, <1>3 DEF Injection, IsInjective
<1>7. /\ IsFiniteSet(0..n) /\ Cardinality(0..n) = n + 1
  <2>1. IsFiniteSet(0..n) /\ Cardinality(0..n) = IF 0 > n THEN 0 ELSE n - 0 + 1
    BY FS_Interval
  <2> QED BY <2>1
<1>8. Cardinality(Dirs) \in Nat /\ n + 1 <= Cardinality(Dirs)
  BY <1>6, <1>7, TreeAssumption, FS_Injection, FS_CardinalityType
<1> QED BY <1>5, <1>8

(* The command comes k levels below d, if it is led there in n steps. *)
LEMMA LedIsBelow ==
  ASSUME IInv, NEW d \in Dirs, NEW n \in Nat, Led(holds, seen, d, n), NEW k \in Nat,
         maxDepth = NoLimit \/ n + k <= maxDepth
  PROVE  d \in Below(k)
<1>1. maxDepth \in Nat \cup {NoLimit} /\ Cardinality(Dirs) \in Nat /\ n <= Cardinality(Dirs)
  BY LedIsWithin, TreeAssumption DEF IInv, TypeOK
<1>2. CASE maxDepth = NoLimit
  BY <1>1, <1>2, LedIsWithin DEF Below
<1>3. CASE maxDepth # NoLimit
  <2>1. maxDepth \in Nat /\ k <= maxDepth /\ maxDepth - k \in Nat /\ n <= maxDepth - k
    BY <1>1, <1>3
  <2> QED BY <1>3, <2>1, LedIsWithin DEF Below
<1> QED BY <1>2, <1>3

(* What refuses a command is in a directory that the command would come to, by links that
   are there and within its depth, or is a listed path below such a directory, no deeper
   than the command would go (policy.py 395-432). *)
THEOREM NoFalseAlarm == Spec => []HitIsReal
<1>1. ASSUME IInv, WayInv PROVE HitIsReal
  <2>1. ASSUME ~TooDeep(here.depth) PROVE here.dir \in Walked
    <3>1. here.dir \in Dirs /\ here.depth \in Nat /\ maxDepth \in Nat \cup {NoLimit}
      BY <1>1, TreeAssumption DEF IInv, TypeOK, Places
    <3>2. maxDepth = NoLimit \/ here.depth + 1 <= maxDepth
      BY <2>1, <3>1 DEF TooDeep
    <3> QED BY <1>1, <3>1, <3>2, LedIsBelow DEF WayInv, Walked
  <2>2. \A x : Here(x) => here.dir \in Dirs /\ here.dir \in Walked /\ x \in Known(here.dir)
    BY <1>1, <2>1 DEF Here, Known, KnownBy, Entries, IInv, TypeOK, Places
  <2>3. ASSUME Near PROVE \E d \in Dirs : near[d] # NoLimit /\ d \in Below(near[d])
    <3>1. PICK d \in Dirs : \E n \in Nat : Led(holds, seen, d, n) /\ ListedBelow(d, n)
      BY <2>3 DEF Near
    <3>2. PICK n \in Nat : Led(holds, seen, d, n) /\ ListedBelow(d, n)
      BY <3>1
    <3>3. near[d] \in Nat
      BY <1>1, <3>2, TreeAssumption DEF IInv, TypeOK, ListedBelow
    <3> QED BY <1>1, <3>2, <3>3, LedIsBelow DEF ListedBelow
  <2> QED BY <1>1, <2>2, <2>3 DEF WayInv, HitIsReal
<1>2. Spec => []WayInv
  BY InitWayInv, NextWayInv, Invariance, PTL DEF Spec
<1> QED BY <1>1, <1>2, Invariance, PTL
=============================================================================
