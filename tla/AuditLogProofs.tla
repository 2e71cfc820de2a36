---------------------------- MODULE AuditLogProofs ----------------------------
(***************************************************************************)
(* Proofs about AuditLog for any number of processes and records.          *)
(*                                                                         *)
(* The process that holds the lock has the line either still whole in its  *)
(* buffer, or broken with its head the last thing in the file but for what *)
(* closing processes wrote, or whole in the file (Shape).  A chunk is in   *)
(* one place only (Distinct), because a new line is of a new record        *)
(* (Known).                                                                *)
(***************************************************************************)
EXTENDS AuditLog, SequenceTheorems, TLAPS

Holders == {"locked", "flushed", "failed"}

(* Who is past flock and before the finally holds the lock. *)
Locked == \A w \in Writers : pc[w] \in Holders => lock = w

Counted == \A w \in Writers : pc[w] \in Holders \cup {"waiting"} => count[w] # 0

(* A chunk of one of the first n records, and not of the last while that waits. *)
Old(chunk, n, p) == chunk.of[2] <= n /\ (p = "waiting" => chunk.of[2] < n)

Known ==
    /\ \A i \in 1..Len(file), w \in Writers :
          file[i].of[1] = w => Old(file[i], count[w], pc[w])
    /\ \A w \in Writers : \A i \in 1..Len(buffer[w]) :
          buffer[w][i].of[1] = w /\ Old(buffer[w][i], count[w], pc[w])

NoTwice(f) == \A i, j \in 1..Len(f) : f[i] = f[j] => i = j
Apart(f, b) == \A i \in 1..Len(f), j \in 1..Len(b) : f[i] # b[j]

Distinct ==
    /\ NoTwice(file)
    /\ \A w \in Writers : NoTwice(buffer[w]) /\ Apart(file, buffer[w])

(* In a file f, where the chunks s are strays: *)
OnlyStrays(f, s, from, to) == \A k \in from..to : f[k] \in s

OnePiece(f, s, r) ==
    \E i, j \in 1..Len(f) :
        i < j /\ f[i] = Head1(r) /\ f[j] = Tail1(r) /\ OnlyStrays(f, s, i + 1, j - 1)

(* The line of r is the end of what is still to be written. *)
ToWrite(b, r) == Len(b) >= 2 /\ b[Len(b) - 1] = Head1(r) /\ b[Len(b)] = Tail1(r)

HalfWritten(f, s, b, r) ==
    /\ b = <<Tail1(r)>>
    /\ \E i \in 1..Len(f) : f[i] = Head1(r) /\ OnlyStrays(f, s, i + 1, Len(f))

Flushing(f, s, b, r) ==
    ToWrite(b, r) \/ HalfWritten(f, s, b, r) \/ (b = <<>> /\ OnePiece(f, s, r))

Shape ==
    \A w \in Writers :
        /\ pc[w] = "locked" => Flushing(file, strays, buffer[w], Current(w))
        /\ pc[w] = "flushed" => OnePiece(file, strays, Current(w))

LoggedWhole == \A r \in logged : OnePiece(file, strays, r)

IInv == TypeOK /\ Locked /\ Counted /\ Known /\ Distinct /\ Shape /\ LoggedWhole

-----------------------------------------------------------------------------
(* Lines and files. *)

LEMMA LineFacts ==
  ASSUME TypeOK, NEW w \in Writers, count[w] # 0
  PROVE  LET r == Current(w) IN
         /\ r \in Records /\ r[1] = w /\ r[2] = count[w]
         /\ Line(r) \in Seq(Chunks) /\ Len(Line(r)) = 2
         /\ Line(r)[1] = Head1(r) /\ Line(r)[2] = Tail1(r)
         /\ Head1(r) # Tail1(r) /\ Head1(r).of = r /\ Tail1(r).of = r
<1>1. count[w] \in 1..MaxRecords
  BY LogAssumption DEF TypeOK
<1>2. Current(w) \in Records /\ Current(w)[1] = w /\ Current(w)[2] = count[w]
  BY <1>1 DEF Current, Records
<1>3. Head1(Current(w)) \in Chunks /\ Tail1(Current(w)) \in Chunks
  BY <1>2 DEF Head1, Tail1, Chunks
<1> QED BY <1>2, <1>3 DEF Line, Head1, Tail1

LEMMA AppendFacts ==
  ASSUME NEW f \in Seq(Chunks), NEW c \in Chunks
  PROVE  /\ Append(f, c) \in Seq(Chunks) /\ Len(Append(f, c)) = Len(f) + 1 /\ Len(f) \in Nat
         /\ \A i \in 1..Len(f) : Append(f, c)[i] = f[i]
         /\ Append(f, c)[Len(f) + 1] = c
  OBVIOUS

LEMMA TailFacts ==
  ASSUME NEW b \in Seq(Chunks), b # <<>>
  PROVE  /\ Head(b) \in Chunks /\ Tail(b) \in Seq(Chunks) /\ Head(b) = b[1]
         /\ Len(b) \in Nat /\ Len(b) >= 1 /\ Len(Tail(b)) = Len(b) - 1
         /\ \A i \in 1..Len(Tail(b)) : i + 1 \in 1..Len(b) /\ Tail(b)[i] = b[i + 1]
  OBVIOUS

(* A line that is in one piece stays so, whatever is written behind it. *)
LEMMA PieceStays ==
  ASSUME NEW f \in Seq(Chunks), NEW c \in Chunks, NEW s, NEW t, s \subseteq t, NEW r,
         OnePiece(f, s, r)
  PROVE  OnePiece(Append(f, c), t, r)
<1>1. PICK i \in 1..Len(f), j \in 1..Len(f) :
         i < j /\ f[i] = Head1(r) /\ f[j] = Tail1(r) /\ OnlyStrays(f, s, i + 1, j - 1)
  BY DEF OnePiece
<1>2. OnlyStrays(Append(f, c), t, i + 1, j - 1)
  BY <1>1, AppendFacts DEF OnlyStrays
<1>3. i \in 1..Len(Append(f, c)) /\ j \in 1..Len(Append(f, c))
  BY AppendFacts
<1> QED BY <1>1, <1>2, <1>3, AppendFacts DEF OnePiece

(* Who closes writes into a line of another only what is a stray. *)
LEMMA FlushingStays ==
  ASSUME NEW f \in Seq(Chunks), NEW s, NEW c \in Chunks, NEW b, NEW r, Flushing(f, s, b, r)
  PROVE  Flushing(Append(f, c), s \cup {c}, b, r)
<1>1. CASE HalfWritten(f, s, b, r)
  <2>1. PICK i \in 1..Len(f) : f[i] = Head1(r) /\ OnlyStrays(f, s, i + 1, Len(f))
    BY <1>1 DEF HalfWritten
  <2>2. OnlyStrays(Append(f, c), s \cup {c}, i + 1, Len(Append(f, c)))
    BY <2>1, AppendFacts DEF OnlyStrays
  <2>3. i \in 1..Len(Append(f, c)) /\ Append(f, c)[i] = Head1(r)
    BY <2>1, AppendFacts
  <2> QED BY <1>1, <2>2, <2>3 DEF HalfWritten, Flushing
<1>2. CASE b = <<>> /\ OnePiece(f, s, r)
  BY <1>2, PieceStays DEF Flushing
<1>3. CASE ToWrite(b, r)
  BY <1>3 DEF Flushing
<1> QED BY <1>1, <1>2, <1>3 DEF Flushing

(* The next write of the flush. *)
LEMMA FlushingGoesOn ==
  ASSUME NEW f \in Seq(Chunks), NEW s, NEW b \in Seq(Chunks), b # <<>>, NEW r,
         Flushing(f, s, b, r)
  PROVE  Flushing(Append(f, Head(b)), s, Tail(b), r)
<1> DEFINE g == Append(f, Head(b))
           c == Tail(b)
<1>0. /\ Len(g) = Len(f) + 1 /\ Len(f) \in Nat /\ g[Len(f) + 1] = b[1]
      /\ \A i \in 1..Len(f) : g[i] = f[i]
      /\ c \in Seq(Chunks) /\ Len(b) \in Nat /\ Len(c) = Len(b) - 1
      /\ \A i \in 1..Len(c) : c[i] = b[i + 1]
  BY TailFacts, AppendFacts
<1> HIDE DEF g, c
<1>1. CASE HalfWritten(f, s, b, r)
  <2>1. PICK i \in 1..Len(f) : f[i] = Head1(r) /\ OnlyStrays(f, s, i + 1, Len(f))
    BY <1>1 DEF HalfWritten
  <2>2. g[Len(f) + 1] = Tail1(r) /\ c = <<>>
    BY <1>0, <1>1 DEF HalfWritten, c
  <2>3. OnlyStrays(g, s, i + 1, (Len(f) + 1) - 1)
    BY <1>0, <2>1 DEF OnlyStrays
  <2>4. i \in 1..Len(g) /\ Len(f) + 1 \in 1..Len(g) /\ i < Len(f) + 1 /\ g[i] = Head1(r)
    BY <1>0, <2>1
  <2>5. OnePiece(g, s, r)
    BY <2>2, <2>3, <2>4 DEF OnePiece
  <2> QED BY <2>2, <2>5 DEF Flushing, g, c
<1>2. CASE ToWrite(b, r) /\ Len(b) = 2
  <2>1. b[1] = Head1(r) /\ b[2] = Tail1(r)
    BY <1>2 DEF ToWrite
  <2>2. Len(c) = 1 /\ c[1] = Tail1(r)
    BY <1>0, <1>2, <2>1
  <2>3. c = <<Tail1(r)>>
    BY <1>0, <2>2
  <2>4. OnlyStrays(g, s, (Len(f) + 1) + 1, Len(g))
    BY <1>0 DEF OnlyStrays
  <2>5. Len(f) + 1 \in 1..Len(g) /\ g[Len(f) + 1] = Head1(r)
    BY <1>0, <2>1
  <2>6. HalfWritten(g, s, c, r)
    BY <2>3, <2>4, <2>5 DEF HalfWritten
  <2> QED BY <2>6 DEF Flushing, g, c
<1>3. CASE ToWrite(b, r) /\ Len(b) # 2
  <2>1. Len(b) > 2 /\ b[Len(b) - 1] = Head1(r) /\ b[Len(b)] = Tail1(r)
    BY <1>0, <1>3 DEF ToWrite
  <2>2. Len(c) >= 2 /\ c[Len(c) - 1] = b[Len(b) - 1] /\ c[Len(c)] = b[Len(b)]
    BY <1>0, <2>1
  <2>3. ToWrite(c, r)
    BY <2>1, <2>2 DEF ToWrite
  <2> QED BY <2>3 DEF Flushing, g, c
<1> QED BY <1>1, <1>2, <1>3 DEF Flushing

(* The head of a buffer moves to the file. *)
LEMMA MoveHead ==
  ASSUME NEW f \in Seq(Chunks), NEW b \in Seq(Chunks), b # <<>>, NoTwice(f), NoTwice(b), Apart(f, b)
  PROVE  /\ NoTwice(Append(f, Head(b))) /\ NoTwice(Tail(b))
         /\ Apart(Append(f, Head(b)), Tail(b))
<1> DEFINE g == Append(f, Head(b))
           c == Tail(b)
<1>0. /\ Len(g) = Len(f) + 1 /\ Len(f) \in Nat /\ g[Len(f) + 1] = b[1]
      /\ \A i \in 1..Len(f) : g[i] = f[i]
      /\ Len(b) \in Nat /\ Len(b) >= 1 /\ Len(c) = Len(b) - 1
      /\ \A i \in 1..Len(c) : i + 1 \in 1..Len(b) /\ c[i] = b[i + 1]
  BY TailFacts, AppendFacts
<1> HIDE DEF g, c
<1>1. NoTwice(g)
  BY <1>0, SMTT(30) DEF NoTwice, Apart
<1>2. NoTwice(c)
  <2> SUFFICES ASSUME NEW i \in 1..Len(c), NEW j \in 1..Len(c), c[i] = c[j] PROVE i = j
    BY DEF NoTwice
  <2>1. b[i + 1] = b[j + 1] /\ i + 1 \in 1..Len(b) /\ j + 1 \in 1..Len(b)
    BY <1>0
  <2>2. i + 1 = j + 1
    BY <2>1 DEF NoTwice
  <2> QED BY <1>0, <2>2
<1>3. Apart(g, c)
  <2> SUFFICES ASSUME NEW i \in 1..Len(g), NEW j \in 1..Len(c) PROVE g[i] # c[j]
    BY DEF Apart
  <2>1. c[j] = b[j + 1] /\ j + 1 \in 1..Len(b)
    BY <1>0
  <2>2. CASE i \in 1..Len(f)
    BY <1>0, <2>1, <2>2 DEF Apart
  <2>3. CASE i = Len(f) + 1
    <3>1. 1 \in 1..Len(b) /\ g[i] = b[1] /\ j + 1 # 1
      BY <1>0, <2>3
    <3> QED BY <2>1, <3>1 DEF NoTwice
  <2> QED BY <1>0, <2>2, <2>3
<1> QED BY <1>1, <1>2, <1>3 DEF g, c

(* A line joins a buffer that has nothing of its record. *)
LEMMA LineJoins ==
  ASSUME NEW f \in Seq(Chunks), NEW b \in Seq(Chunks), NoTwice(b), Apart(f, b), NEW r \in Records,
         Line(r) \in Seq(Chunks),
         \A i \in 1..Len(f) : f[i].of # r, \A i \in 1..Len(b) : b[i].of # r
  PROVE  /\ b \o Line(r) \in Seq(Chunks) /\ NoTwice(b \o Line(r)) /\ Apart(f, b \o Line(r))
         /\ ToWrite(b \o Line(r), r)
         /\ \A i \in 1..Len(b \o Line(r)) :
               (i \in 1..Len(b) /\ (b \o Line(r))[i] = b[i]) \/ (b \o Line(r))[i].of = r
<1> DEFINE c == b \o Line(r)
<1>1. Head1(r) # Tail1(r) /\ Head1(r).of = r /\ Tail1(r).of = r
  BY DEF Head1, Tail1
<1>2. Len(Line(r)) = 2 /\ Line(r)[1] = Head1(r) /\ Line(r)[2] = Tail1(r)
  BY DEF Line
<1>3. /\ c \in Seq(Chunks) /\ Len(b) \in Nat /\ Len(c) = Len(b) + 2
      /\ \A i \in 1..Len(b) : c[i] = b[i]
      /\ c[Len(b) + 1] = Head1(r) /\ c[Len(b) + 2] = Tail1(r)
  <2> DEFINE e == Line(r)
  <2>1. e \in Seq(Chunks) /\ Len(e) = 2 /\ e[1] = Head1(r) /\ e[2] = Tail1(r)
    BY <1>2
  <2> HIDE DEF e
  <2>2. /\ b \o e \in Seq(Chunks) /\ Len(b) \in Nat /\ Len(b \o e) = Len(b) + 2
        /\ \A i \in 1..Len(b) : (b \o e)[i] = b[i]
        /\ (b \o e)[Len(b) + 1] = e[1] /\ (b \o e)[Len(b) + 2] = e[2]
    <3>1. /\ b \o e \in Seq(Chunks) /\ Len(b \o e) = Len(b) + Len(e)
          /\ \A i \in 1..Len(b) + Len(e) : (b \o e)[i] = IF i <= Len(b) THEN b[i] ELSE e[i - Len(b)]
      BY <2>1, ConcatProperties
    <3>2. Len(b) \in Nat
      OBVIOUS
    <3> HIDE DEF e
    <3> QED BY <2>1, <3>1, <3>2
  <2> QED BY <2>1, <2>2 DEF e
<1> HIDE DEF c
<1>4. NoTwice(c)
  <2> SUFFICES ASSUME NEW i \in 1..Len(c), NEW j \in 1..Len(c), c[i] = c[j] PROVE i = j
    BY DEF NoTwice
  <2>1. CASE i \in 1..Len(b) /\ j \in 1..Len(b)
    BY <1>3, <2>1 DEF NoTwice
  <2>2. CASE i \notin 1..Len(b) \/ j \notin 1..Len(b)
    <3>1. i \in 1..Len(b) \/ i = Len(b) + 1 \/ i = Len(b) + 2
      BY <1>3
    <3>2. j \in 1..Len(b) \/ j = Len(b) + 1 \/ j = Len(b) + 2
      BY <1>3
    <3> QED BY <1>1, <1>3, <2>2, <3>1, <3>2, SMTT(30)
  <2> QED BY <2>1, <2>2
<1>7. Apart(f, c)
  <2> SUFFICES ASSUME NEW i \in 1..Len(f), NEW j \in 1..Len(c) PROVE f[i] # c[j]
    BY DEF Apart
  <2>1. j \in 1..Len(b) \/ j = Len(b) + 1 \/ j = Len(b) + 2
    BY <1>3
  <2> QED BY <1>1, <1>3, <2>1 DEF Apart
<1>5. ToWrite(c, r)
  BY <1>3 DEF ToWrite
<1>6. \A i \in 1..Len(c) : (i \in 1..Len(b) /\ c[i] = b[i]) \/ c[i].of = r
  BY <1>1, <1>3, SMTT(30)
<1> QED BY <1>3, <1>4, <1>5, <1>6, <1>7 DEF c
-----------------------------------------------------------------------------
(* The steps. *)

LEMMA InitIInv == Init => IInv
<1> SUFFICES ASSUME Init PROVE IInv
  OBVIOUS
<1>1. TypeOK
  <2>1. file \in Seq(Chunks) /\ buffer \in [Writers -> Seq(Chunks)]
    BY DEF Init
  <2>2. count \in [Writers -> 0..MaxRecords]
    BY LogAssumption DEF Init
  <2> QED BY <2>1, <2>2 DEF Init, TypeOK
<1>2. Locked /\ Counted
  BY LogAssumption DEF Init, Locked, Counted, Holders
<1>3. Known /\ Distinct /\ Shape /\ LoggedWhole
  BY DEF Init, Known, Distinct, NoTwice, Apart, Shape, LoggedWhole
<1> QED BY <1>1, <1>2, <1>3 DEF IInv

(* A step that writes nothing, and moves only w: what is left to show. *)
LEMMA QuietStep ==
  ASSUME IInv, NEW w \in Writers, UNCHANGED file, UNCHANGED strays,
         TypeOK', Locked', Counted', Shape', LoggedWhole',
         \A v \in Writers : buffer'[v] \in {buffer[v], <<>>},
         \A v \in Writers : v # w => pc'[v] = pc[v] /\ count'[v] = count[v],
         \A c \in Chunks : Old(c, count[w], pc[w]) => Old(c, count'[w], pc'[w])
  PROVE  IInv'
<1>1. ASSUME NEW c \in Chunks, NEW v \in Writers, Old(c, count[v], pc[v])
      PROVE  Old(c, count'[v], pc'[v])
  BY <1>1
<1>2. Known'
  <2>1. \A i \in 1..Len(file) : file[i] \in Chunks
    BY DEF IInv, TypeOK
  <2>2. \A v \in Writers : \A i \in 1..Len(buffer[v]) : buffer[v][i] \in Chunks
    BY DEF IInv, TypeOK
  <2>3. \A v \in Writers : \A i \in 1..Len(buffer'[v]) :
           buffer'[v] = buffer[v] /\ i \in 1..Len(buffer[v])
    OBVIOUS
  <2>4. \A i \in 1..Len(file), v \in Writers :
           file[i].of[1] = v => Old(file[i], count'[v], pc'[v])
    BY <1>1, <2>1 DEF IInv, Known
  <2>5. \A v \in Writers : \A i \in 1..Len(buffer'[v]) :
           buffer'[v][i].of[1] = v /\ Old(buffer'[v][i], count'[v], pc'[v])
    BY <1>1, <2>2, <2>3 DEF IInv, Known
  <2> QED BY <2>4, <2>5 DEF Known
<1>3. Distinct'
  <2>1. NoTwice(<<>>) /\ Apart(file, <<>>)
    BY DEF NoTwice, Apart
  <2> QED BY <2>1 DEF IInv, Distinct
<1> QED BY <1>2, <1>3 DEF IInv

LEMMA LogStep ==
  ASSUME IInv, NEW w \in Writers, Log(w)
  PROVE  IInv'
<1>1. count[w] \in Nat /\ count'[w] = count[w] + 1 /\ pc'[w] = "waiting" /\ pc[w] = "idle"
  BY LogAssumption DEF Log, IInv, TypeOK
<1>2. \A v \in Writers : v # w => pc'[v] = pc[v] /\ count'[v] = count[v]
  BY DEF Log, IInv, TypeOK
<1>3. TypeOK'
  BY LogAssumption DEF Log, IInv, TypeOK
<1>4. Locked' /\ Counted'
  BY <1>1, <1>2 DEF Log, IInv, Locked, Counted, Holders
<1>5. Shape'
  BY <1>1, <1>2 DEF Log, IInv, Shape, Current
<1>6. \A c \in Chunks : Old(c, count[w], pc[w]) => Old(c, count'[w], pc'[w])
  <2>1. \A c \in Chunks : c.of[2] \in Nat
    BY LogAssumption DEF Chunks, Records
  <2> QED BY <1>1, <2>1 DEF Old
<1> QED BY <1>2, <1>3, <1>4, <1>5, <1>6, QuietStep DEF Log, IInv, LoggedWhole

LEMMA SyncStep ==
  ASSUME IInv, NEW w \in Writers, Sync(w)
  PROVE  IInv'
<1>1. pc'[w] = "flushed" /\ pc[w] = "locked" /\ \A v \in Writers : v # w => pc'[v] = pc[v]
  BY DEF Sync, IInv, TypeOK
<1>2. TypeOK'
  BY DEF Sync, IInv, TypeOK
<1>3. Locked' /\ Counted'
  BY <1>1 DEF Sync, IInv, Locked, Counted, Holders
<1>4. OnePiece(file, strays, Current(w))
  <2>1. buffer[w] = <<>> /\ Flushing(file, strays, buffer[w], Current(w))
    BY <1>1 DEF Sync, IInv, Shape
  <2> QED BY <2>1 DEF Flushing, ToWrite, HalfWritten
<1>5. Shape'
  BY <1>1, <1>4 DEF Sync, IInv, Shape, Current
<1> QED BY <1>1, <1>2, <1>3, <1>5, QuietStep DEF Sync, IInv, LoggedWhole, Old

LEMMA FailStep ==
  ASSUME IInv, NEW w \in Writers, Fail(w)
  PROVE  IInv'
<1>1. pc'[w] = "failed" /\ pc[w] = "locked" /\ \A v \in Writers : v # w => pc'[v] = pc[v]
  BY DEF Fail, IInv, TypeOK
<1>2. /\ buffer' \in [Writers -> Seq(Chunks)]
      /\ \A v \in Writers : buffer'[v] \in {buffer[v], <<>>}
      /\ \A v \in Writers : v # w => buffer'[v] = buffer[v]
  <2>1. CASE buffer' = buffer
    BY <2>1 DEF IInv, TypeOK
  <2>2. CASE buffer' = [buffer EXCEPT ![w] = <<>>]
    <3>1. <<>> \in Seq(Chunks)
      OBVIOUS
    <3> QED BY <2>2, <3>1 DEF IInv, TypeOK
  <2> QED BY <2>1, <2>2 DEF Fail
<1>3. TypeOK'
  BY <1>2 DEF Fail, IInv, TypeOK
<1>4. Locked' /\ Counted'
  BY <1>1 DEF Fail, IInv, Locked, Counted, Holders
<1>5. Shape'
  BY <1>1, <1>2 DEF Fail, IInv, Shape, Current
<1> QED BY <1>1, <1>2, <1>3, <1>4, <1>5, QuietStep DEF Fail, IInv, LoggedWhole, Old

LEMMA ReleaseStep ==
  ASSUME IInv, NEW w \in Writers, Release(w)
  PROVE  IInv'
<1>1. /\ pc'[w] = "idle" /\ pc[w] \in {"flushed", "failed"} /\ lock' = None /\ lock = w
      /\ \A v \in Writers : v # w => pc'[v] = pc[v]
  BY DEF Release, IInv, TypeOK, Locked, Holders
<1>2. TypeOK'
  <2>1. logged' \subseteq Records
    BY <1>1, LineFacts DEF Release, IInv, TypeOK, Counted, Holders
  <2> QED BY <2>1 DEF Release, IInv, TypeOK
<1>3. Locked' /\ Counted'
  <2>1. \A v \in Writers : v # None /\ (v # w => lock # v)
    BY <1>1, LogAssumption
  <2> QED BY <1>1, <2>1 DEF Release, IInv, Locked, Counted, Holders
<1>4. Shape'
  BY <1>1 DEF Release, IInv, Shape, Current
<1>5. LoggedWhole'
  BY DEF Release, Returned, IInv, Shape, LoggedWhole
<1> QED BY <1>1, <1>2, <1>3, <1>4, <1>5, QuietStep DEF Release, Old

LEMMA InterruptStep ==
  ASSUME IInv, NEW w \in Writers, Interrupt(w)
  PROVE  IInv'
<1>1. /\ pc'[w] = "ending" /\ pc[w] \in {"waiting", "flushed", "failed"}
      /\ \A v \in Writers : v # w => pc'[v] = pc[v]
  BY DEF Interrupt, IInv, TypeOK
<1>2. lock' \in {lock, w, None} /\ TypeOK'
  BY DEF Interrupt, IInv, TypeOK
<1>3. Locked'
  <2> SUFFICES ASSUME NEW v \in Writers, pc'[v] \in Holders PROVE lock' = v
    BY DEF Locked
  <2>1. v # w /\ lock = v
    BY <1>1 DEF IInv, Locked, Holders
  <2>2. pc[w] = "waiting" /\ lock # None
    BY <1>1, <2>1, LogAssumption DEF IInv, Locked, Holders
  <2> QED BY <2>1, <2>2 DEF Interrupt, Free
<1>4. Counted'
  BY <1>1 DEF Interrupt, IInv, Counted, Holders
<1>5. Shape'
  BY <1>1 DEF Interrupt, IInv, Shape, Current
<1> QED BY <1>1, <1>2, <1>3, <1>4, <1>5, QuietStep DEF Interrupt, IInv, LoggedWhole, Old

LEMMA CrashStep ==
  ASSUME IInv, NEW w \in Writers, Crash(w)
  PROVE  IInv'
<1>1. pc'[w] = "gone" /\ \A v \in Writers : v # w => pc'[v] = pc[v]
  BY DEF Crash, IInv, TypeOK
<1>2. /\ buffer' \in [Writers -> Seq(Chunks)]
      /\ \A v \in Writers : buffer'[v] \in {buffer[v], <<>>}
      /\ \A v \in Writers : v # w => buffer'[v] = buffer[v]
  BY DEF Crash, IInv, TypeOK
<1>3. TypeOK'
  BY <1>2 DEF Crash, IInv, TypeOK
<1>4. Locked'
  <2>1. \A v \in Writers : v # None
    BY LogAssumption
  <2> QED BY <1>1, <2>1 DEF Crash, IInv, Locked, Holders
<1>5. Counted'
  BY <1>1 DEF Crash, IInv, Counted, Holders
<1>6. Shape'
  BY <1>1, <1>2 DEF Crash, IInv, Shape, Current
<1> QED BY <1>1, <1>2, <1>3, <1>4, <1>5, <1>6, QuietStep DEF Crash, IInv, LoggedWhole, Old

LEMMA AcquireStep ==
  ASSUME IInv, NEW w \in Writers, Acquire(w)
  PROVE  IInv'
<1> DEFINE r == Current(w)
           b == buffer[w]
           c == b \o Line(r)
<1>1. /\ pc[w] = "waiting" /\ pc'[w] = "locked" /\ lock = None /\ lock' = w
      /\ \A v \in Writers : v # w => pc'[v] = pc[v]
  BY DEF Acquire, Free, IInv, TypeOK
<1>2. count[w] # 0
  BY <1>1 DEF IInv, Counted
<1>3. r \in Records /\ r[1] = w /\ r[2] = count[w] /\ Line(r) \in Seq(Chunks) /\ count[w] \in Nat
  BY <1>2, LineFacts DEF IInv, TypeOK
<1>4. file \in Seq(Chunks) /\ b \in Seq(Chunks) /\ NoTwice(b) /\ Apart(file, b)
  BY DEF IInv, TypeOK, Distinct
<1>5. (\A i \in 1..Len(file) : file[i].of # r) /\ (\A i \in 1..Len(b) : b[i].of # r)
  <2>1. ASSUME NEW x, x.of = r, Old(x, count[w], pc[w]) PROVE FALSE
    <3>1. x.of[2] < count[w]
      BY <1>1, <2>1 DEF Old
    <3> HIDE DEF r
    <3> QED BY <1>3, <2>1, <3>1
  <2>2. \A i \in 1..Len(file) : file[i].of[1] = w => Old(file[i], count[w], pc[w])
    BY DEF IInv, Known
  <2>3. \A i \in 1..Len(b) : Old(b[i], count[w], pc[w])
    BY DEF IInv, Known
  <2> HIDE DEF r, b
  <2> QED BY <1>3, <2>1, <2>2, <2>3
<1>6. buffer'[w] = c /\ \A v \in Writers : v # w => buffer'[v] = buffer[v]
  BY DEF Acquire, IInv, TypeOK
<1> HIDE DEF b, r
<1>7. /\ c \in Seq(Chunks) /\ NoTwice(c) /\ Apart(file, c) /\ ToWrite(c, r)
      /\ \A i \in 1..Len(c) : (i \in 1..Len(b) /\ c[i] = b[i]) \/ c[i].of = r
  BY <1>3, <1>4, <1>5, LineJoins
<1> HIDE DEF c
<1>8. TypeOK'
  <2>1. buffer' = [buffer EXCEPT ![w] = c]
    BY DEF Acquire, b, c, r
  <2> QED BY <1>7, <2>1 DEF Acquire, IInv, TypeOK
<1>9. Locked' /\ Counted'
  BY <1>1, <1>2, LogAssumption DEF Acquire, IInv, Locked, Counted, Holders
<1>10. Known'
  <2>1. \A x, v : Old(x, count[v], pc[v]) /\ v \in Writers => Old(x, count'[v], pc'[v])
    BY <1>1 DEF Acquire, Old
  <2>2. \A i \in 1..Len(file), v \in Writers : file[i].of[1] = v => Old(file[i], count'[v], pc'[v])
    BY <2>1 DEF IInv, Known
  <2>3. \A i \in 1..Len(c) : c[i].of[1] = w /\ Old(c[i], count'[w], pc'[w])
    <3>1. ASSUME NEW i \in 1..Len(b) PROVE b[i].of[1] = w /\ Old(b[i], count'[w], pc'[w])
      BY <2>1 DEF IInv, Known, b
    <3>2. ASSUME NEW x, x.of = r PROVE x.of[1] = w /\ Old(x, count'[w], pc'[w])
      BY <1>1, <1>3, <3>2 DEF Acquire, Old
    <3> QED BY <1>7, <3>1, <3>2
  <2>4. \A v \in Writers : \A i \in 1..Len(buffer'[v]) :
           buffer'[v][i].of[1] = v /\ Old(buffer'[v][i], count'[v], pc'[v])
    BY <1>6, <2>1, <2>3 DEF IInv, Known
  <2> QED BY <2>2, <2>4 DEF Acquire, Known
<1>11. Distinct'
  BY <1>6, <1>7 DEF Acquire, IInv, Distinct
<1>12. Shape'
  <2>1. Flushing(file, strays, c, r)
    BY <1>7 DEF Flushing
  <2> QED BY <1>1, <1>6, <2>1 DEF Acquire, IInv, Shape, Current, r
<1> QED BY <1>8, <1>9, <1>10, <1>11, <1>12 DEF Acquire, IInv, LoggedWhole

(* The first chunk of a buffer goes to the file: by a flush, or as a stray. *)
LEMMA HeadGoes ==
  ASSUME IInv, NEW w \in Writers, buffer[w] # <<>>,
         file' = Append(file, Head(buffer[w])), buffer' = [buffer EXCEPT ![w] = Tail(@)],
         UNCHANGED <<pc, lock, count, logged>>, strays' \in {strays, strays \cup {Head(buffer[w])}}
  PROVE  TypeOK' /\ Locked' /\ Counted' /\ Known' /\ Distinct' /\ LoggedWhole'
<1> DEFINE b == buffer[w]
           c == Tail(b)
           x == Head(b)
<1>1. file \in Seq(Chunks) /\ b \in Seq(Chunks) /\ b # <<>>
  BY DEF IInv, TypeOK
<1>2. buffer'[w] = c /\ \A v \in Writers : v # w => buffer'[v] = buffer[v]
  BY DEF IInv, TypeOK
<1>3. /\ x \in Chunks /\ x = b[1] /\ 1 \in 1..Len(b) /\ c \in Seq(Chunks)
      /\ \A i \in 1..Len(c) : i + 1 \in 1..Len(b) /\ c[i] = b[i + 1]
  BY <1>1, TailFacts
<1>4. /\ file' \in Seq(Chunks) /\ Len(file) \in Nat /\ Len(file') = Len(file) + 1
      /\ \A i \in 1..Len(file) : file'[i] = file[i]
      /\ file'[Len(file) + 1] = x
  BY <1>1, <1>3, AppendFacts
<1>5. TypeOK'
  BY <1>3, <1>4 DEF IInv, TypeOK
<1>6. Locked' /\ Counted'
  BY DEF IInv, Locked, Counted
<1>7. x.of[1] = w /\ Old(x, count[w], pc[w])
  BY <1>3 DEF IInv, Known
<1> HIDE DEF c, x
<1>8. Known'
  <2>1. ASSUME NEW i \in 1..Len(file'), NEW v \in Writers, file'[i].of[1] = v
        PROVE  Old(file'[i], count[v], pc[v])
    <3>1. CASE i \in 1..Len(file)
      BY <1>4, <2>1, <3>1 DEF IInv, Known
    <3>2. CASE i = Len(file) + 1
      BY <1>4, <1>7, <2>1, <3>2
    <3> QED BY <1>4, <3>1, <3>2
  <2>2. ASSUME NEW v \in Writers, NEW i \in 1..Len(buffer'[v])
        PROVE  buffer'[v][i].of[1] = v /\ Old(buffer'[v][i], count[v], pc[v])
    BY <1>2, <1>3 DEF IInv, Known
  <2> QED BY <2>1, <2>2 DEF Known
<1>9. Distinct'
  <2>1. NoTwice(file') /\ NoTwice(c) /\ Apart(file', c)
    BY <1>1, MoveHead DEF IInv, Distinct, c
  <2>2. ASSUME NEW v \in Writers, v # w PROVE Apart(file', buffer[v])
    <3> SUFFICES ASSUME NEW i \in 1..Len(file'), NEW j \in 1..Len(buffer[v])
                 PROVE  file'[i] # buffer[v][j]
      BY DEF Apart
    <3>1. CASE i \in 1..Len(file)
      BY <1>4, <3>1 DEF IInv, Distinct, Apart
    <3>2. CASE i = Len(file) + 1
      BY <1>4, <1>7, <2>2, <3>2 DEF IInv, Known
    <3> QED BY <1>4, <3>1, <3>2
  <2> QED BY <1>2, <2>1, <2>2 DEF IInv, Distinct
<1>10. LoggedWhole'
  <2>1. strays \subseteq strays' /\ x \in Chunks
    BY <1>3
  <2> QED BY <1>1, <2>1, PieceStays DEF IInv, LoggedWhole, x
<1> QED BY <1>5, <1>6, <1>8, <1>9, <1>10

LEMMA WriteStep ==
  ASSUME IInv, NEW w \in Writers, Write(w)
  PROVE  IInv'
<1>1. TypeOK' /\ Locked' /\ Counted' /\ Known' /\ Distinct' /\ LoggedWhole'
  BY HeadGoes DEF Write
<1>2. /\ file \in Seq(Chunks) /\ buffer[w] \in Seq(Chunks) /\ buffer[w] # <<>>
      /\ buffer'[w] = Tail(buffer[w]) /\ lock = w
  BY DEF Write, IInv, TypeOK, Locked, Holders
<1>3. Flushing(file, strays, buffer[w], Current(w))
  BY DEF Write, IInv, Shape
<1>4. Flushing(file', strays, buffer'[w], Current(w))
  BY <1>2, <1>3, FlushingGoesOn DEF Write
<1>5. \A v \in Writers : pc[v] \in {"locked", "flushed"} => v = w /\ pc[v] = "locked"
  BY <1>2 DEF Write, IInv, Locked, Holders
<1>6. Shape'
  BY <1>4, <1>5 DEF Write, Shape, Current
<1> QED BY <1>1, <1>6 DEF IInv

LEMMA CloseStep ==
  ASSUME IInv, NEW w \in Writers, Close(w)
  PROVE  IInv'
<1>1. CASE buffer[w] = <<>>
  <2>1. pc'[w] = "gone" /\ pc[w] \in {"idle", "ending"} /\ \A v \in Writers : v # w => pc'[v] = pc[v]
    BY <1>1 DEF Close, IInv, TypeOK
  <2>2. TypeOK'
    BY <1>1 DEF Close, IInv, TypeOK
  <2>3. Locked' /\ Counted'
    BY <1>1, <2>1 DEF Close, IInv, Locked, Counted, Holders
  <2>4. Shape'
    BY <1>1, <2>1 DEF Close, IInv, Shape, Current
  <2> QED BY <1>1, <2>1, <2>2, <2>3, <2>4, QuietStep DEF Close, IInv, LoggedWhole, Old
<1>2. CASE buffer[w] # <<>>
  <2> DEFINE x == Head(buffer[w])
  <2>1. /\ file' = Append(file, x) /\ strays' = strays \cup {x}
        /\ buffer' = [buffer EXCEPT ![w] = Tail(@)] /\ UNCHANGED <<pc, lock, count, logged>>
        /\ pc[w] \in {"idle", "ending"}
    BY <1>2 DEF Close
  <2>2. TypeOK' /\ Locked' /\ Counted' /\ Known' /\ Distinct' /\ LoggedWhole'
    BY <1>2, <2>1, HeadGoes
  <2>3. file \in Seq(Chunks) /\ x \in Chunks /\ \A v \in Writers : v # w => buffer'[v] = buffer[v]
    BY <1>2, <2>1, TailFacts DEF IInv, TypeOK
  <2>4. ASSUME NEW v \in Writers, pc[v] = "locked"
        PROVE  Flushing(file', strays', buffer'[v], Current(v))
    <3>1. Flushing(file, strays, buffer[v], Current(v)) /\ buffer'[v] = buffer[v]
      BY <2>1, <2>3, <2>4 DEF IInv, Shape
    <3> QED BY <2>1, <2>3, <3>1, FlushingStays
  <2>5. ASSUME NEW v \in Writers, pc[v] = "flushed" PROVE OnePiece(file', strays', Current(v))
    <3>1. OnePiece(file, strays, Current(v)) /\ strays \subseteq strays'
      BY <2>1, <2>5 DEF IInv, Shape
    <3> QED BY <2>1, <2>3, <3>1, PieceStays
  <2>6. Shape'
    BY <2>1, <2>4, <2>5 DEF Shape, Current
  <2> QED BY <2>2, <2>6 DEF IInv
<1> QED BY <1>1, <1>2

-----------------------------------------------------------------------------
(* The theorems. *)

(* The inductive invariant. *)
THEOREM Invariance == Spec => []IInv
<1>1. Init => IInv
  BY InitIInv
<1>2. IInv /\ [Next]_vars => IInv'
  <2> SUFFICES ASSUME IInv, [Next]_vars PROVE IInv'
    OBVIOUS
  <2>1. ASSUME NEW w \in Writers,
               Log(w) \/ Step(w) \/ Fail(w) \/ Interrupt(w) \/ Close(w) \/ Crash(w)
        PROVE  IInv'
    BY <2>1, LogStep, AcquireStep, WriteStep, SyncStep, ReleaseStep, FailStep,
       InterruptStep, CloseStep, CrashStep
       DEF Step
  <2>2. CASE UNCHANGED vars
    BY <2>2 DEF vars, IInv, TypeOK, Locked, Counted, Known, Distinct, Shape, LoggedWhole, Current
  <2> QED BY <2>1, <2>2 DEF Next
<1> QED BY <1>1, <1>2, PTL DEF Spec

(* The variables keep their types. *)
THEOREM TypeCorrect == Spec => []TypeOK
<1>1. IInv => TypeOK
  BY DEF IInv
<1> QED BY <1>1, Invariance, PTL

(* Each chunk of a line is written at most once, however often writes fail and
   buffers are flushed again (audit.py 36-54). *)
THEOREM NothingTwice == Spec => []WrittenOnce
<1>1. IInv => WrittenOnce
  BY DEF IInv, Distinct, NoTwice, WrittenOnce
<1> QED BY <1>1, Invariance, PTL

(* A record for which log returned is in the file (audit.py 1-2, 36-54). *)
THEOREM WhatIsLoggedIsThere == Spec => []LoggedIsWritten
<1>1. IInv => LoggedIsWritten
  BY DEF IInv, LoggedWhole, OnePiece, LoggedIsWritten, InFile
<1> QED BY <1>1, Invariance, PTL

(* The line of a record for which log returned is in one piece, but for what a
   closing process writes without the lock (audit.py 44-45). *)
THEOREM LinesStayWhole == Spec => []LinesWhole
<1>1. ASSUME IInv PROVE LinesWhole
  <2> SUFFICES ASSUME NEW i \in 1..Len(file), file[i].part = "head", file[i].of \in logged
               PROVE  \E j \in (i + 1)..Len(file) :
                         /\ file[j] = Tail1(file[i].of)
                         /\ \A k \in (i + 1)..(j - 1) : file[k] \in strays
    BY DEF LinesWhole
  <2> DEFINE r == file[i].of
  <2>1. file[i] \in Chunks /\ Len(file) \in Nat
    BY <1>1 DEF IInv, TypeOK
  <2>2. file[i] = Head1(r)
    BY <2>1 DEF Chunks, Head1
  <2> HIDE DEF r
  <2>3. PICK n \in 1..Len(file), j \in 1..Len(file) :
           n < j /\ file[n] = Head1(r) /\ file[j] = Tail1(r) /\ OnlyStrays(file, strays, n + 1, j - 1)
    BY <1>1 DEF IInv, LoggedWhole, OnePiece, r
  <2>4. n = i
    BY <1>1, <2>2, <2>3 DEF IInv, Distinct, NoTwice
  <2> QED BY <2>1, <2>3, <2>4 DEF OnlyStrays, r
<1> QED BY <1>1, Invariance, PTL
=============================================================================
