---------------------------- MODULE McpProxyProofs ----------------------------
(***************************************************************************)
(* Proofs about McpProxy for any client messages, any ids the client gives *)
(* them and any number of lines of the server.                             *)
(*                                                                         *)
(* An answer is known by the id of its request, and on its way (in the     *)
(* server, in a line, in the reader's hand, in a box) it stays under that  *)
(* id (Asked), which is the one the client or the proxy gave (Owned).  The *)
(* proxy uses an id for one message (Used), and only the last one has a    *)
(* box that is waited for (Waiting).  What the main thread is at has no    *)
(* reply yet (Busy).                                                       *)
(***************************************************************************)
EXTENDS McpProxy, FiniteSetTheorems, SequenceTheorems, TLAPS

Dispatched == {m \in Messages : kind[m] # None}

(* Ids suffice: each message takes one at most. *)
Counted ==
    rid + (IF main \in {"gate", "human", "register"} THEN 1 ELSE 0) <= Cardinality(Dispatched)

Working == {"relay", "gate", "human", "register", "send", "wait", "pop"}
Registered == {"send", "wait", "pop"}

(* The message in hand has no reply yet. *)
Busy ==
    main \in Working =>
        /\ cur \in Messages /\ replies[cur] = <<>>
        /\ kind[cur] \in IF main = "relay" THEN Relayed ELSE {"gated", "asked"}
        /\ main \notin {"gate", "human"} /\ kind[cur] = "gated" => cur \in allowed /\ ~learnFailed
        /\ asked[cur] = IF main \in Registered THEN rid ELSE 0

(* Only the last id used is registered, while its request is made. *)
Waiting ==
    /\ pending = IF main \in Registered THEN {rid} ELSE {}
    /\ main \in Registered => rid # 0
    /\ told \subseteq 1..rid

(* An id is used for one message, which was replied to unless it is still in hand. *)
Used ==
    /\ \A m \in Messages : asked[m] \in 0..rid
    /\ \A m, n \in Messages : asked[m] = asked[n] /\ asked[m] # 0 => m = n
    /\ \A m \in Messages : asked[m] # 0 =>
          replies[m] # <<>> \/ (main \in Registered /\ m = cur) \/ main = "died"

(* A message not yet sent has left no trace. *)
Unsent ==
    \A m \in Messages :
        /\ (kind[m] = None) <=> (name[m] = None)
        /\ kind[m] = None => replies[m] = <<>> /\ asked[m] = 0

(* The client gave a request its id, or the proxy did. *)
OwnId(s) ==
    /\ s.kind = kind[s.of] /\ s.kind \in Relayed \cup {"gated", "asked"}
    /\ s.id = IF s.kind \in Relayed THEN name[s.of] ELSE ProxyId(asked[s.of])
    /\ s.kind \notin Relayed => asked[s.of] # 0

Owned == \A s \in atServer : OwnId(s)

(* The server answers a request that it got under this id, or makes it up. *)
FromServer(id, m) == m = None \/ \E s \in atServer : s.id = id /\ s.of = m

Asked ==
    /\ \A i \in DOMAIN lines : lines[i].what = "answer" => FromServer(lines[i].id, lines[i].of)
    /\ reader = "put" => /\ holding \in [rid : Rids, of : Messages \cup {None}]
                         /\ FromServer(ProxyId(holding.rid), holding.of)
    /\ \A r \in Rids : box[r] # None /\ box[r].what = "answer" =>
          box[r].id = ProxyId(r) /\ FromServer(ProxyId(r), box[r].of)
    /\ main = "pop" => got # None /\ (got.what = "answer" => IsAnswerTo(cur, got))
    /\ \A a \in relayedOut : a.of # None => kind[a.of] # None

(* Who is told of the exit has something in its box until it takes it. *)
Told ==
    /\ reader \in {"eof", "notify", "done"} \/ told # {} => closed
    /\ main = "wait" /\ rid \in told => box[rid] # None
    /\ main = "wait" /\ reader = "done" => rid \in told

IInv ==
    /\ TypeOK /\ Counted /\ Busy /\ Waiting /\ Used /\ Unsent /\ Owned /\ Asked /\ Told
    /\ AnswersMatch

-----------------------------------------------------------------------------
(* Types. *)

LEMMA SomeFacts ==
  /\ None \notin Messages /\ None \notin Kinds /\ None \notin Answers /\ None \notin MessageIds
  /\ Error \in Answers /\ Blocked \in Answers
  /\ Error # None /\ Error.what = "error" /\ Blocked.what = "blocked"
  /\ Cardinality(Messages) \in Nat
  /\ Relayed \subseteq Kinds /\ {"gated", "asked"} \subseteq Kinds
<1>1. Cardinality(Messages) \in Nat
  BY McpAssumption, FS_CardinalityType
<1> QED BY <1>1, McpAssumption DEF Answers, Error, Blocked, Relayed, Kinds

LEMMA AnswerFacts ==
  ASSUME NEW id \in MessageIds, NEW m \in Messages \cup {None}
  PROVE  /\ Answer(id, m) \in ServerAnswer /\ Answer(id, m) \in Answers /\ Answer(id, m) \in Lines
         /\ Answer(id, m).what = "answer" /\ Answer(id, m).id = id /\ Answer(id, m).of = m
         /\ Answer(id, m) # None
<1>1. Answer(id, m) \in ServerAnswer
  BY DEF Answer, ServerAnswer
<1> QED BY <1>1, SomeFacts DEF Answer, Answers, Lines

LEMMA ProxyIds ==
  ASSUME NEW r \in Rids
  PROVE  /\ ProxyId(r) \in MessageIds /\ ProxyId(r).form = "firewall" /\ ProxyId(r).of = r
         /\ \A q : ProxyId(q) = ProxyId(r) => q = r
<1>1. ProxyId(r) \in MessageIds
  BY DEF MessageIds
<1> QED BY <1>1 DEF ProxyId

(* What a line is. *)
LEMMA LineTypes ==
  ASSUME TypeOK, lines # <<>>
  PROVE  /\ Head(lines) \in Lines /\ Tail(lines) \in Seq(Lines)
         /\ Head(lines) = lines[1] /\ 1 \in DOMAIN lines
         /\ \A i \in DOMAIN Tail(lines) : i + 1 \in DOMAIN lines /\ Tail(lines)[i] = lines[i + 1]
  BY DEF TypeOK

LEMMA AnswerTypes ==
  ASSUME NEW l \in Lines, l.what = "answer"
  PROVE  /\ l \in ServerAnswer /\ l.of \in Messages \cup {None} /\ l.id \in MessageIds
         /\ l.id.form = "firewall" => l.id.of \in Rids /\ l.id = ProxyId(l.id.of)
<1>1. l \in ServerAnswer /\ l.of \in Messages \cup {None} /\ l.id \in MessageIds
  BY DEF Lines, ServerAnswer
<1> QED BY <1>1 DEF MessageIds, ClientId, ProxyId

(* A message is dispatched once, and gives room for one more id. *)
LEMMA CountDispatched ==
  ASSUME TypeOK, NEW m \in Messages, NEW k \in Kinds, kind[m] = None,
         kind' = [kind EXCEPT ![m] = k]
  PROVE  Cardinality(Dispatched') = Cardinality(Dispatched) + 1
<1>1. Dispatched' = Dispatched \cup {m} /\ m \notin Dispatched
  BY SomeFacts DEF TypeOK, Dispatched
<1>2. IsFiniteSet(Dispatched)
  BY McpAssumption, FS_Subset DEF Dispatched
<1> QED BY <1>1, <1>2, FS_AddElement

LEMMA DispatchedFits == Cardinality(Dispatched) \in Nat /\ Cardinality(Dispatched) <= Cardinality(Messages)
<1>1. Dispatched \subseteq Messages
  BY DEF Dispatched
<1>2. IsFiniteSet(Dispatched)
  BY <1>1, McpAssumption, FS_Subset
<1> QED BY <1>1, <1>2, McpAssumption, FS_Subset, FS_CardinalityType

LEMMA NewIdFits ==
  ASSUME TypeOK, Counted, main = "register"
  PROVE  NextRid \in Rids /\ rid \in Nat /\ rid + 1 <= Cardinality(Dispatched)
<1>1. rid \in Nat /\ Cardinality(Messages) \in Nat
  BY SomeFacts DEF TypeOK, Rids
<1>2. rid + 1 <= Cardinality(Dispatched)
  BY DEF Counted
<1> QED BY <1>1, <1>2, DispatchedFits DEF NextRid, Rids

LEMMA Replied ==
  ASSUME TypeOK, NEW m \in Messages, NEW a \in Answers, Reply(m, a)
  PROVE  /\ replies' \in [Messages -> Seq(Answers)]
         /\ \A n \in Messages : n # m => replies'[n] = replies[n]
         /\ replies'[m] # <<>>
         /\ replies[m] = <<>> => replies'[m] = <<a>>
<1>1. replies[m] \in Seq(Answers)
  BY DEF TypeOK
<1>2. /\ Append(replies[m], a) \in Seq(Answers)
      /\ Append(replies[m], a) # <<>>
      /\ replies[m] = <<>> => Append(replies[m], a) = <<a>>
  <2> DEFINE s == replies[m]
  <2>1. Append(s, a) \in Seq(Answers) /\ Append(s, a) # <<>>
    BY <1>1, AppendProperties
  <2>2. ASSUME s = <<>> PROVE Append(s, a) = <<a>>
    BY <2>2
  <2> QED BY <2>1, <2>2
<1>3. replies' = [replies EXCEPT ![m] = Append(replies[m], a)]
  BY DEF Reply
<1> QED BY <1>2, <1>3 DEF TypeOK

LEMMA InitIInv == Init => IInv
<1> SUFFICES ASSUME Init PROVE IInv
  OBVIOUS
<1>1. TypeOK
  <2>1. lines \in Seq(Lines) /\ said \in 0..MaxServer
    BY McpAssumption DEF Init
  <2>2. rid \in Rids \cup {0} /\ pending \subseteq Rids /\ atServer \subseteq Requests
        /\ told \subseteq Rids /\ relayedOut \subseteq ServerAnswer /\ allowed \subseteq Messages
    BY DEF Init
  <2>3. /\ kind \in [Messages -> Kinds \cup {None}] /\ name \in [Messages -> MessageIds \cup {None}]
        /\ asked \in [Messages -> Rids \cup {0}] /\ box \in [Rids -> Answers \cup {None}]
        /\ replies \in [Messages -> Seq(Answers)]
    BY DEF Init
  <2> QED BY <2>1, <2>2, <2>3 DEF Init, TypeOK
<1>2. Counted
  BY <1>1, DispatchedFits DEF Init, Counted
<1>3. Busy /\ Waiting /\ Used /\ Unsent /\ Owned /\ Told
  BY SomeFacts DEF Init, Busy, Waiting, Used, Unsent, Owned, Told, Working, Registered, Rids
<1>4. Asked
  BY SomeFacts DEF Init, Asked, Rids
<1>5. AnswersMatch
  BY SomeFacts DEF Init, AnswersMatch, Handled, Kinds
<1> QED BY <1>1, <1>2, <1>3, <1>4, <1>5 DEF IInv

-----------------------------------------------------------------------------
(* What the steps are. *)

(* Neither the server nor the reader touches what the main thread is at. *)
Elsewhere == ServerAnswers \/ ServerInvents \/ ServerSpeaks \/ ServerEnds \/ ReaderStep

Speaks == ServerAnswers \/ ServerInvents \/ ServerSpeaks

LEMMA ElsewhereKeeps ==
  ASSUME Elsewhere
  PROVE  UNCHANGED <<kind, name, replies, main, cur, rid, asked, got, allowed, learnFailed, pending,
                     atServer>>
  BY DEF Elsewhere, ServerAnswers, ServerInvents, ServerSpeaks, ServerEnds, ReaderStep, Says, ReadLine,
     Put, Eof, Lock, Notify, clientVars, mainVars, boxVars, serverVars, readerVars

LEMMA NextCases ==
  ASSUME Next
  PROVE  \/ \E m \in Messages, k \in Kinds : Dispatch(m, k)
         \/ Relay \/ Gate \/ Human \/ Register \/ Send \/ Take \/ Timeout \/ Pop \/ Stop
         \/ Elsewhere
  BY DEF Next, MainStep, Elsewhere

(* The server adds one line. *)
LEMMA SpeaksLine ==
  ASSUME IInv, Speaks
  PROVE  \E l \in Lines : Says(l) /\ (l.what = "answer" => FromServer(l.id, l.of))
<1>1. CASE ServerAnswers
  <2>1. PICK s \in atServer : Says(Answer(s.id, s.of))
    BY <1>1 DEF ServerAnswers
  <2>2. s.id \in MessageIds /\ s.of \in Messages
    BY DEF IInv, TypeOK, Requests
  <2> QED BY <2>1, <2>2, AnswerFacts DEF FromServer
<1>2. CASE ServerInvents
  <2>1. PICK id \in MessageIds : Says(Answer(id, None))
    BY <1>2 DEF ServerInvents
  <2> QED BY <2>1, AnswerFacts DEF FromServer
<1>3. CASE ServerSpeaks
  <2>1. PICK w \in {"own", "junk"} : Says([what |-> w])
    BY <1>3 DEF ServerSpeaks
  <2>2. [what |-> w] \in Lines /\ [what |-> w].what # "answer"
    BY DEF Lines
  <2> QED BY <2>1, <2>2
<1> QED BY <1>1, <1>2, <1>3 DEF Speaks

(* The gateway and the human judge alike: on, away, or later. *)
LEMMA Judges ==
  ASSUME IInv, Gate \/ Human
  PROVE  /\ main \in {"gate", "human"} /\ cur \in Messages /\ kind[cur] \in {"gated", "asked"}
         /\ UNCHANGED <<kind, name, rid, asked, pending, box, got, atServer, lines, said, server,
                        reader, holding, told, closed, relayedOut>>
         /\ \/ /\ main' = "register" /\ allowed' = allowed \cup {cur} /\ ~learnFailed
               /\ UNCHANGED <<cur, replies, learnFailed>>
            \/ /\ main' = "idle" /\ cur' = None /\ Reply(cur, Blocked)
               /\ learnFailed' \in BOOLEAN /\ UNCHANGED allowed
            \/ main' = "human" /\ UNCHANGED <<cur, replies, allowed, learnFailed>>
<1>1. /\ main \in {"gate", "human"}
      /\ UNCHANGED <<kind, name, rid, asked, pending, box, got, atServer, lines, said, server,
                     reader, holding, told, closed, relayedOut>>
      /\ Judged \/ (main' = "human" /\ UNCHANGED <<cur, replies, allowed, learnFailed>>)
  BY DEF Gate, Human, boxVars, serverVars, readerVars
<1>2. cur \in Messages /\ kind[cur] \in {"gated", "asked"}
  BY <1>1 DEF IInv, Busy, Working
<1>3. CASE Judged
  BY <1>1, <1>2, <1>3 DEF Judged, Observed, IInv, TypeOK
<1> QED BY <1>1, <1>2, <1>3

(* One line of the server is read. *)
LEMMA Reads ==
  ASSUME IInv, ReadLine
  PROVE  LET l == Head(lines) IN
         /\ l \in Lines /\ lines # <<>> /\ lines' = Tail(lines)
         /\ UNCHANGED <<box, told, closed>>
         /\ \/ /\ l \in ServerAnswer /\ FromServer(l.id, l.of) /\ l.id.of \in pending
               /\ l.id = ProxyId(l.id.of) /\ l.id.of \in Rids /\ l.of \in Messages \cup {None}
               /\ reader' = "put" /\ holding' = [rid |-> l.id.of, of |-> l.of]
               /\ UNCHANGED relayedOut
            \/ /\ l \in ServerAnswer /\ FromServer(l.id, l.of)
               /\ \A r \in pending : l.id # ProxyId(r)
               /\ relayedOut' = relayedOut \cup {l} /\ UNCHANGED <<reader, holding>>
            \/ reader' \in {reader, "dead"} /\ UNCHANGED <<holding, relayedOut>>
<1> DEFINE l == Head(lines)
<1>1. /\ lines # <<>> /\ lines' = Tail(lines) /\ UNCHANGED <<box, told, closed>>
      /\ \/ /\ l.what = "answer" /\ Routes(l.id)
            /\ reader' = "put" /\ holding' = [rid |-> l.id.of, of |-> l.of] /\ UNCHANGED relayedOut
         \/ /\ l.what = "answer" /\ ~Routes(l.id)
            /\ relayedOut' = relayedOut \cup {l} /\ UNCHANGED <<reader, holding>>
         \/ reader' \in {reader, "dead"} /\ UNCHANGED <<holding, relayedOut>>
  BY DEF ReadLine, boxVars
<1>2. l \in Lines /\ l = lines[1] /\ 1 \in DOMAIN lines
  BY <1>1, LineTypes DEF IInv
<1>3. ASSUME l.what = "answer"
      PROVE  /\ l \in ServerAnswer /\ FromServer(l.id, l.of) /\ l.of \in Messages \cup {None}
             /\ l.id.form = "firewall" => l.id.of \in Rids /\ l.id = ProxyId(l.id.of)
  BY <1>2, <1>3, AnswerTypes DEF IInv, Asked
<1>4. ASSUME ~Routes(l.id) PROVE \A r \in pending : l.id # ProxyId(r)
  BY <1>4 DEF Routes, ProxyId
<1> HIDE DEF l
<1>5. CASE l.what = "answer" /\ Routes(l.id)
           /\ reader' = "put" /\ holding' = [rid |-> l.id.of, of |-> l.of] /\ UNCHANGED relayedOut
  <2>1. l.id.form = "firewall" /\ l.id.of \in pending
    BY <1>5 DEF Routes
  <2> QED BY <1>1, <1>2, <1>3, <1>5, <2>1 DEF l
<1>6. CASE l.what = "answer" /\ ~Routes(l.id)
           /\ relayedOut' = relayedOut \cup {l} /\ UNCHANGED <<reader, holding>>
  BY <1>1, <1>2, <1>3, <1>4, <1>6 DEF l
<1>7. CASE reader' \in {reader, "dead"} /\ UNCHANGED <<holding, relayedOut>>
  BY <1>1, <1>2, <1>7 DEF l
<1> QED BY <1>1, <1>5, <1>6, <1>7

-----------------------------------------------------------------------------
(* Every step keeps the types. *)

LEMMA NextTypeOK ==
  ASSUME IInv, Next
  PROVE  TypeOK'
<1> USE DEF IInv
<1>1. ASSUME NEW m \in Messages, NEW k \in Kinds, Dispatch(m, k) PROVE TypeOK'
  <2>1. kind' \in [Messages -> Kinds \cup {None}]
    BY <1>1 DEF TypeOK, Dispatch
  <2>2. name' \in [Messages -> MessageIds \cup {None}]
    <3>1. PICK id \in Names(m, k) : name' = [name EXCEPT ![m] = id]
      BY <1>1 DEF Dispatch
    <3>2. id \in MessageIds
      BY <3>1 DEF Names, MessageIds
    <3> QED BY <3>1, <3>2 DEF TypeOK
  <2>3. /\ main' \in {"idle", "relay", "gate", "register", "died"}
        /\ cur' \in Messages \cup {None} /\ server' \in {"up", "deaf", "exited"}
    BY <1>1 DEF TypeOK, Dispatch, Dies
  <2>4. replies' \in [Messages -> Seq(Answers)]
    BY <1>1, SomeFacts, Replied DEF TypeOK, Dispatch
  <2> QED BY <1>1, <2>1, <2>2, <2>3, <2>4 DEF TypeOK, Dispatch, boxVars, readerVars
<1>2. CASE Relay
  <2>1. cur \in Messages /\ kind[cur] \in Kinds /\ name[cur] \in MessageIds
    <3>1. cur \in Messages /\ kind[cur] \in Kinds
      BY <1>2, SomeFacts DEF Relay, Busy, Working
    <3> QED BY <3>1, SomeFacts DEF Unsent, TypeOK
  <2>2. [id |-> name[cur], kind |-> kind[cur], of |-> cur] \in Requests
    BY <2>1 DEF Requests
  <2>3. atServer' \subseteq Requests
    BY <1>2, <2>2 DEF Relay, Sends, SendFails, TypeOK
  <2>4. replies' \in [Messages -> Seq(Answers)]
    BY <1>2, <2>1, SomeFacts, Replied DEF Relay, TypeOK
  <2> QED BY <1>2, <2>3, <2>4 DEF Relay, TypeOK, boxVars, readerVars
<1>3. CASE Gate \/ Human
  <2>1. replies' \in [Messages -> Seq(Answers)]
    BY <1>3, Judges, SomeFacts, Replied DEF TypeOK
  <2>2. /\ main' \in {"register", "idle", "human"} /\ cur' \in Messages \cup {None}
        /\ allowed' \subseteq Messages /\ learnFailed' \in BOOLEAN
    BY <1>3, Judges DEF TypeOK
  <2> QED BY <1>3, <2>1, <2>2, Judges DEF TypeOK
<1>4. CASE Register
  <2>1. NextRid \in Rids /\ cur \in Messages
    BY <1>4, NewIdFits DEF Register, Busy, Working
  <2>2. rid' \in Rids /\ pending' \subseteq Rids /\ asked' \in [Messages -> Rids \cup {0}]
    BY <1>4, <2>1 DEF Register, TypeOK
  <2> QED BY <1>4, <2>2 DEF Register, TypeOK, clientVars, serverVars, readerVars
<1>5. CASE Send
  <2>1. cur \in Messages /\ kind[cur] \in Kinds /\ rid \in Rids
    BY <1>5, SomeFacts DEF Send, Busy, Working, Waiting, Registered, TypeOK
  <2>2. [id |-> ProxyId(rid), kind |-> kind[cur], of |-> cur] \in Requests
    BY <2>1, ProxyIds DEF Requests
  <2>3. atServer' \subseteq Requests /\ got' \in Answers \cup {None} /\ main' \in {"wait", "pop"}
    BY <1>5, <2>2, SomeFacts DEF Send, Sends, SendFails, Finish, TypeOK
  <2> QED BY <1>5, <2>3 DEF Send, TypeOK, clientVars, boxVars, readerVars
<1>6. CASE Take
  <2>1. rid \in Rids
    BY <1>6 DEF Take, Waiting, Registered, TypeOK
  <2>2. got' \in Answers \cup {None} /\ box' \in [Rids -> Answers \cup {None}]
    BY <1>6, <2>1 DEF Take, Finish, TypeOK
  <2> QED BY <1>6, <2>2 DEF Take, Finish, TypeOK, clientVars, serverVars, readerVars
<1>7. CASE Timeout
  BY <1>7, SomeFacts DEF Timeout, Finish, TypeOK, clientVars, boxVars, serverVars, readerVars
<1>8. CASE Pop
  <2>1. cur \in Messages /\ got \in Answers
    BY <1>8 DEF Pop, Busy, Working, Asked, TypeOK
  <2>2. replies' \in [Messages -> Seq(Answers)]
    BY <1>8, <2>1, Replied DEF Pop, Unreadable, TypeOK
  <2>3. main' \in {"idle", "died"} /\ cur' = None /\ server' \in {"up", "deaf", "exited"}
    BY <1>8 DEF Pop, Unreadable, Dies, TypeOK
  <2> QED BY <1>8, <2>2, <2>3 DEF Pop, TypeOK, readerVars
<1>9. CASE Stop
  BY <1>9 DEF Stop, TypeOK, clientVars, boxVars, readerVars
<1>10. CASE Speaks
  <2>1. PICK l \in Lines : Says(l)
    BY <1>10, SpeaksLine
  <2>2. lines' \in Seq(Lines) /\ said' \in 0..MaxServer
    BY <2>1, McpAssumption DEF Says, TypeOK
  <2> QED BY <2>1, <2>2 DEF Says, TypeOK, clientVars, mainVars, boxVars, readerVars
<1>11. CASE ServerEnds
  BY <1>11 DEF ServerEnds, TypeOK, clientVars, mainVars, boxVars, readerVars
<1>12. CASE ReadLine
  <2>1. lines' \in Seq(Lines) /\ reader' \in {"read", "put", "dead"} \cup {reader}
        /\ UNCHANGED <<box, told, closed>>
    BY <1>12, Reads, LineTypes DEF TypeOK
  <2>2. /\ holding' \in [rid : Rids, of : Messages \cup {None}] \cup {None}
        /\ relayedOut' \subseteq ServerAnswer
    BY <1>12, Reads DEF TypeOK
  <2> QED BY <1>12, <2>1, <2>2 DEF ReadLine, TypeOK, mainVars, boxVars
<1>13. CASE Put
  <2>1. holding.rid \in Rids /\ holding.of \in Messages \cup {None}
    BY <1>13 DEF Put, Asked, TypeOK
  <2>2. Answer(ProxyId(holding.rid), holding.of) \in Answers
    BY <2>1, ProxyIds, AnswerFacts
  <2>3. box' \in [Rids -> Answers \cup {None}]
    BY <1>13, <2>2 DEF Put, TypeOK
  <2> QED BY <1>13, <2>3 DEF Put, TypeOK, clientVars, mainVars, serverVars
<1>14. CASE Eof \/ Lock
  BY <1>14 DEF Eof, Lock, TypeOK, clientVars, mainVars, boxVars, serverVars
<1>15. CASE Notify
  <2>2. ASSUME NEW r \in pending, box' = [box EXCEPT ![r] = Error] /\ told' = told \cup {r}
        PROVE  box' \in [Rids -> Answers \cup {None}] /\ told' \subseteq Rids
    BY <2>2, SomeFacts DEF TypeOK
  <2>3. box' \in [Rids -> Answers \cup {None}] /\ told' \subseteq Rids
    <3>1. CASE UNCHANGED <<box, told>>
      BY <3>1 DEF TypeOK
    <3>2. CASE \E r \in pending \ told : box' = [box EXCEPT ![r] = Error] /\ told' = told \cup {r}
      BY <2>2, <3>2
    <3> QED BY <1>15, <3>1, <3>2 DEF Notify
  <2> QED BY <1>15, <2>3 DEF Notify, TypeOK, clientVars, mainVars, serverVars
<1> QED BY <1>1, <1>2, <1>3, <1>4, <1>5, <1>6, <1>7, <1>8, <1>9, <1>10, <1>11, <1>12, <1>13,
           <1>14, <1>15 DEF Next, MainStep, ReaderStep, Speaks

-----------------------------------------------------------------------------
(* Every step keeps the rest of the invariant, one part at a time. *)

LEMMA NextCounted ==
  ASSUME IInv, Next
  PROVE  Counted'
<1>0. /\ rid \in Nat /\ Cardinality(Dispatched) \in Nat
  BY DispatchedFits, SomeFacts DEF IInv, TypeOK, Rids
<1>1. ASSUME NEW m \in Messages, NEW k \in Kinds, Dispatch(m, k) PROVE Counted'
  <2>1. Cardinality(Dispatched') = Cardinality(Dispatched) + 1
    BY <1>1, CountDispatched DEF IInv, Dispatch
  <2>2. rid' = rid /\ rid <= Cardinality(Dispatched)
    BY <1>1, <1>0 DEF IInv, Counted, Dispatch
  <2> QED BY <1>0, <2>1, <2>2 DEF Counted
<1>2. CASE Register
  <2>1. Dispatched' = Dispatched /\ main' = "send" /\ rid' = rid + 1
    BY <1>2 DEF Register, clientVars, Dispatched, NextRid
  <2> QED BY <1>0, <1>2, <2>1, NewIdFits DEF IInv, Counted, Register
<1>3. CASE Gate \/ Human
  <2>1. Dispatched' = Dispatched /\ main \in {"gate", "human"} /\ rid' = rid
    BY <1>3, Judges DEF Dispatched
  <2> QED BY <1>0, <2>1 DEF IInv, Counted
<1>4. CASE Relay \/ Send \/ Take \/ Timeout \/ Pop \/ Stop
  <2>1. Dispatched' = Dispatched /\ main' \notin {"gate", "human", "register"} /\ rid' = rid
    BY <1>4 DEF Relay, Send, Take, Timeout, Pop, Unreadable, Dies, Stop, Finish, clientVars, Dispatched
  <2> QED BY <1>0, <2>1 DEF IInv, Counted
<1>5. CASE Elsewhere
  BY <1>5, ElsewhereKeeps DEF IInv, Counted, Dispatched
<1> QED BY <1>1, <1>2, <1>3, <1>4, <1>5, NextCases

LEMMA NextBusy ==
  ASSUME IInv, Next
  PROVE  Busy'
<1>1. ASSUME NEW m \in Messages, NEW k \in Kinds, Dispatch(m, k) PROVE Busy'
  <2>1. main = "idle" /\ kind'[m] = k /\ replies[m] = <<>> /\ asked'[m] = 0
    BY <1>1 DEF Dispatch, IInv, TypeOK, Unsent
  <2>2. CASE k \in Relayed \cup {"gated", "asked"} /\ cur' = m /\ UNCHANGED replies
             /\ main' = IF k \in Relayed THEN "relay" ELSE IF k = "gated" THEN "gate" ELSE "register"
    BY <2>1, <2>2 DEF Busy, Relayed, Registered
  <2>3. CASE main' \in {"idle", "died"}
    BY <2>3 DEF Busy, Working
  <2> QED BY <1>1, <2>1, <2>2, <2>3 DEF Dispatch, Dies
<1>2. CASE Gate \/ Human
  <2>1. CASE main' \in {"register", "human"} /\ UNCHANGED <<kind, cur, replies, asked>>
             /\ (main' = "register" => allowed' = allowed \cup {cur} /\ ~learnFailed')
    BY <1>2, <2>1, Judges DEF Busy, Working, Registered, IInv
  <2>2. CASE main' = "idle"
    BY <2>2 DEF Busy, Working
  <2> QED BY <1>2, <2>1, <2>2, Judges
<1>3. CASE Register
  <2>1. /\ main = "register" /\ main' = "send" /\ cur \in Messages
        /\ UNCHANGED <<kind, replies, cur, allowed, learnFailed>>
        /\ asked'[cur] = rid'
    BY <1>3 DEF Register, IInv, TypeOK, Busy, Working, clientVars
  <2> QED BY <2>1 DEF Busy, Working, Registered, IInv
<1>4. CASE Send \/ Take \/ Timeout
  BY <1>4 DEF Send, Take, Timeout, Finish, Busy, Working, Registered, IInv, clientVars
<1>5. CASE Relay \/ Pop \/ Stop
  BY <1>5 DEF Relay, Pop, Unreadable, Dies, Stop, Busy, Working
<1>6. CASE Elsewhere
  BY <1>6, ElsewhereKeeps DEF IInv, Busy
<1> QED BY <1>1, <1>2, <1>3, <1>4, <1>5, <1>6, NextCases

LEMMA NextWaiting ==
  ASSUME IInv, Next
  PROVE  Waiting'
<1>0. rid \in Nat
  BY SomeFacts DEF IInv, TypeOK, Rids
<1>1. ASSUME NEW m \in Messages, NEW k \in Kinds, Dispatch(m, k) PROVE Waiting'
  <2>1. main = "idle" /\ main' \in {"idle", "relay", "gate", "register", "died"}
    BY <1>1 DEF Dispatch, Dies
  <2> QED BY <1>1, <2>1 DEF Dispatch, Waiting, Registered, IInv, boxVars, readerVars
<1>2. CASE Gate \/ Human
  BY <1>2, Judges DEF Waiting, Registered, IInv
<1>3. CASE Register
  <2>1. pending' = {rid'} /\ rid' = rid + 1 /\ main' = "send"
    BY <1>3 DEF Register, Waiting, Registered, IInv, NextRid
  <2> QED BY <1>0, <1>3, <2>1 DEF Register, Waiting, Registered, IInv, clientVars, readerVars
<1>4. CASE Send \/ Take \/ Timeout
  BY <1>4 DEF Send, Take, Timeout, Finish, Waiting, Registered, IInv, boxVars, clientVars, readerVars
<1>5. CASE Relay \/ Pop \/ Stop
  BY <1>5 DEF Relay, Pop, Unreadable, Dies, Stop, Waiting, Registered, IInv, boxVars, clientVars,
     readerVars
<1>6. CASE Elsewhere
  <2>1. told' \subseteq 1..rid
    <3>1. CASE Notify
      <4>1. told' \subseteq told \cup pending
        BY <3>1 DEF Notify
      <4>2. pending \subseteq 1..rid
        BY <1>0 DEF IInv, Waiting
      <4> QED BY <4>1, <4>2 DEF IInv, Waiting
    <3>2. CASE ~Notify
      BY <1>6, <3>2 DEF Elsewhere, ServerAnswers, ServerInvents, ServerSpeaks, ServerEnds, ReaderStep,
         Says, ReadLine, Put, Eof, Lock, readerVars, IInv, Waiting
    <3> QED BY <3>1, <3>2
  <2> QED BY <1>6, <2>1, ElsewhereKeeps DEF IInv, Waiting
<1> QED BY <1>1, <1>2, <1>3, <1>4, <1>5, <1>6, NextCases

LEMMA NextUsed ==
  ASSUME IInv, Next
  PROVE  Used'
<1>0. rid \in Nat /\ \A m \in Messages : asked[m] \in 0..rid
  BY SomeFacts DEF IInv, TypeOK, Rids, Used
<1>1. ASSUME NEW m \in Messages, NEW k \in Kinds, Dispatch(m, k) PROVE Used'
  <2>1. main = "idle" /\ UNCHANGED <<asked, rid>>
    BY <1>1 DEF Dispatch
  <2>2. \A n \in Messages : replies[n] # <<>> => replies'[n] # <<>>
    BY <1>1, SomeFacts, Replied DEF Dispatch, IInv
  <2> QED BY <2>1, <2>2 DEF Used, Registered, IInv
<1>2. CASE Relay \/ Gate \/ Human
  <2>1. main \notin Registered /\ main # "died" /\ UNCHANGED <<asked, rid>> /\ cur \in Messages
    BY <1>2, Judges DEF Relay, Registered, IInv, Busy, Working
  <2>2. \A n \in Messages : replies[n] # <<>> => replies'[n] # <<>>
    BY <1>2, <2>1, SomeFacts, Judges, Replied DEF Relay, IInv
  <2> QED BY <2>1, <2>2 DEF Used, IInv
<1>3. CASE Register
  <2>1. /\ rid' = rid + 1 /\ cur \in Messages /\ asked[cur] = 0 /\ cur' = cur /\ main' = "send"
        /\ UNCHANGED replies
        /\ asked' = [asked EXCEPT ![cur] = rid + 1]
        /\ main \notin Registered /\ main # "died"
    BY <1>3 DEF Register, NextRid, clientVars, IInv, Busy, Working, Registered
  <2>2. \A n \in Messages : asked'[n] = IF n = cur THEN rid + 1 ELSE asked[n]
    BY <2>1 DEF IInv, TypeOK
  <2>3. \A m \in Messages : asked'[m] \in 0..rid'
    BY <1>0, <2>1, <2>2
  <2>4. \A m, n \in Messages : asked'[m] = asked'[n] /\ asked'[m] # 0 => m = n
    BY <1>0, <2>1, <2>2 DEF IInv, Used
  <2>5. \A m \in Messages : asked'[m] # 0 =>
           replies'[m] # <<>> \/ (main' \in Registered /\ m = cur') \/ main' = "died"
    BY <2>1, <2>2 DEF IInv, Used, Registered
  <2> QED BY <2>3, <2>4, <2>5 DEF Used
<1>4. CASE Send \/ Take \/ Timeout
  BY <1>4 DEF Send, Take, Timeout, Finish, Used, Registered, IInv, clientVars
<1>5. CASE Pop
  <2>1. main = "pop" /\ UNCHANGED <<asked, rid>> /\ cur \in Messages /\ got \in Answers
    BY <1>5 DEF Pop, IInv, Busy, Working, Asked, TypeOK
  <2>2. CASE Reply(cur, got)
    <3>1. \A n \in Messages : n = cur \/ replies[n] # <<>> => replies'[n] # <<>>
      BY <2>1, <2>2, Replied DEF IInv
    <3> QED BY <2>1, <3>1 DEF Used, IInv
  <2>3. CASE main' = "died"
    BY <2>1, <2>3 DEF Used, IInv
  <2> QED BY <1>5, <2>2, <2>3 DEF Pop, Unreadable, Dies
<1>6. CASE Stop
  BY <1>6 DEF Stop, Used, Registered, IInv, clientVars
<1>7. CASE Elsewhere
  BY <1>7, ElsewhereKeeps DEF IInv, Used
<1> QED BY <1>1, <1>2, <1>3, <1>4, <1>5, <1>6, <1>7, NextCases

LEMMA NextUnsent ==
  ASSUME IInv, Next
  PROVE  Unsent'
<1>1. ASSUME NEW m \in Messages, NEW k \in Kinds, Dispatch(m, k) PROVE Unsent'
  <2>1. PICK id \in Names(m, k) : name' = [name EXCEPT ![m] = id]
    BY <1>1 DEF Dispatch
  <2>2. id # None /\ k # None
    BY <2>1, SomeFacts DEF Names, MessageIds
  <2>3. kind' = [kind EXCEPT ![m] = k] /\ UNCHANGED asked
    BY <1>1 DEF Dispatch
  <2>4. \A n \in Messages : n # m => replies'[n] = replies[n]
    BY <1>1, SomeFacts, Replied DEF Dispatch, IInv
  <2> QED BY <2>1, <2>2, <2>3, <2>4 DEF IInv, TypeOK, Unsent
<1>2. CASE Relay \/ Gate \/ Human \/ Pop
  <2>1. kind[cur] # None /\ cur \in Messages
    BY <1>2, SomeFacts DEF Relay, Gate, Human, Pop, IInv, Busy, Working
  <2>2. UNCHANGED <<kind, name, asked>>
    BY <1>2, Judges DEF Relay, Pop
  <2>3. \A m \in Messages : m # cur => replies'[m] = replies[m]
    BY <1>2, <2>1, Judges, SomeFacts, Replied DEF Relay, Pop, Unreadable, IInv, Asked, TypeOK
  <2> QED BY <2>1, <2>2, <2>3 DEF IInv, Unsent
<1>3. CASE Register
  <2>1. kind[cur] # None /\ cur \in Messages /\ UNCHANGED <<kind, name, replies>>
        /\ asked' = [asked EXCEPT ![cur] = NextRid]
    BY <1>3, SomeFacts DEF Register, IInv, Busy, Working, clientVars
  <2> QED BY <2>1 DEF IInv, Unsent, TypeOK
<1>4. CASE Send \/ Take \/ Timeout \/ Stop
  BY <1>4 DEF Send, Take, Timeout, Stop, IInv, Unsent, clientVars
<1>5. CASE Elsewhere
  BY <1>5, ElsewhereKeeps DEF IInv, Unsent
<1> QED BY <1>1, <1>2, <1>3, <1>4, <1>5, NextCases

(* What was given once stays. *)
LEMMA GivenStays ==
  ASSUME IInv, Next, NEW m \in Messages
  PROVE  /\ kind[m] # None => kind'[m] = kind[m] /\ name'[m] = name[m]
         /\ asked[m] # 0 => asked'[m] = asked[m]
<1>1. ASSUME NEW n \in Messages, NEW k \in Kinds, Dispatch(n, k)
      PROVE  /\ kind[m] # None => kind'[m] = kind[m] /\ name'[m] = name[m]
             /\ asked'[m] = asked[m]
  <2>1. PICK id : name' = [name EXCEPT ![n] = id]
    BY <1>1 DEF Dispatch
  <2> QED BY <1>1, <2>1 DEF Dispatch, IInv, TypeOK
<1>2. CASE Register
  BY <1>2 DEF Register, IInv, Busy, Working, Registered, TypeOK, clientVars
<1>3. CASE Relay \/ Gate \/ Human \/ Send \/ Take \/ Timeout \/ Pop \/ Stop
  BY <1>3, Judges DEF Relay, Send, Take, Timeout, Pop, Stop, clientVars
<1> QED BY <1>1, <1>2, <1>3, NextCases, ElsewhereKeeps

(* What reaches the server bears the id it was given. *)
LEMMA NewRequests ==
  ASSUME IInv, Next, NEW s \in atServer' \ atServer
  PROVE  /\ UNCHANGED <<kind, name, asked>> /\ cur \in Messages /\ OwnId(s)
         /\ \/ Relay /\ s.kind \in Relayed /\ s.of = cur /\ s.id = name[cur]
            \/ Send /\ s.kind \in {"gated", "asked"} /\ s.of = cur /\ s.id = ProxyId(rid)
<1>1. CASE Relay
  <2>1. cur \in Messages /\ kind[cur] \in Relayed /\ UNCHANGED <<kind, name, asked>>
    BY <1>1 DEF Relay, IInv, Busy, Working
  <2>2. s = [id |-> name[cur], kind |-> kind[cur], of |-> cur]
    BY <1>1 DEF Relay, Sends, SendFails
  <2> QED BY <1>1, <2>1, <2>2 DEF OwnId
<1>2. CASE Send
  <2>1. /\ cur \in Messages /\ kind[cur] \in {"gated", "asked"} /\ asked[cur] = rid /\ rid # 0
        /\ UNCHANGED <<kind, name, asked>>
    BY <1>2 DEF Send, IInv, Busy, Waiting, Working, Registered, clientVars
  <2>2. s = [id |-> ProxyId(rid), kind |-> kind[cur], of |-> cur]
    BY <1>2 DEF Send, Sends, SendFails
  <2>3. kind[cur] \notin Relayed
    BY <2>1 DEF Relayed
  <2> QED BY <1>2, <2>1, <2>2, <2>3 DEF OwnId
<1> QED BY <1>1, <1>2, NextCases, ElsewhereKeeps, Judges DEF Dispatch, Register, Take, Timeout, Pop,
           Stop, serverVars

LEMMA NextOwned ==
  ASSUME IInv, Next
  PROVE  Owned'
<1> SUFFICES ASSUME NEW s \in atServer' PROVE OwnId(s)'
  BY DEF Owned
<1>1. CASE s \in atServer
  <2>1. OwnId(s) /\ s.of \in Messages /\ s.kind # None
    BY <1>1, SomeFacts DEF IInv, Owned, TypeOK, Requests
  <2>2. kind'[s.of] = kind[s.of] /\ name'[s.of] = name[s.of]
        /\ (asked[s.of] # 0 => asked'[s.of] = asked[s.of])
    BY <2>1, GivenStays DEF OwnId
  <2> QED BY <2>1, <2>2 DEF OwnId
<1>2. CASE s \notin atServer
  BY <1>2, NewRequests DEF OwnId
<1> QED BY <1>1, <1>2

(* An answer stays the answer to its request. *)
LEMMA AnswerStays ==
  ASSUME IInv, Next, NEW m \in Messages, NEW a \in Answers, a.what = "answer", IsAnswerTo(m, a)
  PROVE  IsAnswerTo(m, a)'
<1>1. a.id \in MessageIds /\ a.of \in Messages \cup {None}
  BY DEF Answers, ServerAnswer
<1>2. asked'[m] = asked[m]
  <2>1. asked[m] \in Rids
    <3>1. a.id.form = "firewall" /\ a.id.of = asked[m]
      BY DEF IsAnswerTo, ProxyId
    <3>2. a \in Lines
      BY DEF Answers, Lines
    <3> QED BY <3>1, <3>2, AnswerTypes
  <2> QED BY <2>1, GivenStays DEF Rids
<1>3. ASSUME a.of \in Messages, name[a.of] = a.id PROVE name'[a.of] = a.id
  BY <1>1, <1>3, SomeFacts, GivenStays DEF IInv, Unsent
<1> QED BY <1>1, <1>2, <1>3 DEF IsAnswerTo

(* What a box gives answers the request that it was made for. *)
LEMMA BoxAnswers ==
  ASSUME IInv, main \in Registered, NEW a \in Answers, a.what = "answer",
         a.id = ProxyId(rid), FromServer(ProxyId(rid), a.of)
  PROVE  IsAnswerTo(cur, a)
<1>1. rid \in Rids /\ cur \in Messages /\ asked[cur] = rid /\ rid # 0
  BY DEF IInv, Busy, Waiting, Working, Registered, TypeOK
<1>2. CASE a.of = None
  BY <1>1, <1>2 DEF IsAnswerTo
<1>3. ASSUME NEW s \in atServer, s.id = ProxyId(rid), s.of = a.of PROVE IsAnswerTo(cur, a)
  <2>1. OwnId(s) /\ s.of \in Messages
    BY DEF IInv, Owned, TypeOK, Requests
  <2>2. CASE s.kind \in Relayed
    BY <1>1, <1>3, <2>1, <2>2 DEF OwnId, IsAnswerTo
  <2>3. CASE s.kind \notin Relayed
    <3>1. asked[s.of] = rid
      <4>1. ProxyId(asked[s.of]) = ProxyId(rid)
        BY <1>3, <2>1, <2>3 DEF OwnId
      <4> QED BY <1>1, <4>1, ProxyIds
    <3>2. s.of = cur
      BY <1>1, <2>1, <3>1 DEF IInv, Used
    <3> QED BY <1>1, <1>3, <3>2 DEF IsAnswerTo
  <2> QED BY <2>2, <2>3
<1> QED BY <1>2, <1>3 DEF FromServer

LEMMA NextAsked ==
  ASSUME IInv, Next
  PROVE  Asked'
<1>1. atServer \subseteq atServer'
  BY NextCases, ElsewhereKeeps, Judges DEF Dispatch, Sends, SendFails, Relay, Register, Send, Take,
     Timeout, Pop, Stop, serverVars
<1>2. \A i \in DOMAIN lines' : lines'[i].what = "answer" => FromServer(lines'[i].id, lines'[i].of)
  <2>1. CASE UNCHANGED lines
    BY <2>1 DEF IInv, Asked
  <2>2. CASE Speaks
    <3>1. PICK l \in Lines : Says(l) /\ (l.what = "answer" => FromServer(l.id, l.of))
      BY <2>2, SpeaksLine
    <3>2. lines' = Append(lines, l) /\ lines \in Seq(Lines)
      BY <3>1 DEF Says, IInv, TypeOK
    <3>3. \A i \in DOMAIN lines' : (i \in DOMAIN lines /\ lines'[i] = lines[i]) \/ lines'[i] = l
      BY <3>2
    <3> QED BY <3>1, <3>3 DEF IInv, Asked
  <2>3. CASE ReadLine
    <3>1. lines # <<>> /\ lines' = Tail(lines)
      BY <2>3 DEF ReadLine
    <3> QED BY <3>1, LineTypes DEF IInv, Asked
  <2> QED BY <2>1, <2>2, <2>3, NextCases, Judges DEF Dispatch, Relay, Register, Send, Take, Timeout,
             Pop, Stop, Elsewhere, Speaks, ServerEnds, ReaderStep, Put, Eof, Lock, Notify, serverVars
<1>3. reader' = "put" => /\ holding' \in [rid : Rids, of : Messages \cup {None}]
                         /\ FromServer(ProxyId(holding'.rid), holding'.of)
  <2>1. CASE UNCHANGED <<reader, holding>>
    BY <2>1 DEF IInv, Asked
  <2>2. CASE reader' # "put"
    BY <2>2
  <2>3. CASE ReadLine
    <3> DEFINE l == Head(lines)
    <3>1. CASE /\ l \in ServerAnswer /\ FromServer(l.id, l.of) /\ l.id.of \in pending
               /\ l.id = ProxyId(l.id.of) /\ l.id.of \in Rids /\ l.of \in Messages \cup {None}
               /\ reader' = "put" /\ holding' = [rid |-> l.id.of, of |-> l.of]
      <4>1. holding'.rid = l.id.of /\ holding'.of = l.of
        BY <3>1
      <4>2. FromServer(ProxyId(holding'.rid), holding'.of)
        BY <3>1, <4>1
      <4>3. holding' \in [rid : Rids, of : Messages \cup {None}]
        BY <3>1
      <4> QED BY <4>2, <4>3
    <3>2. CASE UNCHANGED holding /\ reader' \in {reader, "dead"}
      BY <2>1, <2>2, <3>2
    <3> QED BY <2>3, <3>1, <3>2, Reads
  <2> QED BY <2>1, <2>2, <2>3, NextCases, Judges DEF Dispatch, Relay, Register, Send, Take, Timeout,
             Pop, Stop, Elsewhere, ServerAnswers, ServerInvents, ServerSpeaks, ServerEnds, Says,
             ReaderStep, Put, Eof, Lock, Notify, readerVars
<1>4. \A r \in Rids : box'[r] # None /\ box'[r].what = "answer" =>
         box'[r].id = ProxyId(r) /\ FromServer(ProxyId(r), box'[r].of)
  <2>1. CASE UNCHANGED box
    BY <2>1 DEF IInv, Asked
  <2>2. CASE Take
    <3>1. \A r \in Rids : box'[r] \in {box[r], None}
      BY <2>2 DEF Take, IInv, TypeOK
    <3> QED BY <3>1 DEF IInv, Asked
  <2>3. CASE Put
    <3> DEFINE a == Answer(ProxyId(holding.rid), holding.of)
    <3>1. /\ FromServer(ProxyId(holding.rid), holding.of) /\ holding.rid \in Rids
          /\ holding.of \in Messages \cup {None}
      BY <2>3 DEF Put, IInv, Asked, TypeOK
    <3>2. \A r \in Rids : box'[r] = IF r = holding.rid THEN a ELSE box[r]
      BY <2>3 DEF Put, IInv, TypeOK
    <3>3. a.id = ProxyId(holding.rid) /\ a.of = holding.of
      BY DEF Answer
    <3> HIDE DEF a
    <3> QED BY <3>1, <3>2, <3>3 DEF IInv, Asked
  <2>4. CASE Notify
    <3>1. \A r \in Rids : box'[r] \in {box[r], Error}
      BY <2>4 DEF Notify, IInv, TypeOK
    <3>2. Error.what # "answer"
      BY DEF Error
    <3> QED BY <3>1, <3>2 DEF IInv, Asked
  <2> QED BY <2>1, <2>2, <2>3, <2>4, NextCases, Judges DEF Dispatch, Relay, Register, Send, Timeout,
             Pop, Stop, Elsewhere, ServerAnswers, ServerInvents, ServerSpeaks, ServerEnds, Says,
             ReaderStep, ReadLine, Eof, Lock, boxVars
<1>5. main' = "pop" => got' # None /\ (got'.what = "answer" => IsAnswerTo(cur, got)')
  <2>1. CASE Send \/ Timeout
    BY <2>1, SomeFacts DEF Send, Timeout, Finish
  <2>2. CASE Take
    <3>1. rid \in Rids /\ main \in Registered /\ got' = box[rid] /\ box[rid] # None
          /\ box[rid] \in Answers /\ UNCHANGED <<cur, asked, name>>
      BY <2>2 DEF Take, Finish, IInv, Waiting, Registered, TypeOK, clientVars
    <3>2. ASSUME box[rid].what = "answer" PROVE IsAnswerTo(cur, box[rid])
      <4>1. box[rid].id = ProxyId(rid) /\ FromServer(ProxyId(rid), box[rid].of)
        BY <3>1, <3>2 DEF IInv, Asked
      <4> QED BY <3>1, <3>2, <4>1, BoxAnswers
    <3> QED BY <3>1, <3>2 DEF IsAnswerTo
  <2>3. CASE Elsewhere
    BY <2>3, ElsewhereKeeps DEF IInv, Asked, IsAnswerTo
  <2> QED BY <2>1, <2>2, <2>3, NextCases, Judges DEF Dispatch, Dies, Relay, Register, Pop,
             Unreadable, Stop
<1>6. \A a \in relayedOut' : a.of # None => kind'[a.of] # None
  <2>1. ASSUME NEW a \in relayedOut', a.of # None PROVE kind[a.of] # None /\ a.of \in Messages
    <3>1. CASE a \in relayedOut
      BY <2>1, <3>1 DEF IInv, Asked, TypeOK, ServerAnswer
    <3>2. CASE a \notin relayedOut
      <4>1. a \in ServerAnswer /\ FromServer(a.id, a.of)
        <5>1. ReadLine \/ UNCHANGED relayedOut
          BY NextCases, Judges DEF Dispatch, Relay, Register, Send, Take, Timeout, Pop, Stop,
             Elsewhere, ServerAnswers, ServerInvents, ServerSpeaks, ServerEnds, Says, ReaderStep,
             Put, Eof, Lock, Notify, clientVars
        <5> QED BY <3>2, <5>1, Reads
      <4>2. PICK s \in atServer : s.of = a.of
        BY <2>1, <4>1 DEF FromServer
      <4> QED BY <4>2, SomeFacts DEF IInv, Owned, OwnId, TypeOK, Requests
    <3> QED BY <3>1, <3>2
  <2> QED BY <2>1, GivenStays
<1> QED BY <1>1, <1>2, <1>3, <1>4, <1>5, <1>6 DEF Asked, FromServer

LEMMA NextTold ==
  ASSUME IInv, Next
  PROVE  Told'
<1>0. rid \in Nat /\ (main \in Registered => rid \in Rids /\ pending = {rid})
  BY SomeFacts DEF IInv, TypeOK, Rids, Waiting, Registered
<1>1. CASE \E m \in Messages, k \in Kinds : Dispatch(m, k)
  BY <1>1 DEF Dispatch, Dies, IInv, Told, readerVars
<1>2. CASE Gate \/ Human
  BY <1>2, Judges DEF IInv, Told
<1>3. CASE Relay \/ Register \/ Take \/ Timeout \/ Pop \/ Stop
  BY <1>3 DEF Relay, Register, Take, Timeout, Finish, Pop, Unreadable, Dies, Stop, IInv, Told, readerVars
<1>4. CASE Send
  BY <1>4 DEF Send, Sends, SendFails, Finish, IInv, Told, readerVars, boxVars
<1>5. CASE Speaks \/ ServerEnds
  BY <1>5 DEF Speaks, ServerAnswers, ServerInvents, ServerSpeaks, ServerEnds, Says, IInv, Told,
     readerVars, boxVars, mainVars
<1>6. CASE ReadLine \/ Eof \/ Lock
  BY <1>6 DEF ReadLine, Eof, Lock, IInv, Told, boxVars, mainVars
<1>7. CASE Put
  <2>1. \A r \in Rids : box[r] # None => box'[r] # None
    BY <1>7, AnswerFacts, ProxyIds DEF Put, IInv, TypeOK, Asked
  <2> QED BY <1>0, <1>7, <2>1 DEF Put, IInv, Told, Registered, mainVars
<1>8. CASE Notify
  <2>1. \A r \in Rids : r \in told' => r \in told \/ box'[r] # None
    BY <1>8, SomeFacts DEF Notify, IInv, TypeOK
  <2>2. \A r \in Rids : box[r] # None => box'[r] # None
    BY <1>8, SomeFacts DEF Notify, IInv, TypeOK
  <2>3. reader' = "done" => pending \subseteq told'
    BY <1>8 DEF Notify
  <2>4. closed' /\ UNCHANGED <<main, rid>>
    BY <1>8 DEF Notify, IInv, Told, mainVars
  <2> QED BY <1>0, <2>1, <2>2, <2>3, <2>4 DEF IInv, Told, Registered
<1> QED BY <1>1, <1>2, <1>3, <1>4, <1>5, <1>6, <1>7, <1>8, NextCases DEF Elsewhere, Speaks, ReaderStep

(* AnswersMatch, by its halves. *)
OwnAnswer(m) ==
    /\ Len(replies[m]) <= 1
    /\ \A i \in DOMAIN replies[m] :
          replies[m][i].what = "answer" => IsAnswerTo(m, replies[m][i])
OneAnswer == \A m \in Messages : kind[m] \in Handled => OwnAnswer(m)
PastIt ==
    \A a \in relayedOut :
        a.of # None /\ kind[a.of] \in Handled => replies[a.of] # <<>> \/ main = "died"

(* A message that is not replied to now keeps what it has. *)
LEMMA OwnStays ==
  ASSUME IInv, Next, NEW m \in Messages, kind[m] # None, kind'[m] \in Handled, replies'[m] = replies[m]
  PROVE  OwnAnswer(m)'
<1>1. kind[m] \in Handled
  BY GivenStays
<1>2. Len(replies[m]) <= 1 /\ replies[m] \in Seq(Answers)
  BY <1>1 DEF IInv, AnswersMatch, TypeOK
<1>3. ASSUME NEW i \in DOMAIN replies[m], replies[m][i].what = "answer"
      PROVE  IsAnswerTo(m, replies[m][i])'
  <2>1. replies[m][i] \in Answers
    BY <1>2
  <2>2. IsAnswerTo(m, replies[m][i])
    BY <1>1, <1>3 DEF IInv, AnswersMatch
  <2> DEFINE a == replies[m][i]
  <2>3. \A b \in Answers : b.what = "answer" /\ IsAnswerTo(m, b) =>
           /\ b.id = ProxyId(asked'[m])
           /\ b.of \in {m, None} \/ name'[b.of] = b.id
    BY AnswerStays DEF IsAnswerTo
  <2>4. replies'[m][i] = replies[m][i]
    OBVIOUS
  <2> QED BY <1>3, <2>1, <2>2, <2>3, <2>4 DEF IsAnswerTo
<1> QED BY <1>2, <1>3 DEF OwnAnswer, IsAnswerTo

(* The first reply. *)
LEMMA FirstAnswer ==
  ASSUME IInv, Next, NEW m \in Messages, NEW a \in Answers, replies[m] = <<>>, Reply(m, a),
         a.what = "answer" => IsAnswerTo(m, a), UNCHANGED <<asked, name>>
  PROVE  OwnAnswer(m)' /\ \A n \in Messages : n # m => replies'[n] = replies[n]
<1>1. replies'[m] = <<a>> /\ \A n \in Messages : n # m => replies'[n] = replies[n]
  BY Replied DEF IInv
<1>2. Len(<<a>>) = 1 /\ \A i \in DOMAIN <<a>> : <<a>>[i] = a
  OBVIOUS
<1> QED BY <1>1, <1>2 DEF OwnAnswer, IsAnswerTo

LEMMA NextOneAnswer ==
  ASSUME IInv, Next
  PROVE  OneAnswer'
<1> SUFFICES ASSUME NEW n \in Messages, kind'[n] \in Handled PROVE OwnAnswer(n)'
  BY DEF OneAnswer
<1>1. ASSUME NEW m \in Messages, NEW k \in Kinds, Dispatch(m, k) PROVE OwnAnswer(n)'
  <2>1. kind[m] = None /\ replies[m] = <<>>
    BY <1>1 DEF Dispatch, IInv, Unsent
  <2>2. CASE n = m
    <3>1. replies'[m] \in {<<>>, <<Error>>}
      BY <1>1, <2>1, SomeFacts, Replied DEF Dispatch, IInv
    <3>2. CASE replies'[n] = <<>>
      BY <3>2 DEF OwnAnswer
    <3>3. CASE replies'[n] = <<Error>>
      BY <3>3, SomeFacts DEF OwnAnswer
    <3> QED BY <2>2, <3>1, <3>2, <3>3
  <2>3. CASE n # m
    <3>1. kind[n] = kind'[n] /\ replies'[n] = replies[n]
      BY <1>1, <2>3, SomeFacts, Replied DEF Dispatch, IInv, TypeOK
    <3>2. kind[n] # None
      BY <3>1, SomeFacts DEF Handled, Kinds
    <3> QED BY <3>1, <3>2, OwnStays
  <2> QED BY <2>2, <2>3
<1>2. CASE ~\E m \in Messages, k \in Kinds : Dispatch(m, k)
  <2>1. kind'[n] = kind[n] /\ kind[n] # None
    BY <1>2, NextCases, Judges, ElsewhereKeeps, SomeFacts DEF Relay, Register, Send, Take, Timeout,
       Pop, Stop, clientVars, Handled, Kinds
  <2>2. CASE replies'[n] = replies[n]
    BY <2>1, <2>2, OwnStays
  <2>3. CASE Relay
    <3>1. n # cur /\ cur \in Messages
      BY <2>1, <2>3 DEF Relay, IInv, Busy, Working, Relayed, Handled
    <3>2. replies'[n] = replies[n]
      BY <2>3, <3>1, SomeFacts, Replied DEF Relay, IInv
    <3> QED BY <2>2, <3>2
  <2>4. CASE Gate \/ Human
    <3>1. CASE Reply(cur, Blocked)
      <4>1. /\ cur \in Messages /\ replies[cur] = <<>> /\ UNCHANGED <<asked, name>>
            /\ Blocked \in Answers /\ Blocked.what # "answer"
        BY <2>4, Judges, SomeFacts DEF IInv, Busy, Working
      <4>2. CASE n = cur
        BY <3>1, <4>1, <4>2, FirstAnswer
      <4>3. CASE n # cur
        BY <2>2, <3>1, <4>1, <4>3, Replied DEF IInv
      <4> QED BY <4>2, <4>3
    <3>2. CASE UNCHANGED replies
      BY <2>2, <3>2
    <3> QED BY <2>4, <3>1, <3>2, Judges
  <2>5. CASE Pop
    <3>1. /\ cur \in Messages /\ replies[cur] = <<>> /\ got \in Answers
          /\ got.what = "answer" => IsAnswerTo(cur, got)
          /\ UNCHANGED <<asked, name>>
      BY <2>5 DEF Pop, IInv, Busy, Working, Asked, TypeOK
    <3>2. CASE Reply(cur, got)
      <4>1. CASE n = cur
        BY <3>1, <3>2, <4>1, FirstAnswer
      <4>2. CASE n # cur
        BY <2>2, <3>1, <3>2, <4>2, Replied DEF IInv
      <4> QED BY <4>1, <4>2
    <3>3. CASE UNCHANGED replies
      BY <2>2, <3>3
    <3> QED BY <2>5, <3>2, <3>3 DEF Pop, Unreadable
  <2> QED BY <1>2, <2>2, <2>3, <2>4, <2>5, NextCases, ElsewhereKeeps DEF Register, Send, Take,
             Timeout, Stop, clientVars
<1> QED BY <1>1, <1>2

LEMMA NextPastIt ==
  ASSUME IInv, Next
  PROVE  PastIt'
<1>1. \A m \in Messages : replies[m] # <<>> => replies'[m] # <<>>
  <2>1. \A m \in Messages : \A a \in Answers : Reply(m, a) =>
           \A n \in Messages : replies[n] # <<>> => replies'[n] # <<>>
    BY Replied DEF IInv
  <2>2. \/ UNCHANGED replies
        \/ \E m \in Messages : \E a \in Answers : Reply(m, a)
    BY NextCases, Judges, ElsewhereKeeps, SomeFacts DEF Dispatch, Relay, Register, Send, Take,
       Timeout, Pop, Unreadable, Stop, clientVars, IInv, Busy, Working, Asked, TypeOK
  <2> QED BY <2>1, <2>2
<1>2. main = "died" => main' = "died"
  BY NextCases, Judges, ElsewhereKeeps DEF Dispatch, Relay, Register, Send, Take, Timeout, Pop, Stop
<1>3. ASSUME NEW a \in relayedOut', a.of # None, kind'[a.of] \in Handled
      PROVE  replies'[a.of] # <<>> \/ main' = "died"
  <2>1. CASE a \in relayedOut
    <3>1. a.of \in Messages /\ kind[a.of] # None
      BY <1>3, <2>1 DEF IInv, Asked, TypeOK, ServerAnswer
    <3>2. replies[a.of] # <<>> \/ main = "died"
      BY <1>3, <2>1, <3>1, GivenStays DEF IInv, AnswersMatch
    <3> QED BY <1>1, <1>2, <3>1, <3>2
  <2>2. CASE a \notin relayedOut
    <3>1. ReadLine
      BY <2>2, NextCases, Judges DEF Dispatch, Relay, Register, Send, Take, Timeout, Pop, Stop,
         Elsewhere, ServerAnswers, ServerInvents, ServerSpeaks, ServerEnds, Says, ReaderStep,
         Put, Eof, Lock, Notify, clientVars
    <3>2. FromServer(a.id, a.of) /\ \A r \in pending : a.id # ProxyId(r)
      BY <2>2, <3>1, Reads
    <3>3. PICK s \in atServer : s.id = a.id /\ s.of = a.of
      BY <1>3, <3>2 DEF FromServer
    <3>4. OwnId(s) /\ a.of \in Messages /\ UNCHANGED <<kind, replies, main, asked>>
      BY <3>1, <3>3, ElsewhereKeeps DEF IInv, Owned, TypeOK, Requests, Elsewhere, ReaderStep
    <3>5. a.id = ProxyId(asked[a.of]) /\ asked[a.of] # 0
      BY <1>3, <3>3, <3>4 DEF OwnId, Relayed, Handled
    <3>6. asked[a.of] \notin pending
      BY <3>2, <3>5
    <3>7. ~(main \in Registered /\ a.of = cur)
      BY <3>6 DEF IInv, Busy, Working, Registered, Waiting
    <3> QED BY <3>4, <3>5, <3>7 DEF IInv, Used
  <2> QED BY <2>1, <2>2
<1> QED BY <1>3 DEF PastIt

LEMMA NextAnswersMatch ==
  ASSUME IInv, Next
  PROVE  AnswersMatch'
BY NextOneAnswer, NextPastIt DEF AnswersMatch, OneAnswer, OwnAnswer, PastIt

-----------------------------------------------------------------------------
(* The theorems. *)

LEMMA StutterIInv ==
  ASSUME IInv, UNCHANGED vars
  PROVE  IInv'
<1> USE DEF vars, IInv
<1>1. TypeOK'
  BY DEF TypeOK
<1>2. Counted' /\ Busy' /\ Waiting' /\ Used' /\ Unsent'
  BY DEF Counted, Dispatched, Busy, Waiting, Used, Unsent
<1>3. Owned' /\ Asked' /\ Told'
  BY DEF Owned, OwnId, Asked, FromServer, IsAnswerTo, Told
<1>4. AnswersMatch'
  BY DEF AnswersMatch, IsAnswerTo
<1> QED BY <1>1, <1>2, <1>3, <1>4

(* The inductive invariant. *)
THEOREM Invariance == Spec => []IInv
<1>1. Init => IInv
  BY InitIInv
<1>2. IInv /\ [Next]_vars => IInv'
  <2> SUFFICES ASSUME IInv, [Next]_vars PROVE IInv'
    OBVIOUS
  <2>1. CASE Next
    BY <2>1, NextTypeOK, NextCounted, NextBusy, NextWaiting, NextUsed, NextUnsent, NextOwned,
       NextAsked, NextTold, NextAnswersMatch DEF IInv
  <2>2. CASE UNCHANGED vars
    BY <2>2, StutterIInv
  <2> QED BY <2>1, <2>2
<1> QED BY <1>1, <1>2, PTL DEF Spec

(* The variables keep their types: the proxy never runs out of ids, and the reader
   never puts an answer in a box that was not registered (mcp_proxy.py 74-153). *)
THEOREM TypeCorrect == Spec => []TypeOK
<1>1. IInv => TypeOK
  BY DEF IInv
<1> QED BY <1>1, Invariance, PTL

(* Whatever the server says, made up or not, however often, early or late, each caller
   gets one reply, and an answer only of what came under the proxy's id of its own
   request; what the server says to that request goes to the client past the main
   thread only once it was replied to (mcp_proxy.py 98-116, 131-153).  That the id is
   no other message's too is the client's doing, not the code's (see IsAnswerTo). *)
THEOREM AnswersToTheirOwn == Spec => []AnswersMatch
<1>1. IInv => AnswersMatch
  BY DEF IInv
<1> QED BY <1>1, Invariance, PTL

(* When the reader has told everybody that the server is gone, who waits has its
   answer already (mcp_proxy.py 91-116, 148-152). *)
THEOREM NobodyIsForgotten == Spec => []NoLostWakeup
<1>1. IInv => NoLostWakeup
  BY DEF IInv, Told, NoLostWakeup
<1> QED BY <1>1, Invariance, PTL

(* Nothing reaches the server but what was relayed by its kind, asked by the proxy,
   or allowed while the trace held (mcp_proxy.py 6-9, 39-41, 271-317, 358-390). *)
THEOREM OnlyAllowedIsSent == Spec => OnlyAllowedReachServer
<1> DEFINE Fits(s) ==
        \/ s.kind \in {"relayed", "note"} /\ s.id = name[s.of]
        \/ s.kind = "asked" /\ s.id = ProxyId(rid)
        \/ /\ s.kind = "gated" /\ s.id = ProxyId(rid) /\ ~learnFailed
           /\ s.of \in allowed /\ replies[s.of] = <<>>
<1>1. IInv /\ [Next]_vars => [\A s \in atServer' \ atServer : Fits(s)]_vars
  <2> SUFFICES ASSUME IInv, Next, NEW s \in atServer' \ atServer PROVE Fits(s)
    OBVIOUS
  <2>1. CASE Relay /\ s.kind \in Relayed /\ s.of = cur /\ s.id = name[cur]
    BY <2>1 DEF Relayed
  <2>2. CASE Send /\ s.kind \in {"gated", "asked"} /\ s.of = cur /\ s.id = ProxyId(rid)
    <3>1. main = "send" /\ OwnId(s)
      BY <2>2, NewRequests DEF Send
    <3> QED BY <2>2, <3>1 DEF IInv, Busy, Working, OwnId
  <2> QED BY <2>1, <2>2, NewRequests
<1>2. IInv /\ [Next]_vars => [\A s \in atServer' \ atServer :
        \/ s.kind \in {"relayed", "note"} /\ s.id = name[s.of]
        \/ s.kind = "asked" /\ s.id = ProxyId(rid)
        \/ /\ s.kind = "gated" /\ s.id = ProxyId(rid) /\ ~learnFailed
           /\ s.of \in allowed /\ replies[s.of] = <<>>]_vars
  BY <1>1
<1> QED BY <1>2, Invariance, PTL DEF Spec, OnlyAllowedReachServer
=============================================================================
