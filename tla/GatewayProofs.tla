---------------------------- MODULE GatewayProofs ----------------------------
(***************************************************************************)
(* Proofs about Gateway, for any number of processes and requests.         *)
(*                                                                         *)
(* The safety properties speak of the disk; what makes them inductive is   *)
(* what is on its way there.  RecordInv says of every record, buffered,    *)
(* cached or durable, that it is true and that its request is past the     *)
(* point where it could become false; CallInv says the same of the record  *)
(* a process is about to write.                                            *)
(*                                                                         *)
(* The second part is about the tokens of an executor's api.call (Broker). *)
(***************************************************************************)
EXTENDS Gateway, Broker, TLAPS

Busy == {"approve", "flush", "fsync", "observe", "dispatch"}
Known == disk \cup cache \cup UNION {buf[g] : g \in Gateways}
Permitted(id) == \/ id \in approved
                 \/ ruling[id] = "allow" /\ relaxed[id] = "allow"

CallInv ==
    \A g \in Gateways :
      /\ pc[g] \in {"down", "idle", "approve"} => out[g] = "not_executed"
      /\ pc[g] \in Busy =>
        /\ cur[g] \in Ids
        /\ owner[cur[g]] = g
        /\ answer[cur[g]] = "none"
        /\ pc[g] \in {"observe", "dispatch"} => out[g] = "intent"
        /\ out[g] \notin {"executed", "error"} => cur[g] \notin effects
        /\ out[g] = "executed" => cur[g] \in effects
        /\ out[g] \in {"executed", "error"} \/ pc[g] \in {"observe", "dispatch"}
              => [id |-> cur[g], out |-> "intent"] \in disk

(* What the record r says is true and stays so. *)
Sure(r) ==
    /\ owner[r.id] # None
    /\ r.out \in Outcomes =>
          /\ answer[r.id] # "delegated"
          /\ \A g \in Gateways : pc[g] \in Busy /\ cur[g] = r.id
                => pc[g] = "fsync" /\ out[g] = r.out
    /\ r.out = "not_executed" => r.id \notin effects
    /\ r.out = "executed" => r.id \in effects
    /\ r.out \in {"executed", "error"} => r.id \in Promised

SettledOnce ==
    \A r, s \in Known :
        r.id = s.id /\ r.out \in Outcomes /\ s.out \in Outcomes => r = s

RecordInv == (\A r \in Known : Sure(r)) /\ SettledOnce

AnswerInv ==
    \A id \in Ids :
        /\ owner[id] = None => answer[id] = "none" /\ id \notin effects
        /\ answer[id] \in {"not_executed", "closed"} => id \notin effects
        /\ answer[id] = "delegated" => [id |-> id, out |-> "delegated"] \in disk

RulingInv ==
    /\ \A g \in Gateways : pc[g] \in Busy =>
          /\ out[g] = "intent" => Permitted(cur[g])
          /\ out[g] = "delegated" => Permitted(cur[g]) \/ relaxed[cur[g]] = "require_approval"
    /\ \A id \in Ids : answer[id] = "delegated"
          => Permitted(id) \/ relaxed[id] = "require_approval"

BrokenInv ==
    \A g \in Gateways : broken[g] =>
        /\ pc[g] \in {"idle", "flush", "fsync"}
        /\ out[g] = "not_executed"

IInv == /\ TypeOK
        /\ CallInv
        /\ RecordInv
        /\ AnswerInv
        /\ IntentBeforeEffect

-----------------------------------------------------------------------------
(* Types. *)

LEMMA InitTypeOK == Init => TypeOK
  BY DEF Init, TypeOK, Steps, Promises, Outcomes, Answers

LEMMA LogTypes ==
  ASSUME TypeOK, NEW g \in Gateways, NEW id \in Ids,
         NEW o \in Promises \cup Outcomes, Log(g, id, o)
  PROVE  /\ pc' \in [Gateways -> Steps]
         /\ cur' \in [Gateways -> Ids \cup {None}]
         /\ out' \in [Gateways -> Promises \cup Outcomes]
  BY DEF TypeOK, Log, Steps

LEMMA ReplyTypes ==
  ASSUME TypeOK, NEW g \in Gateways, NEW id \in Ids, NEW a \in Answers,
         Reply(g, id, a)
  PROVE  /\ pc' \in [Gateways -> Steps]
         /\ cur' \in [Gateways -> Ids \cup {None}]
         /\ out' \in [Gateways -> Promises \cup Outcomes]
         /\ answer' \in [Ids -> Answers]
  BY DEF TypeOK, Reply, Steps, Outcomes

LEMMA NextTypeOK ==
  ASSUME TypeOK, CallInv, [Next]_vars
  PROVE  TypeOK'
<1>1. ASSUME NEW g \in Gateways, Start(g) PROVE TypeOK'
  BY <1>1 DEF TypeOK, Start, Steps, storeVars, requestVars
<1>2. ASSUME NEW g \in Gateways, Exit(g) \/ Kill(g) PROVE TypeOK'
  <2>1. /\ pc' \in [Gateways -> Steps]
        /\ cur' \in [Gateways -> Ids \cup {None}]
        /\ out' \in [Gateways -> Promises \cup Outcomes]
        /\ broken' \in [Gateways -> BOOLEAN]
        /\ opened' \in [Gateways -> BOOLEAN]
        /\ buf' \in [Gateways -> SUBSET Records]
    BY <1>2 DEF TypeOK, Exit, Kill, Stopped, Steps, Outcomes
  <2>2. cache' \subseteq Records
    BY <1>2 DEF TypeOK, Exit, Kill, storeVars
  <2> QED BY <1>2, <2>1, <2>2 DEF TypeOK, Exit, Kill, storeVars, requestVars
<1>3. ASSUME NEW g \in Gateways, NEW id \in Ids, Request(g, id) PROVE TypeOK'
  <2>1. ASSUME Arrives(g, id), FailClosed(g, id) 
        PROVE  /\ pc' \in [Gateways -> Steps]
               /\ cur' \in [Gateways -> Ids \cup {None}]
               /\ out' \in [Gateways -> Promises \cup Outcomes]
               /\ answer' \in [Ids -> Answers]
               /\ UNCHANGED <<ruling, relaxed>>
    BY <2>1, LogTypes, ReplyTypes DEF FailClosed, Outcomes, Answers, TypeOK
  <2>2. ASSUME Arrives(g, id) PROVE owner' \in [Ids -> Gateways \cup {None}]
    BY <2>2 DEF Arrives, TypeOK
  <2>3. ASSUME NEW d \in Decisions, NEW r \in Decisions, Ruled(id, d, r)
        PROVE  /\ ruling' \in [Ids -> Decisions \cup {"none"}]
               /\ relaxed' \in [Ids -> Decisions \cup {"none"}]
    BY <2>3 DEF Ruled, TypeOK
  <2>4. ASSUME NEW d \in Decisions, Handle(g, id, d) PROVE TypeOK'
    <3>1. CASE FailClosed(g, id)
      BY <3>1, <2>1, <2>2, <2>4 DEF Handle, TypeOK, storeVars
    <3>2. CASE ~FailClosed(g, id)
      <4>1. /\ pc' \in [Gateways -> Steps]
            /\ cur' \in [Gateways -> Ids \cup {None}]
            /\ out' \in [Gateways -> Promises \cup Outcomes]
        <5>1. CASE d = "require_approval"
          BY <5>1, <3>2, <2>4 DEF Handle, TypeOK, Steps
        <5>2. CASE d # "require_approval"
          BY <5>2, <3>2, <2>4, LogTypes DEF Handle, Decisions, Promises, Outcomes
        <5> QED BY <5>1, <5>2
      <4> QED BY <4>1, <3>2, <2>2, <2>3, <2>4 DEF Handle, TypeOK, storeVars
    <3> QED BY <3>1, <3>2
  <2>5. ASSUME NEW d \in Decisions, NEW r \in Decisions, NEW ask \in BOOLEAN,
               Decide(g, id, d, r, ask) 
        PROVE TypeOK'
    <3>1. CASE FailClosed(g, id)
      BY <3>1, <2>1, <2>2, <2>5 DEF Decide, TypeOK, storeVars
    <3>2. CASE ~FailClosed(g, id)
      <4>1. /\ pc' \in [Gateways -> Steps]
            /\ cur' \in [Gateways -> Ids \cup {None}]
            /\ out' \in [Gateways -> Promises \cup Outcomes]
        BY <3>2, <2>5, LogTypes DEF Decide, Promises, Outcomes
      <4> QED BY <4>1, <3>2, <2>2, <2>3, <2>5 DEF Decide, TypeOK, storeVars
    <3> QED BY <3>1, <3>2
  <2>6. ASSUME Refuse(g, id) PROVE TypeOK'
    <3>1. /\ pc' \in [Gateways -> Steps]
          /\ cur' \in [Gateways -> Ids \cup {None}]
          /\ out' \in [Gateways -> Promises \cup Outcomes]
          /\ answer' \in [Ids -> Answers]
      BY <2>6, LogTypes, ReplyTypes DEF Refuse, TypeOK, Outcomes, Answers
    <3> QED BY <3>1, <2>2, <2>3, <2>6 DEF Refuse, TypeOK, storeVars, Decisions
  <2> QED BY <1>3, <2>4, <2>5, <2>6 DEF Request
<1>4. ASSUME NEW g \in Gateways, Approve(g) PROVE TypeOK'
  <2>1. cur[g] \in Ids
    BY <1>4 DEF CallInv, Approve, Busy
  <2> QED BY <2>1, <1>4, LogTypes DEF Approve, TypeOK, storeVars, Promises, Outcomes
<1>5. ASSUME NEW g \in Gateways, Flush(g) \/ Fsync(g) PROVE TypeOK'
  <2>1. cur[g] \in Ids /\ Entry(g) \in Records
    <3>1. pc[g] \in Busy
      BY <1>5 DEF Flush, Fsync, Busy
    <3>2. cur[g] \in Ids
      BY <3>1 DEF CallInv
    <3> QED BY <3>2 DEF Entry, Records, TypeOK
  <2>2. ASSUME Unrecorded(g)
        PROVE  /\ pc' \in [Gateways -> Steps]
               /\ cur' \in [Gateways -> Ids \cup {None}]
               /\ out' \in [Gateways -> Promises \cup Outcomes]
               /\ answer' \in [Ids -> Answers]
               /\ broken' \in [Gateways -> BOOLEAN]
               /\ stderr' \subseteq Notices
    <3>1. out[g] \in Promises \cup Outcomes
      BY DEF TypeOK
    <3>2. stderr' \subseteq Notices
      BY <2>1, <2>2 DEF Unrecorded, Poison, TypeOK, Notices
    <3> QED BY <2>1, <2>2, <3>1, <3>2, ReplyTypes DEF Unrecorded, Poison, TypeOK, Promises, Outcomes, Answers
  <2>3. CASE Flush(g)
    BY <2>1, <2>2, <2>3 DEF Flush, TypeOK, requestVars, Steps
  <2>4. CASE Fsync(g)
    <3>1. CASE Unrecorded(g) /\ UNCHANGED storeVars
      BY <2>2, <2>4, <3>1 DEF Fsync, TypeOK, requestVars, storeVars
    <3>2. CASE Synced(g) /\ Recorded(g) /\ UNCHANGED <<broken, stderr>>
      <4>1. disk' \subseteq Records /\ cache' \subseteq Records
        BY <2>1, <3>2 DEF Synced, TypeOK
      <4>2. /\ pc' \in [Gateways -> Steps]
            /\ cur' \in [Gateways -> Ids \cup {None}]
            /\ out' \in [Gateways -> Promises \cup Outcomes]
            /\ answer' \in [Ids -> Answers]
        <5>1. CASE out[g] = "intent"
          BY <5>1, <3>2 DEF Recorded, TypeOK, Steps
        <5>2. CASE out[g] # "intent"
          <6>1. out[g] \in Answers
            BY <5>2 DEF TypeOK, Promises, Outcomes, Answers
          <6> QED BY <6>1, <5>2, <2>1, <3>2, ReplyTypes DEF Recorded
        <5> QED BY <5>1, <5>2
      <4> QED BY <4>1, <4>2, <2>4, <3>2 DEF Fsync, TypeOK, requestVars
    <3> QED BY <2>4, <3>1, <3>2 DEF Fsync
  <2> QED BY <1>5, <2>3, <2>4
<1>6. ASSUME NEW g \in Gateways, Observe(g) \/ Dispatch(g) PROVE TypeOK'
  <2>1. cur[g] \in Ids
    BY <1>6 DEF CallInv, Observe, Dispatch, Busy
  <2>2. CASE Observe(g)
    BY <2>1, <2>2, LogTypes DEF Observe, TypeOK, Steps, Outcomes, storeVars, requestVars
  <2>3. CASE Dispatch(g)
    BY <2>1, <2>3, LogTypes DEF Dispatch, TypeOK, Outcomes, storeVars, requestVars
  <2> QED BY <1>6, <2>2, <2>3
<1>7. ASSUME NEW id \in Ids, HostRuns(id) PROVE TypeOK'
  BY <1>7 DEF HostRuns, TypeOK, procVars, storeVars
<1>8. ASSUME PowerLoss \/ Writeback PROVE TypeOK'
  <2>1. CASE PowerLoss
    BY <2>1 DEF PowerLoss, TypeOK, Steps, Outcomes, requestVars
  <2>2. CASE Writeback
    BY <2>2 DEF Writeback, TypeOK, procVars, requestVars
  <2> QED BY <1>8, <2>1, <2>2
<1>9. CASE UNCHANGED vars
  BY <1>9 DEF vars, TypeOK
<1> QED BY <1>1, <1>2, <1>3, <1>4, <1>5, <1>6, <1>7, <1>8, <1>9 DEF Next, Step

-----------------------------------------------------------------------------
(* CallInv. *)

LEMMA InitCallInv == Init => CallInv
  BY DEF Init, CallInv, Busy

(* Two calls are never about one request. *)
LEMMA OwnCall ==
  ASSUME TypeOK, CallInv, NEW g \in Gateways, NEW h \in Gateways,
         pc[g] \in Busy, pc[h] \in Busy, g # h
  PROVE  cur[g] # cur[h]
<1>1. owner[cur[g]] = g /\ owner[cur[h]] = h
  BY DEF CallInv
<1> QED BY <1>1

LEMMA NextCallInv ==
  ASSUME IInv, [Next]_vars
  PROVE  CallInv'
<1> USE DEF IInv
<1>0. TypeOK'
  BY NextTypeOK
<1>1. ASSUME NEW g \in Gateways, Start(g) PROVE CallInv'
  BY <1>1 DEF TypeOK, CallInv, Start, Busy, storeVars, requestVars
<1>2. ASSUME NEW g \in Gateways, Exit(g) \/ Kill(g) PROVE CallInv'
  BY <1>2 DEF TypeOK, CallInv, Exit, Kill, Stopped, Busy, storeVars, requestVars
<1>3. ASSUME NEW g \in Gateways, NEW id \in Ids, Request(g, id) PROVE CallInv'
  <2>1. /\ owner[id] = None /\ pc[g] = "idle"
        /\ owner' = [owner EXCEPT ![id] = g]
        /\ answer[id] = "none" /\ id \notin effects
        /\ UNCHANGED <<effects, storeVars>>
    BY <1>3 DEF Request, Handle, Decide, Refuse, Arrives, AnswerInv
  <2>2. \/ /\ \E o \in {"intent", "delegated", "not_executed"} : Log(g, id, o)
           /\ UNCHANGED answer
        \/ /\ pc' = [pc EXCEPT ![g] = "approve"]
           /\ cur' = [cur EXCEPT ![g] = id]
           /\ UNCHANGED <<out, answer>>
        \/ Reply(g, id, "closed")
    BY <1>3 DEF Request, Handle, Decide, Refuse, FailClosed, Decisions
  <2>3. CASE Reply(g, id, "closed")
    BY <2>1, <2>3, NoneAssumption DEF TypeOK, CallInv, Reply, Busy, storeVars
  <2>4. CASE \E o \in {"intent", "delegated", "not_executed"} : Log(g, id, o) /\ UNCHANGED answer
    BY <2>1, <2>4, NoneAssumption DEF TypeOK, CallInv, Log, Busy, storeVars
  <2>5. CASE /\ pc' = [pc EXCEPT ![g] = "approve"]
             /\ cur' = [cur EXCEPT ![g] = id]
             /\ UNCHANGED <<out, answer>>
    BY <2>1, <2>5, NoneAssumption DEF TypeOK, CallInv, Busy, storeVars
  <2> QED BY <2>2, <2>3, <2>4, <2>5
<1>4. ASSUME NEW g \in Gateways, Approve(g) PROVE CallInv'
  BY <1>4 DEF TypeOK, CallInv, Approve, Log, Busy, storeVars
<1>5. ASSUME NEW g \in Gateways, Flush(g) PROVE CallInv'
  BY <1>5, OwnCall DEF TypeOK, CallInv, Flush, Unrecorded, Poison, Reply, Busy, requestVars
<1>6. ASSUME NEW g \in Gateways, Fsync(g) PROVE CallInv'
  BY <1>6, OwnCall DEF TypeOK, CallInv, Fsync, Synced, Entry, Recorded, Unrecorded, Poison, Reply, Busy, storeVars, requestVars
<1>7. ASSUME NEW g \in Gateways, Observe(g) PROVE CallInv'
  BY <1>7 DEF TypeOK, CallInv, Observe, Log, Busy, storeVars, requestVars
<1>8. ASSUME NEW g \in Gateways, Dispatch(g) PROVE CallInv'
  BY <1>8, OwnCall DEF TypeOK, CallInv, Dispatch, Log, Busy, storeVars, requestVars
<1>9. ASSUME NEW id \in Ids, HostRuns(id) PROVE CallInv'
  BY <1>9 DEF TypeOK, CallInv, HostRuns, Busy, procVars, storeVars
<1>10. ASSUME PowerLoss \/ Writeback PROVE CallInv'
  BY <1>10 DEF TypeOK, CallInv, PowerLoss, Writeback, Busy, procVars, requestVars
<1>11. CASE UNCHANGED vars
  BY <1>11 DEF CallInv, vars
<1> QED BY <1>1, <1>2, <1>3, <1>4, <1>5, <1>6, <1>7, <1>8, <1>9, <1>10, <1>11 DEF Next, Step

-----------------------------------------------------------------------------
(* RecordInv. *)

LEMMA InitRecordInv == Init => RecordInv
  BY DEF Init, RecordInv, SettledOnce, Known

LEMMA KnownTypes == TypeOK => Known \subseteq Records
  BY DEF TypeOK, Known

(* Records come from Flush and Fsync only, and the disk loses none. *)
LEMMA NextKnown ==
  ASSUME IInv, [Next]_vars
  PROVE  /\ disk \subseteq disk'
         /\ Known' \subseteq Known
            \/ \E g \in Gateways : /\ Flush(g) \/ Fsync(g)
                                   /\ Known' \subseteq Known \cup {Entry(g)}
<1> USE DEF IInv
<1>1. ASSUME NEW g \in Gateways, Exit(g) 
      PROVE  disk' = disk /\ Known' \subseteq Known
  BY <1>1 DEF TypeOK, Exit, Stopped, Known
<1>2. ASSUME NEW g \in Gateways, Kill(g)
      PROVE  disk' = disk /\ Known' \subseteq Known
  BY <1>2 DEF TypeOK, Kill, Stopped, Known, storeVars
<1>3. ASSUME NEW g \in Gateways, Flush(g)
      PROVE  disk' = disk /\ Known' \subseteq Known \cup {Entry(g)}
  BY <1>3 DEF TypeOK, Flush, Known
<1>4. ASSUME NEW g \in Gateways, Fsync(g)
      PROVE  disk \subseteq disk' /\ Known' \subseteq Known \cup {Entry(g)}
  BY <1>4 DEF TypeOK, Fsync, Synced, Known, storeVars
<1>5. ASSUME PowerLoss PROVE disk' = disk /\ Known' \subseteq Known
  BY <1>5 DEF PowerLoss, Known
<1>6. ASSUME Writeback PROVE disk \subseteq disk' /\ Known' \subseteq Known
  BY <1>6 DEF Writeback, Known, procVars
<1>7. ASSUME UNCHANGED <<buf, cache, disk>> PROVE disk' = disk /\ Known' = Known
  BY <1>7 DEF Known
<1>8. ASSUME NEW g \in Gateways, NEW id \in Ids, Request(g, id)
      PROVE  UNCHANGED <<buf, cache, disk>>
  BY <1>8 DEF Request, Handle, Decide, Refuse, storeVars
<1>9. ASSUME NEW g \in Gateways, Start(g) \/ Approve(g) \/ Observe(g) \/ Dispatch(g)
      PROVE  UNCHANGED <<buf, cache, disk>>
  BY <1>9 DEF Start, Approve, Observe, Dispatch, storeVars
<1>10. ASSUME NEW id \in Ids, HostRuns(id) PROVE UNCHANGED <<buf, cache, disk>>
  BY <1>10 DEF HostRuns, procVars, storeVars
<1>11. ASSUME UNCHANGED vars PROVE UNCHANGED <<buf, cache, disk>>
  BY <1>11 DEF vars
<1> QED BY <1>1, <1>2, <1>3, <1>4, <1>5, <1>6, <1>7, <1>8, <1>9, <1>10, <1>11 DEF Next, Step

(* A record the log holds already stays true. *)
LEMMA StaysSure ==
  ASSUME IInv, [Next]_vars, NEW r \in Known
  PROVE  Sure(r)'
<1> USE DEF IInv, RecordInv
<1>0. r \in Records /\ r.id \in Ids /\ Sure(r)
  BY KnownTypes DEF Records
<1>01. Promised \subseteq Promised'
  BY NextKnown DEF Promised
<1>1. ASSUME NEW g \in Gateways, Start(g) PROVE Sure(r)'
  BY <1>0, <1>01, <1>1 DEF TypeOK, Start, Sure, Busy, requestVars
<1>2. ASSUME NEW g \in Gateways, Exit(g) \/ Kill(g) PROVE Sure(r)'
  BY <1>0, <1>01, <1>2 DEF TypeOK, Exit, Kill, Stopped, Sure, Busy, requestVars
<1>3. ASSUME NEW g \in Gateways, NEW id \in Ids, Request(g, id) PROVE Sure(r)'
  <2>1. /\ owner[id] = None
        /\ owner' = [owner EXCEPT ![id] = g]
        /\ UNCHANGED effects
    BY <1>3 DEF Request, Handle, Decide, Refuse, Arrives
  <2>2. \A h \in Gateways \ {g} : pc'[h] = pc[h] /\ cur'[h] = cur[h] /\ out'[h] = out[h]
    BY <1>3 DEF TypeOK, Request, Handle, Decide, Refuse, FailClosed, Log, Reply, Decisions
  <2>3. pc'[g] \in Busy => cur'[g] = id
    BY <1>3 DEF TypeOK, Request, Handle, Decide, Refuse, FailClosed, Log, Reply, Decisions, Busy
  <2>4. answer' = answer \/ answer' = [answer EXCEPT ![id] = "closed"]
    BY <1>3 DEF Request, Handle, Decide, Refuse, FailClosed, Reply
  <2>5. r.id # id
    BY <1>0, <2>1 DEF Sure
  <2>6. owner'[r.id] # None
    BY <1>0, <2>1, <2>5 DEF Sure, TypeOK
  <2> QED BY <1>0, <1>01, <2>1, <2>2, <2>3, <2>4, <2>5, <2>6 DEF TypeOK, Sure
<1>4. ASSUME NEW g \in Gateways, Approve(g) PROVE Sure(r)'
  BY <1>0, <1>01, <1>4 DEF TypeOK, Approve, Log, Sure, Busy
<1>5. ASSUME NEW g \in Gateways, Flush(g) PROVE Sure(r)'
  BY <1>0, <1>01, <1>5 DEF TypeOK, CallInv, Flush, Unrecorded, Poison, Reply, Sure, Busy, Promises, Outcomes, requestVars
<1>6. ASSUME NEW g \in Gateways, Fsync(g) PROVE Sure(r)'
  BY <1>0, <1>01, <1>6 DEF TypeOK, CallInv, Fsync, Recorded, Unrecorded, Poison, Reply, Sure, Busy, Promises, Outcomes, requestVars
<1>7. ASSUME NEW g \in Gateways, Observe(g) PROVE Sure(r)'
  BY <1>0, <1>01, <1>7 DEF TypeOK, CallInv, Observe, Log, Sure, Busy, Outcomes, requestVars
<1>8. ASSUME NEW g \in Gateways, Dispatch(g) PROVE Sure(r)'
  BY <1>0, <1>01, <1>8 DEF TypeOK, CallInv, Dispatch, Log, Sure, Busy, Outcomes, requestVars
<1>9. ASSUME NEW id \in Ids, HostRuns(id) PROVE Sure(r)'
  BY <1>0, <1>01, <1>9 DEF TypeOK, HostRuns, Sure, Outcomes, procVars
<1>10. ASSUME PowerLoss \/ Writeback PROVE Sure(r)'
  BY <1>0, <1>01, <1>10 DEF TypeOK, PowerLoss, Writeback, Sure, Busy, procVars, requestVars
<1>11. CASE UNCHANGED vars
  BY <1>0, <1>01, <1>11 DEF vars, Sure
<1> QED BY <1>1, <1>2, <1>3, <1>4, <1>5, <1>6, <1>7, <1>8, <1>9, <1>10, <1>11 DEF Next, Step

(* The record a call is writing is true, and the first to settle its request. *)
LEMMA EntrySure ==
  ASSUME IInv, NEW g \in Gateways, Flush(g) \/ Fsync(g), NEW e, e = Entry(g)
  PROVE  /\ Sure(e)'
         /\ \A r \in Known : r.id = e.id /\ r.out \in Outcomes /\ e.out \in Outcomes
               => r = e
<1> USE DEF IInv, RecordInv
<1>1. /\ pc[g] \in {"flush", "fsync"} /\ cur[g] \in Ids /\ owner[cur[g]] = g
      /\ answer[cur[g]] = "none" /\ out[g] \in Promises \cup Outcomes
  BY ZenonT(60) DEF Flush, Fsync, CallInv, Busy, TypeOK
<1>2. UNCHANGED <<effects, owner>> /\ disk \subseteq disk'
  BY DEF Flush, Fsync, Synced, requestVars, storeVars
<1>3. Promised \subseteq Promised'
  BY <1>2 DEF Promised
<1>4. out[g] \in {"executed", "error"} => cur[g] \in Promised
  <2>1. out[g] \in {"executed", "error"} => [id |-> cur[g], out |-> "intent"] \in disk
    BY <1>1 DEF CallInv, Busy
  <2> QED BY <2>1 DEF Promised, Promises
<1>5. out[g] \in Outcomes => answer'[cur[g]] # "delegated"
  BY <1>1 DEF Flush, Fsync, Recorded, Unrecorded, Reply, TypeOK, Outcomes, Promises
<1>6. ASSUME NEW h \in Gateways, pc'[h] \in Busy, cur'[h] = cur[g], out[g] \in Outcomes
      PROVE  pc'[h] = "fsync" /\ out'[h] = out[g]
  <2>1. CASE h = g
    BY <1>1, <1>6, <2>1 DEF TypeOK, Flush, Fsync, Recorded, Unrecorded, Reply, Busy, Outcomes
  <2>2. CASE h # g
    <3>1. pc'[h] = pc[h] /\ cur'[h] = cur[h]
      BY <2>2 DEF TypeOK, Flush, Fsync, Recorded, Unrecorded, Reply
    <3> QED BY <1>1, <1>6, <2>2, <3>1, OwnCall DEF Busy
  <2> QED BY <2>1, <2>2
<1>7. owner[cur[g]] # None
  BY <1>1, NoneAssumption
<1>8. /\ out[g] = "not_executed" => cur[g] \notin effects
      /\ out[g] = "executed" => cur[g] \in effects
  BY <1>1 DEF CallInv, Busy
<1>9. e.id = cur[g] /\ e.out = out[g]
  BY DEF Entry
<1>10. Sure(e)'
  BY <1>1, <1>2, <1>3, <1>4, <1>5, <1>6, <1>7, <1>8, <1>9 DEF Sure, Outcomes
<1>11. ASSUME NEW r \in Known, r.id = cur[g], r.out \in Outcomes, out[g] \in Outcomes
       PROVE  r = e
  <2>1. out[g] = r.out
    BY <1>1, <1>11 DEF Sure, Busy
  <2> QED BY <1>11, <2>1, KnownTypes DEF Entry, Records
<1> QED BY <1>9, <1>10, <1>11

LEMMA NextRecordInv ==
  ASSUME IInv, [Next]_vars
  PROVE  RecordInv'
<1>1. CASE Known' \subseteq Known
  <2>1. \A r \in Known' : Sure(r)'
    BY <1>1, StaysSure
  <2> QED BY <1>1, <2>1 DEF IInv, RecordInv, SettledOnce
<1>2. ASSUME NEW g \in Gateways, Flush(g) \/ Fsync(g), Known' \subseteq Known \cup {Entry(g)}
      PROVE  RecordInv'
  <2>1. ASSUME NEW r \in Known' PROVE Sure(r)'
    BY <1>2, <2>1, StaysSure, EntrySure
  <2>2. SettledOnce'
    <3>1. PICK e : e = Entry(g)
      OBVIOUS
    <3>2. \A r \in Known : r.id = e.id /\ r.out \in Outcomes /\ e.out \in Outcomes => r = e
      BY <1>2, <3>1, EntrySure
    <3>3. Known' \subseteq Known \cup {e}
      BY <1>2, <3>1
    <3>4. SettledOnce
      BY DEF IInv, RecordInv
    <3> QED BY <3>2, <3>3, <3>4 DEF SettledOnce
  <2> QED BY <2>1, <2>2 DEF RecordInv
<1> QED BY <1>1, <1>2, NextKnown

-----------------------------------------------------------------------------
(* AnswerInv and IntentBeforeEffect. *)

LEMMA NextAnswerInv ==
  ASSUME IInv, [Next]_vars
  PROVE  AnswerInv'
<1> USE DEF IInv
<1>0. disk \subseteq disk'
  BY NextKnown
<1>1. ASSUME NEW g \in Gateways, Start(g) \/ Exit(g) \/ Kill(g) PROVE AnswerInv'
  BY <1>0, <1>1 DEF Start, Exit, Kill, AnswerInv, requestVars
<1>2. ASSUME NEW g \in Gateways, NEW id \in Ids, Request(g, id) PROVE AnswerInv'
  <2>1. /\ owner[id] = None
        /\ owner' = [owner EXCEPT ![id] = g]
        /\ answer' = answer \/ answer' = [answer EXCEPT ![id] = "closed"]
        /\ UNCHANGED effects
    BY <1>2 DEF Request, Handle, Decide, Refuse, Arrives, FailClosed, Reply
  <2> QED BY <1>0, <2>1, NoneAssumption DEF TypeOK, AnswerInv
<1>3. ASSUME NEW g \in Gateways, Approve(g) \/ Observe(g) PROVE AnswerInv'
  BY <1>0, <1>3 DEF Approve, Observe, AnswerInv, requestVars
<1>4. ASSUME NEW g \in Gateways, Flush(g) \/ Fsync(g) PROVE AnswerInv'
  <2>1. /\ cur[g] \in Ids /\ owner[cur[g]] = g
        /\ out[g] \in Promises \cup Outcomes
        /\ out[g] \notin {"executed", "error"} => cur[g] \notin effects
    BY <1>4, ZenonT(60) DEF Flush, Fsync, CallInv, Busy, TypeOK
  <2>2. UNCHANGED <<effects, owner>>
    BY <1>4 DEF Flush, Fsync, requestVars
  <2>3. \/ answer' = answer
        \/ /\ answer' = [answer EXCEPT ![cur[g]] = out[g]]
           /\ out[g] \in Outcomes \/ [id |-> cur[g], out |-> out[g]] \in disk'
        \/ answer' = [answer EXCEPT ![cur[g]] = "not_executed"] /\ out[g] \in Promises
    BY <1>4, <2>1 DEF Flush, Fsync, Synced, Entry, Recorded, Unrecorded, Reply
  <2> QED BY <1>0, <2>1, <2>2, <2>3, NoneAssumption, ZenonT(60) DEF TypeOK, AnswerInv, Promises, Outcomes
<1>5. ASSUME NEW g \in Gateways, Dispatch(g) PROVE AnswerInv'
  <2>1. /\ cur[g] \in Ids /\ owner[cur[g]] = g /\ answer[cur[g]] = "none"
    BY <1>5 DEF Dispatch, CallInv, Busy
  <2> QED BY <1>0, <1>5, <2>1, NoneAssumption DEF Dispatch, TypeOK, AnswerInv, requestVars
<1>6. ASSUME NEW id \in Ids, HostRuns(id) PROVE AnswerInv'
  BY <1>0, <1>6 DEF HostRuns, AnswerInv
<1>7. ASSUME PowerLoss \/ Writeback PROVE AnswerInv'
  BY <1>0, <1>7 DEF PowerLoss, Writeback, AnswerInv, requestVars
<1>8. CASE UNCHANGED vars
  BY <1>0, <1>8 DEF vars, AnswerInv
<1> QED BY <1>1, <1>2, <1>3, <1>4, <1>5, <1>6, <1>7, <1>8 DEF Next, Step

LEMMA NextIntentBeforeEffect ==
  ASSUME IInv, [Next]_vars
  PROVE  IntentBeforeEffect'
<1> USE DEF IInv
<1>1. Promised \subseteq Promised'
  BY NextKnown DEF Promised
<1>2. ASSUME NEW g \in Gateways, Dispatch(g) PROVE IntentBeforeEffect'
  <2>1. [id |-> cur[g], out |-> "intent"] \in disk
    BY <1>2 DEF Dispatch, CallInv, Busy
  <2>2. cur[g] \in Promised
    BY <2>1 DEF Promised, Promises
  <2> QED BY <1>1, <1>2, <2>2 DEF Dispatch, IntentBeforeEffect
<1>3. ASSUME NEW id \in Ids, HostRuns(id) PROVE IntentBeforeEffect'
  <2>1. [id |-> id, out |-> "delegated"] \in disk
    BY <1>3 DEF HostRuns, AnswerInv
  <2>2. id \in Promised
    BY <2>1 DEF Promised, Promises
  <2> QED BY <1>1, <1>3, <2>2 DEF HostRuns, IntentBeforeEffect
<1>4. ASSUME UNCHANGED effects PROVE IntentBeforeEffect'
  BY <1>1, <1>4 DEF IntentBeforeEffect
<1>5. ASSUME NEW g \in Gateways, Step(g), ~Dispatch(g) PROVE UNCHANGED effects
  BY <1>5 DEF Step, Start, Exit, Kill, Request, Handle, Decide, Refuse, Approve,
              Flush, Fsync, Observe
<1>6. ASSUME PowerLoss \/ Writeback \/ UNCHANGED vars PROVE UNCHANGED effects
  BY <1>6 DEF PowerLoss, Writeback, vars
<1> QED BY <1>2, <1>3, <1>4, <1>5, <1>6 DEF Next

-----------------------------------------------------------------------------
(* The inductive invariant, and what follows from it. *)

LEMMA InitIInv == Init => IInv
<1>1. Init => AnswerInv /\ IntentBeforeEffect
  BY DEF Init, AnswerInv, IntentBeforeEffect
<1> QED BY <1>1, InitTypeOK, InitCallInv, InitRecordInv DEF IInv

LEMMA NextIInv == IInv /\ [Next]_vars => IInv'
  BY NextTypeOK, NextCallInv, NextRecordInv, NextAnswerInv, NextIntentBeforeEffect DEF IInv

(* IInv holds in every state of every behaviour. *)
THEOREM Invariance == Spec => []IInv
  BY InitIInv, NextIInv, PTL DEF Spec

(* Every variable keeps its type. *)
THEOREM TypeCorrect == Spec => []TypeOK
<1>1. IInv => TypeOK
  BY DEF IInv
<1> QED BY <1>1, Invariance, PTL

(* No effect without a durable intent or delegation (gateway.py 5-9), for any
   number of processes, kills, power losses and failed writes. *)
THEOREM NoInvisibleEffect == Spec => []IntentBeforeEffect
<1>1. IInv => IntentBeforeEffect
  BY DEF IInv
<1> QED BY <1>1, Invariance, PTL

(* What was refused to the caller, or is recorded as not executed, had no effect
   (gateway.py 4). *)
THEOREM RefusalsHold == Spec => []RefusedNeverRuns
<1>1. IInv => RefusedNeverRuns
  <2> SUFFICES ASSUME IInv, NEW id \in Ids,
                      \/ answer[id] \in {"not_executed", "closed"}
                      \/ [id |-> id, out |-> "not_executed"] \in disk
               PROVE  id \notin effects
    BY DEF RefusedNeverRuns
  <2>1. CASE answer[id] \in {"not_executed", "closed"}
    BY <2>1 DEF IInv, AnswerInv
  <2>2. CASE [id |-> id, out |-> "not_executed"] \in disk
    <3> DEFINE r == [id |-> id, out |-> "not_executed"]
    <3>1. r \in Known
      BY <2>2 DEF Known
    <3>2. Sure(r)
      BY <3>1 DEF IInv, RecordInv
    <3> QED BY <3>2 DEF Sure
  <2> QED BY <2>1, <2>2
<1> QED BY <1>1, Invariance, PTL

-----------------------------------------------------------------------------
(* The policy's word. *)

LEMMA NextRulingInv ==
  ASSUME IInv, RulingInv, [Next]_vars
  PROVE  RulingInv'
<1> USE DEF IInv
<1>1. ASSUME NEW g \in Gateways, Start(g) \/ Exit(g) \/ Kill(g) PROVE RulingInv'
  BY <1>1 DEF TypeOK, RulingInv, Permitted, Start, Exit, Kill, Stopped, Busy, requestVars
<1>2. ASSUME NEW g \in Gateways, NEW id \in Ids, Request(g, id) PROVE RulingInv'
  <2>1. /\ owner[id] = None
        /\ \A i \in Ids \ {id} : ruling'[i] = ruling[i] /\ relaxed'[i] = relaxed[i]
        /\ answer' = answer \/ answer' = [answer EXCEPT ![id] = "closed"]
        /\ approved' = approved
        /\ \A h \in Gateways \ {g} : pc'[h] = pc[h] /\ cur'[h] = cur[h] /\ out'[h] = out[h]
    BY <1>2 DEF Request, Handle, Decide, Refuse, Arrives, FailClosed, Reply, Log, Ruled, TypeOK, Decisions
  <2>2. ASSUME NEW h \in Gateways, pc[h] \in Busy PROVE cur[h] \in Ids \ {id}
    <3>1. cur[h] \in Ids /\ owner[cur[h]] = h
      BY <2>2 DEF CallInv
    <3> QED BY <2>1, <3>1, NoneAssumption
  <2>3. answer[id] = "none"
    BY <2>1 DEF AnswerInv
  <2>4. pc'[g] \in Busy =>
          /\ cur'[g] = id
          /\ out'[g] = "intent" => Permitted(id)'
          /\ out'[g] = "delegated" => Permitted(id)' \/ relaxed'[id] = "require_approval"
    <3>1. ASSUME NEW d \in Decisions, Handle(g, id, d) PROVE <2>4!1 => <2>4!2
      <4>1. out[g] = "not_executed"
        BY <3>1 DEF Handle, Arrives, CallInv
      <4>2. CASE FailClosed(g, id)
        BY <4>2 DEF FailClosed, Reply, Log, TypeOK, Busy
      <4>3. CASE ~FailClosed(g, id)
        <5>1. Ruled(id, d, d)
          BY <3>1, <4>3 DEF Handle
        <5>2. CASE d = "allow"
          BY <3>1, <4>3, <5>1, <5>2 DEF Handle, Log, Ruled, Permitted, TypeOK
        <5>3. CASE d # "allow"
          BY <3>1, <4>1, <4>3, <5>3 DEF Handle, Log, TypeOK, Decisions
        <5> QED BY <5>2, <5>3
      <4> QED BY <4>2, <4>3
    <3>2. ASSUME NEW d \in Decisions, NEW r \in Decisions, NEW ask \in BOOLEAN,
                 Decide(g, id, d, r, ask)
          PROVE  <2>4!1 => <2>4!2
      BY <3>2 DEF Decide, MayRelax, Arrives, FailClosed, Reply, Log, Ruled, Permitted, TypeOK, CallInv, Busy
    <3>3. ASSUME Refuse(g, id) PROVE <2>4!1 => <2>4!2
      BY <3>3 DEF Refuse, Arrives, Reply, Log, TypeOK, CallInv, Busy
    <3> QED BY <1>2, <3>1, <3>2, <3>3 DEF Request
  <2> QED BY <2>1, <2>2, <2>3, <2>4 DEF RulingInv, Permitted, TypeOK
<1>3. ASSUME NEW g \in Gateways, Approve(g) PROVE RulingInv'
  BY <1>3 DEF TypeOK, RulingInv, Permitted, Approve, Log, Busy
<1>4. ASSUME NEW g \in Gateways, Flush(g) \/ Fsync(g) PROVE RulingInv'
  <2>1. cur[g] \in Ids /\ pc[g] \in Busy
    BY <1>4 DEF Flush, Fsync, CallInv, Busy
  <2>2. /\ \/ UNCHANGED answer
           \/ answer' = [answer EXCEPT ![cur[g]] = out[g]]
           \/ answer' = [answer EXCEPT ![cur[g]] = "not_executed"]
        /\ \A h \in Gateways : pc'[h] \in Busy => cur'[h] = cur[h] /\ out'[h] = out[h] /\ pc[h] \in Busy
    BY <1>4, <2>1 DEF TypeOK, Flush, Fsync, Recorded, Unrecorded, Reply, Busy
  <2>3. UNCHANGED <<ruling, relaxed, approved>>
    BY <1>4 DEF Flush, Fsync, requestVars
  <2> QED BY <2>1, <2>2, <2>3 DEF RulingInv, Permitted, TypeOK
<1>5. ASSUME NEW g \in Gateways, Observe(g) \/ Dispatch(g) PROVE RulingInv'
  BY <1>5 DEF TypeOK, RulingInv, Permitted, Observe, Dispatch, Log, Busy, requestVars
<1>6. ASSUME NEW id \in Ids, HostRuns(id) PROVE RulingInv'
  BY <1>6 DEF TypeOK, RulingInv, Permitted, HostRuns, procVars
<1>7. ASSUME PowerLoss \/ Writeback PROVE RulingInv'
  BY <1>7 DEF TypeOK, RulingInv, Permitted, PowerLoss, Writeback, Busy, procVars, requestVars
<1>8. CASE UNCHANGED vars
  BY <1>8 DEF vars, RulingInv, Permitted
<1> QED BY <1>1, <1>2, <1>3, <1>4, <1>5, <1>6, <1>7, <1>8 DEF Next, Step

LEMMA NextRunsAllowed ==
  ASSUME IInv, RulingInv, RunsAllowedOrApproved, [Next]_vars
  PROVE  RunsAllowedOrApproved'
<1> USE DEF IInv
<1>1. ASSUME NEW g \in Gateways, NEW id \in Ids, Request(g, id) PROVE RunsAllowedOrApproved'
  <2>1. /\ owner[id] = None
        /\ \A i \in Ids \ {id} : ruling'[i] = ruling[i] /\ relaxed'[i] = relaxed[i]
        /\ UNCHANGED <<approved, effects>>
    BY <1>1 DEF Request, Handle, Decide, Refuse, Arrives, FailClosed, Ruled, TypeOK
  <2>2. id \notin effects
    BY <2>1 DEF AnswerInv
  <2> QED BY <2>1, <2>2 DEF RunsAllowedOrApproved, TypeOK
<1>2. ASSUME NEW g \in Gateways, Dispatch(g) PROVE RunsAllowedOrApproved'
  <2>1. Permitted(cur[g])
    BY <1>2 DEF Dispatch, CallInv, RulingInv, Busy
  <2> QED BY <1>2, <2>1 DEF Dispatch, Permitted, RunsAllowedOrApproved, requestVars
<1>3. ASSUME NEW id \in Ids, HostRuns(id) PROVE RunsAllowedOrApproved'
  BY <1>3 DEF HostRuns, RulingInv, Permitted, RunsAllowedOrApproved
<1>4. ASSUME UNCHANGED <<effects, ruling, relaxed>>, approved \subseteq approved'
      PROVE  RunsAllowedOrApproved'
  BY <1>4 DEF RunsAllowedOrApproved
<1>5. ASSUME NEW g \in Gateways, Step(g), ~Dispatch(g), \A id \in Ids : ~Request(g, id)
      PROVE  UNCHANGED <<effects, ruling, relaxed>> /\ approved \subseteq approved'
  BY <1>5 DEF Step, Start, Exit, Kill, Approve, Flush, Fsync, Observe, requestVars
<1>6. ASSUME PowerLoss \/ Writeback \/ UNCHANGED vars
      PROVE  UNCHANGED <<effects, ruling, relaxed>> /\ approved \subseteq approved'
  BY <1>6 DEF PowerLoss, Writeback, vars, requestVars
<1> QED BY <1>1, <1>2, <1>3, <1>4, <1>5, <1>6 DEF Next

(* What ran was allowed by the policy, or approved by a human (gateway.py 151). *)
THEOREM PolicyIsKept == Spec => []RunsAllowedOrApproved
<1>1. Init => RulingInv /\ RunsAllowedOrApproved
  BY DEF Init, RulingInv, RunsAllowedOrApproved, Busy
<1>2. /\ IInv /\ RulingInv /\ RunsAllowedOrApproved /\ [Next]_vars
      => RulingInv' /\ RunsAllowedOrApproved'
  BY NextRulingInv, NextRunsAllowed
<1> QED BY <1>1, <1>2, Invariance, PTL DEF Spec

(* An intent that the log knows of a running call is durable, unless it is the
   record just being synced; once its call is answered, it is settled on the disk
   or named on stderr. *)
IntentInv ==
    /\ \A g \in Gateways :
          /\ pc[g] \in Busy
          /\ [id |-> cur[g], out |-> "intent"] \in Known
          => \/ [id |-> cur[g], out |-> "intent"] \in disk
             \/ pc[g] = "fsync" /\ out[g] = "intent"
    /\ \A id \in Ids :
          /\ answer[id] \notin {"none", "closed"}
          /\ [id |-> id, out |-> "intent"] \in Known
          => \/ [id |-> id, out |-> answer[id]] \in disk
             \/ [by |-> owner[id], id |-> id] \in stderr

(* How a call that was logging its record is answered. *)
LEMMA AnswerCases ==
  ASSUME IInv, NEW g \in Gateways, Flush(g) \/ Fsync(g)
  PROVE  /\ stderr \subseteq stderr' /\ UNCHANGED owner
         /\ \/ UNCHANGED answer /\ pc'[g] \in Busy
            \/ /\ pc'[g] = "idle"
               /\ answer' = [answer EXCEPT ![cur[g]] = out[g]]
               /\ [id |-> cur[g], out |-> out[g]] \in disk'
            \/ /\ pc'[g] = "idle"
               /\ answer' = [answer EXCEPT
                                ![cur[g]] = IF out[g] \in Promises THEN "not_executed" ELSE out[g]]
               /\ [by |-> g, id |-> IF NamesAction(g) THEN cur[g] ELSE None] \in stderr'
               /\ UNCHANGED disk
<1> USE DEF IInv
<1>1. pc \in [Gateways -> Steps] /\ pc[g] \in {"flush", "fsync"}
  BY DEF TypeOK, Flush, Fsync
<1>2. ASSUME Unrecorded(g)
      PROVE  /\ stderr \subseteq stderr'
             /\ pc'[g] = "idle"
             /\ answer' = [answer EXCEPT
                              ![cur[g]] = IF out[g] \in Promises THEN "not_executed" ELSE out[g]]
             /\ [by |-> g, id |-> IF NamesAction(g) THEN cur[g] ELSE None] \in stderr'
  BY <1>1, <1>2, Zenon DEF Unrecorded, Poison, Reply
<1>3. ASSUME Synced(g), Recorded(g)
      PROVE  \/ UNCHANGED answer /\ pc'[g] \in Busy
             \/ /\ pc'[g] = "idle"
                /\ answer' = [answer EXCEPT ![cur[g]] = out[g]]
                /\ [id |-> cur[g], out |-> out[g]] \in disk'
  BY <1>1, <1>3 DEF Synced, Recorded, Reply, Entry, Busy
<1>4. UNCHANGED owner
  BY DEF Flush, Fsync, requestVars
<1>5. CASE Flush(g)
  BY <1>1, <1>2, <1>4, <1>5 DEF Flush, Busy
<1>6. CASE Fsync(g)
  BY <1>2, <1>3, <1>4, <1>6 DEF Fsync, storeVars
<1> QED BY <1>5, <1>6

LEMMA NextIntentInv ==
  ASSUME IInv, IntentInv, [Next]_vars
  PROVE  IntentInv'
<1> USE DEF IInv
<1>0. disk \subseteq disk'
  BY NextKnown
<1>1. ASSUME NEW g \in Gateways, Flush(g) \/ Fsync(g) PROVE IntentInv'
  <2>1. /\ cur[g] \in Ids /\ owner[cur[g]] = g /\ answer[cur[g]] = "none"
        /\ pc[g] \in {"flush", "fsync"}
    BY <1>1 DEF Flush, Fsync, CallInv, Busy
  <2>2. Known' \subseteq Known \cup {Entry(g)}
    BY <1>1 DEF TypeOK, Flush, Fsync, Synced, Known, storeVars
  <2>3. \A h \in Gateways \ {g} : pc'[h] = pc[h] /\ cur'[h] = cur[h] /\ out'[h] = out[h]
    BY <1>1 DEF TypeOK, Flush, Fsync, Unrecorded, Recorded, Reply
  <2>4. pc'[g] \in Busy => /\ cur'[g] = cur[g] /\ out'[g] = out[g]
                           /\ \/ pc'[g] = "fsync"
                              \/ out[g] = "intent" /\ Entry(g) \in disk'
    BY <1>1 DEF TypeOK, Flush, Fsync, Unrecorded, Recorded, Reply, Busy, Synced
  <2>5. ASSUME NEW h \in Gateways, pc'[h] \in Busy,
               [id |-> cur'[h], out |-> "intent"] \in Known'
        PROVE  \/ [id |-> cur'[h], out |-> "intent"] \in disk'
               \/ pc'[h] = "fsync" /\ out'[h] = "intent"
    <3>1. CASE h # g
      <4>1. pc[h] \in Busy /\ cur'[h] = cur[h] /\ out'[h] = out[h] /\ pc'[h] = pc[h]
        BY <2>3, <2>5, <3>1
      <4>2. cur[h] # cur[g]
        <5>1. owner[cur[h]] = h
          BY <4>1 DEF CallInv
        <5> QED BY <2>1, <3>1, <5>1
      <4>3. [id |-> cur[h], out |-> "intent"] # Entry(g)
        BY <4>2 DEF Entry
      <4>4. [id |-> cur[h], out |-> "intent"] \in Known
        BY <2>2, <2>5, <4>1, <4>3
      <4> QED BY <1>0, <4>1, <4>4 DEF IntentInv
    <3>2. CASE h = g
      <4>1. cur'[g] = cur[g] /\ out'[g] = out[g] /\ pc[g] \in Busy
        BY <2>1, <2>4, <2>5, <3>2 DEF Busy
      <4>2. CASE out[g] = "intent"
        BY <2>4, <2>5, <3>2, <4>1, <4>2 DEF Entry
      <4>3. CASE out[g] # "intent"
        <5>1. [id |-> cur[g], out |-> "intent"] # Entry(g)
          BY <4>3 DEF Entry
        <5>2. [id |-> cur[g], out |-> "intent"] \in Known
          BY <2>2, <2>5, <3>2, <4>1, <5>1
        <5> QED BY <1>0, <3>2, <4>1, <4>3, <5>2 DEF IntentInv
      <4> QED BY <4>2, <4>3
    <3> QED BY <3>1, <3>2
  <2>6. ASSUME NEW id \in Ids, answer'[id] \notin {"none", "closed"},
               [id |-> id, out |-> "intent"] \in Known'
        PROVE  \/ [id |-> id, out |-> answer'[id]] \in disk'
               \/ [by |-> owner'[id], id |-> id] \in stderr'
    <3>0. stderr \subseteq stderr' /\ owner' = owner /\ answer \in [Ids -> Answers]
      BY <1>1, AnswerCases DEF TypeOK
    <3>1. CASE id # cur[g]
      <4>1. answer'[id] = answer[id]
        BY <1>1, <2>1, <3>0, <3>1, AnswerCases
      <4>2. [id |-> id, out |-> "intent"] # Entry(g)
        BY <3>1 DEF Entry
      <4>3. [id |-> id, out |-> "intent"] \in Known
        BY <2>2, <2>6, <4>2
      <4> QED BY <1>0, <2>6, <3>0, <4>1, <4>3 DEF IntentInv
    <3>2. CASE id = cur[g]
      <4>1. CASE UNCHANGED answer
        BY <2>1, <2>6, <3>2, <4>1
      <4>2. CASE /\ answer' = [answer EXCEPT ![cur[g]] = out[g]]
                 /\ [id |-> cur[g], out |-> out[g]] \in disk'
        BY <2>1, <3>0, <3>2, <4>2
      <4>3. CASE /\ [by |-> g, id |-> IF NamesAction(g) THEN cur[g] ELSE None] \in stderr'
                 /\ UNCHANGED disk
        <5>1. CASE NamesAction(g)
          BY <2>1, <3>0, <3>2, <4>3, <5>1
        <5>2. CASE ~NamesAction(g)
          <6>1. out[g] # "intent" /\ [id |-> cur[g], out |-> "intent"] \notin disk
            BY <5>2 DEF NamesAction
          <6>2. [id |-> cur[g], out |-> "intent"] # Entry(g)
            BY <6>1 DEF Entry
          <6>3. [id |-> cur[g], out |-> "intent"] \in Known
            BY <2>2, <2>6, <3>2, <6>2
          <6> QED BY <2>1, <6>1, <6>3 DEF IntentInv, Busy
        <5> QED BY <5>1, <5>2
      <4> QED BY <1>1, <4>1, <4>2, <4>3, AnswerCases
    <3> QED BY <3>1, <3>2
  <2> QED BY <2>5, <2>6 DEF IntentInv
<1>2. ASSUME ~ \E g \in Gateways : Flush(g) \/ Fsync(g) PROVE IntentInv'
  <2>1. Known' \subseteq Known
    BY <1>2, NextKnown
  <2>2. ASSUME NEW g \in Gateways, NEW id \in Ids, Request(g, id) PROVE IntentInv'
    <3>1. /\ owner[id] = None /\ owner' = [owner EXCEPT ![id] = g]
          /\ answer' = answer \/ answer' = [answer EXCEPT ![id] = "closed"]
          /\ UNCHANGED <<stderr, disk>>
      BY <2>2 DEF Request, Handle, Decide, Refuse, Arrives, FailClosed, Reply, storeVars
    <3>2. /\ \A h \in Gateways \ {g} : pc'[h] = pc[h] /\ cur'[h] = cur[h] /\ out'[h] = out[h]
          /\ pc'[g] \in Busy => cur'[g] = id
      BY <2>2 DEF TypeOK, Request, Handle, Decide, Refuse, FailClosed, Log, Reply, Decisions, Busy
    <3>3. [id |-> id, out |-> "intent"] \notin Known
      BY <3>1 DEF RecordInv, Sure
    <3>4. answer[id] = "none"
      BY <3>1 DEF AnswerInv
    <3>5. ASSUME NEW h \in Gateways, pc'[h] \in Busy,
                 [id |-> cur'[h], out |-> "intent"] \in Known'
          PROVE  \/ [id |-> cur'[h], out |-> "intent"] \in disk'
                 \/ pc'[h] = "fsync" /\ out'[h] = "intent"
      <4>1. h # g
        BY <2>1, <3>2, <3>3, <3>5
      <4> QED BY <2>1, <3>1, <3>2, <3>5, <4>1 DEF IntentInv
    <3>6. ASSUME NEW i \in Ids, answer'[i] \notin {"none", "closed"},
                 [id |-> i, out |-> "intent"] \in Known'
          PROVE  \/ [id |-> i, out |-> answer'[i]] \in disk'
                 \/ [by |-> owner'[i], id |-> i] \in stderr'
      <4>1. i # id
        BY <2>1, <3>3, <3>6
      <4>2. answer'[i] = answer[i] /\ owner'[i] = owner[i]
        BY <3>1, <4>1 DEF TypeOK
      <4> QED BY <2>1, <3>1, <3>6, <4>2 DEF IntentInv
    <3> QED BY <3>5, <3>6 DEF IntentInv
  <2>3. ASSUME UNCHANGED <<answer, stderr, owner>>,
               \A g \in Gateways : pc'[g] \in Busy
                    => /\ pc[g] \in Busy /\ cur'[g] = cur[g]
                       /\ pc[g] = "fsync" => pc'[g] = pc[g] /\ out'[g] = out[g]
        PROVE  IntentInv'
    BY <1>0, <2>1, <2>3 DEF IntentInv
  <2>4. ASSUME NEW g \in Gateways,
               Start(g) \/ Exit(g) \/ Kill(g) \/ Approve(g) \/ Observe(g) \/ Dispatch(g)
        PROVE  /\ UNCHANGED <<answer, stderr, owner>>
               /\ \A h \in Gateways : pc'[h] \in Busy
                    => /\ pc[h] \in Busy /\ cur'[h] = cur[h]
                       /\ pc[h] = "fsync" => pc'[h] = pc[h] /\ out'[h] = out[h]
    BY <2>4 DEF TypeOK, Start, Exit, Kill, Stopped, Approve, Observe, Dispatch, Log, Busy, requestVars
  <2>5. ASSUME PowerLoss \/ Writeback \/ UNCHANGED vars \/ \E id \in Ids : HostRuns(id)
        PROVE  /\ UNCHANGED <<answer, stderr, owner>>
               /\ \A h \in Gateways : pc'[h] \in Busy
                    => /\ pc[h] \in Busy /\ cur'[h] = cur[h]
                       /\ pc[h] = "fsync" => pc'[h] = pc[h] /\ out'[h] = out[h]
    BY <2>5 DEF PowerLoss, Writeback, HostRuns, vars, procVars, requestVars, Busy
  <2> QED BY <1>2, <2>2, <2>3, <2>4, <2>5 DEF Next, Step
<1> QED BY <1>1, <1>2

(* Every answer of a gateway that has a store is on the disk, or its failure went to
   stderr: under its action id if an intent is durable (gateway.py 4, audit.py 56-59). *)
THEOREM NothingUnaccounted == Spec => []AnsweredIsOnRecord
<1>1. Init => AnsweredIsOnRecord /\ IntentInv
  BY DEF Init, AnsweredIsOnRecord, IntentInv, Busy, Known
<1>2. ASSUME IInv, IntentInv, AnsweredIsOnRecord, [Next]_vars
      PROVE  AnsweredIsOnRecord'
  <2> USE DEF IInv
  <2>0. disk \subseteq disk' /\ IntentInv'
    BY <1>2, NextKnown, NextIntentInv
  <2>01. ASSUME NEW id \in Ids, answer'[id] = answer[id], owner'[id] = owner[id],
                stderr \subseteq stderr', answer'[id] \notin {"none", "closed"}
         PROVE  \/ [id |-> id, out |-> answer'[id]] \in disk'
                \/ [by |-> owner'[id], id |-> id] \in stderr'
                \/ /\ answer'[id] = "not_executed"
                   /\ [id |-> id, out |-> "intent"] \notin disk'
                   /\ [by |-> owner'[id], id |-> None] \in stderr'
    <3>1. CASE [id |-> id, out |-> "intent"] \in disk'
      BY <2>0, <2>01, <3>1 DEF IntentInv, Known
    <3>2. CASE [id |-> id, out |-> "intent"] \notin disk'
      BY <1>2, <2>0, <2>01, <3>2 DEF AnsweredIsOnRecord
    <3> QED BY <3>1, <3>2
  <2>1. ASSUME NEW g \in Gateways, Flush(g) \/ Fsync(g) PROVE AnsweredIsOnRecord'
    <3>0. /\ cur[g] \in Ids /\ owner[cur[g]] = g /\ answer[cur[g]] = "none"
          /\ answer \in [Ids -> Answers] /\ out[g] \in Promises \cup Outcomes
          /\ stderr \subseteq stderr' /\ owner' = owner
      <4>1. pc[g] \in Busy
        BY <2>1 DEF Flush, Fsync, Busy
      <4>2. cur[g] \in Ids /\ owner[cur[g]] = g /\ answer[cur[g]] = "none"
        BY <1>2, <4>1 DEF CallInv
      <4>3. answer \in [Ids -> Answers]
        BY <1>2 DEF TypeOK
      <4>4. out[g] \in Promises \cup Outcomes
        BY <1>2, <2>1, <4>1 DEF CallInv, TypeOK, Busy, Flush, Fsync
      <4>5. stderr \subseteq stderr' /\ owner' = owner
        BY <1>2, <2>1, AnswerCases
      <4> QED BY <4>2, <4>3, <4>4, <4>5
    <3>1. ASSUME NEW id \in Ids, answer'[id] \notin {"none", "closed"}, id = cur[g]
          PROVE  \/ [id |-> id, out |-> answer'[id]] \in disk'
                 \/ [by |-> owner'[id], id |-> id] \in stderr'
                 \/ /\ answer'[id] = "not_executed"
                    /\ [id |-> id, out |-> "intent"] \notin disk'
                    /\ [by |-> owner'[id], id |-> None] \in stderr'
      <4>1. CASE UNCHANGED answer
        BY <3>0, <3>1, <4>1
      <4>2. CASE /\ answer' = [answer EXCEPT ![cur[g]] = out[g]]
                 /\ [id |-> cur[g], out |-> out[g]] \in disk'
        BY <3>0, <3>1, <4>2
      <4>3. CASE /\ answer' = [answer EXCEPT
                                  ![cur[g]] = IF out[g] \in Promises THEN "not_executed" ELSE out[g]]
                 /\ [by |-> g, id |-> IF NamesAction(g) THEN cur[g] ELSE None] \in stderr'
                 /\ UNCHANGED disk
        <5>1. CASE NamesAction(g)
          BY <3>0, <3>1, <4>3, <5>1
        <5>2. CASE ~NamesAction(g)
          <6>1. /\ out[g] \in {"delegated", "not_executed"}
                /\ [id |-> cur[g], out |-> "intent"] \notin disk
            BY <3>0, <5>2 DEF NamesAction, Promises, Outcomes
          <6>2. answer'[id] = "not_executed"
            BY <3>0, <3>1, <4>3, <6>1 DEF Promises
          <6> QED BY <3>0, <3>1, <4>3, <5>2, <6>1, <6>2
        <5> QED BY <5>1, <5>2
      <4> QED BY <1>2, <2>1, <4>1, <4>2, <4>3, AnswerCases
    <3>2. ASSUME NEW id \in Ids, id # cur[g] PROVE answer'[id] = answer[id]
      BY <1>2, <2>1, <3>0, <3>2, AnswerCases
    <3> QED BY <2>01, <3>0, <3>1, <3>2 DEF AnsweredIsOnRecord
  <2>2. ASSUME NEW g \in Gateways, NEW id \in Ids, Request(g, id)
        PROVE  AnsweredIsOnRecord'
    <3>1. /\ answer' = answer \/ answer' = [answer EXCEPT ![id] = "closed"]
          /\ owner' = [owner EXCEPT ![id] = g]
          /\ UNCHANGED stderr
          /\ owner[id] = None
      BY <2>2 DEF Request, Handle, Decide, Refuse, Arrives, FailClosed, Reply
    <3>2. answer[id] = "none"
      BY <1>2, <3>1 DEF AnswerInv
    <3>3. \A i \in Ids \ {id} : answer'[i] = answer[i] /\ owner'[i] = owner[i]
      BY <1>2, <3>1 DEF TypeOK
    <3>4. answer'[id] \in {"none", "closed"}
      BY <1>2, <3>1, <3>2 DEF TypeOK
    <3> QED BY <2>01, <3>1, <3>3, <3>4 DEF AnsweredIsOnRecord
  <2>3. ASSUME UNCHANGED <<answer, stderr, owner>> PROVE AnsweredIsOnRecord'
    BY <2>01, <2>3 DEF AnsweredIsOnRecord
  <2>4. ASSUME NEW g \in Gateways, Start(g) \/ Exit(g) \/ Kill(g) \/ Approve(g) \/ Observe(g) \/ Dispatch(g)
        PROVE  UNCHANGED <<answer, stderr, owner>>
    BY <2>4 DEF Start, Exit, Kill, Approve, Observe, Dispatch, requestVars
  <2>5. ASSUME PowerLoss \/ Writeback \/ UNCHANGED vars \/ \E id \in Ids : HostRuns(id)
        PROVE  UNCHANGED <<answer, stderr, owner>>
    BY <2>5 DEF PowerLoss, Writeback, HostRuns, vars, requestVars
  <2> QED BY <1>2, <2>1, <2>2, <2>3, <2>4, <2>5 DEF Next, Step
<1>3. IInv /\ IntentInv /\ [Next]_vars => IntentInv'
  BY NextIntentInv
<1> QED BY <1>1, <1>2, <1>3, Invariance, PTL DEF Spec

-----------------------------------------------------------------------------
(* A poisoned gateway. *)

LEMMA NextBrokenInv ==
  ASSUME IInv, BrokenInv, [Next]_vars
  PROVE  BrokenInv'
<1> USE DEF IInv
<1>1. ASSUME NEW g \in Gateways, Start(g) \/ Exit(g) \/ Kill(g) PROVE BrokenInv'
  <2>1. CASE Start(g)
    <3>1. pc[g] = "down" /\ out[g] = "not_executed"
      BY <2>1 DEF CallInv, Start
    <3> QED BY <2>1, <3>1 DEF TypeOK, BrokenInv, Start
  <2>2. CASE Exit(g) \/ Kill(g)
    BY <2>2 DEF TypeOK, BrokenInv, Exit, Kill, Stopped
  <2> QED BY <1>1, <2>1, <2>2
<1>2. ASSUME NEW g \in Gateways, NEW id \in Ids, Request(g, id) PROVE BrokenInv'
  <2>1. /\ broken' = broken
        /\ \A h \in Gateways \ {g} : pc'[h] = pc[h] /\ out'[h] = out[h]
    BY <1>2 DEF TypeOK, Request, Handle, Decide, Refuse, FailClosed, Reply, Log, Decisions
  <2>2. broken[g] => pc'[g] \in {"idle", "flush"} /\ out'[g] = "not_executed"
    BY <1>2 DEF TypeOK, Request, Handle, Decide, Refuse, Sound, FailClosed, Reply, Log
  <2> QED BY <2>1, <2>2 DEF BrokenInv
<1>3. ASSUME NEW g \in Gateways, Flush(g) \/ Fsync(g) PROVE BrokenInv'
  BY <1>3 DEF TypeOK, BrokenInv, Flush, Fsync, Recorded, Unrecorded, Poison, Reply
<1>4. ASSUME NEW g \in Gateways, Approve(g) \/ Observe(g) \/ Dispatch(g) PROVE BrokenInv'
  BY <1>4 DEF TypeOK, BrokenInv, Approve, Observe, Dispatch, Log
<1>5. ASSUME PowerLoss \/ Writeback \/ UNCHANGED vars \/ \E id \in Ids : HostRuns(id)
      PROVE  BrokenInv'
  BY <1>5 DEF BrokenInv, PowerLoss, Writeback, HostRuns, vars, procVars
<1> QED BY <1>1, <1>2, <1>3, <1>4, <1>5 DEF Next, Step

(* A broken gateway runs and delegates nothing until it is restarted
   (gateway.py 10). *)
THEOREM PoisonIsForGood == Spec => PoisonedStaysPoisoned
<1>1. Init => BrokenInv
  BY DEF Init, BrokenInv
<1>2. IInv /\ BrokenInv /\ [Next]_vars => BrokenInv'
  BY NextBrokenInv
<1>3. ASSUME IInv, BrokenInv, [Next]_vars, NEW g \in Gateways, broken[g]
      PROVE  /\ broken'[g] \/ pc'[g] = "down"
             /\ \A id \in Ids : owner[id] = g =>
                   /\ answer'[id] = answer[id] \/ answer'[id] # "delegated"
                   /\ pc[g] = "dispatch" => id \notin effects' \ effects
  <2> USE DEF IInv
  <2>1. pc[g] \in {"idle", "flush", "fsync"} /\ out[g] = "not_executed"
    BY <1>3 DEF BrokenInv
  <2>2. broken'[g] \/ pc'[g] = "down"
    <3>1. ASSUME NEW h \in Gateways, Step(h) PROVE broken'[g] \/ pc'[g] = "down"
      BY <1>3, <2>1, <3>1 DEF TypeOK, Step, Start, Exit, Kill, Stopped, Request, Handle, Decide,
           Refuse, Approve, Flush, Fsync, Unrecorded, Poison, Observe, Dispatch
    <3> QED BY <1>3, <3>1 DEF Next, HostRuns, PowerLoss, Writeback, vars, procVars
  <2>3. ASSUME NEW id \in Ids, owner[id] = g, answer'[id] # answer[id]
        PROVE  answer'[id] # "delegated"
    <3>1. ASSUME NEW h \in Gateways, Flush(h) \/ Fsync(h) PROVE answer'[id] # "delegated"
      <4>1. cur[h] \in Ids /\ owner[cur[h]] = h
        BY <1>3, <3>1 DEF Flush, Fsync, CallInv, Busy
      <4>2. id = cur[h] /\ h = g
        BY <1>3, <2>3, <3>1, <4>1 DEF Flush, Fsync, Recorded, Unrecorded, Reply, TypeOK
      <4> QED BY <1>3, <2>1, <2>3, <3>1, <4>2 DEF Flush, Fsync, Recorded, Unrecorded, Reply, TypeOK, Promises
    <3>2. ASSUME NEW h \in Gateways, NEW i \in Ids, Request(h, i) PROVE answer'[id] # "delegated"
      BY <1>3, <2>3, <3>2 DEF Request, Handle, Decide, Refuse, FailClosed, Reply, TypeOK
    <3>3. ASSUME NEW h \in Gateways, Step(h), ~Flush(h), ~Fsync(h), \A i \in Ids : ~Request(h, i)
          PROVE  UNCHANGED answer
      BY <3>3 DEF Step, Start, Exit, Kill, Approve, Observe, Dispatch
    <3>4. ASSUME PowerLoss \/ Writeback \/ UNCHANGED vars \/ \E i \in Ids : HostRuns(i)
          PROVE  UNCHANGED answer
      BY <3>4 DEF PowerLoss, Writeback, HostRuns, vars
    <3> QED BY <1>3, <2>3, <3>1, <3>2, <3>3, <3>4 DEF Next
  <2> QED BY <2>1, <2>2, <2>3
<1>4. IInv /\ BrokenInv /\ [Next]_vars
      => [\A g \in Gateways : broken[g] =>
            /\ broken'[g] \/ pc'[g] = "down"
            /\ \A id \in Ids : owner[id] = g =>
                  /\ answer'[id] = answer[id] \/ answer'[id] # "delegated"
                  /\ pc[g] = "dispatch" => id \notin effects' \ effects]_vars
  BY <1>3
<1> QED BY <1>1, <1>2, <1>4, Invariance, PTL DEF Spec, PoisonedStaysPoisoned

-----------------------------------------------------------------------------
(* Refinement. *)

LEMMA SettledKnown == Settled \subseteq Known /\ Settled' \subseteq Known'
  BY DEF Settled, Known

LEMMA CommitStep ==
  ASSUME IInv, IInv', [Next]_vars, UNCHANGED effects
  PROVE  Trail!Commit(Promised', Settled')
<1>1. Promised \subseteq Promised' /\ Settled \subseteq Settled'
  BY NextKnown DEF Promised, Settled
<1>2. ASSUME NEW r \in Settled'
      PROVE  /\ \A s \in Settled \cup Settled' : s.id = r.id => s = r
             /\ r.out \in {"executed", "error"} => r.id \in Promised \cup Promised'
             /\ r.out = "executed" => r.id \in effects
             /\ r.out = "not_executed" => r.id \notin effects
  <2>1. r \in Known' /\ r.out \in Outcomes /\ Sure(r)'
    BY <1>2, SettledKnown DEF IInv, RecordInv, Settled
  <2>2. \A s \in Settled' : s \in Known' /\ s.out \in Outcomes
    BY SettledKnown DEF Settled
  <2>3. \A s \in Settled \cup Settled' : s.id = r.id => s = r
    BY <1>1, <2>1, <2>2 DEF IInv, RecordInv, SettledOnce
  <2> QED BY <2>1, <2>3 DEF Sure
<1> QED BY <1>1, <1>2 DEF Trail!Commit

LEMMA TrailStep ==
  ASSUME IInv, IInv', [Next]_vars
  PROVE  [Trail!Next]_(Trail!trailVars)
<1>1. CASE UNCHANGED effects
  <2>1. Promised' \in SUBSET Ids /\ Settled' \in SUBSET Trail!Settlements
    BY DEF IInv, TypeOK, Records, Promised, Settled, Outcomes, Promises, Trail!Settlements
  <2> QED BY <1>1, <2>1, CommitStep DEF Trail!Next
<1>2. ASSUME NEW g \in Gateways, Dispatch(g) PROVE [Trail!Next]_(Trail!trailVars)
  <2>1. /\ cur[g] \in Ids /\ cur[g] \notin effects /\ pc[g] \in Busy /\ pc[g] = "dispatch"
        /\ [id |-> cur[g], out |-> "intent"] \in disk
    BY <1>2 DEF IInv, CallInv, Dispatch, Busy
  <2>2. cur[g] \in Promised
    BY <2>1 DEF Promised, Promises
  <2>3. \A r \in Settled : r.id # cur[g]
    BY <2>1, SettledKnown DEF IInv, RecordInv, Sure, Settled
  <2>4. Promised' = Promised /\ Settled' = Settled
    BY <1>2 DEF Dispatch, storeVars, Promised, Settled
  <2>5. effects' = effects \/ effects' = effects \cup {cur[g]}
    BY <1>2 DEF Dispatch
  <2> QED BY <2>1, <2>2, <2>3, <2>4, <2>5
          DEF Trail!Next, Trail!Perform, Trail!IsSettled, Trail!trailVars
<1>3. ASSUME NEW id \in Ids, HostRuns(id) PROVE [Trail!Next]_(Trail!trailVars)
  <2>1. answer[id] = "delegated" /\ id \notin effects /\ effects' = effects \cup {id}
    BY <1>3 DEF HostRuns
  <2>2. id \in Promised
    <3>1. [id |-> id, out |-> "delegated"] \in disk
      BY <2>1 DEF IInv, AnswerInv
    <3> QED BY <3>1 DEF Promised, Promises
  <2>3. \A r \in Settled : r.id # id
    BY <2>1, SettledKnown DEF IInv, RecordInv, Sure, Settled
  <2>4. Promised' = Promised /\ Settled' = Settled
    BY <1>3 DEF HostRuns, storeVars, Promised, Settled
  <2> QED BY <2>1, <2>2, <2>3, <2>4 DEF Trail!Next, Trail!Perform, Trail!IsSettled
<1>4. ASSUME NEW g \in Gateways, Step(g), ~Dispatch(g) PROVE UNCHANGED effects
  BY <1>4 DEF Step, Start, Exit, Kill, Request, Handle, Decide, Refuse, Approve,
              Flush, Fsync, Observe
<1>5. ASSUME PowerLoss \/ Writeback \/ UNCHANGED vars PROVE UNCHANGED effects
  BY <1>5 DEF PowerLoss, Writeback, vars
<1> QED BY <1>1, <1>2, <1>3, <1>4, <1>5 DEF Next

(* The gateways implement the abstract audit trail: promises come first, an
   action happens at most once, and never after the trail settled it. *)
THEOREM GatewayImplementsTrail == Spec => ImplementsTrail
<1>1. Init => Trail!Init
  BY DEF Init, Trail!Init, Promised, Settled
<1>2. IInv /\ IInv' /\ [Next]_vars => [Trail!Next]_(Trail!trailVars)
  BY TrailStep
<1> QED BY <1>1, <1>2, Invariance, PTL DEF Spec, ImplementsTrail, Trail!TrailSpec

-----------------------------------------------------------------------------
(* The credentials that an executor behind the gateway mints and uses: Broker, for any users,
   servers, scopes, policies, numbers of agents and token lifetimes.  The invariant says of a
   token what the exchange checked: it is one rule's scope, on that rule's server, inside the
   consent it was minted under.  Introspection need not look at that consent, because a token
   never changes. *)
Least(t) ==
    /\ \E r \in Rules : t.aud = r.aud /\ t.scope = {r.scope}
    /\ t.scope \subseteq t.under[t.aud]
    /\ t.exp = t.at + TTL
    /\ t.at <= now

TokenInv ==
    /\ \A t \in tokens : Least(t)
    /\ \A a \in Agents : hand[a] # NoGrant => hand[a].token \in tokens

CredsInv == BrokerTypeOK /\ TokenInv /\ CallsWereConsented /\ CallsWithinPolicy

-----------------------------------------------------------------------------
LEMMA InitCredsInv == BrokerInit => CredsInv
  BY DEF BrokerInit, CredsInv, BrokerTypeOK, TokenInv, CallsWereConsented,
         CallsWithinPolicy

LEMMA MintedIsLeast ==
  ASSUME CredsInv,
         NEW jti \in Jtis, NEW s \in Subjects, NEW r \in Rules, Exchangeable(s, r)
  PROVE  Minted(jti, s, r) \in Tokens /\ Least(Minted(jti, s, r))
<1>1. grants[s] \in Consents /\ now \in Nat /\ r \in OpRecords /\ TTL \in Nat
  BY BrokerAssumption DEF CredsInv, BrokerTypeOK, Exchangeable, Active
<1>2. r.aud \in Audiences /\ r.scope \in Scopes
  BY <1>1 DEF OpRecords
<1>3. Minted(jti, s, r) \in Tokens
  BY <1>1, <1>2 DEF Minted, Tokens, Consents
<1>4. Least(Minted(jti, s, r))
  BY <1>1, <1>2 DEF Minted, Least, Exchangeable
<1> QED BY <1>3, <1>4

(* What a server accepts lies in the token it was shown. *)
LEMMA AcceptedIsConsented ==
  ASSUME CredsInv,
         NEW t \in tokens, NEW o \in ApiOps, Accepts(t, o), UNCHANGED <<tokens, now>>
  PROVE  calls' \subseteq Calls /\ CallsWereConsented' /\ CallsWithinPolicy'
<1>1. t \in Tokens /\ o \in OpRecords /\ now \in Nat /\ Least(t)
  BY BrokerAssumption DEF CredsInv, BrokerTypeOK, TokenInv
<1> DEFINE c == [jti |-> t.jti, sub |-> t.sub, aud |-> o.aud, op |-> o.op,
                 scope |-> o.scope, at |-> now]
<1>2. CASE UNCHANGED calls
  BY <1>2 DEF CredsInv, BrokerTypeOK, CallsWereConsented, CallsWithinPolicy
<1>3. CASE Introspect(t, o) /\ calls' = calls \cup {c}
  <2>1. c \in Calls
    BY <1>1 DEF Calls, Tokens, OpRecords
  <2>2. /\ c.scope \in t.under[c.aud]
        /\ t.at <= c.at /\ c.at < t.at + TTL
    BY <1>1, <1>3 DEF Introspect, Least, Tokens
  <2>3. \E r \in Rules : r.aud = c.aud /\ r.scope = c.scope
    BY <1>1, <1>3 DEF Introspect, Least
  <2> HIDE DEF c
  <2>4. c.jti = t.jti /\ c.sub = t.sub
    BY DEF c
  <2> QED BY <1>3, <2>1, <2>2, <2>3, <2>4
          DEF CredsInv, BrokerTypeOK, CallsWereConsented, CallsWithinPolicy
<1> QED BY <1>2, <1>3 DEF Accepts

LEMMA NextCredsInv ==
  ASSUME CredsInv, [BrokerNext]_credentials
  PROVE  CredsInv'
<1> USE DEF CredsInv
<1>1. ASSUME NEW s \in Subjects, NEW c \in Offers, Delegate(s, c) PROVE CredsInv'
  BY <1>1, BrokerAssumption
        DEF Delegate, BrokerTypeOK, TokenInv, Least, CallsWereConsented,
            CallsWithinPolicy
<1>2. ASSUME NEW s \in Subjects, Revoke(s) PROVE CredsInv'
  <2>1. \A t \in tokens : t.jti \in Jtis
    BY DEF BrokerTypeOK, Tokens
  <2> QED BY <1>2, <2>1
          DEF Revoke, BrokerTypeOK, TokenInv, Least, CallsWereConsented,
              CallsWithinPolicy
<1>3. ASSUME NEW a \in Agents, NEW s \in Subjects, NEW r \in Rules, NEW jti \in Jtis,
             Exchange(a, s, r, jti)
      PROVE  CredsInv'
  <2>1. PICK t : t = Minted(jti, s, r)
    OBVIOUS
  <2>2. t \in Tokens /\ Least(t)
    BY <1>3, <2>1, MintedIsLeast DEF Exchange
  <2>3. /\ tokens' = tokens \cup {t}
        /\ hand' = [hand EXCEPT ![a] = [token |-> t, rule |-> r]]
        /\ UNCHANGED <<grants, revoked, calls, now>>
    BY <1>3, <2>1 DEF Exchange
  <2>4. BrokerTypeOK'
    BY <2>2, <2>3 DEF BrokerTypeOK
  <2>5. TokenInv'
    BY <2>2, <2>3 DEF BrokerTypeOK, TokenInv, Least
  <2> QED BY <2>3, <2>4, <2>5 DEF CallsWereConsented, CallsWithinPolicy
<1>4. ASSUME NEW a \in Agents, Use(a) PROVE CredsInv'
  <2>1. UNCHANGED <<grants, revoked, tokens, now>> /\ hand' = [hand EXCEPT ![a] = NoGrant]
    BY <1>4 DEF Use
  <2>2. calls' \subseteq Calls /\ CallsWereConsented' /\ CallsWithinPolicy'
    <3>1. CASE UNCHANGED calls
      BY <2>1, <3>1 DEF BrokerTypeOK, CallsWereConsented, CallsWithinPolicy
    <3>2. ASSUME NEW o \in ApiOps, Accepts(hand[a].token, o)
          PROVE  calls' \subseteq Calls /\ CallsWereConsented' /\ CallsWithinPolicy'
      BY <1>4, <2>1, <3>2, AcceptedIsConsented DEF Use, TokenInv
    <3> QED BY <1>4, <3>1, <3>2 DEF Use
  <2>3. BrokerTypeOK' /\ TokenInv'
    BY <2>1, <2>2 DEF BrokerTypeOK, TokenInv, Least
  <2> QED BY <2>2, <2>3
<1>5. ASSUME NEW t \in tokens, NEW o \in ApiOps, Present(t, o) PROVE CredsInv'
  <2>1. UNCHANGED <<grants, revoked, tokens, hand, now>>
    BY <1>5 DEF Present
  <2>2. calls' \subseteq Calls /\ CallsWereConsented' /\ CallsWithinPolicy'
    BY <1>5, <2>1, AcceptedIsConsented DEF Present
  <2> QED BY <2>1, <2>2 DEF BrokerTypeOK, TokenInv, Least
<1>6. ASSUME Tick PROVE CredsInv'
  <2>1. \A t \in tokens : t.at \in Nat
    BY DEF BrokerTypeOK, Tokens
  <2> QED BY <1>6, <2>1
          DEF Tick, BrokerTypeOK, TokenInv, Least, CallsWereConsented,
              CallsWithinPolicy
<1>7. CASE UNCHANGED credentials
  BY <1>7
     DEF credentials, BrokerTypeOK, TokenInv, Least, CallsWereConsented,
         CallsWithinPolicy
<1> QED BY <1>1, <1>2, <1>3, <1>4, <1>5, <1>6, <1>7 DEF BrokerNext

(* CredsInv holds in every state of every behaviour. *)
THEOREM CredsInvariance == BrokerSpec => []CredsInv
<1>1. CredsInv /\ [BrokerNext]_credentials => CredsInv'
  BY NextCredsInv
<1> QED BY <1>1, InitCredsInv, PTL DEF BrokerSpec

(* Every variable keeps its type. *)
THEOREM CredsTypeCorrect == BrokerSpec => []BrokerTypeOK
<1>1. CredsInv => BrokerTypeOK
  BY DEF CredsInv
<1> QED BY <1>1, CredsInvariance, PTL

(* Whoever presents which token where, a call lies in the consent its token was
   minted under, and within the token's life (credentials.py 83-121). *)
THEOREM ConsentIsKept == BrokerSpec => []CallsWereConsented
<1>1. CredsInv => CallsWereConsented
  BY DEF CredsInv
<1> QED BY <1>1, CredsInvariance, PTL

(* A token is never worth more than one rule of the policy (executor.py 105). *)
THEOREM PolicyBoundsTokens == BrokerSpec => []CallsWithinPolicy
<1>1. CredsInv => CallsWithinPolicy
  BY DEF CredsInv
<1> QED BY <1>1, CredsInvariance, PTL

(* Nothing is minted or done for a user whose grant stands revoked
   (credentials.py 76). *)
THEOREM RevocationStops == BrokerSpec => RevocationHolds
<1>1. ASSUME CredsInv, [BrokerNext]_credentials, NEW s \in Subjects, ~Active(s)
      PROVE  /\ \A t \in tokens' \ tokens : t.sub # s
             /\ \A c \in calls' \ calls : c.sub # s
  <2>1. ASSUME NEW a \in Agents, NEW i \in Subjects, NEW r \in Rules, NEW jti \in Jtis,
               Exchange(a, i, r, jti)
        PROVE  UNCHANGED calls /\ \A t \in tokens' \ tokens : t.sub # s
    BY <1>1, <2>1 DEF Exchange, Exchangeable, Minted
  <2>2. ASSUME NEW t, NEW o \in ApiOps, Accepts(t, o)
        PROVE  \A c \in calls' \ calls : c.sub # s
    BY <1>1, <2>2 DEF Accepts, Introspect
  <2>3. ASSUME NEW a \in Agents, Use(a)
        PROVE  UNCHANGED tokens /\ \A c \in calls' \ calls : c.sub # s
    BY <2>2, <2>3 DEF Use
  <2>4. ASSUME NEW t \in tokens, NEW o \in ApiOps, Present(t, o)
        PROVE  UNCHANGED tokens /\ \A c \in calls' \ calls : c.sub # s
    BY <2>2, <2>4 DEF Present
  <2>5. ASSUME \/ \E i \in Subjects, c \in Offers : Delegate(i, c)
               \/ \E i \in Subjects : Revoke(i)
               \/ Tick \/ UNCHANGED credentials
        PROVE  UNCHANGED <<tokens, calls>>
    BY <2>5 DEF Delegate, Revoke, Tick, credentials
  <2> QED BY <1>1, <2>1, <2>3, <2>4, <2>5 DEF BrokerNext
<1>2. CredsInv /\ [BrokerNext]_credentials
      => [\A s \in Subjects : ~Active(s) =>
            /\ \A t \in tokens' \ tokens : t.sub # s
            /\ \A c \in calls' \ calls : c.sub # s]_credentials
  BY <1>1
<1> QED BY <1>2, CredsInvariance, PTL DEF BrokerSpec, RevocationHolds
=============================================================================
