---------------------------- MODULE HookSessionProofs ----------------------------
(***************************************************************************)
(* TypeOK, TaintIsKept, RelaxStops, AnswerRecorded and AskMeansYes of      *)
(* HookSession, for any calls, sessions, modes and troubles.               *)
(*                                                                         *)
(* A call that is over does nothing any more (Settled), so what holds of   *)
(* it and of the files when a later call begins is all that matters: the   *)
(* store tells of its taint (Kept), or the trace does.  The later call     *)
(* reads both before its first decision, and until then it has let nothing *)
(* pass (Quiet); from then on it carries the taint itself (Bound, Known),  *)
(* or is not relaxed (Strict).                                             *)
(*                                                                         *)
(* The second invariant, RInv, follows one call through the loop over its  *)
(* requests: those decided so far are on record and not blocked            *)
(* (Recorded), and what asks is not forgotten on the way to the answer     *)
(* (Answered).                                                             *)
(***************************************************************************)
EXTENDS HookSession, TLAPS

Early == {"new", "open", "taint"}
Deciding == {"relax", "decide", "observe", "remember"}

-----------------------------------------------------------------------------
(* The inductive invariant, of one call. *)

(* There is a request left to decide, and a decision to observe. *)
Counted(c) ==
    /\ pc[c] \in {"new", "open"} => done[c] = 0
    /\ pc[c] \in {"taint", "relax", "decide"} => done[c] < size[c]
    /\ pc[c] = "observe" => last[c] \in Records

(* Nothing is known before the store is read. *)
Fresh(c) == pc[c] \in Early => ~tainted[c] /\ ~before[c] /\ ~relax[c]

(* Who has its answer, or ran, is over. *)
Settled(c) == answer[c] # "none" \/ post[c] # "none" => pc[c] = "over"

(* What was known at the start is in the store, but for who could not read it, and
   forbids to relax. *)
Known(c) ==
    before[c] => /\ session[c] # NoSession /\ ~relax[c]
                 /\ StoreTaints(session[c]) \/ c \in unread

(* Who came to a verdict left its taint in the store. *)
Kept(c) ==
    /\ ending[c] = "judged" /\ pc[c] \in {"answer", "over"}
    /\ tainted[c] /\ session[c] # NoSession
    => StoreTaints(session[c]) \/ c \in unread

(* Nothing has passed, and nothing is relaxed, before the first decision. *)
Quiet(c) ==
    pc[c] \in Early \cup {"relax"} =>
        ~relax[c] /\ \A r \in audit : r.call = c => r.decision = "block"

Local(c) == Counted(c) /\ Fresh(c) /\ Settled(c) /\ Known(c) /\ Kept(c) /\ Quiet(c)

(* Of two calls. *)
Later(c, d) == c \in after[d] => pc[c] = "over" /\ pc[d] # "new"

Bound(c, d) ==
    ReachedBefore(c, d) /\ ending[c] = "judged" /\ c \notin unread =>
        /\ OnlyHarmless(d)
        /\ pc[d] \in Deciding => before[d] /\ tainted[d]

Noted(c) == \E o \in trace \cap Observations : o.call = c /\ o.session = session[c] /\ o.tainted

Strict(c, d) ==
    c \in after[d] /\ SameSession(c, d) /\ Noted(c) =>
        /\ ~relax[d]
        /\ \A r \in audit : r.call = d => r.decision # "learn_ask"

Pair(c, d) == Later(c, d) /\ Bound(c, d) /\ Strict(c, d)

IInv ==
    /\ TypeOK
    /\ \A c \in Calls : Local(c)
    /\ \A c, d \in Calls : Pair(c, d)

-----------------------------------------------------------------------------
LEMMA InitIInv == Init => IInv
<1> SUFFICES ASSUME Init PROVE IInv
  OBVIOUS
<1>1. TypeOK
  <2>1. 0 \in 0..MaxRequests /\ 0 \in 0..MaxTroubles
    BY HookAssumption
  <2> QED BY <2>1 DEF Init, TypeOK, PcValues, Working
<1>2. \A c \in Calls : Local(c)
  BY DEF Init, Local, Counted, Fresh, Settled, Known, Kept, Quiet, Early
<1>3. \A c, d \in Calls : Pair(c, d)
  BY DEF Init, Pair, Later, Bound, Strict, ReachedBefore
<1> QED BY <1>1, <1>2, <1>3 DEF IInv

(* What a step of the processes of x leaves to the other calls. *)
Frame(x) ==
    /\ \A e \in Calls \ {x} :
          /\ pc'[e] = pc[e] /\ session'[e] = session[e] /\ size'[e] = size[e]
          /\ done'[e] = done[e] /\ tainted'[e] = tainted[e] /\ before'[e] = before[e]
          /\ relax'[e] = relax[e] /\ last'[e] = last[e]
          /\ ending'[e] = ending[e] /\ answer'[e] = answer[e] /\ after'[e] = after[e]
          /\ post'[e] = post[e]
    /\ \A r \in audit' : r \in audit \/ r.call = x
    /\ \A o \in trace' \cap Observations : o \in trace \/ (o.call = x /\ pc[x] # "over")
    /\ \A s \in Sessions : store[s] > 0 => store'[s] > 0
    /\ torn \subseteq torn' /\ unread \subseteq unread'
    /\ pc[x] = "over" => /\ pc'[x] = "over" /\ session'[x] = session[x]
                         /\ tainted'[x] = tainted[x] /\ ending'[x] = ending[x]

LEMMA FrameKeeps ==
  ASSUME IInv, NEW x \in Calls, Frame(x), Local(x)', \A c \in Calls : Pair(c, x)'
  PROVE  (\A c \in Calls : Local(c)') /\ (\A c, d \in Calls : Pair(c, d)')
<1>1. ASSUME NEW e \in Calls, e # x PROVE Local(e)'
  <2>1. Local(e) /\ session[e] \in Sessions \cup {NoSession}
    BY DEF IInv, TypeOK
  <2>2. Counted(e)' /\ Fresh(e)' /\ Settled(e)'
    BY <1>1, <2>1 DEF Frame, Local, Counted, Fresh, Settled, Records
  <2>3. session[e] # NoSession /\ StoreTaints(session[e]) => StoreTaints(session[e])'
    BY <1>1, <2>1 DEF Frame, StoreTaints
  <2>4. Known(e)' /\ Kept(e)'
    BY <1>1, <2>1, <2>3 DEF Frame, Local, Known, Kept, StoreTaints
  <2>5. Quiet(e)'
    BY <1>1, <2>1 DEF Frame, Local, Quiet
  <2> QED BY <2>2, <2>4, <2>5 DEF Local
<1>2. ASSUME NEW c \in Calls, NEW d \in Calls, d # x PROVE Pair(c, d)'
  <2>1. Pair(c, d)
    BY DEF IInv
  <2>2. after'[d] = after[d] /\ pc'[d] = pc[d]
    BY <1>2 DEF Frame
  <2>3. Later(c, d)'
    BY <1>2, <2>1, <2>2 DEF Frame, Pair, Later
  <2>4. c \in after[d] => /\ session'[c] = session[c] /\ tainted'[c] = tainted[c]
                          /\ ending'[c] = ending[c] /\ (Noted(c)' => Noted(c))
    BY <2>1 DEF Frame, Pair, Later, Noted
  <2>5. OnlyHarmless(d) => OnlyHarmless(d)'
    BY <1>2 DEF Frame, OnlyHarmless
  <2>6. Bound(c, d)'
    BY <1>2, <2>1, <2>2, <2>4, <2>5 DEF Frame, Pair, Bound, ReachedBefore, SameSession
  <2>7. Strict(c, d)'
    BY <1>2, <2>1, <2>2, <2>4 DEF Frame, Pair, Strict, SameSession
  <2> QED BY <2>3, <2>6, <2>7 DEF Pair
<1> QED BY <1>1, <1>2

LEMMA RefusalType ==
  ASSUME NEW x \in Calls
  PROVE  Refusal(x) \in Records
<1>1. 0 \in 0..MaxRequests
  BY HookAssumption
<1> QED BY <1>1 DEF Refusal, Records, Decisions

LEMMA ObservationType ==
  ASSUME TypeOK, NEW x \in Calls, NEW r \in Records, NEW s \in Sessions \cup {NoSession}
  PROVE  Observation(x, r, s) \in Observations
<1>1. r.n \in 0..MaxRequests /\ r.decision \in Decisions /\ tainted[x] \in BOOLEAN
  BY DEF TypeOK, Records
<1> QED BY <1>1 DEF Observation, Observations

(* A step of x that decides nothing. *)
Undeciding(x) ==
    /\ pc'[x] # "new" /\ after'[x] = after[x] /\ session'[x] = session[x]
    /\ pc'[x] \in Deciding => pc[x] \in Deciding
    /\ tainted'[x] = tainted[x] /\ before'[x] = before[x]
    /\ (relax'[x] => relax[x])
    /\ \A r \in audit' : r \in audit \/ r.decision = "block"

LEMMA PairKeeps ==
  ASSUME IInv, NEW x \in Calls, Frame(x), Undeciding(x), NEW c \in Calls
  PROVE  Pair(c, x)'
<1>1. Pair(c, x)
  BY DEF IInv
<1>2. Later(c, x)'
  BY <1>1 DEF Frame, Undeciding, Pair, Later
<1>3. c \in after[x] => /\ session'[c] = session[c] /\ tainted'[c] = tainted[c]
                        /\ ending'[c] = ending[c] /\ (Noted(c)' => Noted(c))
  BY <1>1 DEF Frame, Pair, Later, Noted
<1>4. Bound(c, x)'
  BY <1>1, <1>3 DEF Frame, Undeciding, Pair, Bound, ReachedBefore, SameSession, OnlyHarmless
<1>5. Strict(c, x)'
  BY <1>1, <1>3 DEF Undeciding, Pair, Strict, SameSession
<1> QED BY <1>2, <1>4, <1>5 DEF Pair

LEMMA RanIsNoObservation == \A o \in RanRecords : o \notin Observations
<1> SUFFICES ASSUME NEW o \in RanRecords, o \in Observations PROVE FALSE
  OBVIOUS
<1>1. DOMAIN o = {"call", "ran"}
  BY DEF RanRecords
<1>2. "n" \in DOMAIN o
  BY DEF Observations
<1> QED BY <1>1, <1>2

LEMMA OpenKeeps ==
  ASSUME IInv, NEW x \in Calls, Open(x)
  PROVE  IInv'
<1>1. TypeOK'
  <2>1. troubles' \in 0..MaxTroubles
    BY HookAssumption DEF IInv, TypeOK, Open, Smooth, Trouble, Refuse, TraceFails
  <2>2. session[x] \in Sessions \cup {NoSession} /\ Refusal(x) \in Records
    BY RefusalType DEF IInv, TypeOK
  <2>3. Observation(x, Refusal(x), session[x]) \in Observations
    BY <2>2, ObservationType DEF IInv
  <2>4. audit' \subseteq Records /\ trace' \subseteq Observations \cup RanRecords
    BY <2>2, <2>3 DEF IInv, TypeOK, Open, Refuse, TraceFails
  <2>5. approval' \in [Calls -> {"delegate", "deny"}] /\ torn' \subseteq {"store", "trace"}
    <3>1. approval' \in [Calls -> {"delegate", "deny"}]
      BY DEF IInv, TypeOK, Open
    <3>2. torn' \in {torn, torn \cup {"trace"}}
      BY DEF Open, Refuse, TraceFails
    <3> QED BY <3>1, <3>2 DEF IInv, TypeOK
  <2>6. size' \in [Calls -> 0..MaxRequests]
    <3>1. \A n \in 1..MaxRequests : n \in 0..MaxRequests
      BY HookAssumption
    <3> QED BY <3>1 DEF IInv, TypeOK, Open
  <2>7. /\ pc' \in [Calls -> PcValues]
        /\ verdict' \in [Calls -> {"none", "allow", "ask", "deny"}]
        /\ ending' \in [Calls -> {"none", "judged", "failed", "deadline", "cancelled"}]
    <3>1. pc' \in [Calls -> PcValues]
      BY DEF IInv, TypeOK, Open, Goes, PcValues, Working
    <3>2. \/ UNCHANGED <<verdict, ending>>
          \/ \E v \in {"allow", "ask", "deny"}, how \in {"judged", "failed"} :
                Concludes(x, v, how)
      BY DEF Open, Pending
    <3> QED BY <3>1, <3>2, SMTT(30) DEF IInv, TypeOK, Concludes
  <2>8. UNCHANGED <<session, done, tainted, before, relax, last, asks, answer, approved, ran,
                    post, postAnswer, store, after, unread, learn>>
    BY DEF Open, hostVars
  <2> QED BY <2>1, <2>4, <2>5, <2>6, <2>7, <2>8 DEF IInv, TypeOK
<1>2. Frame(x)
  BY DEF IInv, TypeOK, Frame, Open, Refuse, TraceFails, Refusal, Observation, Goes, Concludes, Pending,
     Smooth, Trouble, localVars, hostVars
<1>3. Local(x)'
  BY DEF IInv, TypeOK, Local, Counted, Fresh, Settled, Known, Kept, Quiet, StoreTaints,
     Early, Open, Refuse, TraceFails, Refusal, Observation, Goes, Concludes, Pending, Smooth, Trouble,
     localVars, hostVars
<1>4. ASSUME NEW c \in Calls PROVE Pair(c, x)'
  <2>1. Undeciding(x)
    BY DEF IInv, TypeOK, Undeciding, Deciding, Local, Settled, Open, Refuse, TraceFails, Refusal,
       Observation, Goes, Concludes, Pending, Smooth, Trouble, localVars, hostVars
  <2> QED BY <1>2, <2>1, PairKeeps
<1> QED BY <1>1, <1>2, <1>3, <1>4, FrameKeeps DEF IInv

LEMMA ObserveKeeps ==
  ASSUME IInv, NEW x \in Calls, Observe(x)
  PROVE  IInv'
<1>1. TypeOK'
  <2>1. troubles' \in 0..MaxTroubles
    BY HookAssumption DEF IInv, TypeOK, Observe, Smooth, Trouble
  <2>2. last[x] \in Records /\ session[x] \in Sessions \cup {NoSession} /\ asks[x] \in BOOLEAN
    BY DEF IInv, TypeOK, Local, Counted, Observe, Judge, Goes
  <2>3. \A s \in {session[x], NoSession} : Observation(x, last[x], s) \in Observations
    BY <2>2, ObservationType DEF IInv
  <2>4. trace' \subseteq Observations \cup RanRecords
    BY <2>2, <2>3 DEF IInv, TypeOK, Observe, TraceFails
  <2>5. Asked(x) \in BOOLEAN
    BY <2>2 DEF Asked
  <2>6. asks' \in [Calls -> BOOLEAN]
    BY <2>5 DEF IInv, TypeOK, Observe, Judge
  <2>7. torn' \subseteq {"store", "trace"}
    BY ZenonT(60) DEF IInv, TypeOK, Observe, TraceFails
  <2>8. /\ pc' \in [Calls -> PcValues]
        /\ verdict' \in [Calls -> {"none", "allow", "ask", "deny"}]
        /\ ending' \in [Calls -> {"none", "judged", "failed", "deadline", "cancelled"}]
    <3>1. pc' \in [Calls -> PcValues]
      BY DEF IInv, TypeOK, Observe, Judge, Goes, PcValues, Working
    <3>2. \/ UNCHANGED <<verdict, ending>>
          \/ \E v \in {"allow", "ask", "deny"}, how \in {"judged", "failed"} :
                Concludes(x, v, how)
      BY DEF Observe, Judge, Pending
    <3> QED BY <3>1, <3>2, SMTT(30) DEF IInv, TypeOK, Concludes
  <2>9. UNCHANGED <<session, approval, size, done, tainted, before, relax, last, answer,
                    approved, ran, post, postAnswer, audit, store, after, unread, learn>>
    BY DEF Observe, hostVars
  <2> QED BY <2>1, <2>4, <2>6, <2>7, <2>8, <2>9 DEF IInv, TypeOK
<1>2. Frame(x)
  BY DEF IInv, TypeOK, Frame, Observe, TraceFails, Judge, Asked, Observation, Goes, Concludes, Pending,
     Smooth, Trouble, hostVars
<1>3. Local(x)'
  BY DEF IInv, TypeOK, Local, Counted, Fresh, Settled, Known, Kept, Quiet, StoreTaints,
     Early, Observe, TraceFails, Judge, Asked, Observation, Goes, Concludes, Pending, Smooth, Trouble,
     hostVars
<1>4. ASSUME NEW c \in Calls PROVE Pair(c, x)'
  <2>1. Undeciding(x)
    BY DEF IInv, TypeOK, Undeciding, Deciding, Local, Settled, Observe, TraceFails, Judge, Asked,
       Observation, Goes, Concludes, Pending, Smooth, Trouble, hostVars
  <2> QED BY <1>2, <2>1, PairKeeps
<1> QED BY <1>1, <1>2, <1>3, <1>4, FrameKeeps DEF IInv

LEMMA RememberKeeps ==
  ASSUME IInv, NEW x \in Calls, Remember(x)
  PROVE  IInv'
<1>1. TypeOK'
  <2>1. troubles' \in 0..MaxTroubles
    BY HookAssumption DEF IInv, TypeOK, Remember, Smooth, Trouble
  <2>2. NewTaint(x) => session[x] \in Sessions /\ store[session[x]] + 1 \in Nat
    BY DEF IInv, TypeOK, NewTaint
  <2>3. store' \in [Sessions -> Nat]
    BY <2>2 DEF IInv, TypeOK, Remember
  <2>4. torn' \subseteq {"store", "trace"}
    BY DEF IInv, TypeOK, Remember
  <2>5. /\ pc' \in [Calls -> PcValues]
        /\ verdict' \in [Calls -> {"none", "allow", "ask", "deny"}]
        /\ ending' \in [Calls -> {"none", "judged", "failed", "deadline", "cancelled"}]
    BY SMTT(30) DEF IInv, TypeOK, Remember, Goes, Concludes, Pending, PcValues, Working
  <2>6. UNCHANGED <<localVars, answer, hostVars, audit, trace, after, unread, learn>>
    BY DEF Remember
  <2> QED BY <2>1, <2>3, <2>4, <2>5, <2>6 DEF IInv, TypeOK, localVars, hostVars
<1>2. Frame(x)
  BY DEF IInv, TypeOK, Frame, Remember, NewTaint, Goes, Concludes, Pending, Smooth, Trouble,
     localVars, hostVars
<1>3. Local(x)'
  BY DEF IInv, TypeOK, Local, Counted, Fresh, Settled, Known, Kept, Quiet, StoreTaints,
     Early, Remember, NewTaint, Goes, Concludes, Pending, Smooth, Trouble, localVars,
     hostVars
<1>4. ASSUME NEW c \in Calls PROVE Pair(c, x)'
  <2>1. Undeciding(x)
    BY DEF IInv, TypeOK, Undeciding, Deciding, Local, Settled, Remember, NewTaint, Goes,
       Concludes, Pending, Smooth, Trouble, localVars, hostVars
  <2> QED BY <1>2, <2>1, PairKeeps
<1> QED BY <1>1, <1>2, <1>3, <1>4, FrameKeeps DEF IInv

LEMMA DeadlineKeeps ==
  ASSUME IInv, NEW x \in Calls, Deadline(x)
  PROVE  IInv'
<1>1. TypeOK'
  <2>1. troubles' \in 0..MaxTroubles
    BY HookAssumption DEF IInv, TypeOK, Deadline, Trouble
  <2> QED BY <2>1 DEF IInv, TypeOK, PcValues, Deadline, Working, Concludes, localVars,
     hostVars, fileVars
<1>2. Frame(x)
  BY DEF IInv, TypeOK, Frame, Deadline, Working, Concludes, Trouble, localVars, hostVars,
     fileVars
<1>3. Local(x)'
  BY DEF IInv, TypeOK, Local, Counted, Fresh, Settled, Known, Kept, Quiet, StoreTaints,
     Early, Deadline, Working, Concludes, Trouble, localVars, hostVars, fileVars
<1>4. ASSUME NEW c \in Calls PROVE Pair(c, x)'
  <2>1. Undeciding(x)
    BY DEF IInv, TypeOK, Undeciding, Deciding, Local, Settled, Deadline, Working, Concludes,
       Trouble, localVars, hostVars, fileVars
  <2> QED BY <1>2, <2>1, PairKeeps
<1> QED BY <1>1, <1>2, <1>3, <1>4, FrameKeeps DEF IInv

LEMMA AnswerKeeps ==
  ASSUME IInv, NEW x \in Calls, Answer(x)
  PROVE  IInv'
<1>1. TypeOK'
  <2>1. troubles' \in 0..MaxTroubles
    BY HookAssumption DEF IInv, TypeOK, Answer
  <2> QED BY <2>1 DEF IInv, TypeOK, PcValues, Working, Answer, Goes, Ends, hostVars,
     fileVars
<1>2. Frame(x)
  BY DEF IInv, TypeOK, Frame, Answer, Goes, Ends, hostVars, fileVars
<1>3. Local(x)'
  BY DEF IInv, TypeOK, Local, Counted, Fresh, Settled, Known, Kept, Quiet, StoreTaints,
     Early, Answer, Goes, Ends, hostVars, fileVars
<1>4. ASSUME NEW c \in Calls PROVE Pair(c, x)'
  <2>1. Undeciding(x)
    BY DEF IInv, TypeOK, Undeciding, Deciding, Local, Settled, Answer, Goes, Ends,
       hostVars, fileVars
  <2> QED BY <1>2, <2>1, PairKeeps
<1> QED BY <1>1, <1>2, <1>3, <1>4, FrameKeeps DEF IInv

LEMMA CancelKeeps ==
  ASSUME IInv, NEW x \in Calls, Cancel(x)
  PROVE  IInv'
<1>1. TypeOK'
  <2>1. troubles' \in 0..MaxTroubles
    BY HookAssumption DEF IInv, TypeOK, Cancel, Trouble
  <2> QED BY <2>1 DEF IInv, TypeOK, PcValues, Cancel, Working, Writing, Concludes,
     Ends, hostVars
<1>2. Frame(x)
  BY DEF IInv, TypeOK, Frame, Cancel, Working, Writing, Concludes, Trouble, Ends,
     hostVars
<1>3. Local(x)'
  <2>1. Local(x) /\ torn \subseteq {"store", "trace"}
    BY DEF IInv, TypeOK
  <2>2. StoreTaints(session[x]) => StoreTaints(session[x])'
    BY <2>1 DEF StoreTaints, Cancel, Ends
  <2>3. Known(x)'
    BY <2>1, <2>2 DEF Local, Known, StoreTaints, Cancel, Ends
  <2>4. pc'[x] = "over" /\ ending'[x] = "cancelled"
    BY DEF IInv, TypeOK, Cancel, Concludes
  <2> QED BY <2>3, <2>4 DEF Local, Counted, Fresh, Settled, Kept, Quiet, Early
<1>4. ASSUME NEW c \in Calls PROVE Pair(c, x)'
  <2>1. Undeciding(x)
    BY DEF IInv, TypeOK, Undeciding, Deciding, Local, Settled, Cancel, Working, Writing,
       Concludes, Trouble, Ends, hostVars
  <2> QED BY <1>2, <2>1, PairKeeps
<1> QED BY <1>1, <1>2, <1>3, <1>4, FrameKeeps DEF IInv

LEMMA RunKeeps ==
  ASSUME IInv, NEW x \in Calls, Run(x)
  PROVE  IInv'
<1>1. TypeOK'
  <2>1. troubles' \in 0..MaxTroubles
    BY HookAssumption DEF IInv, TypeOK, Run
  <2> QED BY <2>1 DEF IInv, TypeOK, PcValues, Working, Run, localVars, fileVars
<1>2. Frame(x)
  BY DEF IInv, TypeOK, Frame, Run, localVars, fileVars
<1>3. Local(x)'
  BY DEF IInv, TypeOK, Local, Counted, Fresh, Settled, Known, Kept, Quiet, StoreTaints,
     Early, Run, localVars, fileVars
<1>4. ASSUME NEW c \in Calls PROVE Pair(c, x)'
  <2>1. Undeciding(x)
    BY DEF IInv, TypeOK, Undeciding, Deciding, Local, Settled, Run, localVars, fileVars
  <2> QED BY <1>2, <2>1, PairKeeps
<1> QED BY <1>1, <1>2, <1>3, <1>4, FrameKeeps DEF IInv

LEMMA PostRecordKeeps ==
  ASSUME IInv, NEW x \in Calls, PostRecord(x)
  PROVE  IInv'
<1>1. TypeOK'
  <2>1. troubles' \in 0..MaxTroubles
    BY HookAssumption DEF IInv, TypeOK, PostRecord, Smooth, Trouble, PostAnswers
  <2>2. RanRecord(x) \in RanRecords
    BY DEF RanRecord, RanRecords
  <2>3. trace' \subseteq Observations \cup RanRecords
    BY <2>2 DEF IInv, TypeOK, PostRecord, TraceFails
  <2>4. torn' \subseteq {"store", "trace"}
    BY ZenonT(60) DEF IInv, TypeOK, PostRecord, TraceFails
  <2>5. /\ post' \in [Calls -> {"none", "started", "over"}]
        /\ postAnswer' \in [Calls -> {"none", "quiet", "error", "deny"}]
    BY DEF IInv, TypeOK, PostRecord, PostAnswers
  <2>6. UNCHANGED <<pc, localVars, verdict, ending, answer, approved, ran, audit, store,
                    after, unread, learn>>
    BY DEF PostRecord, PostAnswers
  <2> QED BY <2>1, <2>3, <2>4, <2>5, <2>6 DEF IInv, TypeOK, localVars
<1>2. Frame(x)
  <2>1. RanRecord(x) \in RanRecords
    BY DEF RanRecord, RanRecords
  <2>2. trace' \cap Observations \subseteq trace
    BY <2>1, RanIsNoObservation DEF PostRecord, TraceFails
  <2> QED BY <2>2 DEF IInv, TypeOK, Frame, PostRecord, TraceFails, PostAnswers, localVars
<1>3. Local(x)'
  BY DEF IInv, TypeOK, Local, Counted, Fresh, Settled, Known, Kept, Quiet, StoreTaints,
     Early, PostRecord, TraceFails, PostAnswers, Smooth, Trouble, localVars
<1>4. ASSUME NEW c \in Calls PROVE Pair(c, x)'
  <2>1. Undeciding(x)
    BY DEF IInv, TypeOK, Undeciding, Deciding, Local, Settled, PostRecord, TraceFails, PostAnswers,
       Smooth, Trouble, localVars
  <2> QED BY <1>2, <2>1, PairKeeps
<1> QED BY <1>1, <1>2, <1>3, <1>4, FrameKeeps DEF IInv

LEMMA PostDeadlineKeeps ==
  ASSUME IInv, NEW x \in Calls, PostDeadline(x)
  PROVE  IInv'
<1>1. TypeOK'
  <2>1. troubles' \in 0..MaxTroubles
    BY HookAssumption DEF IInv, TypeOK, PostDeadline, Trouble, PostAnswers
  <2>2. postAnswer' \in [Calls -> {"none", "quiet", "error", "deny"}]
    BY DEF IInv, TypeOK, PostDeadline, PostAnswers
  <2>3. UNCHANGED trace /\ post' = [post EXCEPT ![x] = "over"]
    BY DEF PostDeadline, PostAnswers
  <2>4. UNCHANGED <<pc, localVars, verdict, ending, answer, approved, ran, audit, store,
                    torn, after, unread, learn>>
    BY DEF PostDeadline, PostAnswers
  <2> QED BY <2>1, <2>2, <2>3, <2>4 DEF IInv, TypeOK, PcValues, Working, localVars
<1>2. Frame(x)
  BY DEF IInv, TypeOK, Frame, PostDeadline, PostAnswers, Trouble, localVars
<1>3. Local(x)'
  BY DEF IInv, TypeOK, Local, Counted, Fresh, Settled, Known, Kept, Quiet, StoreTaints,
     Early, PostDeadline, PostAnswers, Trouble, localVars
<1>4. ASSUME NEW c \in Calls PROVE Pair(c, x)'
  <2>1. Undeciding(x)
    BY DEF IInv, TypeOK, Undeciding, Deciding, Local, Settled, PostDeadline, PostAnswers,
       Trouble, localVars
  <2> QED BY <1>2, <2>1, PairKeeps
<1> QED BY <1>1, <1>2, <1>3, <1>4, FrameKeeps DEF IInv

LEMMA BeginKeeps ==
  ASSUME IInv, NEW x \in Calls, Begin(x)
  PROVE  IInv'
<1>1. TypeOK'
  <2>1. troubles' \in 0..MaxTroubles
    BY HookAssumption DEF IInv, TypeOK, Begin
  <2>2. session' \in [Calls -> Sessions \cup {NoSession}]
    BY DEF IInv, TypeOK, Begin
  <2>3. approval' \in [Calls -> {"delegate", "deny"}]
    BY DEF IInv, TypeOK, Begin
  <2>4. size' \in [Calls -> 0..MaxRequests]
    BY HookAssumption DEF IInv, TypeOK, Begin
  <2>5. after' \in [Calls -> SUBSET Calls]
    BY DEF IInv, TypeOK, Begin
  <2> QED BY <2>1, <2>2, <2>3, <2>4, <2>5 DEF IInv, TypeOK, PcValues, Working, Begin, Goes,
     hostVars, fileVars
<1>2. Frame(x)
  BY DEF IInv, TypeOK, Frame, Begin, Goes, hostVars, fileVars
<1>3. Local(x)'
  BY DEF IInv, TypeOK, Local, Counted, Fresh, Settled, Known, Kept, Quiet, StoreTaints,
     Early, Begin, Goes, hostVars, fileVars
<1>4. ASSUME NEW c \in Calls PROVE Pair(c, x)'
  <2>1. /\ pc[x] = "new" /\ pc'[x] = "open" /\ x \notin after'[x]
        /\ c \in after'[x] => c # x /\ pc[c] = "over" /\ pc'[c] = "over"
    BY DEF IInv, TypeOK, Local, Settled, Begin, Goes
  <2>2. Quiet(x)' /\ Fresh(x)'
    BY <1>3 DEF Local
  <2>3. OnlyHarmless(x)' /\ \A r \in audit' : r.call = x => r.decision # "learn_ask"
    BY <2>1, <2>2 DEF Quiet, Early, OnlyHarmless
  <2> QED BY <2>1, <2>2, <2>3 DEF Pair, Later, Bound, Strict, Fresh, Early, Deciding
<1> QED BY <1>1, <1>2, <1>3, <1>4, FrameKeeps DEF IInv

LEMMA ReadTaintKeeps ==
  ASSUME IInv, NEW x \in Calls, ReadTaint(x)
  PROVE  IInv'
<1>1. TypeOK'
  <2>1. troubles' \in 0..MaxTroubles
    <3>1. UNCHANGED troubles \/ (troubles < MaxTroubles /\ troubles' = troubles + 1)
      BY DEF ReadTaint, Smooth, Trouble
    <3> QED BY <3>1, HookAssumption DEF IInv, TypeOK
  <2> QED BY <2>1, ZenonT(60) DEF IInv, TypeOK, PcValues, Working, ReadTaint, Knows, Goes, hostVars, fileVars
<1>2. Frame(x)
  BY DEF IInv, TypeOK, Frame, ReadTaint, Knows, Goes, hostVars, fileVars
<1>3. Local(x)'
  BY DEF IInv, TypeOK, Local, Counted, Fresh, Settled, Known, Kept, Quiet, StoreTaints,
     Early, ReadTaint, Knows, Goes, hostVars, fileVars
<1>4. ASSUME NEW c \in Calls PROVE Pair(c, x)'
  <2>1. Pair(c, x) /\ Local(c) /\ session[x] \in Sessions \cup {NoSession}
    BY DEF IInv, TypeOK
  <2>2. /\ pc[x] = "taint" /\ pc'[x] \in {"relax", "decide"} /\ UNCHANGED <<session, relax, audit, trace, ending, after>>
        /\ \A e \in Calls \ {x} : pc'[e] = pc[e] /\ tainted'[e] = tainted[e]
        /\ unread \subseteq unread'
        /\ (session[x] # NoSession /\ StoreTaints(session[x]) => before'[x] /\ tainted'[x])
    BY ZenonT(60) DEF IInv, TypeOK, ReadTaint, Knows, Goes, fileVars
  <2>3. c \in after[x] => c # x /\ pc[c] = "over"
    BY <2>1, <2>2 DEF Pair, Later
  <2>4. ReachedBefore(c, x)' /\ ending'[c] = "judged" /\ c \notin unread' =>
           /\ ReachedBefore(c, x) /\ StoreTaints(session[x])
           /\ before'[x] /\ tainted'[x]
    BY <2>1, <2>2, <2>3 DEF ReachedBefore, SameSession, Local, Kept
  <2>5. Bound(c, x)'
    BY <2>1, <2>2, <2>4 DEF Pair, Bound, OnlyHarmless, ReachedBefore
  <2>6. Later(c, x)' /\ Strict(c, x)'
    BY <2>1, <2>2, <2>3 DEF Pair, Later, Strict, SameSession, Noted
  <2> QED BY <2>5, <2>6 DEF Pair
<1> QED BY <1>1, <1>2, <1>3, <1>4, FrameKeeps DEF IInv

LEMMA ReadTraceKeeps ==
  ASSUME IInv, NEW x \in Calls, ReadTrace(x)
  PROVE  IInv'
<1>1. TypeOK'
  <2>1. troubles' \in 0..MaxTroubles
    BY HookAssumption DEF IInv, TypeOK, ReadTrace, Smooth, Trouble
  <2> QED BY <2>1 DEF IInv, TypeOK, PcValues, Working, ReadTrace, Goes, hostVars, fileVars
<1>2. Frame(x)
  BY DEF IInv, TypeOK, Frame, ReadTrace, Goes, hostVars, fileVars
<1>3. Local(x)'
  BY DEF IInv, TypeOK, Local, Counted, Fresh, Settled, Known, Kept, Quiet, StoreTaints,
     Early, ReadTrace, Goes, hostVars, fileVars
<1>4. ASSUME NEW c \in Calls PROVE Pair(c, x)'
  <2>1. Pair(c, x) /\ Local(x)
    BY DEF IInv
  <2>2. /\ pc[x] = "relax" /\ pc'[x] = "decide"
        /\ UNCHANGED <<session, tainted, before, audit, trace, ending, after, unread>>
        /\ \A e \in Calls \ {x} : pc'[e] = pc[e]
    BY DEF IInv, TypeOK, ReadTrace, Goes, fileVars
  <2>3. c \in after[x] => c # x /\ pc[c] = "over"
    BY <2>1, <2>2 DEF Pair, Later
  <2>4. Later(c, x)'
    BY <2>2, <2>3 DEF Later
  <2>5. Bound(c, x)'
    BY <2>1, <2>2 DEF Pair, Bound, ReachedBefore, SameSession, OnlyHarmless, Deciding
  <2>6. Strict(c, x)'
    <3>1. SameSession(c, x) /\ Noted(c) => TraceTaints(session[x])
      BY DEF SameSession, Noted, TraceTaints
    <3>2. relax'[x] => ~TraceTaints(session[x])
      BY <2>1, <2>2 DEF IInv, TypeOK, ReadTrace, Local, Quiet
    <3>3. \A r \in audit : r.call = x => r.decision # "learn_ask"
      BY <2>1, <2>2 DEF Local, Quiet
    <3> QED BY <2>2, <3>1, <3>2, <3>3 DEF Strict, SameSession, Noted
  <2> QED BY <2>4, <2>5, <2>6 DEF Pair
<1> QED BY <1>1, <1>2, <1>3, <1>4, FrameKeeps DEF IInv

LEMMA DecidedTypes ==
  ASSUME TypeOK, NEW x \in Calls, NEW k \in RequestKinds
  PROVE  /\ Decided(x, k) \in Decisions
         /\ tainted[x] /\ ~relax[x] /\ Decided(x, k) # "block" => k \in Harmless
         /\ ~relax[x] => Decided(x, k) # "learn_ask"
<1>1. Judged(k, tainted[x]) \in {"allow", "ask", "block"}
  BY DEF Judged, RequestKinds
<1>2. tainted[x] /\ Judged(k, tainted[x]) # "block" => k \in Harmless
  BY DEF Judged, Harmless, RequestKinds
<1> QED BY <1>1, <1>2 DEF Decided, Decisions

LEMMA DecideKeeps ==
  ASSUME IInv, NEW x \in Calls, NEW k \in KindsOf(x), Decide(x, k)
  PROVE  IInv'
<1> DEFINE r == [call |-> x, n |-> done[x] + 1, kind |-> k, decision |-> Decided(x, k)]
<1>1. /\ k \in RequestKinds /\ TypeOK /\ Local(x) /\ pc[x] = "decide"
      /\ done[x] + 1 \in 0..MaxRequests
  <2>1. /\ TypeOK /\ Local(x) /\ pc[x] = "decide"
        /\ done[x] \in 0..MaxRequests /\ size[x] \in 0..MaxRequests /\ done[x] < size[x]
    BY DEF IInv, TypeOK, Local, Counted, Decide, Goes
  <2>2. k \in RequestKinds
    BY DEF KindsOf, RequestKinds, WriteKinds
  <2>3. done[x] + 1 \in 0..MaxRequests
    BY <2>1, HookAssumption
  <2> QED BY <2>1, <2>2, <2>3
<1>2. r \in Records /\ Unrecorded(r) \in Records
  <2>1. r \in Records
    BY <1>1, DecidedTypes DEF Records
  <2> HIDE DEF r
  <2> QED BY <2>1 DEF Records, Unrecorded, Decisions
<1>3. /\ r.call = x
      /\ tainted[x] /\ ~relax[x] /\ r.decision # "block" => r.kind \in Harmless
      /\ ~relax[x] => r.decision # "learn_ask"
  BY <1>1, DecidedTypes
<1>4. /\ pc' = [pc EXCEPT ![x] = "observe"] /\ done' = [done EXCEPT ![x] = @ + 1]
      /\ audit' \in {audit, audit \cup {r}}
      /\ last' \in {[last EXCEPT ![x] = r], [last EXCEPT ![x] = Unrecorded(r)]}
      /\ tainted' \in {tainted, [tainted EXCEPT ![x] = @ \/ Taints(k)]}
      /\ UNCHANGED <<session, approval, size, before, relax, asks, verdict, ending, answer,
                     hostVars, trace, store, torn, after, unread, learn>>
  BY DEF Decide, Goes
<1>5. troubles' \in 0..MaxTroubles
  BY HookAssumption DEF IInv, TypeOK, Decide, Smooth, Trouble
<1> HIDE DEF r
<1>6. tainted' \in [Calls -> BOOLEAN] /\ (tainted[x] => tainted'[x])
      /\ \A e \in Calls \ {x} : tainted'[e] = tainted[e]
  BY <1>1, <1>4, ZenonT(60) DEF TypeOK, Taints
<1>7. TypeOK'
  <2>1. audit' \subseteq Records
    BY <1>1, <1>2, <1>4 DEF TypeOK
  <2>2. last' \in [Calls -> Records \cup {NoRecord}]
    BY <1>1, <1>2, <1>4 DEF TypeOK
  <2>3. done' \in [Calls -> 0..MaxRequests]
    BY <1>1, <1>4 DEF TypeOK
  <2>4. pc' \in [Calls -> PcValues]
    BY <1>1, <1>4 DEF TypeOK, PcValues, Working
  <2>5. UNCHANGED <<learn, session, approval, size, before, relax, asks, verdict, ending,
                    answer, approved, ran, post, postAnswer, trace, store, torn, after, unread>>
    BY <1>4 DEF hostVars
  <2> QED BY <1>1, <1>5, <1>6, <2>1, <2>2, <2>3, <2>4, <2>5 DEF TypeOK
<1>8. Frame(x)
  BY <1>1, <1>3, <1>4, <1>6 DEF TypeOK, Frame, hostVars
<1>9. Local(x)'
  BY <1>1, <1>2, <1>4, <1>6
     DEF TypeOK, Local, Counted, Fresh, Settled, Known, Kept, Quiet, StoreTaints, Early, hostVars
<1>10. ASSUME NEW c \in Calls PROVE Pair(c, x)'
  <2>1. Pair(c, x)
    BY DEF IInv
  <2>2. pc'[x] = "observe"
    BY <1>1, <1>4 DEF TypeOK
  <2>3. c \in after[x] => c # x /\ pc[c] = "over" /\ pc'[c] = "over" /\ tainted'[c] = tainted[c]
    BY <1>1, <1>4, <1>6, <2>1 DEF TypeOK, Pair, Later
  <2>4. Later(c, x)'
    BY <1>4, <2>2, <2>3 DEF Later
  <2>5. ReachedBefore(c, x)' /\ ending'[c] = "judged" /\ c \notin unread' =>
           OnlyHarmless(x) /\ before[x] /\ tainted[x] /\ ~relax[x]
    BY <1>1, <1>4, <2>1, <2>3
       DEF Local, Known, Pair, Bound, ReachedBefore, SameSession, Deciding
  <2>6. Bound(c, x)'
    BY <1>3, <1>4, <1>6, <2>5 DEF Bound, OnlyHarmless
  <2>7. Strict(c, x)'
    BY <1>3, <1>4, <2>1 DEF Pair, Strict, SameSession, Noted
  <2> QED BY <2>4, <2>6, <2>7 DEF Pair
<1> QED BY <1>7, <1>8, <1>9, <1>10, FrameKeeps DEF IInv

-----------------------------------------------------------------------------
LEMMA StutterKeeps ==
  ASSUME IInv, UNCHANGED vars
  PROVE  IInv'
<1>1. TypeOK'
  BY DEF IInv, TypeOK, vars, localVars, hostVars, fileVars
<1>2. ASSUME NEW c \in Calls PROVE Local(c)'
  BY DEF IInv, Local, Counted, Fresh, Settled, Known, Kept, Quiet, StoreTaints, vars,
         localVars, hostVars, fileVars
<1>3. ASSUME NEW c \in Calls, NEW d \in Calls PROVE Pair(c, d)'
  BY DEF IInv, Pair, Later, Bound, Strict, ReachedBefore, SameSession, OnlyHarmless, Noted,
         vars, localVars, hostVars, fileVars
<1> QED BY <1>1, <1>2, <1>3 DEF IInv

LEMMA NextKeeps == IInv /\ [Next]_vars => IInv'
<1> SUFFICES ASSUME IInv, [Next]_vars PROVE IInv'
  OBVIOUS
<1>1. CASE UNCHANGED vars
  BY <1>1, StutterKeeps
<1>2. ASSUME NEW c \in Calls, HookStep(c) PROVE IInv'
  BY <1>2, BeginKeeps, OpenKeeps, ReadTaintKeeps, ReadTraceKeeps, DecideKeeps, ObserveKeeps,
     RememberKeeps, DeadlineKeeps, AnswerKeeps DEF HookStep
<1>3. ASSUME NEW c \in Calls, HostStep(c) \/ PostHookStep(c) PROVE IInv'
  BY <1>3, CancelKeeps, RunKeeps, PostRecordKeeps, PostDeadlineKeeps DEF HostStep, PostHookStep
<1> QED BY <1>1, <1>2, <1>3 DEF Next

(* The strengthening holds in every reachable state. *)
THEOREM Invariance == Spec => []IInv
  BY InitIInv, NextKeeps, PTL DEF Spec

(* Every variable keeps to its type: in particular the loop over the requests of a call
   (hook.py 399-412) never counts past them, and what is observed is a record. *)
THEOREM TypeCorrect == Spec => []TypeOK
<1>1. IInv => TypeOK
  BY DEF IInv
<1> QED BY <1>1, Invariance, PTL

(* A taint that a call ended with binds every later call of its session, whatever any
   number of other hooks do to the files meanwhile (hook.py 369-389). *)
THEOREM TaintBinds == Spec => []TaintIsKept
<1>1. IInv => TaintIsKept
  BY DEF IInv, Pair, Bound, TaintIsKept
<1> QED BY <1>1, Invariance, PTL

(* Once the trace tells of a call's taint, no later call of the session is asked about
   what the policy refuses (hook.py 391-396). *)
THEOREM AskingStops == Spec => []RelaxStops
<1>1. IInv => RelaxStops
  BY DEF IInv, Pair, Strict, Noted, RelaxStops
<1> QED BY <1>1, Invariance, PTL

-----------------------------------------------------------------------------
(* The second inductive invariant: what is on record of a call, and what the human
   said.  It is of one call alone, and rests on the first for the types. *)

Before == Early \cup {"relax"}
Passing == {"allow", "ask"}

Unblocked(c) == \A r \in audit : r.call = c => r.decision # "block"

Seen(c, r) == \E o \in trace \cap Observations :
                 o.call = c /\ o.n = r.n /\ o.session = session[c] /\ o.decision = r.decision

(* The records of c that are in the logs that should have them. *)
OnRecord(c) == {r \in audit : r.call = c /\ (learn # "off" => Seen(c, r))}

(* The first m requests are among the records, allowed where nothing asks. *)
Cleared(records, m, all) ==
    \A n \in 1..m : \E r \in records :
        r.n = n /\ r.decision # "block" /\ (all => r.decision = "allow")

Recorded(c) ==
    /\ pc[c] \in Before \cup {"decide"} => Unblocked(c) /\ Cleared(OnRecord(c), done[c], ~asks[c])
    /\ pc[c] \in Before => done[c] = 0
    /\ pc[c] = "observe" =>
          /\ last[c].call = c /\ last[c].n = done[c] /\ done[c] # 0
          /\ last[c].decision # "block" =>
                /\ last[c] \in audit /\ Unblocked(c)
                /\ Cleared(OnRecord(c), done[c] - 1, ~asks[c])
    /\ pc[c] \in {"remember", "answer"} /\ verdict[c] \in Passing =>
          Unblocked(c) /\ Cleared(OnRecord(c), size[c], verdict[c] = "allow")
    /\ answer[c] \in Passing =>
          Unblocked(c) /\ Cleared(OnRecord(c), size[c], answer[c] = "allow")

Answered(c) ==
    /\ ObservedAsk(c) =>
          /\ pc[c] \notin Before
          /\ pc[c] \in {"decide", "observe"} => asks[c]
          /\ pc[c] \in {"remember", "answer"} => verdict[c] # "allow"
          /\ answer[c] # "allow"
    /\ post[c] # "none" => answer[c] \in {"allow", "cancelled"} \/ c \in approved
    /\ Ran(c) => post[c] # "none"
    /\ answer[c] = "cancelled" => ending[c] = "cancelled"

RInv == \A c \in Calls : Recorded(c) /\ Answered(c)

LEMMA ClearedMore ==
  ASSUME NEW L, NEW M, L \subseteq M, NEW m, NEW a, NEW b, b => a, Cleared(L, m, a)
  PROVE  Cleared(M, m, b)
  BY DEF Cleared

LEMMA ClearedNext ==
  ASSUME NEW L, NEW m \in Nat \ {0}, NEW a, NEW b, Cleared(L, m - 1, a), NEW r \in L,
         r.n = m, r.decision # "block", b => a /\ r.decision = "allow"
  PROVE  Cleared(L, m, b)
<1> SUFFICES ASSUME NEW n \in 1..m
             PROVE  \E q \in L : q.n = n /\ q.decision # "block" /\ (b => q.decision = "allow")
  BY DEF Cleared
<1>1. CASE n = m
  BY <1>1
<1>2. CASE n \in 1..(m - 1)
  BY <1>2 DEF Cleared
<1> QED BY <1>1, <1>2

LEMMA InitRInv == Init => RInv
<1> SUFFICES ASSUME Init, NEW c \in Calls PROVE Recorded(c) /\ Answered(c)
  BY DEF RInv
<1>1. Recorded(c)
  BY DEF Init, Recorded, Before, Early, Passing, Unblocked, Cleared
<1>2. Answered(c)
  BY DEF Init, Answered, ObservedAsk, Ran
<1> QED BY <1>1, <1>2

(* What a step of the processes of x leaves to the other calls: the logs grow by
   records of x. *)
Appends(x) ==
    /\ \A e \in Calls \ {x} :
          /\ pc'[e] = pc[e] /\ session'[e] = session[e] /\ size'[e] = size[e]
          /\ done'[e] = done[e] /\ asks'[e] = asks[e] /\ last'[e] = last[e]
          /\ verdict'[e] = verdict[e] /\ ending'[e] = ending[e] /\ answer'[e] = answer[e]
          /\ post'[e] = post[e]
    /\ audit \subseteq audit' /\ \A r \in audit' : r \in audit \/ r.call = x
    /\ trace \subseteq trace' /\ \A o \in trace' : o \in trace \/ o.call = x
    /\ approved \subseteq approved' /\ learn' = learn

LEMMA RecordsStay ==
  ASSUME NEW x, Appends(x), NEW e, session'[e] = session[e]
  PROVE  OnRecord(e) \subseteq OnRecord(e)'
  BY DEF Appends, OnRecord, Seen

LEMMA AppendsKeeps ==
  ASSUME RInv, NEW x \in Calls, Appends(x), Recorded(x)', Answered(x)'
  PROVE  RInv'
<1>1. ASSUME NEW e \in Calls, e # x PROVE Recorded(e)' /\ Answered(e)'
  <2>1. Recorded(e) /\ Answered(e)
    BY DEF RInv
  <2>2. OnRecord(e) \subseteq OnRecord(e)'
    BY <1>1, RecordsStay DEF Appends
  <2>3. Unblocked(e) => Unblocked(e)'
    BY <1>1 DEF Appends, Unblocked
  <2>4. \A m, a : Cleared(OnRecord(e), m, a) => Cleared(OnRecord(e)', m, a)
    BY <2>2, ClearedMore
  <2>5. Recorded(e)'
    BY <1>1, <2>1, <2>2, <2>3, <2>4 DEF Appends, Recorded
  <2>6. (ObservedAsk(e)' => ObservedAsk(e)) /\ (Ran(e)' => Ran(e))
    BY <1>1 DEF Appends, ObservedAsk, Ran, RanRecord
  <2>7. Answered(e)'
    BY <1>1, <2>1, <2>6 DEF Appends, Answered
  <2> QED BY <2>5, <2>7
<1> QED BY <1>1 DEF RInv

(* A step that puts nothing of x in the logs but what stops it. *)
LEMMA RecordStays ==
  ASSUME IInv, RInv, NEW x \in Calls, Appends(x), session'[x] = session[x]
  PROVE  /\ Recorded(x) /\ Answered(x) /\ Local(x)
         /\ \A m, a : Cleared(OnRecord(x), m, a) => Cleared(OnRecord(x)', m, a)
         /\ UNCHANGED audit => (Unblocked(x) => Unblocked(x)')
         /\ UNCHANGED trace => (ObservedAsk(x)' <=> ObservedAsk(x)) /\ (Ran(x)' <=> Ran(x))
<1>1. OnRecord(x) \subseteq OnRecord(x)'
  BY RecordsStay
<1>2. \A m, a : Cleared(OnRecord(x), m, a) => Cleared(OnRecord(x)', m, a)
  BY <1>1, ClearedMore
<1> QED BY <1>2 DEF RInv, IInv, Unblocked, ObservedAsk, Ran, RanRecord

LEMMA BeginRecords ==
  ASSUME IInv, RInv, NEW x \in Calls, Begin(x)
  PROVE  RInv'
<1>1. Appends(x)
  BY DEF Appends, Begin, Goes, hostVars, fileVars, IInv, TypeOK
<1>2. pc[x] = "new" /\ pc'[x] = "open" /\ UNCHANGED <<done, asks, verdict, answer, post, audit, trace, approved>>
  BY DEF Begin, Goes, hostVars, fileVars, IInv, TypeOK
<1>3. Recorded(x) /\ Answered(x) /\ answer[x] = "none" /\ post[x] = "none"
  BY <1>2 DEF RInv, IInv, Local, Settled
<1>4. done[x] = 0 /\ Unblocked(x)
  BY <1>2, <1>3 DEF Recorded, Before, Early
<1>5. Recorded(x)'
  BY <1>2, <1>3, <1>4 DEF Recorded, Before, Early, Unblocked, Cleared, Passing
<1>6. Answered(x)'
  BY <1>2, <1>3 DEF Answered, ObservedAsk, Ran, RanRecord, Before, Early
<1> QED BY <1>1, <1>5, <1>6, AppendsKeeps

LEMMA OpenRecords ==
  ASSUME IInv, RInv, NEW x \in Calls, Open(x)
  PROVE  RInv'
<1>1. Appends(x) /\ session'[x] = session[x]
  BY DEF Appends, Open, Goes, Concludes, Pending, Refuse, TraceFails, Refusal, Observation, hostVars,
     IInv, TypeOK
<1>2. /\ pc[x] = "open" /\ UNCHANGED <<done, asks, answer, post, approved>>
      /\ \/ pc'[x] = "taint" /\ UNCHANGED <<audit, trace>>
         \/ pc'[x] = "answer" /\ verdict'[x] = "deny"
  BY DEF Open, Goes, Concludes, hostVars, IInv, TypeOK
<1>3. \A o \in trace' : o \in trace \/ o.decision = "block"
  BY DEF Open, Refuse, TraceFails, Refusal, Observation
<1>4. /\ Recorded(x) /\ Answered(x) /\ answer[x] = "none" /\ post[x] = "none"
      /\ \A m, a : Cleared(OnRecord(x), m, a) => Cleared(OnRecord(x)', m, a)
      /\ UNCHANGED audit => (Unblocked(x) => Unblocked(x)')
  BY <1>1, <1>2, RecordStays DEF Local, Settled
<1>5. Recorded(x)'
  BY <1>2, <1>4 DEF Recorded, Before, Early, Passing
<1>6. RanRecord(x) \in trace' => RanRecord(x) \in trace
  <2>1. \A o \in trace' : o \in trace \/ o \in Observations
    <3>1. Refusal(x) \in Records /\ session[x] \in Sessions \cup {NoSession}
      BY RefusalType DEF IInv, TypeOK
    <3>2. Observation(x, Refusal(x), session[x]) \in Observations
      BY <3>1, ObservationType DEF IInv
    <3> QED BY <3>2 DEF Open, Refuse, TraceFails
  <2>2. RanRecord(x) \in RanRecords
    BY DEF RanRecord, RanRecords
  <2> QED BY <2>1, <2>2, RanIsNoObservation
<1>7. Answered(x)'
  BY <1>2, <1>3, <1>4, <1>6 DEF Answered, ObservedAsk, Ran, RanRecord, Before, Early
<1> QED BY <1>1, <1>5, <1>7, AppendsKeeps

LEMMA ReadRecords ==
  ASSUME IInv, RInv, NEW x \in Calls, ReadTaint(x) \/ ReadTrace(x)
  PROVE  RInv'
<1>1. Appends(x) /\ session'[x] = session[x]
  BY SMTT(30) DEF Appends, ReadTaint, ReadTrace, Knows, Goes, hostVars, fileVars, IInv, TypeOK
<1>2. /\ pc[x] \in {"taint", "relax"} /\ pc'[x] \in {"relax", "decide"}
      /\ UNCHANGED <<done, asks, answer, post, approved, audit, trace>>
  BY DEF ReadTaint, ReadTrace, Goes, hostVars, fileVars, IInv, TypeOK
<1>3. /\ Recorded(x) /\ Answered(x) /\ answer[x] = "none" /\ post[x] = "none"
      /\ \A m, a : Cleared(OnRecord(x), m, a) => Cleared(OnRecord(x)', m, a)
      /\ Unblocked(x) => Unblocked(x)'
      /\ (ObservedAsk(x)' <=> ObservedAsk(x)) /\ (Ran(x)' <=> Ran(x))
  BY <1>1, <1>2, RecordStays DEF Local, Settled
<1>4. Recorded(x)'
  BY <1>2, <1>3 DEF Recorded, Before, Early, Passing
<1>5. Answered(x)'
  BY <1>2, <1>3 DEF Answered, Before, Early
<1> QED BY <1>1, <1>4, <1>5, AppendsKeeps

LEMMA DecideRecords ==
  ASSUME IInv, RInv, NEW x \in Calls, NEW k \in KindsOf(x), Decide(x, k)
  PROVE  RInv'
<1> DEFINE r == [call |-> x, n |-> done[x] + 1, kind |-> k, decision |-> Decided(x, k)]
<1>1. Appends(x) /\ session'[x] = session[x]
  BY DEF Appends, Decide, Goes, hostVars, IInv, TypeOK
<1>2. /\ pc[x] = "decide" /\ pc'[x] = "observe" /\ done'[x] = done[x] + 1 /\ done[x] \in Nat
      /\ UNCHANGED <<asks, answer, post, approved, trace>>
  BY HookAssumption DEF Decide, Goes, hostVars, IInv, TypeOK
<1>3. \/ last'[x] = r /\ audit' = audit \cup {r}
      \/ last'[x] = Unrecorded(r)
  BY DEF Decide, IInv, TypeOK
<1>4. r.call = x /\ r.n = done[x] + 1
      /\ Unrecorded(r).call = x /\ Unrecorded(r).n = done[x] + 1 /\ Unrecorded(r).decision = "block"
  BY DEF Unrecorded
<1> HIDE DEF r
<1>5. /\ Recorded(x) /\ Answered(x) /\ answer[x] = "none" /\ post[x] = "none"
      /\ \A m, a : Cleared(OnRecord(x), m, a) => Cleared(OnRecord(x)', m, a)
      /\ (ObservedAsk(x)' <=> ObservedAsk(x)) /\ (Ran(x)' <=> Ran(x))
  BY <1>1, <1>2, RecordStays DEF Local, Settled
<1>6. /\ Unblocked(x) /\ Cleared(OnRecord(x), done[x], ~asks[x])
      /\ done'[x] # 0 /\ done'[x] - 1 = done[x]
  BY <1>2, <1>5 DEF Recorded
<1>7. last'[x].decision # "block" => last'[x] \in audit' /\ Unblocked(x)'
  BY <1>3, <1>4, <1>6 DEF Unblocked
<1>8. Recorded(x)'
  BY <1>2, <1>3, <1>4, <1>5, <1>6, <1>7 DEF Recorded, Before, Early, Passing
<1>9. Answered(x)'
  BY <1>2, <1>5 DEF Answered, Before, Early
<1> QED BY <1>1, <1>8, <1>9, AppendsKeeps

LEMMA ObserveRecords ==
  ASSUME IInv, RInv, NEW x \in Calls, Observe(x)
  PROVE  RInv'
<1>1. Appends(x) /\ session'[x] = session[x]
  BY DEF Appends, Observe, Judge, Goes, Concludes, Pending, TraceFails, Observation, hostVars,
     IInv, TypeOK
<1>2. /\ pc[x] = "observe" /\ UNCHANGED <<done, size, last, answer, post, approved, audit, learn>>
      /\ last[x] \in Records /\ done[x] \in Nat /\ asks[x] \in BOOLEAN
  BY HookAssumption DEF Observe, Judge, Goes, hostVars, IInv, TypeOK, Local, Counted
<1>3. /\ Recorded(x) /\ Answered(x) /\ answer[x] = "none" /\ post[x] = "none"
      /\ \A m, a : Cleared(OnRecord(x), m, a) => Cleared(OnRecord(x)', m, a)
      /\ Unblocked(x) => Unblocked(x)'
  BY <1>1, <1>2, RecordStays DEF Local, Settled
<1>4. /\ \A o \in trace' : o \in trace \/ (o \in Observations /\ o.decision = last[x].decision)
      /\ Ran(x)' <=> Ran(x)
  <2>1. \A s \in {session[x], NoSession} : Observation(x, last[x], s) \in Observations
    <3>1. session[x] \in Sessions \cup {NoSession}
      BY DEF IInv, TypeOK
    <3> QED BY <1>2, <3>1, ObservationType DEF IInv
  <2>2. \A s : Observation(x, last[x], s).decision = last[x].decision
    BY DEF Observation
  <2>3. \A o \in trace' : \/ o \in trace
                          \/ \E s \in {session[x], NoSession} : o = Observation(x, last[x], s)
    BY DEF Observe, TraceFails
  <2>4. RanRecord(x) \in RanRecords
    BY DEF RanRecord, RanRecords
  <2>5. RanRecord(x) \notin Observations
    BY <2>4, RanIsNoObservation
  <2> QED BY <1>1, <2>1, <2>2, <2>3, <2>5 DEF Ran, Appends, RanRecord
<1>5. CASE verdict'[x] = "deny" /\ pc'[x] = "remember"
  <2>1. Recorded(x)'
    BY <1>2, <1>3, <1>5 DEF Recorded, Before, Early, Passing
  <2>2. Answered(x)'
    BY <1>2, <1>3, <1>4, <1>5 DEF Answered, Before, Early
  <2> QED BY <1>1, <2>1, <2>2, AppendsKeeps
<1>6. CASE /\ last[x].decision # "block" /\ asks'[x] = Asked(x)
           /\ \/ pc'[x] = "decide"
              \/ /\ pc'[x] = "remember" /\ done[x] = size[x]
                 /\ verdict'[x] = IF Asked(x) THEN "ask" ELSE "allow"
           /\ \/ learn = "off"
              \/ Observation(x, last[x], session[x]) \in trace'
  <2>1. /\ last[x] \in audit /\ last[x].call = x /\ last[x].n = done[x] /\ done[x] # 0
        /\ Unblocked(x) /\ Cleared(OnRecord(x), done[x] - 1, ~asks[x])
    BY <1>2, <1>3, <1>6 DEF Recorded
  <2>2. last[x] \in OnRecord(x)'
    <3>1. CASE learn = "off"
      BY <1>2, <2>1, <3>1 DEF OnRecord
    <3>2. CASE Observation(x, last[x], session[x]) \in trace'
      <4> DEFINE o == Observation(x, last[x], session[x])
      <4>1. o.call = x /\ o.n = last[x].n /\ o.session = session'[x] /\ o.decision = last[x].decision
        BY <1>1 DEF Observation
      <4>2. o \in Observations
        <5>1. session[x] \in Sessions \cup {NoSession}
          BY DEF IInv, TypeOK
        <5> QED BY <1>2, <5>1, ObservationType DEF IInv
      <4> HIDE DEF o
      <4>3. o \in trace'
        BY <3>2 DEF o
      <4> QED BY <1>2, <2>1, <4>1, <4>2, <4>3 DEF OnRecord, Seen
    <3> QED BY <1>6, <3>1, <3>2
  <2>3. last[x].decision \in Decisions
    BY <1>2 DEF Records
  <2>4. ~Asked(x) => ~asks[x] /\ last[x].decision = "allow"
    BY <1>6, <2>3 DEF Asked, Decisions
  <2>5. Cleared(OnRecord(x)', done[x] - 1, ~asks[x])
    BY <1>3, <2>1
  <2>6. Cleared(OnRecord(x)', done[x], ~Asked(x))
    BY <1>2, <1>6, <2>1, <2>2, <2>4, <2>5, ClearedNext
  <2>7. Recorded(x)'
    <3>1. CASE pc'[x] = "decide"
      BY <1>2, <1>3, <1>6, <2>1, <2>6, <3>1 DEF Recorded, Before, Early, Passing
    <3>2. CASE pc'[x] = "remember" /\ done[x] = size[x]
               /\ verdict'[x] = IF Asked(x) THEN "ask" ELSE "allow"
      <4>1. (verdict'[x] = "allow") <=> ~Asked(x)
        BY <3>2
      <4>2. Cleared(OnRecord(x)', size[x], verdict'[x] = "allow")
        BY <2>6, <3>2, <4>1, ClearedMore
      <4> QED BY <1>2, <1>3, <2>1, <3>2, <4>2 DEF Recorded, Before, Early, Passing
    <3> QED BY <1>6, <3>1, <3>2
  <2>8. ObservedAsk(x)' => Asked(x)
    BY <1>2, <1>3, <1>4 DEF ObservedAsk, Answered, Asked
  <2>9. Answered(x)'
    BY <1>2, <1>3, <1>4, <1>6, <2>8 DEF Answered, Before, Early
  <2> QED BY <1>1, <2>7, <2>9, AppendsKeeps
<1>7. \/ verdict'[x] = "deny" /\ pc'[x] = "remember"
      \/ /\ last[x].decision # "block" /\ asks'[x] = Asked(x)
         /\ \/ pc'[x] = "decide"
            \/ /\ pc'[x] = "remember" /\ done[x] = size[x]
               /\ verdict'[x] = IF Asked(x) THEN "ask" ELSE "allow"
         /\ learn = "off" \/ last[x] \notin audit \/ Observation(x, last[x], session[x]) \in trace'
  BY DEF Observe, Judge, Goes, Concludes, Pending, IInv, TypeOK
<1>8. last[x].decision # "block" => last[x] \in audit
  BY <1>2, <1>3 DEF Recorded
<1> QED BY <1>5, <1>6, <1>7, <1>8

LEMMA RememberRecords ==
  ASSUME IInv, RInv, NEW x \in Calls, Remember(x)
  PROVE  RInv'
<1>1. Appends(x) /\ session'[x] = session[x]
  BY DEF Appends, Remember, Goes, Concludes, Pending, localVars, hostVars, IInv, TypeOK
<1>2. /\ pc[x] = "remember" /\ pc'[x] = "answer" /\ verdict'[x] \in {verdict[x], "deny"}
      /\ UNCHANGED <<size, answer, post, approved, audit, trace>>
  BY DEF Remember, Goes, Concludes, Pending, localVars, hostVars, IInv, TypeOK
<1>3. /\ Recorded(x) /\ Answered(x) /\ answer[x] = "none" /\ post[x] = "none"
      /\ \A m, a : Cleared(OnRecord(x), m, a) => Cleared(OnRecord(x)', m, a)
      /\ Unblocked(x) => Unblocked(x)'
      /\ (ObservedAsk(x)' <=> ObservedAsk(x)) /\ (Ran(x)' <=> Ran(x))
  BY <1>1, <1>2, RecordStays DEF Local, Settled
<1>4. Recorded(x)'
  BY <1>2, <1>3 DEF Recorded, Before, Early, Passing
<1>5. Answered(x)'
  BY <1>2, <1>3 DEF Answered, Before, Early
<1> QED BY <1>1, <1>4, <1>5, AppendsKeeps

LEMMA DeadlineRecords ==
  ASSUME IInv, RInv, NEW x \in Calls, Deadline(x)
  PROVE  RInv'
<1>1. Appends(x) /\ session'[x] = session[x]
  BY DEF Appends, Deadline, Concludes, localVars, hostVars, fileVars, IInv, TypeOK
<1>2. /\ pc[x] \in Working \cup {"answer"} /\ pc'[x] = "answer" /\ verdict'[x] = "deny"
      /\ UNCHANGED <<answer, post, approved, audit, trace>>
  BY DEF Deadline, Concludes, localVars, hostVars, fileVars, IInv, TypeOK
<1>3. /\ Recorded(x) /\ Answered(x) /\ answer[x] = "none" /\ post[x] = "none"
      /\ (ObservedAsk(x)' <=> ObservedAsk(x)) /\ (Ran(x)' <=> Ran(x))
  BY <1>1, <1>2, RecordStays DEF Local, Settled, Working
<1>4. Recorded(x)'
  BY <1>2, <1>3 DEF Recorded, Before, Early, Passing
<1>5. Answered(x)'
  BY <1>2, <1>3 DEF Answered, Before, Early
<1> QED BY <1>1, <1>4, <1>5, AppendsKeeps

LEMMA AnswerRecords ==
  ASSUME IInv, RInv, NEW x \in Calls, Answer(x)
  PROVE  RInv'
<1>1. Appends(x) /\ session'[x] = session[x]
  BY DEF Appends, Answer, Goes, Ends, hostVars, fileVars, IInv, TypeOK
<1>2. /\ pc[x] = "answer" /\ pc'[x] = "over" /\ answer'[x] = verdict[x]
      /\ verdict[x] \in {"none", "allow", "ask", "deny"}
      /\ UNCHANGED <<size, verdict, ending, post, approved, audit, trace>>
  BY DEF Answer, Goes, Ends, hostVars, fileVars, IInv, TypeOK
<1>3. /\ Recorded(x) /\ Answered(x) /\ post[x] = "none"
      /\ \A m, a : Cleared(OnRecord(x), m, a) => Cleared(OnRecord(x)', m, a)
      /\ Unblocked(x) => Unblocked(x)'
      /\ (ObservedAsk(x)' <=> ObservedAsk(x)) /\ (Ran(x)' <=> Ran(x))
  BY <1>1, <1>2, RecordStays DEF Local, Settled
<1>4. Recorded(x)'
  BY <1>2, <1>3 DEF Recorded, Before, Early, Passing
<1>5. Answered(x)'
  BY <1>2, <1>3 DEF Answered, Before, Early
<1> QED BY <1>1, <1>4, <1>5, AppendsKeeps

LEMMA CancelRecords ==
  ASSUME IInv, RInv, NEW x \in Calls, Cancel(x)
  PROVE  RInv'
<1>1. Appends(x) /\ session'[x] = session[x]
  BY DEF Appends, Cancel, Concludes, Ends, hostVars, IInv, TypeOK
<1>2. /\ pc[x] \in Working \cup {"answer"} /\ pc'[x] = "over"
      /\ answer'[x] = "cancelled" /\ ending'[x] = "cancelled"
      /\ UNCHANGED <<post, approved, audit, trace>>
  BY DEF Cancel, Concludes, Ends, hostVars, IInv, TypeOK
<1>3. /\ Recorded(x) /\ Answered(x) /\ post[x] = "none"
      /\ (ObservedAsk(x)' <=> ObservedAsk(x)) /\ (Ran(x)' <=> Ran(x))
  BY <1>1, <1>2, RecordStays DEF Local, Settled, Working
<1>4. Recorded(x)'
  BY <1>2, <1>3 DEF Recorded, Before, Early, Passing
<1>5. Answered(x)'
  BY <1>2, <1>3 DEF Answered, Before, Early
<1> QED BY <1>1, <1>4, <1>5, AppendsKeeps

LEMMA RunRecords ==
  ASSUME IInv, RInv, NEW x \in Calls, Run(x)
  PROVE  RInv'
<1>1. Appends(x) /\ session'[x] = session[x]
  BY DEF Appends, Run, localVars, fileVars, IInv, TypeOK
<1>2. /\ answer[x] \in {"allow", "cancelled"} \/ x \in approved'
      /\ approved \subseteq approved' /\ post'[x] = "started"
      /\ UNCHANGED <<pc, size, done, asks, last, verdict, ending, answer, audit, trace>>
  BY DEF Run, localVars, fileVars, IInv, TypeOK
<1>3. /\ Recorded(x) /\ Answered(x)
      /\ \A m, a : Cleared(OnRecord(x), m, a) => Cleared(OnRecord(x)', m, a)
      /\ Unblocked(x) => Unblocked(x)'
      /\ (ObservedAsk(x)' <=> ObservedAsk(x)) /\ (Ran(x)' <=> Ran(x))
  BY <1>1, <1>2, RecordStays
<1>4. Recorded(x)'
  BY <1>2, <1>3 DEF Recorded
<1>5. Answered(x)'
  BY <1>2, <1>3 DEF Answered
<1> QED BY <1>1, <1>4, <1>5, AppendsKeeps

LEMMA PostRecords ==
  ASSUME IInv, RInv, NEW x \in Calls, PostRecord(x) \/ PostDeadline(x)
  PROVE  RInv'
<1>1. Appends(x) /\ session'[x] = session[x]
  BY DEF Appends, PostRecord, PostDeadline, PostAnswers, TraceFails, RanRecord, localVars,
     IInv, TypeOK
<1>2. /\ post[x] = "started" /\ post'[x] = "over"
      /\ UNCHANGED <<pc, size, done, asks, last, verdict, ending, answer, approved, audit>>
  BY DEF PostRecord, PostDeadline, PostAnswers, localVars, IInv, TypeOK
<1>3. /\ Recorded(x) /\ Answered(x)
      /\ \A m, a : Cleared(OnRecord(x), m, a) => Cleared(OnRecord(x)', m, a)
      /\ Unblocked(x) => Unblocked(x)'
  BY <1>1, <1>2, RecordStays
<1>4. ObservedAsk(x)' => ObservedAsk(x)
  <2>1. RanRecord(x) \in RanRecords
    BY DEF RanRecord, RanRecords
  <2>2. trace' \cap Observations \subseteq trace
    BY <2>1, RanIsNoObservation DEF PostRecord, PostDeadline, TraceFails
  <2> QED BY <2>2 DEF ObservedAsk
<1>5. Recorded(x)'
  BY <1>2, <1>3 DEF Recorded
<1>6. Answered(x)'
  BY <1>2, <1>3, <1>4 DEF Answered
<1> QED BY <1>1, <1>5, <1>6, AppendsKeeps

LEMMA NextRecords == IInv /\ RInv /\ [Next]_vars => RInv'
<1> SUFFICES ASSUME IInv, RInv, [Next]_vars PROVE RInv'
  OBVIOUS
<1>1. CASE UNCHANGED vars
  <2>1. ASSUME NEW c \in Calls PROVE Recorded(c)' /\ Answered(c)'
    <3>1. Recorded(c) /\ Answered(c)
      BY DEF RInv
    <3>2. Recorded(c)'
      BY <1>1, <3>1 DEF Recorded, Unblocked, OnRecord, Seen, vars, localVars, hostVars, fileVars
    <3>3. Answered(c)'
      BY <1>1, <3>1 DEF Answered, ObservedAsk, Ran, vars, localVars, hostVars, fileVars
    <3> QED BY <3>2, <3>3
  <2> QED BY <2>1 DEF RInv
<1>2. ASSUME NEW c \in Calls, HookStep(c) PROVE RInv'
  BY <1>2, BeginRecords, OpenRecords, ReadRecords, DecideRecords, ObserveRecords,
     RememberRecords, DeadlineRecords, AnswerRecords DEF HookStep
<1>3. ASSUME NEW c \in Calls, HostStep(c) \/ PostHookStep(c) PROVE RInv'
  BY <1>3, CancelRecords, RunRecords, PostRecords DEF HostStep, PostHookStep
<1> QED BY <1>1, <1>2, <1>3 DEF Next

(* What is on record, and what was said, in every reachable state. *)
THEOREM RecordsInvariance == Spec => []RInv
  BY InitRInv, NextRecords, Invariance, PTL DEF Spec

(* A call the hook let pass has each of its requests in the audit log and, in learning
   mode, in the trace, none of them blocked, and none that asks if it was allowed
   (hook.py 399-412). *)
THEOREM PassedIsRecorded == Spec => []AnswerRecorded
<1>1. ASSUME IInv, RInv, NEW c \in Calls, answer[c] \in {"allow", "ask"}
      PROVE  /\ \A r \in audit : r.call = c => r.decision # "block"
             /\ \A n \in 1..size[c] :
                   \E r \in audit :
                      /\ r.call = c /\ r.n = n /\ r.decision # "block"
                      /\ answer[c] = "allow" => r.decision = "allow"
                      /\ learn # "off" => Observation(c, r, session[c]) \in
                                             {[o EXCEPT !.tainted = tainted[c]] :
                                                 o \in trace \cap Observations}
  <2>1. Unblocked(c) /\ Cleared(OnRecord(c), size[c], answer[c] = "allow")
    BY <1>1 DEF RInv, Recorded, Passing
  <2>2. ASSUME NEW r, Seen(c, r)
        PROVE  Observation(c, r, session[c]) \in
                  {[o EXCEPT !.tainted = tainted[c]] : o \in trace \cap Observations}
    <3>1. PICK o \in trace \cap Observations :
             o.call = c /\ o.n = r.n /\ o.session = session[c] /\ o.decision = r.decision
      BY <2>2 DEF Seen
    <3>2. [o EXCEPT !.tainted = tainted[c]] = Observation(c, r, session[c])
      BY <3>1 DEF Observations, Observation
    <3> QED BY <3>1, <3>2
  <2> QED BY <2>1, <2>2 DEF Cleared, OnRecord, Unblocked
<1>2. IInv /\ RInv => AnswerRecorded
  BY <1>1 DEF AnswerRecorded
<1> QED BY <1>2, Invariance, RecordsInvariance, PTL

(* What the trace shows as asked and ran, the human approved, but for a call whose hook
   the host gave up on (hook.py 426-436). *)
THEOREM RanMeansYes == Spec => []AskMeansYes
<1>1. ASSUME RInv, NEW c \in Calls, Ran(c), ObservedAsk(c), ending[c] # "cancelled"
      PROVE  c \in approved
  BY <1>1 DEF RInv, Answered
<1>2. RInv => AskMeansYes
  BY <1>1 DEF AskMeansYes
<1> QED BY <1>2, RecordsInvariance, PTL
=============================================================================
