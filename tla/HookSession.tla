------------------------------ MODULE HookSession ------------------------------
(***************************************************************************)
(* hook.py and session.py: the agent host asks the hook before each tool   *)
(* call and, in learning mode, tells it after each call that ran.  Every   *)
(* hook is a process of its own and several run at a time; a session is    *)
(* remembered only by the files they share: the audit log, the store of    *)
(* tainted sessions and the learning trace (learn.py, TraceWriter).        *)
(*                                                                         *)
(* An append to one of the files is one step here: see AuditLog.  The      *)
(* policy is a table of kinds of request; Policy models how it decides.    *)
(* The host and the human are outside.                                     *)
(***************************************************************************)
EXTENDS Naturals, FiniteSets, PolicyTable

CONSTANTS Calls,                \* tool calls of the host, by tool_use_id
          Sessions,
          NoSession,            \* an event without session_id
          MaxRequests,          \* bound: files of one apply_patch
          Modes,                \* learning modes considered: "off", "enforce", "ask"
          MaxTroubles           \* bound: failures, deadlines, cancellations

ASSUME HookAssumption ==
    /\ NoSession \notin Sessions
    /\ MaxRequests \in Nat \ {0}
    /\ Modes \subseteq {"off", "enforce", "ask"}
    /\ MaxTroubles \in Nat

VARIABLES learn,                \* the mode the operator set: off, enforce or ask
          pc,                   \* where the hook process of the call is
          session,              \* the session_id of the event
          approval,             \* "delegate" or "deny": can the host ask a human?
          size,                 \* how many requests translate made of the call
          done,                 \* how many of them are decided
          tainted,              \* gateway.session.tainted of the process
          before,               \* tainted_before
          relax,                \* a relax was passed to decide
          last,                 \* the record of the last decision
          asks,                 \* some request asks
          verdict,              \* what the process will answer
          ending,               \* how it came to that
          answer,               \* what the host got, or None
          approved,             \* calls the human said yes to
          ran,                  \* calls the host ran
          post,                 \* where the PostToolUse process is
          postAnswer,           \* what it answered
          audit, trace,         \* the records in the two logs
          store,                \* lines of the taint store, by session
          torn,                 \* "store", "trace": there is half a line in it
          after,                \* history: the calls over before this one began
          unread,               \* history: calls that could not read the store
          troubles              \* how much has gone wrong

localVars == <<session, approval, size, done, tainted, before, relax, last, asks>>
fileVars == <<audit, trace, store, torn>>
hostVars == <<approved, ran, post, postAnswer>>
vars == <<learn, pc, localVars, verdict, ending, answer, hostVars, fileVars, after,
          unread, troubles>>

Decisions == {"allow", "ask", "learn_ask", "block"}
Records == [call : Calls, n : 0..MaxRequests, kind : RequestKinds \cup {"refused"},
            decision : Decisions]
Observations == [call : Calls, n : 0..MaxRequests, session : Sessions \cup {NoSession},
                 decision : Decisions, tainted : BOOLEAN]
RanRecords == [call : Calls, ran : {TRUE}]
NoRecord == [decision |-> "none"]

Working == {"open", "taint", "relax", "decide", "observe", "remember"}
PcValues == Working \cup {"new", "answer", "over"}

TypeOK ==
    /\ learn \in Modes
    /\ pc \in [Calls -> PcValues]
    /\ session \in [Calls -> Sessions \cup {NoSession}]
    /\ approval \in [Calls -> {"delegate", "deny"}]
    /\ size \in [Calls -> 0..MaxRequests] /\ done \in [Calls -> 0..MaxRequests]
    /\ tainted \in [Calls -> BOOLEAN] /\ before \in [Calls -> BOOLEAN]
    /\ relax \in [Calls -> BOOLEAN] /\ asks \in [Calls -> BOOLEAN]
    /\ last \in [Calls -> Records \cup {NoRecord}]
    /\ verdict \in [Calls -> {"none", "allow", "ask", "deny"}]
    /\ ending \in [Calls -> {"none", "judged", "failed", "deadline", "cancelled"}]
    /\ answer \in [Calls -> {"none", "allow", "ask", "deny", "cancelled"}]
    /\ approved \subseteq Calls /\ ran \subseteq Calls
    /\ post \in [Calls -> {"none", "started", "over"}]
    /\ postAnswer \in [Calls -> {"none", "quiet", "error", "deny"}]
    /\ audit \subseteq Records /\ trace \subseteq Observations \cup RanRecords
    /\ store \in [Sessions -> Nat] /\ torn \subseteq {"store", "trace"}
    /\ after \in [Calls -> SUBSET Calls] /\ unread \subseteq Calls
    /\ troubles \in 0..MaxTroubles

Init ==
    /\ learn \in Modes
    /\ pc = [c \in Calls |-> "new"]
    /\ session = [c \in Calls |-> NoSession]
    /\ approval = [c \in Calls |-> "deny"]
    /\ size = [c \in Calls |-> 0] /\ done = [c \in Calls |-> 0]
    /\ tainted = [c \in Calls |-> FALSE] /\ before = [c \in Calls |-> FALSE]
    /\ relax = [c \in Calls |-> FALSE] /\ asks = [c \in Calls |-> FALSE]
    /\ last = [c \in Calls |-> NoRecord]
    /\ verdict = [c \in Calls |-> "none"] /\ ending = [c \in Calls |-> "none"]
    /\ answer = [c \in Calls |-> "none"]
    /\ approved = {} /\ ran = {}
    /\ post = [c \in Calls |-> "none"] /\ postAnswer = [c \in Calls |-> "none"]
    /\ audit = {} /\ trace = {}
    /\ store = [s \in Sessions |-> 0] /\ torn = {}
    /\ after = [c \in Calls |-> {}] /\ unread = {}
    /\ troubles = 0

Goes(c, from, to) == pc[c] = from /\ pc' = [pc EXCEPT ![c] = to]

(* The process has its verdict: the files are closed and it goes to answer. *)
Concludes(c, v, how) ==
    /\ verdict' = [verdict EXCEPT ![c] = v]
    /\ ending' = [ending EXCEPT ![c] = how]

Pending == UNCHANGED <<verdict, ending>>

Trouble == troubles < MaxTroubles /\ troubles' = troubles + 1
Smooth == UNCHANGED troubles

-----------------------------------------------------------------------------
(* PreToolUse: one process per call. *)

(* The host starts the hook. *)
Begin(c) ==
    /\ Goes(c, "new", "open")
    /\ \E s \in Sessions \cup {NoSession} : session' = [session EXCEPT ![c] = s]
    /\ after' = [after EXCEPT ![c] = {d \in Calls : answer[d] # "none"}]
    /\ UNCHANGED <<approval, size, done, tainted, before, relax, last, asks, verdict,
                   ending, answer, hostVars, fileVars, unread, learn, troubles>>

Refusal(c) == [call |-> c, n |-> 0, kind |-> "refused", decision |-> "block"]

(* A record that cannot be read back has no session: _unrecorded_block. *)
Observation(c, r, s) ==
    [call |-> c, n |-> r.n, session |-> s, decision |-> r.decision,
     tainted |-> tainted[c]]

(* A write to the trace that fails: its line is there, or not, or half of it. *)
TraceFails(line) ==
    \/ trace' \in {trace, trace \cup {line}} /\ UNCHANGED torn
    \/ torn' = torn \cup {"trace"} /\ UNCHANGED trace

(* gateway.refuse: the refusal is audited and observed, if it can be. *)
Refuse(c) ==
    LET observation == Observation(c, Refusal(c), session[c])
    IN \/ /\ audit' = audit \cup {Refusal(c)}
          /\ trace' = IF learn = "off" THEN trace ELSE trace \cup {observation}
          /\ UNCHANGED torn /\ Smooth
       \/ /\ audit' \in {audit, audit \cup {Refusal(c)}}
          /\ IF learn = "off" THEN UNCHANGED <<trace, torn>> ELSE TraceFails(observation)
          /\ Trouble

(* evaluate up to the session: the policy, the store and the trace are opened, and the
   event becomes requests, for a host that can ask or not.  What cannot be opened
   denies, and so does an event that maps to no request. *)
Open(c) ==
    /\ \/ /\ Goes(c, "open", "taint")
          /\ \E a \in {"delegate", "deny"} : approval' = [approval EXCEPT ![c] = a]
          /\ \E n \in 1..MaxRequests : size' = [size EXCEPT ![c] = n]
          /\ Pending /\ UNCHANGED <<audit, trace, torn>> /\ Smooth
       \/ /\ Goes(c, "open", "answer")
          /\ Concludes(c, "deny", "failed")
          /\ audit' \in {audit, audit \cup {Refusal(c)}} /\ Trouble
          /\ UNCHANGED <<approval, size, trace, torn>>
       \/ /\ Goes(c, "open", "answer")
          /\ Concludes(c, "deny", "judged")
          /\ Refuse(c)
          /\ UNCHANGED <<approval, size>>
    /\ UNCHANGED <<session, done, tainted, before, relax, last, asks, answer, hostVars, store,
                   after, unread, learn>>

(* TaintStore.tainted *)
StoreTaints(s) == "store" \in torn \/ store[s] > 0

Knows(c, known) ==
    /\ before' = [before EXCEPT ![c] = known]
    /\ tainted' = [tainted EXCEPT ![c] = known]

(* A store that cannot be read taints this call, which then has nothing to remember. *)
ReadTaint(c) ==
    /\ Goes(c, "taint", IF learn = "ask" THEN "relax" ELSE "decide")
    /\ \/ /\ Knows(c, session[c] # NoSession /\ StoreTaints(session[c]))
          /\ UNCHANGED unread /\ Smooth
       \/ /\ session[c] # NoSession
          /\ Knows(c, TRUE)
          /\ unread' = unread \cup {c} /\ Trouble
    /\ UNCHANGED <<session, approval, size, done, relax, last, asks, verdict, ending,
                   answer, hostVars, fileVars, after, learn>>

(* Mutant of TraceTaints: the trace is not read back. *)
TraceTaintsNever(s) == FALSE

(* TraceWriter.session_tainted *)
TraceTaints(s) ==
    "trace" \in torn \/ \E o \in trace \cap Observations : o.session = s /\ o.tainted

ReadTrace(c) ==
    /\ Goes(c, "relax", "decide")
    /\ \/ /\ relax' = [relax EXCEPT ![c] = session[c] # NoSession /\ ~before[c]
                                           /\ ~TraceTaints(session[c])]
          /\ Smooth
       \/ UNCHANGED relax /\ Trouble
    /\ UNCHANGED <<session, approval, size, done, tainted, before, last, asks, verdict,
                   ending, answer, hostVars, fileVars, after, unread, learn>>

(* Only a patch is more than one request, and these are all writes. *)
KindsOf(c) == IF size[c] = 1 THEN RequestKinds ELSE WriteKinds

(* Gateway.decide's relax and approval. *)
Decided(c, k) ==
    LET j == Judged(k, tainted[c])
        d == IF relax[c] /\ k = "unlisted" THEN "learn_ask" ELSE j
    IN IF d \in {"ask", "learn_ask"} /\ approval[c] = "deny" THEN "block" ELSE d

(* Mutant of Unrecorded: what the policy said stands. *)
UnrecordedStands(r) == r

(* Gateway._unrecorded_block *)
Unrecorded(r) == [r EXCEPT !.decision = "block"]

(* Gateway.decide: the policy is asked, which may taint, and the decision is
   audited; one that cannot be audited, or not for sure, is a block, and with no
   audit log at all the policy is not asked. *)
Decide(c, k) ==
    /\ Goes(c, "decide", "observe")
    /\ done' = [done EXCEPT ![c] = @ + 1]
    /\ LET r == [call |-> c, n |-> done[c] + 1, kind |-> k, decision |-> Decided(c, k)]
           taints == tainted' = [tainted EXCEPT ![c] = @ \/ Taints(k)]
           fails == last' = [last EXCEPT ![c] = Unrecorded(r)]
       IN \/ /\ taints /\ audit' = audit \cup {r} /\ last' = [last EXCEPT ![c] = r]
             /\ Smooth
          \/ Trouble /\ taints /\ fails /\ audit' \in {audit, audit \cup {r}}
          \/ Trouble /\ done[c] = 0 /\ fails /\ UNCHANGED <<tainted, audit>>
    /\ UNCHANGED <<session, approval, size, before, relax, asks, verdict, ending, answer,
                   hostVars, trace, store, torn, after, unread, learn>>

(* Mutant of Asked: only the last request counts. *)
AskedLast(c) == last[c].decision \in {"ask", "learn_ask"}

(* asks is not empty after this decision. *)
Asked(c) == asks[c] \/ last[c].decision \in {"ask", "learn_ask"}

(* What the loop over the requests does with the decision just observed. *)
Judge(c) ==
    /\ asks' = [asks EXCEPT ![c] = Asked(c)]
    /\ \/ /\ last[c].decision = "block"
          /\ Goes(c, "observe", "remember") /\ Concludes(c, "deny", "judged")
       \/ /\ last[c].decision # "block" /\ done[c] < size[c]
          /\ Goes(c, "observe", "decide") /\ Pending
       \/ /\ last[c].decision # "block" /\ done[c] = size[c]
          /\ Goes(c, "observe", "remember")
          /\ Concludes(c, IF Asked(c) THEN "ask" ELSE "allow", "judged")

(* observed: the decision goes to the trace, before anything is answered; a trace
   that cannot be written denies. *)
Observe(c) ==
    /\ \/ learn = "off" /\ Judge(c) /\ UNCHANGED <<trace, torn>> /\ Smooth
       \/ /\ learn # "off"
          /\ Judge(c)
          /\ \E s \in {session[c]} \cup (IF last[c] \in audit THEN {} ELSE {NoSession}) :
                trace' = trace \cup {Observation(c, last[c], s)}
          /\ UNCHANGED torn /\ Smooth
       \/ /\ learn # "off" /\ Trouble
          /\ Goes(c, "observe", "remember")
          /\ Concludes(c, "deny", "judged")
          /\ TraceFails(Observation(c, last[c], session[c]))
          /\ UNCHANGED asks
    /\ UNCHANGED <<session, approval, size, done, tainted, before, relax, last, answer,
                   hostVars, audit, store, after, unread, learn>>

(* remember has something to write. *)
NewTaint(c) == session[c] # NoSession /\ ~before[c] /\ tainted[c]

(* Mutant of Remember: only a call that goes on is remembered. *)
RememberAllowed(c) ==
    /\ Goes(c, "remember", "answer")
    /\ \/ /\ NewTaint(c) /\ verdict[c] # "deny"
          /\ store' = [store EXCEPT ![session[c]] = @ + 1] /\ Pending
       \/ ~(NewTaint(c) /\ verdict[c] # "deny") /\ Pending /\ UNCHANGED store
    /\ UNCHANGED <<localVars, answer, hostVars, audit, trace, torn, after, unread, learn,
                   troubles>>

(* remember: a taint this call caused is kept for the later ones; one that cannot be
   kept denies this call. *)
Remember(c) ==
    /\ Goes(c, "remember", "answer")
    /\ LET marked == [store EXCEPT ![session[c]] = @ + 1]
       IN \/ /\ NewTaint(c) /\ store' = marked
             /\ Pending /\ UNCHANGED torn /\ Smooth
          \/ /\ NewTaint(c) /\ Concludes(c, "deny", "failed") /\ Trouble
             /\ \/ store' \in {store, marked} /\ UNCHANGED torn
                \/ torn' = torn \cup {"store"} /\ UNCHANGED store
          \/ ~NewTaint(c) /\ Pending /\ UNCHANGED <<store, torn>> /\ Smooth
    /\ UNCHANGED <<localVars, answer, hostVars, audit, trace, after, unread, learn>>

(* The process is gone, and with it what nobody asks for any more. *)
Ends(c) ==
    /\ approval' = [approval EXCEPT ![c] = "deny"]
    /\ relax' = [relax EXCEPT ![c] = FALSE] /\ asks' = [asks EXCEPT ![c] = FALSE]
    /\ last' = [last EXCEPT ![c] = NoRecord]
    /\ UNCHANGED <<session, size, done, tainted, before>>

(* SIGALRM, once: DeadlineExceeded ends the evaluation wherever it is, after the
   verdict too. *)
Deadline(c) ==
    /\ Trouble
    /\ pc[c] \in Working \cup {"answer"} /\ ending[c] # "deadline"
    /\ pc' = [pc EXCEPT ![c] = "answer"]
    /\ Concludes(c, "deny", "deadline")
    /\ UNCHANGED <<localVars, answer, hostVars, fileVars, after, unread, learn>>

(* emit *)
Answer(c) ==
    /\ Goes(c, "answer", "over")
    /\ answer' = [answer EXCEPT ![c] = verdict[c]]
    /\ Ends(c)
    /\ UNCHANGED <<verdict, ending, hostVars, fileVars, after, unread, learn,
                   troubles>>

-----------------------------------------------------------------------------
(* The host. *)

(* The file it may be writing to. *)
Writing(c) ==
    IF pc[c] = "remember" /\ NewTaint(c) THEN {"store"}
    ELSE IF pc[c] \in {"open", "observe"} /\ learn # "off" THEN {"trace"} ELSE {}

(* It gives up on a hook that takes too long, killing it; half a line may stay. *)
Cancel(c) ==
    /\ Trouble
    /\ pc[c] \in Working \cup {"answer"}
    /\ pc' = [pc EXCEPT ![c] = "over"]
    /\ Concludes(c, "none", "cancelled")
    /\ answer' = [answer EXCEPT ![c] = "cancelled"]
    /\ torn' \in {torn, torn \cup Writing(c)}
    /\ Ends(c)
    /\ UNCHANGED <<hostVars, audit, trace, store, after, unread, learn>>

(* It runs an allowed call, an asked one after a yes, and one whose hook it gave up on. *)
Run(c) ==
    /\ c \notin ran
    /\ \/ answer[c] \in {"allow", "cancelled"} /\ UNCHANGED approved
       \/ answer[c] = "ask" /\ approved' = approved \cup {c}
    /\ ran' = ran \cup {c}
    /\ post' = [post EXCEPT ![c] = "started"]
    /\ UNCHANGED <<pc, localVars, verdict, ending, answer, postAnswer, fileVars, after,
                   unread, learn, troubles>>

-----------------------------------------------------------------------------
(* PostToolUse: one process per call that ran. *)

PostAnswers(c, a) ==
    /\ post[c] = "started"
    /\ post' = [post EXCEPT ![c] = "over"]
    /\ postAnswer' = [postAnswer EXCEPT ![c] = a]
    /\ UNCHANGED <<pc, localVars, verdict, ending, answer, approved, ran, audit, store,
                   after, unread, learn>>

RanRecord(c) == [call |-> c, ran |-> TRUE]

(* record_ran *)
PostRecord(c) ==
    \/ /\ learn # "off" /\ session[c] # NoSession
       /\ PostAnswers(c, "quiet")
       /\ trace' = trace \cup {RanRecord(c)} /\ UNCHANGED torn /\ Smooth
    \/ /\ learn = "off"
       /\ PostAnswers(c, "quiet") /\ UNCHANGED <<trace, torn>> /\ Smooth
    \/ /\ learn # "off" /\ session[c] = NoSession
       /\ PostAnswers(c, "error") /\ UNCHANGED <<trace, torn>> /\ Smooth
    \/ /\ learn # "off" /\ session[c] # NoSession
       /\ PostAnswers(c, "error") /\ TraceFails(RanRecord(c)) /\ Trouble

(* The alarm: main knows that the event is a PostToolUse only once it is parsed, and
   before that it answers as for a PreToolUse. *)
PostDeadline(c) ==
    /\ Trouble
    /\ PostAnswers(c, "deny") \/ PostAnswers(c, "error")
    /\ UNCHANGED <<trace, torn>>

-----------------------------------------------------------------------------
HookStep(c) ==
    \/ Begin(c) \/ Open(c) \/ ReadTaint(c) \/ ReadTrace(c)
    \/ \E k \in KindsOf(c) : Decide(c, k)
    \/ Observe(c) \/ Remember(c) \/ Deadline(c) \/ Answer(c)

HostStep(c) == Cancel(c) \/ Run(c)

PostHookStep(c) == PostRecord(c) \/ PostDeadline(c)

Next == \E c \in Calls : HookStep(c) \/ HostStep(c) \/ PostHookStep(c)

Spec == Init /\ [][Next]_vars

-----------------------------------------------------------------------------
(* Properties. *)

SameSession(c, d) == session[c] = session[d] /\ session[c] # NoSession

(* Call c was over when d began, and the policy had seen it reach for something
   protected. *)
ReachedBefore(c, d) == c \in after[d] /\ SameSession(c, d) /\ tainted[c]

(* Nothing that taint-session stops gets by. *)
OnlyHarmless(d) == \A r \in audit : r.call = d /\ r.decision # "block" => r.kind \in Harmless

(* "A session that went for a protected path or carried a secret value in an earlier
   call is tainted in this one from the start" (hook.py 369-371), across processes:
   when the earlier call came to a verdict of its own and could read the store and
   write to it. *)
TaintIsKept ==
    \A c, d \in Calls :
        ReachedBefore(c, d) /\ ending[c] = "judged" /\ c \notin unread => OnlyHarmless(d)

(* "Once any protected path is named or reached (even by a blocked attempt) ... the
   session is tainted and every later network, api.call, shell_ask and shell_exact
   action is blocked" (session.py 1-4).  The code does not keep this even when the host
   waits for the answer: the deadline may fall between decide and mark, a store that
   cannot be written denies one call only, and one that cannot be read taints one. *)
TaintSticks ==
    \A c, d \in Calls : ReachedBefore(c, d) /\ ending[c] # "cancelled" => OnlyHarmless(d)

(* "Ask mode stops asking once the session has gone for a protected path (the trace
   remembers it across hook calls)" (hook.py 391-392): whatever ended the earlier
   call, once its observation is in the trace. *)
RelaxStops ==
    \A c, d \in Calls :
        /\ c \in after[d] /\ SameSession(c, d)
        /\ \E o \in trace \cap Observations : o.call = c /\ o.session = session[c] /\ o.tainted
        => \A r \in audit : r.call = d => r.decision # "learn_ask"

(* "Written to the same audit log before the host runs anything" (hook.py 11-12), and
   to the trace: a call the hook lets pass has every one of its requests on
   record, none blocked, and an allowed one none that asks. *)
AnswerRecorded ==
    \A c \in Calls : answer[c] \in {"allow", "ask"} =>
        /\ \A n \in 1..size[c] :
              \E r \in audit :
                 /\ r.call = c /\ r.n = n /\ r.decision # "block"
                 /\ answer[c] = "allow" => r.decision = "allow"
                 /\ learn # "off" => Observation(c, r, session[c]) \in
                                        {[o EXCEPT !.tainted = tainted[c]] :
                                            o \in trace \cap Observations}
        /\ \A r \in audit : r.call = c => r.decision # "block"

Ran(c) == RanRecord(c) \in trace
ObservedAsk(c) == \E o \in trace \cap Observations :
                     o.call = c /\ o.decision \in {"ask", "learn_ask"}

(* "The host ran this call, so if the hook asked, the human said yes" (hook.py
   430-431): what the trace shows as asked and ran, the human approved. *)
AskMeansYes ==
    \A c \in Calls : Ran(c) /\ ObservedAsk(c) /\ ending[c] # "cancelled" => c \in approved
=============================================================================
