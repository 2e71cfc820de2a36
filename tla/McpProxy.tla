------------------------------- MODULE McpProxy -------------------------------
(***************************************************************************)
(* mcp_proxy.py: the main thread that handles the client's messages one at *)
(* a time, the reader thread that routes what the server says, the boxes   *)
(* (one-slot queues) by which an answer gets from one to the other, and    *)
(* the learner that may refuse what the gateway allowed.                   *)
(*                                                                         *)
(* The server is outside: it answers any request any number of times, in   *)
(* any order or never, makes up answers under any id, says things of its   *)
(* own, stops reading and exits when it likes.  The client may call its    *)
(* messages what it likes, by the proxy's ids too.                         *)
(* What the gateway decides is an input; Gateway models how it records it. *)
(***************************************************************************)
EXTENDS Naturals, Sequences, FiniteSets

CONSTANTS Messages,             \* what the client sends
          MaxServer,            \* bound: lines the server writes
          None

Kinds == {"gated",              \* tools/call, resources/read
          "asked",              \* tools/list; a resource method while enabled
          "relayed",            \* initialize, ping, prompts/..., mcp_relay_methods
          "note",               \* notifications/..., answers to the server
          "gated_note",         \* tools/call or resources/read without id
          "other_note",         \* any other notification
          "refused",            \* a method not relayed; a resource method while denied
          "malformed",          \* no JSON, a batch, a scalar
          "raising"}            \* params that are no object, a method that is no string

(* The kinds that dispatch answers itself, in the main thread. *)
Handled == {"gated", "asked", "refused", "raising"}

Rids == 1..Cardinality(Messages)

VARIABLES kind,                 \* [Messages -> kind once sent, or None]
          name,                 \* [Messages -> the id the client gave it, or None]
          main,                 \* where the main thread is
          cur,                  \* the message it is at
          rid,                  \* _ids: the last proxy-owned id used
          asked,                \* history: [Messages -> the id its request was made with, or 0]
          pending,              \* _pending: registered proxy-owned ids
          box,                  \* [Rids -> what is in the box, or None]
          got,                  \* what the main thread took from its box
          atServer,             \* what reached the server
          lines,                \* the server's output the reader has not read
          said,                 \* number of lines the server wrote
          server,               \* "up", "deaf" (it reads no more) or "exited"
          closed,               \* self.closed is set
          reader,               \* where the reader thread is
          holding,              \* the answer the reader is putting in a box
          told,                 \* pending ids already told of the exit
          replies,              \* [Messages -> what dispatch replied to it, in order]
          relayedOut,           \* answers of the server relayed to the client
          allowed,              \* gated messages the gateway dispatched
          learnFailed           \* Learner.error is set

clientVars == <<kind, name, replies, relayedOut>>
mainVars == <<main, cur, rid, asked, got, allowed>>
boxVars == <<pending, box>>
serverVars == <<atServer, lines, said, server>>
readerVars == <<reader, holding, told, closed>>
vars == <<kind, name, main, cur, rid, asked, pending, box, got, atServer, lines, said,
          server, closed, reader, holding, told, replies, relayedOut, allowed,
          learnFailed>>

(* Ids a JSON-RPC message can have: "agent-firewall-r", whoever uses it, and others. *)
ClientId(m) == [form |-> "other", of |-> m]
ProxyId(r) == [form |-> "firewall", of |-> r]
MessageIds == {ClientId(m) : m \in Messages} \cup {ProxyId(r) : r \in Rids}

(* An answer is told apart by its id and by the message whose request the server
   answers, None if it made the answer up. *)
Requests == [id : MessageIds, kind : Kinds, of : Messages]
ServerAnswer == [what : {"answer"}, id : MessageIds, of : Messages \cup {None}]
Lines == ServerAnswer \cup [what : {"own", "junk"}]
Answers == ServerAnswer \cup [what : {"error", "blocked"}]
Error == [what |-> "error"]
Blocked == [what |-> "blocked"]
Answer(id, m) == [what |-> "answer", id |-> id, of |-> m]

ASSUME McpAssumption ==
    /\ IsFiniteSet(Messages)
    /\ MaxServer \in Nat
    /\ None \notin Messages \cup Kinds \cup Answers \cup MessageIds

TypeOK ==
    /\ kind \in [Messages -> Kinds \cup {None}]
    /\ name \in [Messages -> MessageIds \cup {None}]
    /\ main \in {"idle", "relay", "gate", "human", "register", "send", "wait", "pop", "stopped", "died"}
    /\ cur \in Messages \cup {None}
    /\ rid \in Rids \cup {0} /\ asked \in [Messages -> Rids \cup {0}]
    /\ pending \subseteq Rids
    /\ box \in [Rids -> Answers \cup {None}]
    /\ got \in Answers \cup {None}
    /\ atServer \subseteq Requests
    /\ lines \in Seq(Lines) /\ said \in 0..MaxServer
    /\ server \in {"up", "deaf", "exited"}
    /\ closed \in BOOLEAN
    /\ reader \in {"read", "put", "eof", "notify", "done", "dead"}
    /\ holding \in [rid : Rids, of : Messages \cup {None}] \cup {None}
    /\ told \subseteq Rids
    /\ replies \in [Messages -> Seq(Answers)]
    /\ relayedOut \subseteq ServerAnswer
    /\ allowed \subseteq Messages
    /\ learnFailed \in BOOLEAN

Init ==
    /\ kind = [m \in Messages |-> None] /\ name = [m \in Messages |-> None]
    /\ main = "idle" /\ cur = None /\ got = None
    /\ rid = 0 /\ asked = [m \in Messages |-> 0]
    /\ pending = {} /\ box = [r \in Rids |-> None]
    /\ atServer = {} /\ lines = <<>> /\ said = 0 /\ server = "up"
    /\ closed = FALSE /\ reader = "read" /\ holding = None /\ told = {}
    /\ replies = [m \in Messages |-> <<>>] /\ relayedOut = {}
    /\ allowed = {} /\ learnFailed = FALSE

-----------------------------------------------------------------------------
(* The main thread: run, dispatch and the handlers. *)

Reply(m, answer) == replies' = [replies EXCEPT ![m] = Append(@, answer)]

(* A write to the server's stdin.  It blocks while the server does not read.  The
   reader may not have seen yet that the server is gone: then the write fails, or
   goes into a pipe nobody reads. *)
Sends(request) ==
    \/ ~closed /\ server = "up" /\ atServer' = atServer \cup {request}
    \/ ~closed /\ server = "exited" /\ UNCHANGED atServer

SendFails == (closed \/ server = "exited") /\ UNCHANGED atServer

(* Mutant of Relayed: any notification is relayed. *)
RelayedNotes == {"relayed", "note", "gated_note"}

(* What dispatch hands to the server as it is. *)
Relayed == {"relayed", "note"}

(* The id a client may give a message; it is looked at only when it is relayed. *)
Names(m, k) == {ClientId(m)} \cup (IF k \in Relayed THEN {ProxyId(r) : r \in Rids} ELSE {})

(* An exception that dispatch does not catch ends run, which stops the server. *)
Dies ==
    /\ main' = "died" /\ cur' = None
    /\ server' = "exited"

(* The next line of the client. *)
Dispatch(m, k) ==
    /\ main = "idle"
    /\ kind[m] = None
    /\ kind' = [kind EXCEPT ![m] = k]
    /\ \E id \in Names(m, k) : name' = [name EXCEPT ![m] = id]
    /\ \/ /\ k \in Relayed \cup {"gated", "asked"}
          /\ cur' = m
          /\ main' = IF k \in Relayed THEN "relay" ELSE IF k = "gated" THEN "gate" ELSE "register"
          /\ UNCHANGED <<server, replies>>
       \/ /\ k \in {"gated_note", "other_note"} \ Relayed
          /\ UNCHANGED <<main, cur, server, replies>>
       \/ /\ k \in {"refused", "malformed"}
          /\ Reply(m, Error)
          /\ UNCHANGED <<main, cur, server>>
       \/ /\ k = "raising"
          /\ Dies
          /\ UNCHANGED replies
    /\ UNCHANGED <<rid, asked, boxVars, got, atServer, lines, said, readerVars, relayedOut, allowed,
                   learnFailed>>

(* What is relayed goes out under the client's own id; of a failure only who made a
   request hears. *)
Relay ==
    /\ main = "relay"
    /\ \/ Sends([id |-> name[cur], kind |-> kind[cur], of |-> cur]) /\ UNCHANGED replies
       \/ /\ SendFails
          /\ IF kind[cur] = "relayed" THEN Reply(cur, Error) ELSE UNCHANGED replies
    /\ main' = "idle" /\ cur' = None
    /\ UNCHANGED <<kind, name, relayedOut, rid, asked, got, allowed, boxVars, lines, said, server,
                   readerVars, learnFailed>>

(* Mutant of Observed: a trace that failed is tried again. *)
ObservedAgain == TRUE

(* Learner.observer: once it failed it fails. *)
Observed == ~learnFailed

(* gateway.handle_with_result up to the executor: a refusal is a refusal whether
   or not the learner could note it; an allowed call goes on only if it could. *)
Judged ==
    /\ \/ /\ Observed
          /\ main' = "register"
          /\ allowed' = allowed \cup {cur}
          /\ UNCHANGED <<cur, replies, learnFailed>>
       \/ /\ main' = "idle" /\ cur' = None
          /\ Reply(cur, Blocked)
          /\ learnFailed' \in {learnFailed, TRUE}
          /\ UNCHANGED allowed

(* The gateway judges, or has TtyApprover ask first. *)
Gate ==
    /\ main = "gate"
    /\ \/ Judged
       \/ main' = "human" /\ UNCHANGED <<cur, replies, allowed, learnFailed>>
    /\ UNCHANGED <<kind, name, rid, asked, boxVars, got, serverVars, readerVars, relayedOut>>

(* The human at the terminal answers, in his own time. *)
Human ==
    /\ main = "human"
    /\ Judged
    /\ UNCHANGED <<kind, name, rid, asked, boxVars, got, serverVars, readerVars, relayedOut>>

(* Mutant of NextRid: the box is the same for every request. *)
NextRidFixed == 1

NextRid == rid + 1

(* The reader holds _pending_lock only while it tells the boxes of the exit; every
   other use of the lock is one step. *)
LockFree == reader # "notify"

(* request: the box is registered before anything is sent. *)
Register ==
    /\ main = "register"
    /\ LockFree
    /\ main' = "send"
    /\ rid' = NextRid /\ asked' = [asked EXCEPT ![cur] = NextRid]
    /\ pending' = pending \cup {NextRid}
    /\ UNCHANGED <<clientVars, cur, box, got, allowed, serverVars, readerVars, learnFailed>>

Finish(answer) == main' = "pop" /\ got' = answer

Send ==
    /\ main = "send"
    /\ \/ /\ Sends([id |-> ProxyId(rid), kind |-> kind[cur], of |-> cur])
          /\ main' = "wait"
          /\ UNCHANGED got
       \/ SendFails /\ Finish(Error)
    /\ UNCHANGED <<clientVars, cur, rid, asked, allowed, boxVars, lines, said, server,
                   readerVars, learnFailed>>

(* box.get has something. *)
Take ==
    /\ main = "wait"
    /\ box[rid] # None
    /\ Finish(box[rid])
    /\ box' = [box EXCEPT ![rid] = None]
    /\ UNCHANGED <<clientVars, cur, rid, asked, allowed, pending, serverVars, readerVars,
                   learnFailed>>

(* Mutant of Timeout: a silent server is waited for. *)
TimeoutNever == FALSE /\ UNCHANGED vars

(* box.get has nothing after CALL_TIMEOUT_SEC. *)
Timeout ==
    /\ main = "wait"
    /\ box[rid] = None
    /\ Finish(Error)
    /\ UNCHANGED <<clientVars, cur, rid, asked, allowed, boxVars, serverVars, readerVars,
                   learnFailed>>

(* handle_list cannot take apart the result of an answer, and raises. *)
Unreadable == kind[cur] = "asked" /\ got.what = "answer" /\ Dies /\ UNCHANGED replies

(* request's finally, and the handler's reply under the client's id.  An answer may
   be an error of the server's; what it says is not modelled. *)
Pop ==
    /\ main = "pop"
    /\ LockFree
    /\ pending' = pending \ {rid}
    /\ \/ /\ Reply(cur, got)
          /\ main' = "idle" /\ cur' = None
          /\ UNCHANGED server
       \/ Unreadable
    /\ got' = None
    /\ UNCHANGED <<kind, name, rid, asked, allowed, box, atServer, lines, said, readerVars, relayedOut,
                   learnFailed>>

(* The client closed stdin: run ends and terminates the server. *)
Stop ==
    /\ main = "idle"
    /\ main' = "stopped"
    /\ server' = "exited"
    /\ UNCHANGED <<clientVars, cur, rid, asked, got, allowed, boxVars, atServer, lines, said,
                   readerVars, learnFailed>>

-----------------------------------------------------------------------------
(* The server. *)

Says(line) ==
    /\ server # "exited"
    /\ said < MaxServer
    /\ said' = said + 1
    /\ lines' = Append(lines, line)
    /\ UNCHANGED <<clientVars, mainVars, boxVars, atServer, server, readerVars, learnFailed>>

(* It answers a request it got, once more if it likes. *)
ServerAnswers ==
    \E m \in atServer : m.kind \in {"gated", "asked", "relayed"} /\ Says(Answer(m.id, m.of))

(* It makes up an answer to anything, asked or not. *)
ServerInvents == \E id \in MessageIds : Says(Answer(id, None))

(* A request or notification of its own; a line that is a JSON number or null. *)
ServerSpeaks == \E w \in {"own", "junk"} : Says([what |-> w])

(* It reads its stdin no more, or exits. *)
ServerEnds ==
    /\ \/ server = "up" /\ server' \in {"deaf", "exited"}
       \/ server = "deaf" /\ server' = "exited"
    /\ UNCHANGED <<clientVars, mainVars, boxVars, atServer, lines, said, readerVars,
                   learnFailed>>

-----------------------------------------------------------------------------
(* The reader thread: ServerConnection._read. *)

(* The box of the answer's id is registered now. *)
Routes(id) == id.form = "firewall" /\ id.of \in pending

(* One line: an answer to a waiting caller goes to its box, everything else to the
   client as it is, under whatever id.  A scalar raises in the test for "id" and
   ends the thread. *)
ReadLine ==
    /\ reader = "read"
    /\ lines # <<>>
    /\ lines' = Tail(lines)
    /\ LET l == Head(lines) IN
          \/ /\ l.what = "answer" /\ Routes(l.id)
             /\ reader' = "put" /\ holding' = [rid |-> l.id.of, of |-> l.of]
             /\ UNCHANGED relayedOut
          \/ /\ l.what = "answer" /\ ~Routes(l.id)
             /\ relayedOut' = relayedOut \cup {l}
             /\ UNCHANGED <<reader, holding>>
          \/ l.what = "own" /\ UNCHANGED <<reader, holding, relayedOut>>
          \/ l.what = "junk" /\ reader' = "dead" /\ UNCHANGED <<holding, relayedOut>>
    /\ UNCHANGED <<kind, name, replies, mainVars, boxVars, atServer, said, server, told, closed, learnFailed>>

(* box.put blocks while the box is full; the box may have been abandoned. *)
Put ==
    /\ reader = "put"
    /\ box[holding.rid] = None
    /\ box' = [box EXCEPT ![holding.rid] = Answer(ProxyId(holding.rid), holding.of)]
    /\ reader' = "read" /\ holding' = None
    /\ UNCHANGED <<clientVars, mainVars, pending, serverVars, told, closed, learnFailed>>

(* Mutant of Eof: closed is never set. *)
EofUnmarked ==
    /\ reader = "read" /\ lines = <<>> /\ server = "exited"
    /\ reader' = "eof"
    /\ UNCHANGED <<clientVars, mainVars, boxVars, serverVars, holding, told, closed, learnFailed>>

(* The server's stdout ends: closed is set first, so that who registers later is
   refused by send. *)
Eof ==
    /\ reader = "read" /\ lines = <<>> /\ server = "exited"
    /\ closed' = TRUE
    /\ reader' = "eof"
    /\ UNCHANGED <<clientVars, mainVars, boxVars, serverVars, holding, told, learnFailed>>

(* Takes _pending_lock. *)
Lock ==
    /\ reader = "eof"
    /\ reader' = "notify"
    /\ UNCHANGED <<clientVars, mainVars, boxVars, serverVars, holding, told, closed, learnFailed>>

(* One blocking put for each pending box, then the lock is released. *)
Notify ==
    /\ reader = "notify"
    /\ \/ \E r \in pending \ told :
             /\ box[r] = None
             /\ box' = [box EXCEPT ![r] = Error]
             /\ told' = told \cup {r}
             /\ UNCHANGED reader
       \/ /\ pending \subseteq told
          /\ reader' = "done"
          /\ UNCHANGED <<box, told>>
    /\ UNCHANGED <<clientVars, mainVars, pending, serverVars, holding, closed, learnFailed>>

-----------------------------------------------------------------------------
MainStep == Relay \/ Gate \/ Register \/ Send \/ Take \/ Timeout \/ Pop
ReaderStep == ReadLine \/ Put \/ Eof \/ Lock \/ Notify

Next ==
    \/ \E m \in Messages, k \in Kinds : Dispatch(m, k)
    \/ MainStep
    \/ Human
    \/ Stop
    \/ ServerAnswers \/ ServerInvents \/ ServerSpeaks \/ ServerEnds
    \/ ReaderStep

Spec == Init /\ [][Next]_vars

(* Both threads run; nothing is owed by the client, the server or the human. *)
FairSpec == Spec /\ WF_vars(MainStep) /\ WF_vars(ReaderStep)

-----------------------------------------------------------------------------
(* Properties. *)

(* a came under the id that the request of m was made with, and answers that request,
   unless the server made it up or the client called another message by the same id, from
   which nothing keeps it (mcp_proxy.py 100 has it that the ids never collide). *)
IsAnswerTo(m, a) ==
    /\ a.id = ProxyId(asked[m])
    /\ a.of \in {m, None} \/ name[a.of] = a.id

(* The main thread replies to each caller once, and with what came under its own id:
   whatever is late, said twice, or under another id never gets there ("the proxy
   replies to the client under the client's id", mcp_proxy.py 100-101).  An answer to
   a caller's request goes to the client past it, unfiltered, only when the caller
   was replied to already, or was given up with the whole proxy. *)
AnswersMatch ==
    /\ \A m \in Messages : kind[m] \in Handled =>
          /\ Len(replies[m]) <= 1
          /\ \A i \in DOMAIN replies[m] :
                replies[m][i].what = "answer" => IsAnswerTo(m, replies[m][i])
    /\ \A a \in relayedOut :
          a.of # None /\ kind[a.of] \in Handled
              => replies[a.of] # <<>> \/ main = "died"

(* "A blocked call never reaches the server", nor does a gated method sent as a
   notification (mcp_proxy.py 6-9), nor a call once the trace failed ("every call
   is refused until the proxy restarts", 39-41): what reaches it is relayed by
   kind, asked by the proxy itself, or allowed and not told to be blocked. *)
OnlyAllowedReachServer ==
    [][\A s \in atServer' \ atServer :
        \/ s.kind \in {"relayed", "note"} /\ s.id = name[s.of]
        \/ s.kind = "asked" /\ s.id = ProxyId(rid)
        \/ /\ s.kind = "gated" /\ s.id = ProxyId(rid) /\ ~learnFailed
           /\ s.of \in allowed /\ replies[s.of] = <<>>]_vars

(* Nobody waits out the timeout for a server that is known to be gone: when the
   reader has told everybody, a caller still waiting has something in its box
   (mcp_proxy.py 149-152, and the test of closed in send). *)
NoLostWakeup == reader = "done" /\ main = "wait" => box[rid] # None

(* The reader holds _pending_lock and waits for room in a box that only the main
   thread could empty, and the main thread has given that box up and waits for
   the lock. *)
Jammed ==
    /\ reader = "notify" /\ main = "pop"
    /\ pending \ told # {}
    /\ \A r \in pending \ told : box[r] # None

(* The main thread is stopped by what has no timeout: an uncaught exception ended it,
   the server does not read what is written to it, a human has not answered. *)
Held ==
    \/ main = "died"
    \/ server = "deaf" /\ main \in {"relay", "send"}
    \/ main = "human"

(* Every request that dispatch answers itself is answered, whatever the server says or
   fails to say: by its answer, its exit, or the timeout (mcp_proxy.py 109-116,
   149-152); except in the one jam, and where nothing bounds the wait (95, 312,
   399-413). *)
AnsweredOrJammed ==
    \A m \in Messages : kind[m] \in Handled ~> (replies[m] # <<>> \/ Jammed \/ Held)

(* "did not answer ... within" (mcp_proxy.py 112): a server that reads and does not
   answer is reported to the client after CALL_TIMEOUT_SEC.  The code does not keep
   this: see Jammed. *)
AlwaysAnswered ==
    \A m \in Messages : kind[m] \in Handled ~> (replies[m] # <<>> \/ Held)
=============================================================================
