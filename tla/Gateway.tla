------------------------------- MODULE Gateway -------------------------------
(***************************************************************************)
(* gateway.py with the audit store it writes to (audit.py), the approver   *)
(* (approval.py) and the executor's effect.  Several gateway processes,    *)
(* the MCP proxy's and one per agent-hook call, append to one log; each is *)
(* sequential and may be killed at any step, the machine may go down, and  *)
(* every write may fail.                                                   *)
(*                                                                         *)
(* A record is in three places on its way: the process's file buffer (buf) *)
(* where a failed flush leaves it, the page cache (cache), and the disk.   *)
(* What the policy answers is an input here; the Policy module decides it. *)
(***************************************************************************)
EXTENDS FiniteSets

CONSTANTS Gateways,             \* processes that open the log
          Ids,                  \* requests; an allowed one's id is its action_id
          None                  \* no request, no owner

ASSUME NoneAssumption == None \notin Gateways \cup Ids

VARIABLES pc,                   \* [Gateways -> where the call is]
          cur,                  \* [Gateways -> the request being handled]
          out,                  \* [Gateways -> outcome field of the record being logged]
          broken,               \* [Gateways -> _broken]
          opened,               \* [Gateways -> self.audit is not None]
          buf,                  \* [Gateways -> records a failed flush left buffered]
          cache,                \* records written to the file and not synced
          disk,                 \* durable records
          effects,              \* requests whose effect happened
          answer,               \* [Ids -> what the caller was told]
          owner,                \* [Ids -> the gateway that got the request]
          ruling,               \* [Ids -> what the policy decided]
          relaxed,              \* [Ids -> the ruling after decide's relax]
          approved,             \* requests a human approved
          stderr                \* lines of AuditLogger.poison: who wrote it, which action id

procVars == <<pc, cur, out, broken, opened, buf>>
storeVars == <<cache, disk>>
requestVars == <<owner, ruling, relaxed, approved>>
vars == <<pc, cur, out, broken, opened, buf, cache, disk, effects, answer,
          owner, ruling, relaxed, approved, stderr>>

Decisions == {"allow", "require_approval", "block"}
Promises == {"intent", "delegated"}             \* logged with strict=True
Outcomes == {"executed", "error", "not_executed"}
Records == [id : Ids, out : Promises \cup Outcomes]
Notices == [by : Gateways, id : Ids \cup {None}]  \* None: "action_id=unknown"
Answers == {"none", "executed", "error", "not_executed", "delegated", "closed"}
Steps == {"down", "idle", "approve", "flush", "fsync", "observe", "dispatch"}

TypeOK ==
    /\ pc \in [Gateways -> Steps]
    /\ cur \in [Gateways -> Ids \cup {None}]
    /\ out \in [Gateways -> Promises \cup Outcomes]
    /\ broken \in [Gateways -> BOOLEAN]
    /\ opened \in [Gateways -> BOOLEAN]
    /\ buf \in [Gateways -> SUBSET Records]
    /\ cache \subseteq Records
    /\ disk \subseteq Records
    /\ effects \subseteq Ids
    /\ answer \in [Ids -> Answers]
    /\ owner \in [Ids -> Gateways \cup {None}]
    /\ ruling \in [Ids -> Decisions \cup {"none"}]
    /\ relaxed \in [Ids -> Decisions \cup {"none"}]
    /\ approved \subseteq Ids
    /\ stderr \subseteq Notices

Init ==
    /\ pc = [g \in Gateways |-> "down"]
    /\ cur = [g \in Gateways |-> None]
    /\ out = [g \in Gateways |-> "not_executed"]
    /\ broken = [g \in Gateways |-> FALSE]
    /\ opened = [g \in Gateways |-> FALSE]
    /\ buf = [g \in Gateways |-> {}]
    /\ cache = {} /\ disk = {} /\ effects = {}
    /\ answer = [id \in Ids |-> "none"]
    /\ owner = [id \in Ids |-> None]
    /\ ruling = [id \in Ids |-> "none"]
    /\ relaxed = [id \in Ids |-> "none"]
    /\ approved = {} /\ stderr = {}

-----------------------------------------------------------------------------
(* Process life. *)

(* Gateway.__init__: without an audit store the gateway starts broken. *)
Start(g) ==
    /\ pc[g] = "down"
    /\ pc' = [pc EXCEPT ![g] = "idle"]
    /\ \E ok \in BOOLEAN :
          /\ opened' = [opened EXCEPT ![g] = ok]
          /\ broken' = [broken EXCEPT ![g] = ~ok]
    /\ UNCHANGED <<cur, out, buf, effects, answer, stderr, storeVars, requestVars>>

Stopped(g) ==
    /\ pc' = [pc EXCEPT ![g] = "down"]
    /\ cur' = [cur EXCEPT ![g] = None]
    /\ out' = [out EXCEPT ![g] = "not_executed"]
    /\ broken' = [broken EXCEPT ![g] = FALSE]
    /\ opened' = [opened EXCEPT ![g] = FALSE]
    /\ buf' = [buf EXCEPT ![g] = {}]

(* AuditLogger.close, or the interpreter's exit: what a failed flush left in
   the buffer gets one more chance, without lock and without fsync. *)
Exit(g) ==
    /\ pc[g] = "idle"
    /\ Stopped(g)
    /\ \E S \in {{}, buf[g]} : cache' = cache \cup S
    /\ UNCHANGED <<disk, effects, answer, stderr, requestVars>>

Kill(g) ==
    /\ pc[g] # "down"
    /\ Stopped(g)
    /\ UNCHANGED <<effects, answer, stderr, storeVars, requestVars>>

(* The machine goes down: every process dies and the page cache is lost. *)
PowerLoss ==
    /\ pc' = [g \in Gateways |-> "down"]
    /\ cur' = [g \in Gateways |-> None]
    /\ out' = [g \in Gateways |-> "not_executed"]
    /\ broken' = [g \in Gateways |-> FALSE]
    /\ opened' = [g \in Gateways |-> FALSE]
    /\ buf' = [g \in Gateways |-> {}]
    /\ cache' = {}
    /\ UNCHANGED <<disk, effects, answer, stderr, requestVars>>

(* The kernel writes pages back when it likes. *)
Writeback ==
    /\ \E S \in SUBSET cache \ {{}} :
          /\ disk' = disk \cup S
          /\ cache' = cache \ S
    /\ UNCHANGED <<effects, answer, stderr, procVars, requestVars>>

-----------------------------------------------------------------------------
(* A request. *)

(* Goes to _record: the record is built, then logged by Flush and Fsync. *)
Log(g, id, o) ==
    /\ cur' = [cur EXCEPT ![g] = id]
    /\ out' = [out EXCEPT ![g] = o]
    /\ pc' = [pc EXCEPT ![g] = "flush"]

Reply(g, id, a) ==
    /\ answer' = [answer EXCEPT ![id] = a]
    /\ cur' = [cur EXCEPT ![g] = None]
    /\ out' = [out EXCEPT ![g] = "not_executed"]
    /\ pc' = [pc EXCEPT ![g] = "idle"]

Arrives(g, id) ==
    /\ pc[g] = "idle"
    /\ owner[id] = None
    /\ owner' = [owner EXCEPT ![id] = g]

(* Mutant of Sound: the self._broken test at the top of a handler is missing. *)
SoundUntested(g) == TRUE

Sound(g) == ~broken[g]

(* The refusal of a broken gateway: _record writes it if there is a store. *)
FailClosed(g, id) ==
    /\ broken[g]
    /\ IF opened[g]
          THEN Log(g, id, "not_executed") /\ UNCHANGED answer
          ELSE Reply(g, id, "closed")
    /\ UNCHANGED <<ruling, relaxed>>

(* policy.evaluate said d, and relax (decide only) made r of it. *)
Ruled(id, d, r) ==
    /\ ruling' = [ruling EXCEPT ![id] = d]
    /\ relaxed' = [relaxed EXCEPT ![id] = r]

(* handle_with_result, up to the first record. *)
Handle(g, id, d) ==
    /\ Arrives(g, id)
    /\ \/ FailClosed(g, id)
       \/ /\ Sound(g)
          /\ Ruled(id, d, d)
          /\ CASE d = "allow" -> Log(g, id, "intent")
               [] d = "block" -> Log(g, id, "not_executed")
               [] d = "require_approval" ->
                     /\ pc' = [pc EXCEPT ![g] = "approve"]
                     /\ cur' = [cur EXCEPT ![g] = id]
                     /\ UNCHANGED out
          /\ UNCHANGED answer
    /\ UNCHANGED <<broken, opened, buf, effects, approved, stderr, storeVars>>

(* approver.approve: the human says yes, or denies or does not answer in time. *)
Approve(g) ==
    /\ pc[g] = "approve"
    /\ \/ /\ Log(g, cur[g], "intent")
          /\ approved' = approved \cup {cur[g]}
       \/ /\ Log(g, cur[g], "not_executed")
          /\ UNCHANGED approved
    /\ UNCHANGED <<broken, opened, buf, effects, answer, stderr, owner, ruling, relaxed, storeVars>>

(* Mutant of MayRelax: decide trusts whatever relax returns. *)
MayRelaxAnyhow(d, r) == TRUE

MayRelax(d, r) == r = "allow" => d = "allow"

(* decide: d is the policy's decision and r what relax made of it (an allow only
   out of an allow: anything else raises and is no decision); ask tells whether
   the caller leaves the approval to its host. *)
Decide(g, id, d, r, ask) ==
    /\ Arrives(g, id)
    /\ \/ FailClosed(g, id)
       \/ /\ Sound(g)
          /\ MayRelax(d, r)
          /\ Ruled(id, d, r)
          /\ IF r = "allow" \/ (r = "require_approval" /\ ask)
                THEN Log(g, id, "delegated")
                ELSE Log(g, id, "not_executed")
          /\ UNCHANGED answer
    /\ UNCHANGED <<broken, opened, buf, effects, approved, stderr, storeVars>>

(* refuse: input that is no request at all is recorded as a block, by a broken
   gateway too. *)
Refuse(g, id) ==
    /\ Arrives(g, id)
    /\ Ruled(id, "block", "block")
    /\ IF opened[g]
          THEN Log(g, id, "not_executed") /\ UNCHANGED answer
          ELSE Reply(g, id, "closed")
    /\ UNCHANGED <<broken, opened, buf, effects, approved, stderr, storeVars>>

-----------------------------------------------------------------------------
(* AuditLogger.log inside _record. *)

Entry(g) == [id |-> cur[g], out |-> out[g]]

(* Where the call goes once its record is durable. *)
Recorded(g) ==
    IF out[g] = "intent"
       THEN /\ pc' = [pc EXCEPT ![g] = "observe"]
            /\ UNCHANGED <<cur, out, answer>>
       ELSE Reply(g, cur[g], out[g])

(* Mutant of NamesAction: the observer's refusal is recorded without the action
   id of the intent it settles. *)
NamesActionUnsettled(g) == out[g] \in {"intent", "executed", "error"}

(* The record has an action_id: an intent, and what settles an intent (an outcome,
   or the refusal of an observer that failed), never a block or a delegation. *)
NamesAction(g) ==
    \/ out[g] \in {"intent", "executed", "error"}
    \/ [id |-> cur[g], out |-> "intent"] \in disk

(* _record's except: the gateway is broken from now on, and poison prints the
   record's action_id, or "unknown". *)
Poison(g) ==
    /\ broken' = [broken EXCEPT ![g] = TRUE]
    /\ stderr' = stderr \cup {[by |-> g, id |-> IF NamesAction(g) THEN cur[g] ELSE None]}

(* Mutant of Unrecorded: the record is returned as if it had been written. *)
UnrecordedAsRecorded(g) == Poison(g) /\ Reply(g, cur[g], out[g])

(* A strict record (an intent, a delegation) that cannot be written turns the call
   into _unrecorded_block; after dispatch the outcome is returned anyway. *)
Unrecorded(g) ==
    /\ Poison(g)
    /\ Reply(g, cur[g], IF out[g] \in Promises THEN "not_executed" ELSE out[g])

(* write and flush: all that is buffered goes to the file, or stays buffered, or
   (the lock cannot be had) nothing is even buffered. *)
Flush(g) ==
    /\ pc[g] = "flush"
    /\ \/ /\ cache' = cache \cup buf[g] \cup {Entry(g)}
          /\ buf' = [buf EXCEPT ![g] = {}]
          /\ pc' = [pc EXCEPT ![g] = "fsync"]
          /\ UNCHANGED <<cur, out, broken, answer, stderr>>
       \/ /\ Unrecorded(g)
          /\ \E S \in {{}, {Entry(g)}} : buf' = [buf EXCEPT ![g] = @ \cup S]
          /\ UNCHANGED cache
    /\ UNCHANGED <<opened, disk, effects, requestVars>>

(* The record is durable, with some of what others have in the cache. *)
Synced(g) ==
    \E S \in SUBSET cache :
       /\ disk' = disk \cup S \cup {Entry(g)}
       /\ cache' = cache \ (S \cup {Entry(g)})

(* Mutant of Fsync: an fsync that fails is ignored. *)
FsyncUnchecked(g) ==
    /\ pc[g] = "fsync"
    /\ Synced(g) \/ UNCHANGED storeVars
    /\ Recorded(g)
    /\ UNCHANGED <<broken, stderr, opened, buf, effects, requestVars>>

(* os.fsync, that may fail and leave the record in the cache. *)
Fsync(g) ==
    /\ pc[g] = "fsync"
    /\ \/ Synced(g) /\ Recorded(g) /\ UNCHANGED <<broken, stderr>>
       \/ Unrecorded(g) /\ UNCHANGED storeVars
    /\ UNCHANGED <<opened, buf, effects, requestVars>>

-----------------------------------------------------------------------------
(* After the intent. *)

(* Mutant of Observe: the observer gets the record after the action ran. *)
ObserveTooLate(g) ==
    /\ pc[g] = "observe"
    /\ \/ /\ pc' = [pc EXCEPT ![g] = "dispatch"]
          /\ UNCHANGED <<cur, out, effects>>
       \/ /\ Log(g, cur[g], "not_executed")
          /\ effects' = effects \cup {cur[g]}
    /\ UNCHANGED <<broken, opened, buf, answer, stderr, storeVars, requestVars>>

(* observe(intent): an observer that fails turns the action into a refusal with
   the same action id. *)
Observe(g) ==
    /\ pc[g] = "observe"
    /\ \/ /\ pc' = [pc EXCEPT ![g] = "dispatch"]
          /\ UNCHANGED <<cur, out>>
       \/ Log(g, cur[g], "not_executed")
    /\ UNCHANGED <<broken, opened, buf, effects, answer, stderr, storeVars, requestVars>>

(* executor.execute: it returns a result, or raises before, during or after its
   effect. *)
Dispatch(g) ==
    /\ pc[g] = "dispatch"
    /\ \/ /\ effects' = effects \cup {cur[g]}
          /\ Log(g, cur[g], "executed")
       \/ /\ \E S \in {{}, {cur[g]}} : effects' = effects \cup S
          /\ Log(g, cur[g], "error")
    /\ UNCHANGED <<broken, opened, buf, answer, stderr, storeVars, requestVars>>

(* The agent host runs a call that decide delegated; one the policy wants
   approved, only after its own human said yes. *)
HostRuns(id) ==
    /\ answer[id] = "delegated"
    /\ id \notin effects
    /\ effects' = effects \cup {id}
    /\ approved' = approved \cup (IF relaxed[id] = "require_approval" THEN {id} ELSE {})
    /\ UNCHANGED <<answer, owner, ruling, relaxed, stderr, procVars, storeVars>>

-----------------------------------------------------------------------------
Request(g, id) ==
    \/ \E d \in Decisions : Handle(g, id, d)
    \/ \E d, r \in Decisions, ask \in BOOLEAN : Decide(g, id, d, r, ask)
    \/ Refuse(g, id)

Step(g) ==
    \/ Start(g) \/ Exit(g) \/ Kill(g)
    \/ \E id \in Ids : Request(g, id)
    \/ Approve(g) \/ Flush(g) \/ Fsync(g) \/ Observe(g) \/ Dispatch(g)

Next ==
    \/ \E g \in Gateways : Step(g)
    \/ \E id \in Ids : HostRuns(id)
    \/ PowerLoss
    \/ Writeback

Spec == Init /\ [][Next]_vars

-----------------------------------------------------------------------------
(* Properties. *)

Promised == {r.id : r \in {s \in disk : s.out \in Promises}}
Settled == {r \in disk : r.out \in Outcomes}

(* "If the intent cannot be written, the action is not dispatched" (gateway.py
   5-9): whatever was killed, lost or refused by the disk, an action that had
   an effect has its intent or delegation on the disk. *)
IntentBeforeEffect == effects \subseteq Promised

(* "Denied actions ... never execute" (gateway.py 4): what the caller was told
   is refused, or the disk records as not executed, had no effect, even when a
   buffered record of an earlier attempt reaches the disk later. *)
RefusedNeverRuns ==
    \A id \in Ids :
        \/ answer[id] \in {"not_executed", "closed"}
        \/ [id |-> id, out |-> "not_executed"] \in disk
        => id \notin effects

(* "it never yields an allow" (gateway.py 151): the policy's word is kept through
   approval, relaxation and failures.  An effect was allowed by the policy and
   left so, or a human approved that very request. *)
RunsAllowedOrApproved ==
    \A id \in effects \ approved : ruling[id] = "allow" /\ relaxed[id] = "allow"

(* "audited BEFORE returning" (gateway.py 4): every answer of a gateway with an
   audit store is on the disk when the caller gets it, or its failure was said on
   stderr.  What had an intent on the disk is named there by its action id, so that
   no intent is left open in silence; for other refusals stderr says "unknown". *)
AnsweredIsOnRecord ==
    \A id \in Ids :
        answer[id] \notin {"none", "closed"}
            => \/ [id |-> id, out |-> answer[id]] \in disk
               \/ [by |-> owner[id], id |-> id] \in stderr
               \/ /\ answer[id] = "not_executed"
                  /\ [id |-> id, out |-> "intent"] \notin disk
                  /\ [by |-> owner[id], id |-> None] \in stderr

(* "If any audit write fails, the gateway poisons itself and denies everything
   afterwards" (gateway.py 10): a broken gateway executes nothing and delegates
   nothing until it is restarted. *)
PoisonedStaysPoisoned ==
    [][\A g \in Gateways : broken[g] =>
          /\ broken'[g] \/ pc'[g] = "down"
          /\ \A id \in Ids : owner[id] = g => 
                /\ answer'[id] = answer[id] \/ answer'[id] # "delegated"
                /\ pc[g] = "dispatch" => id \notin effects' \ effects]_vars

Trail == INSTANCE AuditTrail
            WITH promised <- Promised, done <- effects, settled <- Settled

(* The gateways together implement the abstract audit trail. *)
ImplementsTrail == Trail!TrailSpec
=============================================================================
