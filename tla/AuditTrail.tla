------------------------------ MODULE AuditTrail ------------------------------
(***************************************************************************)
(* What the firewall promises of its audit trail, whatever the number of   *)
(* processes, crashes and failed writes (the "Ordering invariants" of      *)
(* gateway.py): an action is performed only after a durable promise of it, *)
(* at most once, never after the trail says how it ended, and the trail    *)
(* never says of an action something that did not happen.                  *)
(* Gateway implements this module.                                         *)
(***************************************************************************)
CONSTANT Ids                    \* the actions, by action id

VARIABLES promised,             \* actions with a durable intent
          done,                 \* actions that had their effect
          settled               \* durable outcomes: records [id, out]

trailVars == <<promised, done, settled>>

Settlements == [id : Ids, out : {"executed", "error", "not_executed"}]

IsSettled(id) == \E r \in settled : r.id = id

Init == promised = {} /\ done = {} /\ settled = {}

(* The effect: promised, not settled yet, not had before. *)
Perform(id) ==
    /\ id \in promised \ done
    /\ ~IsSettled(id)
    /\ done' = done \cup {id}
    /\ UNCHANGED <<promised, settled>>

(* One write-back of the store makes some promises and some outcomes durable. *)
Commit(P, R) ==
    /\ \A r \in R :
          /\ \A s \in settled \cup R : s.id = r.id => s = r
          /\ r.out \in {"executed", "error"} => r.id \in promised \cup P
          /\ r.out = "executed" => r.id \in done
          /\ r.out = "not_executed" => r.id \notin done
    /\ promised' = promised \cup P
    /\ settled' = settled \cup R
    /\ UNCHANGED done

Next == \/ \E id \in Ids : Perform(id)
        \/ \E P \in SUBSET Ids, R \in SUBSET Settlements : Commit(P, R)

TrailSpec == Init /\ [][Next]_trailVars
=============================================================================
