------------------------------- MODULE MCBroker -------------------------------
(* Broker for TLC: one user, two servers with the same scope names, so that a
   token taken to the wrong server has a scope that means something there.
   "delete" is an operation the server has and the policy does not know. *)
EXTENDS Broker, TLC

CONSTANTS u, calendar, mail, read, write, list, send, delete

Symmetry == Permutations(Jtis)

MCRules == {[aud |-> calendar, op |-> list, scope |-> read],
            [aud |-> mail, op |-> list, scope |-> read],
            [aud |-> mail, op |-> send, scope |-> read]}
MCApiOps == {[aud |-> calendar, op |-> list, scope |-> read],
             [aud |-> mail, op |-> list, scope |-> read],
             [aud |-> mail, op |-> delete, scope |-> write]}

(* Everything; only the calendar; only reading mail. *)
MCOffers == {[a \in Audiences |-> Scopes],
             [a \in Audiences |-> IF a = calendar THEN Scopes ELSE {}],
             [a \in Audiences |-> IF a = mail THEN {read} ELSE {}]}
=============================================================================
