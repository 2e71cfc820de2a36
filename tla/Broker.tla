-------------------------------- MODULE Broker --------------------------------
(***************************************************************************)
(* Delegated credentials: TokenBroker (credentials.py), the executor's     *)
(* api.call (executor.py) and the resource servers that introspect the     *)
(* bearer (mock_apis.py).                                                  *)
(*                                                                         *)
(* A user delegates, delegates again or revokes at any moment: before the  *)
(* exchange, between the exchange and the call, after it.  Time passes in  *)
(* between.  A token is a bearer value, so besides the executor that minted*)
(* it anybody may present it, at any server, for any operation.            *)
(***************************************************************************)
EXTENDS Naturals

CONSTANTS Subjects,             \* users that delegate
          Audiences,            \* resource servers
          Scopes,
          Operations,
          Rules,                \* config.apis: records [aud, op, scope] not blocked
          ApiOps,               \* MockApi.operations: records [aud, op, scope]
          Offers,               \* the consents users give
          Agents,               \* executors, each inside one call at a time
          Jtis,                 \* token identities (bounds the tokens minted)
          TTL,                  \* ttl_sec
          MaxTime,              \* bound: the clock stops here
          NoGrant

Consents == [Audiences -> SUBSET Scopes]
OpRecords == [aud : Audiences, op : Operations, scope : Scopes]

ASSUME BrokerAssumption ==
    /\ TTL \in Nat /\ MaxTime \in Nat
    /\ Offers \subseteq Consents
    /\ Rules \subseteq OpRecords /\ ApiOps \subseteq OpRecords
    /\ NoGrant \notin Consents

VARIABLES grants,               \* _grants: [Subjects -> consent or NoGrant]
          revoked,              \* Grant.revoked of the subject's current grant
          tokens,               \* _tokens
          hand,                 \* [Agents -> NoGrant or the token and rule in use]
          calls,                \* MockApi.calls
          now

credentials == <<grants, revoked, tokens, hand, calls, now>>

(* An access token, with two history fields: when and under which consent it was
   minted. *)
Tokens == [jti : Jtis, sub : Subjects, aud : Audiences, scope : SUBSET Scopes,
           exp : Nat, at : Nat, under : Consents]

Calls == [jti : Jtis, sub : Subjects, aud : Audiences, op : Operations, scope : Scopes, at : Nat]

BrokerTypeOK ==
    /\ grants \in [Subjects -> Consents \cup {NoGrant}]
    /\ revoked \in [Subjects -> BOOLEAN]
    /\ tokens \subseteq Tokens
    /\ hand \in [Agents -> [token : Tokens, rule : Rules] \cup {NoGrant}]
    /\ calls \subseteq Calls
    /\ now \in Nat

BrokerInit ==
    /\ grants = [s \in Subjects |-> NoGrant]
    /\ revoked = [s \in Subjects |-> FALSE]
    /\ tokens = {}
    /\ hand = [a \in Agents |-> NoGrant]
    /\ calls = {}
    /\ now = 0

-----------------------------------------------------------------------------
(* delegate: a new, unrevoked grant replaces the earlier one.  The tokens minted
   under that one stay in _tokens. *)
Delegate(s, c) ==
    /\ grants' = [grants EXCEPT ![s] = c]
    /\ revoked' = [revoked EXCEPT ![s] = FALSE]
    /\ UNCHANGED <<tokens, hand, calls, now>>

Revoke(s) ==
    /\ grants[s] # NoGrant
    /\ revoked' = [revoked EXCEPT ![s] = TRUE]
    /\ UNCHANGED <<grants, tokens, hand, calls, now>>

Active(s) == grants[s] # NoGrant /\ ~revoked[s]

Fresh(jti) == \A t \in tokens : t.jti # jti

(* Mutant of Minted: the token carries all the user granted on that server. *)
MintedWide(jti, s, r) ==
    [jti |-> jti, sub |-> s, aud |-> r.aud, scope |-> grants[s][r.aud] \cup {r.scope},
     exp |-> now + TTL, at |-> now, under |-> grants[s]]

Minted(jti, s, r) ==
    [jti |-> jti, sub |-> s, aud |-> r.aud, scope |-> {r.scope},
     exp |-> now + TTL, at |-> now, under |-> grants[s]]

Exchangeable(s, r) == Active(s) /\ r.scope \in grants[s][r.aud]

(* _api_call up to the token: an operation the policy let through, with the scope
   of its rule.  A refused exchange ends the call and changes nothing. *)
Exchange(a, s, r, jti) ==
    /\ hand[a] = NoGrant
    /\ Fresh(jti)
    /\ Exchangeable(s, r)
    /\ tokens' = tokens \cup {Minted(jti, s, r)}
    /\ hand' = [hand EXCEPT ![a] = [token |-> Minted(jti, s, r), rule |-> r]]
    /\ UNCHANGED <<grants, revoked, calls, now>>

(* Mutants of Introspect: each forgets one test. *)
IntrospectNoAudience(t, o) == Active(t.sub) /\ now < t.exp /\ o.scope \in t.scope
IntrospectNoRevocation(t, o) == now < t.exp /\ t.aud = o.aud /\ o.scope \in t.scope
IntrospectLate(t, o) == Active(t.sub) /\ now <= t.exp /\ t.aud = o.aud /\ o.scope \in t.scope

(* introspect: active, for this server, with the scope the operation needs.  It
   asks for the subject's grant of today, not for the one the token is from. *)
Introspect(t, o) ==
    /\ Active(t.sub)
    /\ now < t.exp
    /\ t.aud = o.aud
    /\ o.scope \in t.scope

(* MockApi.call: the operation is recorded only with an active token. *)
Accepts(t, o) ==
    IF Introspect(t, o)
       THEN calls' = calls \cup {[jti |-> t.jti, sub |-> t.sub, aud |-> o.aud,
                                  op |-> o.op, scope |-> o.scope, at |-> now]}
       ELSE UNCHANGED calls

(* The rest of _api_call: the token is used once and dropped, whether the server
   answers or raises PermissionError. *)
Use(a) ==
    /\ hand[a] # NoGrant
    /\ \/ \E o \in ApiOps :
             /\ o.aud = hand[a].rule.aud /\ o.op = hand[a].rule.op
             /\ Accepts(hand[a].token, o)
       \/ /\ \A o \in ApiOps : o.aud # hand[a].rule.aud \/ o.op # hand[a].rule.op
          /\ UNCHANGED calls
    /\ hand' = [hand EXCEPT ![a] = NoGrant]
    /\ UNCHANGED <<grants, revoked, tokens, now>>

(* Whoever has the bearer value presents it, anywhere. *)
Present(t, o) ==
    /\ Accepts(t, o)
    /\ UNCHANGED <<grants, revoked, tokens, hand, now>>

Tick == now < MaxTime /\ now' = now + 1 /\ UNCHANGED <<grants, revoked, tokens, hand, calls>>

BrokerNext ==
    \/ \E s \in Subjects, c \in Offers : Delegate(s, c)
    \/ \E s \in Subjects : Revoke(s)
    \/ \E a \in Agents, s \in Subjects, r \in Rules, jti \in Jtis : Exchange(a, s, r, jti)
    \/ \E a \in Agents : Use(a)
    \/ \E t \in tokens, o \in ApiOps : Present(t, o)
    \/ Tick

BrokerSpec == BrokerInit /\ [][BrokerNext]_credentials

-----------------------------------------------------------------------------
(* Properties. *)

(* Whoever presented which token where, what a server did for a user lies in the
   consent that user had given when the token was minted, on that server, and
   less than ttl_sec ago (README.md, "one audience, exactly the scope that
   operation needs, five minutes of life"). *)
CallsWereConsented ==
    \A c \in calls : \E t \in tokens :
        /\ t.jti = c.jti /\ t.sub = c.sub
        /\ c.scope \in t.under[c.aud]
        /\ t.at <= c.at /\ c.at < t.at + TTL

(* Every token is the least one for some rule of the policy: a server does
   nothing for a scope the policy never lets the agent use. *)
CallsWithinPolicy == \A c \in calls : \E r \in Rules : r.aud = c.aud /\ r.scope = c.scope

(* "no new tokens, and every live token stops working" (credentials.py 76):
   while a user's grant stands revoked nothing is minted or done in its name,
   by an executor that is between exchange and call either. *)
RevocationHolds ==
    [][\A s \in Subjects : ~Active(s) =>
          /\ \A t \in tokens' \ tokens : t.sub # s
          /\ \A c \in calls' \ calls : c.sub # s]_credentials
=============================================================================
