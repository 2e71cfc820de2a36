--------------------------------- MODULE Learn ---------------------------------
(***************************************************************************)
(* learn.py: from what sessions did to a policy.  The hook and the MCP     *)
(* proxy append an observation per request to the learning trace and the   *)
(* hook a record per call that ran; propose reads the traces back, judges  *)
(* every request again by the policy of today, gathers the grants that its *)
(* evidence supports, and checks what it made of them before it shows it.  *)
(* The operator may adopt the proposal, go on recording and propose again, *)
(* from all the trace files, given in any order.                           *)
(*                                                                         *)
(* A policy is the set of its grants.  Engine is Policy, the model of      *)
(* policy.py: it judges here as it does there.  How hooks run beside each  *)
(* other and fail is in HookSession.                                       *)
(***************************************************************************)
EXTENDS Naturals, Sequences, FiniteSets

CONSTANTS Grammar,              \* binaries with an argument grammar
          Programs,             \* binaries without one that shell_ask can name
          Scripts,              \* programs spelled with a path: it cannot name them
          Args,                 \* the words after the program
          Dirs,                 \* first directories under the sandbox root
          Origins, Tools,       \* of the web, and of the proxy's one server
          Other,                \* what no grant names: VAR=value, a file in the root, a POST
          Sessions,             \* session ids
          Hooks,                \* those of the hook; the others are the proxy's
          NoSession,            \* the session of a record that has none
          Files,                \* trace files: which one is written is an option of the hook
          Acts,                 \* the requests agents make
          Policies,             \* the policies operators start from
          MaxRequests,          \* bound: requests
          MaxSteps,             \* bound: requests, failures and proposals adopted
          MaxOpen               \* bound: requests judged and not yet written down

VARIABLES policy,               \* the grants of the policy file
          drop,                 \* --drop-unused of the last proposal
          tainted,              \* sessions whose taint is remembered
          made,                 \* history: every request, in the order of judging
          trace,                \* observations of the trace files, in the order propose
                                \* read them last, and after these as they were written
          ran,                  \* correlation ids of the ran records of all of them
          no,                   \* history: calls that were asked about and not approved
          stage,                \* what the operator is at
          read,                 \* observations propose has been through
          taintedBy,            \* sessions it takes for tainted
          used, new, listed,    \* grants: seen in use, to add, for a human to decide
          proposal,             \* the policy it proposes
          round,                \* proposals adopted
          basis,                \* history: what was recorded when the last one was
          troubles              \* how much has gone wrong

records == <<tainted, made, trace, ran, no>>
reading == <<read, taintedBy, used, new, listed>>
vars == <<policy, drop, records, stage, reading, proposal, round, basis, troubles>>

Engine == INSTANCE Policy WITH
    MaxWords <- 1, tainted <- FALSE, request <- [tool |-> "none"], went <- FALSE

-----------------------------------------------------------------------------
(* Requests and grants. *)

Places == {"inside", "protected", "outside"}
Binaries == Grammar \cup Programs \cup Scripts
NoAct == [tool |-> "unrecorded"]

(* `of` is what a grant would name, `at` where its one path, word or string lies: for the
   same words of a command that depends on the directory it is run from. *)
AllActs ==
    UNION {[tool : {"fs.write"}, of : Dirs \cup {Other}, at : Places, secret : BOOLEAN],
           [tool : {"fs.read"}, of : {Other}, at : Places, secret : BOOLEAN],
           [tool : {"shell.run"}, of : Binaries \cup {Other}, args : Args, at : Places,
            secret : BOOLEAN],
           [tool : {"net.request"}, of : Origins \cup {Other}, at : {"inside"}, secret : BOOLEAN],
           [tool : {"mcp.call"}, of : Tools, at : Places, secret : BOOLEAN]}

Grant(key, of) == [key |-> key, of |-> of]
Exact(a) == Grant("shell_exact", <<a.of, a.args>>)
AllGrants ==
    [key : {"writable_dirs"}, of : Dirs \cup {Other}]
      \cup [key : {"shell_allowlist", "shell_ask"}, of : Binaries]
      \cup [key : {"shell_exact"}, of : Binaries \X Args]
      \cup [key : {"network.allow"}, of : Origins] \cup [key : {"mcp_registry"}, of : Tools]

ASSUME LearnAssumption ==
    /\ Acts \subseteq AllActs /\ Policies \subseteq SUBSET AllGrants
    /\ \A p \in Policies, b \in Binaries :
          ~({Grant("shell_allowlist", b), Grant("shell_ask", b)} \subseteq p)
    /\ Grammar \cap Programs = {}
    /\ Other \notin Binaries \cup Dirs \cup Origins
    /\ Hooks \subseteq Sessions /\ NoSession \notin Sessions
    /\ MaxRequests \in Nat /\ MaxSteps \in Nat /\ MaxOpen \in Nat

(* The first grant of the three that the policy has, of sh-ok, sh-exact and sh-ask. *)
ShellGrant(p, a) ==
    IF Grant("shell_allowlist", a.of) \in p THEN "sh-ok"
    ELSE IF Exact(a) \in p THEN "sh-exact"
    ELSE IF Grant("shell_ask", a.of) \in p THEN "sh-ask" ELSE "none"

(* The request as Policy takes it: what policy p and the parsers say of it. *)
Request(p, a) ==
    CASE a.tool \in {"fs.read", "fs.write"} ->
            [tool |-> a.tool, secret |-> a.secret, malformed |-> FALSE, cwdInside |-> TRUE,
             at |-> IF a.at = "inside" /\ a.tool = "fs.write"
                          /\ Grant("writable_dirs", a.of) \in p THEN "writable" ELSE a.at]
      [] a.tool = "shell.run" ->
            [tool |-> a.tool, secret |-> a.secret, malformed |-> FALSE, line |-> "argv",
             cwdInside |-> TRUE, grant |-> ShellGrant(p, a),
             words |-> <<[at |-> a.at, role |-> IF a.of \in Grammar THEN "path" ELSE "name"]>>,
             forbidden |-> FALSE, walk |-> "nothing"]
      [] a.tool = "net.request" ->
            [tool |-> a.tool, secret |-> a.secret, malformed |-> FALSE,
             allowlist |-> \E g \in p : g.key = "network.allow",
             matches |-> Grant("network.allow", a.of) \in p]
      [] a.tool = "mcp.call" ->
            [tool |-> a.tool, secret |-> a.secret, malformed |-> FALSE,
             registered |-> Grant("mcp_registry", a.of) \in p, strings |-> <<a.at>>]

Judge(p, a, t) == Engine!Evaluate(Request(p, a), t)

-----------------------------------------------------------------------------
(* Recording. *)

Init ==
    /\ policy \in Policies /\ drop = FALSE
    /\ tainted = {} /\ made = <<>> /\ trace = <<>> /\ ran = {} /\ no = {}
    /\ stage = "recording"
    /\ read = 0 /\ taintedBy = {} /\ used = {} /\ new = {} /\ listed = {}
    /\ proposal = {} /\ round = 0 /\ basis = <<>> /\ troubles = 0

(* ask_instead_of_block, in ask mode. *)
Relaxed(s, a) == s \in Hooks \ tainted /\ Engine!Lifted(Request(policy, a), FALSE)

(* What Gateway.decide makes of it: decision and rule.  A hook has its --learn-mode, and its
   host can ask a human or not (Codex, bypassPermissions). *)
Recorded(s, a, mode, approval) ==
    LET d == Judge(policy, a, s \in tainted)
        relaxed == mode = "ask" /\ Relaxed(s, a)
    IN IF (relaxed \/ d.decision = "ask") /\ approval = "deny"
       THEN [decision |-> "block", rule |-> "approval-denied"]
       ELSE IF relaxed THEN [decision |-> "ask", rule |-> "learn-ask"]
       ELSE [decision |-> d.decision, rule |-> d.rule]

Observed == {trace[i].id : i \in DOMAIN trace}

(* A record holds no parameters of a request that carries a secret, and neither them nor, from
   the hook, its session when the audit log cannot be written. *)
Observation(s, a, f, audited, r) ==
    [id |-> Len(made) + 1, file |-> f, proxy |-> s \notin Hooks,
     session |-> IF audited \/ s \notin Hooks THEN s ELSE NoSession,
     act |-> IF audited /\ ~a.secret THEN a ELSE NoAct,
     decision |-> IF audited THEN r.decision ELSE "block",
     rule |-> IF audited THEN r.rule ELSE "fail-closed"]

(* A request is judged, by a hook or by the proxy, which takes one at a time. *)
Decide(s, a) ==
    /\ stage = "recording" /\ Len(made) + round + troubles < MaxSteps
    /\ Len(made) < MaxRequests /\ Len(made) - Len(trace) < MaxOpen
    /\ s \in Hooks \/ (a.tool = "mcp.call"
                        /\ \A id \in DOMAIN made \ Observed : made[id].session # s)
    /\ \E f \in Files, audited \in BOOLEAN, mode \in {"enforce", "ask"},
          approval \in {"delegate", "deny"} :
          LET r == Recorded(s, a, mode, approval) IN
          /\ made' = Append(made, [session |-> s, act |-> a, over |-> Observed,
                                   taints |-> Judge(policy, a, s \in tainted).taints,
                                   observation |-> Observation(s, a, f, audited, r)])
          /\ no' = IF r.rule = "approval-denied" THEN no \cup {Len(made) + 1} ELSE no
          /\ troubles' = IF audited THEN troubles ELSE troubles + 1
    /\ UNCHANGED <<policy, drop, tainted, trace, ran, stage, reading, proposal, round, basis>>

(* TraceWriter.observe, then the session's taint: another hook may have written first. *)
Observe(id) ==
    /\ stage = "recording" /\ id \notin Observed
    /\ trace' = Append(trace, made[id].observation)
    /\ tainted' = IF made[id].taints THEN tainted \cup {made[id].session} ELSE tainted
    /\ UNCHANGED <<policy, drop, made, ran, no, stage, reading, proposal, round, basis, troubles>>

(* The human answers what the host asks, the call runs or not, and PostToolUse comes, and
   can be written, or not. *)
Answer(id) ==
    /\ stage = "recording" /\ id \in Observed \ (ran \cup no)
    /\ made[id].observation.decision = "ask"
    /\ \/ ran' = ran \cup {id} /\ UNCHANGED no
       \/ no' = no \cup {id} /\ UNCHANGED ran
    /\ UNCHANGED <<policy, drop, tainted, made, trace, stage, reading, proposal, round, basis, troubles>>

-----------------------------------------------------------------------------
(* The proposal: propose goes through the observations one by one. *)

(* replay: judged anew, in a session of its own; what cannot be replayed is as recorded. *)
Replay(p, o) ==
    IF o.act # NoAct
    THEN LET d == Judge(p, o.act, FALSE)
         IN [decision |-> d.decision, rule |-> d.rule, taints |-> d.taints]
    ELSE [decision |-> IF o.rule = "learn-ask" THEN "block" ELSE o.decision,
          rule |-> o.rule, taints |-> FALSE]

(* Mutant of SeenTaint: a recorded refusal taints nothing. *)
SeenTaintReplayed(o, before) == before.taints

SeenTaint(o, before) == before.taints \/ o.rule = "secret-egress"

(* Mutant of Refused: a host that could not ask did not say no. *)
RefusedNever(o) == FALSE

Refused(o) == o.rule = "approval-denied"

(* An ask is a yes only if the call then ran. *)
Confirmed(o) == o.id \in ran \/ o.decision # "ask"

(* Tainted by an observation read up to and including this one. *)
TaintedNow(o, before) ==
    IF SeenTaint(o, before) THEN taintedBy \cup {o.session} ELSE taintedBy

Evidence(o, before) ==
    o.session \notin TaintedNow(o, before) /\ Confirmed(o) /\ ~Refused(o)

(* The grant a request is short of; a program that no grant can name has none. *)
Wanted(a) ==
    CASE a.tool = "fs.write" -> {Grant("writable_dirs", a.of)}
      [] a.tool = "shell.run" /\ a.of \in Grammar -> {Grant("shell_allowlist", a.of)}
      [] a.tool = "shell.run" /\ a.of \in Programs -> {Grant("shell_ask", a.of)}
      [] a.tool = "net.request" /\ a.of # Other -> {Grant("network.allow", a.of)}
      [] a.tool = "mcp.call" -> {Grant("mcp_registry", a.of)}
      [] OTHER -> {}

(* exact_candidate *)
WantedExact(a) == IF a.tool = "shell.run" /\ a.of \in Binaries THEN {Exact(a)} ELSE {}

(* What is tried for a command that is refused: the allowlist, or its exact words. *)
Tried(a) == IF a.of \in Grammar THEN Wanted(a) ELSE WantedExact(a)

(* would_decide, _decide_with: it passes with the grant, and names nothing protected. *)
Helps(g, a) ==
    LET d == Judge(policy \cup {g}, a, FALSE) IN d.decision # "block" /\ ~d.taints

(* Mutant of ToAdd: a program is put on the allowlist. *)
ToAddAllowed(a, before) ==
    CASE before.rule = "fs-write-scope" -> {g \in Wanted(a) : g.of \in Dirs}
      [] before.rule = "sh-allowlist" ->
            {Grant("shell_allowlist", g.of) :
                g \in {w \in Wanted(a) : \A h \in Tried(a) : Helps(h, a)}}
      [] OTHER -> {}

(* What evidence adds: what the firewall can bound, or that it will ask. *)
ToAdd(a, before) ==
    CASE before.rule = "fs-write-scope" -> {g \in Wanted(a) : g.of \in Dirs}
      [] before.rule = "sh-allowlist" ->
            {g \in Wanted(a) : \A h \in Tried(a) : Helps(h, a)}
      [] OTHER -> {}

(* What evidence puts to a human: the rest. *)
ToDecide(a, before) ==
    CASE before.rule = "fs-write-scope" -> {g \in Wanted(a) : g.of \notin Dirs}
      [] before.rule = "sh-ask" \/ (before.rule = "sh-allowlist" /\ a.of \notin Grammar) ->
            {g \in WantedExact(a) : Helps(g, a)}
      [] before.rule \in {"net-deny-all", "net-allowlist", "mcp-unknown-tool"} ->
            {g \in Wanted(a) : Helps(g, a)}
      [] OTHER -> {}

(* Mutant of UsedBy: asks are not counted. *)
UsedByAllowed(a, before) ==
    CASE before.rule = "sh-ok"    -> {Grant("shell_allowlist", a.of)}
      [] before.rule = "sh-exact" -> {Exact(a)}
      [] before.rule \in {"net-ok", "fs-write-ok", "mcp-ok"} -> Wanted(a)
      [] OTHER -> {}

UsedBy(a, before) ==
    CASE before.rule = "sh-ok"    -> {Grant("shell_allowlist", a.of)}
      [] before.rule = "sh-exact" -> {Exact(a)}
      [] before.rule = "sh-ask"   -> {Grant("shell_ask", a.of)}
      [] before.rule \in {"net-ok", "fs-write-ok", "mcp-ok"} -> Wanted(a)
      [] OTHER -> {}

(* Orders to read the trace in: each file from its first line to its last, one file after
   the other as they are given. *)
Readings == {p \in [DOMAIN trace -> DOMAIN trace] :
    /\ \A k \in DOMAIN trace : \E i \in DOMAIN trace : p[i] = k
    /\ \A i, j \in DOMAIN trace :
          i < j /\ trace[p[i]].file = trace[p[j]].file => p[i] < p[j]
    /\ \A i, j, k \in DOMAIN trace :
          i < j /\ j < k /\ trace[p[i]].file = trace[p[k]].file =>
             trace[p[j]].file = trace[p[k]].file}

(* read_traces *)
StartReading ==
    /\ stage = "recording" /\ trace # <<>>
    /\ Observed = DOMAIN made
    /\ \E p \in Readings : trace' = [i \in DOMAIN trace |-> trace[p[i]]]
    /\ stage' = "reading"
    /\ UNCHANGED <<policy, drop, tainted, made, ran, no, reading, proposal, round, basis, troubles>>

(* One observation: judged anew, and what it adds. *)
ReadNext ==
    /\ stage = "reading" /\ read < Len(trace)
    /\ \E o \in {trace[read + 1]} : \E before \in {Replay(policy, o)} :
          LET evidence == o.act # NoAct /\ Evidence(o, before)
          IN /\ read' = read + 1
             /\ taintedBy' = TaintedNow(o, before)
             /\ used' = IF o.act # NoAct /\ ~Refused(o)
                        THEN used \cup UsedBy(o.act, before) ELSE used
             /\ new' = IF evidence THEN new \cup ToAdd(o.act, before) ELSE new
             /\ listed' = IF evidence THEN listed \cup ToDecide(o.act, before) ELSE listed
    /\ UNCHANGED <<policy, drop, records, stage, proposal, round, basis, troubles>>

(* Grants never used, on the surfaces the traces saw: the proxy sees its server's tools, the
   hook the rest. *)
Unused(keys) == {g \in policy : g \notin used /\ g.key \in keys}

Seen ==
    (IF \E i \in DOMAIN trace : ~trace[i].proxy
     THEN {"shell_allowlist", "shell_ask", "shell_exact", "writable_dirs", "network.allow"}
     ELSE {})
    \cup (IF \E i \in DOMAIN trace : trace[i].proxy /\ trace[i].act # NoAct
          THEN {"mcp_registry"} ELSE {})

Strictness(d) == CASE d = "allow" -> 0 [] d = "ask" -> 1 [] d = "block" -> 2

(* Mutant of Granted: the grants that ask are forgotten. *)
GrantedToAllow(a, before, after) ==
    \/ before.rule = "sh-allowlist" /\ Grant("shell_allowlist", a.of) \in new
    \/ before.rule = "fs-write-scope" /\ Grant("writable_dirs", a.of) \in new

(* What may get looser: what a grant that was added is there for. *)
Granted(a, before, after) ==
    \/ before.rule = "sh-allowlist" /\ Grant("shell_allowlist", a.of) \in new
    \/ /\ before.rule = "sh-allowlist" /\ after.rule = "sh-ask"
       /\ Grant("shell_ask", a.of) \in new
    \/ before.rule = "fs-write-scope" /\ Grant("writable_dirs", a.of) \in new

(* Config._load refuses a binary that is on both lists. *)
Loads(p) == \A b \in Binaries :
    ~({Grant("shell_allowlist", b), Grant("shell_ask", b)} \subseteq p)

(* The replay check: whatever gets looser does so by a grant that was added. *)
Checks(p) == Loads(p) /\ \A i \in DOMAIN trace :
    LET before == Replay(policy, trace[i])
        after  == Replay(p, trace[i])
    IN Strictness(after.decision) < Strictness(before.decision) =>
          Granted(trace[i].act, before, after)

Propose ==
    /\ stage = "reading" /\ read = Len(trace)
    /\ drop' \in BOOLEAN
    /\ proposal' = (policy \cup new) \ (IF drop' THEN Unused(Seen) ELSE {})
    /\ stage' = IF Checks(proposal') THEN "proposed" ELSE "stopped"
    /\ UNCHANGED <<policy, records, reading, round, basis, troubles>>

(* The operator puts the proposal in place and goes on. *)
Adopt ==
    /\ stage = "proposed" /\ Len(made) + round + troubles < MaxSteps
    /\ policy' = proposal
    /\ round' = round + 1
    /\ stage' = "recording"
    /\ basis' = <<trace, ran, drop>>
    /\ read' = 0 /\ taintedBy' = {} /\ used' = {} /\ new' = {} /\ listed' = {}
    /\ proposal' = {}
    /\ UNCHANGED <<drop, records, troubles>>

Next ==
    \/ \E s \in Sessions, a \in Acts : Decide(s, a)
    \/ \E id \in DOMAIN made : Observe(id) \/ Answer(id)
    \/ StartReading \/ ReadNext \/ Propose \/ Adopt

Spec == Init /\ [][Next]_vars

-----------------------------------------------------------------------------
(* Properties. *)

TypeOK ==
    /\ policy \subseteq AllGrants /\ drop \in BOOLEAN
    /\ tainted \subseteq Sessions
    /\ Len(made) + round <= MaxSteps /\ Len(trace) <= Len(made)
    /\ \A i \in DOMAIN trace : trace[i] = made[trace[i].id].observation
    /\ ran \cup no \subseteq DOMAIN made /\ ran \cap no = {}
    /\ stage \in {"recording", "reading", "proposed", "stopped"}
    /\ read \in 0..Len(trace) /\ taintedBy \subseteq Sessions \cup {NoSession}
    /\ used \cup new \cup listed \cup proposal \subseteq AllGrants
    /\ round \in 0..MaxSteps /\ troubles \in 0..MaxSteps

Shown == stage = "proposed"
Needs(i) == Wanted(trace[i].act) \cup WantedExact(trace[i].act)

(* "A no is never learned as a yes" (docs/LEARNING.md 256): whatever is proposed, or put to a
   human, was needed by a request that nobody refused: no human at the prompt, and no
   host that could not ask. *)
NoIsNeverYes == Shown => \A g \in new \cup listed :
    \E i \in DOMAIN trace : g \in Needs(i) /\ trace[i].id \notin no

(* The trace tells that this request tainted its session.  A request of an MCP tool that the
   policy has unregistered since is refused before its arguments are looked at. *)
Tells(i) ==
    /\ made[trace[i].id].taints
    /\ trace[i].act # NoAct \/ trace[i].rule = "secret-egress"
    /\ trace[i].act.tool = "mcp.call" => Wanted(trace[i].act) \subseteq policy

(* i was made when the call of j was over. *)
MadeAfter(i, j) == trace[j].id \in made[trace[i].id].over

(* A session's taint teaches nothing, however its hooks ran beside each other: each grant was
   needed by a request that was made when no call of its session that was over had, by
   what the traces tell, tainted it; or had but in a file that was given after the
   one of the request, whose taint propose comes to too late. *)
TaintTeachesNothing == Shown => \A g \in new \cup listed :
    \E i \in DOMAIN trace :
       /\ g \in Needs(i)
       /\ \A j \in DOMAIN trace :
             trace[j].session = trace[i].session /\ Tells(j) /\ MadeAfter(i, j) =>
                trace[j].file # trace[i].file /\ j > i

(* "The proposal allows only what the firewall itself can bound" (learn.py 31), for every
   request and not only those observed: whatever gets looser, in a tainted session
   or not, does so by an added grant, and what comes to be allowed without asking is
   a write into a directory or a binary with a grammar, inside the sandbox.  A request that
   is the same to the engine under both policies is decided the same. *)
Affected == {a \in Acts : Request(proposal, a) # Request(policy, a)}
ProposalBounded == Shown => \A a \in Affected, t \in BOOLEAN :
    LET now   == Judge(policy, a, t).decision
        later == Judge(proposal, a, t).decision
    IN Strictness(later) < Strictness(now) =>
          /\ Wanted(a) \cap new # {}
          /\ a.at # "protected" /\ ~a.secret
          /\ later = "allow" => /\ a.at = "inside"
                                /\ a.tool = "fs.write" \/ a.of \in Grammar

(* The check before a proposal is shown (learn.py 862-885) is a net: nothing the grants of
   evidence do falls into it, whatever the trace holds. *)
CheckIsSilent == stage # "stopped"

(* --drop-unused takes away nothing that the traces show in use, by any host and whoever
   recorded it ("unseen, not unused", learn.py 804): what they show passing, and
   nobody refused, still does, and without a question where there was none. *)
NarrowingKeepsUse == Shown => \A i \in DOMAIN trace : ~Refused(trace[i]) =>
    Strictness(Replay(proposal, trace[i]).decision)
       <= Strictness(Replay(policy, trace[i]).decision)

(* A proposal that was adopted is the end of it: the same traces, given in the same order,
   propose nothing else, unless an MCP tool that tainted a session went with it; and take
   away nothing, but an exact command that the allowlist has come to allow anyway. *)
ProposalSettles ==
    /\ Shown /\ basis = <<trace, ran, drop>>
    /\ \A i \in DOMAIN trace : made[trace[i].id].taints /\ trace[i].act # NoAct => Tells(i)
    => /\ proposal \subseteq policy
       /\ \A g \in policy \ proposal :
             g.key = "shell_exact" /\ Grant("shell_allowlist", g.of[1]) \in policy
=============================================================================
