--------------------------------- MODULE Policy ---------------------------------
(***************************************************************************)
(* policy.py: the engine that judges every request.  evaluate is a list of *)
(* checks tried in order, and the first that applies decides.  The order,  *)
(* and what a check does to the session's taint before the next one looks  *)
(* at it, is what this module is about.                                    *)
(*                                                                         *)
(* A request is a record of what the checks tell apart: what the           *)
(* configuration, the file system and the parsers (argv.py, network.py,    *)
(* shell_syntax.py, egress.py) say of it.  TreeWalk models the one of them *)
(* that takes steps of its own.                                            *)
(***************************************************************************)
EXTENDS Naturals, Sequences, PolicyTable

CONSTANT MaxWords               \* bound: argv words, or strings in MCP arguments

ASSUME PolicyAssumption == MaxWords \in Nat

VARIABLES tainted,              \* SessionState.tainted
          request,              \* the request to be decided, or NoRequest
          went                  \* history: see TaintedGetsNoWayOut

vars == <<tainted, request, went>>

-----------------------------------------------------------------------------
(* Requests: every one says whether it carries a secret value and whether it is
   what its tool takes. *)

UpTo(S) == UNION {[1..n -> S] : n \in 0..MaxWords}

Places == {"inside", "protected", "outside"}

(* Words of a command that has a grammar.  "path": a file it opens, spelled by the word;
   "cluster": one it opens whose name is behind two short options or more (-nf.env), which
   no spelling of the word is; "other": one it does not open, that may be spelled like a
   file.  Files come in the order of ParsedArgv.paths. *)
GrammarWords == [at : Places, role : {"path", "cluster", "other"}]

(* Of a command that has none: what the fallback takes for a file, or for the name of one. *)
FallbackWords == [at : Places, role : {"path", "name"}]

FileRequests ==
    [tool : {"fs.read", "fs.write"}, secret : BOOLEAN, malformed : BOOLEAN,
     cwdInside : BOOLEAN, at : Places \cup {"writable"}]
ShellRequests ==
    [tool : {"shell.run"}, secret : BOOLEAN, malformed : BOOLEAN,
     line : {"argv", "unsplit", "syntax", "unsplit syntax"}, cwdInside : BOOLEAN,
     grant : {"sh-ok", "sh-exact", "sh-ask", "none"}, words : UpTo(GrammarWords) \cup UpTo(FallbackWords),
     forbidden : BOOLEAN, walk : {"nothing", "protected", "escape", "limit"}]
NetRequests ==
    [tool : {"net.request"}, secret : BOOLEAN, malformed : BOOLEAN,
     allowlist : BOOLEAN, matches : BOOLEAN]
McpCalls ==
    [tool : {"mcp.call"}, secret : BOOLEAN, malformed : BOOLEAN,
     registered : BOOLEAN, strings : UpTo(Places \cup {"untyped"})]
McpReads ==
    [tool : {"mcp.resource"}, secret : BOOLEAN, malformed : BOOLEAN,
     enabled : BOOLEAN, at : Places]
ApiCalls ==
    [tool : {"api.call"}, secret : BOOLEAN, malformed : BOOLEAN,
     rule : {"none", "allow", "require_approval", "block"}]
OtherRequests == [tool : {"other"}, secret : BOOLEAN, malformed : BOOLEAN]

Requests == FileRequests \cup ShellRequests \cup NetRequests \cup McpCalls
                \cup McpReads \cup ApiCalls \cup OtherRequests
NoRequest == [tool |-> "none"]

-----------------------------------------------------------------------------
(* Checks. *)

(* When `applies`, the request gets this decision by this rule, and taints or not. *)
Check(applies, decision, rule, taints) ==
    [applies |-> applies, decision |-> decision, rule |-> rule, taints |-> taints]
Refuse(applies, rule) == Check(applies, "block", rule, FALSE)
RefuseProtected(applies, rule) == Check(applies, "block", rule, TRUE)
Grant(applies, rule) == Check(applies, "allow", rule, FALSE)
AskFirst(applies, rule) == Check(applies, "ask", rule, FALSE)

First(checks) ==
    LET hits == {i \in DOMAIN checks : checks[i].applies}
    IN checks[CHOOSE i \in hits : \A j \in hits : i <= j]

(* Mutant of Opened: a file in a group of options is not looked at. *)
OpenedAlone(w) == w.role = "path"

Opened(w) == w.role \in {"path", "cluster"}

(* The first file to be opened that is not inside lies there. *)
FirstOpened(ws, at) ==
    \E i \in DOMAIN ws : /\ Opened(ws[i]) /\ ws[i].at = at
                        /\ \A j \in 1..(i - 1) : Opened(ws[j]) => ws[j].at = "inside"

(* A word that may name a file names something protected. *)
MayName(ws) == \E i \in DOMAIN ws : ws[i].role = "name" /\ ws[i].at = "protected"

(* Mutant of Named: only files the grammar knows of taint. *)
NamedPaths(ws) == \E i \in DOMAIN ws : ws[i].at = "protected" /\ ws[i].role = "path"

(* _taint_if_named, by the spellings of each word *)
Named(ws) == \E i \in DOMAIN ws : ws[i].at = "protected" /\ ws[i].role # "cluster"

(* _fs_read, _fs_write *)
FileChecks(r) == <<
    Refuse(~r.cwdInside, "fs-sandbox"),
    RefuseProtected(r.at = "protected", "fs-protected"),
    Refuse(r.at = "outside", "fs-sandbox"),
    Grant(r.tool = "fs.read", "fs-read-ok"),
    Grant(r.at = "writable", "fs-write-ok"),
    AskFirst(TRUE, "fs-write-scope")>>

(* Past the cwd, a protected name taints whatever follows. *)
Past(r, applies, decision, rule) == Check(applies, decision, rule, Named(r.words))

(* _shell_run, _shell_syntax *)
ShellChecks(r, t) == <<
    Past(r, r.line = "syntax", "block", "sh-syntax"),
    Refuse(r.line = "unsplit syntax", "sh-syntax"),
    Refuse(r.line = "unsplit", "parse-error"),
    Refuse(~r.cwdInside, "fs-sandbox"),
    Past(r, r.grant = "none", "block", "sh-allowlist"),
    RefuseProtected(FirstOpened(r.words, "protected"), "sh-paths"),
    Past(r, FirstOpened(r.words, "outside"), "block", "sh-paths"),
    RefuseProtected(MayName(r.words), "sh-paths"),
    Past(r, r.forbidden, "block", "sh-args"),
    RefuseProtected(r.walk = "protected", "sh-recursive"),
    Past(r, r.walk # "nothing", "block", "sh-recursive"),
    Past(r, r.grant = "sh-ok", "allow", "sh-ok"),
    Past(r, t \/ Named(r.words), "block", "taint-session"),
    Past(r, r.grant = "sh-exact", "allow", "sh-exact"),
    Past(r, TRUE, "ask", "sh-ask")>>

(* _net_request *)
NetChecks(r, t) == <<
    Refuse(~r.allowlist, "net-deny-all"),
    Refuse(~r.matches, "net-allowlist"),
    Refuse(t, "taint-session"),
    Grant(TRUE, "net-ok")>>

(* Mutant of McpFine: a string outside the sandbox is let through. *)
McpFineProtected(s) == s \in {"inside", "outside"}

McpFine(s) == s = "inside"

(* The first string that is not fine is p. *)
FirstBad(ss, p) ==
    ~McpFine(p) /\ \E i \in DOMAIN ss : ss[i] = p /\ \A j \in 1..(i - 1) : McpFine(ss[j])

(* _mcp_call, _mcp_strings: the strings are checked one by one, those in lists and objects
   included, which is all that JSON has. *)
McpChecks(r) == <<
    Refuse(~r.registered, "mcp-unknown-tool"),
    RefuseProtected(FirstBad(r.strings, "protected"), "mcp-protected-path"),
    Refuse(FirstBad(r.strings, "outside"), "mcp-sandbox"),
    Refuse(FirstBad(r.strings, "untyped"), "parse-error"),
    Grant(TRUE, "mcp-ok")>>

(* _mcp_resource: a URI that is no file is "inside" *)
ResourceChecks(r) == <<
    Refuse(~r.enabled, "mcp-resources-denied"),
    RefuseProtected(r.at = "protected", "mcp-protected-path"),
    Refuse(r.at = "outside", "mcp-sandbox"),
    Grant(TRUE, "mcp-resource-ok")>>

(* _api_call *)
ApiChecks(r, t) == <<
    Refuse(r.rule = "none", "api-unknown-operation"),
    Refuse(t, "taint-session"),
    Grant(r.rule = "allow", "api-ok"),
    AskFirst(r.rule = "require_approval", "api-approval"),
    Refuse(TRUE, "api-blocked")>>

Handler(r, t) ==
    CASE r.tool \in {"fs.read", "fs.write"} -> FileChecks(r)
      [] r.tool = "shell.run"    -> ShellChecks(r, t)
      [] r.tool = "net.request"  -> NetChecks(r, t)
      [] r.tool = "mcp.call"     -> McpChecks(r)
      [] r.tool = "mcp.resource" -> ResourceChecks(r)
      [] r.tool = "api.call"     -> ApiChecks(r, t)
      [] OTHER                   -> <<>>

(* PolicyEngine.evaluate *)
Evaluate(r, t) ==
    First(<<RefuseProtected(r.secret, "secret-egress"),
            Refuse(r.tool = "other", "unknown-tool"),
            Refuse(r.malformed, "parse-error")>> \o Handler(r, t))

-----------------------------------------------------------------------------
(* Learning: a refusal for want of one grant becomes a question (learn.py). *)

(* with_grant *)
WithGrant(r) ==
    CASE r.tool = "shell.run" -> [r EXCEPT !.grant = "sh-ok"]
      [] r.tool = "mcp.call"  -> [r EXCEPT !.registered = TRUE]

(* Mutant of Lifted: any refusal for want of a grant is lifted. *)
LiftedAlways(r, t) == Evaluate(r, t).rule \in {"sh-allowlist", "mcp-unknown-tool"}

(* Mutant of Lifted: what the request names on the way is not looked at. *)
LiftedAnyway(r, t) ==
    /\ Evaluate(r, t).rule \in {"sh-allowlist", "mcp-unknown-tool"}
    /\ Evaluate(WithGrant(r), FALSE).decision # "block"

(* ask_instead_of_block, would_decide: the policy with the grant, on a session of its
   own, lets it pass without tainting that session. *)
Lifted(r, t) ==
    /\ Evaluate(r, t).rule \in {"sh-allowlist", "mcp-unknown-tool"}
    /\ LET would == Evaluate(WithGrant(r), FALSE)
       IN would.decision # "block" /\ ~would.taints

-----------------------------------------------------------------------------
(* A session. *)

Init ==
    /\ tainted = FALSE
    /\ request = NoRequest
    /\ went = FALSE

(* The agent makes a request. *)
Submit ==
    /\ request = NoRequest
    /\ request' \in Requests
    /\ UNCHANGED <<tainted, went>>

(* Where the policy looked and saw something protected, or a secret value.  A file in a
   group of options is seen only when it is the one the command is refused for. *)
Sees(r, d) ==
    \/ d.rule = "secret-egress"
    \/ r.tool \in {"fs.read", "fs.write"} /\ d.rule = "fs-protected"
    \/ r.tool \in {"mcp.call", "mcp.resource"} /\ d.rule = "mcp-protected-path"
    \/ r.tool = "shell.run" /\ d.rule \notin {"parse-error", "fs-sandbox"}
          /\ r.line \in {"argv", "syntax"}
          /\ \E i \in DOMAIN r.words : r.words[i].at = "protected" /\ r.words[i].role # "cluster"
    \/ r.tool = "shell.run" /\ d.rule = "sh-paths"
          /\ \E i \in DOMAIN r.words :
                /\ r.words[i].at = "protected" /\ r.words[i].role = "cluster"
                /\ \A j \in 1..(i - 1) :
                       r.words[j].role \in {"path", "cluster"} => r.words[j].at = "inside"
    \/ r.tool = "shell.run" /\ d.rule = "sh-recursive" /\ r.walk = "protected"

Decide ==
    /\ request # NoRequest
    /\ LET d == Evaluate(request, tainted) IN
          /\ tainted' = (tainted \/ d.taints)
          /\ went' = (went \/ Sees(request, d))
    /\ request' = NoRequest

Next == Submit \/ Decide

Spec == Init /\ [][Next]_vars

-----------------------------------------------------------------------------
(* Properties. *)

Waiting == request # NoRequest
Outcome == Evaluate(request, tainted)
Passes(d) == d.decision # "block"

TypeOK ==
    /\ tainted \in BOOLEAN
    /\ request \in Requests \cup {NoRequest}
    /\ went \in BOOLEAN
    /\ Waiting => Outcome.decision \in {"allow", "ask", "block"} /\ Outcome.taints \in BOOLEAN

(* What a request opens, by its tool. *)
OpensAt(r) ==
    CASE r.tool \in {"fs.read", "fs.write", "mcp.resource"} -> {r.at}
      [] r.tool = "mcp.call"  -> {r.strings[i] : i \in DOMAIN r.strings}
      [] r.tool = "shell.run" ->
            {r.words[i].at : i \in {j \in DOMAIN r.words : r.words[j].role \in {"path", "cluster"}}}
            \cup (IF \E i \in DOMAIN r.words : r.words[i].role = "name"
                                               /\ r.words[i].at = "protected"
                  THEN {"protected"} ELSE {})
            \cup (IF r.walk = "nothing" THEN {} ELSE {"outside"})
      [] OTHER -> {}

Clean(r) == ~r.secret /\ ~r.malformed /\ OpensAt(r) \subseteq {"inside", "writable"}

(* Complete mediation: whatever the tool and the grant, what passes, even to a human's
   question, carries no secret value and opens nothing protected and nothing out
   of the sandbox.  (policy.py 309-310: "whatever the grant"; 495-497: "a
   registered tool is still not a free pass".) *)
OnlyCleanPasses == Waiting /\ Passes(Outcome) => Clean(request)

(* Requests that can take something out, or run a program nobody bounds. *)
WayOut(r) == \/ r.tool \in {"net.request", "api.call"}
             \/ r.tool = "shell.run" /\ r.grant \in {"sh-exact", "sh-ask"}

(* Once a request went for something protected where the policy could see it, passed or
   blocked, no later one gets a way out (session.py 1-4), and neither does that one. *)
TaintedGetsNoWayOut ==
    Waiting /\ (went \/ Sees(request, Outcome)) /\ WayOut(request) => ~Passes(Outcome)

(* "It never produces an allow" and lifts one rule only (learn.py 291-294): what a human is
   asked about in learning mode is clean, and names nothing protected on the way. *)
LiftIsClean == Waiting /\ Lifted(request, tainted) =>
    /\ ~Passes(Outcome)
    /\ Clean(request)
    /\ ~Outcome.taints

(* The engine decides by the table HookSession is built on: every request is of some kind,
   which says what becomes of it in a session that is tainted or not, whether
   it taints, and whether learning lifts its refusal. *)
TableIsRight == Waiting =>
    LET judged == [t \in BOOLEAN |-> Evaluate(request, t).decision]
        taints == {Evaluate(request, t).taints : t \in BOOLEAN}
        lifted == {Lifted(request, t) : t \in BOOLEAN}
    IN \E k \in RequestKinds :
          /\ judged = [t \in BOOLEAN |-> Judged(k, t)]
          /\ taints = {Taints(k)}
          /\ lifted = {k = "unlisted"}
          /\ request.tool = "fs.write" => k \in WriteKinds
=============================================================================
