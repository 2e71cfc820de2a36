------------------------------ MODULE LearnProofs ------------------------------
(***************************************************************************)
(* Proofs about Learn for any requests, grants, policies, sessions and     *)
(* numbers of steps.  What the engine makes of a request, by what it is    *)
(* and the grants there are, comes from PolicyProofs' Verdict and is one   *)
(* lemma per tool; everything after these is about grants and traces.      *)
(*                                                                         *)
(* The invariant says exactly what propose has gathered from the           *)
(* observations it has been through (ReadInv), what the trace tells of how *)
(* the sessions ran (TraceInv, NoInv), and that a policy which came of     *)
(* this very trace has nothing more to gain from it (BasisInv).            *)
(***************************************************************************)
EXTENDS Learn, FiniteSetTheorems, TLAPS

Law == INSTANCE PolicyProofs WITH
    MaxWords <- 1, tainted <- FALSE, request <- [tool |-> "none"], went <- FALSE

-----------------------------------------------------------------------------
(* What becomes of a request. *)

LEMMA SameEngine ==
  ASSUME NEW r, NEW t
  PROVE  Engine!Evaluate(r, t) = Law!Evaluate(r, t)
  BY DEF Engine!Evaluate, Law!Evaluate, Engine!First, Law!First, Engine!Handler, Law!Handler,
         Engine!FileChecks, Law!FileChecks, Engine!ShellChecks, Law!ShellChecks,
         Engine!NetChecks, Law!NetChecks, Engine!McpChecks, Law!McpChecks,
         Engine!ResourceChecks, Law!ResourceChecks, Engine!ApiChecks, Law!ApiChecks,
         Engine!Refuse, Law!Refuse, Engine!RefuseProtected, Law!RefuseProtected,
         Engine!Grant, Law!Grant, Engine!AskFirst, Law!AskFirst, Engine!Check, Law!Check,
         Engine!Past, Law!Past, Engine!Named, Law!Named, Engine!MayName, Law!MayName,
         Engine!FirstOpened, Law!FirstOpened, Engine!Opened, Law!Opened, Engine!FirstBad, Law!FirstBad, Engine!McpFine, Law!McpFine

LEMMA OneOf ==
  ASSUME NEW S, NEW x \in S
  PROVE  <<x>> \in Law!UpTo(S) /\ DOMAIN <<x>> = {1} /\ <<x>>[1] = x
<1>1. <<x>> = [i \in 1..1 |-> x]
  OBVIOUS
<1>2. DOMAIN <<x>> = {1} /\ <<x>>[1] = x
  OBVIOUS
<1>3. <<x>> \in [1..1 -> S]
  BY <1>1
<1> QED BY <1>2, <1>3 DEF Law!UpTo

(* The request is one Policy knows, and says what the act does. *)
LEMMA FileRequest ==
  ASSUME NEW p, NEW a \in AllActs, a.tool \in {"fs.read", "fs.write"}
  PROVE  LET r == Request(p, a)
         IN /\ r \in Law!FileRequests /\ r.tool = a.tool /\ (r.secret <=> a.secret)
            /\ ~r.malformed /\ r.cwdInside
            /\ IF a.at = "inside" /\ a.tool = "fs.write" /\ Grant("writable_dirs", a.of) \in p
               THEN r.at = "writable" ELSE r.at = a.at
  BY DEF AllActs, Request, Law!FileRequests, Law!Places, Places

LEMMA ShellRequest ==
  ASSUME NEW p, NEW a \in AllActs, a.tool = "shell.run"
  PROVE  LET r == Request(p, a)
         IN /\ r \in Law!ShellRequests /\ r.tool = a.tool /\ (r.secret <=> a.secret)
            /\ ~r.malformed /\ r.cwdInside /\ r.line = "argv"
            /\ r.grant = ShellGrant(p, a) /\ ~r.forbidden /\ r.walk = "nothing"
            /\ r.words = <<[at |-> a.at, role |-> IF a.of \in Grammar THEN "path" ELSE "name"]>>
<1> DEFINE w == [at |-> a.at, role |-> IF a.of \in Grammar THEN "path" ELSE "name"]
<1>1. a.at \in Places /\ a.secret \in BOOLEAN
  BY DEF AllActs
<1>2. w \in Law!GrammarWords \/ w \in Law!FallbackWords
  BY <1>1 DEF Law!GrammarWords, Law!FallbackWords, Law!Places, Places
<1>3. Request(p, a) =
        [tool |-> a.tool, secret |-> a.secret, malformed |-> FALSE, line |-> "argv",
         cwdInside |-> TRUE, grant |-> ShellGrant(p, a), words |-> <<w>>,
         forbidden |-> FALSE, walk |-> "nothing"]
  BY DEF Request
<1>4. ShellGrant(p, a) \in {"sh-ok", "sh-exact", "sh-ask", "none"}
  BY DEF ShellGrant
<1>5. <<w>> \in Law!UpTo(Law!GrammarWords) \cup Law!UpTo(Law!FallbackWords)
  BY <1>2, OneOf
<1> HIDE DEF w
<1>6. Request(p, a) \in Law!ShellRequests
  BY <1>1, <1>3, <1>4, <1>5 DEF Law!ShellRequests
<1> QED BY <1>3, <1>6 DEF w

LEMMA NetRequest ==
  ASSUME NEW p, NEW a \in AllActs, a.tool = "net.request"
  PROVE  LET r == Request(p, a)
         IN /\ r \in Law!NetRequests /\ r.tool = a.tool /\ (r.secret <=> a.secret)
            /\ ~r.malformed /\ (r.matches => r.allowlist)
            /\ (r.matches <=> Grant("network.allow", a.of) \in p)
<1> DEFINE some == \E g \in p : g.key = "network.allow"
           this == Grant("network.allow", a.of) \in p
<1>1. a.secret \in BOOLEAN /\ some \in BOOLEAN /\ this \in BOOLEAN
  BY DEF AllActs
<1>2. Request(p, a) = [tool |-> a.tool, secret |-> a.secret, malformed |-> FALSE,
                       allowlist |-> some, matches |-> this]
  BY DEF Request
<1>3. this => some
  BY DEF Grant
<1> HIDE DEF some, this
<1>4. LET r == Request(p, a)
      IN /\ r \in Law!NetRequests /\ r.tool = a.tool /\ r.secret = a.secret
         /\ r.malformed = FALSE /\ r.allowlist = some /\ r.matches = this
  BY <1>1, <1>2 DEF Law!NetRequests
<1> QED BY <1>1, <1>3, <1>4 DEF this

LEMMA McpRequest ==
  ASSUME NEW p, NEW a \in AllActs, a.tool = "mcp.call"
  PROVE  LET r == Request(p, a)
         IN /\ r \in Law!McpCalls /\ r.tool = a.tool /\ (r.secret <=> a.secret)
            /\ ~r.malformed /\ r.strings = <<a.at>>
            /\ (r.registered <=> Grant("mcp_registry", a.of) \in p)
<1> DEFINE this == Grant("mcp_registry", a.of) \in p
<1>1. /\ a.secret \in BOOLEAN /\ a.at \in Law!Places \cup {"untyped"}
      /\ this \in BOOLEAN
  BY DEF AllActs, Places, Law!Places
<1>2. Request(p, a) = [tool |-> a.tool, secret |-> a.secret, malformed |-> FALSE,
                       registered |-> this, strings |-> <<a.at>>]
  BY DEF Request
<1>3. <<a.at>> \in Law!UpTo(Law!Places \cup {"untyped"})
  BY <1>1, OneOf
<1> HIDE DEF this
<1>4. LET r == Request(p, a)
      IN /\ r \in Law!McpCalls /\ r.tool = a.tool /\ r.secret = a.secret
         /\ r.malformed = FALSE /\ r.strings = <<a.at>> /\ r.registered = this
  BY <1>1, <1>2, <1>3 DEF Law!McpCalls
<1> QED BY <1>1, <1>4 DEF this

LEMMA Judged ==
  ASSUME NEW p, NEW a \in AllActs, NEW t \in BOOLEAN
  PROVE  Law!Says(Request(p, a), t, Judge(p, a, t)) /\ Request(p, a) \in Law!Requests
<1>1. Request(p, a) \in Law!Requests
  <2>1. a.tool \in {"fs.read", "fs.write", "shell.run", "net.request", "mcp.call"}
    BY DEF AllActs
  <2> QED BY <2>1, FileRequest, ShellRequest, NetRequest, McpRequest DEF Law!Requests
<1> QED BY <1>1, Law!Verdict, SameEngine DEF Judge

-----------------------------------------------------------------------------
(* ... tool by tool.  Stays: the command opens nothing out of the sandbox. *)
Fields(d, decision, rule, taints) ==
    d.decision = decision /\ d.rule = rule /\ d.taints = taints
Stays(a) == a.at = "inside" \/ (a.at = "outside" /\ a.of \notin Grammar)

LEMMA OfSecrets ==
  ASSUME NEW p, NEW a \in AllActs, NEW t \in BOOLEAN, a.secret
  PROVE  Fields(Judge(p, a, t), "block", "secret-egress", TRUE)
<1>1. a.tool \in {"fs.read", "fs.write", "shell.run", "net.request", "mcp.call"}
  BY DEF AllActs
<1>2. Request(p, a).secret
  BY <1>1, FileRequest, ShellRequest, NetRequest, McpRequest
<1> QED BY <1>2, Judged DEF Law!Says, Law!Sound, Law!Fields, Fields

ReadSays(a, d) ==
    \/ a.at = "protected" /\ Fields(d, "block", "fs-protected", TRUE)
    \/ a.at = "outside" /\ Fields(d, "block", "fs-sandbox", FALSE)
    \/ a.at = "inside" /\ Fields(d, "allow", "fs-read-ok", FALSE)

LEMMA OfReads ==
  ASSUME NEW p, NEW a \in AllActs, NEW t \in BOOLEAN, ~a.secret, a.tool = "fs.read"
  PROVE  ReadSays(a, Judge(p, a, t))
<1> DEFINE r == Request(p, a)
           d == Judge(p, a, t)
<1>1. /\ r \in Law!FileRequests /\ r.tool = "fs.read" /\ ~r.secret /\ ~r.malformed
      /\ r.cwdInside /\ r.at = a.at
  BY FileRequest
<1>2. Law!FileSays(r, d)
  <2>1. d = Law!Evaluate(r, t)
    BY SameEngine DEF Judge
  <2> QED BY <1>1, <2>1, Law!FileVerdict DEF Law!Sound
<1>3. a.at \in {"inside", "protected", "outside"}
  BY DEF AllActs, Places
<1> HIDE DEF r, d
<1>4. ReadSays(a, d)
  BY <1>1, <1>2, <1>3 DEF Law!FileSays, Law!Fields, Fields, ReadSays
<1> QED BY <1>4 DEF d

WriteSays(p, a, d) ==
    LET granted == Grant("writable_dirs", a.of) \in p
    IN \/ a.at = "protected" /\ Fields(d, "block", "fs-protected", TRUE)
       \/ a.at = "outside" /\ Fields(d, "block", "fs-sandbox", FALSE)
       \/ a.at = "inside" /\ granted /\ Fields(d, "allow", "fs-write-ok", FALSE)
       \/ a.at = "inside" /\ ~granted /\ Fields(d, "ask", "fs-write-scope", FALSE)

LEMMA OfWrites ==
  ASSUME NEW p, NEW a \in AllActs, NEW t \in BOOLEAN, ~a.secret, a.tool = "fs.write"
  PROVE  WriteSays(p, a, Judge(p, a, t))
<1> DEFINE r == Request(p, a)
           d == Judge(p, a, t)
           granted == Grant("writable_dirs", a.of) \in p
<1>1. /\ r \in Law!FileRequests /\ r.tool = "fs.write" /\ ~r.secret /\ ~r.malformed
      /\ r.cwdInside /\ IF a.at = "inside" /\ granted THEN r.at = "writable" ELSE r.at = a.at
  BY FileRequest
<1>2. Law!FileSays(r, d)
  <2>1. d = Law!Evaluate(r, t)
    BY SameEngine DEF Judge
  <2> QED BY <1>1, <2>1, Law!FileVerdict DEF Law!Sound
<1>3. a.at \in {"inside", "protected", "outside"}
  BY DEF AllActs, Places
<1> HIDE DEF r, d
<1>4. WriteSays(p, a, d)
  BY <1>1, <1>2, <1>3 DEF Law!FileSays, Law!Fields, Fields, WriteSays
<1> QED BY <1>4 DEF d

CommandSays(p, a, t, d) ==
    LET grant == ShellGrant(p, a)
    IN \/ /\ grant = "none" /\ d.decision = "block" /\ d.rule = "sh-allowlist"
          /\ d.taints = (a.at = "protected")
       \/ grant # "none" /\ a.at = "protected" /\ Fields(d, "block", "sh-paths", TRUE)
       \/ /\ grant # "none" /\ a.at # "protected" /\ ~Stays(a)
          /\ d.decision = "block" /\ d.rule \in {"sh-paths", "sh-args"} /\ d.taints = FALSE
       \/ /\ Stays(a) /\ grant = "sh-ok" /\ Fields(d, "allow", "sh-ok", FALSE)
       \/ /\ Stays(a) /\ grant \in {"sh-exact", "sh-ask"} /\ t
          /\ Fields(d, "block", "taint-session", FALSE)
       \/ Stays(a) /\ grant = "sh-exact" /\ ~t /\ Fields(d, "allow", "sh-exact", FALSE)
       \/ Stays(a) /\ grant = "sh-ask" /\ ~t /\ Fields(d, "ask", "sh-ask", FALSE)

LEMMA OfCommands ==
  ASSUME NEW p, NEW a \in AllActs, NEW t \in BOOLEAN, ~a.secret, a.tool = "shell.run"
  PROVE  CommandSays(p, a, t, Judge(p, a, t))
<1> DEFINE r == Request(p, a)
           d == Judge(p, a, t)
           w == [at |-> a.at, role |-> IF a.of \in Grammar THEN "path" ELSE "name"]
           named == Law!Named(r.words)
<1>1. /\ r \in Law!ShellRequests /\ ~r.secret /\ ~r.malformed /\ r.line = "argv"
      /\ r.cwdInside /\ r.grant = ShellGrant(p, a) /\ ~r.forbidden /\ r.walk = "nothing"
      /\ r.words = <<w>>
  BY ShellRequest
<1>2. Law!ShellSays(r, t, d)
  <2>1. d = Law!Evaluate(r, t)
    BY SameEngine DEF Judge
  <2> QED BY <1>1, <2>1, Law!ShellVerdict DEF Law!Sound
<1>3. DOMAIN <<w>> = {1} /\ <<w>>[1] = w
  BY OneOf
<1>4. named = (a.at = "protected")
  <2>1. named <=> <<w>>[1].at = "protected"
    BY <1>1, <1>3 DEF Law!Named
  <2>2. <<w>>[1].at = a.at
    BY <1>3
  <2> QED BY <2>1, <2>2 DEF Law!Named
<1>5. /\ Law!FirstOpened(r.words, "protected") <=> a.at = "protected" /\ a.of \in Grammar
      /\ Law!MayName(r.words) <=> a.at = "protected" /\ a.of \notin Grammar
  BY <1>1, <1>3 DEF Law!FirstOpened, Law!Opened, Law!MayName
<1>6. Law!FirstOpened(r.words, "outside") <=> a.at = "outside" /\ a.of \in Grammar
  BY <1>1, <1>3 DEF Law!FirstOpened, Law!Opened
<1>7. /\ a.at \in {"inside", "protected", "outside"}
      /\ ShellGrant(p, a) \in {"sh-ok", "sh-exact", "sh-ask", "none"}
  BY DEF AllActs, Places, ShellGrant
<1> HIDE DEF r, d, w
<1>8. CASE ShellGrant(p, a) = "none"
  BY <1>1, <1>2, <1>4, <1>8 DEF Law!ShellSays, Law!Fields, CommandSays, d
<1>9. CASE ShellGrant(p, a) # "none" /\ a.at = "protected"
  BY <1>1, <1>2, <1>4, <1>5, <1>6, <1>9 DEF Law!ShellSays, Law!Fields, Fields, CommandSays, d
<1>10. CASE ShellGrant(p, a) # "none" /\ a.at # "protected"
  <2>1. named = FALSE
    BY <1>4, <1>10
  <2> HIDE DEF named
  <2>2. CASE Stays(a)
    BY <1>1, <1>2, <1>5, <1>6, <1>7, <1>10, <2>1, <2>2
       DEF Law!ShellSays, Law!Fields, Fields, CommandSays, Stays, d, named
  <2>3. CASE ~Stays(a)
    BY <1>1, <1>2, <1>5, <1>6, <1>7, <1>10, <2>1, <2>3
       DEF Law!ShellSays, Law!Fields, Fields, CommandSays, Stays, d, named
  <2> QED BY <2>2, <2>3
<1> QED BY <1>8, <1>9, <1>10

FetchSays(p, a, t, d) ==
    LET granted == Grant("network.allow", a.of) \in p
    IN \/ /\ ~granted /\ d.decision = "block" /\ d.taints = FALSE
          /\ d.rule \in {"net-deny-all", "net-allowlist"}
       \/ granted /\ t /\ Fields(d, "block", "taint-session", FALSE)
       \/ granted /\ ~t /\ Fields(d, "allow", "net-ok", FALSE)

LEMMA OfFetches ==
  ASSUME NEW p, NEW a \in AllActs, NEW t \in BOOLEAN, ~a.secret, a.tool = "net.request"
  PROVE  FetchSays(p, a, t, Judge(p, a, t))
<1> DEFINE r == Request(p, a)
           d == Judge(p, a, t)
           granted == Grant("network.allow", a.of) \in p
<1>1. /\ r \in Law!NetRequests /\ ~r.secret /\ ~r.malformed
      /\ (r.matches => r.allowlist) /\ (r.matches <=> granted)
  BY NetRequest
<1>2. Law!NetSays(r, t, d)
  <2>1. d = Law!Evaluate(r, t)
    BY SameEngine DEF Judge
  <2> QED BY <1>1, <2>1, Law!NetVerdict DEF Law!Sound
<1> HIDE DEF r, d
<1>3. FetchSays(p, a, t, d)
  BY <1>1, <1>2 DEF Law!NetSays, Law!Fields, Fields, FetchSays
<1> QED BY <1>3 DEF d

CallSays(p, a, d) ==
    LET granted == Grant("mcp_registry", a.of) \in p
    IN \/ ~granted /\ Fields(d, "block", "mcp-unknown-tool", FALSE)
       \/ granted /\ a.at = "protected" /\ Fields(d, "block", "mcp-protected-path", TRUE)
       \/ /\ granted /\ a.at = "outside" /\ d.decision = "block" /\ d.taints = FALSE
          /\ d.rule \in {"mcp-sandbox", "parse-error"}
       \/ granted /\ a.at = "inside" /\ Fields(d, "allow", "mcp-ok", FALSE)

LEMMA OfCalls ==
  ASSUME NEW p, NEW a \in AllActs, NEW t \in BOOLEAN, ~a.secret, a.tool = "mcp.call"
  PROVE  CallSays(p, a, Judge(p, a, t))
<1> DEFINE r == Request(p, a)
           d == Judge(p, a, t)
           granted == Grant("mcp_registry", a.of) \in p
<1>1. /\ r \in Law!McpCalls /\ ~r.secret /\ ~r.malformed /\ r.strings = <<a.at>>
      /\ (r.registered <=> granted)
  BY McpRequest
<1>2. Law!McpSays(r, t, d)
  <2>1. d = Law!Evaluate(r, t)
    BY SameEngine DEF Judge
  <2> QED BY <1>1, <2>1, Law!McpVerdict DEF Law!Sound
<1>3. DOMAIN <<a.at>> = {1} /\ <<a.at>>[1] = a.at
  BY OneOf
<1>4. /\ Law!FirstBad(r.strings, "protected") => a.at = "protected"
      /\ Law!FirstBad(r.strings, "outside") => a.at = "outside"
      /\ Law!FirstBad(r.strings, "untyped") => a.at = "untyped"
  BY <1>1, <1>3 DEF Law!FirstBad
<1>5. a.at \in {"inside", "protected", "outside"}
  BY DEF AllActs, Places
<1> HIDE DEF r, d
<1>6. CallSays(p, a, d)
  BY <1>1, <1>2, <1>3, <1>4, <1>5 DEF Law!McpSays, Law!Fields, Fields, CallSays
<1> QED BY <1>6 DEF d
-----------------------------------------------------------------------------
(* Grants. *)

(* What a request taints by, as far as a policy lets the engine look. *)
Names(p, a) == a.at = "protected" /\ (a.tool = "mcp.call" => Grant("mcp_registry", a.of) \in p)

LEMMA ToolsAre ==
  ASSUME NEW a \in AllActs
  PROVE  /\ a.tool \in {"fs.read", "fs.write", "shell.run", "net.request", "mcp.call"}
         /\ a.at \in {"inside", "protected", "outside"} /\ a.secret \in BOOLEAN
         /\ a.tool = "net.request" => a.at = "inside" /\ a.of \in Origins \cup {Other}
         /\ a.tool = "shell.run" => a.of \in Binaries \cup {Other} /\ a.args \in Args
         /\ a.tool = "fs.write" => a.of \in Dirs \cup {Other}
         /\ a.tool = "mcp.call" => a.of \in Tools
         /\ a # NoAct
  BY DEF AllActs, NoAct, Places

LEMMA Tainting ==
  ASSUME NEW p, NEW a \in AllActs, NEW t \in BOOLEAN
  PROVE  LET d == Judge(p, a, t)
         IN /\ d.decision \in {"allow", "ask", "block"}
            /\ d.taints \in BOOLEAN
            /\ d.taints <=> a.secret \/ Names(p, a)
<1> DEFINE d == Judge(p, a, t)
<1>0. /\ a.tool \in {"fs.read", "fs.write", "shell.run", "net.request", "mcp.call"}
      /\ a.at \in {"inside", "protected", "outside"}
      /\ a.tool = "net.request" => a.at = "inside"
  BY ToolsAre
<1>1. CASE a.secret
  <2>1. Fields(d, "block", "secret-egress", TRUE)
    BY <1>1, OfSecrets
  <2> QED BY <1>1, <2>1 DEF Fields
<1>2. CASE ~a.secret /\ a.tool = "fs.read"
  <2>1. ReadSays(a, d)
    BY <1>2, OfReads
  <2> HIDE DEF d
  <2>2. /\ d.decision \in {"allow", "ask", "block"} /\ d.taints \in BOOLEAN
        /\ d.taints <=> a.at = "protected"
    BY <2>1 DEF ReadSays, Fields
  <2> QED BY <1>2, <2>2 DEF Names, d
<1>3. CASE ~a.secret /\ a.tool = "fs.write"
  <2>1. WriteSays(p, a, d)
    BY <1>3, OfWrites
  <2> HIDE DEF d
  <2>2. /\ d.decision \in {"allow", "ask", "block"} /\ d.taints \in BOOLEAN
        /\ d.taints <=> a.at = "protected"
    BY <2>1 DEF WriteSays, Fields
  <2> QED BY <1>3, <2>2 DEF Names, d
<1>4. CASE ~a.secret /\ a.tool = "shell.run"
  <2>1. CommandSays(p, a, t, d)
    BY <1>4, OfCommands
  <2> HIDE DEF d
  <2>2. d.decision \in {"allow", "ask", "block"} /\ d.taints \in BOOLEAN
    BY <2>1 DEF CommandSays, Fields
  <2>3. d.taints <=> a.at = "protected"
    BY <2>1 DEF CommandSays, Fields, Stays
  <2> QED BY <1>4, <2>2, <2>3 DEF Names, d
<1>5. CASE ~a.secret /\ a.tool = "net.request"
  <2>1. FetchSays(p, a, t, d)
    BY <1>5, OfFetches
  <2> HIDE DEF d
  <2>2. d.taints \in BOOLEAN /\ ~d.taints /\ d.decision \in {"allow", "ask", "block"}
    BY <2>1 DEF FetchSays, Fields
  <2> QED BY <1>0, <1>5, <2>2 DEF Names, d
<1>6. CASE ~a.secret /\ a.tool = "mcp.call"
  <2>1. CallSays(p, a, d)
    BY <1>6, OfCalls
  <2> HIDE DEF d
  <2>2. /\ d.decision \in {"allow", "ask", "block"} /\ d.taints \in BOOLEAN
        /\ d.taints <=> Grant("mcp_registry", a.of) \in p /\ a.at = "protected"
    BY <2>1 DEF CallSays, Fields
  <2> QED BY <1>6, <2>2 DEF Names, d
<1> QED BY <1>0, <1>1, <1>2, <1>3, <1>4, <1>5, <1>6

Rules ==
    {"secret-egress", "fs-protected", "fs-sandbox", "fs-read-ok", "fs-write-ok", "fs-write-scope",
     "sh-allowlist", "sh-paths", "sh-args", "sh-ok", "sh-exact", "sh-ask", "taint-session",
     "net-deny-all", "net-allowlist", "net-ok", "mcp-unknown-tool", "mcp-protected-path",
     "mcp-sandbox", "parse-error", "mcp-ok", "approval-denied", "learn-ask", "fail-closed"}

LEMMA RulesAre ==
  ASSUME NEW p, NEW a \in AllActs, NEW t \in BOOLEAN
  PROVE  Judge(p, a, t).rule \in Rules
<1> DEFINE d == Judge(p, a, t)
<1>1. CASE a.secret
  <2>1. Fields(d, "block", "secret-egress", TRUE)
    BY <1>1, OfSecrets
  <2> QED BY <2>1 DEF Fields, Rules
<1>2. ASSUME ~a.secret
      PROVE  \/ ReadSays(a, d) \/ WriteSays(p, a, d) \/ CommandSays(p, a, t, d)
             \/ FetchSays(p, a, t, d) \/ CallSays(p, a, d)
  BY <1>2, OfReads, OfWrites, OfCommands, OfFetches, OfCalls, ToolsAre
<1> HIDE DEF d
<1>3. ~a.secret => d.rule \in Rules
  BY <1>2 DEF ReadSays, WriteSays, CommandSays, FetchSays, CallSays, Fields, Rules
<1> QED BY <1>1, <1>3 DEF d

LEMMA Granting ==
  ASSUME NEW a \in AllActs
  PROVE  /\ a.tool = "fs.write" => Wanted(a) = {Grant("writable_dirs", a.of)}
         /\ a.tool = "shell.run" /\ a.of \in Grammar =>
               Wanted(a) = {Grant("shell_allowlist", a.of)}
         /\ a.tool = "shell.run" /\ a.of \in Programs =>
               Wanted(a) = {Grant("shell_ask", a.of)}
         /\ a.tool = "shell.run" /\ a.of \notin Grammar \cup Programs => Wanted(a) = {}
         /\ a.tool = "net.request" /\ a.of # Other =>
               Wanted(a) = {Grant("network.allow", a.of)}
         /\ a.tool = "mcp.call" => Wanted(a) = {Grant("mcp_registry", a.of)}
         /\ a.tool = "fs.read" => Wanted(a) = {}
<1>1. Grammar \cap Programs = {}
  BY LearnAssumption
<1>2. CASE a.tool = "fs.write"
  BY <1>2 DEF Wanted
<1>3. CASE a.tool = "shell.run"
  BY <1>1, <1>3 DEF Wanted
<1>4. CASE a.tool = "net.request"
  BY <1>4 DEF Wanted
<1>5. CASE a.tool = "mcp.call"
  BY <1>5 DEF Wanted
<1>6. CASE a.tool = "fs.read"
  BY <1>6 DEF Wanted
<1> QED BY <1>2, <1>3, <1>4, <1>5, <1>6, ToolsAre

LEMMA GrantsAre ==
  ASSUME NEW g \in AllGrants
  PROVE  /\ g.key \in {"writable_dirs", "shell_allowlist", "shell_ask", "shell_exact",
                       "network.allow", "mcp_registry"}
         /\ g = Grant(g.key, g.of)
         /\ g.key = "writable_dirs" => g.of \in Dirs \cup {Other}
         /\ g.key \in {"shell_allowlist", "shell_ask"} => g.of \in Binaries
         /\ g.key = "shell_exact" => g.of \in Binaries \X Args
         /\ g.key = "network.allow" => g.of \in Origins
         /\ g.key = "mcp_registry" => g.of \in Tools
  BY DEF AllGrants, Grant

(* A command passes by the allowlist, and by its exact words, when it stays in the sandbox. *)
LEMMA Helping ==
  ASSUME NEW a \in AllActs, a.tool = "shell.run", ~a.secret, NEW g,
         g = Grant("shell_allowlist", a.of) \/ g = Exact(a)
  PROVE  Helps(g, a) <=> Stays(a)
<1> DEFINE p == policy \cup {g}
           d == Judge(p, a, FALSE)
<1>1. ShellGrant(p, a) \in {"sh-ok", "sh-exact"}
  BY DEF ShellGrant
<1>2. CommandSays(p, a, FALSE, d)
  BY OfCommands
<1> HIDE DEF p, d
<1>3. (d.decision # "block" /\ ~d.taints) <=> Stays(a)
  BY <1>1, <1>2 DEF CommandSays, Fields, Stays
<1> QED BY <1>3 DEF Helps, d, p

(* The rules that tell what a request was short of, or had. *)
RuleSays(p, a, rule) ==
    /\ rule = "fs-write-scope" <=>
          /\ ~a.secret /\ a.tool = "fs.write" /\ a.at = "inside"
          /\ Grant("writable_dirs", a.of) \notin p
    /\ rule = "fs-write-ok" <=>
          /\ ~a.secret /\ a.tool = "fs.write" /\ a.at = "inside"
          /\ Grant("writable_dirs", a.of) \in p
    /\ rule = "sh-allowlist" <=>
          ~a.secret /\ a.tool = "shell.run" /\ ShellGrant(p, a) = "none"
    /\ \A grant \in {"sh-ok", "sh-exact", "sh-ask"} :
          rule = grant <=>
             ~a.secret /\ a.tool = "shell.run" /\ Stays(a) /\ ShellGrant(p, a) = grant
    /\ rule = "net-ok" <=>
          ~a.secret /\ a.tool = "net.request" /\ Grant("network.allow", a.of) \in p
    /\ rule = "mcp-ok" <=>
          /\ ~a.secret /\ a.tool = "mcp.call" /\ a.at = "inside"
          /\ Grant("mcp_registry", a.of) \in p

LEMMA RulesSay ==
  ASSUME NEW p, NEW a \in AllActs
  PROVE  RuleSays(p, a, Judge(p, a, FALSE).rule)
<1> DEFINE d == Judge(p, a, FALSE)
<1>1. CASE a.secret
  <2>1. Fields(d, "block", "secret-egress", TRUE)
    BY <1>1, OfSecrets
  <2> QED BY <1>1, <2>1 DEF Fields, RuleSays
<1>2. CASE ~a.secret /\ a.tool = "fs.read"
  <2>1. ReadSays(a, d)
    BY <1>2, OfReads
  <2> HIDE DEF d
  <2>2. d.rule \in {"fs-protected", "fs-sandbox", "fs-read-ok"}
    BY <2>1 DEF ReadSays, Fields
  <2> QED BY <1>2, <2>2 DEF d, RuleSays
<1>3. CASE ~a.secret /\ a.tool = "fs.write"
  <2>1. WriteSays(p, a, d)
    BY <1>3, OfWrites
  <2> HIDE DEF d
  <2>2. /\ d.rule \in {"fs-protected", "fs-sandbox", "fs-write-ok", "fs-write-scope"}
        /\ d.rule = "fs-write-scope" <=>
              a.at = "inside" /\ Grant("writable_dirs", a.of) \notin p
        /\ d.rule = "fs-write-ok" <=>
              a.at = "inside" /\ Grant("writable_dirs", a.of) \in p
    BY <2>1 DEF WriteSays, Fields
  <2> QED BY <1>3, <2>2 DEF d, RuleSays
<1>4. CASE ~a.secret /\ a.tool = "shell.run"
  <2>1. CommandSays(p, a, FALSE, d)
    BY <1>4, OfCommands
  <2> HIDE DEF d
  <2>2. d.rule \in {"sh-allowlist", "sh-paths", "sh-args", "sh-ok", "sh-exact", "sh-ask"}
    BY <2>1 DEF CommandSays, Fields
  <2>3. d.rule = "sh-allowlist" <=> ShellGrant(p, a) = "none"
    BY <2>1 DEF CommandSays, Fields
  <2>4. \A grant \in {"sh-ok", "sh-exact", "sh-ask"} :
           d.rule = grant <=> Stays(a) /\ ShellGrant(p, a) = grant
    BY <2>1 DEF CommandSays, Fields, Stays
  <2> QED BY <1>4, <2>2, <2>3, <2>4 DEF d, RuleSays
<1>5. CASE ~a.secret /\ a.tool = "net.request"
  <2>1. FetchSays(p, a, FALSE, d)
    BY <1>5, OfFetches
  <2> HIDE DEF d
  <2>2. /\ d.rule \in {"net-deny-all", "net-allowlist", "net-ok"}
        /\ d.rule = "net-ok" <=> Grant("network.allow", a.of) \in p
    BY <2>1 DEF FetchSays, Fields
  <2> QED BY <1>5, <2>2 DEF d, RuleSays
<1>6. CASE ~a.secret /\ a.tool = "mcp.call"
  <2>1. CallSays(p, a, d)
    BY <1>6, OfCalls
  <2> HIDE DEF d
  <2>2. /\ d.rule \in {"mcp-unknown-tool", "mcp-protected-path", "mcp-sandbox",
                        "parse-error", "mcp-ok"}
        /\ d.rule = "mcp-ok" <=> a.at = "inside" /\ Grant("mcp_registry", a.of) \in p
    BY <2>1 DEF CallSays, Fields
  <2> QED BY <1>6, <2>2 DEF d, RuleSays
<1> QED BY <1>1, <1>2, <1>3, <1>4, <1>5, <1>6, ToolsAre

(* Evidence adds the grant g, when the policy is p. *)
Missing(p, a, g) ==
    /\ ~a.secret
    /\ \/ /\ a.tool = "fs.write" /\ a.at = "inside" /\ a.of \in Dirs
          /\ g = Grant("writable_dirs", a.of) /\ g \notin p
       \/ /\ a.tool = "shell.run" /\ Stays(a) /\ ShellGrant(p, a) = "none"
          /\ \/ a.of \in Grammar /\ g = Grant("shell_allowlist", a.of)
             \/ a.of \in Programs /\ g = Grant("shell_ask", a.of)

(* It shows g in use. *)
InUse(p, a, g) ==
    /\ ~a.secret
    /\ \/ /\ a.tool = "fs.write" /\ a.at = "inside"
          /\ g = Grant("writable_dirs", a.of) /\ g \in p
       \/ /\ a.tool = "shell.run" /\ Stays(a)
          /\ \/ ShellGrant(p, a) = "sh-ok" /\ g = Grant("shell_allowlist", a.of)
             \/ ShellGrant(p, a) = "sh-exact" /\ g = Exact(a)
             \/ ShellGrant(p, a) = "sh-ask" /\ g = Grant("shell_ask", a.of)
       \/ a.tool = "net.request" /\ g = Grant("network.allow", a.of) /\ g \in p
       \/ /\ a.tool = "mcp.call" /\ a.at = "inside"
          /\ g = Grant("mcp_registry", a.of) /\ g \in p

LEMMA Adding ==
  ASSUME NEW a \in AllActs, NEW b, b.rule = Judge(policy, a, FALSE).rule, NEW g
  PROVE  g \in ToAdd(a, b) <=> Missing(policy, a, g)
<1>0. RuleSays(policy, a, b.rule)
  BY RulesSay
<1> USE DEF RuleSays
<1>1. CASE b.rule \notin {"fs-write-scope", "sh-allowlist"}
  <2>1. ToAdd(a, b) = {}
    BY <1>1 DEF ToAdd
  <2> QED BY <1>0, <1>1, <2>1 DEF Missing
<1>2. CASE b.rule = "fs-write-scope"
  <2>1. Wanted(a) = {Grant("writable_dirs", a.of)} /\ Grant("writable_dirs", a.of).of = a.of
    BY <1>0, <1>2, Granting DEF Grant
  <2>2. ToAdd(a, b) = {w \in Wanted(a) : w.of \in Dirs}
    BY <1>2 DEF ToAdd
  <2> QED BY <1>0, <1>2, <2>1, <2>2 DEF Missing
<1>3. CASE b.rule = "sh-allowlist"
  <2>1. ~a.secret /\ a.tool = "shell.run" /\ ShellGrant(policy, a) = "none"
    BY <1>0, <1>3
  <2>2. ToAdd(a, b) = {w \in Wanted(a) : \A h \in Tried(a) : Helps(h, a)}
    BY <1>3 DEF ToAdd
  <2>3. CASE a.of \in Grammar
    <3>1. /\ Wanted(a) = {Grant("shell_allowlist", a.of)} /\ Tried(a) = Wanted(a)
          /\ a.of \notin Programs
      BY <2>1, <2>3, Granting, LearnAssumption DEF Tried
    <3>2. Helps(Grant("shell_allowlist", a.of), a) <=> Stays(a)
      BY <2>1, Helping
    <3> QED BY <2>1, <2>2, <2>3, <3>1, <3>2 DEF Missing
  <2>4. CASE a.of \in Programs
    <3>1. /\ Wanted(a) = {Grant("shell_ask", a.of)} /\ Tried(a) = {Exact(a)}
          /\ a.of \notin Grammar
      BY <2>1, <2>4, Granting, LearnAssumption DEF Tried, WantedExact, Binaries
    <3>2. Helps(Exact(a), a) <=> Stays(a)
      BY <2>1, Helping
    <3> QED BY <2>1, <2>2, <2>4, <3>1, <3>2 DEF Missing
  <2>5. CASE a.of \notin Grammar \cup Programs
    <3>1. Wanted(a) = {}
      BY <2>1, <2>5, Granting
    <3> QED BY <2>1, <2>2, <2>5, <3>1 DEF Missing
  <2> QED BY <2>3, <2>4, <2>5
<1> QED BY <1>1, <1>2, <1>3

LEMMA Using ==
  ASSUME NEW p \in SUBSET AllGrants, NEW a \in AllActs, NEW b,
         b.rule = Judge(p, a, FALSE).rule, NEW g
  PROVE  g \in UsedBy(a, b) <=> InUse(p, a, g)
<1> DEFINE passing == {"sh-ok", "sh-exact", "sh-ask", "net-ok", "fs-write-ok", "mcp-ok"}
<1>0. RuleSays(p, a, b.rule)
  BY RulesSay
<1> USE DEF RuleSays
<1>1. CASE b.rule \notin passing
  <2>1. UsedBy(a, b) = {}
    BY <1>1 DEF UsedBy
  <2> QED BY <1>0, <1>1, <2>1 DEF InUse
<1>2. CASE b.rule = "fs-write-ok"
  <2>1. UsedBy(a, b) = {Grant("writable_dirs", a.of)}
    BY <1>0, <1>2, Granting DEF UsedBy
  <2> QED BY <1>0, <1>2, <2>1 DEF InUse
<1>3. CASE b.rule = "sh-ok"
  <2>1. UsedBy(a, b) = {Grant("shell_allowlist", a.of)}
    BY <1>3 DEF UsedBy
  <2> QED BY <1>0, <1>3, <2>1 DEF InUse
<1>4. CASE b.rule = "sh-exact"
  <2>1. UsedBy(a, b) = {Exact(a)}
    BY <1>4 DEF UsedBy
  <2> QED BY <1>0, <1>4, <2>1 DEF InUse
<1>5. CASE b.rule = "sh-ask"
  <2>1. UsedBy(a, b) = {Grant("shell_ask", a.of)}
    BY <1>5 DEF UsedBy
  <2> QED BY <1>0, <1>5, <2>1 DEF InUse
<1>6. CASE b.rule = "net-ok"
  <2>1. a.of # Other
    <3>1. Grant("network.allow", a.of) \in AllGrants
      BY <1>0, <1>6
    <3> QED BY <3>1, GrantsAre, LearnAssumption DEF Grant
  <2>2. UsedBy(a, b) = {Grant("network.allow", a.of)}
    BY <1>0, <1>6, <2>1, Granting DEF UsedBy
  <2> QED BY <1>0, <1>6, <2>2 DEF InUse
<1>7. CASE b.rule = "mcp-ok"
  <2>1. UsedBy(a, b) = {Grant("mcp_registry", a.of)}
    BY <1>0, <1>7, Granting DEF UsedBy
  <2> QED BY <1>0, <1>7, <2>1 DEF InUse
<1> QED BY <1>1, <1>2, <1>3, <1>4, <1>5, <1>6, <1>7
-----------------------------------------------------------------------------
(* Two policies on one request. *)

(* What evidence can have added to p. *)
Addable(p, g) ==
    \/ g.key = "writable_dirs" /\ g.of \in Dirs
    \/ /\ \/ g.key = "shell_allowlist" /\ g.of \in Grammar
          \/ g.key = "shell_ask" /\ g.of \in Programs
       /\ Grant("shell_allowlist", g.of) \notin p /\ Grant("shell_ask", g.of) \notin p

LEMMA MissingIsAddable ==
  ASSUME NEW p, NEW a \in AllActs, NEW g, Missing(p, a, g)
  PROVE  /\ g \in AllGrants /\ g \notin p /\ g \in Wanted(a)
         /\ Addable(p, g)
<1>1. CASE a.tool = "fs.write"
  <2>1. g = Grant("writable_dirs", a.of) /\ a.of \in Dirs /\ g \notin p
    BY <1>1 DEF Missing
  <2> QED BY <1>1, <2>1, Granting DEF Addable, AllGrants, Grant
<1>2. CASE a.tool = "shell.run" /\ a.of \in Grammar
  <2>1. /\ g = Grant("shell_allowlist", a.of) /\ a.of \in Grammar
        /\ Grant("shell_allowlist", a.of) \notin p /\ Grant("shell_ask", a.of) \notin p
    BY <1>2, LearnAssumption DEF Missing, ShellGrant
  <2> QED BY <1>2, <2>1, Granting DEF Addable, AllGrants, Grant, Binaries
<1>3. CASE a.tool = "shell.run" /\ a.of \in Programs
  <2>1. /\ g = Grant("shell_ask", a.of) /\ a.of \in Programs
        /\ Grant("shell_allowlist", a.of) \notin p /\ Grant("shell_ask", a.of) \notin p
    BY <1>3, LearnAssumption DEF Missing, ShellGrant
  <2> QED BY <1>3, <2>1, Granting DEF Addable, AllGrants, Grant, Binaries
<1> QED BY <1>1, <1>2, <1>3 DEF Missing

(* What makes a request pass that did not, or pass unasked: a grant that was added. *)
LooserSays(N, a, t, d, e) ==
    /\ ~a.secret /\ a.at # "protected"
    /\ \/ /\ a.tool = "fs.write" /\ a.at = "inside"
          /\ Grant("writable_dirs", a.of) \in N
          /\ d.rule = "fs-write-scope"
       \/ /\ a.tool = "shell.run" /\ a.at = "inside" /\ a.of \in Grammar
          /\ Grant("shell_allowlist", a.of) \in N
          /\ ~t => d.rule = "sh-allowlist"
       \/ /\ a.tool = "shell.run" /\ a.of \in Programs /\ Grant("shell_ask", a.of) \in N
          /\ Fields(e, "ask", "sh-ask", FALSE)
          /\ ~t => d.rule = "sh-allowlist"

LEMMA Looser ==
  ASSUME NEW p, NEW N, NEW q \in SUBSET (p \cup N), \A g \in N : Addable(p, g),
         NEW a \in AllActs, NEW t \in BOOLEAN,
         Strictness(Judge(q, a, t).decision) < Strictness(Judge(p, a, t).decision)
  PROVE  LooserSays(N, a, t, Judge(p, a, t), Judge(q, a, t))
<1> DEFINE d == Judge(p, a, t)
           e == Judge(q, a, t)
<1>0. Strictness(e.decision) < Strictness(d.decision)
  OBVIOUS
<1>1. CASE a.secret
  <2>1. d.decision = "block" /\ e.decision = "block"
    BY <1>1, OfSecrets DEF Fields
  <2> QED BY <1>0, <2>1 DEF Strictness
<1>2. CASE ~a.secret /\ a.tool = "fs.read"
  <2>1. ReadSays(a, d) /\ ReadSays(a, e)
    BY <1>2, OfReads
  <2> HIDE DEF d, e
  <2>2. d.decision = e.decision
    BY <2>1 DEF ReadSays, Fields
  <2> QED BY <1>0, <2>1, <2>2 DEF ReadSays, Fields, Strictness
<1>3. CASE ~a.secret /\ a.tool = "fs.write"
  <2> DEFINE w == Grant("writable_dirs", a.of)
  <2>1. WriteSays(p, a, d) /\ WriteSays(q, a, e)
    BY <1>3, OfWrites
  <2>2. w \in q => w \in p \cup N
    OBVIOUS
  <2> HIDE DEF d, e
  <2>3. a.at = "inside" /\ w \notin p /\ w \in q /\ d.rule = "fs-write-scope"
    BY <1>0, <2>1 DEF WriteSays, Fields, Strictness
  <2> QED BY <1>3, <2>2, <2>3 DEF LooserSays, d
<1>4. CASE ~a.secret /\ a.tool = "shell.run"
  <2> DEFINE ok == Grant("shell_allowlist", a.of)
             exact == Exact(a)
             ask == Grant("shell_ask", a.of)
  <2>1. CommandSays(p, a, t, d) /\ CommandSays(q, a, t, e)
    BY <1>4, OfCommands
  <2>2. /\ exact \notin N
        /\ ok \in N => a.of \in Grammar /\ ok \notin p /\ ask \notin p
        /\ ask \in N => a.of \in Programs /\ ok \notin p /\ ask \notin p
    BY DEF Addable, Grant, Exact
  <2>3. /\ ShellGrant(p, a) = IF ok \in p THEN "sh-ok" ELSE IF exact \in p THEN "sh-exact"
                              ELSE IF ask \in p THEN "sh-ask" ELSE "none"
        /\ ShellGrant(q, a) = IF ok \in q THEN "sh-ok" ELSE IF exact \in q THEN "sh-exact"
                              ELSE IF ask \in q THEN "sh-ask" ELSE "none"
    BY DEF ShellGrant
  <2>4. \A g \in q : g \in p \cup N
    OBVIOUS
  <2>5. a.at \in {"inside", "protected", "outside"}
    BY ToolsAre
  <2> HIDE DEF d, e, ok, exact, ask
  <2>6. Stays(a) /\ a.at # "protected" /\ e.decision \in {"allow", "ask"}
    BY <1>0, <2>1 DEF CommandSays, Fields, Strictness, Stays
  <2>7. ShellGrant(q, a) # "none"
    BY <2>1, <2>6 DEF CommandSays, Fields
  <2>8. CASE e.decision = "allow"
    <3>1. ShellGrant(q, a) = "sh-ok" \/ (ShellGrant(q, a) = "sh-exact" /\ ~t)
      BY <2>1, <2>8 DEF CommandSays, Fields
    <3>2. ShellGrant(p, a) # "sh-ok" /\ (~t => ShellGrant(p, a) # "sh-exact")
      BY <1>0, <2>1, <2>6, <2>8 DEF CommandSays, Fields, Strictness
    <3>3. ok \in N
      BY <2>2, <2>3, <2>4, <3>1, <3>2
    <3>4. a.at = "inside" /\ a.of \in Grammar
      BY <2>2, <2>6, <3>3 DEF Stays
    <3>5. ~t => ShellGrant(p, a) = "none"
      BY <2>2, <2>3, <3>2, <3>3
    <3>6. ~t => d.rule = "sh-allowlist"
      BY <2>1, <2>6, <3>5 DEF CommandSays, Fields
    <3> QED BY <1>4, <2>6, <3>3, <3>4, <3>6 DEF LooserSays, d, ok
  <2>9. CASE e.decision = "ask"
    <3>1. ShellGrant(q, a) = "sh-ask" /\ ~t /\ Fields(e, "ask", "sh-ask", FALSE)
      BY <2>1, <2>9 DEF CommandSays, Fields
    <3>2. ShellGrant(p, a) = "none"
      BY <1>0, <2>1, <2>6, <2>9, <3>1, <2>3 DEF CommandSays, Fields, Strictness
    <3>3. ask \in N
      BY <2>3, <2>4, <3>1, <3>2
    <3>4. d.rule = "sh-allowlist"
      BY <2>1, <2>6, <3>2 DEF CommandSays, Fields
    <3> QED BY <1>4, <2>2, <2>6, <3>1, <3>3, <3>4 DEF LooserSays, d, e, ask
  <2> QED BY <2>6, <2>8, <2>9
<1>5. CASE ~a.secret /\ a.tool = "net.request"
  <2> DEFINE w == Grant("network.allow", a.of)
  <2>1. FetchSays(p, a, t, d) /\ FetchSays(q, a, t, e)
    BY <1>5, OfFetches
  <2>2. w \in q => w \in p
    BY DEF Addable, Grant
  <2> HIDE DEF d, e
  <2> QED BY <1>0, <2>1, <2>2 DEF FetchSays, Fields, Strictness
<1>6. CASE ~a.secret /\ a.tool = "mcp.call"
  <2> DEFINE w == Grant("mcp_registry", a.of)
  <2>1. CallSays(p, a, d) /\ CallSays(q, a, e)
    BY <1>6, OfCalls
  <2>2. w \in q => w \in p
    BY DEF Addable, Grant
  <2> HIDE DEF d, e
  <2> QED BY <1>0, <2>1, <2>2 DEF CallSays, Fields, Strictness
<1> QED BY <1>1, <1>2, <1>3, <1>4, <1>5, <1>6, ToolsAre

LEMMA Ranks ==
  \A x, y \in {"allow", "ask", "block"} :
     /\ Strictness(x) \in 0..2
     /\ y = "allow" \/ x = y \/ x = "block" => Strictness(y) <= Strictness(x)
  BY DEF Strictness

(* What is kept of a policy is enough for what was in use. *)
LEMMA Kept ==
  ASSUME NEW p, NEW q, NEW a \in AllActs, \A g \in p : InUse(p, a, g) => g \in q
  PROVE  Strictness(Judge(q, a, FALSE).decision) <= Strictness(Judge(p, a, FALSE).decision)
<1> DEFINE d == Judge(p, a, FALSE)
           e == Judge(q, a, FALSE)
<1>0. d.decision \in {"allow", "ask", "block"} /\ e.decision \in {"allow", "ask", "block"}
  BY Tainting
<1>1. CASE d.decision = "block"
  <2> HIDE DEF d, e
  <2>1. Strictness(e.decision) <= Strictness(d.decision)
    BY <1>0, <1>1, Ranks
  <2> QED BY <2>1 DEF d, e
<1>2. ASSUME d.decision # "block" PROVE e.decision = "allow" \/ e.decision = d.decision
  <2>0. ~a.secret
    BY <1>2, OfSecrets DEF Fields
  <2>1. CASE a.tool = "fs.read"
    <3>1. ReadSays(a, d) /\ ReadSays(a, e)
      BY <2>0, <2>1, OfReads
    <3> HIDE DEF d, e
    <3> QED BY <3>1 DEF ReadSays, Fields
  <2>2. CASE a.tool = "fs.write"
    <3> DEFINE w == Grant("writable_dirs", a.of)
    <3>1. WriteSays(p, a, d) /\ WriteSays(q, a, e)
      BY <2>0, <2>2, OfWrites
    <3>2. a.at = "inside" /\ w \in p => w \in q
      BY <2>0, <2>2 DEF InUse
    <3> HIDE DEF d, e
    <3> QED BY <1>2, <3>1, <3>2 DEF WriteSays, Fields
  <2>3. CASE a.tool = "shell.run"
    <3> DEFINE ok == Grant("shell_allowlist", a.of)
               exact == Exact(a)
               ask == Grant("shell_ask", a.of)
    <3>1. CommandSays(p, a, FALSE, d) /\ CommandSays(q, a, FALSE, e)
      BY <2>0, <2>3, OfCommands
    <3>2. Stays(a)
      <4> HIDE DEF d, e
      <4> QED BY <1>2, <3>1 DEF CommandSays, Fields
    <3>3. /\ ShellGrant(p, a) = "sh-ok" => ok \in q
          /\ ShellGrant(p, a) = "sh-exact" => exact \in q
          /\ ShellGrant(p, a) = "sh-ask" => ask \in q
      BY <2>0, <2>3, <3>2 DEF InUse, ShellGrant
    <3>4. ShellGrant(q, a) = IF ok \in q THEN "sh-ok" ELSE IF exact \in q THEN "sh-exact"
                             ELSE IF ask \in q THEN "sh-ask" ELSE "none"
      BY DEF ShellGrant
    <3> HIDE DEF d, e, ok, exact, ask
    <3> QED BY <1>2, <3>1, <3>2, <3>3, <3>4 DEF CommandSays, Fields, Stays
  <2>4. CASE a.tool = "net.request"
    <3> DEFINE w == Grant("network.allow", a.of)
    <3>1. FetchSays(p, a, FALSE, d) /\ FetchSays(q, a, FALSE, e)
      BY <2>0, <2>4, OfFetches
    <3>2. w \in p => w \in q
      BY <2>0, <2>4 DEF InUse
    <3> HIDE DEF d, e
    <3> QED BY <1>2, <3>1, <3>2 DEF FetchSays, Fields
  <2>5. CASE a.tool = "mcp.call"
    <3> DEFINE w == Grant("mcp_registry", a.of)
    <3>1. CallSays(p, a, d) /\ CallSays(q, a, e)
      BY <2>0, <2>5, OfCalls
    <3>2. a.at = "inside" /\ w \in p => w \in q
      BY <2>0, <2>5 DEF InUse
    <3> HIDE DEF d, e
    <3> QED BY <1>2, <3>1, <3>2 DEF CallSays, Fields
  <2> QED BY <2>1, <2>2, <2>3, <2>4, <2>5, ToolsAre
<1> HIDE DEF d, e
<1>3. d.decision # "block" => Strictness(e.decision) <= Strictness(d.decision)
  BY <1>0, <1>2, Ranks
<1> QED BY <1>1, <1>3 DEF d, e
-----------------------------------------------------------------------------
(* The invariant. *)

Observations ==
    [id : Nat, file : Files, proxy : BOOLEAN, session : Sessions \cup {NoSession}, act : Acts \cup {NoAct},
     decision : {"allow", "ask", "block"}, rule : Rules]
Requested ==
    [session : Sessions, act : Acts, over : SUBSET Nat, taints : BOOLEAN,
     observation : Observations]

Shape ==
    /\ policy \subseteq AllGrants /\ drop \in BOOLEAN /\ tainted \subseteq Sessions
    /\ made \in Seq(Requested) /\ trace \in Seq(Observations)
    /\ ran \subseteq DOMAIN made /\ no \subseteq DOMAIN made
    /\ stage \in {"recording", "reading", "proposed"}
    /\ read \in 0..Len(trace) /\ (stage = "recording" => read = 0)
    /\ round \in Nat /\ troubles \in 0..MaxSteps /\ Len(made) + round <= MaxSteps

(* What a request tainted by, and the policy of today would see as well. *)
PolicyInv ==
    /\ Loads(policy)
    /\ \A id \in DOMAIN made :
          /\ made[id].taints => made[id].act.secret \/ made[id].act.at = "protected"
          /\ made[id].act.secret \/ Names(policy, made[id].act) => made[id].taints

(* The trace holds what was made, once, and in each file after what it was made after. *)
Position(tr, id) == \E k \in DOMAIN tr : tr[k].id = id
TraceInv ==
    /\ \A id \in DOMAIN made :
          LET o == made[id].observation
          IN /\ o.id = id
             /\ o.act # NoAct => o.act = made[id].act /\ ~o.act.secret
             /\ \A over \in made[id].over : Position(trace, over)
    /\ \A i \in DOMAIN trace :
          /\ trace[i].id \in DOMAIN made
          /\ trace[i] = made[trace[i].id].observation
    /\ \A i, k \in DOMAIN trace :
          /\ trace[i].id = trace[k].id => i = k
          /\ MadeAfter(i, k) /\ trace[k].file = trace[i].file => k < i

(* What somebody said no to did not run, and its record shows that there was a question. *)
NoInv ==
    \A id \in no :
        /\ id \notin ran
        /\ LET o == made[id].observation
           IN o.act = NoAct \/ o.rule = "approval-denied" \/ o.decision = "ask"

(* How propose takes observation i of the trace tr, by policy p and the calls rn that ran. *)
Uses(o) == o.act # NoAct /\ ~Refused(o)
Spoils(p, o) == SeenTaint(o, Replay(p, o))
Counts(p, tr, rn, i) ==
    /\ Uses(tr[i])
    /\ tr[i].id \in rn \/ tr[i].decision # "ask"
    /\ \A j \in 1..i : tr[j].session = tr[i].session => ~Spoils(p, tr[j])

(* What has been gathered from the observations read, no more and no less. *)
ReadInv ==
    /\ taintedBy \subseteq Sessions \cup {NoSession}
    /\ \A s \in Sessions \cup {NoSession} :
          s \in taintedBy <=> \E j \in 1..read : trace[j].session = s /\ Spoils(policy, trace[j])
    /\ used \subseteq AllGrants /\ new \subseteq AllGrants /\ listed \subseteq AllGrants
    /\ \A g \in AllGrants :
          /\ g \in used <=>
                \E i \in 1..read : Uses(trace[i]) /\ InUse(policy, trace[i].act, g)
          /\ g \in new <=>
                \E i \in 1..read :
                   Counts(policy, trace, ran, i) /\ Missing(policy, trace[i].act, g)
          /\ g \in listed =>
                \E i \in 1..read :
                   /\ Counts(policy, trace, ran, i)
                   /\ g \in Wanted(trace[i].act) \cup WantedExact(trace[i].act)

ProposalInv ==
    /\ proposal \subseteq AllGrants
    /\ stage = "proposed" =>
          /\ read = Len(trace)
          /\ proposal = (policy \cup new) \ (IF drop THEN Unused(Seen) ELSE {})
          /\ Loads(proposal)

(* The policy has nothing to gain from the trace, or nothing but what it can do without to lose:
   which is so once it came of this trace, if this trace still tells all that tainted. *)
Told(p, m, tr) ==
    \A i \in DOMAIN tr :
       /\ m[tr[i].id].taints /\ tr[i].act # NoAct
       /\ tr[i].act.tool = "mcp.call"
       => Grant("mcp_registry", tr[i].act.of) \in p
Redundant(p, g) == g.key = "shell_exact" /\ Grant("shell_allowlist", g.of[1]) \in p
Settled(p, tr, rn, keys) ==
    /\ \A i \in DOMAIN tr, g \in AllGrants :
          Counts(p, tr, rn, i) => ~Missing(p, tr[i].act, g)
    /\ \A g \in p : g.key \in keys =>
          \/ Redundant(p, g)
          \/ \E i \in DOMAIN tr : Uses(tr[i]) /\ InUse(p, tr[i].act, g)
SeenIn(tr) ==
    (IF \E i \in DOMAIN tr : ~tr[i].proxy
     THEN {"shell_allowlist", "shell_ask", "shell_exact", "writable_dirs", "network.allow"}
     ELSE {})
    \cup (IF \E i \in DOMAIN tr : tr[i].proxy /\ tr[i].act # NoAct
          THEN {"mcp_registry"} ELSE {})
BasisInv == basis # <<>> =>
    \E tr \in Seq(Observations), rn \in SUBSET ran, d \in BOOLEAN :
       /\ basis = <<tr, rn, d>>
       /\ \A i \in DOMAIN tr : tr[i].id \in DOMAIN made
       /\ Told(policy, made, tr) => Settled(policy, tr, rn, IF d THEN SeenIn(tr) ELSE {})

IInv == Shape /\ PolicyInv /\ TraceInv /\ NoInv /\ ReadInv /\ ProposalInv /\ BasisInv

-----------------------------------------------------------------------------
LEMMA InitIInv == Init => IInv
<1> SUFFICES ASSUME Init PROVE IInv
  OBVIOUS
<1>1. policy \subseteq AllGrants /\ Loads(policy)
  BY LearnAssumption DEF Init, Loads
<1>2. Shape
  <2>1. MaxSteps \in Nat
    BY LearnAssumption
  <2>2. made = <<>> /\ trace = <<>> /\ Len(made) = 0 /\ Len(trace) = 0
    BY DEF Init
  <2>3. made \in Seq(Requested) /\ trace \in Seq(Observations)
    BY <2>2
  <2>4. /\ drop = FALSE /\ tainted = {} /\ ran = {} /\ no = {} /\ stage = "recording"
        /\ read = 0 /\ round = 0 /\ troubles = 0
    BY DEF Init
  <2>5. 0 \in 0..Len(trace) /\ 0 \in Nat /\ 0 \in 0..MaxSteps /\ Len(made) + 0 <= MaxSteps
    BY <2>1, <2>2
  <2>6. drop \in BOOLEAN /\ ran \subseteq DOMAIN made /\ no \subseteq DOMAIN made
    BY <2>4
  <2>7. tainted \subseteq Sessions /\ stage \in {"recording", "reading", "proposed"}
    BY <2>4
  <2> QED BY <1>1, <2>3, <2>4, <2>5, <2>6, <2>7 DEF Shape
<1>3. PolicyInv /\ TraceInv /\ NoInv /\ ProposalInv /\ BasisInv
  BY <1>1 DEF Init, PolicyInv, TraceInv, NoInv, ProposalInv, BasisInv
<1>4. ReadInv
  BY DEF Init, ReadInv
<1> QED BY <1>2, <1>3, <1>4 DEF IInv

(* A replayed observation is judged, or stays what it was. *)
LEMMA Replayed ==
  ASSUME NEW p, NEW o \in Observations
  PROVE  /\ o.act # NoAct =>
               /\ o.act \in AllActs
               /\ Replay(p, o).decision = Judge(p, o.act, FALSE).decision
               /\ Replay(p, o).rule = Judge(p, o.act, FALSE).rule
               /\ Replay(p, o).taints <=> o.act.secret \/ Names(p, o.act)
         /\ o.act = NoAct => ~Replay(p, o).taints /\ \A q : Replay(q, o) = Replay(p, o)
         /\ Replay(p, o).decision \in {"allow", "ask", "block"}
<1>1. CASE o.act # NoAct
  <2>1. o.act \in AllActs
    BY <1>1, LearnAssumption DEF Observations
  <2>2. /\ Replay(p, o).decision = Judge(p, o.act, FALSE).decision
        /\ Replay(p, o).rule = Judge(p, o.act, FALSE).rule
        /\ Replay(p, o).taints = Judge(p, o.act, FALSE).taints
    BY <1>1 DEF Replay
  <2> QED BY <1>1, <2>1, <2>2, Tainting
<1>2. CASE o.act = NoAct
  BY <1>2 DEF Replay, Observations
<1> QED BY <1>1, <1>2

LEMMA Reaches ==
  ASSUME Shape
  PROVE  /\ DOMAIN made = 1..Len(made) /\ Len(made) \in Nat
         /\ DOMAIN trace = 1..Len(trace) /\ Len(trace) \in Nat
         /\ \A id \in DOMAIN made : made[id] \in Requested
         /\ \A i \in DOMAIN trace : trace[i] \in Observations
         /\ \A i \in 1..read : i \in DOMAIN trace
  BY DEF Shape

(* A request is judged. *)
LEMMA DecideIInv ==
  ASSUME IInv, NEW s \in Sessions, NEW a \in Acts, Decide(s, a)
  PROVE  IInv'
<1> USE DEF IInv
<1>1. PICK f \in Files, audited \in BOOLEAN, mode \in {"enforce", "ask"},
           approval \in {"delegate", "deny"} :
         LET r == Recorded(s, a, mode, approval)
         IN /\ made' = Append(made, [session |-> s, act |-> a, over |-> Observed,
                                     taints |-> Judge(policy, a, s \in tainted).taints,
                                     observation |-> Observation(s, a, f, audited, r)])
            /\ no' = IF r.rule = "approval-denied" THEN no \cup {Len(made) + 1} ELSE no
            /\ troubles' = IF audited THEN troubles ELSE troubles + 1
  BY DEF Decide
<1>2. /\ stage = "recording" /\ Len(made) + round + troubles < MaxSteps
      /\ UNCHANGED <<policy, drop, tainted, trace, ran, stage, read, taintedBy, used, new, listed,
                     proposal, round, basis>>
  BY DEF Decide, reading
<1> DEFINE t == s \in tainted
           d == Judge(policy, a, t)
           r == Recorded(s, a, mode, approval)
           o == Observation(s, a, f, audited, r)
           m == [session |-> s, act |-> a, over |-> Observed, taints |-> d.taints,
                 observation |-> o]
<1>3. a \in AllActs /\ a \in Acts /\ a # NoAct
  BY LearnAssumption, ToolsAre
<1>0. t \in BOOLEAN
  OBVIOUS
<1> HIDE DEF t
<1>4. /\ d.decision \in {"allow", "ask", "block"} /\ d.taints \in BOOLEAN
      /\ d.taints <=> a.secret \/ Names(policy, a)
  BY <1>3, <1>0, Tainting
<1>5. d.rule \in Rules
  BY <1>3, <1>0, RulesAre
<1> HIDE DEF d
<1>6. r.decision \in {"allow", "ask", "block"} /\ r.rule \in Rules
  BY <1>4, <1>5 DEF Recorded, Rules, d, t
<1> HIDE DEF r
<1>7. /\ o \in Observations /\ o.id = Len(made) + 1
      /\ o.act # NoAct => o.act = a /\ ~a.secret
      /\ r.rule = "approval-denied" => o.act = NoAct \/ o.rule = "approval-denied"
  <2>1. Len(made) + 1 \in Nat
    BY DEF Shape
  <2> QED BY <1>3, <1>6, <2>1 DEF Observation, Observations, Rules
<1> HIDE DEF o
<1>8. \A id \in Observed : Position(trace, id) /\ id \in Nat
  BY Reaches DEF Observed, Position, Observations
<1>9. m \in Requested
  BY <1>4, <1>7, <1>8 DEF Requested
<1>10. /\ m.act = a /\ m.over = Observed /\ m.observation = o
       /\ m.taints <=> a.secret \/ Names(policy, a)
  BY <1>4
<1>11. /\ made' = Append(made, m)
       /\ no' = IF r.rule = "approval-denied" THEN no \cup {Len(made) + 1} ELSE no
       /\ troubles' \in {troubles, troubles + 1}
  BY <1>1 DEF t, d, r, o
<1> HIDE DEF m
<1>12. /\ made' \in Seq(Requested) /\ Len(made') = Len(made) + 1 /\ Len(made) \in Nat
       /\ DOMAIN made = 1..Len(made) /\ DOMAIN made' = 1..(Len(made) + 1)
       /\ \A id \in DOMAIN made : made'[id] = made[id]
       /\ made'[Len(made) + 1] = m
  BY <1>9, <1>11 DEF Shape
<1>13. Shape'
  <2>1. MaxSteps \in Nat
    BY LearnAssumption
  <2>2. no' \subseteq DOMAIN made' /\ ran' \subseteq DOMAIN made'
    BY <1>2, <1>11, <1>12 DEF Shape
  <2> QED BY <1>2, <1>11, <1>12, <2>1, <2>2 DEF Shape
<1>14. PolicyInv'
  BY <1>2, <1>10, <1>12 DEF PolicyInv, Names
<1>15. TraceInv'
  BY <1>2, <1>7, <1>8, <1>10, <1>12 DEF TraceInv, MadeAfter
<1>16. NoInv'
  <2>1. ASSUME NEW id \in no', id \in no
        PROVE  id \notin ran' /\ made'[id] = made[id]
    BY <1>2, <1>12, <2>1 DEF NoInv, Shape
  <2>2. ASSUME NEW id \in no', id \notin no
        PROVE  /\ id = Len(made) + 1 /\ r.rule = "approval-denied" /\ id \notin ran'
               /\ made'[id].observation = o
    BY <1>2, <1>10, <1>11, <1>12, <2>2 DEF Shape
  <2> QED BY <1>7, <2>1, <2>2 DEF NoInv
<1>17. ReadInv'
  BY <1>2 DEF ReadInv
<1>18. ProposalInv'
  BY <1>2 DEF ProposalInv, Shape
<1>19. BasisInv'
  <2>1. ASSUME NEW tr \in Seq(Observations), \A i \in DOMAIN tr : tr[i].id \in DOMAIN made
        PROVE  /\ \A i \in DOMAIN tr : tr[i].id \in DOMAIN made'
               /\ Told(policy', made', tr) => Told(policy, made, tr)
    BY <1>2, <1>12, <2>1 DEF Told
  <2> QED BY <1>2, <2>1 DEF BasisInv
<1> QED BY <1>13, <1>14, <1>15, <1>16, <1>17, <1>18, <1>19

(* A request is written down, and taints. *)
LEMMA ObserveIInv ==
  ASSUME IInv, NEW id \in DOMAIN made, Observe(id)
  PROVE  IInv'
<1> USE DEF IInv
<1> DEFINE o == made[id].observation
<1>1. /\ stage = "recording" /\ id \notin Observed /\ trace' = Append(trace, o)
      /\ tainted' = IF made[id].taints THEN tainted \cup {made[id].session} ELSE tainted
      /\ UNCHANGED <<policy, drop, made, ran, no, stage, read, taintedBy, used, new, listed,
                     proposal, round, basis, troubles>>
  BY DEF Observe, reading
<1>2. made[id] \in Requested /\ o \in Observations /\ o.id = id
  BY Reaches DEF Requested, TraceInv
<1> HIDE DEF o
<1>3. /\ trace' \in Seq(Observations) /\ Len(trace') = Len(trace) + 1 /\ Len(trace) \in Nat
      /\ DOMAIN trace = 1..Len(trace) /\ DOMAIN trace' = 1..(Len(trace) + 1)
      /\ \A i \in DOMAIN trace : trace'[i] = trace[i]
      /\ trace'[Len(trace) + 1] = o
  BY <1>1, <1>2 DEF Shape
<1>4. read = 0 /\ read' = 0
  BY <1>1 DEF Shape
<1>5. Shape'
  BY <1>1, <1>2, <1>3, <1>4 DEF Shape, Requested
<1>6. PolicyInv'
  BY <1>1 DEF PolicyInv
<1>7. TraceInv'
  <2>1. \A k \in DOMAIN trace : trace'[k].id = trace[k].id /\ trace[k].id # id
    BY <1>1, <1>3 DEF Observed
  <2>2. ASSUME NEW over, Position(trace, over) PROVE Position(trace', over) /\ over # id
    BY <1>3, <2>1, <2>2 DEF Position
  <2>3. \A x \in DOMAIN made' :
           LET p == made'[x].observation
           IN /\ p.id = x
              /\ p.act # NoAct => p.act = made'[x].act /\ ~p.act.secret
              /\ \A over \in made'[x].over : Position(trace', over)
    BY <1>1, <2>2 DEF TraceInv
  <2>4. \A i \in DOMAIN trace' :
           trace'[i].id \in DOMAIN made' /\ trace'[i] = made'[trace'[i].id].observation
    BY <1>1, <1>2, <1>3 DEF TraceInv, o
  <2>5. ASSUME NEW i \in DOMAIN trace', NEW k \in DOMAIN trace'
        PROVE  /\ trace'[i].id = trace'[k].id => i = k
               /\ trace'[k].id \in made'[trace'[i].id].over /\ trace'[k].file = trace'[i].file
                     => k < i
    <3>1. trace'[Len(trace) + 1].id = id /\ made' = made
      BY <1>1, <1>2, <1>3
    <3>2. id \notin made[trace'[i].id].over
      BY <1>1, <2>2, <2>4 DEF TraceInv
    <3>3. CASE k = Len(trace) + 1
      BY <1>3, <2>1, <2>5, <3>1, <3>2, <3>3
    <3>4. CASE i = Len(trace) + 1 /\ k # Len(trace) + 1
      BY <1>3, <2>1, <2>5, <3>1, <3>4
    <3>5. CASE i \in DOMAIN trace /\ k \in DOMAIN trace
      BY <1>1, <1>3, <3>5 DEF TraceInv, MadeAfter
    <3> QED BY <1>3, <2>5, <3>3, <3>4, <3>5
  <2> QED BY <2>3, <2>4, <2>5 DEF TraceInv, MadeAfter
<1>8. NoInv'
  BY <1>1 DEF NoInv
<1>9. ReadInv'
  BY <1>1, <1>4 DEF ReadInv
<1>10. ProposalInv'
  BY <1>1 DEF ProposalInv
<1>11. BasisInv'
  BY <1>1 DEF BasisInv
<1> QED BY <1>5, <1>6, <1>7, <1>8, <1>9, <1>10, <1>11

(* A human answers, and the call runs or not. *)
LEMMA AnswerIInv ==
  ASSUME IInv, NEW id \in DOMAIN made, Answer(id)
  PROVE  IInv'
<1> USE DEF IInv
<1>1. /\ stage = "recording" /\ id \notin ran /\ id \notin no
      /\ made[id].observation.decision = "ask"
      /\ \/ ran' = ran \cup {id} /\ no' = no
         \/ no' = no \cup {id} /\ ran' = ran
      /\ UNCHANGED <<policy, drop, tainted, made, trace, stage, read, taintedBy, used, new,
                     listed, proposal, round, basis, troubles>>
  BY DEF Answer, reading
<1>2. read = 0 /\ read' = 0
  BY <1>1 DEF Shape
<1>3. Shape' /\ PolicyInv' /\ TraceInv' /\ ProposalInv'
  BY <1>1 DEF Shape, PolicyInv, TraceInv, MadeAfter, ProposalInv
<1>4. NoInv'
  BY <1>1 DEF NoInv
<1>5. ReadInv'
  BY <1>1, <1>2 DEF ReadInv
<1>6. BasisInv'
  <2>1. CASE ran' = ran
    BY <1>1, <2>1 DEF BasisInv
  <2>2. CASE ran' = ran \cup {id}
    <3>1. \A rn \in SUBSET ran : rn \in SUBSET ran' /\ rn # ran'
      BY <1>1, <2>2
    <3> QED BY <1>1, <3>1 DEF BasisInv
  <2> QED BY <1>1, <2>1, <2>2
<1> QED BY <1>3, <1>4, <1>5, <1>6

LEMMA InUseIsThere ==
  ASSUME NEW p, NEW a \in AllActs, NEW g, InUse(p, a, g)
  PROVE  g \in p
  BY DEF InUse, ShellGrant

LEMMA NeededAreGrants ==
  ASSUME NEW a \in AllActs
  PROVE  Wanted(a) \cup WantedExact(a) \subseteq AllGrants
<1>1. Wanted(a) \subseteq AllGrants
  <2>1. CASE a.tool = "fs.write"
    BY <2>1, Granting, ToolsAre DEF AllGrants, Grant
  <2>2. CASE a.tool = "shell.run" /\ a.of \in Grammar
    BY <2>2, Granting, ToolsAre DEF AllGrants, Grant, Binaries
  <2>3. CASE a.tool = "shell.run" /\ a.of \in Programs
    BY <2>3, Granting, ToolsAre DEF AllGrants, Grant, Binaries
  <2>4. CASE a.tool = "shell.run" /\ a.of \notin Grammar \cup Programs
    BY <2>4, Granting
  <2>5. CASE a.tool = "net.request"
    <3>1. CASE a.of = Other
      BY <2>5, <3>1 DEF Wanted
    <3>2. CASE a.of # Other
      BY <2>5, <3>2, Granting, ToolsAre DEF AllGrants, Grant
    <3> QED BY <3>1, <3>2
  <2>6. CASE a.tool = "mcp.call"
    BY <2>6, Granting, ToolsAre DEF AllGrants, Grant
  <2>7. CASE a.tool = "fs.read"
    BY <2>7, Granting
  <2> QED BY <2>1, <2>2, <2>3, <2>4, <2>5, <2>6, <2>7, ToolsAre
<1>2. WantedExact(a) \subseteq AllGrants
  BY ToolsAre DEF WantedExact, Exact, AllGrants, Grant
<1> QED BY <1>1, <1>2

LEMMA DecidedIsNeeded ==
  ASSUME NEW a \in AllActs, NEW b
  PROVE  ToDecide(a, b) \subseteq Wanted(a) \cup WantedExact(a)
<1>1. CASE b.rule = "fs-write-scope"
  BY <1>1 DEF ToDecide
<1>2. CASE b.rule = "sh-ask" \/ (b.rule = "sh-allowlist" /\ a.of \notin Grammar)
  BY <1>2 DEF ToDecide
<1>3. CASE b.rule \in {"net-deny-all", "net-allowlist", "mcp-unknown-tool"}
  BY <1>3 DEF ToDecide
<1>4. CASE /\ b.rule \notin {"fs-write-scope", "sh-ask", "net-deny-all", "net-allowlist",
                            "mcp-unknown-tool"}
           /\ ~(b.rule = "sh-allowlist" /\ a.of \notin Grammar)
  BY <1>4 DEF ToDecide
<1> QED BY <1>1, <1>2, <1>3, <1>4

(* Propose goes through one more observation. *)
LEMMA ReadNextIInv ==
  ASSUME IInv, ReadNext
  PROVE  IInv'
<1> USE DEF IInv
<1> DEFINE i == read + 1
           o == trace[i]
           before == Replay(policy, o)
           counts == Counts(policy, trace, ran, i)
<1>1. /\ stage = "reading" /\ read < Len(trace) /\ read' = read + 1
      /\ UNCHANGED <<policy, drop, tainted, made, trace, ran, no, stage, proposal, round, basis,
                     troubles>>
  BY DEF ReadNext, records
<1>2. LET evidence == o.act # NoAct /\ Evidence(o, before)
      IN /\ taintedBy' = TaintedNow(o, before)
         /\ used' = IF o.act # NoAct /\ ~Refused(o) THEN used \cup UsedBy(o.act, before) ELSE used
         /\ new' = IF evidence THEN new \cup ToAdd(o.act, before) ELSE new
         /\ listed' = IF evidence THEN listed \cup ToDecide(o.act, before) ELSE listed
  BY DEF ReadNext
<1>3. /\ i \in DOMAIN trace /\ o \in Observations /\ read \in Nat
      /\ \A j : j \in 1..i <=> j \in 1..read \/ j = i
  BY <1>1, Reaches DEF Shape
<1>4. /\ o.session \in Sessions \cup {NoSession}
      /\ o.act # NoAct => o.act \in AllActs /\ before.rule = Judge(policy, o.act, FALSE).rule
  <2>1. o.session \in Sessions \cup {NoSession}
    BY <1>3 DEF Observations
  <2> HIDE DEF o
  <2>2. o.act # NoAct => o.act \in AllActs /\ before.rule = Judge(policy, o.act, FALSE).rule
    BY <1>3, Replayed
  <2> QED BY <2>1, <2>2
<1>5. (o.act # NoAct /\ Evidence(o, before)) <=> counts
  <2>1. o.session \notin TaintedNow(o, before)
           <=> \A j \in 1..i : trace[j].session = o.session => ~Spoils(policy, trace[j])
    BY <1>3, <1>4 DEF TaintedNow, ReadInv, Spoils
  <2> QED BY <2>1 DEF Evidence, Counts, Uses, Confirmed
<1>6. taintedBy' \subseteq Sessions \cup {NoSession}
  BY <1>2, <1>4 DEF TaintedNow, ReadInv
<1>7. \A s \in Sessions \cup {NoSession} :
         s \in taintedBy' <=> \E j \in 1..i : trace[j].session = s /\ Spoils(policy, trace[j])
  BY <1>2, <1>3, <1>4 DEF TaintedNow, ReadInv, Spoils
<1>8. \A g \in AllGrants : g \in used' <=>
         \E j \in 1..i : Uses(trace[j]) /\ InUse(policy, trace[j].act, g)
  <2>1. \A g \in AllGrants : g \in used' <=> g \in used \/ (Uses(o) /\ InUse(policy, o.act, g))
    <3>1. ASSUME Uses(o), NEW g PROVE g \in UsedBy(o.act, before) <=> InUse(policy, o.act, g)
      BY <1>4, <3>1, Using DEF Uses, Shape
    <3> QED BY <1>2, <3>1 DEF Uses
  <2> QED BY <1>3, <2>1 DEF ReadInv
<1>9. \A g \in AllGrants : g \in new' <=>
         \E j \in 1..i : Counts(policy, trace, ran, j) /\ Missing(policy, trace[j].act, g)
  <2>1. \A g \in AllGrants : g \in new' <=> g \in new \/ (counts /\ Missing(policy, o.act, g))
    <3>1. ASSUME counts, NEW g PROVE g \in ToAdd(o.act, before) <=> Missing(policy, o.act, g)
      BY <1>4, <3>1, Adding DEF Counts, Uses
    <3> QED BY <1>2, <1>5, <3>1
  <2> QED BY <1>3, <2>1 DEF ReadInv
<1>10. \A g \in AllGrants : g \in listed' =>
         \E j \in 1..i : /\ Counts(policy, trace, ran, j)
                         /\ g \in Wanted(trace[j].act) \cup WantedExact(trace[j].act)
  <2>1. \A g \in listed' :
           g \in listed \/ (counts /\ g \in Wanted(o.act) \cup WantedExact(o.act))
    <3>1. counts => ToDecide(o.act, before) \subseteq Wanted(o.act) \cup WantedExact(o.act)
      BY <1>4, DecidedIsNeeded DEF Counts, Uses
    <3> QED BY <1>2, <1>5, <3>1
  <2> QED BY <1>3, <2>1 DEF ReadInv
<1>11. used' \subseteq AllGrants /\ new' \subseteq AllGrants /\ listed' \subseteq AllGrants
  <2>1. ASSUME Uses(o), NEW g \in UsedBy(o.act, before) PROVE g \in AllGrants
    <3>1. o.act \in AllActs /\ before.rule = Judge(policy, o.act, FALSE).rule
      BY <1>4, <2>1 DEF Uses
    <3>2. policy \in SUBSET AllGrants
      BY DEF Shape
    <3>3. InUse(policy, o.act, g)
      BY <2>1, <3>1, <3>2, Using
    <3> QED BY <3>1, <3>2, <3>3, InUseIsThere
  <2>2. ASSUME counts, NEW g \in ToAdd(o.act, before) PROVE g \in AllGrants
    <3>1. o.act \in AllActs /\ before.rule = Judge(policy, o.act, FALSE).rule
      BY <1>4, <2>2 DEF Counts, Uses
    <3>2. Missing(policy, o.act, g)
      BY <2>2, <3>1, Adding
    <3> QED BY <3>1, <3>2, MissingIsAddable
  <2>3. counts => ToDecide(o.act, before) \subseteq AllGrants
    BY <1>4, DecidedIsNeeded, NeededAreGrants DEF Counts, Uses
  <2> QED BY <1>2, <1>5, <2>1, <2>2, <2>3 DEF ReadInv, Uses
<1>12. ReadInv'
  BY <1>1, <1>6, <1>7, <1>8, <1>9, <1>10, <1>11 DEF ReadInv
<1>13. Shape' /\ PolicyInv' /\ TraceInv' /\ NoInv' /\ ProposalInv'
  BY <1>1, <1>3 DEF Shape, PolicyInv, TraceInv, MadeAfter, NoInv, ProposalInv
<1>14. BasisInv'
  BY <1>1 DEF BasisInv
<1> QED BY <1>12, <1>13, <1>14

(* What has been gathered to add. *)
LEMMA NewIsAddable ==
  ASSUME IInv
  PROVE  \A g \in new : Addable(policy, g) /\ g \notin policy /\ g \in AllGrants
<1> SUFFICES ASSUME NEW g \in new PROVE Addable(policy, g) /\ g \notin policy /\ g \in AllGrants
  OBVIOUS
<1>1. g \in AllGrants
  BY DEF IInv, ReadInv
<1>2. PICK i \in 1..read : Counts(policy, trace, ran, i) /\ Missing(policy, trace[i].act, g)
  BY <1>1 DEF IInv, ReadInv
<1>3. trace[i].act \in AllActs
  BY <1>2, Reaches, Replayed DEF IInv, Counts, Uses
<1> QED BY <1>1, <1>2, <1>3, MissingIsAddable

(* The replay check finds nothing. *)
LEMMA ProposalChecks ==
  ASSUME IInv, NEW q \in SUBSET (policy \cup new)
  PROVE  Checks(q)
<1> USE DEF IInv
<1>1. Loads(q)
  <2> SUFFICES ASSUME NEW b \in Binaries, Grant("shell_allowlist", b) \in q,
                      Grant("shell_ask", b) \in q
               PROVE  FALSE
    BY DEF Loads
  <2>1. /\ Grant("shell_allowlist", b) \in new =>
              /\ b \in Grammar /\ Grant("shell_allowlist", b) \notin policy
              /\ Grant("shell_ask", b) \notin policy
        /\ Grant("shell_ask", b) \in new =>
              /\ b \in Programs /\ Grant("shell_allowlist", b) \notin policy
              /\ Grant("shell_ask", b) \notin policy
    BY NewIsAddable DEF Addable, Grant
  <2> QED BY <2>1, LearnAssumption DEF PolicyInv, Loads
<1>2. ASSUME NEW i \in DOMAIN trace,
             Strictness(Replay(q, trace[i]).decision)
                < Strictness(Replay(policy, trace[i]).decision)
      PROVE  Granted(trace[i].act, Replay(policy, trace[i]), Replay(q, trace[i]))
  <2> DEFINE o == trace[i]
             a == o.act
  <2>1. o \in Observations
    BY Reaches
  <2>2. a # NoAct
    <3> HIDE DEF IInv, o
    <3>1. o.act = NoAct => \A p : Replay(p, o) = Replay(policy, o)
      BY <2>1, Replayed
    <3>2. Strictness(Replay(policy, o).decision) \in 0..2
      BY <2>1, Replayed, Ranks
    <3>3. o.act = NoAct => Replay(q, o) = Replay(policy, o)
      BY <3>1
    <3> QED BY <1>2, <3>2, <3>3 DEF o
  <2>3. /\ a \in AllActs
        /\ \A p : /\ Replay(p, o).decision = Judge(p, a, FALSE).decision
                  /\ Replay(p, o).rule = Judge(p, a, FALSE).rule
    BY <2>1, <2>2, Replayed
  <2>4. \A g \in new : Addable(policy, g)
    BY NewIsAddable
  <2>5. Strictness(Judge(q, a, FALSE).decision) < Strictness(Judge(policy, a, FALSE).decision)
    BY <1>2, <2>3
  <2> DEFINE d == Judge(policy, a, FALSE)
             e == Judge(q, a, FALSE)
  <2>6. LooserSays(new, a, FALSE, d, e)
    BY <2>3, <2>4, <2>5, Looser
  <2>7. Replay(policy, o).rule = d.rule /\ Replay(q, o).rule = e.rule
    BY <2>3
  <2> HIDE DEF d, e
  <2>8. \/ Grant("writable_dirs", a.of) \in new /\ d.rule = "fs-write-scope"
        \/ Grant("shell_allowlist", a.of) \in new /\ d.rule = "sh-allowlist"
        \/ /\ Grant("shell_ask", a.of) \in new
           /\ e.rule = "sh-ask" /\ d.rule = "sh-allowlist"
    BY <2>6 DEF LooserSays, Fields
  <2> QED BY <2>7, <2>8 DEF Granted
<1> QED BY <1>1, <1>2 DEF Checks

LEMMA ProposeIInv ==
  ASSUME IInv, Propose
  PROVE  IInv'
<1> USE DEF IInv
<1>1. /\ stage = "reading" /\ read = Len(trace) /\ drop' \in BOOLEAN
      /\ proposal' = (policy \cup new) \ (IF drop' THEN Unused(Seen) ELSE {})
      /\ stage' = IF Checks(proposal') THEN "proposed" ELSE "stopped"
      /\ UNCHANGED <<policy, tainted, made, trace, ran, no, read, taintedBy, used, new, listed,
                     round, basis, troubles>>
  BY DEF Propose, records, reading
<1>2. Checks(proposal')
  <2> DEFINE q == proposal'
  <2>1. q \in SUBSET (policy \cup new)
    BY <1>1
  <2> HIDE DEF q
  <2>2. Checks(q)
    BY <2>1, ProposalChecks
  <2> QED BY <2>2 DEF q
<1>3. stage' = "proposed"
  BY <1>1, <1>2
<1>4. Shape'
  BY <1>1, <1>3 DEF Shape
<1>5. PolicyInv' /\ TraceInv' /\ NoInv' /\ ReadInv'
  BY <1>1 DEF PolicyInv, TraceInv, MadeAfter, NoInv, ReadInv
<1>6. ProposalInv'
  <2>1. Loads(proposal')
    BY <1>2 DEF Checks
  <2>2. Unused(Seen)' = Unused(Seen)
    BY <1>1 DEF Unused, Seen
  <2>3. proposal' \subseteq AllGrants
    BY <1>1 DEF Shape, ReadInv
  <2> QED BY <1>1, <2>1, <2>2, <2>3 DEF ProposalInv
<1>7. BasisInv'
  BY <1>1 DEF BasisInv
<1> QED BY <1>4, <1>5, <1>6, <1>7

-----------------------------------------------------------------------------
(* The proposal in place of the policy.  InUse looks at what grants there are, so what was in
   use under p is under q, unless a wider grant has come. *)
LEMMA StillInUse ==
  ASSUME NEW p, NEW N, NEW q \in SUBSET (p \cup N), \A g \in N : Addable(p, g),
         NEW a \in AllActs, NEW g \in q, InUse(p, a, g)
  PROVE  Redundant(q, g) \/ InUse(q, a, g)
<1> DEFINE ok == Grant("shell_allowlist", a.of)
           exact == Exact(a)
           ask == Grant("shell_ask", a.of)
<1>1. CASE a.tool # "shell.run"
  BY <1>1 DEF InUse
<1>2. CASE a.tool = "shell.run"
  <2>1. ~a.secret /\ Stays(a)
    BY <1>2 DEF InUse
  <2>2. /\ exact \notin N
        /\ ok \in N => ok \notin p /\ ask \notin p
    BY DEF Addable, Grant, Exact
  <2>3. /\ ShellGrant(p, a) = IF ok \in p THEN "sh-ok" ELSE IF exact \in p THEN "sh-exact"
                              ELSE IF ask \in p THEN "sh-ask" ELSE "none"
        /\ ShellGrant(q, a) = IF ok \in q THEN "sh-ok" ELSE IF exact \in q THEN "sh-exact"
                              ELSE IF ask \in q THEN "sh-ask" ELSE "none"
    BY DEF ShellGrant
  <2>4. \/ ShellGrant(p, a) = "sh-ok" /\ g = ok
        \/ ShellGrant(p, a) = "sh-exact" /\ g = exact
        \/ ShellGrant(p, a) = "sh-ask" /\ g = ask
    BY <1>2 DEF InUse
  <2>5. exact.key = "shell_exact" /\ exact.of[1] = a.of
    BY DEF Exact, Grant
  <2>6. InUse(q, a, g) <=> \/ ShellGrant(q, a) = "sh-ok" /\ g = ok
                           \/ ShellGrant(q, a) = "sh-exact" /\ g = exact
                           \/ ShellGrant(q, a) = "sh-ask" /\ g = ask
    BY <1>2, <2>1 DEF InUse
  <2>7. Redundant(q, exact) <=> ok \in q
    BY <2>5 DEF Redundant
  <2>8. \A h \in q : h \in p \cup N
    OBVIOUS
  <2> HIDE DEF ok, exact, ask
  <2> QED BY <2>2, <2>3, <2>4, <2>6, <2>7, <2>8
<1> QED BY <1>1, <1>2

LEMMA NowInUse ==
  ASSUME NEW p, NEW N, NEW q \in SUBSET (p \cup N), \A g \in N : Addable(p, g),
         NEW a \in AllActs, NEW g \in q, Missing(p, a, g)
  PROVE  InUse(q, a, g)
<1> DEFINE ok == Grant("shell_allowlist", a.of)
           exact == Exact(a)
           ask == Grant("shell_ask", a.of)
<1>1. CASE a.tool # "shell.run"
  BY <1>1 DEF InUse, Missing
<1>2. CASE a.tool = "shell.run"
  <2>1. /\ ~a.secret /\ Stays(a) /\ ShellGrant(p, a) = "none"
        /\ (a.of \in Grammar /\ g = ok) \/ (a.of \in Programs /\ g = ask)
    BY <1>2 DEF Missing
  <2>2. exact \notin N /\ (ok \in N => a.of \in Grammar) /\ Grammar \cap Programs = {}
    BY LearnAssumption DEF Addable, Grant, Exact
  <2>3. /\ ok \notin p /\ exact \notin p /\ ask \notin p
        /\ ShellGrant(q, a) = IF ok \in q THEN "sh-ok" ELSE IF exact \in q THEN "sh-exact"
                              ELSE IF ask \in q THEN "sh-ask" ELSE "none"
    BY <2>1 DEF ShellGrant
  <2>4. InUse(q, a, g) <=> \/ ShellGrant(q, a) = "sh-ok" /\ g = ok
                           \/ ShellGrant(q, a) = "sh-exact" /\ g = exact
                           \/ ShellGrant(q, a) = "sh-ask" /\ g = ask
    BY <1>2, <2>1 DEF InUse
  <2>5. \A h \in q : h \in p \cup N
    OBVIOUS
  <2> HIDE DEF ok, exact, ask
  <2> QED BY <2>1, <2>2, <2>3, <2>4, <2>5
<1> QED BY <1>1, <1>2

LEMMA MissingWasUsed ==
  ASSUME NEW p, NEW q, NEW a \in AllActs, NEW g, Missing(q, a, g), ~Missing(p, a, g)
  PROVE  \E h \in p : InUse(p, a, h) /\ h \notin q
<1> DEFINE ok == Grant("shell_allowlist", a.of)
           exact == Exact(a)
           ask == Grant("shell_ask", a.of)
<1>1. CASE a.tool = "fs.write"
  BY <1>1 DEF InUse, Missing
<1>2. CASE a.tool = "shell.run"
  <2>1. ~a.secret /\ Stays(a) /\ ShellGrant(q, a) = "none" /\ ShellGrant(p, a) # "none"
    BY <1>2 DEF Missing
  <2>2. ok \notin q /\ exact \notin q /\ ask \notin q
    BY <2>1 DEF ShellGrant
  <2>3. \/ ShellGrant(p, a) = "sh-ok" /\ ok \in p
        \/ ShellGrant(p, a) = "sh-exact" /\ exact \in p
        \/ ShellGrant(p, a) = "sh-ask" /\ ask \in p
    BY <2>1 DEF ShellGrant
  <2>4. /\ ShellGrant(p, a) = "sh-ok" => InUse(p, a, ok)
        /\ ShellGrant(p, a) = "sh-exact" => InUse(p, a, exact)
        /\ ShellGrant(p, a) = "sh-ask" => InUse(p, a, ask)
    BY <1>2, <2>1 DEF InUse
  <2> HIDE DEF ok, exact, ask
  <2> QED BY <2>2, <2>3, <2>4
<1> QED BY <1>1, <1>2 DEF Missing

(* The proposal lets the engine see no more than the policy, and where the trace still tells
   what tainted, no less. *)
LEMMA NamesLess ==
  ASSUME IInv, NEW q \in SUBSET (policy \cup new), NEW a, Names(q, a)
  PROVE  Names(policy, a)
<1>1. Grant("mcp_registry", a.of) \notin new
  BY NewIsAddable DEF Addable, Grant
<1> QED BY <1>1 DEF Names

LEMMA SpoilsTheSame ==
  ASSUME IInv, NEW q \in SUBSET (policy \cup new), Told(q, made, trace), NEW i \in DOMAIN trace
  PROVE  Spoils(q, trace[i]) <=> Spoils(policy, trace[i])
<1> DEFINE o == trace[i]
           a == o.act
<1>1. o \in Observations
  BY Reaches DEF IInv
<1>2. CASE a = NoAct
  BY <1>1, <1>2, Replayed DEF Spoils, SeenTaint
<1>3. CASE a # NoAct
  <2>1. o.id \in DOMAIN made /\ made[o.id].act = a /\ ~a.secret
    BY <1>3 DEF IInv, TraceInv
  <2>2. Names(policy, a) => made[o.id].taints
    BY <2>1 DEF IInv, PolicyInv
  <2>3. Names(policy, a) => Names(q, a)
    BY <1>3, <2>1, <2>2 DEF Told, Names
  <2>4. Names(q, a) => Names(policy, a)
    BY NamesLess
  <2>5. \A p : Replay(p, o).taints <=> a.secret \/ Names(p, a)
    BY <1>1, <1>3, Replayed
  <2> QED BY <2>1, <2>3, <2>4, <2>5 DEF Spoils, SeenTaint
<1> QED BY <1>2, <1>3

LEMMA Settling ==
  ASSUME IInv, stage = "proposed", Told(proposal, made, trace)
  PROVE  Settled(proposal, trace, ran, IF drop THEN Seen ELSE {})
<1> DEFINE q == proposal
           keys == IF drop THEN Seen ELSE {}
<1>1. /\ read = Len(trace) /\ DOMAIN trace = 1..read
      /\ q = (policy \cup new) \ (IF drop THEN Unused(Seen) ELSE {})
  BY Reaches DEF IInv, ProposalInv
<1>2. q \in SUBSET (policy \cup new)
  BY <1>1
<1>3. \A g \in new : g \in AllGrants /\ Addable(policy, g) /\ g \notin policy
  BY NewIsAddable
<1>4. \A i \in DOMAIN trace : Uses(trace[i]) => trace[i].act \in AllActs
  BY Reaches, Replayed DEF IInv, Uses
<1>5. ASSUME NEW g \in policy, NEW i \in DOMAIN trace, Uses(trace[i]),
             InUse(policy, trace[i].act, g)
      PROVE  g \in q
  <2>1. g \in used
    BY <1>1, <1>5 DEF IInv, ReadInv, Shape
  <2> QED BY <1>1, <2>1 DEF Unused
<1>6. ASSUME NEW g \in new PROVE g \in q
  BY <1>1, <1>3, <1>6 DEF Unused
<1> HIDE DEF q
<1>7. ASSUME NEW i \in DOMAIN trace, Counts(q, trace, ran, i)
      PROVE  Counts(policy, trace, ran, i)
  <2>1. \A j \in 1..i : j \in DOMAIN trace
    BY <1>7, Reaches DEF IInv
  <2>2. \A j \in 1..i : Spoils(q, trace[j]) <=> Spoils(policy, trace[j])
    BY <1>2, <2>1, SpoilsTheSame DEF q
  <2> QED BY <1>7, <2>2 DEF Counts
<1>8. ASSUME NEW i \in DOMAIN trace, NEW g \in AllGrants, Counts(q, trace, ran, i)
      PROVE  ~Missing(q, trace[i].act, g)
  <2> SUFFICES ASSUME Missing(q, trace[i].act, g) PROVE FALSE
    OBVIOUS
  <2>1. Counts(policy, trace, ran, i) /\ Uses(trace[i]) /\ trace[i].act \in AllActs
    BY <1>4, <1>7, <1>8 DEF Counts
  <2>2. g \notin q
    BY <2>1, MissingIsAddable
  <2>3. ~Missing(policy, trace[i].act, g)
    <3>1. Missing(policy, trace[i].act, g) => g \in new
      BY <1>1, <1>8, <2>1 DEF IInv, ReadInv
    <3> QED BY <1>6, <2>2, <3>1
  <2>4. PICK h \in policy : InUse(policy, trace[i].act, h) /\ h \notin q
    BY <2>1, <2>3, MissingWasUsed
  <2> QED BY <1>5, <2>1, <2>4
<1>9. ASSUME NEW g \in q, g.key \in keys
      PROVE  \/ Redundant(q, g)
             \/ \E i \in DOMAIN trace : Uses(trace[i]) /\ InUse(q, trace[i].act, g)
  <2>1. CASE g \in new
    <3>1. PICK i \in DOMAIN trace :
             Counts(policy, trace, ran, i) /\ Missing(policy, trace[i].act, g)
      BY <1>1, <1>3, <2>1 DEF IInv, ReadInv
    <3>2. Uses(trace[i]) /\ trace[i].act \in AllActs
      BY <1>4, <3>1 DEF Counts
    <3>3. InUse(q, trace[i].act, g)
      BY <1>2, <1>3, <3>1, <3>2, NowInUse DEF q
    <3> QED BY <3>2, <3>3
  <2>2. CASE g \in policy
    <3>1. g \in used
      BY <1>1, <1>9, <2>2 DEF Unused, q
    <3>2. PICK i \in DOMAIN trace : Uses(trace[i]) /\ InUse(policy, trace[i].act, g)
      BY <1>1, <2>2, <3>1 DEF IInv, ReadInv, Shape
    <3>3. Redundant(q, g) \/ InUse(q, trace[i].act, g)
      BY <1>2, <1>3, <1>4, <3>2, StillInUse DEF q
    <3> QED BY <3>2, <3>3
  <2> QED BY <1>2, <2>1, <2>2 DEF q
<1> QED BY <1>8, <1>9 DEF Settled, q

LEMMA AdoptIInv ==
  ASSUME IInv, Adopt
  PROVE  IInv'
<1>1. /\ stage = "proposed" /\ stage' = "recording" /\ Len(made) + round + troubles < MaxSteps
      /\ policy' = proposal /\ round' = round + 1 /\ basis' = <<trace, ran, drop>>
      /\ read' = 0 /\ taintedBy' = {} /\ used' = {} /\ new' = {} /\ listed' = {}
      /\ proposal' = {}
      /\ UNCHANGED <<drop, tainted, made, trace, ran, no, troubles>>
  BY DEF Adopt, records
<1>2. /\ proposal \in SUBSET (policy \cup new) /\ proposal \subseteq AllGrants
      /\ Loads(proposal)
  BY <1>1 DEF IInv, ProposalInv
<1>3. Shape'
  <2>1. Len(made) \in Nat /\ Len(trace) \in Nat /\ MaxSteps \in Nat
    BY Reaches, LearnAssumption DEF IInv
  <2>2. 0 \in 0..Len(trace)' /\ round' \in Nat /\ Len(made)' + round' <= MaxSteps
    BY <1>1, <2>1 DEF IInv, Shape
  <2> QED BY <1>1, <1>2, <2>2 DEF IInv, Shape
<1>4. PolicyInv'
  <2>1. \A id \in DOMAIN made :
           Names(proposal, made[id].act) => Names(policy, made[id].act)
    BY <1>2, NamesLess
  <2>2. Loads(policy')
    BY <1>1, <1>2
  <2>3. \A id \in DOMAIN made' :
           /\ made'[id].taints => made'[id].act.secret \/ made'[id].act.at = "protected"
           /\ made'[id].act.secret \/ Names(policy', made'[id].act) => made'[id].taints
    BY <1>1, <2>1 DEF IInv, PolicyInv
  <2> QED BY <2>2, <2>3 DEF PolicyInv
<1>5. TraceInv' /\ NoInv'
  BY <1>1 DEF IInv, TraceInv, MadeAfter, NoInv
<1>6. ReadInv'
  BY <1>1 DEF ReadInv
<1>7. ProposalInv'
  BY <1>1 DEF ProposalInv
<1>8. BasisInv'
  <2>1. Seen = SeenIn(trace)
    BY DEF Seen, SeenIn
  <2>2. Told(proposal, made, trace)
           => Settled(proposal, trace, ran, IF drop THEN SeenIn(trace) ELSE {})
    BY <1>1, <2>1, Settling
  <2>3. /\ trace \in Seq(Observations) /\ drop \in BOOLEAN
        /\ \A i \in DOMAIN trace : trace[i].id \in DOMAIN made
    BY DEF IInv, Shape, TraceInv
  <2> QED BY <1>1, <2>2, <2>3 DEF BasisInv
<1> QED BY <1>3, <1>4, <1>5, <1>6, <1>7, <1>8 DEF IInv

(* The files are put one after the other: nothing is lost, and what one of them holds stays in
   its order. *)
LEMMA StartReadingIInv ==
  ASSUME IInv, StartReading
  PROVE  IInv'
<1> USE DEF IInv
<1>1. PICK p \in Readings : trace' = [i \in DOMAIN trace |-> trace[p[i]]]
  BY DEF StartReading
<1>2. /\ stage = "recording" /\ stage' = "reading"
      /\ UNCHANGED <<policy, drop, tainted, made, ran, no, read, taintedBy, used, new, listed,
                     proposal, round, basis, troubles>>
  BY DEF StartReading, reading
<1>3. /\ DOMAIN trace = 1..Len(trace) /\ Len(trace) \in Nat
      /\ \A i \in DOMAIN trace : trace[i] \in Observations
  BY Reaches
<1>4. \A i \in DOMAIN trace : p[i] \in DOMAIN trace
  BY <1>1 DEF Readings
<1>5. \A k \in DOMAIN trace : \E i \in DOMAIN trace : p[i] = k
  BY <1>1 DEF Readings
<1>6. \A i, j \in DOMAIN trace : i < j /\ trace[p[i]].file = trace[p[j]].file => p[i] < p[j]
  BY <1>1 DEF Readings
<1>7. /\ DOMAIN trace' = DOMAIN trace
      /\ \A i \in DOMAIN trace : trace'[i] = trace[p[i]]
  BY <1>1
<1>8. trace' \in Seq(Observations) /\ Len(trace') = Len(trace)
  BY <1>1, <1>3, <1>4
<1>9. Shape'
  BY <1>2, <1>8 DEF Shape
<1>10. PolicyInv' /\ NoInv'
  BY <1>2 DEF PolicyInv, NoInv
<1>11. TraceInv'
  <2>1. ASSUME NEW over, Position(trace, over) PROVE Position(trace', over)
    <3>1. PICK k \in DOMAIN trace : trace[k].id = over
      BY <2>1 DEF Position
    <3>2. PICK i \in DOMAIN trace : p[i] = k
      BY <1>5
    <3> QED BY <1>7, <3>1, <3>2 DEF Position
  <2>2. \A x \in DOMAIN made' :
           LET o == made'[x].observation
           IN /\ o.id = x
              /\ o.act # NoAct => o.act = made'[x].act /\ ~o.act.secret
              /\ \A over \in made'[x].over : Position(trace', over)
    BY <1>2, <2>1 DEF TraceInv
  <2>3. \A i \in DOMAIN trace' :
           trace'[i].id \in DOMAIN made' /\ trace'[i] = made'[trace'[i].id].observation
    BY <1>2, <1>4, <1>7 DEF TraceInv
  <2>4. ASSUME NEW i \in DOMAIN trace', NEW k \in DOMAIN trace'
        PROVE  /\ trace'[i].id = trace'[k].id => i = k
               /\ trace'[k].id \in made'[trace'[i].id].over /\ trace'[k].file = trace'[i].file
                     => k < i
    <3>1. i \in Nat /\ k \in Nat /\ p[i] \in Nat /\ p[k] \in Nat
      <4>1. DOMAIN trace \subseteq Nat /\ i \in DOMAIN trace /\ k \in DOMAIN trace
        BY <1>3, <1>7
      <4> QED BY <1>4, <4>1
    <3>2. trace'[i].id = trace'[k].id => p[i] = p[k]
      BY <1>4, <1>7, <2>4 DEF TraceInv
    <3>3. i # k /\ trace[p[i]].file = trace[p[k]].file => p[i] # p[k] /\ (p[k] < p[i] => k < i)
      BY <1>7, <1>6, <2>4, <3>1
    <3>4. trace'[k].id \in made'[trace'[i].id].over /\ trace'[k].file = trace'[i].file
             => p[k] < p[i]
      BY <1>2, <1>4, <1>7, <2>4 DEF TraceInv, MadeAfter
    <3> QED BY <1>7, <2>4, <3>1, <3>2, <3>3, <3>4
  <2> QED BY <2>2, <2>3, <2>4 DEF TraceInv, MadeAfter
<1>12. ReadInv'
  <2>1. read = 0 /\ read' = 0
    BY <1>2 DEF Shape
  <2> QED BY <1>2, <2>1 DEF ReadInv
<1>13. ProposalInv' /\ BasisInv'
  BY <1>2 DEF ProposalInv, BasisInv
<1> QED BY <1>9, <1>10, <1>11, <1>12, <1>13

LEMMA NextIInv == IInv /\ [Next]_vars => IInv'
<1> SUFFICES ASSUME IInv, [Next]_vars PROVE IInv'
  OBVIOUS
<1>1. CASE UNCHANGED vars
  <2>1. UNCHANGED <<policy, drop, tainted, made, trace, ran, no, stage, read, taintedBy, used, new,
                    listed, proposal, round, basis, troubles>>
    BY <1>1 DEF vars, records, reading
  <2>2. Shape' /\ PolicyInv'
    BY <2>1 DEF IInv, Shape, PolicyInv
  <2>3. TraceInv' /\ NoInv' /\ ReadInv'
    BY <2>1 DEF IInv, TraceInv, MadeAfter, NoInv, ReadInv
  <2>4. ProposalInv' /\ BasisInv'
    BY <2>1 DEF IInv, ProposalInv, BasisInv, Unused, Seen
  <2> QED BY <2>2, <2>3, <2>4 DEF IInv
<1> QED BY <1>1, DecideIInv, ObserveIInv, AnswerIInv, StartReadingIInv, ReadNextIInv, ProposeIInv,
           AdoptIInv DEF Next

(* IInv holds in every state of every behaviour. *)
THEOREM Invariance == Spec => []IInv
  BY InitIInv, NextIInv, PTL DEF Spec

-----------------------------------------------------------------------------
(* What the invariant comes to. *)

(* What is proposed, or put to a human, comes of an observation that counts. *)
LEMMA Counted ==
  ASSUME IInv, Shown, NEW g \in new \cup listed
  PROVE  \E i \in DOMAIN trace :
            g \in Needs(i) /\ Counts(policy, trace, ran, i) /\ trace[i].act \in AllActs
<1>1. g \in AllGrants
  BY DEF IInv, ReadInv
<1>2. PICK i \in 1..read :
         /\ Counts(policy, trace, ran, i)
         /\ \/ Missing(policy, trace[i].act, g)
            \/ g \in Wanted(trace[i].act) \cup WantedExact(trace[i].act)
  BY <1>1 DEF IInv, ReadInv
<1>3. i \in DOMAIN trace /\ trace[i].act \in AllActs
  BY <1>2, Reaches, Replayed DEF IInv, Counts, Uses
<1>4. g \in Wanted(trace[i].act) \cup WantedExact(trace[i].act)
  BY <1>2, <1>3, MissingIsAddable
<1> QED BY <1>2, <1>3, <1>4 DEF Needs

LEMMA NobodyRefused == IInv => NoIsNeverYes
<1> SUFFICES ASSUME IInv, Shown, NEW g \in new \cup listed
             PROVE  \E i \in DOMAIN trace : g \in Needs(i) /\ trace[i].id \notin no
  BY DEF NoIsNeverYes
<1>1. PICK i \in DOMAIN trace : g \in Needs(i) /\ Counts(policy, trace, ran, i)
  BY Counted
<1>2. trace[i] = made[trace[i].id].observation
  BY DEF IInv, TraceInv
<1>3. trace[i].id \notin no
  BY <1>1, <1>2 DEF IInv, NoInv, Counts, Uses, Refused
<1> QED BY <1>1, <1>3

LEMMA TaintIsSeen ==
  ASSUME IInv, NEW j \in DOMAIN trace, Tells(j)
  PROVE  Spoils(policy, trace[j])
<1> DEFINE o == trace[j]
<1>1. o \in Observations /\ o.id \in DOMAIN made /\ made[o.id].taints
  BY Reaches DEF IInv, TraceInv, Tells
<1>2. CASE o.rule = "secret-egress"
  BY <1>2 DEF Spoils, SeenTaint
<1>3. CASE o.act # NoAct
  <2>1. o.act = made[o.id].act /\ ~o.act.secret
    BY <1>1, <1>3 DEF IInv, TraceInv
  <2> HIDE DEF o
  <2>0. o.act \in AllActs
    BY <1>1, <1>3, Replayed
  <2>2. o.act.at = "protected"
    BY <1>1, <2>1 DEF IInv, PolicyInv
  <2>3. o.act.tool = "mcp.call" => Grant("mcp_registry", o.act.of) \in policy
    BY <2>0, Granting DEF Tells, o
  <2>4. Replay(policy, o).taints
    BY <1>1, <1>3, <2>2, <2>3, Replayed DEF Names
  <2> QED BY <2>4 DEF Spoils, SeenTaint, o
<1> QED BY <1>2, <1>3 DEF Tells

LEMMA NothingAfterTaint == IInv => TaintTeachesNothing
<1> SUFFICES ASSUME IInv, Shown, NEW g \in new \cup listed
             PROVE  \E i \in DOMAIN trace :
                       /\ g \in Needs(i)
                       /\ \A j \in DOMAIN trace :
                             trace[j].session = trace[i].session /\ Tells(j) /\ MadeAfter(i, j)
                                => trace[j].file # trace[i].file /\ j > i
  BY DEF TaintTeachesNothing
<1>1. PICK i \in DOMAIN trace : g \in Needs(i) /\ Counts(policy, trace, ran, i)
  BY Counted
<1>2. ASSUME NEW j \in DOMAIN trace, trace[j].session = trace[i].session, Tells(j),
             MadeAfter(i, j)
      PROVE  trace[j].file # trace[i].file /\ j > i
  <2>1. Spoils(policy, trace[j])
    BY <1>2, TaintIsSeen
  <2>2. i \in Nat /\ j \in Nat /\ j >= 1
    BY Reaches DEF IInv
  <2>3. j > i
    BY <1>1, <1>2, <2>1, <2>2 DEF Counts
  <2>4. trace[j].file = trace[i].file => j < i
    BY <1>2 DEF IInv, TraceInv
  <2> QED BY <2>2, <2>3, <2>4
<1> QED BY <1>1, <1>2

LEMMA OnlyWhatIsBounded == IInv => ProposalBounded
<1> SUFFICES ASSUME IInv, Shown, NEW a \in Affected, NEW t \in BOOLEAN,
                    Strictness(Judge(proposal, a, t).decision)
                       < Strictness(Judge(policy, a, t).decision)
             PROVE  /\ Wanted(a) \cap new # {}
                    /\ a.at # "protected" /\ ~a.secret
                    /\ Judge(proposal, a, t).decision = "allow" =>
                          /\ a.at = "inside"
                          /\ a.tool = "fs.write" \/ a.of \in Grammar
  BY DEF ProposalBounded
<1> DEFINE d == Judge(policy, a, t)
           e == Judge(proposal, a, t)
<1>1. a \in AllActs
  BY LearnAssumption DEF Affected
<1>2. proposal \in SUBSET (policy \cup new)
  BY DEF IInv, ProposalInv, Shown
<1>3. \A g \in new : Addable(policy, g)
  BY NewIsAddable
<1>4. LooserSays(new, a, t, d, e)
  BY <1>1, <1>2, <1>3, Looser
<1> HIDE DEF d, e
<1>5. /\ a.at # "protected" /\ ~a.secret
      /\ e.decision = "allow" => a.at = "inside" /\ (a.tool = "fs.write" \/ a.of \in Grammar)
  BY <1>4 DEF LooserSays, Fields
<1>6. Wanted(a) \cap new # {}
  <2>1. \/ a.tool = "fs.write" /\ Grant("writable_dirs", a.of) \in new
        \/ /\ a.tool = "shell.run" /\ a.of \in Grammar
           /\ Grant("shell_allowlist", a.of) \in new
        \/ /\ a.tool = "shell.run" /\ a.of \in Programs /\ Grant("shell_ask", a.of) \in new
    BY <1>4 DEF LooserSays
  <2> QED BY <1>1, <2>1, Granting
<1> QED BY <1>5, <1>6 DEF e

LEMMA UseIsKept == IInv => NarrowingKeepsUse
<1> SUFFICES ASSUME IInv, Shown, NEW i \in DOMAIN trace, ~Refused(trace[i])
             PROVE  Strictness(Replay(proposal, trace[i]).decision)
                       <= Strictness(Replay(policy, trace[i]).decision)
  BY DEF NarrowingKeepsUse
<1> DEFINE o == trace[i]
<1>1. o \in Observations
  BY Reaches DEF IInv
<1>2. CASE o.act = NoAct
  <2>1. Replay(proposal, o) = Replay(policy, o)
    BY <1>1, <1>2, Replayed
  <2>2. Strictness(Replay(policy, o).decision) \in 0..2
    BY <1>1, Replayed, Ranks
  <2> QED BY <2>1, <2>2
<1>3. CASE o.act # NoAct
  <2>1. /\ o.act \in AllActs
        /\ \A p : Replay(p, o).decision = Judge(p, o.act, FALSE).decision
    BY <1>1, <1>3, Replayed
  <2>2. ASSUME NEW g \in policy, InUse(policy, o.act, g) PROVE g \in proposal
    <3>1. /\ stage = "proposed" /\ read = Len(trace) /\ DOMAIN trace = 1..read /\ g \in AllGrants
          /\ proposal = (policy \cup new) \ (IF drop THEN Unused(Seen) ELSE {})
      BY <2>2, Reaches DEF IInv, Shape, ProposalInv, Shown
    <3>2. g \in used
      BY <1>3, <2>2, <3>1 DEF IInv, ReadInv, Uses
    <3> QED BY <2>2, <3>1, <3>2 DEF Unused
  <2>3. \A g \in policy : InUse(policy, o.act, g) => g \in proposal
    BY <2>2
  <2> QED BY <2>1, <2>3, Kept
<1> QED BY <1>2, <1>3

LEMMA NothingMoreToGain == IInv => ProposalSettles
<1> SUFFICES ASSUME IInv, Shown, basis = <<trace, ran, drop>>,
                    \A i \in DOMAIN trace :
                       made[trace[i].id].taints /\ trace[i].act # NoAct => Tells(i)
             PROVE  /\ proposal \subseteq policy
                    /\ \A g \in policy \ proposal :
                          g.key = "shell_exact" /\ Grant("shell_allowlist", g.of[1]) \in policy
  BY DEF ProposalSettles
<1>1. Told(policy, made, trace)
  <2> SUFFICES ASSUME NEW i \in DOMAIN trace, made[trace[i].id].taints, trace[i].act # NoAct,
                      trace[i].act.tool = "mcp.call"
               PROVE  Grant("mcp_registry", trace[i].act.of) \in policy
    BY DEF Told
  <2>1. Wanted(trace[i].act) \subseteq policy
    BY DEF Tells
  <2>2. trace[i].act \in AllActs
    BY Reaches, Replayed DEF IInv
  <2> QED BY <2>1, <2>2, Granting
<1>2. Settled(policy, trace, ran, IF drop THEN Seen ELSE {})
  <2>1. basis # <<>>
    OBVIOUS
  <2>2. PICK tr \in Seq(Observations), rn \in SUBSET ran, d \in BOOLEAN :
           /\ basis = <<tr, rn, d>>
           /\ Told(policy, made, tr) => Settled(policy, tr, rn, IF d THEN SeenIn(tr) ELSE {})
    BY <2>1 DEF IInv, BasisInv
  <2>3. tr = trace /\ rn = ran /\ d = drop
    BY <2>2
  <2>4. SeenIn(trace) = Seen
    BY DEF Seen, SeenIn
  <2> QED BY <1>1, <2>2, <2>3, <2>4
<1>3. /\ stage = "proposed" /\ read = Len(trace) /\ DOMAIN trace = 1..read
      /\ proposal = (policy \cup new) \ (IF drop THEN Unused(Seen) ELSE {})
      /\ policy \subseteq AllGrants /\ new \subseteq AllGrants
  BY Reaches DEF IInv, Shape, ReadInv, ProposalInv, Shown
<1>4. new = {}
  <2> SUFFICES ASSUME NEW g \in new PROVE FALSE
    OBVIOUS
  <2>1. PICK i \in 1..read : Counts(policy, trace, ran, i) /\ Missing(policy, trace[i].act, g)
    BY <1>3 DEF IInv, ReadInv
  <2> QED BY <1>2, <1>3, <2>1 DEF Settled
<1>5. ASSUME NEW g \in policy \ proposal PROVE Redundant(policy, g)
  <2>1. drop /\ g \notin used /\ g.key \in Seen /\ g \in AllGrants
    BY <1>3, <1>5 DEF Unused
  <2>2. \/ Redundant(policy, g)
        \/ \E i \in DOMAIN trace : Uses(trace[i]) /\ InUse(policy, trace[i].act, g)
    BY <1>2, <2>1 DEF Settled
  <2> QED BY <1>3, <2>1, <2>2 DEF IInv, ReadInv
<1> QED BY <1>3, <1>4, <1>5 DEF Redundant

-----------------------------------------------------------------------------
LEMMA TypesAre == IInv => TypeOK
<1> SUFFICES ASSUME IInv PROVE TypeOK
  OBVIOUS
<1>1. Len(trace) <= Len(made)
  <2>1. Len(trace) \in Nat /\ Len(made) \in Nat
    BY Reaches DEF IInv
  <2> DEFINE f == [i \in 1..Len(trace) |-> trace[i].id]
  <2>2. f \in Injection(1..Len(trace), 1..Len(made))
    <3>1. \A i \in 1..Len(trace) : f[i] = trace[i].id /\ trace[i].id \in 1..Len(made)
      BY Reaches DEF IInv, TraceInv
    <3>2. f \in [1..Len(trace) -> 1..Len(made)]
      BY <3>1
    <3>3. \A i, j \in 1..Len(trace) : f[i] = f[j] => i = j
      BY <3>1, Reaches DEF IInv, TraceInv
    <3> QED BY <3>2, <3>3 DEF Injection, IsInjective
  <2>3. /\ IsFiniteSet(1..Len(made))
        /\ Cardinality(1..Len(made)) = Len(made) /\ Cardinality(1..Len(trace)) = Len(trace)
    <3>1. ASSUME NEW n \in Nat PROVE IsFiniteSet(1..n) /\ Cardinality(1..n) = n
      <4>1. IsFiniteSet(1..n) /\ Cardinality(1..n) = IF 1 > n THEN 0 ELSE n - 1 + 1
        BY FS_Interval
      <4> QED BY <4>1
    <3> QED BY <2>1, <3>1
  <2> HIDE DEF f
  <2> QED BY <2>2, <2>3, FS_Injection
<1>2. ran \cap no = {}
  BY DEF IInv, NoInv
<1>3. round \in 0..MaxSteps
  BY Reaches, LearnAssumption DEF IInv, Shape
<1> QED BY <1>1, <1>2, <1>3 DEF IInv, Shape, TraceInv, ReadInv, ProposalInv, TypeOK

(* Every variable keeps its type, and the trace holds no more than was made. *)
THEOREM TypeCorrect == Spec => []TypeOK
  BY TypesAre, Invariance, PTL

(* What is proposed, or put to a human, was needed by a request that nobody said no to
   (learn.py 651-664). *)
THEOREM NoStaysNo == Spec => []NoIsNeverYes
  BY NobodyRefused, Invariance, PTL

(* However the hooks of a session ran beside each other, no grant is needed only by what it
   attempted after a call that tainted it, unless that call is in a file which was given
   later (learn.py 655-660, 444). *)
THEOREM TaintTeaches == Spec => []TaintTeachesNothing
  BY NothingAfterTaint, Invariance, PTL

(* What the proposal loosens, for any request of any session, is what the firewall can bound
   (learn.py 698-781). *)
THEOREM ProposalIsBounded == Spec => []ProposalBounded
  BY OnlyWhatIsBounded, Invariance, PTL

(* The replay check never stops a proposal (learn.py 862-885). *)
THEOREM CheckStaysSilent == Spec => []CheckIsSilent
<1>1. IInv => CheckIsSilent
  BY DEF IInv, Shape, CheckIsSilent
<1> QED BY <1>1, Invariance, PTL

(* --drop-unused takes nothing away that the traces show in use (learn.py 801-826). *)
THEOREM NarrowingIsSafe == Spec => []NarrowingKeepsUse
  BY UseIsKept, Invariance, PTL

(* Adopting a proposal and proposing again from the same traces, given in the same order,
   comes to nothing new. *)
THEOREM AdoptedIsSettled == Spec => []ProposalSettles
  BY NothingMoreToGain, Invariance, PTL
=============================================================================
