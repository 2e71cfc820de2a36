----------------------------- MODULE PolicyProofs -----------------------------
(***************************************************************************)
(* Proofs about Policy for any number of argv words and MCP strings.       *)
(*                                                                         *)
(* The checks of a handler are an ordered list, and First picks one: the   *)
(* lemmas first find which check of the list that is, tool by tool (the    *)
(* ...Says), and everything else is read off there.  The invariant of a    *)
(* session is that one that went for something protected is tainted: it    *)
(* is inductive because Evaluate taints wherever it Sees.                  *)
(***************************************************************************)
EXTENDS Policy, WellFoundedInduction, TLAPS

(* Check k of the list is the first that applies. *)
Hits(checks, k) ==
    /\ k \in DOMAIN checks /\ checks[k].applies
    /\ \A j \in 1..(k - 1) : ~checks[j].applies

IsList(s, n) == s = [i \in 1..n |-> s[i]]

(* A list of n checks, the last of which always applies. *)
Listed(checks, n) == n \in Nat \ {0} /\ IsList(checks, n) /\ checks[n].applies

(* What a check that decided says. *)
Fields(d, decision, rule, taints) ==
    d.decision = decision /\ d.rule = rule /\ d.taints = taints

(* A check that applies and has none before it that does is the one First takes. *)
LEMMA OneFirst ==
  ASSUME NEW checks, NEW n \in Nat, DOMAIN checks = 1..n, NEW k, Hits(checks, k)
  PROVE  First(checks) = checks[k]
<1> DEFINE hits == {i \in DOMAIN checks : checks[i].applies}
           least == CHOOSE i \in hits : \A j \in hits : i <= j
<1>1. k \in hits /\ \A j \in hits : k <= j
  BY DEF Hits
<1>2. hits \subseteq Nat
  OBVIOUS
<1>3. First(checks) = checks[least]
  BY DEF First
<1> HIDE DEF hits
<1>4. least \in hits /\ \A j \in hits : least <= j
  BY <1>1
<1> HIDE DEF least
<1>5. least = k
  BY <1>1, <1>2, <1>4
<1> QED BY <1>3, <1>5

(* Numbers have a least. *)
LEMMA LeastOf ==
  ASSUME NEW S \in SUBSET Nat, S # {}
  PROVE  \E i \in S : \A j \in S : i <= j
<1>1. PICK i \in S : \A j \in S : <<j, i>> \notin OpToRel(<, Nat)
  BY WFMin, NatLessThanWellFounded, Zenon
<1>2. \A j \in S : ~(j < i)
  BY <1>1, Zenon DEF OpToRel
<1> QED BY <1>2

(* A list whose last check applies has such a check. *)
LEMMA FirstHit ==
  ASSUME NEW checks, NEW n, Listed(checks, n)
  PROVE  \E k \in 1..n : Hits(checks, k) /\ First(checks) = checks[k]
<1> DEFINE hits == {i \in DOMAIN checks : checks[i].applies}
<1>1. hits \subseteq Nat /\ hits # {} /\ n \in Nat /\ DOMAIN checks = 1..n
  BY DEF Listed, IsList
<1>2. \E i \in hits : \A j \in hits : i <= j
  <2> HIDE DEF hits
  <2> QED BY <1>1, LeastOf
<1>3. PICK k \in 1..n : Hits(checks, k)
  BY <1>1, <1>2 DEF Hits
<1> QED BY <1>1, <1>3, OneFirst

(* The three checks that come first for every tool, and then those of the tool. *)
LEMMA Prelude ==
  ASSUME NEW r, NEW t, NEW n \in Nat, IsList(Handler(r, t), n)
  PROVE  LET d == Evaluate(r, t)
         IN \/ r.secret /\ Fields(d, "block", "secret-egress", TRUE)
            \/ ~r.secret /\ r.tool = "other" /\ Fields(d, "block", "unknown-tool", FALSE)
            \/ /\ ~r.secret /\ r.tool # "other" /\ r.malformed
               /\ Fields(d, "block", "parse-error", FALSE)
            \/ /\ ~r.secret /\ ~r.malformed /\ r.tool # "other"
               /\ \A k \in 1..n : Hits(Handler(r, t), k) => d = Handler(r, t)[k]
<1> DEFINE h == Handler(r, t)
           a == RefuseProtected(r.secret, "secret-egress")
           b == Refuse(r.tool = "other", "unknown-tool")
           c == Refuse(r.malformed, "parse-error")
           all == <<a, b, c>> \o h
<1>1. (a.applies <=> r.secret) /\ Fields(a, "block", "secret-egress", TRUE)
  BY DEF Fields, RefuseProtected, Check
<1>2. (b.applies <=> r.tool = "other") /\ Fields(b, "block", "unknown-tool", FALSE)
  BY DEF Fields, Refuse, Check
<1>3. (c.applies <=> r.malformed) /\ Fields(c, "block", "parse-error", FALSE)
  BY DEF Fields, Refuse, Check
<1>4. Evaluate(r, t) = First(all)
  BY DEF Evaluate
<1>5. h \in Seq({h[i] : i \in 1..n}) /\ Len(h) = n
  BY DEF IsList
<1> HIDE DEF a, b, c, h
<1>6. /\ DOMAIN all = 1..(n + 3) /\ all[1] = a /\ all[2] = b /\ all[3] = c
      /\ \A i \in 1..n : all[i + 3] = h[i]
  <2> DEFINE S == {h[i] : i \in 1..n} \cup {a, b, c}
  <2>1. h \in Seq(S) /\ <<a, b, c>> \in Seq(S) /\ Len(<<a, b, c>>) = 3
    BY <1>5
  <2> HIDE DEF S
  <2> QED BY <1>5, <2>1
<1> HIDE DEF all
<1>7. CASE r.secret
  <2>1. Hits(all, 1)
    BY <1>1, <1>5, <1>6, <1>7 DEF Hits
  <2>2. Evaluate(r, t) = a
    BY <1>4, <1>5, <1>6, <2>1, OneFirst
  <2> QED BY <1>1, <1>7, <2>2
<1>8. CASE ~r.secret /\ r.tool = "other"
  <2>1. Hits(all, 2)
    BY <1>1, <1>2, <1>5, <1>6, <1>8 DEF Hits
  <2>2. Evaluate(r, t) = b
    BY <1>4, <1>5, <1>6, <2>1, OneFirst
  <2> QED BY <1>2, <1>8, <2>2
<1>9. CASE ~r.secret /\ r.tool # "other" /\ r.malformed
  <2>1. Hits(all, 3)
    BY <1>1, <1>2, <1>3, <1>5, <1>6, <1>9 DEF Hits
  <2>2. Evaluate(r, t) = c
    BY <1>4, <1>5, <1>6, <2>1, OneFirst
  <2> QED BY <1>3, <1>9, <2>2
<1>10. ASSUME ~r.secret, r.tool # "other", ~r.malformed, NEW k \in 1..n, Hits(h, k)
       PROVE  Evaluate(r, t) = h[k]
  <2>1. k + 3 \in 1..(n + 3) /\ all[k + 3] = h[k] /\ h[k].applies
    BY <1>6, <1>10 DEF Hits
  <2>2. ASSUME NEW j \in 1..(k + 3 - 1) PROVE ~all[j].applies
    <3>1. CASE j <= 3
      BY <1>1, <1>2, <1>3, <1>6, <1>10, <3>1
    <3>2. CASE j > 3
      <4>1. j - 3 \in 1..(k - 1) /\ j - 3 \in 1..n /\ (j - 3) + 3 = j
        BY <3>2
      <4> QED BY <1>6, <1>10, <4>1 DEF Hits
    <3> QED BY <3>1, <3>2
  <2>3. Hits(all, k + 3)
    BY <1>6, <2>1, <2>2 DEF Hits
  <2> QED BY <1>4, <1>6, <2>1, <2>3, OneFirst
<1> QED BY <1>7, <1>8, <1>9, <1>10 DEF h

-----------------------------------------------------------------------------
(* What each tool's checks come to: which of them decides when. *)

(* Every tool's checks are such a list. *)
LEMMA HandlerLists ==
  ASSUME NEW r, NEW t
  PROVE  /\ Listed(FileChecks(r), 6)
         /\ Listed(ShellChecks(r, t), 15)
         /\ Listed(NetChecks(r, t), 4)
         /\ Listed(McpChecks(r), 5)
         /\ Listed(ResourceChecks(r), 4)
         /\ Listed(ApiChecks(r, t), 5)
<1>1. IsList(FileChecks(r), 6) /\ FileChecks(r)[6].applies
  BY DEF FileChecks, IsList, AskFirst, Check
<1>2. IsList(ShellChecks(r, t), 15) /\ ShellChecks(r, t)[15].applies
  BY DEF ShellChecks, IsList, Past, Check
<1>3. IsList(NetChecks(r, t), 4) /\ NetChecks(r, t)[4].applies
  BY DEF NetChecks, IsList, Grant, Check
<1>4. IsList(McpChecks(r), 5) /\ McpChecks(r)[5].applies
  BY DEF McpChecks, IsList, Grant, Check
<1>5. IsList(ResourceChecks(r), 4) /\ ResourceChecks(r)[4].applies
  BY DEF ResourceChecks, IsList, Grant, Check
<1>6. IsList(ApiChecks(r, t), 5) /\ ApiChecks(r, t)[5].applies
  BY DEF ApiChecks, IsList, Refuse, Check
<1> QED BY <1>1, <1>2, <1>3, <1>4, <1>5, <1>6 DEF Listed

(* Past the checks evaluate makes for every tool. *)
Sound(r) == ~r.secret /\ ~r.malformed

(* Then a check of the tool's decides. *)
LEMMA Decided ==
  ASSUME NEW r, NEW t, Sound(r), r.tool # "other",
         NEW h, h = Handler(r, t), NEW n, Listed(h, n)
  PROVE  \E k \in 1..n : Hits(h, k) /\ Evaluate(r, t) = h[k]
<1>1. PICK k \in 1..n : Hits(h, k)
  BY FirstHit
<1> QED BY <1>1, Prelude DEF Sound, Listed

FileSays(r, d) ==
    \/ ~r.cwdInside /\ Fields(d, "block", "fs-sandbox", FALSE)
    \/ r.cwdInside /\ r.at = "protected" /\ Fields(d, "block", "fs-protected", TRUE)
    \/ r.cwdInside /\ r.at = "outside" /\ Fields(d, "block", "fs-sandbox", FALSE)
    \/ /\ r.cwdInside /\ r.at \in {"inside", "writable"}
       /\ \/ r.tool = "fs.read" /\ Fields(d, "allow", "fs-read-ok", FALSE)
          \/ /\ r.tool = "fs.write" /\ r.at = "writable"
             /\ Fields(d, "allow", "fs-write-ok", FALSE)
          \/ /\ r.tool = "fs.write" /\ r.at = "inside"
             /\ Fields(d, "ask", "fs-write-scope", FALSE)

LEMMA FileVerdict ==
  ASSUME NEW r \in FileRequests, NEW t \in BOOLEAN, Sound(r)
  PROVE  FileSays(r, Evaluate(r, t))
<1> DEFINE c == FileChecks(r)
<1>1. Handler(r, t) = c /\ r.tool # "other"
  BY DEF Handler, FileRequests
<1>2. Listed(c, 6)
  BY HandlerLists
<1>3. /\ (c[1].applies <=> ~r.cwdInside) /\ Fields(c[1], "block", "fs-sandbox", FALSE)
      /\ (c[2].applies <=> r.at = "protected") /\ Fields(c[2], "block", "fs-protected", TRUE)
      /\ (c[3].applies <=> r.at = "outside") /\ Fields(c[3], "block", "fs-sandbox", FALSE)
      /\ (c[4].applies <=> r.tool = "fs.read") /\ Fields(c[4], "allow", "fs-read-ok", FALSE)
      /\ (c[5].applies <=> r.at = "writable") /\ Fields(c[5], "allow", "fs-write-ok", FALSE)
      /\ Fields(c[6], "ask", "fs-write-scope", FALSE)
  BY DEF FileChecks, Refuse, RefuseProtected, Grant, AskFirst, Check, Fields
<1> HIDE DEF c
<1>4. PICK k \in 1..6 : Hits(c, k) /\ Evaluate(r, t) = c[k]
  BY <1>1, <1>2, Decided
<1>5. r.tool \in {"fs.read", "fs.write"} /\ r.at \in {"inside", "protected", "outside", "writable"}
  BY DEF FileRequests, Places
<1> QED BY <1>3, <1>4, <1>5 DEF Hits, Fields, FileSays

ShellSays(r, t, d) ==
    LET named == Named(r.words)
    IN \/ r.line = "syntax" /\ Fields(d, "block", "sh-syntax", named)
       \/ r.line = "unsplit syntax" /\ Fields(d, "block", "sh-syntax", FALSE)
       \/ r.line = "unsplit" /\ Fields(d, "block", "parse-error", FALSE)
       \/ r.line = "argv" /\ ~r.cwdInside /\ Fields(d, "block", "fs-sandbox", FALSE)
       \/ /\ r.line = "argv" /\ r.cwdInside /\ r.grant = "none"
          /\ Fields(d, "block", "sh-allowlist", named)
       \/ /\ r.line = "argv" /\ r.cwdInside /\ r.grant # "none"
          /\ \/ /\ FirstOpened(r.words, "protected")
                /\ Fields(d, "block", "sh-paths", TRUE)
             \/ /\ ~FirstOpened(r.words, "protected")
                /\ FirstOpened(r.words, "outside")
                /\ Fields(d, "block", "sh-paths", named)
             \/ /\ ~FirstOpened(r.words, "protected") /\ ~FirstOpened(r.words, "outside")
                /\ MayName(r.words) /\ named
                /\ Fields(d, "block", "sh-paths", TRUE)
             \/ /\ ~FirstOpened(r.words, "protected") /\ ~FirstOpened(r.words, "outside")
                /\ ~MayName(r.words) /\ r.forbidden
                /\ Fields(d, "block", "sh-args", named)
             \/ /\ ~FirstOpened(r.words, "protected") /\ ~FirstOpened(r.words, "outside")
                /\ ~MayName(r.words) /\ ~r.forbidden /\ r.walk # "nothing"
                /\ d.rule = "sh-recursive" /\ d.decision = "block"
                /\ IF r.walk = "protected" THEN d.taints = TRUE ELSE d.taints = named
             \/ /\ ~FirstOpened(r.words, "protected") /\ ~FirstOpened(r.words, "outside")
                /\ ~MayName(r.words) /\ r.walk = "nothing" /\ ~r.forbidden
                /\ \/ r.grant = "sh-ok" /\ Fields(d, "allow", "sh-ok", named)
                   \/ /\ r.grant \in {"sh-exact", "sh-ask"} /\ (t \/ named)
                      /\ Fields(d, "block", "taint-session", named)
                   \/ /\ r.grant = "sh-exact" /\ ~t /\ ~named
                      /\ Fields(d, "allow", "sh-exact", named)
                   \/ /\ r.grant = "sh-ask" /\ ~t /\ ~named
                      /\ Fields(d, "ask", "sh-ask", named)

LEMMA ShellVerdict ==
  ASSUME NEW r \in ShellRequests, NEW t \in BOOLEAN, Sound(r)
  PROVE  ShellSays(r, t, Evaluate(r, t))
<1> DEFINE c == ShellChecks(r, t)
           named == Named(r.words)
           in == FirstOpened(r.words, "protected")
           out == FirstOpened(r.words, "outside")
           may == MayName(r.words)
<1>1. Handler(r, t) = c /\ r.tool # "other"
  BY DEF Handler, ShellRequests
<1>2. Listed(c, 15)
  BY HandlerLists
<1>3. /\ (c[1].applies <=> r.line = "syntax") /\ Fields(c[1], "block", "sh-syntax", named)
      /\ (c[2].applies <=> r.line = "unsplit syntax") /\ Fields(c[2], "block", "sh-syntax", FALSE)
      /\ (c[3].applies <=> r.line = "unsplit") /\ Fields(c[3], "block", "parse-error", FALSE)
      /\ (c[4].applies <=> ~r.cwdInside) /\ Fields(c[4], "block", "fs-sandbox", FALSE)
      /\ (c[5].applies <=> r.grant = "none") /\ Fields(c[5], "block", "sh-allowlist", named)
  BY DEF ShellChecks, Past, Refuse, RefuseProtected, Check, Fields
<1>4. /\ (c[6].applies <=> in) /\ Fields(c[6], "block", "sh-paths", TRUE)
      /\ (c[7].applies <=> out) /\ Fields(c[7], "block", "sh-paths", named)
      /\ (c[8].applies <=> may) /\ Fields(c[8], "block", "sh-paths", TRUE)
      /\ (c[9].applies <=> r.forbidden) /\ Fields(c[9], "block", "sh-args", named)
      /\ (c[10].applies <=> r.walk = "protected") /\ Fields(c[10], "block", "sh-recursive", TRUE)
      /\ (c[11].applies <=> r.walk # "nothing") /\ Fields(c[11], "block", "sh-recursive", named)
  BY DEF ShellChecks, Past, Refuse, RefuseProtected, Check, Fields
<1>5. /\ (c[12].applies <=> r.grant = "sh-ok") /\ Fields(c[12], "allow", "sh-ok", named)
      /\ (c[13].applies <=> t \/ named) /\ Fields(c[13], "block", "taint-session", named)
      /\ (c[14].applies <=> r.grant = "sh-exact") /\ Fields(c[14], "allow", "sh-exact", named)
      /\ Fields(c[15], "ask", "sh-ask", named)
  BY DEF ShellChecks, Past, Refuse, RefuseProtected, Check, Fields
<1>6. may => named
  BY DEF MayName, Named
<1> HIDE DEF c, named, in, out, may
<1>7. PICK k \in 1..15 : Hits(c, k) /\ Evaluate(r, t) = c[k]
  BY <1>1, <1>2, Decided
<1>8. /\ r.line \in {"argv", "unsplit", "syntax", "unsplit syntax"}
      /\ r.grant \in {"sh-ok", "sh-exact", "sh-ask", "none"}
  BY DEF ShellRequests
<1> DEFINE d == Evaluate(r, t)
<1>9. CASE k \in 1..5
  <2>1. \A j \in 1..(k - 1) : ~c[j].applies
    BY <1>7 DEF Hits
  <2>2. \/ c[1].applies /\ Evaluate(r, t) = c[1]
        \/ ~c[1].applies /\ c[2].applies /\ Evaluate(r, t) = c[2]
        \/ ~c[1].applies /\ ~c[2].applies /\ c[3].applies /\ Evaluate(r, t) = c[3]
        \/ /\ ~c[1].applies /\ ~c[2].applies /\ ~c[3].applies
           /\ c[4].applies /\ Evaluate(r, t) = c[4]
        \/ /\ ~c[1].applies /\ ~c[2].applies /\ ~c[3].applies /\ ~c[4].applies
           /\ c[5].applies /\ Evaluate(r, t) = c[5]
    BY <1>7, <1>9, <2>1 DEF Hits
  <2> QED BY <1>3, <1>8, <2>2 DEF Fields, ShellSays, named, in, out, may
<1>10. CASE k \in 6..15
  <2>1. ~c[1].applies /\ ~c[2].applies /\ ~c[3].applies /\ ~c[4].applies /\ ~c[5].applies
    BY <1>7, <1>10 DEF Hits
  <2>2. r.line = "argv" /\ r.cwdInside /\ r.grant # "none"
    BY <1>3, <1>8, <2>1
  <2>3. CASE k \in 6..11
    BY <1>4, <1>6, <1>7, <2>2, <2>3 DEF Hits, Fields, ShellSays, named, in, out, may
  <2>4. CASE k \in 12..15
    <3>1. ~c[6].applies /\ ~c[7].applies /\ ~c[8].applies /\ ~c[9].applies
          /\ ~c[10].applies /\ ~c[11].applies
      BY <1>7, <2>4 DEF Hits
    <3> QED BY <1>4, <1>5, <1>7, <1>8, <2>2, <2>4, <3>1 DEF Hits, Fields, ShellSays, named, in, out, may
  <2> QED BY <1>10, <2>3, <2>4
<1> QED BY <1>7, <1>9, <1>10

NetSays(r, t, d) ==
    \/ ~(r.allowlist /\ r.matches) /\ Fields(d, "block", "net-deny-all", FALSE)
    \/ ~(r.allowlist /\ r.matches) /\ Fields(d, "block", "net-allowlist", FALSE)
    \/ r.allowlist /\ r.matches /\ t /\ Fields(d, "block", "taint-session", FALSE)
    \/ r.allowlist /\ r.matches /\ ~t /\ Fields(d, "allow", "net-ok", FALSE)

LEMMA NetVerdict ==
  ASSUME NEW r \in NetRequests, NEW t \in BOOLEAN, Sound(r)
  PROVE  NetSays(r, t, Evaluate(r, t))
<1> DEFINE c == NetChecks(r, t)
<1>1. Handler(r, t) = c /\ r.tool # "other"
  BY DEF Handler, NetRequests
<1>2. Listed(c, 4)
  BY HandlerLists
<1>3. /\ (c[1].applies <=> ~r.allowlist) /\ Fields(c[1], "block", "net-deny-all", FALSE)
      /\ (c[2].applies <=> ~r.matches) /\ Fields(c[2], "block", "net-allowlist", FALSE)
      /\ (c[3].applies <=> t) /\ Fields(c[3], "block", "taint-session", FALSE)
      /\ Fields(c[4], "allow", "net-ok", FALSE)
  BY DEF NetChecks, Refuse, RefuseProtected, Grant, AskFirst, Check, Fields
<1> HIDE DEF c
<1>4. PICK k \in 1..4 : Hits(c, k) /\ Evaluate(r, t) = c[k]
  BY <1>1, <1>2, Decided
<1>5. r.tool = "net.request"
  BY DEF NetRequests
<1> QED BY <1>3, <1>4, <1>5 DEF Hits, Fields, NetSays

(* When no kind of bad string comes first, there is none. *)
LEMMA NoneBad ==
  ASSUME NEW ss \in UpTo(Places \cup {"untyped"}),
         \A p \in (Places \cup {"untyped"}) \ {"inside"} : ~FirstBad(ss, p)
  PROVE  \A i \in DOMAIN ss : ss[i] = "inside"
<1>1. SUFFICES ASSUME NEW i \in DOMAIN ss, ss[i] # "inside" PROVE FALSE
  OBVIOUS
<1> DEFINE B == {j \in DOMAIN ss : ss[j] # "inside"}
<1>2. PICK n \in 0..MaxWords : ss \in [1..n -> Places \cup {"untyped"}]
  BY DEF UpTo
<1>3. B \in SUBSET Nat /\ B # {}
  BY <1>1, <1>2, PolicyAssumption
<1>4. PICK k \in B : \A j \in B : k <= j
  <2> HIDE DEF B
  <2> QED BY <1>3, LeastOf
<1>5. \A j \in 1..(k - 1) : ss[j] = "inside"
  BY <1>2, <1>4, PolicyAssumption
<1> QED BY <1>2, <1>4, <1>5 DEF FirstBad, McpFine

McpSays(r, t, d) ==
    \/ ~r.registered /\ Fields(d, "block", "mcp-unknown-tool", FALSE)
    \/ /\ r.registered /\ FirstBad(r.strings, "protected")
       /\ Fields(d, "block", "mcp-protected-path", TRUE)
    \/ /\ r.registered /\ FirstBad(r.strings, "outside")
       /\ d.decision = "block" /\ d.rule = "mcp-sandbox" /\ d.taints = FALSE
    \/ /\ r.registered /\ FirstBad(r.strings, "untyped")
       /\ d.decision = "block" /\ d.rule = "parse-error" /\ d.taints = FALSE
    \/ /\ r.registered /\ \A i \in DOMAIN r.strings : r.strings[i] = "inside"
       /\ Fields(d, "allow", "mcp-ok", FALSE)

LEMMA McpVerdict ==
  ASSUME NEW r \in McpCalls, NEW t \in BOOLEAN, Sound(r)
  PROVE  McpSays(r, t, Evaluate(r, t))
<1> DEFINE c == McpChecks(r)
<1>1. Handler(r, t) = c /\ r.tool # "other"
  BY DEF Handler, McpCalls
<1>2. Listed(c, 5)
  BY HandlerLists
<1>3. /\ (c[1].applies <=> ~r.registered) /\ Fields(c[1], "block", "mcp-unknown-tool", FALSE)
      /\ (c[2].applies <=> FirstBad(r.strings, "protected"))
      /\ Fields(c[2], "block", "mcp-protected-path", TRUE)
      /\ (c[3].applies <=> FirstBad(r.strings, "outside"))
      /\ Fields(c[3], "block", "mcp-sandbox", FALSE)
      /\ (c[4].applies <=> FirstBad(r.strings, "untyped"))
      /\ Fields(c[4], "block", "parse-error", FALSE)
      /\ Fields(c[5], "allow", "mcp-ok", FALSE)
  BY DEF McpChecks, Refuse, RefuseProtected, Grant, AskFirst, Check, Fields
<1> HIDE DEF c
<1>4. PICK k \in 1..5 : Hits(c, k) /\ Evaluate(r, t) = c[k]
  BY <1>1, <1>2, Decided
<1>5. r.tool = "mcp.call" /\ r.strings \in UpTo(Places \cup {"untyped"})
  BY DEF McpCalls
<1>6. CASE k \in 1..4
  BY <1>3, <1>4, <1>6 DEF Hits, Fields, McpSays
<1>7. CASE k = 5
  <2>1. \A i \in DOMAIN r.strings : r.strings[i] = "inside"
    BY <1>3, <1>4, <1>5, <1>7, NoneBad DEF Hits, Places
  <2> QED BY <1>3, <1>4, <1>7, <2>1 DEF Hits, Fields, McpSays
<1> QED BY <1>4, <1>6, <1>7

ResourceSays(r, t, d) ==
    \/ ~r.enabled /\ Fields(d, "block", "mcp-resources-denied", FALSE)
    \/ r.enabled /\ r.at = "protected" /\ Fields(d, "block", "mcp-protected-path", TRUE)
    \/ r.enabled /\ r.at = "outside" /\ Fields(d, "block", "mcp-sandbox", FALSE)
    \/ r.enabled /\ r.at = "inside" /\ Fields(d, "allow", "mcp-resource-ok", FALSE)

LEMMA ResourceVerdict ==
  ASSUME NEW r \in McpReads, NEW t \in BOOLEAN, Sound(r)
  PROVE  ResourceSays(r, t, Evaluate(r, t))
<1> DEFINE c == ResourceChecks(r)
<1>1. Handler(r, t) = c /\ r.tool # "other"
  BY DEF Handler, McpReads
<1>2. Listed(c, 4)
  BY HandlerLists
<1>3. /\ (c[1].applies <=> ~r.enabled) /\ Fields(c[1], "block", "mcp-resources-denied", FALSE)
      /\ (c[2].applies <=> r.at = "protected") /\ Fields(c[2], "block", "mcp-protected-path", TRUE)
      /\ (c[3].applies <=> r.at = "outside") /\ Fields(c[3], "block", "mcp-sandbox", FALSE)
      /\ Fields(c[4], "allow", "mcp-resource-ok", FALSE)
  BY DEF ResourceChecks, Refuse, RefuseProtected, Grant, AskFirst, Check, Fields
<1> HIDE DEF c
<1>4. PICK k \in 1..4 : Hits(c, k) /\ Evaluate(r, t) = c[k]
  BY <1>1, <1>2, Decided
<1>5. r.at \in Places /\ r.tool = "mcp.resource"
  BY DEF McpReads
<1> QED BY <1>3, <1>4, <1>5 DEF Hits, Fields, ResourceSays, Places

ApiSays(r, t, d) ==
    \/ r.rule = "none" /\ Fields(d, "block", "api-unknown-operation", FALSE)
    \/ r.rule # "none" /\ t /\ Fields(d, "block", "taint-session", FALSE)
    \/ r.rule = "allow" /\ ~t /\ Fields(d, "allow", "api-ok", FALSE)
    \/ r.rule = "require_approval" /\ ~t /\ Fields(d, "ask", "api-approval", FALSE)
    \/ r.rule = "block" /\ ~t /\ Fields(d, "block", "api-blocked", FALSE)

LEMMA ApiVerdict ==
  ASSUME NEW r \in ApiCalls, NEW t \in BOOLEAN, Sound(r)
  PROVE  ApiSays(r, t, Evaluate(r, t))
<1> DEFINE c == ApiChecks(r, t)
<1>1. Handler(r, t) = c /\ r.tool # "other"
  BY DEF Handler, ApiCalls
<1>2. Listed(c, 5)
  BY HandlerLists
<1>3. /\ (c[1].applies <=> r.rule = "none") /\ Fields(c[1], "block", "api-unknown-operation", FALSE)
      /\ (c[2].applies <=> t) /\ Fields(c[2], "block", "taint-session", FALSE)
      /\ (c[3].applies <=> r.rule = "allow") /\ Fields(c[3], "allow", "api-ok", FALSE)
      /\ (c[4].applies <=> r.rule = "require_approval")
      /\ Fields(c[4], "ask", "api-approval", FALSE)
      /\ Fields(c[5], "block", "api-blocked", FALSE)
  BY DEF ApiChecks, Refuse, RefuseProtected, Grant, AskFirst, Check, Fields
<1> HIDE DEF c
<1>4. PICK k \in 1..5 : Hits(c, k) /\ Evaluate(r, t) = c[k]
  BY <1>1, <1>2, Decided
<1>5. r.tool = "api.call" /\ r.rule \in {"none", "allow", "require_approval", "block"}
  BY DEF ApiCalls
<1> QED BY <1>3, <1>4, <1>5 DEF Hits, Fields, ApiSays

-----------------------------------------------------------------------------
(* The engine, for any request: by its tool, once evaluate's own checks are past. *)
Says(r, t, d) ==
    \/ r.secret /\ Fields(d, "block", "secret-egress", TRUE)
    \/ ~r.secret /\ r.tool = "other" /\ Fields(d, "block", "unknown-tool", FALSE)
    \/ ~r.secret /\ r.tool # "other" /\ r.malformed /\ Fields(d, "block", "parse-error", FALSE)
    \/ r \in FileRequests /\ Sound(r) /\ FileSays(r, d)
    \/ r \in ShellRequests /\ Sound(r) /\ ShellSays(r, t, d)
    \/ r \in NetRequests /\ Sound(r) /\ NetSays(r, t, d)
    \/ r \in McpCalls /\ Sound(r) /\ McpSays(r, t, d)
    \/ r \in McpReads /\ Sound(r) /\ ResourceSays(r, t, d)
    \/ r \in ApiCalls /\ Sound(r) /\ ApiSays(r, t, d)

(* Also the empty list of an unknown tool. *)
LEMMA HandlerIsList ==
  ASSUME NEW r \in Requests, NEW t
  PROVE  \E n \in Nat : IsList(Handler(r, t), n)
<1>1. CASE r \in OtherRequests
  <2>1. Handler(r, t) = <<>>
    BY <1>1 DEF Handler, OtherRequests
  <2>2. <<>> = [i \in 1..0 |-> <<>>[i]]
    OBVIOUS
  <2> QED BY <2>1, <2>2 DEF IsList
<1>2. CASE r \notin OtherRequests
  <2>1. Handler(r, t) \in {FileChecks(r), ShellChecks(r, t), NetChecks(r, t), McpChecks(r),
                            ResourceChecks(r), ApiChecks(r, t)}
    BY <1>2 DEF Handler, Requests, FileRequests, ShellRequests, NetRequests, McpCalls, McpReads,
                ApiCalls
  <2> QED BY <2>1, HandlerLists DEF Listed
<1> QED BY <1>1, <1>2

(* Evaluate says that, of every request and in any session. *)
LEMMA Verdict ==
  ASSUME NEW r \in Requests, NEW t \in BOOLEAN
  PROVE  Says(r, t, Evaluate(r, t))
<1>1. CASE Sound(r) /\ r \notin OtherRequests
  BY <1>1, FileVerdict, ShellVerdict, NetVerdict, McpVerdict, ResourceVerdict, ApiVerdict
     DEF Requests, Says
<1>2. CASE ~Sound(r) \/ r \in OtherRequests
  <2>1. PICK n \in Nat : IsList(Handler(r, t), n)
    BY HandlerIsList
  <2>2. r \in OtherRequests => r.tool = "other"
    BY DEF OtherRequests
  <2> QED BY <1>2, <2>1, <2>2, Prelude DEF Says, Sound
<1> QED BY <1>1, <1>2

(* The shell's words lie somewhere. *)
LEMMA WordsAt ==
  ASSUME NEW r \in ShellRequests
  PROVE  /\ DOMAIN r.words \subseteq Nat
         /\ \A i \in DOMAIN r.words : r.words[i].at \in Places
<1>1. PICK n \in 0..MaxWords : r.words \in [1..n -> GrammarWords] \cup [1..n -> FallbackWords]
  BY DEF ShellRequests, UpTo
<1> QED BY <1>1, PolicyAssumption DEF GrammarWords, FallbackWords

(* When no file that is opened is the first bad one, there is none. *)
LEMMA NoneOpened ==
  ASSUME NEW r \in ShellRequests,
         ~FirstOpened(r.words, "protected"), ~FirstOpened(r.words, "outside")
  PROVE  \A i \in DOMAIN r.words : Opened(r.words[i]) => r.words[i].at = "inside"
<1>1. SUFFICES ASSUME NEW i \in DOMAIN r.words, Opened(r.words[i]), r.words[i].at # "inside"
               PROVE  FALSE
  OBVIOUS
<1> DEFINE B == {j \in DOMAIN r.words : Opened(r.words[j]) /\ r.words[j].at # "inside"}
<1>2. B \in SUBSET Nat /\ B # {}
  BY <1>1, WordsAt
<1>3. PICK k \in B : \A j \in B : k <= j
  <2> HIDE DEF B
  <2> QED BY <1>2, LeastOf
<1>4. r.words \in UpTo(GrammarWords) \cup UpTo(FallbackWords)
  BY DEF ShellRequests
<1>5. PICK n \in 0..MaxWords : DOMAIN r.words = 1..n
  BY <1>4 DEF UpTo
<1>6. \A j \in 1..(k - 1) : Opened(r.words[j]) => r.words[j].at = "inside"
  BY <1>3, <1>5, PolicyAssumption
<1>7. r.words[k].at \in {"protected", "outside"}
  BY <1>3, WordsAt DEF Places
<1> QED BY <1>1, <1>3, <1>6, <1>7 DEF FirstOpened

(* What has got past the paths and the walk opens nothing but the sandbox. *)
LEMMA CleanShell ==
  ASSUME NEW r \in ShellRequests, Sound(r), r.walk = "nothing", ~MayName(r.words),
         ~FirstOpened(r.words, "protected"), ~FirstOpened(r.words, "outside")
  PROVE  Clean(r)
<1>1. r.tool = "shell.run"
  BY DEF ShellRequests
<1>2. ASSUME NEW i \in DOMAIN r.words
      PROVE  /\ r.words[i].role \in {"path", "cluster"} => r.words[i].at = "inside"
             /\ ~(r.words[i].role = "name" /\ r.words[i].at = "protected")
  BY NoneOpened DEF Opened, MayName
<1>3. OpensAt(r) = {r.words[i].at :
                        i \in {j \in DOMAIN r.words : r.words[j].role \in {"path", "cluster"}}}
  BY <1>1, <1>2 DEF OpensAt
<1>4. OpensAt(r) \subseteq {"inside", "writable"}
  BY <1>2, <1>3
<1> QED BY <1>4 DEF Clean, Sound

(* Whatever passes is clean, in a session that is tainted or not. *)
LEMMA PassedIsClean ==
  ASSUME NEW r \in Requests, NEW t \in BOOLEAN, Passes(Evaluate(r, t))
  PROVE  Clean(r)
<1>1. Says(r, t, Evaluate(r, t)) /\ Evaluate(r, t).decision # "block"
  BY Verdict DEF Passes
<1>2. CASE r \in FileRequests /\ Sound(r) /\ FileSays(r, Evaluate(r, t))
  <2>1. OpensAt(r) \subseteq {"inside", "writable"}
    BY <1>1, <1>2 DEF FileSays, Fields, OpensAt, FileRequests
  <2> QED BY <1>2, <2>1 DEF Clean, Sound
<1>3. CASE r \in ShellRequests /\ Sound(r) /\ ShellSays(r, t, Evaluate(r, t))
  <2>1. /\ r.walk = "nothing" /\ ~MayName(r.words)
        /\ ~FirstOpened(r.words, "protected") /\ ~FirstOpened(r.words, "outside")
    BY <1>1, <1>3 DEF ShellSays, Fields
  <2> QED BY <1>3, <2>1, CleanShell
<1>4. CASE (r \in NetRequests \/ r \in ApiCalls) /\ Sound(r)
  BY <1>4 DEF Clean, OpensAt, NetRequests, ApiCalls, Sound
<1>5. CASE r \in McpCalls /\ Sound(r) /\ McpSays(r, t, Evaluate(r, t))
  <2>1. \A i \in DOMAIN r.strings : r.strings[i] = "inside"
    BY <1>1, <1>5 DEF McpSays, Fields
  <2>2. OpensAt(r) = {r.strings[i] : i \in DOMAIN r.strings}
    BY <1>5 DEF OpensAt, McpCalls
  <2> QED BY <1>5, <2>1, <2>2 DEF Clean, Sound
<1>6. CASE r \in McpReads /\ Sound(r) /\ ResourceSays(r, t, Evaluate(r, t))
  <2>1. OpensAt(r) \subseteq {"inside", "writable"}
    BY <1>1, <1>6 DEF ResourceSays, Fields, OpensAt, McpReads
  <2> QED BY <1>6, <2>1 DEF Clean, Sound
<1> QED BY <1>1, <1>2, <1>3, <1>4, <1>5, <1>6 DEF Says, Fields

(* A way out does not pass in a tainted session. *)
LEMMA TaintShuts ==
  ASSUME NEW r \in Requests, WayOut(r)
  PROVE  ~Passes(Evaluate(r, TRUE))
<1>1. Says(r, TRUE, Evaluate(r, TRUE))
  BY Verdict
<1>2. r \in ShellRequests \/ r \in NetRequests \/ r \in ApiCalls
  BY DEF WayOut, Requests, FileRequests, McpCalls, McpReads, OtherRequests
<1>3. CASE r \in ShellRequests /\ Sound(r) /\ ShellSays(r, TRUE, Evaluate(r, TRUE))
  BY <1>3 DEF ShellSays, Fields, WayOut, ShellRequests, Passes
<1>4. CASE r \in NetRequests /\ Sound(r) /\ NetSays(r, TRUE, Evaluate(r, TRUE))
  BY <1>4 DEF NetSays, Fields, Passes
<1>5. CASE r \in ApiCalls /\ Sound(r) /\ ApiSays(r, TRUE, Evaluate(r, TRUE))
  BY <1>5 DEF ApiSays, Fields, Passes, ApiCalls
<1>6. r.tool \notin {"fs.read", "fs.write", "mcp.call", "mcp.resource"}
  BY DEF WayOut
<1> QED BY <1>1, <1>2, <1>3, <1>4, <1>5, <1>6
        DEF Says, Fields, Passes, FileRequests, McpCalls, McpReads

(* Where the policy saw something protected it taints, and nothing that goes for
   something protected has a way out itself. *)
LEMMA SeenTaints ==
  ASSUME NEW r \in Requests, NEW t \in BOOLEAN, Sees(r, Evaluate(r, t))
  PROVE  Evaluate(r, t).taints /\ (WayOut(r) => ~Passes(Evaluate(r, t)))
<1> DEFINE d == Evaluate(r, t)
<1>1. Says(r, t, d)
  BY Verdict
<1> HIDE DEF d
<1>2. CASE r.secret /\ Fields(d, "block", "secret-egress", TRUE)
  BY <1>2 DEF Fields, Passes, d
<1>3. CASE r \in FileRequests /\ Sound(r) /\ FileSays(r, d)
  BY <1>3 DEF FileSays, Fields, Sees, d, WayOut, FileRequests
<1>4. CASE r \in ShellRequests /\ Sound(r) /\ ShellSays(r, t, d)
  <2>1. r.tool = "shell.run" /\ r.line \in {"argv", "unsplit", "syntax", "unsplit syntax"}
        /\ r.grant \in {"sh-ok", "sh-exact", "sh-ask", "none"}
    BY <1>4 DEF ShellRequests
  <2>2. Named(r.words) <=> \E i \in DOMAIN r.words : /\ r.words[i].at = "protected"
                                                   /\ r.words[i].role # "cluster"
    BY DEF Named
  <2>3. d.rule # "secret-egress"
    BY <1>4 DEF ShellSays, Fields
  <2>4. \/ d.rule \notin {"parse-error", "fs-sandbox"} /\ r.line \in {"argv", "syntax"}
           /\ Named(r.words)
        \/ d.rule = "sh-paths" /\ FirstOpened(r.words, "protected")
        \/ d.rule = "sh-recursive" /\ r.walk = "protected"
    BY <1>4, <2>1, <2>2, <2>3 DEF Sees, FirstOpened, Opened, d
  <2>5. CASE d.rule \notin {"parse-error", "fs-sandbox"} /\ r.line \in {"argv", "syntax"}
             /\ Named(r.words)
    BY <1>4, <2>1, <2>5 DEF ShellSays, Fields, Passes, WayOut, d
  <2>6. CASE d.rule = "sh-paths" /\ FirstOpened(r.words, "protected")
    BY <1>4, <2>1, <2>6 DEF ShellSays, Fields, Passes, WayOut, d
  <2>7. CASE d.rule = "sh-recursive" /\ r.walk = "protected"
    BY <1>4, <2>1, <2>7 DEF ShellSays, Fields, Passes, WayOut, d
  <2> QED BY <2>4, <2>5, <2>6, <2>7
<1>5. CASE r \in NetRequests /\ Sound(r) /\ NetSays(r, t, d)
  BY <1>5 DEF NetSays, Fields, Sees, d, NetRequests
<1>6. CASE r \in McpCalls /\ Sound(r) /\ McpSays(r, t, d)
  BY <1>6 DEF McpSays, Fields, Sees, d, McpCalls, WayOut
<1>7. CASE r \in McpReads /\ Sound(r) /\ ResourceSays(r, t, d)
  BY <1>7 DEF ResourceSays, Fields, Sees, d, McpReads, WayOut
<1>8. CASE r \in ApiCalls /\ Sound(r) /\ ApiSays(r, t, d)
  BY <1>8 DEF ApiSays, Fields, Sees, d, ApiCalls
<1>9. CASE (r.tool = "other" /\ d.rule = "unknown-tool") \/ d.rule = "parse-error"
  BY <1>9 DEF Sees, d
<1> QED BY <1>1, <1>2, <1>3, <1>4, <1>5, <1>6, <1>7, <1>8, <1>9 DEF Says, Fields

-----------------------------------------------------------------------------
(* What is refused for want of a grant, and the same request with it. *)

(* Only a shell command and an MCP call are refused for want of a grant. *)
LEMMA Wanting ==
  ASSUME NEW r \in Requests, NEW t \in BOOLEAN,
         Evaluate(r, t).rule \in {"sh-allowlist", "mcp-unknown-tool"}
  PROVE  /\ Sound(r) /\ Evaluate(r, t).decision = "block"
         /\ \/ /\ r \in ShellRequests /\ r.line = "argv" /\ r.cwdInside /\ r.grant = "none"
               /\ Evaluate(r, t).taints = Named(r.words)
            \/ r \in McpCalls /\ ~r.registered /\ Evaluate(r, t).taints = FALSE
<1> DEFINE d == Evaluate(r, t)
<1>1. Says(r, t, d)
  BY Verdict
<1> HIDE DEF d
<1>2. CASE r \in FileRequests /\ FileSays(r, d)
  BY <1>2 DEF FileSays, Fields, d
<1>3. CASE r \in ShellRequests /\ Sound(r) /\ ShellSays(r, t, d)
  BY <1>3 DEF ShellSays, Fields, d
<1>4. CASE r \in NetRequests /\ NetSays(r, t, d)
  BY <1>4 DEF NetSays, Fields, d
<1>5. CASE r \in McpCalls /\ Sound(r) /\ McpSays(r, t, d)
  BY <1>5 DEF McpSays, Fields, d
<1>6. CASE r \in McpReads /\ ResourceSays(r, t, d)
  BY <1>6 DEF ResourceSays, Fields, d
<1>7. CASE r \in ApiCalls /\ ApiSays(r, t, d)
  BY <1>7 DEF ApiSays, Fields, d
<1> QED BY <1>1, <1>2, <1>3, <1>4, <1>5, <1>6, <1>7 DEF Says, Fields, d

(* With the grant it is the same request otherwise. *)
LEMMA Granted ==
  ASSUME NEW r \in Requests
  PROVE  /\ r \in ShellRequests => /\ WithGrant(r) \in ShellRequests
                                   /\ WithGrant(r).words = r.words /\ WithGrant(r).walk = r.walk
                                   /\ WithGrant(r).secret = r.secret
                                   /\ WithGrant(r).malformed = r.malformed
                                   /\ WithGrant(r).tool = r.tool
                                   /\ WithGrant(r).line = r.line
                                   /\ WithGrant(r).cwdInside = r.cwdInside
                                   /\ WithGrant(r).grant = "sh-ok"
         /\ r \in McpCalls => /\ WithGrant(r) \in McpCalls
                              /\ WithGrant(r).strings = r.strings
                              /\ WithGrant(r).secret = r.secret
                              /\ WithGrant(r).malformed = r.malformed
                              /\ WithGrant(r).tool = r.tool
<1>1. ASSUME r \in ShellRequests
      PROVE  WithGrant(r) = [r EXCEPT !.grant = "sh-ok"]
  BY <1>1 DEF WithGrant, ShellRequests
<1>2. ASSUME r \in McpCalls
      PROVE  WithGrant(r) = [r EXCEPT !.registered = TRUE]
  BY <1>2 DEF WithGrant, McpCalls
<1> QED BY <1>1, <1>2 DEF ShellRequests, McpCalls

(* OpensAt, for a shell command and for an MCP call. *)
ShellOpens(ws, walk) ==
    {ws[i].at : i \in {j \in DOMAIN ws : ws[j].role \in {"path", "cluster"}}}
    \cup (IF \E i \in DOMAIN ws : ws[i].role = "name" /\ ws[i].at = "protected"
          THEN {"protected"} ELSE {})
    \cup (IF walk = "nothing" THEN {} ELSE {"outside"})
StringsAt(ss) == {ss[i] : i \in DOMAIN ss}

(* A lifted refusal is a refusal, of a clean request that names nothing protected. *)
LEMMA LiftedIsClean ==
  ASSUME NEW r \in Requests, NEW t \in BOOLEAN, Lifted(r, t)
  PROVE  ~Passes(Evaluate(r, t)) /\ Clean(r) /\ ~Evaluate(r, t).taints
<1> DEFINE g == WithGrant(r)
           would == Evaluate(g, FALSE)
<1>1. Evaluate(r, t).rule \in {"sh-allowlist", "mcp-unknown-tool"}
      /\ would.decision # "block" /\ ~would.taints
  BY DEF Lifted
<1>2. g \in Requests
  BY <1>1, Wanting, Granted DEF Requests
<1>3. Clean(g)
  BY <1>1, <1>2, PassedIsClean DEF Passes
<1>4. ~Passes(Evaluate(r, t))
  BY <1>1, Wanting DEF Passes
<1>5. CASE r \in ShellRequests /\ Evaluate(r, t).taints = Named(r.words)
  <2>1. OpensAt(g) = OpensAt(r)
    <3>1. r.tool = "shell.run" /\ g.tool = "shell.run" /\ g.words = r.words /\ g.walk = r.walk
      BY <1>5, Granted DEF ShellRequests
    <3>2. ASSUME NEW x, x.tool = "shell.run"
          PROVE  OpensAt(x) = ShellOpens(x.words, x.walk)
      BY <3>2 DEF OpensAt, ShellOpens
    <3> QED BY <3>1, <3>2
  <2>2. Clean(r)
    BY <1>3, <1>5, <2>1, Granted DEF Clean
  <2>3. Sound(g) /\ g \in ShellRequests /\ g.words = r.words
    BY <1>3, <1>5, Granted DEF Clean, Sound
  <2>4. ShellSays(g, FALSE, would)
    BY <2>3, ShellVerdict
  <2>5. would.taints = Named(r.words)
    BY <1>1, <2>3, <2>4 DEF ShellSays, Fields
  <2> QED BY <1>1, <1>4, <1>5, <2>2, <2>5
<1>6. CASE r \in McpCalls /\ Evaluate(r, t).taints = FALSE
  <2>1. OpensAt(g) = OpensAt(r)
    <3>1. r.tool = "mcp.call" /\ g.tool = "mcp.call" /\ g.strings = r.strings
      BY <1>6, Granted DEF McpCalls
    <3>2. ASSUME NEW x, x.tool = "mcp.call"
          PROVE  OpensAt(x) = StringsAt(x.strings)
      BY <3>2 DEF OpensAt, StringsAt
    <3> QED BY <3>1, <3>2
  <2> QED BY <1>3, <1>4, <1>6, <2>1, Granted DEF Clean
<1> QED BY <1>1, <1>5, <1>6, Wanting

-----------------------------------------------------------------------------
(* The table. *)

(* Of a request in a session that is tainted, and in one that is not. *)
LEMMA BothWays ==
  ASSUME NEW r \in Requests
  PROVE  LET d == Evaluate(r, FALSE)
             e == Evaluate(r, TRUE)
         IN /\ d.taints \in BOOLEAN /\ e.taints = d.taints
            /\ \/ d.decision = "allow" /\ e.decision = "allow"
               \/ d.decision = "ask" /\ e.decision = "ask" /\ ~d.taints
               \/ d.decision = "block" /\ e.decision = "block"
               \/ /\ d.decision \in {"allow", "ask"} /\ e.decision = "block"
                  /\ ~d.taints /\ r.tool # "fs.write"
            /\ r.tool = "fs.write" /\ d.decision = "allow" => ~d.taints
<1> DEFINE d == Evaluate(r, FALSE)
           e == Evaluate(r, TRUE)
<1>1. Says(r, FALSE, d) /\ Says(r, TRUE, e)
  BY Verdict
<1> HIDE DEF d, e
<1>2. CASE r.secret \/ r.malformed \/ r.tool = "other"
  BY <1>1, <1>2 DEF Says, Fields, d, e, Sound, FileRequests, ShellRequests, NetRequests, McpCalls,
                    McpReads, ApiCalls
<1>3. CASE Sound(r) /\ r.tool # "other"
  <2>1. \/ r \in FileRequests /\ FileSays(r, d) /\ FileSays(r, e)
        \/ r \in ShellRequests /\ ShellSays(r, FALSE, d) /\ ShellSays(r, TRUE, e)
        \/ r \in NetRequests /\ NetSays(r, FALSE, d) /\ NetSays(r, TRUE, e)
        \/ r \in McpCalls /\ McpSays(r, FALSE, d) /\ McpSays(r, TRUE, e)
        \/ r \in McpReads /\ ResourceSays(r, FALSE, d) /\ ResourceSays(r, TRUE, e)
        \/ r \in ApiCalls /\ ApiSays(r, FALSE, d) /\ ApiSays(r, TRUE, e)
    BY <1>3, FileVerdict, ShellVerdict, NetVerdict, McpVerdict, ResourceVerdict, ApiVerdict
       DEF Requests, OtherRequests, d, e
  <2>2. CASE r \in FileRequests /\ FileSays(r, d) /\ FileSays(r, e)
    BY <2>2 DEF FileSays, Fields, d, e
  <2>3. CASE r \in ShellRequests /\ ShellSays(r, FALSE, d) /\ ShellSays(r, TRUE, e)
    <3>1. Named(r.words) \in BOOLEAN /\ r.tool = "shell.run"
      BY <2>3 DEF Named, ShellRequests
    <3> QED BY <2>3, <3>1 DEF ShellSays, Fields, d, e
  <2>4. CASE r \in NetRequests /\ NetSays(r, FALSE, d) /\ NetSays(r, TRUE, e)
    BY <2>4 DEF NetSays, Fields, d, e, NetRequests
  <2>5. CASE r \in McpCalls /\ McpSays(r, FALSE, d) /\ McpSays(r, TRUE, e)
    <3>1. d = e /\ r.tool = "mcp.call"
      BY <2>5 DEF Evaluate, Handler, McpCalls, d, e
    <3> QED BY <2>5, <3>1 DEF McpSays, Fields, d, e
  <2>6. CASE r \in McpReads /\ ResourceSays(r, FALSE, d) /\ ResourceSays(r, TRUE, e)
    BY <2>6 DEF ResourceSays, Fields, d, e, McpReads
  <2>7. CASE r \in ApiCalls /\ ApiSays(r, FALSE, d) /\ ApiSays(r, TRUE, e)
    BY <2>7 DEF ApiSays, Fields, d, e, ApiCalls
  <2> QED BY <2>1, <2>2, <2>3, <2>4, <2>5, <2>6, <2>7
<1> QED BY <1>2, <1>3 DEF Sound

(* The kind of a request, by what becomes of it. *)
KindOf(r) ==
    LET d == Evaluate(r, FALSE)
        e == Evaluate(r, TRUE)
    IN CASE e.decision = "allow" /\ ~d.taints -> "work"
         [] e.decision = "allow" /\ d.taints  -> "mention"
         [] e.decision = "ask"                 -> "scoped"
         [] e.decision = "block" /\ d.decision = "allow" -> "sink"
         [] e.decision = "block" /\ d.decision = "ask"   -> "gated"
         [] e.decision = "block" /\ d.decision = "block" /\ d.taints -> "reach"
         [] /\ e.decision = "block" /\ d.decision = "block"
            /\ ~d.taints /\ Lifted(r, FALSE) -> "unlisted"
         [] OTHER -> "stray"

(* Learning looks at a request in the same way in a tainted session. *)
LEMMA LiftedBothWays ==
  ASSUME NEW r \in Requests
  PROVE  Lifted(r, TRUE) = Lifted(r, FALSE) /\ Lifted(r, TRUE) \in BOOLEAN
<1>1. Evaluate(r, TRUE).rule \in {"sh-allowlist", "mcp-unknown-tool"}
      <=> Evaluate(r, FALSE).rule \in {"sh-allowlist", "mcp-unknown-tool"}
  <2>1. ASSUME NEW t \in BOOLEAN, NEW u \in BOOLEAN,
               Evaluate(r, t).rule \in {"sh-allowlist", "mcp-unknown-tool"}
        PROVE  Evaluate(r, u).rule \in {"sh-allowlist", "mcp-unknown-tool"}
    <3>1. CASE /\ r \in ShellRequests /\ Sound(r) /\ r.line = "argv" /\ r.cwdInside
               /\ r.grant = "none"
      BY <3>1, ShellVerdict DEF ShellSays, Fields
    <3>2. CASE r \in McpCalls /\ Sound(r) /\ ~r.registered
      BY <3>2, McpVerdict DEF McpSays, Fields
    <3> QED BY <2>1, <3>1, <3>2, Wanting
  <2> QED BY <2>1
<1> QED BY <1>1 DEF Lifted

(* The row of the table it is in. *)
LEMMA Tabled ==
  ASSUME NEW r \in Requests
  PROVE  LET k == KindOf(r)
         IN /\ k \in RequestKinds
            /\ \A t \in BOOLEAN : /\ Evaluate(r, t).decision = Judged(k, t)
                                 /\ Evaluate(r, t).taints = Taints(k)
                                 /\ Lifted(r, t) = (k = "unlisted")
            /\ r.tool = "fs.write" => k \in WriteKinds
<1> DEFINE d == Evaluate(r, FALSE)
           e == Evaluate(r, TRUE)
           k == KindOf(r)
<1>1. /\ d.taints \in BOOLEAN /\ e.taints = d.taints
      /\ \/ d.decision = "allow" /\ e.decision = "allow"
         \/ d.decision = "ask" /\ e.decision = "ask" /\ ~d.taints
         \/ d.decision = "block" /\ e.decision = "block"
         \/ /\ d.decision \in {"allow", "ask"} /\ e.decision = "block"
            /\ ~d.taints /\ r.tool # "fs.write"
      /\ r.tool = "fs.write" /\ d.decision = "allow" => ~d.taints
  BY BothWays
<1>2. Lifted(r, TRUE) = Lifted(r, FALSE) /\ Lifted(r, TRUE) \in BOOLEAN
  BY LiftedBothWays
<1>3. Lifted(r, FALSE) => d.decision = "block" /\ ~d.taints /\ r.tool # "fs.write"
  BY LiftedIsClean, Wanting DEF Lifted, Passes, ShellRequests, McpCalls
<1>4. k = CASE e.decision = "allow" /\ ~d.taints -> "work"
            [] e.decision = "allow" /\ d.taints  -> "mention"
            [] e.decision = "ask"                 -> "scoped"
            [] e.decision = "block" /\ d.decision = "allow" -> "sink"
            [] e.decision = "block" /\ d.decision = "ask"   -> "gated"
            [] e.decision = "block" /\ d.decision = "block" /\ d.taints -> "reach"
            [] /\ e.decision = "block" /\ d.decision = "block"
               /\ ~d.taints /\ Lifted(r, FALSE) -> "unlisted"
            [] OTHER -> "stray"
  BY DEF KindOf
<1> HIDE DEF d, e, k
<1>5. /\ k \in RequestKinds
      /\ d.decision = Judged(k, FALSE) /\ e.decision = Judged(k, TRUE)
      /\ d.taints = Taints(k) /\ e.taints = Taints(k)
      /\ Lifted(r, FALSE) = (k = "unlisted") /\ Lifted(r, TRUE) = (k = "unlisted")
      /\ r.tool = "fs.write" => k \in WriteKinds
  <2> DEFINE lift == Lifted(r, FALSE)
  <2>0. lift \in BOOLEAN /\ Lifted(r, TRUE) = lift /\ Lifted(r, FALSE) = lift
    BY <1>2
  <2> HIDE DEF lift
  <2>1. CASE e.decision = "allow" /\ ~d.taints
    <3>1. k = "work" /\ d.decision = "allow" /\ lift = FALSE
      BY <1>1, <1>3, <1>4, <2>0, <2>1
    <3>2. d.taints = FALSE /\ e.taints = FALSE /\ Taints("work") = FALSE
      BY <1>1, <2>1 DEF Taints
    <3> QED BY <1>1, <2>0, <2>1, <3>1, <3>2 DEF RequestKinds, Judged, WriteKinds
  <2>2. CASE e.decision = "allow" /\ d.taints
    <3>1. k = "mention" /\ d.decision = "allow" /\ lift = FALSE /\ r.tool # "fs.write"
      BY <1>1, <1>3, <1>4, <2>0, <2>2
    <3>2. d.taints = TRUE /\ e.taints = TRUE /\ Taints("mention") = TRUE
      BY <1>1, <2>2 DEF Taints
    <3> QED BY <1>1, <2>0, <2>2, <3>1, <3>2 DEF RequestKinds, Judged, WriteKinds
  <2>3. CASE e.decision = "ask"
    <3>1. k = "scoped" /\ d.decision = "ask" /\ lift = FALSE
      BY <1>1, <1>3, <1>4, <2>0, <2>3
    <3>2. d.taints = FALSE /\ e.taints = FALSE /\ Taints("scoped") = FALSE
      BY <1>1, <2>3 DEF Taints
    <3> QED BY <1>1, <2>0, <2>3, <3>1, <3>2 DEF RequestKinds, Judged, WriteKinds
  <2>4. CASE e.decision = "block" /\ d.decision = "allow"
    <3>1. k = "sink" /\ lift = FALSE
      BY <1>3, <1>4, <2>0, <2>4
    <3>2. d.taints = FALSE /\ e.taints = FALSE /\ Taints("sink") = FALSE
      BY <1>1, <2>4 DEF Taints
    <3> QED BY <1>1, <2>0, <2>4, <3>1, <3>2 DEF RequestKinds, Judged, WriteKinds
  <2>5. CASE e.decision = "block" /\ d.decision = "ask"
    <3>1. k = "gated" /\ lift = FALSE
      BY <1>3, <1>4, <2>0, <2>5
    <3>2. d.taints = FALSE /\ e.taints = FALSE /\ Taints("gated") = FALSE
      BY <1>1, <2>5 DEF Taints
    <3> QED BY <1>1, <2>0, <2>5, <3>1, <3>2 DEF RequestKinds, Judged, WriteKinds
  <2>6. CASE e.decision = "block" /\ d.decision = "block" /\ d.taints
    <3>1. k = "reach" /\ lift = FALSE
      BY <1>3, <1>4, <2>0, <2>6
    <3>2. d.taints = TRUE /\ e.taints = TRUE /\ Taints("reach") = TRUE
      BY <1>1, <2>6 DEF Taints
    <3> QED BY <1>1, <2>0, <2>6, <3>1, <3>2 DEF RequestKinds, Judged, WriteKinds
  <2>7. CASE e.decision = "block" /\ d.decision = "block" /\ ~d.taints /\ lift
    <3>1. k = "unlisted" /\ lift = TRUE /\ r.tool # "fs.write"
      BY <1>3, <1>4, <2>0, <2>7
    <3>2. d.taints = FALSE /\ e.taints = FALSE /\ Taints("unlisted") = FALSE
      BY <1>1, <2>7 DEF Taints
    <3> QED BY <1>1, <2>0, <2>7, <3>1, <3>2 DEF RequestKinds, Judged, WriteKinds
  <2>8. CASE e.decision = "block" /\ d.decision = "block" /\ ~d.taints /\ ~lift
    <3>1. k = "stray" /\ lift = FALSE
      BY <1>4, <2>0, <2>8
    <3>2. d.taints = FALSE /\ e.taints = FALSE /\ Taints("stray") = FALSE
      BY <1>1, <2>8 DEF Taints
    <3> QED BY <1>1, <2>0, <2>8, <3>1, <3>2 DEF RequestKinds, Judged, WriteKinds
  <2> QED BY <1>1, <2>1, <2>2, <2>3, <2>4, <2>5, <2>6, <2>7, <2>8
<1> QED BY <1>5 DEF d, e, k

-----------------------------------------------------------------------------
(* The session. *)

(* The inductive invariant: the second conjunct is what TaintedGetsNoWayOut rests on. *)
IInv ==
    /\ TypeOK
    /\ went => tainted

(* Evaluate gives one of the three decisions, and says whether to taint. *)
LEMMA TypesHold ==
  ASSUME NEW r \in Requests, NEW t \in BOOLEAN
  PROVE  /\ Evaluate(r, t).decision \in {"allow", "ask", "block"}
         /\ Evaluate(r, t).taints \in BOOLEAN
  BY BothWays

(* A session that went for something protected is tainted, always. *)
THEOREM Invariance == Spec => []IInv
<1>0. \A r \in Requests : r # NoRequest
  <2>1. \A r \in Requests : r.tool # "none"
    BY DEF Requests, FileRequests, ShellRequests, NetRequests, McpCalls, McpReads, ApiCalls,
           OtherRequests
  <2>2. NoRequest.tool = "none"
    BY DEF NoRequest
  <2> QED BY <2>1, <2>2
<1>1. Init => IInv
  BY DEF Init, IInv, TypeOK, Waiting
<1>2. IInv /\ [Next]_vars => IInv'
  <2> SUFFICES ASSUME IInv, [Next]_vars PROVE IInv'
    OBVIOUS
  <2>1. CASE Submit
    <3>1. request' \in Requests /\ tainted' = tainted /\ went' = went
      BY <2>1 DEF Submit
    <3>2. TypeOK'
      BY <3>1, TypesHold DEF IInv, TypeOK, Waiting, Outcome
    <3> QED BY <3>1, <3>2 DEF IInv
  <2>2. CASE Decide
    <3>1. request \in Requests /\ tainted \in BOOLEAN /\ went \in BOOLEAN /\ request' = NoRequest
          /\ tainted' = (tainted \/ Evaluate(request, tainted).taints)
          /\ went' = (went \/ Sees(request, Evaluate(request, tainted)))
      BY <2>2 DEF Decide, IInv, TypeOK
    <3>2. Evaluate(request, tainted).taints \in BOOLEAN
      BY <3>1, TypesHold
    <3>3. Sees(request, Evaluate(request, tainted)) => Evaluate(request, tainted).taints
      BY <3>1, SeenTaints
    <3>4. Sees(request, Evaluate(request, tainted)) \in BOOLEAN
      BY DEF Sees
    <3> QED BY <3>1, <3>2, <3>3, <3>4 DEF IInv, TypeOK, Waiting
  <2>3. CASE UNCHANGED vars
    BY <2>3 DEF vars, IInv, TypeOK, Waiting, Outcome
  <2> QED BY <2>1, <2>2, <2>3 DEF Next
<1> QED BY <1>1, <1>2, PTL DEF Spec

(* Type correctness: every request that waits is decided, by one of the three decisions. *)
THEOREM TypeCorrect == Spec => []TypeOK
<1>1. IInv => TypeOK
  BY DEF IInv
<1> QED BY <1>1, Invariance, PTL

(* OnlyCleanPasses: no tool and no grant lets anything through, be it to a question, that
   carries a secret value or opens something protected or out of the sandbox. *)
THEOREM CompleteMediation == Spec => []OnlyCleanPasses
<1>1. IInv => OnlyCleanPasses
  BY PassedIsClean DEF IInv, TypeOK, OnlyCleanPasses, Waiting, Outcome, Passes
<1> QED BY <1>1, Invariance, PTL

(* TaintedGetsNoWayOut: after a request that reached for something protected none that could
   take it out passes, whatever came between them, and neither does that request. *)
THEOREM TaintHolds == Spec => []TaintedGetsNoWayOut
<1>1. IInv => TaintedGetsNoWayOut
  <2> SUFFICES ASSUME IInv, Waiting, went \/ Sees(request, Outcome), WayOut(request)
               PROVE  ~Passes(Outcome)
    BY DEF TaintedGetsNoWayOut
  <2>1. request \in Requests /\ tainted \in BOOLEAN
    BY DEF IInv, TypeOK, Waiting
  <2>2. CASE went
    <3>1. tainted = TRUE
      BY <2>2, <2>1 DEF IInv
    <3> QED BY <2>1, <3>1, TaintShuts DEF Outcome
  <2>3. CASE Sees(request, Outcome)
    BY <2>1, <2>3, SeenTaints DEF Outcome
  <2> QED BY <2>2, <2>3
<1> QED BY <1>1, Invariance, PTL

(* LiftIsClean: what learning mode asks a human about is a refusal, of a request that opens
   nothing protected and names nothing protected. *)
THEOREM LearningLiftsClean == Spec => []LiftIsClean
<1>1. IInv => LiftIsClean
  <2> SUFFICES ASSUME IInv, Waiting, Lifted(request, tainted)
               PROVE  ~Passes(Outcome) /\ Clean(request) /\ ~Outcome.taints
    BY DEF LiftIsClean
  <2>1. request \in Requests /\ tainted \in BOOLEAN
    BY DEF IInv, TypeOK, Waiting
  <2> QED BY <2>1, LiftedIsClean DEF Outcome
<1> QED BY <1>1, Invariance, PTL

(* TableIsRight: what the engine does with any request is a row of PolicyTable, the table
   HookSession and its proofs rest on. *)
THEOREM EngineKeepsTheTable == Spec => []TableIsRight
<1>1. IInv => TableIsRight
  <2> SUFFICES ASSUME IInv, Waiting PROVE TableIsRight
    BY DEF TableIsRight
  <2>1. request \in Requests
    BY DEF IInv, TypeOK, Waiting
  <2> DEFINE k == KindOf(request)
  <2>2. /\ k \in RequestKinds
        /\ \A t \in BOOLEAN : /\ Evaluate(request, t).decision = Judged(k, t)
                             /\ Evaluate(request, t).taints = Taints(k)
                             /\ Lifted(request, t) = (k = "unlisted")
        /\ request.tool = "fs.write" => k \in WriteKinds
    BY <2>1, Tabled
  <2> HIDE DEF k
  <2>3. [t \in BOOLEAN |-> Evaluate(request, t).decision] = [t \in BOOLEAN |-> Judged(k, t)]
    BY <2>2
  <2>4. {Evaluate(request, t).taints : t \in BOOLEAN} = {Taints(k)}
    BY <2>2
  <2>5. {Lifted(request, t) : t \in BOOLEAN} = {k = "unlisted"}
    BY <2>2
  <2> QED BY <2>2, <2>3, <2>4, <2>5 DEF TableIsRight
<1> QED BY <1>1, Invariance, PTL
=============================================================================
