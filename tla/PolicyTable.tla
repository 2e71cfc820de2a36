------------------------------ MODULE PolicyTable ------------------------------
(***************************************************************************)
(* policy.py as a session sees it: what kind of request is it, what does   *)
(* the policy say of that kind in a session that is tainted or not, and    *)
(* does it taint?  Policy shows that the engine decides by this table, and *)
(* HookSession uses it.                                                    *)
(***************************************************************************)

RequestKinds == {
    "work",                     \* allowed, tainted or not
    "mention",                  \* allowed, but a word of it names a protected path
    "scoped",                   \* a write outside the writable set: asks, tainted or not
    "sink",                     \* network, api.call, shell_exact: allowed until tainted
    "gated",                    \* shell_ask, api.call with approval: asks until tainted
    "unlisted",                 \* refused for want of a grant (sh-allowlist, mcp-unknown-tool)
    "stray",                    \* refused by any other rule
    "reach"}                    \* refused, and it names a protected path or carries a secret

(* What fs.write can be. *)
WriteKinds == {"work", "scoped", "stray", "reach"}

Judged(k, tainted) ==
    CASE k \in {"work", "mention"} -> "allow"
      [] k = "scoped" -> "ask"
      [] k = "sink"   -> IF tainted THEN "block" ELSE "allow"
      [] k = "gated"  -> IF tainted THEN "block" ELSE "ask"
      [] OTHER        -> "block"

Taints(k) == k \in {"mention", "reach"}

(* What a tainted session may still do. *)
Harmless == {"work", "mention", "scoped"}
=============================================================================
