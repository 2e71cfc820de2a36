------------------------------- MODULE TreeWalk -------------------------------
(***************************************************************************)
(* policy.py, _tree_hit: before a recursive command runs, the firewall     *)
(* walks the tree it would descend, symlinks followed, and looks for a     *)
(* protected path or a way out of the sandbox.                             *)
(*                                                                         *)
(* A directory is known by its real path, so symlinks make the tree any    *)
(* graph.  What a directory holds is chosen when it is listed, which is    *)
(* once.  A directory is refused as well for a listed protected path that  *)
(* lies below it, whether or not there is such a file.                     *)
(***************************************************************************)
EXTENDS Naturals, Sequences, FiniteSets

CONSTANTS Dirs,                 \* directories of the sandbox, by real path
          Root,                 \* where the command starts
          Depths,               \* the -maxdepth a command may give; NoLimit for none
          NoLimit,
          TreeWalkLimit,        \* TREE_WALK_LIMIT
          Nears,                \* how deep below a directory the nearest listed path lies;
                                \* NoLimit where there is none
          MaxEntries            \* bound: entries of one directory

ASSUME TreeAssumption ==
    /\ IsFiniteSet(Dirs) /\ Root \in Dirs
    /\ NoLimit \notin Nat
    /\ Depths \subseteq Nat \cup {NoLimit} /\ Nears \subseteq Nat \cup {NoLimit}
    /\ TreeWalkLimit \in Nat
    /\ MaxEntries \in Nat

(* Entries that are no directory to walk. *)
Others == {"file", "protected", "outside"}
Bad == {"protected", "outside"}

VARIABLES maxDepth,             \* of this command
          near,                 \* [Dirs -> how deep below the nearest listed path lies]
          holds,                \* [directory listed -> its entries, in order]
          stack,                \* directories to list, with their depths
          seen,                 \* directories that are or were on the stack
          here,                 \* the directory being listed and its depth
          rest,                 \* its entries not looked at yet
          visited,              \* entries looked at
          hit                   \* "walking", and then what was found or "nothing"

vars == <<maxDepth, near, holds, stack, seen, here, rest, visited, hit>>

Listings == UNION {[1..n -> Dirs \cup Others] : n \in 0..MaxEntries}
Entries(d) == {holds[d][i] : i \in DOMAIN holds[d]}
Places == [dir : Dirs, depth : Nat]

TypeOK ==
    /\ maxDepth \in Depths
    /\ near \in [Dirs -> Nears]
    /\ DOMAIN holds \subseteq Dirs
    /\ \A d \in DOMAIN holds : holds[d] \in Listings
    /\ stack \in Seq(Places)
    /\ seen \subseteq Dirs
    /\ here \in Places
    /\ rest \in Seq(Dirs \cup Others)
    /\ visited \in Nat
    /\ hit \in {"walking", "nothing", "protected", "escape", "limit"}

TooDeep(depth) == maxDepth # NoLimit /\ depth >= maxDepth

(* Mutant of ListedBelow: the depth of the command is left out. *)
ListedAnywhere(d, depth) == near[d] # NoLimit

(* protected_under, of a directory at this depth.  It does not ask whether the path
   that is listed is there. *)
ListedBelow(d, depth) ==
    /\ near[d] # NoLimit
    /\ maxDepth = NoLimit \/ depth + near[d] <= maxDepth

(* A directory that is listed itself is no directory to walk, unless the command
   starts there. *)
Init ==
    /\ maxDepth \in Depths
    /\ near \in [Dirs -> Nears]
    /\ \A d \in Dirs \ {Root} : near[d] # 0
    /\ holds = <<>>
    /\ stack = <<[dir |-> Root, depth |-> 0]>>
    /\ seen = {Root}
    /\ here = [dir |-> Root, depth |-> 0] /\ rest = <<>>
    /\ visited = 0
    /\ hit = IF ListedBelow(Root, 0) THEN "protected" ELSE "walking"

Place(d, depth) == [dir |-> d, depth |-> depth]

(* The next directory of the stack: listed, unless it is as deep as the command goes.
   One that cannot be listed is passed over, as one with nothing in it. *)
Pop ==
    /\ hit = "walking" /\ rest = <<>> /\ stack # <<>>
    /\ LET top == stack[Len(stack)] IN
          /\ stack' = SubSeq(stack, 1, Len(stack) - 1)
          /\ \/ TooDeep(top.depth) /\ UNCHANGED <<holds, here, rest>>
             \/ /\ ~TooDeep(top.depth)
                /\ here' = top
                /\ \E es \in IF top.dir \in DOMAIN holds THEN {holds[top.dir]} ELSE Listings :
                      /\ rest' = es
                      /\ holds' = [d \in DOMAIN holds \cup {top.dir} |->
                                      IF d = top.dir THEN es ELSE holds[d]]
    /\ UNCHANGED <<maxDepth, near, seen, visited, hit>>

(* Mutant of New: a directory is walked each time a link leads to it. *)
NewAlways(e) == TRUE

New(e) == e \notin seen

(* Mutant of Judge: the way out is not looked for. *)
JudgeInside(e) == IF e = "protected" THEN "protected" ELSE "walking"

(* Mutant of Judge: any link is a way out. *)
JudgeLinks(e) == IF e = "protected" THEN "protected"
                 ELSE IF e = "file" THEN "walking" ELSE "escape"

(* is_protected, in_sandbox *)
Judge(e) == CASE e = "protected" -> "protected"
              [] e = "outside"   -> "escape"
              [] OTHER           -> "walking"

(* One entry of the directory being listed. *)
Look ==
    /\ hit = "walking" /\ rest # <<>>
    /\ visited' = visited + 1
    /\ rest' = Tail(rest)
    /\ LET e == Head(rest) IN
          \/ /\ visited + 1 > TreeWalkLimit
             /\ hit' = "limit" /\ UNCHANGED <<stack, seen>>
          \/ /\ visited + 1 <= TreeWalkLimit
             /\ ~(e \in Dirs /\ New(e))
             /\ hit' = Judge(e) /\ UNCHANGED <<stack, seen>>
          \/ /\ visited + 1 <= TreeWalkLimit
             /\ e \in Dirs /\ New(e)
             /\ seen' = seen \cup {e}
             /\ IF ListedBelow(e, here.depth + 1)
                   THEN hit' = "protected" /\ UNCHANGED stack
                   ELSE hit' = Judge(e) /\ stack' = Append(stack, Place(e, here.depth + 1))
    /\ UNCHANGED <<maxDepth, near, holds, here>>

Finish ==
    /\ hit = "walking" /\ rest = <<>> /\ stack = <<>>
    /\ hit' = "nothing"
    /\ UNCHANGED <<maxDepth, near, holds, stack, seen, here, rest, visited>>

Next == Pop \/ Look \/ Finish

Spec == Init /\ [][Next]_vars

-----------------------------------------------------------------------------
(* What the walk is to find, defined without it. *)

Known(d) == IF d \in DOMAIN holds THEN Entries(d) ELSE {}

(* A way of n steps from the root to d, link by link. *)
Way(p, n, d) == p[0] = Root /\ p[n] = d /\ \A i \in 1..n : p[i] \in Known(p[i - 1])

(* Directories at most n steps from the root. *)
Within(n) == {d \in Dirs : \E m \in 0..n : \E p \in [0..m -> Dirs] : Way(p, m, d)}

(* Directories below which the command would go k levels deep. *)
Below(k) == IF maxDepth = NoLimit THEN Within(Cardinality(Dirs))
            ELSE IF k <= maxDepth THEN Within(maxDepth - k) ELSE {}

(* Directories whose entries the command gets to see. *)
Walked == Below(1)

-----------------------------------------------------------------------------
(* Properties. *)

(* A walk that finds nothing has been everywhere: what it saw is closed, holds the root,
   nothing bad and nothing listed ("Walk the trees it would descend, symlinks followed,
   before letting it run", policy.py 318-319). *)
Closed(S) ==
    /\ Root \in S
    /\ \A d \in S : /\ d \in DOMAIN holds
                    /\ Entries(d) \cap Bad = {} /\ Entries(d) \cap Dirs \subseteq S
                    /\ near[d] = NoLimit

NothingIsNothing == hit = "nothing" /\ maxDepth = NoLimit => Closed(seen)

(* "First protected path or sandbox escape reachable from root, following symlinks,
   within max_depth" (policy.py 396-397): when nothing is found, every directory the
   command gets to see was listed.  The code does not keep this with a depth: a
   directory seen first by a long way is not seen again by a short one. *)
NothingWithinDepth ==
    hit = "nothing" => \A d \in Walked : d \in DOMAIN holds /\ Entries(d) \cap Bad = {}

(* No false alarms but one: what refuses a command is there, where the command would
   come; or it is on the list of what is protected, there or not, and lies below a
   directory the command would come to, no deeper than it would go (policy.py 398-400,
   428-430, config.py 234-241). *)
HitIsReal ==
    /\ hit = "protected" => \/ \E d \in Walked : "protected" \in Known(d)
                            \/ \E d \in Dirs : near[d] # NoLimit /\ d \in Below(near[d])
    /\ hit = "escape" => \E d \in Walked : "outside" \in Known(d)

(* The entries of all directories listed, by directory and place in it. *)
Listed == {p \in (DOMAIN holds) \X (1..MaxEntries) : p[2] \in DOMAIN holds[p[1]]}

(* "Fail-closed on huge trees" (policy.py 397), and on these only: a loop of links does
   not make a tree huge, nor do two links to one directory, but by themselves. *)
LimitIsReal ==
    /\ hit = "limit" => Cardinality(Listed) > TreeWalkLimit
    /\ visited <= TreeWalkLimit + 1
=============================================================================
