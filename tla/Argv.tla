---------------------------------- MODULE Argv ---------------------------------
(***************************************************************************)
(* argv.py: which files a command may open, and which trees it walks, by   *)
(* the words after the binary.  Gnu, Find and Fallback are the firewall's  *)
(* three readers of an argv; what the command makes of it is below them,   *)
(* word by word, as GNU getopt_long and find read it.                      *)
(*                                                                         *)
(* A word is a record: a plain word, "-", "--", a long option with or      *)
(* without =value, one or more short options run together, -NUMBER, or a   *)
(* predicate of find.  A file is named by a whole word or by the part of   *)
(* one that starts at some letter.                                         *)
(***************************************************************************)
EXTENDS Naturals, Sequences, FiniteSetsExt, Functions

Whole(w) == [word |-> w, from |-> 0]
Part(w, i) == [word |-> w, from |-> i]
Here == [word |-> [form |-> "here"], from |-> 0]
Stdin == [form |-> "stdin"]

Number(w) == w.form = "number" \/ (w.form = "word" /\ w.value = "number")

(* The value of an option is v: in a word of its own, behind =, or behind the letters of a
   cluster, where it is one item. *)
Says(file, v) ==
    IF file.word.form = "short"
    THEN SubSeq(file.word.letters, file.from + 1, Len(file.word.letters)) = <<v>>
    ELSE file.word.form \in {"word", "long"} /\ file.word.value = v

(* DIRECTORIES: the firewall knows grep -d recurse. *)
Recurses(file) == Says(file, "recurse")

-----------------------------------------------------------------------------
(* _parse_gnu.  A grammar g has its options in classes: flags, walk (the   *)
(* flags that recurse) and the kinds of the values that others take, by    *)
(* letter or name.                                                         *)

(* GRAMMARS, one option of every class that a grammar has. *)
None == [option \in {} |-> "value"]
CatGrammar ==
    [flags |-> {"n"}, walk |-> {}, values |-> None,
     longFlags |-> {"number"}, longWalk |-> {}, longOptional |-> {}, longValues |-> None,
     numeric |-> FALSE, patternFirst |-> FALSE, defaultRoot |-> FALSE]
HeadGrammar ==
    [flags |-> {"n"}, walk |-> {}, values |-> [m |-> "value"],
     longFlags |-> {"quiet"}, longWalk |-> {}, longOptional |-> {}, longValues |-> [lines |-> "value"],
     numeric |-> TRUE, patternFirst |-> FALSE, defaultRoot |-> FALSE]
LsGrammar ==
    [flags |-> {"n", "r", "R"}, walk |-> {"R"}, values |-> [m |-> "value"],
     longFlags |-> {"all", "recursive"}, longWalk |-> {"recursive"}, longOptional |-> {"color"},
     longValues |-> [hide |-> "value"],
     numeric |-> FALSE, patternFirst |-> FALSE, defaultRoot |-> TRUE]
GrepGrammar ==
    [flags |-> {"n", "r", "R"}, walk |-> {"r", "R"},
     values |-> [e |-> "pattern", f |-> "pattern-file", m |-> "value", d |-> "directories"],
     longFlags |-> {"count", "recursive"}, longWalk |-> {"recursive"}, longOptional |-> {"color"},
     longValues |-> [regexp |-> "pattern", file |-> "pattern-file", lines |-> "value",
                     excludefrom |-> "path", directories |-> "directories"],
     numeric |-> TRUE, patternFirst |-> TRUE, defaultRoot |-> TRUE]

No == "no"                      \* value is expected
Nothing == [paths |-> {}, operands |-> <<>>, recursive |-> FALSE, pattern |-> FALSE,
            errors |-> FALSE, pending |-> No, ended |-> FALSE]

(* take_value *)
Value(kind, file, r) ==
    CASE kind = "path" -> [r EXCEPT !.paths = @ \cup {file}]
      [] kind = "pattern" -> [r EXCEPT !.pattern = TRUE]
      [] kind = "pattern-file" -> [r EXCEPT !.paths = @ \cup {file}, !.pattern = TRUE]
      [] kind = "directories" -> [r EXCEPT !.recursive = @ \/ Recurses(file)]
      [] OTHER -> r

Failed(r) == [r EXCEPT !.errors = TRUE]
Walks(yes, r) == [r EXCEPT !.recursive = @ \/ yes]

(* The first letter of a cluster that is not a flag, or the end of it. *)
Stop(g, w) == Min({i \in DOMAIN w.letters : w.letters[i] \notin g.flags}
                      \cup {Len(w.letters) + 1})

(* Mutant of Attached: what follows the letter is not looked for in the same word. *)
AttachedNever(g, w) == FALSE

(* The value of the option at Stop is in the same word. *)
Attached(g, w) == Stop(g, w) < Len(w.letters)

(* An option whose value is the next word waits for it. *)
LongOption(g, r, w) ==
    IF w.name \in g.longFlags /\ ~w.eq THEN Walks(w.name \in g.longWalk, r)
    ELSE IF w.name \in g.longOptional THEN r
    ELSE IF w.name \notin DOMAIN g.longValues THEN Failed(r)
    ELSE IF w.eq THEN Value(g.longValues[w.name], Whole(w), r)
    ELSE [r EXCEPT !.pending = g.longValues[w.name]]

Cluster(g, r, w) ==
    LET stop == Stop(g, w)
        flags == Walks(\E j \in 1..(stop - 1) : w.letters[j] \in g.walk, r)
    IN IF stop > Len(w.letters) THEN flags
       ELSE IF w.letters[stop] \notin DOMAIN g.values THEN Failed(flags)
       ELSE IF Attached(g, w) THEN Value(g.values[w.letters[stop]], Part(w, stop), flags)
       ELSE [flags EXCEPT !.pending = g.values[w.letters[stop]]]

GnuStep(g, r, w) ==
    IF r.pending # No THEN [Value(r.pending, Whole(w), r) EXCEPT !.pending = No]
    ELSE IF r.ended \/ w.form \in {"word", "stdin"} THEN [r EXCEPT !.operands = Append(@, w)]
    ELSE IF w.form = "end" THEN [r EXCEPT !.ended = TRUE]
    ELSE IF w.form = "long" THEN LongOption(g, r, w)
    ELSE IF w.form = "short" THEN Cluster(g, r, w)
    ELSE IF w.form = "number" /\ g.numeric THEN r
    ELSE Failed(r)

GnuSteps(g, args) ==
    LET read[i \in 0..Len(args)] == IF i = 0 THEN Nothing ELSE GnuStep(g, read[i - 1], args[i])
    IN read

Gnu(g, args) ==
    LET all == GnuSteps(g, args)[Len(args)]
        operands == IF g.patternFirst /\ ~all.pattern /\ all.operands # <<>>
                    THEN Tail(all.operands) ELSE all.operands
        files == {Whole(w) : w \in Range(operands) \ {Stdin}}
    IN [paths |-> all.paths \cup files, errors |-> all.errors \/ all.pending # No,
        walks |-> IF ~all.recursive THEN {}
                  ELSE IF files # {} THEN files ELSE IF g.defaultRoot THEN {Here} ELSE {}]

-----------------------------------------------------------------------------
(* _parse_find.  A predicate takes no argument, a value, a depth, a file,  *)
(* or a date; or find does not have it, or it is not one to be allowed.    *)

Found == [phase |-> "options", starts |-> {}, paths |-> {}, pending |-> No, errors |-> FALSE]

FindStep(r, w) ==
    IF r.phase = "stopped" \/ (r.phase = "options" /\ w.form = "pre") THEN r
    ELSE IF r.phase \in {"options", "starts"} /\ w.form = "word"
    THEN [r EXCEPT !.phase = "starts", !.starts = @ \cup {Whole(w)}]
    ELSE IF r.pending # No
    THEN [r EXCEPT !.pending = No,
                   !.errors = @ \/ (r.pending = "depth" /\ ~Number(w)),
                   !.paths = IF r.pending = "path" THEN @ \cup {Whole(w)} ELSE @]
    ELSE IF w.form = "predicate" /\ w.takes # "refused"
    THEN [r EXCEPT !.phase = "predicates", !.pending = IF w.takes = "nothing" THEN No ELSE w.takes]
    ELSE [r EXCEPT !.phase = "stopped", !.errors = TRUE]

FindSteps(args) ==
    LET read[i \in 0..Len(args)] == IF i = 0 THEN Found ELSE FindStep(read[i - 1], args[i])
    IN read

Find(args) ==
    LET all == FindSteps(args)[Len(args)]
        starts == IF all.starts = {} THEN {Here} ELSE all.starts
    IN [paths |-> all.paths \cup starts, walks |-> starts,
        errors |-> all.errors \/ all.pending # No]

-----------------------------------------------------------------------------
(* _parse_fallback: a program whose syntax is not known.  Its words are    *)
(* sequences of the characters that make a difference, and File for a name.*)

File == "file"

After(c, t) == IF \E i \in DOMAIN t : t[i] = c
               THEN SubSeq(t, Min({i \in DOMAIN t : t[i] = c}) + 1, Len(t)) ELSE <<>>
Leads(c, t) == t # <<>> /\ t[1] = c
Dashes(t) == IF ~Leads("-", t) THEN 0 ELSE IF Leads("-", Tail(t)) THEN 2 ELSE 1

(* Each with curl's @ as part of the name, and without. *)
Bare(S) == S \cup {Tail(t) : t \in {u \in S : Leads("@", u)}}

Spellings(t) ==
    Bare({t, After("=", t), After("@", t)}
           \cup (IF Dashes(t) = 1 THEN {SubSeq(t, 3, Len(t))} ELSE {})) \ {<<>>}

AsFiles(t) ==
    {t} \cup {Tail(u) : u \in {v \in {t, After("=", t)} : Leads("@", v) /\ Len(v) > 1}}

Fallback(args) ==
    LET ended == Min({i \in DOMAIN args : args[i] = <<"-", "-">>} \cup {Len(args) + 1})
        IsOption(i) == i < ended /\ Leads("-", args[i]) /\ args[i] # <<"-">>
        options  == {args[i] : i \in {j \in DOMAIN args : IsOption(j)}}
        operands == {args[i] : i \in {j \in DOMAIN args : ~IsOption(j) /\ j # ended}} \ {<<"-">>}
        values == {After("=", t) : t \in {u \in options : Dashes(u) = 2 /\ \E i \in DOMAIN u : u[i] = "="}}
                    \cup {SubSeq(t, 3, Len(t)) : t \in {u \in options : Dashes(u) = 1 /\ Len(u) > 2}}
        recursive == \E t \in options :
            \/ Dashes(t) = 1 /\ "r" \in Range(t)
            \/ Dashes(t) = 2 /\ Len(t) > 2 /\ t[3] = "recursive"
    IN [names |-> UNION {Spellings(args[i]) : i \in DOMAIN args},
        paths |-> UNION {AsFiles(t) : t \in values \cup operands},
        errors |-> FALSE,
        walks |-> IF ~recursive THEN {} ELSE IF operands # {} THEN operands ELSE {<<".">>}]

-----------------------------------------------------------------------------
(* The commands: what each word of an argv is to getopt_long, which takes  *)
(* options anywhere before "--", and to find.                              *)

TakesValue(g, w) ==
    \/ w.form = "long" /\ w.name \in DOMAIN g.longValues
    \/ w.form = "short" /\ Range(w.letters) \cap DOMAIN g.values # {}

(* The letter of a cluster that takes a value: all that follows is the value. *)
Taker(g, w) == Min({i \in DOMAIN w.letters : w.letters[i] \in DOMAIN g.values})
Hungry(g, w) ==
    TakesValue(g, w) /\ IF w.form = "long" THEN ~w.eq ELSE Taker(g, w) = Len(w.letters)
Kind(g, w) == IF w.form = "long" THEN g.longValues[w.name] ELSE g.values[w.letters[Taker(g, w)]]

(* By what the word before it is; all behind "--" is operands. *)
Role(g, args, i, before) ==
    IF before = "option" /\ Hungry(g, args[i - 1]) THEN "value"
    ELSE IF before \in {"end", "rest"} THEN "rest"
    ELSE IF args[i].form = "end" THEN "end"
    ELSE IF args[i].form \in {"word", "stdin"} THEN "operand"
    ELSE "option"

Roles(g, args) ==
    LET role[i \in 0..Len(args)] == IF i = 0 THEN "command" ELSE Role(g, args, i, role[i - 1])
    IN role

(* [kind, file] of every option that has a value. *)
Values(g, args) ==
    LET role == Roles(g, args)
    IN {[kind |-> Kind(g, args[i]),
         file |-> IF Hungry(g, args[i]) THEN Whole(args[i + 1])
                  ELSE IF args[i].form = "long" THEN Whole(args[i])
                  ELSE Part(args[i], Taker(g, args[i]))] :
            i \in {j \in DOMAIN args : role[j] = "option" /\ TakesValue(g, args[j])
                                         /\ (Hungry(g, args[j]) => j < Len(args))}}

GnuOperands(g, args) ==
    LET role == Roles(g, args)
        all == {i \in DOMAIN args : role[i] \in {"operand", "rest"}}
        pattern == g.patternFirst /\ ~\E v \in Values(g, args) : v.kind \in {"pattern", "pattern-file"}
    IN {Whole(args[i]) : i \in {j \in all : ~(pattern /\ j = Min(all)) /\ args[j] # Stdin}}

GnuOpens(g, args) ==
    GnuOperands(g, args)
      \cup {v.file : v \in {u \in Values(g, args) : u.kind \in {"path", "pattern-file"}}}

(* grep takes what begins the word recurse, and not the word read, for it: rec is any of
   rec, recu, recur and recurs. *)
Abbreviates(file) == Says(file, "rec")
Abbreviated(g, args) == \E v \in Values(g, args) : v.kind = "directories" /\ Abbreviates(v.file)

GnuRecursive(g, args) ==
    \/ \E v \in Values(g, args) :
          v.kind = "directories" /\ (Says(v.file, "recurse") \/ Abbreviates(v.file))
    \/ \E i \in DOMAIN args : Roles(g, args)[i] = "option" /\
          \/ args[i].form = "long" /\ args[i].name \in g.longWalk
          \/ args[i].form = "short" /\ \E j \in DOMAIN args[i].letters :
                /\ args[i].letters[j] \in g.walk
                /\ TakesValue(g, args[i]) => j < Taker(g, args[i])

GnuWalks(g, args) ==
    IF ~GnuRecursive(g, args) THEN {}
    ELSE IF GnuOperands(g, args) # {} THEN GnuOperands(g, args)
    ELSE IF g.defaultRoot THEN {Here} ELSE {}

(* A word of find's is a predicate's argument, or it is not. *)
FindRole(args, i, before) ==
    IF before = "predicate" /\ args[i - 1].takes # "nothing"
    THEN "argument" ELSE args[i].form

FindRoles(args) ==
    LET role[i \in 0..Len(args)] == IF i = 0 THEN "command" ELSE FindRole(args, i, role[i - 1])
    IN role

FindOpens(args) ==
    LET role == FindRoles(args)
    IN [walks |-> IF \E i \in DOMAIN args : role[i] = "word"
                  THEN {Whole(args[i]) : i \in {j \in DOMAIN args : role[j] = "word"}} ELSE {Here},
        files |-> {Whole(args[i]) : i \in {j \in DOMAIN args :
                      role[j] = "argument" /\ args[j - 1].takes = "path"}}]

(* What may come before a file's name in a word for a program to read the file: nothing, a
   short option, or what ends in the first = of it; each with curl's @; or a name and an
   @ (argv.py 12-16). *)
Names(pre) ==
    \/ pre = <<>> \/ (Len(pre) = 2 /\ Dashes(pre) = 1)
    \/ pre # <<>> /\ After("=", pre) = <<>> /\ pre[Len(pre)] = "="
MayOpen(t) ==
    LET pre == SubSeq(t, 1, Len(t) - 1)
        bare == SubSeq(pre, 1, Len(pre) - 1)
    IN /\ t # <<>> /\ t[Len(t)] = File
       /\ \/ Names(pre)
          \/ /\ pre # <<>> /\ pre[Len(pre)] = "@"
             /\ Names(bare) \/ "@" \notin Range(bare)

=============================================================================
