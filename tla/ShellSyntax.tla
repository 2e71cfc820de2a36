------------------------------ MODULE ShellSyntax ------------------------------
(***************************************************************************)
(* shell_syntax.py: is a command line one simple command with nothing for  *)
(* a shell to expand?  An agent host hands the line to a shell, the        *)
(* firewall judges the words shlex.split finds in it: Problem is the       *)
(* scan, Shlex and Shell are the two readings it has to keep the same.     *)
(*                                                                         *)
(* A line is a sequence of characters, one of each class that a reader     *)
(* tells from the rest: a letter, a blank, the backslash, both quotes, =,  *)
(* one of $ ` ! (alive inside double quotes too), one of the other active  *)
(* characters, a line break and a control character.                       *)
(***************************************************************************)
EXTENDS Naturals, Sequences

Letter == "a"
Blank == " "
Backslash == "\\"
Single == "'"
Double == "\""
Dollar == "$"
Semicolon == ";"
Equals == "="
LineBreak == "\n"
Bell == "^G"
Chars == {Letter, Blank, Backslash, Single, Double, Dollar, Semicolon, Equals, LineBreak, Bell}

Active == {Dollar, Semicolon}
Outside == "outside"            \* of any quotes

-----------------------------------------------------------------------------
(* problem *)

(* Mutant of Alive: an escaped $ is taken for a $ in double quotes as well. *)
AliveUnescaped(s, c) ==
    \/ s.quote = Outside /\ (c \in Active \/ (c = Equals /\ s.start))
    \/ s.quote = Double /\ c = Dollar /\ s.last # Backslash

(* What the shell does more about than split words. *)
Alive(s, c) ==
    \/ s.quote = Outside /\ (c \in Active \/ (c = Equals /\ s.start))
    \/ s.quote = Double /\ c = Dollar

(* The character behind a backslash that both readers take literally. *)
Literal(s, c) == s.escaped /\ (s.quote = Outside \/ c \in {Double, Backslash})

Quoting(s, c) ==
    CASE s.quote = Outside /\ c \in {Single, Double} -> c
      [] s.quote = c -> Outside
      [] OTHER -> s.quote

Look(s, c) ==
    IF Literal(s, c) THEN [s EXCEPT !.escaped = FALSE, !.start = FALSE, !.last = Letter]
    ELSE [quote |-> Quoting(s, c), last |-> c,
          start |-> s.quote = Outside /\ c = Blank,
          escaped |-> c = Backslash /\ s.quote # Single,
          bad |-> s.bad \/ Alive(s, c)]

Fresh == [quote |-> Outside, last |-> Blank, start |-> TRUE, escaped |-> FALSE, bad |-> FALSE]

(* What is known behind each character. *)
Looks(line) ==
    LET look[i \in 0..Len(line)] == IF i = 0 THEN Fresh ELSE Look(look[i - 1], line[i])
    IN look

Problem(line) ==
    LET end == Looks(line)[Len(line)]
    IN \/ \A i \in DOMAIN line : line[i] \in {Blank, LineBreak}
       \/ \E i \in DOMAIN line : line[i] \in {LineBreak, Bell}
       \/ end.bad \/ end.escaped \/ end.quote # Outside

-----------------------------------------------------------------------------
(* The two readings. *)

Put(r, cs) == [r EXCEPT !.word = @ \o cs, !.open = TRUE, !.escaped = FALSE]
EndWord(r) == IF r.open THEN [r EXCEPT !.words = Append(@, r.word), !.word = <<>>, !.open = FALSE]
              ELSE r
Start == [words |-> <<>>, word |-> <<>>, open |-> FALSE, quote |-> Outside,
          escaped |-> FALSE, more |-> FALSE]

(* Quotes, blanks and all that is plain: there shlex and the shell agree. *)
Plain(r, c) ==
    CASE r.quote = c -> [r EXCEPT !.quote = Outside]
      [] r.quote = Outside /\ c = Blank -> EndWord(r)
      [] r.quote = Outside /\ c \in {Single, Double} -> [r EXCEPT !.quote = c, !.open = TRUE]
      [] r.quote # Single /\ c = Backslash -> [r EXCEPT !.escaped = TRUE]
      [] OTHER -> Put(r, <<c>>)

(* shlex.split: in double quotes a backslash escapes those and itself, and stays elsewhere. *)
ShlexStep(r, c) ==
    IF r.escaped
    THEN Put(r, IF r.quote = Double /\ c \notin {Double, Backslash} THEN <<Backslash, c>> ELSE <<c>>)
    ELSE IF r.quote = Outside /\ c = LineBreak THEN EndWord(r)
    ELSE Plain(r, c)

ShlexSteps(line) ==
    LET read[i \in 0..Len(line)] == IF i = 0 THEN Start ELSE ShlexStep(read[i - 1], line[i])
    IN read

Shlex(line) ==
    LET end == ShlexSteps(line)[Len(line)]
    IN [words |-> EndWord(end).words, more |-> end.escaped \/ end.quote # Outside]

(* bash and zsh: there it escapes $ ` ! and a line break too. *)
ShellStep(r, c) ==
    IF r.escaped
    THEN CASE c = LineBreak -> [r EXCEPT !.escaped = FALSE]
           [] r.quote = Double /\ c \notin {Double, Backslash, Dollar} -> Put(r, <<Backslash, c>>)
           [] OTHER -> Put(r, <<c>>)
    ELSE LET plain == Plain(r, c)
         IN [plain EXCEPT !.more =
                @ \/ (r.quote = Outside /\ c \in Active \cup {LineBreak})
                  \/ (r.quote = Outside /\ c = Equals /\ ~r.open)
                  \/ (r.quote = Double /\ c = Dollar)
                  \/ c = Bell]

ShellSteps(line) ==
    LET read[i \in 0..Len(line)] == IF i = 0 THEN Start ELSE ShellStep(read[i - 1], line[i])
    IN read

Shell(line) ==
    LET end == ShellSteps(line)[Len(line)]
    IN [words |-> EndWord(end).words, more |-> end.more \/ end.escaped \/ end.quote # Outside]

(* "the argv the policy checks is the argv that runs" (shell_syntax.py 12-14).  A first word
   VAR=value, which a shell takes for an assignment, is left to the policy: no grant names it. *)
SameWords(line) == Shell(line) = Shlex(line) /\ ~Shell(line).more
=============================================================================
