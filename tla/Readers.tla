--------------------------------- MODULE Readers -------------------------------
(***************************************************************************)
(* What PolicyEngine.evaluate does with the text of a request before it    *)
(* judges it: it looks through all of it for secrets (Egress), and then    *)
(* the tool's handler has a reader take its line, its argv or its URL      *)
(* apart (ShellSyntax, Argv, Network).  Policy has only the verdicts.      *)
(***************************************************************************)
EXTENDS Egress

CONSTANTS Command,              \* the string of a request that a reader takes apart
          Lines,                \* command lines
          Argvs, FindArgvs,     \* words of a command with a grammar, and of find
          Words,                \* words of a program without one
          Urls, Entries,        \* URLs, and entries of network.allow
          Labels, Numbers, Addresses, Ports, PlainPorts, DefaultPort

VARIABLE text                   \* what a reader was given, and what it says of it

Shell == INSTANCE ShellSyntax
Args == INSTANCE Argv
Net == INSTANCE Network

(* The words of some argvs. *)
WordsOf(argvs) == UNION {Elems(args) : args \in argvs}

(* Texts are sequences.  No word of find's has the form that its role alone gives it, and
   what a browser takes for a number is neither a name, which starts with a letter, nor an
   address in canonical form. *)
ASSUME ReadersAssumption ==
    /\ Lines \subseteq Seq(Shell!Chars)
    /\ Argvs \subseteq Seq(WordsOf(Argvs))
    /\ \A w \in WordsOf(Argvs) : w.form = "short" => w.letters \in Seq(STRING)
    /\ FindArgvs \subseteq Seq(WordsOf(FindArgvs))
    /\ \A w \in WordsOf(FindArgvs) :
          /\ w.form # "argument"
          /\ w.form = "predicate" =>
                w.takes \in {"nothing", "value", "path", "depth", "date", "refused"}
    /\ Words \subseteq Seq(STRING)
    /\ Urls \subseteq Seq(STRING) /\ \A entry \in Entries : entry.path \in Seq(STRING)
    /\ Numbers \cap (Labels \cup Addresses) = {}

Grammars == {Args!CatGrammar, Args!HeadGrammar, Args!LsGrammar, Args!GrepGrammar}

ReadersInit == Init /\ text = [reader |-> "none"]

Scan == Next /\ UNCHANGED text

(* The handler has its turn. *)
Clean == stage = "clean" /\ params.root = Command /\ text.reader = "none"

(* A line that the host gives to a shell: via_shell. *)
ReadLine(line) ==
    /\ text' = [reader |-> "line", line |-> line, passes |-> ~Shell!Problem(line)]
    /\ UNCHANGED vars

ReadArgv(grammar, args) ==
    /\ text' = [reader |-> "argv", grammar |-> grammar, args |-> args,
                passes |-> ~Args!Gnu(grammar, args).errors]
    /\ UNCHANGED vars

ReadFind(args) ==
    /\ text' = [reader |-> "find", predicates |-> args, passes |-> ~Args!Find(args).errors]
    /\ UNCHANGED vars

ReadWord(word) ==
    /\ text' = [reader |-> "word", word |-> word, passes |-> TRUE]
    /\ UNCHANGED vars

ReadUrl(entry, url) ==
    /\ text' = [reader |-> "url", entry |-> entry, url |-> url, passes |-> Net!Covers(entry, url)]
    /\ UNCHANGED vars

Read ==
    /\ Clean
    /\ \/ \E line \in Lines : ReadLine(line)
       \/ \E grammar \in Grammars, args \in Argvs : ReadArgv(grammar, args)
       \/ \E args \in FindArgvs : ReadFind(args)
       \/ \E word \in Words : ReadWord(word)
       \/ \E entry \in Entries, url \in Urls : ReadUrl(entry, url)

ReadersNext == Scan \/ Read

ReadersSpec == ReadersInit /\ [][ReadersNext]_<<vars, text>> /\ WF_<<vars, text>>(Scan)

-----------------------------------------------------------------------------
(* Properties. *)

Passed(reader) == text.reader = reader /\ text.passes

(* "the argv the policy checks is the argv that runs" (shell_syntax.py 12-14): bash and zsh
   split a line that passes into the words shlex gives, and do nothing else with it. *)
LineIsWords == Passed("line") => Shell!SameWords(text.line)

(* "Anything the grammar does not know is refused, so a new flag cannot smuggle a file past
   the path checks" (argv.py 3-7): every file the command may open, and every tree it
   may walk, is among those that are checked, however its options are written; but for the
   trees of an abbreviated grep -d rec, which the firewall takes for a value that walks
   nothing (argv.py 176). *)
ArgvIsRead ==
    /\ Passed("argv") =>
          LET parsed == Args!Gnu(text.grammar, text.args) IN
          /\ Args!GnuOpens(text.grammar, text.args) \subseteq parsed.paths
          /\ \/ Args!Abbreviated(text.grammar, text.args)
             \/ Args!GnuWalks(text.grammar, text.args) \subseteq parsed.walks
    /\ Passed("find") =>
          LET parsed == Args!Find(text.predicates)
              find   == Args!FindOpens(text.predicates) IN
          find.walks \cup find.files \subseteq parsed.paths /\ find.walks \subseteq parsed.walks
    /\ Passed("word") =>
          LET parsed == Args!Fallback(<<text.word>>) IN
          Args!MayOpen(text.word) => <<Args!File>> \in parsed.names \cup parsed.paths

(* "Anything they could read differently is refused instead of guessed" (network.py 19-21):
   whoever fetches a URL that an entry covers goes to the entry's host and port, and
   whatever serves it, to what lies below the entry's path. *)
UrlIsKept == Passed("url") => Net!Kept(text.entry, text.url)
=============================================================================
