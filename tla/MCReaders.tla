------------------------------- MODULE MCReaders -------------------------------
(* Readers for TLC: every text up to a few characters, words or items. *)
EXTENDS Readers, TLC
LOCAL INSTANCE SequencesExt

CONSTANTS key, pin, outer, inner, none

MCBytes == [s \in Secrets |-> IF s = pin THEN 4 ELSE 9]

T(secret, form, before, quoted) ==
    [secret |-> secret, form |-> form, before |-> before, after |-> 1, quoted |-> quoted,
     number |-> FALSE]
Open1 == T(key, "reversed", 0, 0)
Hidden == T(key, "plain", 0, 1)
MCTexts == {T(key, f, 0, q) : f \in Forms, q \in 0..3}
             \cup {T(key, "base64", b, 0) : b \in 0..5}
             \cup {T(pin, "plain", 0, 0), [T(pin, "plain", 0, 0) EXCEPT !.number = TRUE]}

Pair(a, b) == [c \in Containers |-> IF c = outer THEN a ELSE b]
Graphs == {Pair(<<outer>>, <<>>), Pair(<<inner, Hidden>>, <<>>), Pair(<<inner>>, <<outer>>),
           Pair(<<inner, inner, Open1>>, <<Hidden, Open1>>), Pair(<<inner, none>>, <<inner>>),
           Pair(<<Open1, Open1, Open1>>, <<>>), Pair(<<inner, inner>>, <<none, Open1>>)}
MCRequests == [root : MCTexts \cup {none}, holds : {Pair(<<>>, <<>>)}]
                \cup [root : {outer}, holds : Graphs]

-----------------------------------------------------------------------------
UpTo(S, n) == UNION {[1..i -> S] : i \in 1..n}

MCLines == UpTo(Shell!Chars, 4)
             \cup UpTo({Shell!Letter, Shell!Backslash, Shell!Double, Shell!Dollar, Shell!Blank}, 6)

Word(v) == [form |-> "word", value |-> v]
Short(letters) == [form |-> "short", letters |-> letters]
Long(n) == [form |-> "long", name |-> n, eq |-> FALSE, value |-> ""]
LongEq(n, v) == [form |-> "long", name |-> n, eq |-> TRUE, value |-> v]
Takes(t) == [form |-> "predicate", takes |-> t]

OptionWords ==
    {Word("a"), Word("recurse"), Word("rec"), [form |-> "stdin"], [form |-> "end"], [form |-> "number"]}
      \cup {Short(s) : s \in {<<"n">>, <<"r">>, <<"n", "R">>, <<"f">>, <<"f", "r">>, <<"r", "m">>,
                              <<"n", "e">>, <<"d">>, <<"d", "recurse">>, <<"d", "rec">>, <<"x">>}}
      \cup {Long(n) : n \in {"recursive", "color", "file", "unknown"}}
      \cup {LongEq("color", "a"), LongEq("file", "a"), LongEq("excludefrom", "a"),
            LongEq("directories", "recurse"), LongEq("directories", "rec"), LongEq("count", "a")}
MCArgvs == SeqOf(OptionWords, 3)

FindWords ==
    {[form |-> "pre"], Word("a"), Word("number"), [form |-> "stdin"], Short(<<"x">>)}
      \cup {Takes(t) : t \in {"nothing", "value", "path", "depth", "date", "refused"}}
MCFindArgvs == SeqOf(FindWords, 4)

MCWords == UpTo({"-", "=", "@", "r", "x", Args!File}, 5)

MCPorts == ("443" :> 443) @@ ("0443" :> 443) @@ ("8443" :> 8443) @@ ("0" :> 0)
Docs == <<"docs">>
MCEntries ==
    [host : {Docs}, wildcard : BOOLEAN, port : {443}, path : {<<>>, <<"/", "p">>}]
      \cup {[host |-> Docs, wildcard |-> FALSE, port |-> 8443, path |-> <<"/", "p", "/">>],
            [host |-> <<"address">>, wildcard |-> FALSE, port |-> 443, path |-> <<>>]}
Dots == {".", "%2e", "%2f", "%5c", ";", "/"}
MCUrls ==
    UpTo({"docs", "evil", "7", "address", ".", "@", "\\", ":", "443", "0443", "/", "%2e"}, 3)
      \cup {<<"p", ".">> \o u : u \in UpTo({"docs", "7", ".", ":", "8443", "/"}, 3)}
      \cup {Docs \o <<"/", "p">> \o u : u \in UpTo(Dots \cup {"p"}, 4)}
      \cup {Docs \o <<":", "8443", "/", "p", "/">> \o u : u \in UpTo(Dots, 3)}
=============================================================================
