-------------------------------- MODULE Network --------------------------------
(***************************************************************************)
(* network.py: does an entry of network.allow cover a URL?  The firewall   *)
(* reads the URL with urlsplit, a browser and a server read it again:      *)
(* Covers is the firewall's answer, Browser and Served the other readings. *)
(*                                                                         *)
(* A URL is what follows scheme://, a sequence of labels of names, numbers *)
(* and the characters that some reader does not take for themselves.       *)
(***************************************************************************)
EXTENDS Naturals, Sequences, FiniteSetsExt, SequencesExt

CONSTANTS Labels,               \* of DNS names, which start with a letter
          Numbers,              \* labels that a browser reads as an IPv4 number
          Addresses,            \* IP addresses in canonical form
          Ports,                \* every way to write a port, and its number
          PlainPorts,           \* the one way of each that is canonical
          DefaultPort

(* The character that an encoded one stands for. *)
Encoded == {"%2e", "%2f", "%5c"}
Decoded(c) == CASE c = "%2e" -> "." [] c = "%2f" -> "/" [] c = "%5c" -> "\\" [] OTHER -> c
Unquote(s) == [i \in DOMAIN s |-> Decoded(s[i])]
Has(S, s) == \E i \in DOMAIN s : s[i] \in S

(* All before the first of the characters, and all from there on. *)
First(S, s) == Min({i \in DOMAIN s : s[i] \in S} \cup {Len(s) + 1})
Before(S, s) == SubSeq(s, 1, First(S, s) - 1)
From(S, s) == SubSeq(s, First(S, s), Len(s))

(* What stands between two of them, or an end, with none in it. *)
IsPart(S, s, a, b) ==
    /\ a <= b + 1 /\ \A i \in a..b : s[i] \notin S
    /\ a = 1 \/ s[a - 1] \in S
    /\ b = Len(s) \/ s[b + 1] \in S
Parts(S, s) ==
    {SubSeq(s, p[1], p[2]) :
        p \in {q \in (1..(Len(s) + 1)) \X (0..Len(s)) : IsPart(S, s, q[1], q[2])}}
AfterUser(s) == SubSeq(s, Max({i \in DOMAIN s : s[i] = "@"} \cup {0}) + 1, Len(s))

-----------------------------------------------------------------------------
(* _split, parse_target: the strict reading. *)

(* urlsplit: the authority ends at a slash or a query, user info at the last @ of it. *)
Netloc(url) == Before({"/", "?"}, url)
Path(url) == Before({"?"}, From({"/", "?"}, url))
HostIn(netloc) == Before({":"}, AfterUser(netloc))
PortIn(netloc) == From({":"}, AfterUser(netloc))

(* No port is the default, and so is nothing behind the colon; 0 for what is no port. *)
PortNumber(port) ==
    CASE Len(port) <= 1 -> DefaultPort
      [] Len(port) = 2 /\ port[2] \in DOMAIN Ports -> Ports[port[2]]
      [] OTHER -> 0

(* The authority is its host and port again: no user info, a port written in the one way. *)
Canonical(netloc) ==
    /\ ~Has({"@"}, netloc)
    /\ PortIn(netloc) = <<>> \/ (Len(PortIn(netloc)) = 2 /\ PortIn(netloc)[2] \in PlainPorts)

IsAddress(host) == Len(host) = 1 /\ host[1] \in Addresses
IsName(host) ==
    /\ \A label \in Parts({"."}, host) : Len(label) = 1 /\ label[1] \in Labels \cup Numbers
    /\ host[Len(host)] \in Labels

Strict(url) ==
    /\ ~Has({"\\"}, url) /\ ~Has(Encoded, Netloc(url))
    /\ Canonical(Netloc(url)) /\ PortNumber(PortIn(Netloc(url))) # 0
    /\ HostIn(Netloc(url)) # <<>>
    /\ IsAddress(HostIn(Netloc(url))) \/ IsName(HostIn(Netloc(url)))

-----------------------------------------------------------------------------
(* AllowEntry.covers *)

Below(host, domain) ==
    Len(host) > Len(domain) + 1
    /\ SubSeq(host, Len(host) - Len(domain), Len(host)) = <<".">> \o domain

(* Mutant of DotSegments: what is percent-encoded is taken as it stands. *)
DotSegmentsPlain(path) == \E s \in Parts({"/"}, path) : Before({";"}, s) \in {<<".">>, <<".", ".">>}

DotSegments(path) == \E s \in Parts({"/"}, path) :
    Has({"/", "\\"}, Unquote(s)) \/ Before({";"}, Unquote(s)) \in {<<".">>, <<".", ".">>}

UnderPrefix(prefix, path) ==
    \/ prefix = <<>>
    \/ /\ ~DotSegments(path)
       /\ path = prefix \/ IsPrefix(IF prefix[Len(prefix)] = "/" THEN prefix
                                    ELSE Append(prefix, "/"), path)

(* An entry's host, whether it is a wildcard, its port, and its path unless it is "/". *)
Covers(entry, url) ==
    LET host == HostIn(Netloc(url)) IN
    /\ Strict(url)
    /\ PortNumber(PortIn(Netloc(url))) = entry.port
    /\ IF entry.wildcard /\ ~IsAddress(host) THEN Below(host, entry.host) ELSE host = entry.host
    /\ UnderPrefix(entry.path, Path(url))

-----------------------------------------------------------------------------
(* The other readers. *)

(* A browser ends the authority at a backslash too, decodes the host, and takes a host whose
   last label is a number for an IPv4 address. *)
Browser(url) ==
    LET netloc == Before({"/", "\\", "?"}, url)
        host   == Unquote(HostIn(netloc))
    IN [host |-> IF host # <<>> /\ host[Len(host)] \in Numbers THEN <<"IPv4">> ELSE host,
        port |-> PortNumber(PortIn(netloc))]

(* A server takes a path apart, before it is decoded or after, with or without parameters
   of a segment and with a backslash as a slash or not, and resolves the dots. *)
Servers == [decodes : BOOLEAN, parameters : BOOLEAN, backslash : BOOLEAN]
Slashes(server) == IF server.backslash THEN {"/", "\\"} ELSE {"/"}
Name(server, part) == IF server.parameters THEN Before({";"}, part) ELSE part
Enter(dirs, name) ==
    CASE name \in {<<>>, <<".">>} -> dirs
      [] name = <<".", ".">> -> IF dirs = <<>> THEN dirs ELSE Front(dirs)
      [] OTHER -> Append(dirs, name)

(* Where it is behind each slash, and the next segment starts.  The path's end is one more. *)
Text(server, path) == Append(IF server.decodes THEN Unquote(path) ELSE path, "/")
ServeStep(server, text, i, r) ==
    IF text[i] \notin Slashes(server) THEN r
    ELSE [dirs |-> Enter(r.dirs, Name(server, SubSeq(text, r.from, i - 1))), from |-> i + 1]
Serving(server, text) ==
    LET read[i \in 0..Len(text)] == IF i = 0 THEN [dirs |-> <<>>, from |-> 1]
                                    ELSE ServeStep(server, text, i, read[i - 1])
    IN read
Served(server, path) ==
    LET text == Text(server, path) IN Serving(server, text)[Len(text)].dirs

(* "two URL parsers read the same string. Anything they could read differently is refused"
   (network.py 19-21): whoever fetches a URL that an entry covers goes to the entry's
   host and port, and whatever serves it, to what lies below the entry's path. *)
Kept(entry, url) ==
    /\ Browser(url) = [host |-> HostIn(Netloc(url)), port |-> entry.port]
    /\ Browser(url).host = entry.host \/ (entry.wildcard /\ Below(Browser(url).host, entry.host))
    /\ \A server \in Servers :
          IsPrefix(Served(server, entry.path), Served(server, Path(url)))
=============================================================================
