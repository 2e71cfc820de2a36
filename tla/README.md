# A verification project for the agent firewall

The firewall (`src/agent_firewall/`) stands between an agent and what it wants to do.
Whatever the agent asks for, a file, a command, a network request, an API call, a tool of
an MCP server, is judged by a policy, recorded in an audit log, and only then done, asked
of a human, or refused. The modules here are written from that code. TLC
checks them on small instances; TLAPS proves their safety properties for every value
of their constants.

Paths such as `gateway.py:116` are relative to `src/agent_firewall/`.

1. [The system](#the-system): its parts, their state, how they interact, what is hard
2. [The modules](#the-modules): which models what, and how it corresponds to the code
3. [The runs](#the-runs): what each checks, its bounds, and what it shows
4. [Fairness](#fairness)
5. [What is proved](#what-is-proved)
6. [Where the code and its documents differ](#where-the-code-and-its-documents-differ)
7. [What is not modelled](#what-is-not-modelled)
8. [Plan](#plan)

## The system

### Parts

| part | source | state it keeps | operations that change state |
|---|---|---|---|
| Gateway | `gateway.py`, `approval.py`, `executor.py` | `_broken`, the open audit store, the session | `handle_with_result` (judge, approve, run), `decide` (judge for a host that runs), `refuse` |
| Audit log | `audit.py` | the file, its lock, the file object's buffer | `log`, `close` |
| Policy engine | `policy.py` | `SessionState.tainted` only | `evaluate` |
| Tree walk | `policy.py` `_tree_hit` | stack, `seen`, a counter | one walk per recursive command |
| Session taint | `session.py` | `tainted` in memory; `TaintStore`, a file of session ids | `taint`, `mark` |
| Hook | `hook.py` | nothing but the files: a process per call | PreToolUse, PostToolUse, the deadline |
| MCP proxy | `mcp_proxy.py` | `_pending` and its lock, one-slot boxes, `closed`, `Learner.error`, two threads | `run`, `dispatch`, `request`, `send`, `_read` |
| Credentials | `credentials.py`, `mock_apis.py` | `_grants`, `_tokens`; `MockApi.calls` | `delegate`, `revoke`, `exchange`; `call` |
| Learning | `learn.py` | the trace file; the policy file, which the operator replaces | `TraceWriter`; `propose` with `replay`, `drop_unused` and the check of the proposal |
| Secret egress | `egress.py` | the stack and the ids of one walk | `find` |
| Argument grammars | `argv.py` | none | `parse`: three readers of an argv |
| Network allowlist | `network.py` | none | `parse_target`, `parse_entry`, `AllowEntry.covers` |
| Shell syntax | `shell_syntax.py` | none | `problem` |
| Configuration | `config.py` | immutable after `load` | none |

Outside are the agent and its host, the human, the MCP server and its client, the
kernel (page cache, `flock`, signals) and the disk. They are modelled from how the code
uses them, and may do whatever the code has no means to exclude.

### How they interact

- **In process.** The MCP proxy's main thread calls `Gateway.handle_with_result`, which
  calls the policy, the approver, the audit log, an observer (the proxy's `Learner`)
  and the executor, in that order. The executor's `api.call` goes through the broker to a resource server.
- **Between threads.** The proxy's main thread and its reader thread share `_pending`, its
  lock, a one-slot queue per request, and the flag `closed`.
- **Between processes.** Each hook call is a process. A session lives on only in three
  append-only files, all written with `AuditLogger.log`: the audit log, the taint store
  and the learning trace. They are shared by every hook and every proxy on the machine.
- **Through the operator.** What the hooks and the proxy record, `learn.py` turns into a
  proposal; adopted, it is the policy by which they judge and record the next request.
- **Callbacks.** `decide` takes `relax` from the learner: it may turn a refusal into a question,
  never into an allow.

### What is hard here, and what would be correct

| hard | correct |
|---|---|
| a kill, a power loss or a failed write anywhere between the decision and its outcome record | no effect without a durable intent; nothing refused ever ran; every answer is on the disk or its loss is said on stderr, and no intent is left open unnamed; a gateway that failed to write stays shut |
| what a failed flush left in the buffer is written later, by another call | what reaches the disk late is still true |
| several processes append to one file, and one may be killed with the lock held | logged lines are there, whole, once; who waits for the lock gets it, though its holder be killed or interrupted |
| a hook may be killed, cancelled by its host or out of time between any two of record, observation, taint and answer; hooks of one session overlap | a taint a call ended with binds the next; what passes is on record first; the trace shows nothing a human did not say |
| late, doubled and missing answers of an MCP server, its exit, and the timeout, around a registration in a shared table | each caller gets one reply, and no answer but one that came under the id of its own request |
| a policy is a list of checks in order, and each may taint before the next looks | whatever passes met every check; a taint closes every way out |
| learning judges a refused request again with one more grant | what a human is asked about is clean |
| a proposal is made of many records, of several sessions, in an order that is not that of the requests, some lost, some without parameters, judged by a policy that changed since | no grant comes of a no, or of what a session did after a taint; the proposal allows nothing that the firewall does not bound; proposing again adds nothing |
| a request is read twice: by the firewall, and by the shell, the program, the browser or the server that gets it | what passes is the same words, opens the same files and goes to the same place in both readings |
| a secret leaves in another spelling, anywhere in nested, shared or looping parameters | it is found in each spelling and at each offset, and no string is left out; the walk ends |
| links make the tree a command descends any graph | nothing found means nothing is there; what refuses is there, or listed below; a loop is not a huge tree |
| tokens outlive the consent they were minted under, and are bearer values | what a server does lies within a consent, a lifetime and a rule; revocation holds |

`PROJECT.json` lists each hazard at its line, with the properties that cover it.

## The modules

Every module keeps the control of the code (each branch, early return, failure and the
order of the writes) and abstracts the data to what the checks tell apart: a request, a
record, a token or a path is a model value or a small record.

### `AuditTrail`: what the audit promises

The abstract specification. Three variables: the actions with a durable promise, the
actions that had their effect, and the durable outcomes. `Perform` does a promised action
once, before its outcome is known; `Commit` makes promises and outcomes durable, and only
true ones: "executed" only of what was done, "not executed" only of what was not, one
outcome for an action.

### `Gateway`: the gateways of all processes

One `pc` per process. `Handle`, `Decide` and `Refuse` are the three entry points up to the
first record; `Approve`, `Observe` and `Dispatch` are the calls out; `Flush` and `Fsync`
are the two halves of `AuditLogger.log`, each of which may fail. A record is in the
process's buffer, in the page cache or on the disk: `Flush` moves it from the first to
the second with everything that was left there, `Fsync` and `Writeback` to the third.
`Start`, `Exit` (which flushes the buffer without syncing), `Kill` and `PowerLoss` are the
lives of processes and machine. `Unrecorded` is `_record`'s `except`: the gateway is broken
from then on, a line goes to stderr (with the action id if the record has one: an intent, and what settles an intent;
else "unknown"), a strict record turns into a refusal and an outcome is returned all the same. `Trail == INSTANCE AuditTrail WITH ...` is the
refinement: promises are the intents and delegations on the disk.

What the policy answers is an input, any decision: `Policy` says which.

### `Policy` and `PolicyTable`: the engine

`evaluate` is a sequence of checks of which the first that applies decides (`First`), one
operator per handler (`FileChecks`, `ShellChecks`, ...), with what each check does to the
session's taint. A request is a record of what the parsers and the configuration say of it:
where a path lies (`inside`, `protected`, `outside`, `writable`), which grant a command line has,
which role the grammar gives a word (`path`: it is opened; `cluster`: a file is opened whose name is
behind two short options or more, as in `-nf.env`, and is no spelling of the word; `name`: it may be opened, for all the
fallback knows; `other`). `ShellChecks` are 15; the first path of an argv that is not inside the sandbox decides (`FirstOpened`),
so a later one may go unseen. `Lifted` is `learn.ask_instead_of_block`: the request judged
again with one grant more, on a session of its own.

`PolicyTable` is the same engine as a session sees it: eight kinds of request, what
becomes of each in a tainted and an untainted session, and whether it taints. That the
engine decides by that table is a checked property (`TableIsRight`), and `HookSession` is
built on the table. So the two are composed, and the product of their states
is not needed.

### `TreeWalk`: `_tree_hit`

The loop entry by entry: `Pop` takes a directory from the stack and lists it, unless it is as deep
as the command goes; `Look` judges one entry and pushes a directory that is not in `seen`;
`Finish`. A directory is refused as well when a listed protected path lies below it within the command's depth (`ListedBelow`,
which is `protected_under`), and for that the path need not exist: how deep the nearest one lies is `near`, and the root is asked
in `Init`, every other directory in `Look`. What a directory holds is chosen when it is listed, which lets TLC try every
tree, links, loops and two entries for one directory included, without enumerating them beforehand. `Walked` defines
what the command would see without a walk: `Way` is a way from the root, link by link.

### `AuditLog`: the file

Several processes and one file, a line in two writes. `Acquire` is `flock`, `Write` one
write of the flush, `Fail` a full disk or the alarm in the middle of it (the rest stays in
the buffer, or is lost), `Release` the `finally`, `Interrupt` the alarm or ^C outside the `try` (in `flock`, just behind it, or
in the `finally`): `log` raises, the lock may be kept, and the process ends. `Close` is a flush without the lock, and the end of a lock that was kept, `Crash`
a kill, after which the kernel drops the lock. `Gateway` and `HookSession` take an append to be
one step; this module is why they may, and what that leaves out.

### `HookSession`: hook processes and what they share

For each tool call of the host a PreToolUse process and, when the call ran, a PostToolUse
process. `Open`, `ReadTaint`, `ReadTrace`, `Decide` (once per request of the call),
`Observe`, `Remember` and `Answer` are the steps of `evaluate`, `_evaluate_event` and
`emit` between which another process may run; `Deadline` (SIGALRM) may come at any of
them, and so may `Cancel`, the host that gives up. `PostRecord` and `PostDeadline` are the
other process. Every open and write may fail, by its own rule: a decision that cannot be
audited is a block, one that cannot be observed denies, a taint that cannot be written
denies, a store that cannot be read taints, a trace that cannot be read asks nothing. A write that
fails may leave its line in the file all the same (a failed `fsync`), or half of it (`TraceFails`, `Remember`), and so
may a killed process. Half a line in the taint store taints every session from then on, and
in the trace ends ask mode (`torn`), as `tainted` and `session_tainted` do with a line they cannot read.

`after` and `unread` are history variables: the calls that were over when this one began,
and those that could not read the store. A process that ends forgets what no property asks for
any more (`Ends`), which keeps the number of states down.

### `McpProxy`: two threads and a server

The main thread (`Dispatch`, `Relay`, `Gate`, `Human`, `Register`, `Send`, `Take` or `Timeout`, `Pop`) and
the reader (`ReadLine`, `Put`, `Eof`, `Lock`, `Notify`), with the lock held where the code
holds it over more than one step: while the reader tells the boxes of the server's exit.
The server is free: it answers any request any number of times, in any order or never, makes up answers under any id
(`ServerInvents`), speaks on its own, says things that are no objects, reads its stdin no more (`deaf`: what is written to it blocks),
and exits. The client may give a message any id, the proxy's own included; the proxy looks at an id only when it relays the message
(`Names`). An answer is known by its id and, for the properties, by the message whose request the server answers.
What `dispatch` does not catch ends `run`, and with it the server (`Dies`): params that are no object or a method that is
no string (`raising`), and a result of `tools/list` that `handle_list` cannot take apart (`Unreadable`).

### `Broker`: delegated credentials

`Delegate`, `Revoke`, `Exchange` (`_api_call` up to the token), `Use` (the rest of it),
`Present` (whoever holds the bearer, at any server, for any operation) and `Tick`. Tokens
carry two history fields, when and under which consent they were minted.

### `Learn`: from traces to a policy

One module for the whole circle. `Decide` is a hook, or the proxy, judging a request by
`Policy` (an `INSTANCE`: the engine here is the engine there); `Observe` writes its
observation, in any order, and only then is the session's taint kept; `Answer` is the human, and
the `ran` record that PostToolUse writes, or that is lost. Every observation is in one of the trace `Files`, and
the operator gives all of them, in any order (`Readings`). `StartReading`, `ReadNext` (one observation: replay,
taint, evidence, grants used, added and listed) and `Propose` (`drop_unused`, then the check of every observation
under the new policy) are `propose`; `Adopt` is the operator. A policy is the set of its grants, so that "looser" and
"narrower" can be said of any two; an exact command is a program and its words, which the
directory it runs from may put in the sandbox or out of it. An observation without parameters (a secret in it, or an
audit log that could not be written) is `NoAct`: it cannot be replayed.

### `Readers`: one request, read twice

`Egress`, `ShellSyntax`, `Argv` and `Network` model the code that reads text, and beside it, marked
external, what reads the same text afterwards. `Readers` puts them in the order of
`PolicyEngine.evaluate`: the walk of `Egress` first, then the handler's reader.

- **`Egress`.** `find` is a walk of its own: `TakeString`, `Open` (a container not seen yet) and `Skip`
  take an item off the stack, and `Finish` ends it. A string is told by what it holds
  (a value in which spelling, how many bytes before and after it, how often percent-encoded), and
  `Finds` by what `spellings` keeps of the base64, at each of the three offsets.
- **`ShellSyntax`.** `Problem` is the scan, character by character, over sequences of character
  classes; `Shlex` is what the policy splits and `Shell` what bash or zsh make of the same line.
  Each is a function from how far it has come to what it knows (`Looks`, `ShlexSteps`, `ShellSteps`).
- **`Argv`.** `Gnu`, `Find` and `Fallback` are the three readers; `GnuOpens`,
  `GnuWalks` and `FindOpens` are the same words as `getopt_long` and `find` read them, with
  clustered options, options that take a value or may, `--`, and numbers. The firewall's loops are
  functions again (`GnuSteps`, `FindSteps`): an option whose value is the next word leaves it `pending`.
  What the commands make of an argv is said by the roles of its words and by no state. The value of `-d` is read twice
  as well: by the firewall as the one word `recurse`, by grep as any beginning of it that is not ambiguous (`Abbreviates`).
- **`Network`.** `Covers` is the strict reading and the entry; `Browser` and `Served` are what
  a browser takes the host for and what a server takes the path for, encoded dots and slashes and backslashes included.
  A part of a text between two separators (`IsPart`) is said of the text, not computed by a loop; a server
  goes from slash to slash (`Serving`) and enters each segment as it comes to its end.

### Others

`MC*` modules give a module its instances for TLC. Modules named `*Proofs` hold the
theorems. Definitions with a comment "Mutant of ..." are plausible errors in the code;
replacing the named definition by one of them must make TLC find the stated
property violated. They take no part in the specifications.

## The runs

| run | checks | bounds |
|---|---|---|
| `gateway` | `IntentBeforeEffect`, `RefusedNeverRuns`, `RunsAllowedOrApproved`, `AnsweredIsOnRecord`, `PoisonedStaysPoisoned`, `ImplementsTrail` | 2 processes, 2 requests |
| `broker` | `CallsWereConsented`, `CallsWithinPolicy`, `RevocationHolds` | 1 user, 2 servers with the same scope names, 2 executors, 2 tokens, lifetime 2, clock 0..2 |
| `mcp_proxy` | `AnswersMatch`, `OnlyAllowedReachServer`, `NoLostWakeup`, `AnsweredOrJammed` | 2 messages of the client, 2 lines of the server |
| `mcp_proxy_jam` | violates `AlwaysAnswered` | 2 messages, 2 lines |
| `audit_log` | `LoggedIsWritten`, `LinesWhole`, `WrittenOnce`, `LogReturns` | 2 writers, 2 records each |
| `hook` | `TaintIsKept`, `RelaxStops`, `AnswerRecorded`, `AskMeansYes` | 2 calls, up to 2 requests each, 1 session, 1 trouble, learning off and ask |
| `hook_taint_lost` | violates `TaintSticks` | 2 calls of 1 request, learning off |
| `tree` | `NothingIsNothing`, `HitIsReal`, `LimitIsReal` | 3 directories of up to 3 entries, a listed path at most 2 levels below any of them or none, limit 5, no depth and `-maxdepth` 1 and 2 |
| `tree_depth` | violates `NothingWithinDepth` | 5 directories of up to 2 entries, `-maxdepth 3` |
| `policy` | `OnlyCleanPasses`, `TaintedGetsNoWayOut`, `LiftIsClean`, `TableIsRight` | up to 2 words of an argv, 2 strings in MCP arguments |
| `learn` | `NoIsNeverYes`, `TaintTeachesNothing`, `ProposalBounded`, `CheckIsSilent`, `NarrowingKeepsUse`, `ProposalSettles` | 12 requests to choose from, 2 trace files, one policy to start from, a session of the hook and the proxy's, `MaxRequests` 2, `MaxSteps` 4, `MaxOpen` 2 |
| `readers` | `SecretStopped`, `LineIsWords`, `ArgvIsRead`, `UrlIsKept`, `ScanEnds` | lines of up to 4 characters (6 of five classes), argvs of up to 3 words out of 28, `find` of up to 4, words of up to 5 characters, 2 secrets, 2 containers |

The type invariants are proved (`TypeCorrect` of each proof module, `CredsTypeCorrect` for `Broker`). A comment
before each property says what it states and which sentence of the code or its documents it takes at
its word.

What the bounds are worth:

- **gateway.** A process goes on to its second request with what the first left in its
  buffer, another process writes meanwhile, and any of them, or the machine, dies between.
  A third process adds only another writer of the cache, which `Writeback` already
  stands for. The theorems hold for any number.
- **broker.** Two tokens are what it takes for one to outlive a revocation while another is
  minted. Two servers that share scope names are what it takes to notice a missing test of the audience.
  The clock passes a token's expiry exactly, at 2. `delete` is an operation of a server
  that no rule allows, and `send` is one a rule allows and no server has.
- **mcp_proxy.** Two lines are an answer said twice, or a late one and one that is made up. Two messages are a request
  that timed out and the next, waiting, or one that is relayed under the id of the other's request. The proxy reuses no id; the theorems
  hold for any number of both.
- **audit_log.** Two records per writer are one that failed and the one that flushes what it left; an interrupt ends a writer.
- **hook.** The properties relate two calls. One trouble is one failure, deadline or
  cancellation anywhere; two can hide each other, and `TaintIsKept` and `RelaxStops` are
  proved for any number. A call of two requests has one in the middle that asks, is
  blocked, or taints the second. Only patches have more than one request
  (`translate`, `patch_paths`), so these are all writes. Mode `enforce` is `ask` without
  `ReadTrace`, and is left to the proofs, as are several sessions.
- **policy.** Two words tell apart the first bad string from a later one, in any order, and a word that
  is opened from one that is only spelled. A decision depends on the session only by
  `tainted`, so every sequence of requests is explored.
- **tree.** Three directories make loops, links to the root and two ways to one place; the
  limit of 5 lies between the trees that pass and those that do not. A listed path that is two levels down lies within the one
  depth and beyond the other. A directory
  whose depth matters needs a way of 3 and one of 2, hence the five directories of `tree_depth`.

- **learn.** Two requests are a taint or a refusal and what comes after it or beside it, in one trace file or two; files are
  alike (`SYMMETRY`); two open ones are two hooks whose
  observations are written in either order. The other two of the four steps are a failure and an adoption, or two
  adoptions, so that the operator proposes three times and records on in between. The requests have one of each thing a grant
  can name or cannot, and of those that can taint a session one is the proxy's, which a grant of today decides about.
  Longer traces are left to the proofs.
  The policy to start from asks about one program, has one tool registered and allows one command of `cat` by its words,
  of the two in `Args`: the allowlist entry that evidence adds makes it redundant. What proposals make of the policy is reached by adopting them.
- **readers.** A construct of a shell needs at most an opening, an escape, a character and
  a closing; the five classes that interact (letter, blank, backslash, `"` and `$`) go to six. Three words are an option, its
  value and an operand, or `--` between two; `find` needs one more, for a predicate and its value after a
  path. The limit on characters lies inside the requests that reach it. All four invariants are proved for texts
  of every length, and the base64 arithmetic for every offset.

Deadlock is checked in `gateway`, `broker` and `policy`. The others may
stop: a walk ends, the calls of a host are all over, every writer is gone, the client
closed its end, a request has been read, a proposal failed its check or the steps are used up.

## Fairness

`Gateway`, `Broker`, `HookSession`, `Policy`, `Learn` and `TreeWalk` are checked for safety only, without fairness.

`Readers!ReadersSpec`: the walk over the parameters goes on (weak fairness of `Scan`), as a loop of
one process does. `ScanEnds` says that it then ends, loops among the containers or not.

`AuditLog!FairSpec`: a process that holds the lock goes on and one that is ending ends (weak fairness), and `flock`
wakes each waiting process in its turn (strong fairness, since the lock is free only now and
then); Linux queues waiters of a `flock` in order. Nobody is obliged to log, and anybody may crash.
`LogReturns` depends on the `finally` that unlocks and on the kernel that unlocks after a kill, and on the interpreter that
closes what an interrupted process still holds.

`McpProxy!FairSpec`: the main thread (`MainStep`) and the reader (`ReaderStep`) each take a step they can take for
ever. That is what the scheduler gives a runnable thread; for `Take` or `Timeout` it is
`CALL_TIMEOUT_SEC`. What the code does not bound is left out of it. `Human` is no part of `MainStep`: the proxy's approver asks at
the terminal and has no timeout. `Relay` and `Send` have no step while the server is `deaf`. And a main thread that died has none. The
liveness properties name these three (`Held`). What is assumed beyond the scheduler is that the client reads what it is sent. The
server owes nothing: it may stay silent, and keep its output open, for ever.

## What is proved

The theorems are in `GatewayProofs` (with those of `Broker`), `McpProxyProofs`, `AuditLogProofs`,
`HookSessionProofs`, `TreeWalkProofs`, `ReadersProofs`, `PolicyProofs` and `LearnProofs`. They hold for
every value of the constants under the named assumptions of each module, which only say
what kind of values the constants are (`NoneAssumption`, `BrokerAssumption`, `McpAssumption`,
`LogAssumption`, `HookAssumption`, `TreeAssumption`, `EgressAssumption`, `ReadersAssumption`, `PolicyAssumption`, `LearnAssumption`):
`None` is no process, the client sends finitely many messages, a tree has finitely many directories, strings,
containers and skipped values are apart, no policy to start from has a binary on both lists, texts are sequences, and what a
browser takes for a number is neither a name that starts with a letter nor an address in canonical form. Each inductive
invariant was checked by TLC before it was proved.

### `GatewayProofs`: any number of processes, requests, kills and failed writes

`NoInvisibleEffect`, `RefusalsHold`, `PolicyIsKept`, `NothingUnaccounted`,
`PoisonIsForGood`, and `GatewayImplementsTrail`, the refinement. The properties speak of
the disk, and none of them is inductive: a record that is false is harmless as
long as it is not on the disk, but may get there at any time, by a write-back, by the next flush of the
process or at its exit. `RecordInv` therefore says of every record, wherever it is on its way, that it is true
and that its request is past the point where it could become false. `CallInv` says the same of
the record that a process is about to write. That a refused call's intent may reach the disk late is
the reason why an intent promises nothing about an effect, and why `SettledOnce` covers outcomes only.
`NothingUnaccounted` needs one invariant more (`IntentInv`): an intent that is known anywhere of a call in progress is on the disk
or being synced; and of a call that was answered, it is settled on the disk, or stderr names its action. A refusal or a
delegation has no intent, so of these only the loss itself is said there.
The refinement then follows step by step: `Flush` and everything in memory is a stutter, `Dispatch`
and `HostRuns` perform, `Fsync` and `Writeback` commit.

The second part of the module is about the tokens that an executor's `api.call` mints
(`Broker`, whose definitions have names of their own so that both can be extended), for any users,
servers, policies and lifetimes: `ConsentIsKept`, `PolicyBoundsTokens`, `RevocationStops`. The invariant (`TokenInv`) says of each
token what the exchange checked: one rule's scope, that rule's server, inside the consent it
was minted under. `introspect` does not look at that consent, and need not, because
tokens never change. What it does look at, the grant of today, is what `RevocationStops` rests on.

### `McpProxyProofs`: any messages, any number of lines of the server

`AnswersToTheirOwn` (`AnswersMatch`), `NobodyIsForgotten` (`NoLostWakeup`) and
`OnlyAllowedIsSent` (`OnlyAllowedReachServer`), whatever ids the client gives and whatever the server makes up. What the server
has is under the id the proxy or the client gave it (`Owned`), and an answer, in a line, in the reader's hand or in
a box, is to a request that came to the server under the answer's id, or is made up (`Asked`). Only the last id of the proxy's has a
box that anybody waits for (`Waiting`), and no id is given twice (`Used`), so that a late answer
finds the box of its own request or none. So a caller gets nothing but what came under the id of its own request; that it
answers that request cannot be said when the server made it up, or the client called another message by that id
(`IsAnswerTo`). That a caller is never forgotten needs the order of
`_read`'s end: `closed` is set before the boxes are told, so who registers later is refused by `send`, and who was
told has something in the box.

### `AuditLogProofs`: any number of writers and records

`NothingTwice` (`WrittenOnce`), `WhatIsLoggedIsThere` (`LoggedIsWritten`) and
`LinesStayWhole` (`LinesWhole`). Who holds the lock has its line whole in its buffer, or begun, with its head the last
thing in the file but for what closing processes wrote, or whole in the file (`Shape`). Only who is past `flock` holds the lock, and
of those that are not at work, only one that was interrupted. A chunk
is in one place only (`Distinct`), which is inductive because a new line is always of a new record (`Known`).

### `TreeWalkProofs`: any tree, any links, any limit

`NothingMissed` (`NothingIsNothing`), `OnlyHugeTreesRefused` (`LimitIsReal`) and `NoFalseAlarm` (`HitIsReal`). A directory that was seen is on the stack, or
all of its entries were looked at but for those still to come (`Covered`): when stack and rest are
empty, what was seen is closed under links and holds nothing bad. A directory is pushed once (`Once`), so the
counter counts pairs of a directory and an entry (`Counted`), of which a small tree has too few.
A refusal is of something the command would come upon, or of a listed path below a directory it would come to, no deeper
than it would go (`Below`), there or not, because every directory on the stack, and the one at hand, was led to
by a way of as many links as its depth says, through directories seen and with none twice (`Led`, `WayInv`). That
it has none twice bounds its length by the number of directories, which is how far `Walked` looks without a `-maxdepth`.

### `ReadersProofs`: any secrets and graphs; any lines, argvs and URLs

**The walk** (`SecretStopped`, as `NoSecretPasses` of `Egress` alone and `SecretsStayHere` with the readers).
`CarriedIsFound` is arithmetic: whatever number of bytes is before a value, and whatever its
length, the part of its base64 that does not depend on them is the one `spellings` has for the offset
modulo three. The invariant of the walk (`WalkInv`) adds that nothing is left out: all that a visited
container holds is still to visit, visited, or passed without a find.

**The readers** (`ShellReadsAlike`, `ProgramsReadAlike`, `ServersReadAlike`) need induction on the length of a
text. The induction theorems of the library have an operator for a parameter, which no prover here instantiates; but
that every set of numbers has a least follows from `WFMin` and `NatLessThanWellFounded`, which have none, and
from that `Induction` over a set, `Reading` (a function given step by step exists and is
what its recursive definition names), `UpTo` and `DownTo`. The invariant of the state (`ReaderInv`) is only that each
reader says what it makes of one of the texts, so all rests on three relations between two readings that
every further character or word keeps:

- `InStep`. Behind each character of a line, the scan, shlex and the shell are in the same quotes, with a
  backslash pending in all or in none. What alarms the scan stays (`BadStays`), so a line that passes had no
  character at which they part (`SameStep`, `SameReading`).
- `ReadAlike`. Behind each word of an argv, what the grammar has gathered (paths, operands in their order, whether
  it recurses, whether a pattern was given, whether a value is expected and of which kind) is
  what the roles that getopt_long gives the words so far come to; an option that takes a value
  counts when its value was read (`HasValue`). `AlikeStep` is one word, `OptionStep` the hard case of it: the grammar stops at the first
  letter that is no flag, getopt_long at the first that takes a value, and these are one (`TakerIs`) unless the letter is unknown
  and the argv refused. `FilesRead` drops the pattern from both sides: the first operand is the same.
  This needs that no option of a grammar is in two classes (`GrammarsOK`), which holds of the four. Of the trees that are walked it is
  proved but for an argv that abbreviates `-d recurse` (`Abbreviated`), where it is false.
- `FoundAlike`, the same for find.
- For a word of a program without a grammar there is no loop: what may stand before the name (`Names`) leaves exactly
  one of the spellings that are looked up (`LeftoverIs`, `WordIsRead`).
- For a URL, the host is read alike (`SameHost`) because nothing in it is left for a browser to decode and its last label
  is no number. Of the path, a server of any kind finds the slashes where they are (`SlashIs`), so the segments it makes are
  those of `_dot_segments`, and none goes up (`EntersDown`): from any place in the path on it goes only down (`Grows`).
  Up to the end of the prefix it reads what it reads of the prefix itself (`SameStart`), since the prefix ends at a slash (`PathKept`).

### `HookSessionProofs`: any calls, sessions, modes and troubles

`TypeCorrect`, `TaintBinds` (`TaintIsKept`), `AskingStops` (`RelaxStops`), `PassedIsRecorded`
(`AnswerRecorded`) and `RanMeansYes` (`AskMeansYes`). The first invariant
has a part about one call (`Local`) and one about two (`Pair`). A call that is over does nothing any more
(`Settled`), so only what the files tell of it matters: the store tells of its taint if it came to a
verdict (`Kept`), or the trace does (`Noted`). A later call reads both before its first
decision, and until then has let nothing pass (`Quiet`); from then on it carries the taint
in memory (`Bound`, `Known`) or is not relaxed (`Strict`). Each of these has its exception for a call that could not read the store. `FrameKeeps` does once what all actions share: a step of
call `x` preserves every part that is not about `x`.

The second invariant (`RInv`) follows one call through the loop over its requests: those decided so far are in
the logs, not blocked, and allowed as long as nothing asks (`Recorded`), and what asks is in `asks`, then in the
verdict, then in the answer (`Answered`). Others only append, and records of their own (`Appends`).

### `PolicyProofs`: any number of words and strings

`CompleteMediation` (`OnlyCleanPasses`), `TaintHolds` (`TaintedGetsNoWayOut`), `LearningLiftsClean` (`LiftIsClean`)
and `EngineKeepsTheTable` (`TableIsRight`). A handler is a list of checks and the first that applies decides
(`OneFirst`, `FirstHit`, by the least of a set of numbers). Each handler has one lemma that says which one that is
(`FileVerdict`, `ShellVerdict`, `McpVerdict`, ...), and `Verdict` puts them together; that nothing gets past a check that should have
seen it, that a grant more changes one rule and no other (`Granted`, `Wanting`), and that the engine decides by the table of
`HookSession` (`Tabled`) are all read off there. The invariant of a session is that one that went for something protected, where the
policy could see it, is tainted: `SeenTaints` says that the engine taints then, whatever else decides. What it can see is `Sees`: a word
that names something protected anywhere in a command line that is looked at, whichever check decides; but a file
behind a cluster of options only when it is the one the command is refused for (`Opened`, `FirstOpened`).

### `LearnProofs`: any requests, policies, sessions and numbers of steps

`NoStaysNo` (`NoIsNeverYes`), `TaintTeaches` (`TaintTeachesNothing`), `ProposalIsBounded` (`ProposalBounded`),
`CheckStaysSilent` (`CheckIsSilent`), `NarrowingIsSafe` (`NarrowingKeepsUse`) and `AdoptedIsSettled` (`ProposalSettles`), for any
number of trace files and any order they are given in.
`PolicyProofs` is instantiated (`Law`), so what the engine makes of a request of each tool, by the grants there are, is one lemma
that follows from `Verdict` (`OfWrites`, `OfCommands`, `OfFetches`, `OfCalls`). On these rest three that are only
about grants: what a request is short of (`Missing`) and what evidence adds are the same (`Adding`); what a request has in use
(`InUse`) is what `used` counts (`Using`); and a policy that has more grants decides more strictly about nothing (`Looser`), nor
does one that lacks only what a request does not use (`Kept`).

The invariant says four things. `TraceInv` and `NoInv`: the trace holds each request once, as it was recorded, and after those
that were over before it; nothing that somebody said no to ran. `ReadInv`: what `propose` has gathered so far is exactly what the
observations read so far give, under the policy they are read by. It has to be exact: `NoStaysNo` needs that nothing else got
in, `NarrowingIsSafe` and `AdoptedIsSettled` that nothing was left out. `ProposalInv` says what the proposal is made of. `BasisInv` carries the
last proof over the time between adopting and proposing again: as long as the trace is what it was, the policy
lacks nothing that counts and has nothing unused. That it holds when a proposal is adopted (`Settling`) is the hard
step: the same observations are then judged by another policy, and neither what they use, nor what they are short
of, nor what spoils a session may turn out differently. `CheckStaysSilent` needs that evidence never gives a binary to both lists
(`Ranks`, `ProposalChecks`), for any trace.

An earlier form of `ProposalSettles`, that proposing again leaves the policy as it is, is false, and the
proof is what showed it: an exact command of a program that has a grammar (an operator may write one) is
in use until evidence puts the program on the allowlist; the next `--drop-unused` then takes it away. Nothing is lost by
that, and the property now says so. TLC had not seen it, because exact commands were told apart by
their program only; they are told apart by their words now, as in `learn.py:330-352`.

### Only model-checked

Liveness (`AnsweredOrJammed`, `LogReturns`, `ScanEnds`) is out of the prover's reach. Every invariant of a run that passes
is proved.

## Where the code and its documents differ

Three runs end in a violation, and each is an entry of "findings" in `PROJECT.json`.

- **`mcp_proxy_jam`.** A timeout, a late answer put into the box that is still registered, and
  the exit of the server: the reader then waits for room in that box and holds the lock that the main
  thread needs to give the box up. The proxy answers nothing any more.
- **`hook_taint_lost`.** The taint is written last. When the deadline comes before it, or the store
  cannot be written, this call is denied and the next is not tainted. A read of the store that fails
  taints this call, which then has nothing to write, and the next is not tainted either;
  `TaintIsKept` leaves these cases out.
- **`tree_depth`.** `seen` does not know at which depth a directory was seen (`policy.py:424`): a
  directory first reached by a way too long to be listed is not listed by a shorter one.

Four more are exceptions that a checked property names; TLC finds each when the exception is taken out of the property.

- *`AnswersMatch`.* The proxy's ids are the strings `agent-firewall-1`, `-2`, and so on (`mcp_proxy.py:102`), and no test keeps a
  client from using one, although `mcp_proxy.py:100` says they never collide. The answer to a `ping` of that id is
  then given to the caller of a gated method as its own (`IsAnswerTo`).
- *`TaintedGetsNoWayOut`.* `grep -f /etc/passwd -nf.env x` is refused at `/etc/passwd`, before the loop of `policy.py:303-314` is at
  `.env`. The earlier look at every word (`_taint_if_named`) tries only the spellings of `argv.py:277-286`, here `-nf.env` and `f.env`, so
  the session stays untainted, against `policy.py:284-285` (`Sees`).
- *`TaintTeachesNothing`.* `read_traces` goes through the files in the order of the arguments (`learn.py:444`), whatever the times of their
  records. If a session's hooks wrote to two files and the one with the taint is given last, what it attempted
  after the taint is evidence, against `learn.py:47-49`.
- *`ArgvIsRead`.* `argv.py:176` takes the value of `-d` for a recursion when it is `recurse`; GNU grep takes `rec` for it as well.
  `grep -d rec KEY .` walks a tree that was not checked, against `argv.py:6-7` (`Abbreviated`).

Other differences were found on the way and need no run to be seen, or are of one step:

- `LinesWhole` and `AskMeansYes` name their exceptions. `close` flushes what a failed `log`
  left without the lock (`audit.py:62`, against `audit.py:44-45`), so it may write into
  another process's line. A host that gives up on a hook may run the call, after which the trace shows an ask
  and a run, and `docs/LEARNING.md:10` would take it for a yes.
- "Every live token stops working" (`credentials.py:76`) holds until the user delegates anew:
  `introspect` asks for the subject's grant of today (`credentials.py:110`), so a new one revives the tokens of the old.
- What comes from the server and finds no box is relayed to the client as it is (`mcp_proxy.py:141-148`): a late answer, with the
  proxy's own id, and one that the server made up, under any id of the client's; for `tools/list` without the filter.
  `mcp_proxy.py:76` and `100-101` speak of answers to the proxy's own requests without this exception. `AnswersMatch` says that it never
  happens to the answer of a caller who has had no reply, unless the proxy died.
- Malformed messages may end the proxy: params that are no object (`mcp_proxy.py:323`, `359`), a method that is
  not hashable (`312`) and a malformed result of `tools/list` (`375-389`) raise what nothing catches. The main
  thread ends, and the client has no answer. A server that stops reading holds the main thread in `stdin.write`
  (`mcp_proxy.py:95`), where no timeout counts; and the terminal approver has none (`399-413`).
- `poison` is called with every record that could not be written, but a refusal, a block or a delegation carries no `action_id`, so
  stderr says "unknown" for it (`audit.py:56-59`): that something was lost is known, not what. `AnsweredIsOnRecord` asks for the id
  of those only that had an intent.
- An audit log that is interrupted between `flock` and the `try`, or in the `finally` (`audit.py:46-54`), keeps the lock until its
  process ends. And the next writer puts its line behind the half line of a killed one, so that both are lost to a reader of
  JSON lines; `LinesWhole` says that a logged line is in one piece, not that it begins a line of the file.
- A protected path that is on the list but not on the disk refuses a recursive command above it (`policy.py:398-400`, `428-430`,
  `config.py:234-241`), although the command would come upon nothing. `HitIsReal` names it.
- "What a session attempted after it named or reached a protected path is not used as evidence"
  (`learn.py:47-49`, `docs/LEARNING.md:249-253`) also fails within one file. The trace records `tainted`, but `read_traces` does not
  read it back: the taint is worked out by replaying. It is forgotten when the request that tainted
  cannot be replayed, or is of an MCP tool that was unregistered since. `Tells` in `Learn` says when the trace
  tells, and `TaintTeachesNothing` is stated of those.
- An observation refused at approval ends the turn of the loop (`learn.py:671-675`) before its grant is counted as
  used. A `shell_ask` entry that was only ever asked about and denied is reported as "asked about, never
  seen" (`learn.py:831-832`), and `--drop-unused` drops it. `NarrowingKeepsUse` leaves these out.
- A host that gave up on a hook and ran the call leaves a `ran` record: what asked counts as confirmed in `learn.py`, although nobody was asked.
- Two hooks of one session that both taint write two lines to the store (`session.py:35` speaks of one
  per session). Nothing depends on it.
- A deadline that fires before PostToolUse input is parsed is answered as for PreToolUse, by a
  denial with exit 2 (`hook.py:617-636`); `hook.py:34-35` says the code path of PostToolUse never is.
- "Once any protected path is named or reached (even by a blocked attempt)" (`session.py:1-4`,
  `policy.py:12-14`) holds where the policy looks. Several refusals come before it looks: a
  working directory out of the sandbox, an unregistered MCP tool, disabled MCP
  resources, the first MCP string that escapes, a line that cannot be split, the first blocked
  file of a patch; and a file behind a cluster of options is looked at only in its turn.
  `Sees` in `Policy` says which, and `TaintedGetsNoWayOut` is stated of the rest.

## What is not modelled

- Configuration: how `load` reads and checks the policy file (`Learn` has the one check a proposal could fail, `Loads`), path resolution,
  globs and which paths are on the list (`config.py`). A path is where it lies; of `protected_under`, `TreeWalk` has how far below a
  directory the nearest one is.
- Which words of a secret file are values (`egress.py`, `load` and `values`): one pass of regular expressions when the policy loads.
- Of the grammars, only options that differ in how they are read: one of each class of `cat`, `head`, `ls` and `grep`.
  Of URLs, one scheme, no IPv6 brackets, no upper case, and none of the checks on characters and length.
- The wording of `learn.py`'s report, its counts, and the command line. The write side of the trace and ask mode
  are also in `HookSession`, with hooks that die beside each other, and the learner of the proxy in `McpProxy`.
- The file system changing between the walk and the command: nothing in the code watches it.
- The contents of tools/list and resource listings, the words of answers, logging, argument
  parsing, installation, demos and the corpus.

## Plan

Done, in this order: `Gateway` with `AuditTrail` and their proofs, since every other part relies on
it; `Broker` and its proofs; `McpProxy`; `AuditLog`; `HookSession` and its proofs; `TreeWalk`;
`Policy` with `PolicyTable`; `Learn`; `Egress` with its proofs and `ShellSyntax`, `Argv` and `Network` in `Readers`;
the proofs of `McpProxy`, `AuditLog` and `TreeWalk`, and of the rest of `HookSession`; those of `Policy` and of `Learn`, which
rests on them, and `NoFalseAlarm`; those of the readers.

Left:

1. `config`: `is_protected` and `in_sandbox` on a small tree of paths and links, to give `TreeWalk` its
   listed paths, and `load` with the policies it refuses.
2. A file system that changes between the walk and the command, if the code comes to watch it.
