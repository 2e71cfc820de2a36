------------------------------- MODULE AuditLog -------------------------------
(***************************************************************************)
(* audit.py: several processes append records to one file.  The audit log, *)
(* the taint store and the learning trace are all written this way.        *)
(*                                                                         *)
(* A line too long for one buffer reaches the file in two writes, its head *)
(* and its tail; what an interrupted or failed write leaves in the buffer  *)
(* is written by the next log of that process, or by its close.            *)
(***************************************************************************)
EXTENDS Naturals, Sequences

CONSTANTS Writers,              \* processes that hold the file open
          MaxRecords,           \* bound: records of one writer
          None

ASSUME LogAssumption ==
    /\ None \notin Writers
    /\ MaxRecords \in Nat

VARIABLES file,                 \* the chunks of the file, in order
          lock,                 \* the writer that holds LOCK_EX, or None
          pc,                   \* where each writer is
          count,                \* [Writers -> records it set out to log]
          buffer,               \* [Writers -> chunks not written yet]
          logged,               \* records for which log returned
          strays                \* history: chunks that close wrote

vars == <<file, lock, pc, count, buffer, logged, strays>>

Records == Writers \X (1..MaxRecords)
Chunks == [of : Records, part : {"head", "tail"}]
Head1(r) == [of |-> r, part |-> "head"]
Tail1(r) == [of |-> r, part |-> "tail"]
Line(r) == <<Head1(r), Tail1(r)>>

(* The record the writer is at. *)
Current(w) == <<w, count[w]>>

TypeOK ==
    /\ file \in Seq(Chunks)
    /\ lock \in Writers \cup {None}
    /\ pc \in [Writers -> {"idle", "waiting", "locked", "flushed", "failed", "ending", "gone"}]
    /\ count \in [Writers -> 0..MaxRecords]
    /\ buffer \in [Writers -> Seq(Chunks)]
    /\ logged \subseteq Records
    /\ strays \subseteq Chunks

Init ==
    /\ file = <<>>
    /\ lock = None
    /\ pc = [w \in Writers |-> "idle"]
    /\ count = [w \in Writers |-> 0]
    /\ buffer = [w \in Writers |-> <<>>]
    /\ logged = {} /\ strays = {}

(* log: the line is made. *)
Log(w) ==
    /\ pc[w] = "idle"
    /\ count[w] < MaxRecords
    /\ count' = [count EXCEPT ![w] = @ + 1]
    /\ pc' = [pc EXCEPT ![w] = "waiting"]
    /\ UNCHANGED <<file, lock, buffer, logged, strays>>

(* Mutant of Free: no lock, as where fcntl is missing. *)
FreeAlways == TRUE

(* flock(LOCK_EX) returns. *)
Free == lock = None

(* The lock is held, and the line is in the buffer behind what was left there. *)
Acquire(w) ==
    /\ pc[w] = "waiting"
    /\ Free
    /\ lock' = w
    /\ pc' = [pc EXCEPT ![w] = "locked"]
    /\ buffer' = [buffer EXCEPT ![w] = @ \o Line(Current(w))]
    /\ UNCHANGED <<file, count, logged, strays>>

(* One write of the flush. *)
Write(w) ==
    /\ pc[w] = "locked"
    /\ buffer[w] # <<>>
    /\ file' = Append(file, Head(buffer[w]))
    /\ buffer' = [buffer EXCEPT ![w] = Tail(@)]
    /\ UNCHANGED <<lock, pc, count, logged, strays>>

(* Everything is written, and synced. *)
Sync(w) ==
    /\ pc[w] = "locked"
    /\ buffer[w] = <<>>
    /\ pc' = [pc EXCEPT ![w] = "flushed"]
    /\ UNCHANGED <<file, lock, count, buffer, logged, strays>>

(* Mutant of Fail: the line is kept as a whole, to be tried again. *)
FailRewinds(w) ==
    /\ pc[w] = "locked"
    /\ pc' = [pc EXCEPT ![w] = "failed"]
    /\ buffer' = [buffer EXCEPT ![w] = Line(Current(w))]
    /\ UNCHANGED <<file, lock, count, logged, strays>>

(* The disk is full, or the deadline fires: the rest stays in the buffer, or is lost
   when it was still on its way there. *)
Fail(w) ==
    /\ pc[w] = "locked"
    /\ pc' = [pc EXCEPT ![w] = "failed"]
    /\ buffer' \in {buffer, [buffer EXCEPT ![w] = <<>>]}
    /\ UNCHANGED <<file, lock, count, logged, strays>>

(* The deadline fires, or ^C comes, outside the try: while the process waits in flock, when
   it has just got the lock, or in the finally before LOCK_UN or behind it.  log raises, and
   the process, which may still hold the lock, answers and ends. *)
Interrupt(w) ==
    /\ pc[w] \in {"waiting", "flushed", "failed"}
    /\ \/ UNCHANGED lock
       \/ pc[w] = "waiting" /\ Free /\ lock' = w
       \/ pc[w] # "waiting" /\ lock' = None
    /\ pc' = [pc EXCEPT ![w] = "ending"]
    /\ UNCHANGED <<file, count, buffer, logged, strays>>

(* Mutant of Returned: log returns as if the write had worked. *)
ReturnedAnyway(w) == TRUE

(* log returns rather than raises. *)
Returned(w) == pc[w] = "flushed"

(* Mutant of Release: no finally, a log that raises keeps the lock. *)
ReleaseReturned(w) ==
    /\ pc[w] \in {"flushed", "failed"}
    /\ lock' = IF Returned(w) THEN None ELSE lock
    /\ pc' = [pc EXCEPT ![w] = "idle"]
    /\ logged' = IF Returned(w) THEN logged \cup {Current(w)} ELSE logged
    /\ UNCHANGED <<file, count, buffer, strays>>

(* finally: LOCK_UN, and log returns or raises. *)
Release(w) ==
    /\ pc[w] \in {"flushed", "failed"}
    /\ lock' = None
    /\ pc' = [pc EXCEPT ![w] = "idle"]
    /\ logged' = IF Returned(w) THEN logged \cup {Current(w)} ELSE logged
    /\ UNCHANGED <<file, count, buffer, strays>>

(* Mutant of Close: the file stays open, and a lock on it is kept. *)
CloseKeeping(w) ==
    /\ pc[w] \in {"idle", "ending"} /\ buffer[w] = <<>>
    /\ pc' = [pc EXCEPT ![w] = "gone"]
    /\ UNCHANGED <<file, lock, count, buffer, logged, strays>>

(* close flushes what the buffer still holds, without taking the lock; with the file
   closed, a lock that is still held is gone. *)
Close(w) ==
    /\ pc[w] \in {"idle", "ending"}
    /\ IF buffer[w] = <<>>
          THEN /\ pc' = [pc EXCEPT ![w] = "gone"]
               /\ lock' = IF lock = w THEN None ELSE lock
               /\ UNCHANGED <<file, buffer, strays>>
          ELSE /\ file' = Append(file, Head(buffer[w]))
               /\ strays' = strays \cup {Head(buffer[w])}
               /\ buffer' = [buffer EXCEPT ![w] = Tail(@)]
               /\ UNCHANGED <<pc, lock>>
    /\ UNCHANGED <<count, logged>>

(* The process is killed: the kernel drops the lock, the buffer is lost. *)
Crash(w) ==
    /\ pc[w] # "gone"
    /\ pc' = [pc EXCEPT ![w] = "gone"]
    /\ buffer' = [buffer EXCEPT ![w] = <<>>]
    /\ lock' = IF lock = w THEN None ELSE lock
    /\ UNCHANGED <<file, count, logged, strays>>

Step(w) == Acquire(w) \/ Write(w) \/ Sync(w) \/ Release(w)

Next == \E w \in Writers :
    Log(w) \/ Step(w) \/ Fail(w) \/ Interrupt(w) \/ Close(w) \/ Crash(w)

Spec == Init /\ [][Next]_vars

(* A process that got the lock goes on, and one that is ending ends; flock wakes each
   waiting process in turn. *)
FairSpec ==
    /\ Spec
    /\ \A w \in Writers :
          /\ WF_vars(Write(w) \/ Sync(w) \/ Release(w))
          /\ WF_vars(pc[w] = "ending" /\ Close(w))
          /\ SF_vars(Acquire(w))

-----------------------------------------------------------------------------
(* Properties. *)

(* "Hold an exclusive lock for the whole record so lines never interleave" (audit.py
   44-45): a line that was logged is in one piece, but for what close, which does
   not take the lock, writes of a line that failed. *)
LinesWhole ==
    \A i \in 1..Len(file) :
        file[i].part = "head" /\ file[i].of \in logged =>
            \E j \in (i + 1)..Len(file) :
                /\ file[j] = Tail1(file[i].of)
                /\ \A k \in (i + 1)..(j - 1) : file[k] \in strays

InFile(chunk) == \E i \in 1..Len(file) : file[i] = chunk

(* "Fail-closed: if the store cannot be opened or written, the gateway denies actions
   rather than acting unaudited" (audit.py 1-2): a record for which log returned is
   in the file, whatever failed before it and whoever crashes after it. *)
LoggedIsWritten == \A r \in logged : InFile(Head1(r)) /\ InFile(Tail1(r))

(* Each chunk is written at most once, although a failed line is flushed again. *)
WrittenOnce == \A i, j \in 1..Len(file) : file[i] = file[j] => i = j

(* A process that waits to log is not waiting for ever: the lock of one that failed, was
   interrupted or crashed is freed. *)
LogReturns == \A w \in Writers : pc[w] = "waiting" ~> pc[w] \in {"idle", "ending", "gone"}
=============================================================================
