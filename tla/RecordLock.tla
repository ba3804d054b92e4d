----------------------------- MODULE RecordLock -----------------------------
(***************************************************************************)
(* The kernel's record locks, and the processes of file_lock/fcntl_test.c  *)
(* and file_lock/lockf.c that write to one file under them.  The file is   *)
(* seen in sections of SECTION_SIZE bytes; Sections stands for all bytes   *)
(* beyond them, which a lock of length 0 reaches.                          *)
(***************************************************************************)
EXTENDS Naturals, FiniteSets

CONSTANT Sections     \* how many processes main starts, NUM_PROCESSES

Writers == 1 .. Sections
Bytes == 0 .. Sections

VARIABLES
  program,   \* which of the two programs this is
  pc,        \* "open", "locked", "written", "unlocked" or "gone"
  locked,    \* the bytes each process has locked
  offset,    \* the file offset of each process's descriptor
  file       \* whose text stands in each section, 0 for nobody's
vars == <<pc, locked, offset, file>>

Init ==
  /\ pc = [w \in Writers |-> "open"]
  /\ locked = [w \in Writers |-> {}]
  /\ offset = [w \in Writers |-> 0]
  /\ file = [b \in Bytes |-> 0]

From(first) == {b \in Bytes : b >= first}
Go(w, to) == pc' = [pc EXCEPT ![w] = to]

(* l_start, or the current offset; l_len is 0 in both.                     *)
LockFrom(w) == From(IF program = "fcntl_test" THEN w - 1 ELSE offset[w])

(* F_SETLKW and F_LOCK wait until no other process has a byte locked.      *)
Lock(w) ==
  /\ pc[w] = "open"
  /\ \A v \in Writers \ {w} : locked[v] \cap LockFrom(w) = {}
  /\ locked' = [locked EXCEPT ![w] = @ \cup LockFrom(w)]
  /\ Go(w, "locked")
  /\ UNCHANGED <<offset, file>>

(* fcntl_test seeks to its section first.  The text fits in a section.     *)
Write(w) ==
  LET at == IF program = "fcntl_test" THEN w - 1 ELSE offset[w]
  IN /\ pc[w] = "locked"
     /\ file' = [file EXCEPT ![at] = w]
     /\ offset' = [offset EXCEPT ![w] = at + 1]
     /\ Go(w, "written")
     /\ UNCHANGED locked

(* lockf's F_ULOCK counts from the offset, which the write has moved; it   *)
(* is also called when the write has failed.                               *)
Unlock(w) ==
  /\ program = "lockf" /\ pc[w] \in {"locked", "written"}
  /\ locked' = [locked EXCEPT ![w] = @ \ From(offset[w])]
  /\ Go(w, "unlocked")
  /\ UNCHANGED <<offset, file>>

(* close releases every lock, and so does the end of a process.            *)
Close(w) ==
  /\ pc[w] = "unlocked" \/ (program = "fcntl_test" /\ pc[w] \in {"locked", "written"})
  /\ locked' = [locked EXCEPT ![w] = {}]
  /\ Go(w, "gone")
  /\ UNCHANGED <<offset, file>>

Killed(w) ==
  /\ pc[w] # "gone"
  /\ locked' = [locked EXCEPT ![w] = {}]
  /\ Go(w, "gone")
  /\ UNCHANGED <<offset, file>>

WriterStep(w) == Lock(w) \/ Write(w) \/ Unlock(w) \/ Close(w)
Next == \E w \in Writers : WriterStep(w) \/ Killed(w)

Spec == Init /\ [][Next]_vars /\ \A w \in Writers : SF_vars(WriterStep(w))

(* From its write to its close a process excludes the others: those of     *)
(* fcntl_test.c although each writes a section of its own, those of        *)
(* lockf.c although they unlock before they close.                         *)
Excludes ==
  \A w \in Writers : pc[w] \in {"written", "unlocked"} /\ locked[w] # {} =>
    \A v \in Writers \ {w} : locked[v] = {}
HeldToTheEnd == \A w \in Writers : pc[w] \in {"written", "unlocked"} /\ offset[w] > 0 => locked[w] # {}

(* Every process that is not killed gets the lock.                         *)
Waits(w) == pc[w] = "open"
GetsLock == \A w \in Writers : Waits(w) ~> ~Waits(w)
==============================================================================
