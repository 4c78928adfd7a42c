-------------------------------- MODULE RamFS --------------------------------
(***************************************************************************)
(* The fixed read-only files of kernel/ramfs.c and the open slots of one   *)
(* task.  Each operation is a function of the slots: what it returns and   *)
(* the slots it leaves.  UserFiles drives them with arbitrary calls,       *)
(* TwoTask with the script of user/program.c.                              *)
(***************************************************************************)
EXTENDS Integers, Sequences, FiniteSetsExt

CONSTANTS
  FileSize,     \* the length of each file: a function on 0 .. n - 1
  OpenLimit     \* OPEN_LIMIT

ASSUME RamFSAssumption ==
  /\ \A f \in DOMAIN FileSize : FileSize[f] \in Nat
  /\ 0 \in DOMAIN FileSize
  /\ OpenLimit \in Nat

Files == DOMAIN FileSize
Fds   == 0 .. (OpenLimit - 1)

\* struct open_file, and what a zeroed task starts with.
Slot   == [used : BOOLEAN, file : Files, offset : Nat]
Closed == [used |-> FALSE, file |-> 0, offset |-> 0]

Return(result, slots) == [result |-> result, slots |-> slots]

FreeFds(slots) == {fd \in Fds : ~slots[fd].used}
IsOpen(slots, fd) == fd \in Fds /\ slots[fd].used

\* name is a file, or anything else for a name no file has.
ramfs_open(slots, name) ==
  IF name \notin Files THEN Return(-4, slots)
  ELSE IF FreeFds(slots) = {} THEN Return(-5, slots)
  ELSE LET fd == Min(FreeFds(slots))
       IN Return(fd, [slots EXCEPT ![fd] = [used |-> TRUE, file |-> name, offset |-> 0]])

\* Mutant: the request is not cut at the end of the file.
AvailableAll(slot, length) == length

\* The bytes a read of this length delivers.
Available(slot, length) == Min({length, FileSize[slot.file] - slot.offset})

ramfs_read(slots, fd, length) ==
  IF ~IsOpen(slots, fd) THEN Return(-3, slots)
  ELSE LET n == Available(slots[fd], length)
       IN Return(n, [slots EXCEPT ![fd].offset = @ + n])

ramfs_close(slots, fd) ==
  IF ~IsOpen(slots, fd) THEN Return(-3, slots)
  ELSE Return(0, [slots EXCEPT ![fd].used = FALSE])

\* ramfs_file: is there a file of this index to describe?
ramfs_file(index) == IF index \in Files THEN 1 ELSE 0
=============================================================================
