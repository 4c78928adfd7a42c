------------------------------ MODULE UserFiles ------------------------------
(***************************************************************************)
(* The boundary between user memory and the kernel: user_range of          *)
(* kernel/usercopy.c and the system calls that copy through it, made by    *)
(* any task with any argument, as kernel/laboratory.c and kernel/syscall.c *)
(* dispatch them.                                                          *)
(*                                                                         *)
(* Memory is a few small pages below a small user limit, in a word that    *)
(* reaches beyond it.  The content of a file is the sequence of its        *)
(* positions, so that a byte out of place is visible.  vm_lookup is the    *)
(* map each task's tables hold (module VM).                                *)
(***************************************************************************)
EXTENDS RamFS

CONSTANTS
  Tasks,
  PageSize,      \* PAGE_SIZE
  UserLimit,     \* 2^47
  WordMax,       \* UINT64_MAX
  CopyLimit,     \* COPY_LIMIT
  InfoSize,      \* the size of the structures process, file and memory return
  Mappings,      \* what each task's pages may be: permissions, or nothing
  UartLimit      \* bound on the typed characters under way

ASSUME UserFilesAssumption ==
  /\ PageSize \in Nat \ {0}
  /\ UserLimit \in Nat /\ WordMax \in Nat /\ UserLimit <= WordMax
  /\ CopyLimit \in Nat /\ InfoSize \in Nat /\ UartLimit \in Nat

VARIABLES
  mapping,    \* per task and page: a set of permissions, {} if not mapped
  files,      \* task->files
  got,        \* what the reads of each open slot have delivered so far
  uart,       \* characters waiting in COM1
  last        \* the latest call: who made it, its result, where it wrote

vars == <<mapping, files, got, uart, last>>

Words   == 0 .. WordMax
Pages   == 0 .. (UserLimit \div PageSize - 1)

Init ==
  /\ mapping \in [Tasks -> Mappings]
  /\ files = [t \in Tasks |-> [fd \in Fds |-> Closed]]
  /\ got = [t \in Tasks |-> [fd \in Fds |-> << >>]]
  /\ uart = 0
  /\ last = [task |-> "none", result |-> 0, wrote |-> {}]

-----------------------------------------------------------------------------
(* user_range.                                                             *)

Allows(t, a, writing) ==
  LET flags == mapping[t][a \div PageSize]
  IN "user" \in flags /\ (writing => "write" \in flags)

\* Mutant: only the page of the first byte is looked at.
VisitedFirst(a, length) == {b \in {a} : length > 0}

\* The addresses the loop looks up: the first one, then the start of every
\* further page.
Visited(a, length) ==
  {b \in a .. (a + length - 1) : b = a \/ b % PageSize = 0}

user_range(t, a, length, writing) ==
  /\ length <= CopyLimit /\ a < UserLimit /\ length <= UserLimit - a
  /\ \A b \in Visited(a, length) : Allows(t, b, writing)

-----------------------------------------------------------------------------
(* The system calls.                                                       *)

Ends(t, result, wrote) == last' = [task |-> t, result |-> result, wrote |-> wrote]

\* SYS_WRITE: all of the range or nothing goes to the serial port.
sys_write(t, a, length) ==
  /\ Ends(t, IF user_range(t, a, length, FALSE) THEN length ELSE -2, {})
  /\ UNCHANGED <<mapping, files, got, uart>>

sys_open(t, a, length, name) ==
  LET r == IF user_range(t, a, length, FALSE) THEN ramfs_open(files[t], name)
                                              ELSE Return(-2, files[t])
  IN /\ files' = [files EXCEPT ![t] = r.slots]
     /\ got' = IF r.result >= 0 THEN [got EXCEPT ![t][r.result] = << >>] ELSE got
     /\ Ends(t, r.result, {})
     /\ UNCHANGED <<mapping, uart>>

\* Mutant: the offset moves before the buffer is checked.
ReadCallLate(t, fd, a, length) ==
  LET r == ramfs_read(files[t], fd, length)
  IN IF user_range(t, a, length, TRUE) THEN r ELSE Return(-2, r.slots)

\* The whole output is validated before a byte is written or consumed.
ReadCall(t, fd, a, length) ==
  IF user_range(t, a, length, TRUE) THEN ramfs_read(files[t], fd, length)
                                    ELSE Return(-2, files[t])

sys_read(t, fd, a, length) ==
  LET r    == ReadCall(t, fd, a, length)
      slot == files[t][fd]
  IN /\ files' = [files EXCEPT ![t] = r.slots]
     /\ got' = IF r.result > 0
               THEN [got EXCEPT ![t][fd] = @ \o [k \in 1 .. r.result |-> slot.offset + k]]
               ELSE got
     /\ Ends(t, r.result, a .. (a + r.result - 1))
     /\ UNCHANGED <<mapping, uart>>

sys_close(t, fd) ==
  LET r == ramfs_close(files[t], fd)
  IN /\ files' = [files EXCEPT ![t] = r.slots]
     /\ Ends(t, r.result, {})
     /\ UNCHANGED <<mapping, got, uart>>

\* SYS_INPUT takes a character from COM1 only when it has a place for it.
sys_input(t, a) ==
  /\ IF ~user_range(t, a, 1, TRUE) THEN Ends(t, -2, {}) /\ UNCHANGED uart
     ELSE IF uart = 0 THEN Ends(t, -6, {}) /\ UNCHANGED uart
     ELSE Ends(t, 1, {a}) /\ uart' = uart - 1
  /\ UNCHANGED <<mapping, files, got>>

\* A structure copied out once the whole of its place is known to be writable.
CopyOut(t, a, found, result) ==
  /\ IF ~user_range(t, a, InfoSize, TRUE) THEN Ends(t, -2, {})
     ELSE IF ~found THEN Ends(t, 0, {})
     ELSE Ends(t, result, a .. (a + InfoSize - 1))
  /\ UNCHANGED <<mapping, files, got, uart>>

\* SYS_PROCESS: whether the slot asked for is in use is the process table's
\* business (module Laboratory).
sys_process(t, found, a) == CopyOut(t, a, found, 1)

\* SYS_FILE.
sys_file(t, index, a) == CopyOut(t, a, ramfs_file(index) = 1, 1)

\* SYS_MEMORY answers 0 and always has something to copy.
sys_memory(t, a) == CopyOut(t, a, TRUE, 0)

\* Somebody types a character.
Type ==
  /\ uart < UartLimit /\ uart' = uart + 1
  /\ last' = [task |-> "none", result |-> 0, wrote |-> {}]
  /\ UNCHANGED <<mapping, files, got>>

Lengths == 0 .. (CopyLimit + 1)
AnyFd   == 0 .. OpenLimit
AnyFile == 0 .. (Max(Files) + 1)

Next ==
  \/ \E t \in Tasks, a \in Words :
       \/ \E length \in Lengths :
            \/ sys_write(t, a, length)
            \/ \E name \in AnyFile : sys_open(t, a, length, name)
            \/ \E fd \in AnyFd : sys_read(t, fd, a, length)
       \/ sys_input(t, a)
       \/ \E found \in BOOLEAN : sys_process(t, found, a)
       \/ \E index \in AnyFile : sys_file(t, index, a)
       \/ sys_memory(t, a)
  \/ \E t \in Tasks, fd \in AnyFd : sys_close(t, fd)
  \/ Type

Spec == Init /\ [][Next]_vars

-----------------------------------------------------------------------------
\* The check is exact: a range is accepted iff it is short enough, lies
\* below the user limit and the task itself may access every byte of it,
\* although only one byte per page is looked up.
RangeAgreesWithPages ==
  \A t \in Tasks, a \in Words, length \in 0 .. WordMax, writing \in BOOLEAN :
    user_range(t, a, length, writing) <=>
      /\ length <= CopyLimit /\ a < UserLimit /\ a + length <= UserLimit
      /\ \A b \in a .. (a + length - 1) : Allows(t, b, writing)

\* What the reads of one open have delivered, in order, is the beginning of
\* the file up to the slot's offset: no byte is skipped, repeated or mixed
\* with another slot's, whatever calls are rejected in between.
ReadsFormAPrefix ==
  \A t \in Tasks, fd \in Fds : files[t][fd].used =>
    /\ got[t][fd] = [k \in 1 .. files[t][fd].offset |-> k]
    /\ files[t][fd].offset <= FileSize[files[t][fd].file]

\* A call the kernel refuses consumes no file byte, no slot and no typed
\* character, and the kernel writes only where the caller could have.
RefusedCallsLeaveNoTrace ==
  [][/\ last'.result < 0 => UNCHANGED <<files, uart>> /\ last'.wrote = {}
     /\ \A b \in last'.wrote : Allows(last'.task, b, TRUE)]_vars
=============================================================================
