------------------------------- MODULE TwoTask -------------------------------
(***************************************************************************)
(* The experiments M3 to M6: kernel/task.c alternates two tasks on a       *)
(* timer, and from M4 on both run user/program.c in user mode, through     *)
(* kernel/syscall.c and kernel/user.c.  Each kernel checks itself and ends *)
(* in panic: at its intentional stop, or at the check that failed.         *)
(*                                                                         *)
(* A step is one system call of the current task with the user code that   *)
(* follows it, one fault, or one tick.  Neither program reads what the     *)
(* other writes, so where in user code a tick falls makes no difference.   *)
(*                                                                         *)
(* The program times itself in ticks, so it depends on how much runs       *)
(* between two of them: SliceSteps is the least a task gets done in a      *)
(* slice.  At 100 Hz a slice is far longer than the whole script.          *)
(***************************************************************************)
EXTENDS RamFS

CONSTANTS
  Levels,        \* MINILINUX_LEVEL: which of the kernels 3 .. 6
  SliceSteps,
  Tables,        \* table pages of a user space: root, two upper levels, three leaves
  FreePages,     \* how many pages page_init may have left
  MaxTicks       \* bound on ticks, above any the experiments reach

\* The names the program opens.
Hello == 0
Empty == 1
Missing == -1

\* The experiments open these files, with this many slots; the program is
\* done with its script in time if a slice holds four of its calls.
ASSUME TwoTaskAssumption ==
  /\ Levels \subseteq 3 .. 6
  /\ SliceSteps \in Nat /\ SliceSteps >= 4
  /\ Tables \in Nat /\ FreePages \subseteq Nat /\ MaxTicks \in Nat
  /\ Hello \in Files /\ FileSize[Hello] = 17
  /\ Empty \in Files /\ FileSize[Empty] = 0
  /\ Missing \notin Files
  /\ OpenLimit = 2

VARIABLES
  level,
  current, ticks,
  tasks,        \* tasks[i], the fields of struct task
  user,         \* where each program is, and its local "start"
  data,         \* per data page: the marker, and the counters that moved
  cr3,          \* the active root
  free,         \* pages.free_count
  initial_free,
  steps,        \* steps since the last tick, up to SliceSteps
  stopped       \* what panic said

twoTaskVars == <<level, current, ticks, tasks, user, data, cr3, free, initial_free, steps, stopped>>

T     == {0, 1}
Other == 1 - current
Boot  == 2            \* boot_root, which is no space
Nobody == 2           \* the marker of a data page nobody has marked

NewTask ==
  [alive |-> TRUE, reported |-> FALSE, fault_seen |-> FALSE, user_seen |-> FALSE,
   counter |-> 0, slices |-> 0, rejected_pointers |-> 0, rejected_calls |-> 0,
   files_opened |-> 0, bytes_read |-> 0, eof_reads |-> 0, file_errors |-> 0,
   files |-> [fd \in Fds |-> Closed]]

\* task->space: one each in M6, one for both before, named by its number.
SpaceOf(i) == IF level >= 6 THEN i ELSE 0
Spaces     == {SpaceOf(i) : i \in T}

\* Pages map_page takes: two of code and one of data per space, two stacks.
Owned  == 3 * Cardinality(Spaces) + 4
Needed == Owned + Tables * Cardinality(Spaces)

\* task_start, up to user_prepare.
TwoTaskInit ==
  /\ level \in Levels
  /\ current = 0 /\ ticks = 0
  /\ tasks = [i \in T |-> NewTask]
  /\ user = [i \in T |-> [at |-> IF level = 3 THEN "count" ELSE "script", line |-> 1, start |-> 0]]
  /\ data = [i \in T |-> [marker |-> Nobody, moved |-> {}]]
  /\ cr3 = Boot
  /\ free \in FreePages /\ initial_free = free
  /\ steps = 0
  /\ stopped = "preparing"

Running == stopped = "no"

\* panic never returns: the state is not used again and stays as it was.
Panic(why) ==
  /\ stopped' = why
  /\ UNCHANGED <<level, current, ticks, tasks, user, data, cr3, free, initial_free, steps>>

\* select_task: the root is changed if the task has a space of its own.
RootOf(i) == IF level = 3 THEN cr3 ELSE SpaceOf(i)

\* The rest of task_start.
task_start ==
  /\ stopped = "preparing"
  /\ IF level >= 4 /\ free < Needed THEN Panic("allocation failed")
     ELSE /\ free' = IF level >= 4 THEN free - Needed ELSE free
          /\ cr3' = RootOf(0)
          /\ stopped' = "no"
          /\ UNCHANGED <<level, current, ticks, tasks, user, data, initial_free, steps>>

-----------------------------------------------------------------------------
(* The timer.                                                              *)

task_tick ==
  LET next    == IF tasks[Other].alive THEN Other ELSE current
      counted == [tasks EXCEPT ![current].slices = @ + 1]
      over    == level = 3 /\ \A i \in T : counted[i].slices >= 4
  IN /\ Running /\ steps >= SliceSteps /\ ticks < MaxTicks
     /\ IF over
        THEN Panic(IF \E i \in T : tasks[i].counter = 0 THEN "M3 task never ran"
                                                        ELSE "intentional stop")
        ELSE /\ tasks' = counted
             /\ ticks' = ticks + 1
             /\ current' = next /\ cr3' = RootOf(next)
             /\ steps' = 0
             /\ UNCHANGED <<level, user, data, free, initial_free, stopped>>

Step == steps' = IF steps < SliceSteps THEN steps + 1 ELSE steps

\* count_forever of M3; what task_tick asks of the counter is whether it moved.
count_forever ==
  /\ Running /\ user[current].at = "count"
  /\ tasks' = [tasks EXCEPT ![current].counter = 1]
  /\ Step
  /\ UNCHANGED <<level, current, ticks, user, data, cr3, free, initial_free, stopped>>

-----------------------------------------------------------------------------
(* user/program.c: the calls it makes and what it requires of each.  A     *)
(* pointer is good or bad; UserFiles models how the kernel tells.          *)

Write(ok, length, want) == [call |-> "write", ok |-> ok, length |-> length, want |-> want]
Open(name, want)        == [call |-> "open", name |-> name, want |-> want]
Read(fd, ok, length, want) == [call |-> "read", fd |-> fd, ok |-> ok, length |-> length, want |-> want]
Close(fd, want)         == [call |-> "close", fd |-> fd, want |-> want]
Unknown(want)           == [call |-> "99", want |-> want]
TaskId                  == [call |-> "task_id", want |-> 0]     \* whoever asks is "current" here

Boundary ==
  <<TaskId, Write(TRUE, 31, 31), Unknown(-1),
    Write(FALSE, 1, -2), Write(FALSE, 16, -2), Write(FALSE, 8, -2)>>

read_file ==
  <<Open(Missing, -4), Open(Hello, 0), Open(Hello, 1), Open(Hello, -5),
    Read(99, TRUE, 1, -3), Close(99, -3),
    Read(0, FALSE, 4, -2), Read(0, FALSE, 16, -2),
    Read(0, TRUE, 5, 5), Write(TRUE, 5, 5), Read(0, TRUE, 32, 12), Write(TRUE, 12, 12),
    Read(0, TRUE, 1, 0), Read(1, TRUE, 1, 1),
    Close(0, 0), Close(1, 0), Close(1, -3), Read(1, TRUE, 1, -3),
    Open(Empty, 0), Read(0, TRUE, 1, 0), Close(0, 0)>>

Script == IF level >= 5 THEN Boundary \o read_file ELSE Boundary

-----------------------------------------------------------------------------
(* syscall_dispatch.                                                       *)

\* A rejected pointer goes no further than user_range.
Rejected(t, r) == [r EXCEPT !.result = -2, !.task = [t EXCEPT !.rejected_pointers = @ + 1]]

\* The task's own observations of a call on files.
Counted(t, c, result) ==
  IF result < 0 THEN [t EXCEPT !.file_errors = @ + 1]
  ELSE IF c.call = "open" THEN [t EXCEPT !.files_opened = @ + 1]
  ELSE IF c.call = "close" THEN t
  ELSE IF result = 0 THEN [t EXCEPT !.eof_reads = @ + 1]
  ELSE [t EXCEPT !.bytes_read = @ + result]

FileCall(t, c) ==
  LET r == CASE c.call = "open"  -> ramfs_open(t.files, c.name)
             [] c.call = "read"  -> ramfs_read(t.files, c.fd, c.length)
             [] c.call = "close" -> ramfs_close(t.files, c.fd)
  IN [result |-> r.result, task |-> Counted([t EXCEPT !.files = r.slots], c, r.result)]

\* What call c returns to task t, and what it makes of the task.
syscall_dispatch(t, c) ==
  LET seen == [t EXCEPT !.user_seen = TRUE]
      none == [result |-> 0, task |-> seen]
  IN CASE c.call \in {"write", "read"} /\ ~c.ok -> Rejected(seen, none)
       [] c.call = "task_id" -> none
       [] c.call = "write" /\ c.ok -> [none EXCEPT !.result = c.length]
       [] c.call = "99" -> [result |-> -1, task |-> [seen EXCEPT !.rejected_calls = @ + 1]]
       [] OTHER -> FileCall(seen, c)

-----------------------------------------------------------------------------
(* task_exit and user_complete.                                            *)

\* The observations of a task that user_complete requires.
Observed(t) ==
  /\ t.reported /\ t.user_seen /\ t.slices >= 2
  /\ t.rejected_pointers >= 3 /\ t.rejected_calls >= 1
  /\ level >= 5 => /\ t.files_opened = 3 /\ t.bytes_read = 18
                   /\ t.eof_reads >= 2 /\ t.file_errors >= 4
                   /\ ~t.files[0].used /\ ~t.files[1].used
Isolated ==
  level >= 6 =>
    /\ SpaceOf(0) # SpaceOf(1)
    /\ \A i \in T : data[SpaceOf(i)].marker = i /\ 1 \in data[SpaceOf(i)].moved

\* vm_switch(boot_root) comes first.
RootAtCleanup == Boot

user_complete(ts) ==
  IF ~(\A i \in T : Observed(ts[i])) THEN Panic("observations are incomplete")
  ELSE IF ~ts[0].fault_seen \/ ts[1].fault_seen THEN Panic("fault isolation differs")
  ELSE IF ~Isolated THEN Panic("processes share or differ")
  ELSE IF RootAtCleanup \in Spaces THEN Panic("user root cleanup failed")
  ELSE LET left == free + Tables * Cardinality(Spaces) + Owned
       IN /\ free' = left
          /\ cr3' = RootAtCleanup
          /\ stopped' = IF left # initial_free THEN "user experiment leaked pages"
                                               ELSE "intentional stop"
          /\ tasks' = ts
          /\ Step
          /\ UNCHANGED <<level, current, ticks, user, data, initial_free>>

\* Mutant: the task that stopped can still be chosen.
StoppedStays(t) == t

Stopped(t) == [t EXCEPT !.alive = FALSE]

\* task_exit with status 0, the tasks being ts.
task_exit(ts) ==
  LET after == [ts EXCEPT ![current] = Stopped(@)] IN
  IF ~after[Other].alive THEN user_complete(after)
  ELSE /\ tasks' = after
       /\ current' = Other /\ cr3' = RootOf(Other)
       /\ Step
       /\ UNCHANGED <<level, ticks, data, free, initial_free, stopped, user>>

-----------------------------------------------------------------------------
(* The program, one call at a time.                                        *)

me == user[current]
At(where) == Running /\ me.at = where
Goes(where) == user' = [user EXCEPT ![current].at = where]

script_call ==
  /\ At("script")
  /\ LET c == Script[me.line]
         r == syscall_dispatch(tasks[current], c)
     IN IF r.result # c.want THEN Panic("user program reported failure")
        ELSE /\ tasks' = [tasks EXCEPT ![current] = r.task]
             /\ user' = [user EXCEPT ![current] =
                  [at    |-> IF me.line = Len(Script) THEN "start" ELSE "script",
                   line  |-> me.line + 1,
                   start |-> me.start]]
             /\ Step
             /\ UNCHANGED <<level, current, ticks, data, cr3, free, initial_free, stopped>>

\* The marker is written, then SYS_TICKS says when the timed loop starts.
start_loop ==
  /\ At("start")
  /\ data' = IF level >= 6 THEN [data EXCEPT ![SpaceOf(current)].marker = current] ELSE data
  /\ user' = [user EXCEPT ![current] = [at |-> "loop", line |-> me.line, start |-> ticks]]
  /\ Step
  /\ UNCHANGED <<level, current, ticks, tasks, cr3, free, initial_free, stopped>>

\* Mutant: the survivor runs no longer than the task that faults.
DurationSame(i) == 12

Duration(i) == IF i = 0 THEN 12 ELSE 24

counter_slot == IF level >= 6 THEN 1 ELSE 2 + current

\* Once round the timed loop, or out of it.
timed_loop ==
  /\ At("loop")
  /\ IF ticks - me.start >= Duration(current)
     THEN /\ Goes("report")
          /\ Step
          /\ UNCHANGED <<level, current, ticks, tasks, data, cr3, free, initial_free, stopped>>
     ELSE IF level >= 6 /\ data[SpaceOf(current)].marker # current
     THEN Panic("user address space marker changed")
     ELSE /\ data' = [data EXCEPT ![SpaceOf(current)].moved = @ \cup {counter_slot}]
          /\ Step
          /\ UNCHANGED <<level, current, ticks, tasks, user, cr3, free, initial_free, stopped>>

\* SYS_REPORT; the survivor's must come after the other task's fault.
report ==
  /\ At("report")
  /\ IF tasks[current].reported THEN Panic("user report differs")
     ELSE IF current = 1 /\ ~tasks[0].fault_seen THEN Panic("survivor has not run after fault")
     ELSE /\ tasks' = [tasks EXCEPT ![current].reported = TRUE]
          /\ Goes(IF current = 0 THEN "probe" ELSE "exit")
          /\ Step
          /\ UNCHANGED <<level, current, ticks, data, cr3, free, initial_free, stopped>>

\* Task 0 touches what it must not, and would again if it were resumed.
user_fault ==
  /\ At("probe")
  /\ IF current # 0 \/ ~tasks[current].reported THEN Panic("unexpected user fault")
     ELSE task_exit([tasks EXCEPT ![current].fault_seen = TRUE])

sys_exit == At("exit") /\ task_exit(tasks)

Halted == stopped \notin {"no", "preparing"} /\ UNCHANGED twoTaskVars

Program == script_call \/ start_loop \/ timed_loop \/ report \/ user_fault \/ sys_exit
TwoTaskNext == task_start \/ task_tick \/ count_forever \/ Program \/ Halted

TwoTaskSpec == TwoTaskInit /\ [][TwoTaskNext]_twoTaskVars

\* The timer keeps ticking, and between ticks the current task runs.
TwoTaskFairSpec ==
  /\ TwoTaskSpec
  /\ WF_twoTaskVars(task_start) /\ WF_twoTaskVars(task_tick)
  /\ WF_twoTaskVars(count_forever) /\ WF_twoTaskVars(Program)

-----------------------------------------------------------------------------
TwoTaskTypeOK ==
  /\ level \in Levels /\ current \in T /\ ticks \in Nat
  /\ \A i \in T : tasks[i].files \in [Fds -> Slot] /\ user[i].start \in 0 .. ticks
  /\ cr3 \in T \cup {Boot} /\ free \in Nat /\ steps \in 0 .. SliceSteps

EnoughMemory == level = 3 \/ initial_free >= Needed

\* Wherever the timer interrupts the two programs, no check of the kernel or
\* of the programs fails: every call returns what the program requires
\* although the other task makes the same calls in between, the survivor
\* reports after the fault, and all pages come back.
OnlyIntentionalStop ==
  EnoughMemory => stopped \in {"preparing", "no", "intentional stop"}

\* Every experiment comes to its intentional stop.
ExperimentCompletes == EnoughMemory ~> stopped = "intentional stop"
=============================================================================
