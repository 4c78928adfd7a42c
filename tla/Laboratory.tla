----------------------------- MODULE Laboratory -----------------------------
(***************************************************************************)
(* Processes of the interactive kernel, kernel/laboratory.c: the task      *)
(* table, spawn with every allocation it makes, the timer, exit, faults    *)
(* and wait, above the allocator of page.c.                                *)
(*                                                                         *)
(* Ring 3 is not trusted: whichever task is current may make any system    *)
(* call with any argument, raise an exception, or be preempted.  Handlers   *)
(* run with interrupts off on one processor, so each is one step, except   *)
(* spawn: its allocations are one step each, because any of them may be    *)
(* the one that fails.  Nothing else runs until it returns.                *)
(*                                                                         *)
(* An address space is the set of table pages it owns; Plan lists what     *)
(* prepare allocates, in order: the root, then for each mapped page the    *)
(* page and the tables vm_map adds for it (VM models the walk).            *)
(***************************************************************************)
EXTENDS Page, Sequences

CONSTANTS
  TaskLimit,     \* TASK_LIMIT
  TableLimit,    \* VM_TABLE_LIMIT
  PageLimit,     \* the length of task->pages, 19
  Plan,          \* prepare's allocations: a sequence of "table" and "page"
  Programs,      \* PROGRAM_COUNT: programs are 0 .. Programs - 1
  Statuses,      \* the exit statuses programs use
  Vectors,       \* the exceptions that programs raise
  MaxPid         \* bound on next_pid, far below the wrap at 2^32

ASSUME LabAssumption ==
  /\ TaskLimit \in Nat \ {0}
  /\ TableLimit \in Nat \ {0} /\ PageLimit \in Nat
  /\ Plan \in Seq({"table", "page"}) /\ Len(Plan) > 0 /\ Plan[1] = "table"
  /\ Programs \in Nat /\ MaxPid \in Nat \ {0}
  /\ Statuses \subseteq Nat /\ Vectors \subseteq Nat

VARIABLES
  state, id, parent, program, status, waiting_for,   \* fields of tasks[i]
  root, tables,     \* task->private_space
  owned,            \* task->pages[0 .. page_count - 1]
  rax,              \* task->frame->rax, what the last call returned
  dirty,            \* pages written to since they were last zeroed
  current, next_pid,
  cr3,              \* vm_current_root()
  spawning,         \* spawn in progress: who asked, the slot, steps done
  panic             \* why the kernel stopped

family == <<id, parent, program, status, waiting_for>>
spaces == <<root, tables, owned, dirty>>
cpu    == <<current, cr3>>
vars == <<pages, state, family, spaces, rax, cpu, next_pid, spawning, panic>>

Tasks == 0 .. (TaskLimit - 1)

PROCESS_UNUSED  == "unused"
PROCESS_READY   == "ready"
PROCESS_WAITING == "waiting"
PROCESS_EXITED  == "exited"
ProcessState == {PROCESS_UNUSED, PROCESS_READY, PROCESS_WAITING, PROCESS_EXITED}

PROGRAM_INIT  == 0
PROGRAM_SHELL == 1
PROGRAM_HELLO == 2

BootRoot == FrameCount      \* Limine's root: a page outside the allocator
NotSpawning == [by |-> "nobody", slot |-> 0, done |-> 0]

-----------------------------------------------------------------------------
(* next_ready and select_task.                                             *)

Slot(n) == IF n < TaskLimit THEN n ELSE n - TaskLimit       \* n % TASK_LIMIT

\* Mutant: the search starts at the bottom of the table every time.
NextReadyLowest(st, i) == st[i] = PROCESS_READY /\ \A j \in 0 .. (i - 1) : st[j] # PROCESS_READY

\* next_ready, given the task states st, returns i: the first ready task
\* after the current one, the current one itself being the last candidate.
NextReady(st, i) ==
  \E n \in 1 .. TaskLimit :
    /\ i = Slot(current + n)
    /\ st[i] = PROCESS_READY
    /\ \A m \in 1 .. (n - 1) : st[Slot(current + m)] # PROCESS_READY

NoneReady(st) == \A i \in Tasks : st[i] # PROCESS_READY

\* Mutant: the processor keeps the address space of the previous task.
select_task_stale(i) == current' = i /\ UNCHANGED cr3

select_task(i) == current' = i /\ cr3' = root[i]

-----------------------------------------------------------------------------
(* release_pages.                                                          *)

\* What it gives back: the tables if there is a space, and the user pages.
Released(i) == (IF root[i] # 0 THEN tables[i] ELSE {}) \cup owned[i]

\* With r in CR3, releasing task i stops at none of the kernel's checks.
ReleaseSafe(i, r) ==
  /\ root[i] # r
  /\ tables[i] \subseteq AllocatedFrames
  /\ owned[i] \subseteq AllocatedFrames \ tables[i]

release_pages(i) ==
  /\ PageFreeAll(Released(i))
  /\ root' = [root EXCEPT ![i] = 0]
  /\ tables' = [tables EXCEPT ![i] = {}]
  /\ owned' = [owned EXCEPT ![i] = {}]
  /\ UNCHANGED dirty

\* panic never returns: the state is not used again and stays as it was.
Panic(why) ==
  /\ panic' = why
  /\ UNCHANGED <<pages, state, family, spaces, rax, cpu, next_pid, spawning>>

-----------------------------------------------------------------------------
(* spawn and prepare.                                                      *)

\* task_start has called spawn(PROGRAM_INIT, 0) and spawn has cleared slot 0.
Init ==
  /\ \E managed \in Memories : PagesReady(managed)
  /\ state = [i \in Tasks |-> PROCESS_UNUSED]
  /\ id = [i \in Tasks |-> IF i = 0 THEN 1 ELSE 0]
  /\ parent = [i \in Tasks |-> 0]
  /\ program = [i \in Tasks |-> PROGRAM_INIT]
  /\ status = [i \in Tasks |-> 0]
  /\ waiting_for = [i \in Tasks |-> 0]
  /\ root = [i \in Tasks |-> 0]
  /\ tables = [i \in Tasks |-> {}]
  /\ owned = [i \in Tasks |-> {}]
  /\ rax = [i \in Tasks |-> 0]
  /\ dirty = Frames
  /\ current = 0 /\ next_pid = 2
  /\ cr3 = BootRoot
  /\ spawning = [by |-> "boot", slot |-> 0, done |-> 0]
  /\ panic = "none"

InUserMode == panic = "none" /\ spawning = NotSpawning
Returns(v) == rax' = [rax EXCEPT ![current] = v]

MaySpawn(p) ==
  \/ program[current] = PROGRAM_INIT /\ p = PROGRAM_SHELL
  \/ program[current] = PROGRAM_SHELL /\ p >= PROGRAM_HELLO /\ p < Programs

Unused(i) == state[i] = PROCESS_UNUSED
FirstUnused(i) == Unused(i) /\ \A j \in 0 .. (i - 1) : ~Unused(j)

\* SYS_SPAWN is allowed and there is a slot: clear it and name the process.
\* The slot keeps PROCESS_UNUSED until prepare has succeeded.
sys_spawn(p) ==
  /\ InUserMode
  /\ MaySpawn(p)
  /\ next_pid <= MaxPid
  /\ \E i \in Tasks :
       /\ FirstUnused(i)
       /\ spawning' = [by |-> "task", slot |-> i, done |-> 0]
       /\ id' = [id EXCEPT ![i] = next_pid]
       /\ parent' = [parent EXCEPT ![i] = id[current]]
       /\ program' = [program EXCEPT ![i] = p]
       /\ status' = [status EXCEPT ![i] = 0]
       /\ waiting_for' = [waiting_for EXCEPT ![i] = 0]
       /\ rax' = [rax EXCEPT ![i] = 0]
       /\ root' = [root EXCEPT ![i] = 0]
       /\ tables' = [tables EXCEPT ![i] = {}]
       /\ owned' = [owned EXCEPT ![i] = {}]
  /\ next_pid' = next_pid + 1
  /\ UNCHANGED <<pages, state, dirty, cpu, panic>>

\* ... or it is refused: not this program's right (-3), or no slot (-5).
sys_spawn_refused(p) ==
  /\ InUserMode
  /\ \/ ~MaySpawn(p) /\ Returns(-3)
     \/ MaySpawn(p) /\ (\A i \in Tasks : ~Unused(i)) /\ Returns(-5)
  /\ UNCHANGED <<pages, state, family, spaces, cpu, next_pid, spawning, panic>>

Preparing == panic = "none" /\ spawning # NotSpawning
MoreToDo  == spawning.done < Len(Plan)
Wanted    == Plan[spawning.done + 1]
HasRoom   == IF Wanted = "table"
             THEN Cardinality(tables[spawning.slot]) # TableLimit
             ELSE Cardinality(owned[spawning.slot]) # PageLimit

\* Mutant: a user page that is not cleared.
ZeroedNever(f) == dirty

\* memset(page_data(*pa), 0, PAGE_SIZE)
Zeroed(f) == dirty \ {f}

\* One allocation of prepare: new_table, or map_owned's user page.
prepare_alloc ==
  /\ Preparing /\ MoreToDo /\ HasRoom
  /\ \E f \in Frames :
       /\ PageAlloc(f)
       /\ IF Wanted = "table"
          THEN /\ tables' = [tables EXCEPT ![spawning.slot] = @ \cup {f}]
               /\ root' = [root EXCEPT ![spawning.slot] = IF @ = 0 THEN f ELSE @]
               /\ dirty' = dirty \ {f}
               /\ UNCHANGED owned
          ELSE /\ owned' = [owned EXCEPT ![spawning.slot] = @ \cup {f}]
               /\ dirty' = Zeroed(f)
               /\ UNCHANGED <<root, tables>>
  /\ spawning' = [spawning EXCEPT !.done = @ + 1]
  /\ UNCHANGED <<state, family, rax, cpu, next_pid, panic>>

\* Mutant: a failed spawn forgets what it has allocated.
SpawnCleanupLeaks(i) ==
  /\ root' = [root EXCEPT ![i] = 0]
  /\ tables' = [tables EXCEPT ![i] = {}]
  /\ owned' = [owned EXCEPT ![i] = {}]
  /\ UNCHANGED <<pages, dirty>>

SpawnCleanup(i) == release_pages(i)

\* prepare returns false: release what there is, clear the slot, return -5.
\* At boot there is no caller to return to.
spawn_fails ==
  /\ Preparing /\ MoreToDo
  /\ ~HasRoom \/ PageAllocFails
  /\ IF spawning.by = "boot" THEN Panic("LAB init creation failed")
     ELSE IF ~ReleaseSafe(spawning.slot, cr3) THEN Panic("ownership differs")
     ELSE LET i == spawning.slot IN
          /\ SpawnCleanup(i)
          /\ id' = [id EXCEPT ![i] = 0]
          /\ parent' = [parent EXCEPT ![i] = 0]
          /\ program' = [program EXCEPT ![i] = PROGRAM_INIT]
          /\ UNCHANGED <<status, waiting_for>>
          /\ Returns(-5)
          /\ spawning' = NotSpawning
          /\ UNCHANGED <<state, cpu, next_pid, panic>>

\* The process is ready.  From here on it may write to all its pages.  At
\* boot, task_start enters it.
spawn_done ==
  /\ Preparing /\ ~MoreToDo
  /\ state' = [state EXCEPT ![spawning.slot] = PROCESS_READY]
  /\ dirty' = dirty \cup owned[spawning.slot]
  /\ IF spawning.by = "boot"
     THEN select_task(0) /\ UNCHANGED rax
     ELSE Returns(id[spawning.slot]) /\ UNCHANGED cpu
  /\ spawning' = NotSpawning
  /\ UNCHANGED <<pages, family, root, tables, owned, next_pid, panic>>

-----------------------------------------------------------------------------
(* The timer, exit, faults and wait.                                       *)

task_tick ==
  /\ InUserMode
  /\ IF NoneReady(state) THEN Panic("LAB has no runnable shell")
     ELSE /\ \E i \in Tasks : NextReady(state, i) /\ select_task(i)
          /\ UNCHANGED <<pages, state, family, spaces, rax, next_pid, spawning, panic>>

\* Mutant: any waiting parent of the task is woken, whatever it waits for.
WaitersAnyChild(old) ==
  {i \in Tasks : id[i] = parent[old] /\ state[i] = PROCESS_WAITING}

\* The tasks that wait for old to exit.
Waiters(old) ==
  {i \in Tasks : /\ id[i] = parent[old] /\ state[i] = PROCESS_WAITING
                 /\ waiting_for[i] = id[old]}

\* Mutant: the wakeup is lost.
AfterExitAsleep(old) == [state EXCEPT ![old] = PROCESS_EXITED]

\* The states next_ready sees, and the last one of the exiting task.
AfterExit(old) ==
  [i \in Tasks |-> IF i = old THEN PROCESS_EXITED
                   ELSE IF i \in Waiters(old) THEN PROCESS_READY ELSE state[i]]
Reaped(old) == IF Waiters(old) # {} THEN PROCESS_UNUSED ELSE PROCESS_EXITED

\* Mutant: pages are released while CR3 still names the old root.
RootAtReleaseOld(next) == cr3

\* CR3 when release_pages runs: select_task(next) comes first.
RootAtRelease(next) == root[next]

\* Mutant: only init is protected, so a shell may leave its children behind.
EssentialInitOnly(i) == program[i] = PROGRAM_INIT

Essential(i) == program[i] <= PROGRAM_SHELL

task_exit(code) ==
  LET old == current IN
  IF Essential(old) THEN Panic("LAB init or shell exited")
  ELSE IF NoneReady(AfterExit(old)) THEN Panic("LAB has no runnable shell")
  ELSE \E next \in Tasks :
    /\ NextReady(AfterExit(old), next)
    /\ IF ~ReleaseSafe(old, RootAtRelease(next)) THEN Panic("ownership differs")
       ELSE /\ select_task(next)
            /\ state' = [AfterExit(old) EXCEPT ![old] = Reaped(old)]
            /\ status' = [status EXCEPT ![old] = code]
            /\ rax' = [i \in Tasks |-> IF i \in Waiters(old) THEN code ELSE rax[i]]
            /\ release_pages(old)
            /\ UNCHANGED <<id, parent, program, waiting_for, next_pid, spawning, panic>>

sys_exit(code) == InUserMode /\ task_exit(code)

\* The exceptions of ring 3 that interrupt_dispatch passes to user_fault:
\* divide error, invalid opcode, general protection and page fault.
UserFaults == {0, 6, 13, 14}

user_fault(vector) ==
  /\ InUserMode
  /\ vector \in UserFaults
  /\ task_exit(128 + vector)

\* Any other, a debug trap or a stack fault say, stops the kernel.
unexpected_exception(vector) ==
  /\ InUserMode
  /\ vector \notin UserFaults
  /\ Panic("unexpected CPU exception")

Child(i, pid) == state[i] # PROCESS_UNUSED /\ id[i] = pid /\ parent[i] = id[current]
FirstChild(i, pid) == Child(i, pid) /\ \A j \in 0 .. (i - 1) : ~Child(j, pid)

\* wait_child: the child has exited, is alive, or is not the caller's child.
wait_reaps(pid) ==
  /\ InUserMode
  /\ \E i \in Tasks :
       /\ FirstChild(i, pid) /\ state[i] = PROCESS_EXITED
       /\ Returns(status[i])
       /\ state' = [state EXCEPT ![i] = PROCESS_UNUSED]
  /\ UNCHANGED <<pages, family, spaces, cpu, next_pid, spawning, panic>>

wait_blocks(pid) ==
  /\ InUserMode
  /\ \E i \in Tasks : FirstChild(i, pid) /\ state[i] # PROCESS_EXITED
  /\ LET blocked == [state EXCEPT ![current] = PROCESS_WAITING] IN
     IF NoneReady(blocked) THEN Panic("LAB has no runnable shell")
     ELSE /\ state' = blocked
          /\ waiting_for' = [waiting_for EXCEPT ![current] = pid]
          /\ \E i \in Tasks : NextReady(blocked, i) /\ select_task(i)
          /\ UNCHANGED <<pages, id, parent, program, status, spaces, rax, next_pid, spawning, panic>>

wait_refused(pid) ==
  /\ InUserMode
  /\ \A i \in Tasks : ~Child(i, pid)
  /\ Returns(-3)
  /\ UNCHANGED <<pages, state, family, spaces, cpu, next_pid, spawning, panic>>

\* SYS_INSPECT reports every mapping of every task that has a space, and
\* stops the kernel if one has disappeared.
Complete(i) ==
  /\ Cardinality(owned[i]) = Cardinality({k \in DOMAIN Plan : Plan[k] = "page"})
  /\ Cardinality(tables[i]) = Cardinality({k \in DOMAIN Plan : Plan[k] = "table"})
  /\ owned[i] \subseteq AllocatedFrames

sys_inspect ==
  /\ InUserMode
  /\ IF \E i \in Tasks : state[i] # PROCESS_UNUSED /\ root[i] # 0 /\ ~Complete(i)
     THEN Panic("LAB mapping disappeared")
     ELSE /\ Returns(0)
          /\ UNCHANGED <<pages, state, family, spaces, cpu, next_pid, spawning, panic>>

Halted == panic # "none" /\ UNCHANGED vars

Pids == 0 .. MaxPid
Next ==
  \/ \E p \in 0 .. Programs : sys_spawn(p) \/ sys_spawn_refused(p)
  \/ prepare_alloc \/ spawn_fails \/ spawn_done
  \/ task_tick
  \/ \E code \in Statuses : sys_exit(code)
  \/ \E vector \in Vectors : user_fault(vector) \/ unexpected_exception(vector)
  \/ \E pid \in Pids : wait_reaps(pid) \/ wait_blocks(pid) \/ wait_refused(pid)
  \/ sys_inspect
  \/ Halted

Spec == Init /\ [][Next]_vars

-----------------------------------------------------------------------------
Why == {"none", "LAB init creation failed", "LAB init or shell exited",
        "unexpected CPU exception", "LAB has no runnable shell", "ownership differs", "LAB mapping disappeared"}

TypeOK ==
  /\ PageTypeOK
  /\ state \in [Tasks -> ProcessState]
  /\ id \in [Tasks -> Nat] /\ parent \in [Tasks -> Nat] /\ waiting_for \in [Tasks -> Nat]
  /\ program \in [Tasks -> Nat] /\ status \in [Tasks -> Nat]
  /\ root \in [Tasks -> Frames]
  /\ tables \in [Tasks -> SUBSET Frames] /\ owned \in [Tasks -> SUBSET Frames]
  /\ rax \in [Tasks -> Int]
  /\ dirty \subseteq Frames
  /\ current \in Tasks /\ next_pid \in Nat
  /\ cr3 \in Frames \cup {BootRoot}
  /\ spawning \in [by : {"nobody", "boot", "task"}, slot : Tasks, done : 0 .. Len(Plan)]
  /\ panic \in Why

Held(i)  == tables[i] \cup owned[i]
Alive(i) == state[i] \in {PROCESS_READY, PROCESS_WAITING}

\* Every page that page_alloc has handed out belongs to exactly one task that
\* is alive or being prepared.  So a process takes all its memory with it
\* when it exits or faults, a spawn that runs out of memory half way gives
\* back what it took, and no page is reachable from two processes.
PagesHaveOneOwner ==
  /\ AllocatedFrames = UNION {Held(i) : i \in Tasks}
  /\ \A i \in Tasks :
       /\ tables[i] \cap owned[i] = {}
       /\ root[i] # 0 => root[i] \in tables[i]
       /\ root[i] = 0 => tables[i] = {}
       /\ Held(i) # {} => Alive(i) \/ (spawning # NotSpawning /\ spawning.slot = i)
       /\ \A j \in Tasks \ {i} : Held(i) \cap Held(j) = {}

\* While user code runs, CR3 is the root of the current task, that task is
\* ready, and its tables are still its own: exit switches before it releases.
CurrentIsMapped ==
  panic = "none" /\ spawning.by # "boot" =>
    /\ state[current] = PROCESS_READY
    /\ cr3 = root[current] /\ cr3 \in tables[current]

\* No wakeup is lost: whoever waits, waits for a child of its own that is
\* still alive, and so will be woken when that child exits.
WaiterHasLivingChild ==
  \A i \in Tasks : state[i] = PROCESS_WAITING =>
    \E c \in Tasks : Alive(c) /\ id[c] = waiting_for[i] /\ parent[c] = id[i]

\* A pid names one process among those that are alive or not yet reaped, and
\* every process but init has a living parent that can reap it.
FamilyIntact ==
  /\ \A i, j \in Tasks : ~Unused(i) /\ ~Unused(j) /\ id[i] = id[j] => i = j
  /\ \A i \in Tasks : ~Unused(i) /\ program[i] # PROGRAM_INIT =>
       \E p \in Tasks : Alive(p) /\ id[p] = parent[i]

\* None of the kernel's own checks ever fails: it never stops because no task
\* can run, an active root is released, or a page is not where its owner left
\* it.  What stops it comes from outside: too little memory for init, an init
\* or shell that exits, an exception of ring 3 it has no handler for.
NoInternalPanic ==
  panic \in {"none", "LAB init creation failed", "LAB init or shell exited",
             "unexpected CPU exception"}

\* What a process finds in the memory it is given was zeroed for it.
PagesArriveClean ==
  spawning # NotSpawning => owned[spawning.slot] \cap dirty = {}

\* wait returns the status of the child it names, once: the step that hands
\* the status over frees the child's slot, whether the child exits during
\* the wait or was already a zombie.
WaitReturnsStatus ==
  [][\A i \in Tasks :
       /\ state[i] = PROCESS_WAITING /\ state'[i] # PROCESS_WAITING =>
            \E c \in Tasks : /\ c = current /\ id[c] = waiting_for[i] /\ parent[c] = id[i]
                            /\ state'[i] = PROCESS_READY /\ rax'[i] = status'[c]
                            /\ state'[c] = PROCESS_UNUSED
       /\ state[i] = PROCESS_EXITED /\ state'[i] # PROCESS_EXITED =>
            /\ state'[i] = PROCESS_UNUSED
            /\ parent[i] = id[current] /\ rax'[current] = status[i]]_vars

\* What the callers of spawn, exit and wait see of task i ...
Shown(i) ==
  [parent |-> parent[i], program |-> program[i], state |-> state[i],
   waiting_for |-> IF state[i] = PROCESS_WAITING THEN waiting_for[i] ELSE 0,
   status |-> IF state[i] = PROCESS_EXITED THEN status[i] ELSE 0,
   result |-> rax[i]]

\* ... by pid.
Listed == {i \in Tasks : ~Unused(i)}
Table  == [p \in {id[i] : i \in Listed} |-> Shown(CHOOSE i \in Listed : id[i] = p)]

\* Who runs, and the last pid that has gone to a process.
Running == IF Unused(current) THEN 0 ELSE id[current]
Issued  == IF spawning = NotSpawning THEN next_pid - 1 ELSE next_pid - 2

Abi == INSTANCE Processes WITH
  processes <- Table,
  running   <- Running,
  issued    <- Issued,
  stopped   <- panic,
  Codes     <- Statuses \cup {128 + v : v \in Vectors \cap UserFaults}

\* laboratory.c implements Processes: whatever fills the table, runs
\* out of memory, faults or is preempted, every step a process can notice is
\* one step of Processes, and a spawn half done is not noticed.
ImplementsProcesses == Abi!Spec

\* Every ready task runs again, as long as the kernel does: round robin
\* starves nobody, whatever the others do.  (Under Observation's fairness.)
ReadyTasksRun ==
  \A i \in Tasks : state[i] = PROCESS_READY ~> (current = i \/ panic # "none")
=============================================================================
