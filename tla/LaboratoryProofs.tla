-------------------------- MODULE LaboratoryProofs --------------------------
(***************************************************************************)
(* The processes of kernel/laboratory.c, for every size of the task table, *)
(* every memory, every layout of an address space and every program: the   *)
(* invariants of Laboratory are theorems, and so is what wait returns.     *)
(*                                                                         *)
(* None of them is inductive alone.  What ties them together is the shape  *)
(* of the family: init starts shells, shells start programs, and programs  *)
(* start nothing, so the task that exits never leaves a child behind and a *)
(* chain of waiting tasks is at most two long and ends in a ready one.     *)
(*                                                                         *)
(* Then Laboratory implements Processes: the table is rebuilt by pid after *)
(* every step, and a spawn half done is invisible because the slot it      *)
(* fills is still unused and carries the last pid.                         *)
(*                                                                         *)
(* The last part is about Observation: the mirror that tools/lab_guest.py  *)
(* builds agrees with the task table once all records have been applied.   *)
(***************************************************************************)
EXTENDS Observation, PageProofs, SequenceFacts

\* Page zero is never managed, so 0 can stand for "no root".
ZeroReserved == states[0] = PAGE_UNMANAGED

\* The first n allocations of prepare that are of this kind.
Planned(kind, n) == {k \in 1 .. n : Plan[k] = kind}

\* The space under construction holds what the allocations so far put there,
\* the root first.
Building ==
  spawning # NotSpawning =>
    /\ spawning.done > 0 => root[spawning.slot] # 0
    /\ Cardinality(owned[spawning.slot]) = Cardinality(Planned("page", spawning.done))
    /\ Cardinality(tables[spawning.slot]) = Cardinality(Planned("table", spawning.done))

\* A living task has a root and all the pages of the plan.
Built == \A i \in Tasks : Alive(i) => root[i] # 0 /\ Complete(i)

\* A pid in use has been handed out, and never is 0.
PidsIssued ==
  /\ next_pid > 1
  /\ \A i \in Tasks : ~Unused(i) => id[i] > 0 /\ id[i] < next_pid

\* Init is nobody's child, shells are children of init, and the other
\* programs are children of a shell.
Begets(p, q) ==
  \/ p = PROGRAM_INIT /\ q = PROGRAM_SHELL
  \/ p = PROGRAM_SHELL /\ q >= PROGRAM_HELLO
Lineage ==
  /\ \A i \in Tasks : ~Unused(i) /\ program[i] = PROGRAM_INIT => parent[i] = 0
  /\ \A i, p \in Tasks : ~Unused(i) /\ ~Unused(p) /\ id[p] = parent[i] =>
       Begets(program[p], program[i])

\* The slot being filled is still unused, and carries a fresh pid and the
\* name of the caller.  The first spawn has no caller and an empty table.
SpawnAsked ==
  /\ spawning.by = "nobody" => spawning = NotSpawning
  /\ spawning.by = "boot" =>
       /\ spawning.slot = 0
       /\ \A i \in Tasks : Unused(i)
       /\ program[0] = PROGRAM_INIT /\ id[0] = 1 /\ parent[0] = 0
  /\ spawning.by = "task" =>
       /\ Unused(spawning.slot)
       /\ parent[spawning.slot] = id[current]
       /\ id[spawning.slot] > 0 /\ id[spawning.slot] < next_pid
       /\ \A i \in Tasks : ~Unused(i) => id[i] # id[spawning.slot]
       /\ Begets(program[current], program[spawning.slot])

MemoryInv == /\ CountExact /\ ZeroReserved /\ PagesHaveOneOwner
             /\ Building /\ Built /\ PagesArriveClean
FamilyInv == PidsIssued /\ Lineage /\ SpawnAsked /\ FamilyIntact /\ WaiterHasLivingChild
\* The inductive invariant.
LabInv == TypeOK /\ MemoryInv /\ FamilyInv /\ CurrentIsMapped /\ NoInternalPanic

-----------------------------------------------------------------------------
(* Facts about the definitions.                                            *)

\* Slot 0 and frame 0 exist.
LEMMA ZeroIsThere == 0 \in Tasks /\ 0 \in Frames
BY LabAssumption, FrameCountAssumption DEF Tasks, Frames

\* next_ready returns a ready task.
LEMMA NextReadyIsReady ==
  ASSUME NEW st, NEW i \in Tasks, NextReady(st, i)
  PROVE  st[i] = PROCESS_READY
BY DEF NextReady

\* While user code runs, its task is ready and CR3 is its root.
LEMMA UserMode ==
  ASSUME LabInv, InUserMode
  PROVE  /\ spawning = NotSpawning /\ panic = "none"
         /\ current \in Tasks /\ state[current] = PROCESS_READY
         /\ cr3 = root[current] /\ cr3 \in tables[current]
<1>1. spawning.by # "boot"
  BY DEF InUserMode, NotSpawning
<1>2. QED
  BY <1>1 DEF LabInv, TypeOK, InUserMode, CurrentIsMapped

\* A released page is never the root of another task: releasing a task whose
\* root is not in CR3 passes every check of page_free and vm_destroy.
LEMMA ReleaseIsSafe ==
  ASSUME LabInv, NEW i \in Tasks, NEW j \in Tasks, i # j, root[j] # 0
  PROVE  ReleaseSafe(i, root[j])
<1>1. Held(i) \subseteq AllocatedFrames /\ tables[i] \cap owned[i] = {}
  BY DEF LabInv, MemoryInv, PagesHaveOneOwner
<1>2. root[j] \in Held(j) /\ Held(i) \cap Held(j) = {}
  BY DEF LabInv, MemoryInv, PagesHaveOneOwner, Held
<1>3. root[i] # 0 => root[i] \in Held(i)
  BY DEF LabInv, MemoryInv, PagesHaveOneOwner, Held
<1>4. QED
  BY <1>1, <1>2, <1>3 DEF ReleaseSafe, Held

\* What a step leaves alone when it touches neither memory nor the table.
LEMMA MemorySame ==
  ASSUME MemoryInv, UNCHANGED <<pages, state, spaces, spawning>>
  PROVE  MemoryInv'
<1> USE DEF spaces, pages
<1>1. CountExact'
  BY DEF MemoryInv, CountExact, FreeFrames
<1>2. ZeroReserved'
  BY DEF MemoryInv, ZeroReserved
<1>3. PagesHaveOneOwner'
  BY DEF MemoryInv, PagesHaveOneOwner, AllocatedFrames, Held, Alive
<1>4. Building' /\ PagesArriveClean'
  BY DEF MemoryInv, Building, PagesArriveClean
<1>5. Built'
  BY DEF MemoryInv, Built, Alive, Complete, AllocatedFrames
<1>6. QED
  BY <1>1, <1>2, <1>3, <1>4, <1>5 DEF MemoryInv

\* Likewise the family, when neither the table nor who runs changes.
LEMMA FamilySame ==
  ASSUME FamilyInv, UNCHANGED <<state, family, current, next_pid, spawning>>
  PROVE  FamilyInv'
<1> USE DEF family
<1>1. PidsIssued' /\ Lineage'
  BY DEF FamilyInv, PidsIssued, Lineage, Unused
<1>2. SpawnAsked'
  BY DEF FamilyInv, SpawnAsked, Unused
<1>3. FamilyIntact' /\ WaiterHasLivingChild'
  BY DEF FamilyInv, FamilyIntact, WaiterHasLivingChild, Unused, Alive
<1>4. QED
  BY <1>1, <1>2, <1>3 DEF FamilyInv

\* A call that only returns a value, or a stop that comes from outside.
LEMMA QuietStep ==
  ASSUME LabInv, UNCHANGED <<pages, state, family, spaces, cpu, next_pid, spawning>>,
         rax' \in [Tasks -> Int], panic' = panic \/ panic' # "none",
         NoInternalPanic'
  PROVE  LabInv'
<1>1. TypeOK'
  BY DEF LabInv, TypeOK, PageTypeOK, pages, family, spaces, cpu, NoInternalPanic, Why
<1>2. MemoryInv'
  BY MemorySame DEF LabInv
<1>3. FamilyInv'
  BY FamilySame DEF LabInv, cpu
<1>4. CurrentIsMapped'
  BY DEF LabInv, CurrentIsMapped, cpu, spaces
<1>5. QED
  BY <1>1, <1>2, <1>3, <1>4 DEF LabInv

\* In user mode a call that only returns a value preserves the invariant.
LEMMA ReturnStep ==
  ASSUME LabInv, NEW v \in Int, Returns(v), 
         UNCHANGED <<pages, state, family, spaces, cpu, next_pid, spawning, panic>>
  PROVE  LabInv'
<1>1. rax' \in [Tasks -> Int]
  BY DEF LabInv, TypeOK, Returns
<1>2. NoInternalPanic'
  BY DEF LabInv, NoInternalPanic
<1>3. QED
  BY <1>1, <1>2, QuietStep

\* A stop leaves everything else as it was.
LEMMA PanicStep ==
  ASSUME LabInv,
         NEW why \in {"LAB init creation failed", "LAB init or shell exited",
                      "unexpected CPU exception"},
         Panic(why)
  PROVE  LabInv'
<1>1. rax' \in [Tasks -> Int]
  BY DEF LabInv, TypeOK, Panic
<1>2. NoInternalPanic' /\ panic' # "none"
  BY DEF Panic, NoInternalPanic
<1>3. QED
  BY <1>1, <1>2, QuietStep DEF Panic

-----------------------------------------------------------------------------
(* Initial states, and spawn.                                              *)

\* When task_start has called spawn for init, the invariant holds.
LEMMA LabInit == Init => LabInv
<1> SUFFICES ASSUME Init PROVE LabInv
  OBVIOUS
<1> USE DEF Init
<1>1. PICK managed \in Memories : PagesReady(managed)
  OBVIOUS
<1>2. managed \in SUBSET Frames /\ 0 \notin managed
  BY MemoriesAssumption
<1>3. PageTypeOK /\ CountExact /\ AllocatedFrames = {}
  BY <1>1, <1>2, ReadyEstablishes
<1>4. ZeroReserved
  BY <1>1, <1>2, ZeroIsThere DEF PagesReady, ZeroReserved
<1>5. TypeOK
  <2>1. spawning \in [by : {"nobody", "boot", "task"}, slot : Tasks, done : 0 .. Len(Plan)]
    BY ZeroIsThere, LabAssumption
  <2>2. QED
    BY <1>3, <2>1, ZeroIsThere DEF TypeOK, ProcessState, PROCESS_UNUSED, PROGRAM_INIT, BootRoot, Why
<1>6. PagesHaveOneOwner
  <2>1. \A i \in Tasks : Held(i) = {}
    BY DEF Held
  <2>2. QED
    BY <1>3, <2>1 DEF PagesHaveOneOwner
<1>7. Building /\ PagesArriveClean
  <2>1. Planned("page", 0) = {} /\ Planned("table", 0) = {}
    BY DEF Planned
  <2>2. QED
    BY <2>1, ZeroIsThere DEF Building, PagesArriveClean
<1>8. Built /\ PidsIssued /\ Lineage /\ FamilyIntact /\ WaiterHasLivingChild
  BY DEF Built, PidsIssued, Lineage, FamilyIntact, WaiterHasLivingChild, Alive, Unused,
         PROCESS_UNUSED, PROCESS_READY, PROCESS_WAITING
<1>9. SpawnAsked /\ CurrentIsMapped /\ NoInternalPanic
  BY ZeroIsThere DEF SpawnAsked, CurrentIsMapped, NoInternalPanic, Unused
<1>10. QED
  BY <1>3, <1>4, <1>5, <1>6, <1>7, <1>8, <1>9 DEF LabInv, MemoryInv, FamilyInv

\* The slot spawn clears was unused and held nothing, so clearing it leaks
\* nothing; the new pid is above every pid in use.
LEMMA SpawnStep ==
  ASSUME LabInv, NEW p \in 0 .. Programs, sys_spawn(p)
  PROVE  LabInv'
<1>1. /\ spawning = NotSpawning /\ panic = "none" /\ panic' = panic
      /\ current \in Tasks /\ state[current] = PROCESS_READY
      /\ cr3 = root[current] /\ cr3 \in tables[current]
  BY UserMode DEF sys_spawn
<1>2. PICK i \in Tasks :
        /\ Unused(i)
        /\ spawning' = [by |-> "task", slot |-> i, done |-> 0]
        /\ id' = [id EXCEPT ![i] = next_pid]
        /\ parent' = [parent EXCEPT ![i] = id[current]]
        /\ program' = [program EXCEPT ![i] = p]
        /\ status' = [status EXCEPT ![i] = 0]
        /\ waiting_for' = [waiting_for EXCEPT ![i] = 0]
        /\ rax' = [rax EXCEPT ![i] = 0]
        /\ root' = [root EXCEPT ![i] = 0]
        /\ tables' = [tables EXCEPT ![i] = {}]
        /\ owned' = [owned EXCEPT ![i] = {}]
  BY DEF sys_spawn, FirstUnused
<1>3. i # current
  BY <1>1, <1>2 DEF Unused, PROCESS_READY, PROCESS_UNUSED
<1>4. Held(i) = {} /\ tables[i] = {} /\ owned[i] = {} /\ root[i] = 0
  <2>1. ~Alive(i)
    BY <1>2 DEF Alive, Unused, PROCESS_READY, PROCESS_UNUSED, PROCESS_WAITING
  <2>2. QED
    BY <1>1, <2>1 DEF LabInv, MemoryInv, PagesHaveOneOwner, Held
<1>5. UNCHANGED <<pages, state, dirty, current, cr3, panic>> /\ next_pid' = next_pid + 1
  BY DEF sys_spawn, cpu
<1>6. tables' = tables /\ owned' = owned /\ root' = root
  BY <1>2, <1>4 DEF LabInv, TypeOK
<1>7. TypeOK'
  <2>1. spawning' \in [by : {"nobody", "boot", "task"}, slot : Tasks, done : 0 .. Len(Plan)]
    BY <1>2, LabAssumption
  <2>2. PageTypeOK'
    BY <1>5 DEF LabInv, TypeOK, PageTypeOK, pages
  <2>3. p \in Nat
    BY LabAssumption
  <2>4. next_pid \in Nat /\ id[current] \in Nat
    BY <1>1 DEF LabInv, TypeOK
  <2>5. /\ id' \in [Tasks -> Nat] /\ parent' \in [Tasks -> Nat]
        /\ program' \in [Tasks -> Nat] /\ status' \in [Tasks -> Nat]
        /\ waiting_for' \in [Tasks -> Nat]
    BY <1>2, <2>3, <2>4 DEF LabInv, TypeOK
  <2>6. rax' \in [Tasks -> Int]
    BY <1>2 DEF LabInv, TypeOK
  <2>7. next_pid' \in Nat
    BY <1>5, <2>4
  <2>8. QED
    BY <1>5, <1>6, <2>1, <2>2, <2>5, <2>6, <2>7 DEF LabInv, TypeOK
<1>8. MemoryInv'
  <2>1. CountExact' /\ ZeroReserved'
    BY <1>5 DEF LabInv, MemoryInv, CountExact, FreeFrames, ZeroReserved, pages
  <2>2. PagesHaveOneOwner'
    BY <1>1, <1>5, <1>6
    DEF LabInv, MemoryInv, PagesHaveOneOwner, Held, Alive, AllocatedFrames, pages
  <2>3. Built'
    BY <1>5, <1>6 DEF LabInv, MemoryInv, Built, Alive, Complete, AllocatedFrames, pages
  <2>4. Building' /\ PagesArriveClean'
    <3>1. Planned("page", 0) = {} /\ Planned("table", 0) = {}
      BY DEF Planned
    <3>2. /\ spawning'.slot = i /\ spawning'.done = 0
          /\ owned'[i] = {} /\ tables'[i] = {}
      BY <1>2, <1>4, <1>6
    <3>3. QED
      BY <3>1, <3>2 DEF Building, PagesArriveClean
  <2>5. QED
    BY <2>1, <2>2, <2>3, <2>4 DEF MemoryInv
<1>9. FamilyInv'
  <2>1. \A j \in Tasks \ {i} : /\ id'[j] = id[j] /\ parent'[j] = parent[j]
                               /\ program'[j] = program[j] /\ waiting_for'[j] = waiting_for[j]
    BY <1>2 DEF LabInv, TypeOK
  <2>2. \A j \in Tasks : ~Unused(j) => j # i
    BY <1>2
  <2>3. \A j \in Tasks : /\ Unused(j)' <=> Unused(j)
                         /\ Alive(j)' <=> Alive(j)
                         /\ Alive(j) => ~Unused(j)
    BY <1>5 DEF Unused, Alive, PROCESS_READY, PROCESS_UNUSED, PROCESS_WAITING
  <2>4. /\ id'[i] = next_pid /\ parent'[i] = id[current] /\ program'[i] = p
        /\ id'[current] = id[current] /\ program'[current] = program[current]
    BY <1>1, <1>2, <1>3 DEF LabInv, TypeOK
  <2>5. PidsIssued'
    <3>1. next_pid \in Nat /\ \A j \in Tasks : id[j] \in Nat
      BY DEF LabInv, TypeOK
    <3>2. QED
      BY <1>5, <2>1, <2>2, <2>3, <3>1 DEF LabInv, FamilyInv, PidsIssued
  <2>6. Lineage'
    BY <2>1, <2>2, <2>3 DEF LabInv, FamilyInv, Lineage
  <2>7. SpawnAsked'
    <3>1. Begets(program[current], p)
      BY DEF sys_spawn, MaySpawn, Begets
    <3>2. \A j \in Tasks : ~Unused(j) => id[j] # next_pid /\ next_pid > 0
      BY DEF LabInv, TypeOK, FamilyInv, PidsIssued
    <3>3. next_pid > 0 /\ next_pid < next_pid'
      BY <1>5 DEF LabInv, TypeOK, FamilyInv, PidsIssued
    <3>4. QED
      BY <1>2, <1>5, <2>1, <2>2, <2>3, <2>4, <3>1, <3>2, <3>3 DEF SpawnAsked
  <2>8. FamilyIntact'
    BY <2>1, <2>2, <2>3 DEF LabInv, FamilyInv, FamilyIntact
  <2>9. WaiterHasLivingChild'
    <3>1. \A j \in Tasks : state[j] = PROCESS_WAITING => j # i
      BY <1>2 DEF Unused, PROCESS_UNUSED, PROCESS_WAITING
    <3>2. QED
      BY <1>5, <2>1, <2>2, <2>3, <3>1 DEF LabInv, FamilyInv, WaiterHasLivingChild
  <2>10. QED
    BY <2>5, <2>6, <2>7, <2>8, <2>9 DEF FamilyInv
<1>10. CurrentIsMapped' /\ NoInternalPanic'
  BY <1>1, <1>5, <1>6 DEF CurrentIsMapped, NoInternalPanic
<1>11. QED
  BY <1>7, <1>8, <1>9, <1>10 DEF LabInv

\* Planned counts one more allocation of this kind, or the same number.
LEMMA PlannedGrows ==
  ASSUME NEW n \in Nat, NEW kind
  PROVE  Cardinality(Planned(kind, n + 1)) =
           IF Plan[n + 1] = kind THEN Cardinality(Planned(kind, n)) + 1
                                 ELSE Cardinality(Planned(kind, n))
<1>1. IsFiniteSet(1 .. n)
  BY FS_Interval
<1>2. IsFiniteSet(Planned(kind, n)) /\ n + 1 \notin Planned(kind, n)
  BY <1>1, FS_Subset DEF Planned
<1>3. CASE Plan[n + 1] = kind
  <2>1. Planned(kind, n + 1) = Planned(kind, n) \cup {n + 1}
    BY <1>3 DEF Planned
  <2>2. QED
    BY <1>2, <1>3, <2>1, FS_AddElement
<1>4. CASE Plan[n + 1] # kind
  <2>1. Planned(kind, n + 1) = Planned(kind, n)
    BY <1>4 DEF Planned
  <2>2. QED
    BY <1>4, <2>1
<1>5. QED
  BY <1>3, <1>4

\* An allocation of prepare goes to the slot being filled and to nobody else.
LEMMA AllocStep == LabInv /\ prepare_alloc => LabInv'
<1> SUFFICES ASSUME LabInv, prepare_alloc PROVE LabInv'
  OBVIOUS
<1>1. PICK s \in Tasks, n \in Nat :
        /\ panic = "none" /\ spawning # NotSpawning
        /\ spawning.slot = s /\ spawning.done = n /\ n < Len(Plan)
        /\ spawning.by \in {"nobody", "boot", "task"}
  BY LabAssumption DEF prepare_alloc, Preparing, MoreToDo, LabInv, TypeOK
<1>2. PICK f \in Frames :
        /\ PageAlloc(f)
        /\ IF Wanted = "table"
           THEN /\ tables' = [tables EXCEPT ![s] = @ \cup {f}]
                /\ root' = [root EXCEPT ![s] = IF @ = 0 THEN f ELSE @]
                /\ dirty' = dirty \ {f}
                /\ UNCHANGED owned
           ELSE /\ owned' = [owned EXCEPT ![s] = @ \cup {f}]
                /\ dirty' = dirty \ {f}
                /\ UNCHANGED <<root, tables>>
  BY <1>1 DEF prepare_alloc, Zeroed
<1>3. /\ UNCHANGED <<state, id, parent, program, status, waiting_for, rax, current, cr3,
                     next_pid, panic>>
      /\ spawning' = [spawning EXCEPT !.done = @ + 1]
  BY DEF prepare_alloc, family, cpu
<1>4. /\ spawning'.slot = s /\ spawning'.done = n + 1 /\ spawning'.by = spawning.by
      /\ spawning' # NotSpawning
      /\ spawning' \in [by : {"nobody", "boot", "task"}, slot : Tasks, done : 0 .. Len(Plan)]
  <2>1. /\ spawning'.slot = s /\ spawning'.done = n + 1 /\ spawning'.by = spawning.by
        /\ spawning' \in [by : {"nobody", "boot", "task"}, slot : Tasks, done : 0 .. Len(Plan)]
    <3>1. Len(Plan) \in Nat /\ n + 1 \in 0 .. Len(Plan)
      BY <1>1, LabAssumption
    <3>2. spawning \in [by : {"nobody", "boot", "task"}, slot : Tasks, done : 0 .. Len(Plan)]
      BY DEF LabInv, TypeOK
    <3>3. QED
      BY <1>1, <1>3, <3>1, <3>2
  <2>2. n + 1 # 0
    BY <1>1
  <2>3. QED
    BY <2>1, <2>2 DEF NotSpawning
<1>5. Wanted \in {"table", "page"} /\ Wanted = Plan[n + 1]
  BY <1>1, LabAssumption DEF Wanted
<1>6. /\ states[f] = PAGE_FREE /\ f \notin AllocatedFrames
      /\ AllocatedFrames' = AllocatedFrames \cup {f}
      /\ PageTypeOK' /\ CountExact'
  BY <1>2, AllocEffect, AllocPreserves DEF LabInv, TypeOK, MemoryInv
<1>7. f # 0 /\ ZeroReserved'
  BY <1>2, <1>6, ZeroIsThere
  DEF LabInv, TypeOK, PageTypeOK, MemoryInv, ZeroReserved, PageAlloc, PAGE_FREE, PAGE_UNMANAGED
<1>8. /\ tables \in [Tasks -> SUBSET Frames] /\ owned \in [Tasks -> SUBSET Frames]
      /\ root \in [Tasks -> Frames]
  BY DEF LabInv, TypeOK
<1>9. \A j \in Tasks \ {s} : tables'[j] = tables[j] /\ owned'[j] = owned[j] /\ root'[j] = root[j]
  BY <1>1, <1>2, <1>8
<1>10. /\ Wanted = "table" => /\ tables'[s] = tables[s] \cup {f} /\ owned'[s] = owned[s]
                              /\ root'[s] = IF root[s] = 0 THEN f ELSE root[s]
       /\ Wanted = "page"  => /\ owned'[s] = owned[s] \cup {f} /\ tables'[s] = tables[s]
                              /\ root'[s] = root[s]
  BY <1>1, <1>2, <1>8
<1>11. f \notin tables[s] /\ f \notin owned[s]
  BY <1>1, <1>6 DEF LabInv, MemoryInv, PagesHaveOneOwner, Held
<1>12. TypeOK'
  <2>1. /\ tables' \in [Tasks -> SUBSET Frames] /\ owned' \in [Tasks -> SUBSET Frames]
        /\ root' \in [Tasks -> Frames]
    BY <1>1, <1>2, <1>8
  <2>2. dirty' \subseteq Frames
    BY <1>2 DEF LabInv, TypeOK
  <2>3. QED
    BY <1>3, <1>4, <1>6, <2>1, <2>2 DEF LabInv, TypeOK
<1>13. Building'
  <2>1. IsFiniteSet(tables[s]) /\ IsFiniteSet(owned[s])
    BY <1>1, <1>8, FramesFinite
  <2>2. /\ Cardinality(tables[s] \cup {f}) = Cardinality(tables[s]) + 1
        /\ Cardinality(owned[s] \cup {f}) = Cardinality(owned[s]) + 1
    BY <1>11, <2>1, FS_AddElement
  <2>3. /\ Cardinality(owned[s]) = Cardinality(Planned("page", n))
        /\ Cardinality(tables[s]) = Cardinality(Planned("table", n))
        /\ n > 0 => root[s] # 0
    BY <1>1 DEF LabInv, MemoryInv, Building
  <2>4. root'[s] # 0
    <3>1. n = 0 => Wanted = "table"
      BY <1>5, LabAssumption
    <3>2. QED
      BY <1>1, <1>5, <1>7, <1>10, <2>3, <3>1
  <2>5. CASE Wanted = "table"
    <3>1. Plan[n + 1] = "table" /\ Plan[n + 1] # "page"
      BY <1>5, <2>5
    <3>2. /\ Cardinality(Planned("table", n + 1)) = Cardinality(Planned("table", n)) + 1
          /\ Cardinality(Planned("page", n + 1)) = Cardinality(Planned("page", n))
      BY <1>1, <3>1, PlannedGrows
    <3>3. QED
      BY <1>4, <1>10, <2>2, <2>3, <2>4, <2>5, <3>2 DEF Building
  <2>6. CASE Wanted = "page"
    <3>1. Plan[n + 1] = "page" /\ Plan[n + 1] # "table"
      BY <1>5, <2>6
    <3>2. /\ Cardinality(Planned("page", n + 1)) = Cardinality(Planned("page", n)) + 1
          /\ Cardinality(Planned("table", n + 1)) = Cardinality(Planned("table", n))
      BY <1>1, <3>1, PlannedGrows
    <3>3. QED
      BY <1>4, <1>10, <2>2, <2>3, <2>4, <2>6, <3>2 DEF Building
  <2>7. QED
    BY <1>5, <2>5, <2>6
<1>14. PagesArriveClean'
  BY <1>1, <1>2, <1>4, <1>5, <1>10 DEF LabInv, MemoryInv, PagesArriveClean
<1>15. ~Alive(s)
  BY <1>1 DEF LabInv, FamilyInv, SpawnAsked, Unused, Alive,
              PROCESS_READY, PROCESS_WAITING, PROCESS_UNUSED
<1>16. Built'
  <2>1. \A i \in Tasks : Alive(i)' => Alive(i) /\ i # s
    BY <1>3, <1>15 DEF Alive
  <2>2. ASSUME NEW i \in Tasks, Alive(i)' PROVE Complete(i)'
    <3>1. Complete(i) /\ tables'[i] = tables[i] /\ owned'[i] = owned[i]
      BY <1>9, <2>1, <2>2 DEF LabInv, MemoryInv, Built
    <3>2. QED
      BY <1>6, <3>1 DEF Complete
  <2>3. QED
    BY <1>9, <2>1, <2>2 DEF LabInv, MemoryInv, Built
<1>17. PagesHaveOneOwner'
  <2>1. \A i \in Tasks \ {s} : Held(i)' = Held(i)
    BY <1>9 DEF Held
  <2>2. Held(s)' = Held(s) \cup {f}
    BY <1>5, <1>10 DEF Held
  <2>3. /\ AllocatedFrames = UNION {Held(i) : i \in Tasks}
        /\ \A i \in Tasks : Held(i) \subseteq AllocatedFrames
    BY DEF LabInv, MemoryInv, PagesHaveOneOwner
  <2>4. AllocatedFrames' = UNION {Held(i)' : i \in Tasks}
    BY <1>1, <1>6, <2>1, <2>2, <2>3
  <2>5. ASSUME NEW i \in Tasks
        PROVE  /\ tables'[i] \cap owned'[i] = {}
               /\ root'[i] # 0 => root'[i] \in tables'[i]
               /\ root'[i] = 0 => tables'[i] = {}
    <3>1. /\ tables[i] \cap owned[i] = {}
          /\ root[i] # 0 => root[i] \in tables[i]
          /\ root[i] = 0 => tables[i] = {}
      BY DEF LabInv, MemoryInv, PagesHaveOneOwner
    <3>2. CASE i = s
      BY <1>5, <1>7, <1>10, <1>11, <3>1, <3>2
    <3>3. CASE i # s
      BY <1>9, <3>1, <3>3
    <3>4. QED BY <3>2, <3>3
  <2>6. ASSUME NEW i \in Tasks, NEW j \in Tasks \ {i}
        PROVE  Held(i)' \cap Held(j)' = {}
    <3>1. Held(i) \cap Held(j) = {} /\ f \notin Held(i) /\ f \notin Held(j)
      BY <1>6, <2>3 DEF LabInv, MemoryInv, PagesHaveOneOwner
    <3>2. QED
      BY <2>1, <2>2, <3>1
  <2>7. ASSUME NEW i \in Tasks, Held(i)' # {}
        PROVE  Alive(i)' \/ (spawning' # NotSpawning /\ spawning'.slot = i)
    <3>1. CASE i = s
      BY <1>4, <3>1
    <3>2. CASE i # s
      BY <1>1, <1>3, <2>1, <2>7, <3>2 DEF Alive, LabInv, MemoryInv, PagesHaveOneOwner
    <3>3. QED BY <3>1, <3>2
  <2>8. QED
    BY <2>4, <2>5, <2>6, <2>7 DEF PagesHaveOneOwner
<1>18. FamilyInv'
  <2>1. PidsIssued' /\ Lineage' /\ FamilyIntact' /\ WaiterHasLivingChild'
    BY <1>3 DEF LabInv, FamilyInv, PidsIssued, Lineage, FamilyIntact, WaiterHasLivingChild,
                Unused, Alive
  <2>2. SpawnAsked'
    BY <1>1, <1>3, <1>4 DEF LabInv, FamilyInv, SpawnAsked, Unused
  <2>3. QED BY <2>1, <2>2 DEF FamilyInv
<1>19. CurrentIsMapped'
  BY <1>1, <1>3, <1>4, <1>9, <1>15
  DEF LabInv, TypeOK, CurrentIsMapped, Alive
<1>20. NoInternalPanic'
  BY <1>3 DEF LabInv, NoInternalPanic
<1>21. QED
  BY <1>6, <1>7, <1>12, <1>13, <1>14, <1>16, <1>17, <1>18, <1>19, <1>20 DEF LabInv, MemoryInv

\* release_pages gives back all that task i holds and nothing else.
LEMMA ReleaseEffect ==
  ASSUME LabInv, NEW i \in Tasks, release_pages(i)
  PROVE  /\ PageTypeOK' /\ CountExact' /\ ZeroReserved'
         /\ AllocatedFrames' = AllocatedFrames \ Held(i)
         /\ root' \in [Tasks -> Frames] /\ dirty' = dirty
         /\ tables' \in [Tasks -> SUBSET Frames] /\ owned' \in [Tasks -> SUBSET Frames]
         /\ root'[i] = 0 /\ tables'[i] = {} /\ owned'[i] = {}
         /\ \A j \in Tasks \ {i} :
              root'[j] = root[j] /\ tables'[j] = tables[j] /\ owned'[j] = owned[j]
<1>1. Released(i) = Held(i) /\ Held(i) \subseteq AllocatedFrames
  BY DEF LabInv, MemoryInv, PagesHaveOneOwner, Released, Held
<1>2. PageTypeOK /\ CountExact /\ PageFreeAll(Held(i))
  BY <1>1 DEF LabInv, TypeOK, MemoryInv, release_pages
<1>3. PageTypeOK' /\ CountExact' /\ AllocatedFrames' = AllocatedFrames \ Held(i)
  BY <1>1, <1>2, FreeAllEffect, FreeAllPreserves
<1>4. ZeroReserved'
  <2>1. 0 \notin Held(i)
    BY <1>1, ZeroIsThere DEF LabInv, MemoryInv, ZeroReserved, AllocatedFrames,
                             PAGE_UNMANAGED, PAGE_ALLOCATED
  <2>2. QED
    BY <1>2, <2>1, ZeroIsThere DEF LabInv, MemoryInv, ZeroReserved, PageFreeAll
<1>5. /\ tables \in [Tasks -> SUBSET Frames] /\ owned \in [Tasks -> SUBSET Frames]
      /\ root \in [Tasks -> Frames]
  BY DEF LabInv, TypeOK
<1>6. QED
  BY <1>3, <1>4, <1>5, ZeroIsThere DEF release_pages

\* After it, the memory invariant holds as soon as no spawn is in progress
\* and task i is the only one that is no longer alive.
LEMMA ReleaseKeepsMemory ==
  ASSUME LabInv, NEW i \in Tasks, release_pages(i),
         spawning' = NotSpawning, spawning = NotSpawning \/ spawning.slot = i,
         ~Alive(i)', \A j \in Tasks \ {i} : Alive(j)' <=> Alive(j)
  PROVE  MemoryInv'
<1>1. /\ CountExact' /\ ZeroReserved' /\ AllocatedFrames' = AllocatedFrames \ Held(i)
      /\ root'[i] = 0 /\ tables'[i] = {} /\ owned'[i] = {}
      /\ \A j \in Tasks \ {i} :
           root'[j] = root[j] /\ tables'[j] = tables[j] /\ owned'[j] = owned[j]
  BY ReleaseEffect
<1>2. Held(i)' = {} /\ \A j \in Tasks \ {i} : Held(j)' = Held(j)
  BY <1>1 DEF Held
<1>3. /\ AllocatedFrames = UNION {Held(j) : j \in Tasks}
      /\ \A j \in Tasks : \A k \in Tasks \ {j} : Held(j) \cap Held(k) = {}
  BY DEF LabInv, MemoryInv, PagesHaveOneOwner
<1>4. PagesHaveOneOwner'
  <2>1. AllocatedFrames' = UNION {Held(j)' : j \in Tasks}
    BY <1>1, <1>2, <1>3
  <2>2. ASSUME NEW j \in Tasks
        PROVE  /\ tables'[j] \cap owned'[j] = {}
               /\ root'[j] # 0 => root'[j] \in tables'[j]
               /\ root'[j] = 0 => tables'[j] = {}
    <3>1. CASE j = i
      BY <1>1, <3>1
    <3>2. CASE j # i
      BY <1>1, <3>2 DEF LabInv, MemoryInv, PagesHaveOneOwner
    <3>3. QED BY <3>1, <3>2
  <2>3. ASSUME NEW j \in Tasks, Held(j)' # {} PROVE Alive(j)'
    <3>1. j # i /\ Held(j) # {}
      BY <1>2, <2>3
    <3>2. QED
      BY <3>1 DEF LabInv, MemoryInv, PagesHaveOneOwner
  <2>4. ASSUME NEW j \in Tasks, NEW k \in Tasks \ {j} PROVE Held(j)' \cap Held(k)' = {}
    BY <1>2, <1>3
  <2>5. QED
    BY <2>1, <2>2, <2>3, <2>4 DEF PagesHaveOneOwner
<1>5. Built'
  <2>1. ASSUME NEW j \in Tasks, Alive(j)' PROVE root'[j] # 0 /\ Complete(j)'
    <3>1. j # i /\ Alive(j)
      BY <2>1
    <3>2. /\ root[j] # 0 /\ Complete(j)
          /\ root'[j] = root[j] /\ tables'[j] = tables[j] /\ owned'[j] = owned[j]
      BY <1>1, <3>1 DEF LabInv, MemoryInv, Built
    <3>3. owned[j] \cap Held(i) = {}
      BY <1>3, <3>1 DEF Held
    <3>4. QED
      BY <1>1, <3>2, <3>3 DEF Complete
  <2>2. QED BY <2>1 DEF Built
<1>6. Building' /\ PagesArriveClean'
  BY DEF Building, PagesArriveClean
<1>7. QED
  BY <1>1, <1>4, <1>5, <1>6 DEF MemoryInv

\* A spawn that runs out gives back what it took and frees its slot.
LEMMA SpawnFailsStep == LabInv /\ spawn_fails => LabInv'
<1> SUFFICES ASSUME LabInv, spawn_fails PROVE LabInv'
  OBVIOUS
<1>1. /\ panic = "none" /\ spawning # NotSpawning
      /\ spawning \in [by : {"nobody", "boot", "task"}, slot : Tasks, done : 0 .. Len(Plan)]
  BY DEF spawn_fails, Preparing, LabInv, TypeOK
<1>2. CASE spawning.by = "boot"
  BY <1>2, PanicStep DEF spawn_fails
<1>3. CASE spawning.by # "boot"
  <2>1. spawning.by = "task"
    BY <1>1, <1>3 DEF LabInv, FamilyInv, SpawnAsked
  <2>2. /\ current \in Tasks /\ state[current] = PROCESS_READY
        /\ cr3 = root[current] /\ cr3 \in tables[current]
    BY <1>1, <1>3 DEF LabInv, TypeOK, CurrentIsMapped
  <2>3. PICK i \in Tasks : i = spawning.slot /\ Unused(i) /\ i # current
    BY <1>1, <2>1, <2>2 DEF LabInv, FamilyInv, SpawnAsked, Unused, PROCESS_READY, PROCESS_UNUSED
  <2>4. root[current] # 0
    BY <2>2 DEF LabInv, MemoryInv, Built, Alive
  <2>5. ReleaseSafe(i, cr3)
    BY <2>2, <2>3, <2>4, ReleaseIsSafe
  <2>6. /\ release_pages(i)
        /\ id' = [id EXCEPT ![i] = 0]
        /\ parent' = [parent EXCEPT ![i] = 0]
        /\ program' = [program EXCEPT ![i] = PROGRAM_INIT]
        /\ rax' = [rax EXCEPT ![current] = -5]
        /\ spawning' = NotSpawning
        /\ UNCHANGED <<status, waiting_for, state, current, cr3, next_pid, panic>>
    BY <1>3, <2>3, <2>5 DEF spawn_fails, SpawnCleanup, Returns, cpu
  <2>7. \A j \in Tasks : /\ Alive(j)' <=> Alive(j)
                         /\ Unused(j)' <=> Unused(j)
                         /\ Alive(j) => ~Unused(j)
    BY <2>6 DEF Alive, Unused, PROCESS_READY, PROCESS_UNUSED, PROCESS_WAITING
  <2>8. MemoryInv'
    BY <2>3, <2>6, <2>7, ReleaseKeepsMemory
  <2>9. TypeOK'
    <3>1. /\ PageTypeOK' /\ root' \in [Tasks -> Frames] /\ dirty' = dirty
          /\ tables' \in [Tasks -> SUBSET Frames] /\ owned' \in [Tasks -> SUBSET Frames]
      BY <2>6, ReleaseEffect
    <3>2. /\ id' \in [Tasks -> Nat] /\ parent' \in [Tasks -> Nat] /\ program' \in [Tasks -> Nat]
      BY <2>6 DEF LabInv, TypeOK, PROGRAM_INIT
    <3>3. rax' \in [Tasks -> Int]
      BY <2>6 DEF LabInv, TypeOK
    <3>4. NotSpawning \in [by : {"nobody", "boot", "task"}, slot : Tasks, done : 0 .. Len(Plan)]
      BY ZeroIsThere, LabAssumption DEF NotSpawning
    <3>5. QED
      BY <2>6, <3>1, <3>2, <3>3, <3>4 DEF LabInv, TypeOK
  <2>10. FamilyInv'
    <3>1. \A j \in Tasks \ {i} : /\ id'[j] = id[j] /\ parent'[j] = parent[j]
                                 /\ program'[j] = program[j]
      BY <2>6 DEF LabInv, TypeOK
    <3>2. \A j \in Tasks : ~Unused(j) => j # i
      BY <2>3
    <3>3. PidsIssued' /\ Lineage' /\ FamilyIntact'
      BY <2>6, <2>7, <3>1, <3>2 DEF LabInv, FamilyInv, PidsIssued, Lineage, FamilyIntact
    <3>4. SpawnAsked'
      BY <2>6 DEF SpawnAsked, NotSpawning
    <3>5. WaiterHasLivingChild'
      <4>1. \A j \in Tasks : state[j] = PROCESS_WAITING => j # i
        BY <2>3 DEF Unused, PROCESS_UNUSED, PROCESS_WAITING
      <4>2. QED
        BY <2>6, <2>7, <3>1, <3>2, <4>1 DEF LabInv, FamilyInv, WaiterHasLivingChild
    <3>6. QED BY <3>3, <3>4, <3>5 DEF FamilyInv
  <2>11. CurrentIsMapped' /\ NoInternalPanic'
    <3>1. root'[current] = root[current] /\ tables'[current] = tables[current]
      BY <2>2, <2>3, <2>6, ReleaseEffect
    <3>2. QED
      BY <2>2, <2>6, <3>1 DEF LabInv, CurrentIsMapped, NoInternalPanic
  <2>12. QED
    BY <2>8, <2>9, <2>10, <2>11 DEF LabInv
<1>4. QED BY <1>2, <1>3

\* The new process joins the table: it has the whole plan, a living parent
\* unless it is init, and no child can have been waiting under its pid.
LEMMA SpawnDoneStep == LabInv /\ spawn_done => LabInv'
<1> SUFFICES ASSUME LabInv, spawn_done PROVE LabInv'
  OBVIOUS
<1>1. /\ panic = "none" /\ spawning # NotSpawning
      /\ spawning \in [by : {"nobody", "boot", "task"}, slot : Tasks, done : 0 .. Len(Plan)]
  BY DEF spawn_done, Preparing, LabInv, TypeOK
<1>2. PICK s \in Tasks : s = spawning.slot
  BY <1>1
<1>3. /\ state' = [state EXCEPT ![s] = PROCESS_READY]
      /\ dirty' = dirty \cup owned[s]
      /\ spawning' = NotSpawning
      /\ UNCHANGED <<pages, id, parent, program, status, waiting_for, root, tables, owned,
                     next_pid, panic>>
  BY <1>2 DEF spawn_done, family
<1>4. spawning.done = Len(Plan) /\ Len(Plan) > 0 /\ DOMAIN Plan = 1 .. Len(Plan)
  BY <1>1, LabAssumption DEF spawn_done, MoreToDo
<1>5. Unused(s) /\ spawning.by \in {"boot", "task"}
  BY <1>1, <1>2 DEF LabInv, FamilyInv, SpawnAsked
<1>6. /\ state' \in [Tasks -> ProcessState] /\ state'[s] = PROCESS_READY
      /\ \A j \in Tasks \ {s} : state'[j] = state[j]
  BY <1>3 DEF LabInv, TypeOK, ProcessState
<1>7. /\ Alive(s)' /\ ~Unused(s)' /\ ~Alive(s)
      /\ \A j \in Tasks \ {s} : (Alive(j)' <=> Alive(j)) /\ (Unused(j)' <=> Unused(j))
      /\ \A j \in Tasks : Alive(j) => ~Unused(j)
  BY <1>5, <1>6 DEF Alive, Unused, PROCESS_READY, PROCESS_UNUSED, PROCESS_WAITING
<1>8. /\ root[s] # 0 /\ root[s] \in tables[s]
      /\ Cardinality(owned[s]) = Cardinality({k \in DOMAIN Plan : Plan[k] = "page"})
      /\ Cardinality(tables[s]) = Cardinality({k \in DOMAIN Plan : Plan[k] = "table"})
      /\ owned[s] \subseteq AllocatedFrames
  <2>1. root[s] # 0
    BY <1>1, <1>2, <1>4 DEF LabInv, MemoryInv, Building
  <2>2. /\ Cardinality(owned[s]) = Cardinality({k \in DOMAIN Plan : Plan[k] = "page"})
        /\ Cardinality(tables[s]) = Cardinality({k \in DOMAIN Plan : Plan[k] = "table"})
    BY <1>1, <1>2, <1>4 DEF LabInv, MemoryInv, Building, Planned
  <2>3. root[s] \in tables[s] /\ owned[s] \subseteq AllocatedFrames
    BY <2>1 DEF LabInv, MemoryInv, PagesHaveOneOwner, Held
  <2>4. QED BY <2>1, <2>2, <2>3
<1>9. MemoryInv'
  <2>1. CountExact' /\ ZeroReserved'
    BY <1>3 DEF LabInv, MemoryInv, CountExact, FreeFrames, ZeroReserved, pages
  <2>2. PagesHaveOneOwner'
    <3>1. \A i \in Tasks : Held(i)' = Held(i)
      BY <1>3 DEF Held
    <3>2. AllocatedFrames' = AllocatedFrames
      BY <1>3 DEF AllocatedFrames, pages
    <3>3. \A i \in Tasks : Held(i) # {} => Alive(i)'
      BY <1>2, <1>7 DEF LabInv, MemoryInv, PagesHaveOneOwner
    <3>4. QED
      BY <1>3, <3>1, <3>2, <3>3 DEF LabInv, MemoryInv, PagesHaveOneOwner
  <2>3. Built'
    <3>1. ASSUME NEW i \in Tasks, Alive(i)' PROVE root'[i] # 0 /\ Complete(i)'
      <4>1. CASE i = s
        BY <1>3, <1>8, <4>1 DEF Complete, AllocatedFrames, pages
      <4>2. CASE i # s
        BY <1>3, <1>7, <3>1, <4>2 DEF LabInv, MemoryInv, Built, Complete, AllocatedFrames, pages
      <4>3. QED BY <4>1, <4>2
    <3>2. QED BY <3>1 DEF Built
  <2>4. Building' /\ PagesArriveClean'
    BY <1>3 DEF Building, PagesArriveClean
  <2>5. QED BY <2>1, <2>2, <2>3, <2>4 DEF MemoryInv
<1>10. CASE spawning.by = "boot"
  <2>1. /\ s = 0 /\ \A i \in Tasks : Unused(i)
        /\ program[0] = PROGRAM_INIT /\ id[0] = 1 /\ parent[0] = 0
    BY <1>2, <1>10 DEF LabInv, FamilyInv, SpawnAsked
  <2>2. current' = 0 /\ cr3' = root[0] /\ rax' = rax
    BY <1>10 DEF spawn_done, select_task
  <2>3. \A i \in Tasks : ~Unused(i)' => i = 0
    BY <1>7, <2>1
  <2>4. FamilyInv'
    <3>1. PidsIssued'
      BY <1>3, <2>1, <2>3 DEF LabInv, FamilyInv, PidsIssued
    <3>2. Lineage' /\ FamilyIntact'
      BY <1>3, <1>7, <2>1, <2>3 DEF LabInv, FamilyInv, Lineage, FamilyIntact
    <3>3. SpawnAsked'
      BY <1>3 DEF SpawnAsked, NotSpawning
    <3>4. WaiterHasLivingChild'
      <4>1. \A i \in Tasks : state'[i] # PROCESS_WAITING
        BY <1>6, <2>1 DEF Unused, PROCESS_READY, PROCESS_UNUSED, PROCESS_WAITING
      <4>2. QED BY <4>1 DEF WaiterHasLivingChild
    <3>5. QED BY <3>1, <3>2, <3>3, <3>4 DEF FamilyInv
  <2>5. TypeOK'
    <3>1. NotSpawning \in [by : {"nobody", "boot", "task"}, slot : Tasks, done : 0 .. Len(Plan)]
      BY ZeroIsThere, LabAssumption DEF NotSpawning
    <3>2. cr3' \in Frames /\ current' \in Tasks /\ dirty' \subseteq Frames
      BY <1>3, <2>2, ZeroIsThere DEF LabInv, TypeOK
    <3>3. PageTypeOK'
      BY <1>3 DEF LabInv, TypeOK, PageTypeOK, pages
    <3>4. QED
      BY <1>3, <1>6, <2>2, <3>1, <3>2, <3>3 DEF LabInv, TypeOK
  <2>6. CurrentIsMapped' /\ NoInternalPanic'
    BY <1>3, <1>6, <1>8, <2>1, <2>2 DEF LabInv, CurrentIsMapped, NoInternalPanic
  <2>7. QED
    BY <1>9, <2>4, <2>5, <2>6 DEF LabInv
<1>11. CASE spawning.by = "task"
  <2>1. /\ current \in Tasks /\ state[current] = PROCESS_READY
        /\ cr3 = root[current] /\ cr3 \in tables[current]
    BY <1>1, <1>11 DEF LabInv, TypeOK, CurrentIsMapped
  <2>2. s # current /\ Alive(current)
    BY <1>5, <2>1 DEF Unused, Alive, PROCESS_READY, PROCESS_UNUSED
  <2>3. /\ parent[s] = id[current] /\ id[s] > 0 /\ id[s] < next_pid
        /\ \A i \in Tasks : ~Unused(i) => id[i] # id[s]
        /\ Begets(program[current], program[s])
    BY <1>2, <1>11 DEF LabInv, FamilyInv, SpawnAsked
  <2>4. rax' = [rax EXCEPT ![current] = id[s]] /\ current' = current /\ cr3' = cr3
    BY <1>2, <1>11 DEF spawn_done, Returns, cpu
  <2>5. \A i \in Tasks : ~Unused(i) => parent[i] # id[s]
    <3>1. SUFFICES ASSUME NEW i \in Tasks, ~Unused(i), parent[i] = id[s] PROVE FALSE
      OBVIOUS
    <3>2. CASE program[i] = PROGRAM_INIT
      BY <2>3, <3>1, <3>2 DEF LabInv, FamilyInv, Lineage
    <3>3. CASE program[i] # PROGRAM_INIT
      BY <1>7, <2>3, <3>1, <3>3 DEF LabInv, FamilyInv, FamilyIntact
    <3>4. QED BY <3>2, <3>3
  <2>6. FamilyInv'
    <3>1. PidsIssued'
      BY <1>3, <1>7, <2>3 DEF LabInv, FamilyInv, PidsIssued
    <3>2. Lineage'
      <4>1. program[s] # PROGRAM_INIT
        <5>1. program[s] \in Nat
          BY DEF LabInv, TypeOK
        <5>2. QED
          BY <2>3, <5>1 DEF Begets, PROGRAM_INIT, PROGRAM_SHELL, PROGRAM_HELLO
      <4>2. ASSUME NEW i \in Tasks, NEW p \in Tasks, ~Unused(i)', ~Unused(p)', id[p] = parent[i]
            PROVE  Begets(program[p], program[i])
        <5>1. CASE i # s /\ p # s
          BY <1>7, <4>2, <5>1 DEF LabInv, FamilyInv, Lineage
        <5>2. CASE i = s /\ p # s
          <6>1. ~Unused(p) /\ id[p] = id[current]
            BY <1>7, <2>3, <4>2, <5>2
          <6>2. p = current
            BY <1>7, <2>1, <2>2, <6>1 DEF LabInv, FamilyInv, FamilyIntact
          <6>3. QED BY <2>3, <5>2, <6>2
        <5>3. CASE p = s
          BY <1>7, <2>1, <2>2, <2>3, <2>5, <4>2, <5>3
        <5>4. QED BY <5>1, <5>2, <5>3
      <4>3. QED
        BY <1>3, <1>7, <4>1, <4>2 DEF LabInv, FamilyInv, Lineage
    <3>3. SpawnAsked'
      BY <1>3 DEF SpawnAsked, NotSpawning
    <3>4. FamilyIntact'
      <4>1. ASSUME NEW i \in Tasks, NEW j \in Tasks, ~Unused(i)', ~Unused(j)', id[i] = id[j]
            PROVE  i = j
        BY <1>7, <2>3, <4>1 DEF LabInv, FamilyInv, FamilyIntact
      <4>2. ASSUME NEW i \in Tasks, ~Unused(i)', program[i] # PROGRAM_INIT
            PROVE  \E p \in Tasks : Alive(p)' /\ id[p] = parent[i]
        <5>1. CASE i = s
          BY <1>7, <2>1, <2>2, <2>3, <5>1
        <5>2. CASE i # s
          BY <1>7, <4>2, <5>2 DEF LabInv, FamilyInv, FamilyIntact
        <5>3. QED BY <5>1, <5>2
      <4>3. QED
        BY <1>3, <4>1, <4>2 DEF FamilyIntact
    <3>5. WaiterHasLivingChild'
      <4>1. \A i \in Tasks : state'[i] = PROCESS_WAITING => state[i] = PROCESS_WAITING
        BY <1>6 DEF PROCESS_READY, PROCESS_WAITING
      <4>2. \A i \in Tasks : Alive(i) => Alive(i)'
        BY <1>7
      <4>3. QED
        BY <1>3, <4>1, <4>2 DEF LabInv, FamilyInv, WaiterHasLivingChild
    <3>6. QED BY <3>1, <3>2, <3>3, <3>4, <3>5 DEF FamilyInv
  <2>7. TypeOK'
    <3>1. NotSpawning \in [by : {"nobody", "boot", "task"}, slot : Tasks, done : 0 .. Len(Plan)]
      BY ZeroIsThere, LabAssumption DEF NotSpawning
    <3>2. dirty' \subseteq Frames /\ rax' \in [Tasks -> Int]
      <4>1. id[s] \in Int /\ rax \in [Tasks -> Int]
        BY DEF LabInv, TypeOK
      <4>2. dirty' \subseteq Frames
        BY <1>3 DEF LabInv, TypeOK
      <4>3. QED BY <2>4, <4>1, <4>2
    <3>3. PageTypeOK'
      BY <1>3 DEF LabInv, TypeOK, PageTypeOK, pages
    <3>4. QED
      BY <1>3, <1>6, <2>4, <3>1, <3>2, <3>3 DEF LabInv, TypeOK
  <2>8. CurrentIsMapped' /\ NoInternalPanic'
    BY <1>3, <1>6, <2>1, <2>2, <2>4 DEF LabInv, CurrentIsMapped, NoInternalPanic
  <2>9. QED
    BY <1>9, <2>6, <2>7, <2>8 DEF LabInv
<1>12. QED
  BY <1>5, <1>10, <1>11

-----------------------------------------------------------------------------
(* The timer, exit, faults and wait.                                       *)

\* Switching to a ready task maps it.
LEMMA SelectReady ==
  ASSUME LabInv, NEW i \in Tasks, Alive(i)
  PROVE  root[i] # 0 /\ root[i] \in tables[i] /\ root[i] \in Frames
BY DEF LabInv, TypeOK, MemoryInv, Built, PagesHaveOneOwner

\* The timer switches to a ready task; the current one is still ready.
LEMMA TickStep == LabInv /\ task_tick => LabInv'
<1> SUFFICES ASSUME LabInv, task_tick PROVE LabInv'
  OBVIOUS
<1>1. /\ spawning = NotSpawning /\ panic = "none"
      /\ current \in Tasks /\ state[current] = PROCESS_READY
  BY UserMode DEF task_tick
<1>2. ~NoneReady(state)
  BY <1>1 DEF NoneReady
<1>3. PICK i \in Tasks : NextReady(state, i) /\ current' = i /\ cr3' = root[i]
  BY <1>2 DEF task_tick, select_task
<1>4. UNCHANGED <<pages, state, family, spaces, rax, next_pid, spawning, panic>>
  BY <1>2 DEF task_tick
<1>5. state[i] = PROCESS_READY /\ Alive(i)
  BY <1>3, NextReadyIsReady DEF Alive
<1>6. root[i] \in tables[i] /\ root[i] \in Frames
  BY <1>5, SelectReady
<1>7. TypeOK'
  BY <1>3, <1>4, <1>6 DEF LabInv, TypeOK, PageTypeOK, pages, family, spaces
<1>8. MemoryInv'
  BY <1>4, MemorySame DEF LabInv
<1>9. FamilyInv'
  <2>1. PidsIssued' /\ Lineage'
    BY <1>4 DEF LabInv, FamilyInv, PidsIssued, Lineage, Unused, family
  <2>2. SpawnAsked'
    BY <1>1, <1>4 DEF SpawnAsked, NotSpawning
  <2>3. FamilyIntact' /\ WaiterHasLivingChild'
    BY <1>4 DEF LabInv, FamilyInv, FamilyIntact, WaiterHasLivingChild, Unused, Alive, family
  <2>4. QED BY <2>1, <2>2, <2>3 DEF FamilyInv
<1>10. CurrentIsMapped' /\ NoInternalPanic'
  BY <1>3, <1>4, <1>5, <1>6 DEF LabInv, CurrentIsMapped, NoInternalPanic, spaces
<1>11. QED
  BY <1>7, <1>8, <1>9, <1>10 DEF LabInv

\* A program that is neither init nor a shell is no task's parent.
LEMMA ProgramsHaveNoChildren ==
  ASSUME LabInv, NEW p \in Tasks, ~Unused(p), program[p] > PROGRAM_SHELL,
         NEW i \in Tasks, ~Unused(i)
  PROVE  parent[i] # id[p]
<1>1. Begets(program[p], program[i]) => program[p] <= PROGRAM_SHELL
  BY DEF Begets, PROGRAM_INIT, PROGRAM_SHELL
<1>2. program[p] \in Nat
  BY DEF LabInv, TypeOK
<1>3. QED
  BY <1>1, <1>2 DEF LabInv, FamilyInv, Lineage, PROGRAM_SHELL

\* A waiting task is init or a shell.
LEMMA WaitersAreParents ==
  ASSUME LabInv, NEW i \in Tasks, state[i] = PROCESS_WAITING
  PROVE  /\ program[i] \in {PROGRAM_INIT, PROGRAM_SHELL}
         /\ \E c \in Tasks : /\ Alive(c) /\ id[c] = waiting_for[i] /\ parent[c] = id[i]
                             /\ Begets(program[i], program[c])
<1>1. PICK c \in Tasks : Alive(c) /\ id[c] = waiting_for[i] /\ parent[c] = id[i]
  BY DEF LabInv, FamilyInv, WaiterHasLivingChild
<1>2. ~Unused(i) /\ ~Unused(c)
  BY <1>1 DEF Unused, Alive, PROCESS_READY, PROCESS_WAITING, PROCESS_UNUSED
<1>3. Begets(program[i], program[c])
  BY <1>1, <1>2 DEF LabInv, FamilyInv, Lineage
<1>4. QED
  BY <1>1, <1>3 DEF Begets

\* After a program has exited some task is ready: its parent, or the child
\* its parent waits for, which is a program and so does not itself wait.
LEMMA ExitLeavesOneReady ==
  ASSUME LabInv, NEW old \in Tasks, Alive(old), ~Essential(old)
  PROVE  ~NoneReady(AfterExit(old))
<1>1. program[old] \in Nat /\ program[old] # PROGRAM_INIT /\ program[old] > PROGRAM_SHELL
  <2>1. program[old] \in Nat
    BY DEF LabInv, TypeOK
  <2>2. QED
    BY <2>1 DEF Essential, PROGRAM_INIT, PROGRAM_SHELL
<1>2. \A i \in Tasks : Alive(i) => ~Unused(i)
  BY DEF Unused, Alive, PROCESS_READY, PROCESS_WAITING, PROCESS_UNUSED
<1>3. PICK p \in Tasks : Alive(p) /\ id[p] = parent[old]
  BY <1>1, <1>2 DEF LabInv, FamilyInv, FamilyIntact
<1>4. p # old
  BY <1>1, <1>2, <1>3, ProgramsHaveNoChildren
<1>5. Begets(program[p], program[old])
  BY <1>2, <1>3 DEF LabInv, FamilyInv, Lineage
<1>6. \A i \in Tasks \ {old} : state[i] = PROCESS_READY => AfterExit(old)[i] = PROCESS_READY
  BY DEF AfterExit
<1>7. CASE state[p] = PROCESS_READY
  BY <1>4, <1>6, <1>7 DEF NoneReady
<1>8. CASE state[p] = PROCESS_WAITING
  <2>1. PICK c \in Tasks : /\ Alive(c) /\ id[c] = waiting_for[p] /\ parent[c] = id[p]
                           /\ Begets(program[p], program[c])
    BY <1>8, WaitersAreParents
  <2>2. CASE c = old
    <3>1. p \in Waiters(old)
      BY <1>3, <1>8, <2>1, <2>2 DEF Waiters
    <3>2. QED
      BY <1>4, <3>1 DEF AfterExit, NoneReady
  <2>3. CASE c # old
    <3>1. program[c] \notin {PROGRAM_INIT, PROGRAM_SHELL}
      <4>1. program[c] \in Nat /\ program[p] \in Nat
        BY DEF LabInv, TypeOK
      <4>2. QED
        BY <1>1, <1>5, <2>1, <4>1 DEF Begets, PROGRAM_INIT, PROGRAM_SHELL, PROGRAM_HELLO
    <3>2. state[c] = PROCESS_READY
      BY <2>1, <3>1, WaitersAreParents DEF Alive
    <3>3. QED
      BY <1>6, <2>3, <3>2 DEF NoneReady
  <2>4. QED BY <2>2, <2>3
<1>9. QED
  BY <1>3, <1>7, <1>8 DEF Alive

\* exit and a fatal fault, together with the release and the wake-up.
LEMMA ExitStep ==
  ASSUME LabInv, InUserMode, NEW code \in Nat, task_exit(code)
  PROVE  LabInv'
<1>1. PICK old \in Tasks :
        /\ old = current /\ state[old] = PROCESS_READY /\ Alive(old)
        /\ spawning = NotSpawning /\ panic = "none"
  BY UserMode DEF Alive
<1>2. CASE Essential(old)
  BY <1>1, <1>2, PanicStep DEF task_exit
<1>3. CASE ~Essential(old)
  <2>1. ~NoneReady(AfterExit(old))
    BY <1>1, <1>3, ExitLeavesOneReady
  <2>2. PICK next \in Tasks :
          /\ NextReady(AfterExit(old), next)
          /\ IF ~ReleaseSafe(old, root[next]) THEN Panic("ownership differs")
             ELSE /\ current' = next /\ cr3' = root[next]
                  /\ state' = [AfterExit(old) EXCEPT ![old] = Reaped(old)]
                  /\ status' = [status EXCEPT ![old] = code]
                  /\ rax' = [i \in Tasks |-> IF i \in Waiters(old) THEN code ELSE rax[i]]
                  /\ release_pages(old)
                  /\ UNCHANGED <<id, parent, program, waiting_for, next_pid, spawning, panic>>
    BY <1>1, <1>3, <2>1 DEF task_exit, select_task, RootAtRelease
  <2>3. AfterExit(old)[next] = PROCESS_READY
    BY <2>2, NextReadyIsReady
  <2>4. next # old /\ Alive(next)
    BY <2>3 DEF AfterExit, Waiters, Alive, PROCESS_EXITED, PROCESS_READY
  <2>5. root[next] # 0 /\ root[next] \in tables[next] /\ root[next] \in Frames
    BY <2>4, SelectReady
  <2>6. ReleaseSafe(old, root[next])
    BY <2>4, <2>5, ReleaseIsSafe
  <2>7. /\ current' = next /\ cr3' = root[next]
        /\ state' = [AfterExit(old) EXCEPT ![old] = Reaped(old)]
        /\ status' = [status EXCEPT ![old] = code]
        /\ rax' = [i \in Tasks |-> IF i \in Waiters(old) THEN code ELSE rax[i]]
        /\ release_pages(old)
        /\ UNCHANGED <<id, parent, program, waiting_for, next_pid, spawning, panic>>
    BY <2>2, <2>6
  <2>8. /\ state' \in [Tasks -> ProcessState]
        /\ state'[old] \in {PROCESS_UNUSED, PROCESS_EXITED}
        /\ \A i \in Tasks \ {old} :
             state'[i] = IF i \in Waiters(old) THEN PROCESS_READY ELSE state[i]
    BY <2>7 DEF AfterExit, Reaped, LabInv, TypeOK, ProcessState
  <2>9. /\ ~Alive(old)'
        /\ \A i \in Tasks \ {old} : (Alive(i)' <=> Alive(i)) /\ (Unused(i)' <=> Unused(i))
        /\ \A i \in Tasks : ~Unused(i)' => ~Unused(i)
        /\ \A i \in Tasks : Alive(i) => ~Unused(i)
    BY <1>1, <2>8 DEF Alive, Unused, Waiters,
                 PROCESS_UNUSED, PROCESS_READY, PROCESS_WAITING, PROCESS_EXITED
  <2>10. MemoryInv'
    BY <1>1, <2>7, <2>9, ReleaseKeepsMemory
  <2>11. TypeOK'
    <3>1. /\ PageTypeOK' /\ root' \in [Tasks -> Frames] /\ dirty' = dirty
          /\ tables' \in [Tasks -> SUBSET Frames] /\ owned' \in [Tasks -> SUBSET Frames]
      BY <2>7, ReleaseEffect
    <3>2. rax' \in [Tasks -> Int]
      BY <2>7 DEF LabInv, TypeOK
    <3>3. status' \in [Tasks -> Nat]
      BY <2>7 DEF LabInv, TypeOK
    <3>4. QED
      BY <2>5, <2>7, <2>8, <3>1, <3>2, <3>3 DEF LabInv, TypeOK
  <2>12. FamilyInv'
    <3>1. program[old] \in Nat /\ program[old] > PROGRAM_SHELL
      <4>1. program[old] \in Nat
        BY DEF LabInv, TypeOK
      <4>2. QED BY <1>3, <4>1 DEF Essential, PROGRAM_SHELL
    <3>2. \A i \in Tasks : ~Unused(i) => parent[i] # id[old]
      BY <1>1, <2>9, <3>1, ProgramsHaveNoChildren
    <3>3. PidsIssued' /\ Lineage'
      BY <2>7, <2>9 DEF LabInv, FamilyInv, PidsIssued, Lineage
    <3>4. SpawnAsked'
      BY <1>1, <2>7 DEF SpawnAsked, NotSpawning
    <3>5. FamilyIntact'
      <4>1. ASSUME NEW i \in Tasks, ~Unused(i)', program[i] # PROGRAM_INIT
            PROVE  \E p \in Tasks : Alive(p)' /\ id[p] = parent[i]
        <5>1. PICK p \in Tasks : Alive(p) /\ id[p] = parent[i]
          BY <2>9, <4>1 DEF LabInv, FamilyInv, FamilyIntact
        <5>2. p # old
          BY <2>9, <3>2, <4>1, <5>1
        <5>3. QED BY <2>9, <5>1, <5>2
      <4>2. QED
        BY <2>7, <2>9, <4>1 DEF LabInv, FamilyInv, FamilyIntact
    <3>6. WaiterHasLivingChild'
      <4>1. ASSUME NEW i \in Tasks, state'[i] = PROCESS_WAITING
            PROVE  \E c \in Tasks : Alive(c)' /\ id[c] = waiting_for[i] /\ parent[c] = id[i]
        <5>1. i # old /\ i \notin Waiters(old) /\ state[i] = PROCESS_WAITING
          BY <2>8, <4>1 DEF PROCESS_UNUSED, PROCESS_READY, PROCESS_WAITING, PROCESS_EXITED
        <5>2. PICK c \in Tasks : Alive(c) /\ id[c] = waiting_for[i] /\ parent[c] = id[i]
          BY <5>1 DEF LabInv, FamilyInv, WaiterHasLivingChild
        <5>3. c # old
          BY <5>1, <5>2 DEF Waiters
        <5>4. QED BY <2>9, <5>2, <5>3
      <4>2. QED
        BY <2>7, <4>1 DEF WaiterHasLivingChild
    <3>7. QED BY <3>3, <3>4, <3>5, <3>6 DEF FamilyInv
  <2>13. CurrentIsMapped' /\ NoInternalPanic'
    <3>1. root'[next] = root[next] /\ tables'[next] = tables[next]
      BY <2>4, <2>7, ReleaseEffect
    <3>2. state'[next] = PROCESS_READY
      BY <2>3, <2>4, <2>8 DEF AfterExit
    <3>3. QED
      BY <2>5, <2>7, <3>1, <3>2 DEF LabInv, CurrentIsMapped, NoInternalPanic
  <2>14. QED
    BY <2>10, <2>11, <2>12, <2>13 DEF LabInv
<1>4. QED BY <1>2, <1>3

\* A zombie's slot becomes unused; nothing else changes in the table.
LEMMA ReapStep ==
  ASSUME LabInv, NEW pid, wait_reaps(pid)
  PROVE  LabInv'
<1>1. /\ spawning = NotSpawning /\ panic = "none"
      /\ current \in Tasks /\ state[current] = PROCESS_READY
      /\ cr3 = root[current] /\ cr3 \in tables[current]
  BY UserMode DEF wait_reaps
<1>2. PICK i \in Tasks : /\ state[i] = PROCESS_EXITED
                         /\ rax' = [rax EXCEPT ![current] = status[i]]
                         /\ state' = [state EXCEPT ![i] = PROCESS_UNUSED]
  BY DEF wait_reaps, Returns
<1>3. UNCHANGED <<pages, family, spaces, current, cr3, next_pid, spawning, panic>>
  BY DEF wait_reaps, cpu
<1>4. /\ state' \in [Tasks -> ProcessState] /\ state'[i] = PROCESS_UNUSED
      /\ \A j \in Tasks \ {i} : state'[j] = state[j]
  BY <1>2 DEF LabInv, TypeOK, ProcessState
<1>5. /\ \A j \in Tasks : Alive(j)' <=> Alive(j)
      /\ \A j \in Tasks : ~Unused(j)' => ~Unused(j)
      /\ \A j \in Tasks : state'[j] = PROCESS_WAITING => state[j] = PROCESS_WAITING
  BY <1>2, <1>4 DEF Alive, Unused, PROCESS_UNUSED, PROCESS_READY, PROCESS_WAITING, PROCESS_EXITED
<1>6. TypeOK'
  <2>1. rax' \in [Tasks -> Int]
    <3>1. status[i] \in Int /\ rax \in [Tasks -> Int]
      BY DEF LabInv, TypeOK
    <3>2. QED BY <1>2, <3>1
  <2>2. QED
    BY <1>3, <1>4, <2>1 DEF LabInv, TypeOK, PageTypeOK, pages, family, spaces
<1>7. MemoryInv'
  <2>1. CountExact' /\ ZeroReserved'
    BY <1>3 DEF LabInv, MemoryInv, CountExact, FreeFrames, ZeroReserved, pages
  <2>2. Building' /\ PagesArriveClean'
    BY <1>1, <1>3 DEF Building, PagesArriveClean
  <2>3. AllocatedFrames' = AllocatedFrames /\ \A j \in Tasks : Held(j)' = Held(j)
    BY <1>3 DEF AllocatedFrames, Held, pages, spaces
  <2>4. PagesHaveOneOwner'
    BY <1>1, <1>3, <1>5, <2>3 DEF LabInv, MemoryInv, PagesHaveOneOwner, spaces
  <2>5. Built'
    BY <1>3, <1>5, <2>3 DEF LabInv, MemoryInv, Built, Complete, spaces
  <2>6. QED BY <2>1, <2>2, <2>4, <2>5 DEF MemoryInv
<1>8. FamilyInv'
  <2>1. PidsIssued' /\ Lineage'
    BY <1>3, <1>5 DEF LabInv, FamilyInv, PidsIssued, Lineage, family
  <2>2. SpawnAsked'
    BY <1>1, <1>3 DEF SpawnAsked, NotSpawning
  <2>3. FamilyIntact'
    BY <1>3, <1>5 DEF LabInv, FamilyInv, FamilyIntact, family
  <2>4. WaiterHasLivingChild'
    BY <1>3, <1>5 DEF LabInv, FamilyInv, WaiterHasLivingChild, family
  <2>5. QED BY <2>1, <2>2, <2>3, <2>4 DEF FamilyInv
<1>9. CurrentIsMapped' /\ NoInternalPanic'
  <2>1. current # i
    BY <1>1, <1>2 DEF PROCESS_READY, PROCESS_EXITED
  <2>2. QED
    BY <1>1, <1>3, <1>4, <2>1 DEF LabInv, CurrentIsMapped, NoInternalPanic, spaces
<1>10. QED
  BY <1>6, <1>7, <1>8, <1>9 DEF LabInv

\* The caller sleeps on a living child, and some task is still ready: that
\* child, or the program it in turn waits for.
LEMMA BlockStep ==
  ASSUME LabInv, NEW pid \in Nat, wait_blocks(pid)
  PROVE  LabInv'
<1>1. PICK me \in Tasks :
        /\ me = current /\ state[me] = PROCESS_READY
        /\ spawning = NotSpawning /\ panic = "none"
  BY UserMode DEF wait_blocks
<1>2. PICK c \in Tasks : /\ state[c] # PROCESS_UNUSED /\ state[c] # PROCESS_EXITED
                         /\ id[c] = pid /\ parent[c] = id[me]
  BY <1>1 DEF wait_blocks, FirstChild, Child
<1>3. Alive(c) /\ ~Unused(c) /\ ~Unused(me)
  BY <1>1, <1>2 DEF LabInv, TypeOK, ProcessState, Alive, Unused, PROCESS_UNUSED, PROCESS_READY
<1>4. Begets(program[me], program[c])
  BY <1>2, <1>3 DEF LabInv, FamilyInv, Lineage
<1>5. \A i \in Tasks : program[i] \in Nat
  BY DEF LabInv, TypeOK
<1>6. c # me
  BY <1>4, <1>5 DEF Begets, PROGRAM_INIT, PROGRAM_SHELL, PROGRAM_HELLO
<1>7. \E i \in Tasks \ {me} : state[i] = PROCESS_READY
  <2>1. CASE state[c] = PROCESS_READY
    BY <1>6, <2>1
  <2>2. CASE state[c] = PROCESS_WAITING
    <3>1. PICK d \in Tasks : Alive(d) /\ Begets(program[c], program[d])
      BY <2>2, WaitersAreParents
    <3>2. program[d] \notin {PROGRAM_INIT, PROGRAM_SHELL} /\ d # me
      BY <1>4, <1>5, <3>1 DEF Begets, PROGRAM_INIT, PROGRAM_SHELL, PROGRAM_HELLO
    <3>3. state[d] = PROCESS_READY
      BY <3>1, <3>2, WaitersAreParents DEF Alive
    <3>4. QED BY <3>2, <3>3
  <2>3. QED BY <1>3, <2>1, <2>2 DEF Alive
<1>8. DEFINE blocked == [state EXCEPT ![me] = PROCESS_WAITING]
<1>9. /\ blocked \in [Tasks -> ProcessState] /\ blocked[me] = PROCESS_WAITING
      /\ \A i \in Tasks \ {me} : blocked[i] = state[i]
  BY DEF LabInv, TypeOK, ProcessState
<1>10. ~NoneReady(blocked)
  BY <1>7, <1>9 DEF NoneReady
<1>11. /\ state' = blocked
       /\ waiting_for' = [waiting_for EXCEPT ![me] = pid]
       /\ \E i \in Tasks : NextReady(blocked, i) /\ select_task(i)
       /\ UNCHANGED <<pages, id, parent, program, status, spaces, rax, next_pid, spawning, panic>>
  BY <1>1, <1>10 DEF wait_blocks
<1>12. PICK i \in Tasks : NextReady(blocked, i) /\ current' = i /\ cr3' = root[i]
  BY <1>11 DEF select_task
<1>13. blocked[i] = PROCESS_READY
  BY <1>12, NextReadyIsReady
<1>14. i # me /\ Alive(i) /\ state'[i] = PROCESS_READY
  BY <1>9, <1>11, <1>13 DEF Alive, PROCESS_READY, PROCESS_WAITING
<1>15. root[i] \in tables[i] /\ root[i] \in Frames
  BY <1>14, SelectReady
<1>16. \A j \in Tasks : (Alive(j)' <=> Alive(j)) /\ (Unused(j)' <=> Unused(j))
  BY <1>1, <1>9, <1>11 DEF Alive, Unused, PROCESS_UNUSED, PROCESS_READY, PROCESS_WAITING
<1>17. TypeOK'
  <2>1. waiting_for' \in [Tasks -> Nat]
    BY <1>11 DEF LabInv, TypeOK
  <2>2. QED
    BY <1>9, <1>11, <1>12, <1>15, <2>1 DEF LabInv, TypeOK, PageTypeOK, pages, spaces
<1>18. MemoryInv'
  <2>1. CountExact' /\ ZeroReserved'
    BY <1>11 DEF LabInv, MemoryInv, CountExact, FreeFrames, ZeroReserved, pages
  <2>2. Building' /\ PagesArriveClean'
    BY <1>1, <1>11 DEF Building, PagesArriveClean
  <2>3. AllocatedFrames' = AllocatedFrames /\ \A j \in Tasks : Held(j)' = Held(j)
    BY <1>11 DEF AllocatedFrames, Held, pages, spaces
  <2>4. PagesHaveOneOwner'
    BY <1>1, <1>11, <1>16, <2>3 DEF LabInv, MemoryInv, PagesHaveOneOwner, spaces
  <2>5. Built'
    BY <1>11, <1>16, <2>3 DEF LabInv, MemoryInv, Built, Complete, spaces
  <2>6. QED BY <2>1, <2>2, <2>4, <2>5 DEF MemoryInv
<1>19. FamilyInv'
  <2>1. PidsIssued' /\ Lineage' /\ FamilyIntact'
    BY <1>11, <1>16 DEF LabInv, FamilyInv, PidsIssued, Lineage, FamilyIntact
  <2>2. SpawnAsked'
    BY <1>1, <1>11 DEF SpawnAsked, NotSpawning
  <2>3. WaiterHasLivingChild'
    <3>1. ASSUME NEW j \in Tasks, state'[j] = PROCESS_WAITING
          PROVE  \E k \in Tasks : Alive(k)' /\ id[k] = waiting_for'[j] /\ parent[k] = id[j]
      <4>1. CASE j = me
        BY <1>2, <1>3, <1>11, <1>16, <4>1 DEF LabInv, TypeOK
      <4>2. CASE j # me
        BY <1>9, <1>11, <1>16, <3>1, <4>2
        DEF LabInv, TypeOK, FamilyInv, WaiterHasLivingChild
      <4>3. QED BY <4>1, <4>2
    <3>2. QED BY <1>11, <3>1 DEF WaiterHasLivingChild
  <2>4. QED BY <2>1, <2>2, <2>3 DEF FamilyInv
<1>20. CurrentIsMapped' /\ NoInternalPanic'
  BY <1>11, <1>12, <1>14, <1>15 DEF LabInv, CurrentIsMapped, NoInternalPanic, spaces
<1>21. QED
  BY <1>17, <1>18, <1>19, <1>20 DEF LabInv

\* SYS_INSPECT never finds a mapping gone.
LEMMA InspectStep == LabInv /\ sys_inspect => LabInv'
<1> SUFFICES ASSUME LabInv, sys_inspect PROVE LabInv'
  OBVIOUS
<1>1. spawning = NotSpawning
  BY UserMode DEF sys_inspect
<1>2. \A i \in Tasks : state[i] # PROCESS_UNUSED /\ root[i] # 0 => Complete(i)
  <2>1. \A i \in Tasks : root[i] # 0 => Alive(i)
    BY <1>1 DEF LabInv, MemoryInv, PagesHaveOneOwner, Held
  <2>2. QED
    BY <2>1 DEF LabInv, MemoryInv, Built
<1>3. Returns(0) /\ UNCHANGED <<pages, state, family, spaces, cpu, next_pid, spawning, panic>>
  BY <1>2 DEF sys_inspect
<1>4. QED
  BY <1>3, ReturnStep

-----------------------------------------------------------------------------
(* The theorems.                                                           *)

\* Every step of the kernel preserves the invariant.
LEMMA LabNext == LabInv /\ [Next]_vars => LabInv'
<1> SUFFICES ASSUME LabInv, [Next]_vars PROVE LabInv'
  OBVIOUS
<1>1. ASSUME NEW p \in 0 .. Programs, sys_spawn(p) PROVE LabInv'
  BY <1>1, SpawnStep
<1>2. ASSUME NEW p \in 0 .. Programs, sys_spawn_refused(p) PROVE LabInv'
  BY <1>2, ReturnStep DEF sys_spawn_refused
<1>3. CASE prepare_alloc
  BY <1>3, AllocStep
<1>4. CASE spawn_fails
  BY <1>4, SpawnFailsStep
<1>5. CASE spawn_done
  BY <1>5, SpawnDoneStep
<1>6. CASE task_tick
  BY <1>6, TickStep
<1>7. ASSUME NEW code \in Statuses, sys_exit(code) PROVE LabInv'
  BY <1>7, ExitStep, LabAssumption DEF sys_exit
<1>8. ASSUME NEW vector \in Vectors, user_fault(vector) PROVE LabInv'
  <2>1. 128 + vector \in Nat
    BY LabAssumption
  <2>2. QED
    BY <1>8, <2>1, ExitStep DEF user_fault
<1>9. ASSUME NEW pid \in Pids, wait_reaps(pid) PROVE LabInv'
  BY <1>9, ReapStep
<1>10. ASSUME NEW pid \in Pids, wait_blocks(pid) PROVE LabInv'
  BY <1>10, BlockStep, LabAssumption DEF Pids
<1>11. ASSUME NEW pid \in Pids, wait_refused(pid) PROVE LabInv'
  BY <1>11, ReturnStep DEF wait_refused
<1>12. CASE sys_inspect
  BY <1>12, InspectStep
<1>13. CASE UNCHANGED vars
  <2>1. rax' \in [Tasks -> Int] /\ NoInternalPanic'
    BY <1>13 DEF vars, LabInv, TypeOK, NoInternalPanic
  <2>2. QED
    BY <1>13, <2>1, QuietStep DEF vars
<1>14. ASSUME NEW vector \in Vectors, unexpected_exception(vector) PROVE LabInv'
  BY <1>14, PanicStep DEF unexpected_exception
<1>15. QED
  BY <1>1, <1>2, <1>3, <1>4, <1>5, <1>6, <1>7, <1>8, <1>9, <1>10, <1>11, <1>12, <1>13, <1>14
  DEF Next, Halted

\* Every state of the task table and the allocator under it is well typed.
THEOREM LabTypeCorrect == Spec => []TypeOK
<1>1. LabInv => TypeOK
  BY DEF LabInv
<1>2. QED BY <1>1, LabInit, LabNext, PTL DEF Spec

\* Under the laboratory's handlers too, pages.free_count is exact.
THEOREM LabCountCorrect == Spec => []CountExact
<1>1. LabInv => CountExact
  BY DEF LabInv, MemoryInv
<1>2. QED BY <1>1, LabInit, LabNext, PTL DEF Spec

\* Every allocated page has exactly one owner, which is alive or being made.
THEOREM OwnershipCorrect == Spec => []PagesHaveOneOwner
<1>1. LabInv => PagesHaveOneOwner
  BY DEF LabInv, MemoryInv
<1>2. QED BY <1>1, LabInit, LabNext, PTL DEF Spec

\* CR3 is the root of the current task, which is ready and still owns it.
THEOREM MappingCorrect == Spec => []CurrentIsMapped
<1>1. LabInv => CurrentIsMapped
  BY DEF LabInv
<1>2. QED BY <1>1, LabInit, LabNext, PTL DEF Spec

\* No wake-up is lost.
THEOREM WaitersCorrect == Spec => []WaiterHasLivingChild
<1>1. LabInv => WaiterHasLivingChild
  BY DEF LabInv, FamilyInv
<1>2. QED BY <1>1, LabInit, LabNext, PTL DEF Spec

\* Pids are unique and every process but init can be reaped.
THEOREM FamilyCorrect == Spec => []FamilyIntact
<1>1. LabInv => FamilyIntact
  BY DEF LabInv, FamilyInv
<1>2. QED BY <1>1, LabInit, LabNext, PTL DEF Spec

\* The kernel's own checks never fire: some task can always run, no active
\* root is released and no mapping disappears.  It stops for want of memory
\* for init, when init or a shell exits, and at an exception of ring 3 that
\* interrupt_dispatch does not pass to user_fault, and for nothing else.
THEOREM PanicsCorrect == Spec => []NoInternalPanic
<1>1. LabInv => NoInternalPanic
  BY DEF LabInv
<1>2. QED BY <1>1, LabInit, LabNext, PTL DEF Spec

\* The pages a process is given were zeroed for it.
THEOREM CleanPagesCorrect == Spec => []PagesArriveClean
<1>1. LabInv => PagesArriveClean
  BY DEF LabInv, MemoryInv
<1>2. QED BY <1>1, LabInit, LabNext, PTL DEF Spec

-----------------------------------------------------------------------------
\* What WaitReturnsStatus says of one step, for task i.
HandsOver(i) ==
  /\ state[i] = PROCESS_WAITING /\ state'[i] # PROCESS_WAITING =>
       \E c \in Tasks : /\ c = current /\ id[c] = waiting_for[i] /\ parent[c] = id[i]
                       /\ state'[i] = PROCESS_READY /\ rax'[i] = status'[c]
                       /\ state'[c] = PROCESS_UNUSED
  /\ state[i] = PROCESS_EXITED /\ state'[i] # PROCESS_EXITED =>
       /\ state'[i] = PROCESS_UNUSED
       /\ parent[i] = id[current] /\ rax'[current] = status[i]

\* Exit hands its status to the task that waits for it and to no other.
LEMMA ExitHandsOver ==
  ASSUME LabInv, InUserMode, NEW code, task_exit(code), NEW i \in Tasks
  PROVE  HandsOver(i)
<1>1. current \in Tasks /\ state[current] = PROCESS_READY
  BY UserMode
<1>2. CASE state' = state
  BY <1>2 DEF HandsOver
<1>3. CASE state' # state
  <2>1. /\ state' = [AfterExit(current) EXCEPT ![current] = Reaped(current)]
        /\ status' = [status EXCEPT ![current] = code]
        /\ rax' = [j \in Tasks |-> IF j \in Waiters(current) THEN code ELSE rax[j]]
    BY <1>3 DEF task_exit, Panic
  <2>2. /\ state'[current] = Reaped(current) /\ status'[current] = code
        /\ i # current => state'[i] = IF i \in Waiters(current) THEN PROCESS_READY ELSE state[i]
    BY <1>1, <2>1 DEF AfterExit, LabInv, TypeOK
  <2>3. CASE i = current
    BY <1>1, <2>3 DEF HandsOver, PROCESS_READY, PROCESS_WAITING, PROCESS_EXITED
  <2>4. CASE i # current /\ i \in Waiters(current)
    <3>1. /\ id[i] = parent[current] /\ state[i] = PROCESS_WAITING
          /\ waiting_for[i] = id[current]
      BY <2>4 DEF Waiters
    <3>2. Reaped(current) = PROCESS_UNUSED /\ rax'[i] = code
      BY <2>1, <2>4 DEF Reaped
    <3>3. QED
      BY <1>1, <2>2, <2>4, <3>1, <3>2
      DEF HandsOver, PROCESS_READY, PROCESS_WAITING, PROCESS_EXITED
  <2>5. CASE i # current /\ i \notin Waiters(current)
    BY <2>2, <2>5 DEF HandsOver
  <2>6. QED BY <2>3, <2>4, <2>5
<1>4. QED BY <1>2, <1>3

\* No other step wakes a waiter or removes a zombie, except the reaping wait.
LEMMA NextHandsOver ==
  ASSUME LabInv, Next, NEW i \in Tasks
  PROVE  HandsOver(i)
<1>1. ASSUME state' = state PROVE HandsOver(i)
  BY <1>1 DEF HandsOver
<1>2. ASSUME NEW p \in 0 .. Programs, sys_spawn(p) \/ sys_spawn_refused(p) PROVE HandsOver(i)
  BY <1>1, <1>2 DEF sys_spawn, sys_spawn_refused
<1>3. CASE \/ prepare_alloc \/ task_tick \/ sys_inspect \/ Halted
           \/ \E vector \in Vectors : unexpected_exception(vector)
  BY <1>1, <1>3 DEF prepare_alloc, task_tick, sys_inspect, Halted, unexpected_exception, Panic, vars
<1>4. CASE spawn_fails
  BY <1>1, <1>4 DEF spawn_fails, Panic
<1>5. CASE spawn_done
  <2>1. spawning.slot \in Tasks /\ Unused(spawning.slot)
    BY <1>5 DEF spawn_done, Preparing, LabInv, TypeOK, FamilyInv, SpawnAsked
  <2>2. state' = [state EXCEPT ![spawning.slot] = PROCESS_READY]
    BY <1>5 DEF spawn_done
  <2>3. QED
    BY <2>1, <2>2
    DEF HandsOver, Unused, LabInv, TypeOK, PROCESS_UNUSED, PROCESS_WAITING, PROCESS_EXITED
<1>6. ASSUME NEW code \in Statuses, sys_exit(code) PROVE HandsOver(i)
  BY <1>6, ExitHandsOver DEF sys_exit
<1>7. ASSUME NEW vector \in Vectors, user_fault(vector) PROVE HandsOver(i)
  BY <1>7, ExitHandsOver DEF user_fault
<1>8. ASSUME NEW pid \in Pids, wait_reaps(pid) PROVE HandsOver(i)
  <2>1. PICK c \in Tasks : /\ state[c] = PROCESS_EXITED /\ parent[c] = id[current]
                           /\ rax' = [rax EXCEPT ![current] = status[c]]
                           /\ state' = [state EXCEPT ![c] = PROCESS_UNUSED]
    BY <1>8 DEF wait_reaps, FirstChild, Child, Returns
  <2>2. rax'[current] = status[c] /\ state'[c] = PROCESS_UNUSED
        /\ \A j \in Tasks \ {c} : state'[j] = state[j]
    BY <2>1 DEF LabInv, TypeOK
  <2>3. QED
    BY <2>1, <2>2 DEF HandsOver, PROCESS_WAITING, PROCESS_EXITED
<1>9. ASSUME NEW pid \in Pids, wait_blocks(pid) PROVE HandsOver(i)
  <2>1. current \in Tasks /\ state[current] = PROCESS_READY
    BY <1>9, UserMode DEF wait_blocks
  <2>2. CASE state' = state
    BY <1>1, <2>2
  <2>3. CASE state' = [state EXCEPT ![current] = PROCESS_WAITING]
    <3>1. \A j \in Tasks \ {current} : state'[j] = state[j]
      BY <2>3 DEF LabInv, TypeOK
    <3>2. QED
      BY <2>1, <3>1 DEF HandsOver, PROCESS_READY, PROCESS_WAITING, PROCESS_EXITED
  <2>4. QED
    BY <1>9, <2>2, <2>3 DEF wait_blocks, Panic
<1>10. ASSUME NEW pid \in Pids, wait_refused(pid) PROVE HandsOver(i)
  BY <1>1, <1>10 DEF wait_refused
<1>11. QED
  BY <1>2, <1>3, <1>4, <1>5, <1>6, <1>7, <1>8, <1>9, <1>10 DEF Next

\* wait returns the status of the child it names, and frees its slot.
THEOREM WaitCorrect == Spec => WaitReturnsStatus
<1>1. LabInv /\ [Next]_vars => [\A i \in Tasks : HandsOver(i)]_vars
  BY NextHandsOver
<1>2. QED
  BY <1>1, LabInit, LabNext, PTL DEF Spec, WaitReturnsStatus, HandsOver

-----------------------------------------------------------------------------
(* Laboratory implements Processes.                                        *)

\* The spawn in progress has taken the last pid, what its new task will find
\* in rax is 0, and the caller had the right to it.
SpawnNamed ==
  spawning # NotSpawning =>
    /\ id[spawning.slot] = next_pid - 1 /\ rax[spawning.slot] = 0
    /\ spawning.by = "boot" => next_pid = 2
    /\ spawning.by = "task" =>
         program[spawning.slot] \in 0 .. Programs /\ MaySpawn(program[spawning.slot])

\* What the refinement needs of a state.
AbiInv == LabInv /\ SpawnNamed

\* Nothing has been spawned before init, whose pid is the first.
LEMMA NamedInit == Init => AbiInv
<1> SUFFICES ASSUME Init PROVE AbiInv
  OBVIOUS
<1>1. LabInv
  BY LabInit
<1>2. SpawnNamed
  BY ZeroIsThere DEF Init, SpawnNamed
<1>3. QED BY <1>1, <1>2 DEF AbiInv

\* Only sys_spawn names a process, and nothing runs until spawn returns.
LEMMA NamedNext == AbiInv /\ [Next]_vars => AbiInv'
<1> SUFFICES ASSUME LabInv, SpawnNamed, [Next]_vars PROVE SpawnNamed'
  BY LabNext DEF AbiInv
<1>1. ASSUME spawning' = NotSpawning PROVE SpawnNamed'
  BY <1>1 DEF SpawnNamed
<1>2. ASSUME UNCHANGED <<id, program, rax, current, next_pid>>, spawning' = spawning
      PROVE  SpawnNamed'
  BY <1>2 DEF SpawnNamed, MaySpawn
<1>3. ASSUME NEW p \in 0 .. Programs, sys_spawn(p) PROVE SpawnNamed'
  <2>1. PICK i \in Tasks :
          /\ FirstUnused(i)
          /\ spawning' = [by |-> "task", slot |-> i, done |-> 0]
          /\ id' = [id EXCEPT ![i] = next_pid]
          /\ program' = [program EXCEPT ![i] = p]
          /\ rax' = [rax EXCEPT ![i] = 0]
          /\ next_pid' = next_pid + 1 /\ current' = current
    BY <1>3 DEF sys_spawn, cpu
  <2>2. current \in Tasks /\ state[current] = PROCESS_READY
    BY <1>3, UserMode DEF sys_spawn
  <2>3. i # current
    BY <2>1, <2>2 DEF FirstUnused, Unused, PROCESS_READY, PROCESS_UNUSED
  <2>4. /\ id'[i] = next_pid /\ program'[i] = p /\ rax'[i] = 0
        /\ program'[current] = program[current] /\ next_pid \in Nat
    BY <2>1, <2>2, <2>3 DEF LabInv, TypeOK
  <2>5. MaySpawn(p)
    BY <1>3 DEF sys_spawn
  <2>6. MaySpawn(p)'
    BY <2>1, <2>4, <2>5 DEF MaySpawn
  <2>7. spawning'.slot = i /\ spawning'.by = "task"
    BY <2>1
  <2>8. id'[i] = next_pid' - 1
    BY <2>1, <2>4
  <2>9. QED BY <2>4, <2>6, <2>7, <2>8 DEF SpawnNamed, MaySpawn
<1>4. CASE prepare_alloc
  <2>1. spawning' = [spawning EXCEPT !.done = @ + 1] /\ spawning # NotSpawning
    BY <1>4 DEF prepare_alloc, Preparing
  <2>2. spawning'.by = spawning.by /\ spawning'.slot = spawning.slot
    BY <2>1 DEF LabInv, TypeOK
  <2>3. UNCHANGED <<id, program, rax, current, next_pid>>
    BY <1>4 DEF prepare_alloc, family, cpu
  <2>4. QED BY <2>1, <2>2, <2>3 DEF SpawnNamed, MaySpawn
<1>5. CASE spawn_fails
  <2>1. CASE spawning' = NotSpawning
    BY <1>1, <2>1
  <2>2. CASE \E why \in Why : Panic(why)
    BY <1>2, <2>2 DEF Panic, family, cpu
  <2>3. QED BY <1>5, <2>1, <2>2 DEF spawn_fails, Why
<1>6. CASE spawn_done
  BY <1>1, <1>6 DEF spawn_done
<1>7. CASE \/ \E p \in 0 .. Programs : sys_spawn_refused(p)
           \/ task_tick \/ sys_inspect
           \/ \E pid \in Pids : wait_reaps(pid) \/ wait_blocks(pid) \/ wait_refused(pid)
  <2>1. spawning = NotSpawning /\ spawning' = spawning
    BY <1>7 DEF sys_spawn_refused, task_tick, sys_inspect, wait_reaps, wait_blocks,
                wait_refused, InUserMode, Panic
  <2>2. QED BY <1>1, <2>1
<1>8. CASE \/ \E code \in Statuses : sys_exit(code)
           \/ \E vector \in Vectors : user_fault(vector) \/ unexpected_exception(vector)
  <2>1. spawning = NotSpawning /\ spawning' = spawning
    BY <1>8 DEF sys_exit, user_fault, unexpected_exception, task_exit, InUserMode, Panic
  <2>2. QED BY <1>1, <2>1
<1>9. CASE UNCHANGED vars
  BY <1>2, <1>9 DEF vars, family, cpu
<1>10. QED
  BY <1>3, <1>4, <1>5, <1>6, <1>7, <1>8, <1>9 DEF Next, Halted

\* By pid the table holds the task of that pid.
LEMMA TableAt ==
  ASSUME LabInv
  PROVE  /\ DOMAIN Table = {id[i] : i \in Listed}
         /\ \A i \in Listed : Table[id[i]] = Shown(i)
<1>1. \A i, j \in Listed : id[i] = id[j] => i = j
  BY DEF LabInv, FamilyInv, FamilyIntact, Listed
<1>2. DOMAIN Table = {id[i] : i \in Listed}
  BY DEF Table
<1>3. ASSUME NEW i \in Listed PROVE Table[id[i]] = Shown(i)
  <2>1. (CHOOSE j \in Listed : id[j] = id[i]) = i
    BY <1>1
  <2>2. Table[id[i]] = Shown(CHOOSE j \in Listed : id[j] = id[i])
    <3> DEFINE Of(p) == Shown(CHOOSE j \in Listed : id[j] = p)
    <3>1. Table = [p \in {id[j] : j \in Listed} |-> Of(p)]
      BY DEF Table
    <3> HIDE DEF Of
    <3>2. Table[id[i]] = Of(id[i])
      BY <3>1
    <3>3. QED BY <3>2 DEF Of
  <2>3. QED BY <2>1, <2>2
<1>4. QED BY <1>2, <1>3

\* So it does after a step.
LEMMA TableAtNext ==
  ASSUME LabInv'
  PROVE  /\ Table' = [p \in DOMAIN Table' |-> Table'[p]]
         /\ DOMAIN Table' = {id'[i] : i \in Listed'}
         /\ \A i \in Listed' : Table'[id'[i]] = Shown(i)'
<1>1. \A i, j \in Listed' : id'[i] = id'[j] => i = j
  BY DEF LabInv, FamilyInv, FamilyIntact, Listed
<1>2. Table' = [p \in DOMAIN Table' |-> Table'[p]] /\ DOMAIN Table' = {id'[i] : i \in Listed'}
  BY DEF Table
<1>3. ASSUME NEW i \in Listed' PROVE Table'[id'[i]] = Shown(i)'
  <2>1. (CHOOSE j \in Listed' : id'[j] = id'[i]) = i
    BY <1>1
  <2>2. QED BY <2>1 DEF Table
<1>4. QED BY <1>2, <1>3

\* Only one function does.
LEMMA TableIs ==
  ASSUME LabInv', NEW f, f = [p \in DOMAIN f |-> f[p]],
         DOMAIN f = {id'[i] : i \in Listed'},
         \A i \in Listed' : f[id'[i]] = Shown(i)'
  PROVE  Table' = f
<1>1. /\ Table' = [p \in DOMAIN Table' |-> Table'[p]]
      /\ DOMAIN Table' = {id'[i] : i \in Listed'}
      /\ \A i \in Listed' : Table'[id'[i]] = Shown(i)'
  BY TableAtNext
<1>2. DOMAIN Table' = DOMAIN f /\ \A p \in DOMAIN f : Table'[p] = f[p]
  BY <1>1
<1>3. QED BY <1>1, <1>2

\* The functions Processes builds its tables with.
Put(t, p, r) == [q \in DOMAIN t \cup {p} |-> IF q = p THEN r ELSE t[q]]
Drop(t, p)   == [q \in DOMAIN t \ {p} |-> t[q]]

\* The task that runs is in the table, under its pid, and ready.
LEMMA Calling ==
  ASSUME LabInv, panic = "none", spawning.by # "boot"
  PROVE  /\ current \in Listed /\ Running = id[current]
         /\ Running \in DOMAIN Table /\ Table[Running] = Shown(current)
         /\ Abi!me = Shown(current) /\ Abi!Ready(Running)
<1>1. current \in Tasks /\ state[current] = PROCESS_READY
  BY DEF LabInv, TypeOK, CurrentIsMapped
<1>2. current \in Listed /\ Running = id[current]
  BY <1>1 DEF Listed, Running, Unused, PROCESS_READY, PROCESS_UNUSED
<1>3. Running \in DOMAIN Table /\ Table[Running] = Shown(current)
  BY <1>2, TableAt
<1>4. Shown(current).state = "ready"
  BY <1>1 DEF Shown, PROCESS_READY
<1>5. QED BY <1>2, <1>3, <1>4 DEF Abi!me, Abi!Ready

\* Nobody's place in the table changes.
LEMMA TableKept ==
  ASSUME LabInv, LabInv', Listed' = Listed,
         \A i \in Listed : id'[i] = id[i] /\ Shown(i)' = Shown(i)
  PROVE  Table' = Table
<1>1. DOMAIN Table = {id[i] : i \in Listed} /\ \A i \in Listed : Table[id[i]] = Shown(i)
  BY TableAt
<1>2. DOMAIN Table = {id'[i] : i \in Listed'}
  BY <1>1
<1>3. Table = [p \in DOMAIN Table |-> Table[p]]
  BY DEF Table
<1>4. QED BY <1>1, <1>2, <1>3, TableIs

\* One task is seen to change.
LEMMA TableWith ==
  ASSUME LabInv, LabInv', NEW c \in Listed, Listed' = Listed,
         \A i \in Listed : id'[i] = id[i],
         \A i \in Listed \ {c} : Shown(i)' = Shown(i)
  PROVE  Table' = Put(Table, id[c], Shown(c)')
<1>1. DOMAIN Table = {id[i] : i \in Listed} /\ \A i \in Listed : Table[id[i]] = Shown(i)
  BY TableAt
<1>0. PICK t, n, r : t = Table /\ n = id[c] /\ r = Shown(c)'
  OBVIOUS
<1> DEFINE f == Put(t, n, r)
<1>2. /\ f = [p \in DOMAIN f |-> f[p]] /\ DOMAIN f = DOMAIN t \cup {n}
      /\ f[n] = r /\ \A q \in DOMAIN t \ {n} : f[q] = t[q]
  BY DEF Put
<1> HIDE DEF f
<1>3. \A i \in Listed : id[i] = id[c] => i = c
  BY DEF LabInv, FamilyInv, FamilyIntact, Listed
<1>4. DOMAIN f = {id'[i] : i \in Listed'}
  BY <1>0, <1>1, <1>2
<1>5. ASSUME NEW i \in Listed' PROVE f[id'[i]] = Shown(i)'
  BY <1>0, <1>1, <1>2, <1>3
<1>6. Table' = f
  BY <1>2, <1>4, <1>5, TableIs
<1>7. QED BY <1>0, <1>6 DEF f, Put

\* A call that returns v and does nothing else.
LEMMA TableAnswered ==
  ASSUME LabInv, LabInv', panic = "none", spawning.by # "boot", NEW v, Returns(v),
         UNCHANGED <<state, id, parent, program>>,
         \A i \in Listed : status'[i] = status[i] /\ waiting_for'[i] = waiting_for[i]
  PROVE  Table' = Abi!Answered(v)
<1>1. PICK me \in Listed : me = current
  BY Calling
<1>2. Running = id[me] /\ me \in Tasks /\ Abi!me = Shown(me)
  BY <1>1, Calling DEF Listed
<1>3. rax'[me] = v /\ \A i \in Tasks \ {me} : rax'[i] = rax[i]
  BY <1>1, <1>2 DEF Returns, LabInv, TypeOK
<1>4. Listed' = Listed /\ Listed \subseteq Tasks
  BY DEF Listed, Unused
<1>5. \A i \in Listed \ {me} : Shown(i)' = Shown(i)
  BY <1>3, <1>4 DEF Shown
<1>6. Shown(me)' = [Shown(me) EXCEPT !.result = v]
  BY <1>3 DEF Shown
<1>7. Table' = Put(Table, id[me], Shown(me)')
  BY <1>4, <1>5, TableWith
<1>8. QED BY <1>2, <1>6, <1>7 DEF Abi!Answered, Abi!With, Put

\* A call that is answered at once is a call of Processes.
LEMMA AnswerSeen ==
  ASSUME LabInv, LabInv', InUserMode, NEW v, Returns(v),
         UNCHANGED <<state, family, cpu, next_pid, spawning, panic>>
  PROVE  /\ Abi!Ready(Running) /\ Table' = Abi!Answered(v)
         /\ Running' = Running /\ Issued' = Issued /\ panic = "none" /\ panic' = panic
<1>1. panic = "none" /\ spawning.by # "boot"
  BY DEF InUserMode, NotSpawning
<1>2. Abi!Ready(Running)
  BY <1>1, Calling
<1>3. Table' = Abi!Answered(v)
  BY <1>1, TableAnswered DEF family
<1>4. Running' = Running /\ Issued' = Issued
  BY DEF Running, Issued, Unused, family, cpu
<1>5. QED BY <1>1, <1>2, <1>3, <1>4

\* The rights of spawn are those of Processes.
LEMMA SameRights ==
  ASSUME LabInv, panic = "none", spawning.by # "boot", NEW p \in 0 .. Programs, MaySpawn(p)
  PROVE  Abi!MaySpawn(p) /\ p \in 1 .. Programs
<1>1. Abi!me.program = program[current]
  BY Calling DEF Shown
<1>2. p \in Int /\ Programs \in Int
  BY LabAssumption
<1>3. QED
  BY <1>1, <1>2 DEF Abi!MaySpawn, MaySpawn, PROGRAM_INIT, PROGRAM_SHELL, PROGRAM_HELLO

\* A spawn that is refused.
LEMMA RefusalSeen ==
  ASSUME LabInv, LabInv', NEW p \in 0 .. Programs, sys_spawn_refused(p)
  PROVE  Abi!Next
<1>1. InUserMode /\ UNCHANGED <<state, family, cpu, next_pid, spawning, panic>>
  BY DEF sys_spawn_refused
<1>2. CASE Returns(-3)
  <2>1. /\ Abi!Ready(Running) /\ Table' = Abi!Answered(-3)
        /\ Running' = Running /\ Issued' = Issued /\ panic = "none" /\ panic' = panic
    BY <1>1, <1>2, AnswerSeen
  <2>2. Abi!Refused
    BY <2>1 DEF Abi!Refused
  <2>3. QED BY <2>1, <2>2 DEF Abi!Next
<1>3. CASE MaySpawn(p) /\ Returns(-5)
  <2>1. /\ Abi!Ready(Running) /\ Table' = Abi!Answered(-5)
        /\ Running' = Running /\ Issued' = Issued /\ panic = "none" /\ panic' = panic
    BY <1>1, <1>3, AnswerSeen
  <2>2. Abi!MaySpawn(p) /\ p \in 1 .. Programs
    BY <1>1, <1>3, SameRights DEF InUserMode, NotSpawning
  <2>3. Abi!SpawnFails(p)
    BY <2>1, <2>2 DEF Abi!SpawnFails
  <2>4. QED BY <2>1, <2>2, <2>3 DEF Abi!Next
<1>4. QED BY <1>2, <1>3 DEF sys_spawn_refused

\* A wait for no child.
LEMMA WaitRefusalSeen ==
  ASSUME LabInv, LabInv', NEW pid, wait_refused(pid)
  PROVE  Abi!Next
<1>1. /\ Abi!Ready(Running) /\ Table' = Abi!Answered(-3)
      /\ Running' = Running /\ Issued' = Issued /\ panic = "none" /\ panic' = panic
  BY AnswerSeen DEF wait_refused
<1>2. Abi!Refused
  BY <1>1 DEF Abi!Refused
<1>3. QED BY <1>1, <1>2 DEF Abi!Next

\* SYS_INSPECT answers 0.
LEMMA InspectSeen ==
  ASSUME LabInv, LabInv', sys_inspect, panic' = "none"
  PROVE  Abi!Next
<1>0. Returns(0) /\ UNCHANGED <<state, family, cpu, next_pid, spawning, panic>> /\ InUserMode
  BY DEF sys_inspect, Panic
<1>1. /\ Abi!Ready(Running) /\ Table' = Abi!Answered(0)
      /\ Running' = Running /\ Issued' = Issued /\ panic = "none" /\ panic' = panic
  BY <1>0, AnswerSeen
<1>2. Abi!Inspect
  BY <1>1 DEF Abi!Inspect
<1>3. QED BY <1>1, <1>2 DEF Abi!Next

\* Whoever runs next is ready.
LEMMA DispatchSeen ==
  ASSUME LabInv', panic' = "none", spawning'.by # "boot"
  PROVE  Abi!Dispatch
<1>1. current' \in Tasks /\ state'[current'] = PROCESS_READY
  BY DEF LabInv, TypeOK, CurrentIsMapped
<1>2. PICK c : c = current'
  OBVIOUS
<1>3. c \in Listed' /\ Running' = id'[c]
  BY <1>1, <1>2 DEF Listed, Running, Unused, PROCESS_READY, PROCESS_UNUSED
<1>4. DOMAIN Table' = {id'[i] : i \in Listed'} /\ \A i \in Listed' : Table'[id'[i]] = Shown(i)'
  BY TableAtNext
<1>5. Shown(c)'.state = "ready"
  BY <1>1, <1>2 DEF Shown, PROCESS_READY
<1>6. QED BY <1>3, <1>4, <1>5 DEF Abi!Dispatch

\* The timer.
LEMMA TickSeen ==
  ASSUME LabInv, LabInv', task_tick, panic' = "none"
  PROVE  Abi!Next
<1>1. /\ panic = "none" /\ spawning = NotSpawning
      /\ UNCHANGED <<state, family, rax, next_pid, spawning, panic>>
  BY DEF task_tick, Panic, InUserMode
<1>2. spawning.by # "boot" /\ spawning'.by # "boot"
  BY <1>1 DEF NotSpawning
<1>3. Listed' = Listed /\ \A i \in Listed : id'[i] = id[i] /\ Shown(i)' = Shown(i)
  BY <1>1 DEF Listed, Unused, Shown, family
<1>4. Table' = Table /\ Issued' = Issued
  BY <1>1, <1>3, TableKept DEF Issued
<1>5. Abi!Dispatch
  BY <1>1, <1>2, DispatchSeen
<1>6. Abi!Preempt
  BY <1>1, <1>4, <1>5 DEF Abi!Preempt
<1>7. Abi!Ready(Running)
  BY <1>1, <1>2, Calling
<1>8. QED BY <1>1, <1>6, <1>7 DEF Abi!Next

\* A stop comes before there is a process, from the exit of init or a shell,
\* or from an exception of whoever runs.
LEMMA StopSeen ==
  ASSUME LabInv, LabInv', SpawnNamed, Next, panic = "none", panic' # "none"
  PROVE  Abi!Next
<1>1. UNCHANGED <<state, family, rax, current, next_pid, spawning>>
  BY DEF Next, sys_spawn, sys_spawn_refused, prepare_alloc, spawn_fails, spawn_done, task_tick,
         sys_exit, user_fault, unexpected_exception, task_exit, wait_reaps, wait_blocks,
         wait_refused, sys_inspect, Halted, Panic, cpu, vars
<1>2. Listed' = Listed /\ \A i \in Listed : id'[i] = id[i] /\ Shown(i)' = Shown(i)
  BY <1>1 DEF Listed, Unused, Shown, family
<1>3. Table' = Table
  BY <1>2, TableKept
<1>4. Running' = Running /\ Issued' = Issued
  BY <1>1 DEF Running, Issued, Unused, family
<1>5. panic' \in {"LAB init creation failed", "LAB init or shell exited",
                  "unexpected CPU exception"}
  BY DEF LabInv, NoInternalPanic
<1>6. CASE panic' = "LAB init creation failed"
  <2>1. spawn_fails /\ spawning.by = "boot" /\ spawning # NotSpawning
    BY <1>6 DEF Next, sys_spawn, sys_spawn_refused, prepare_alloc, spawn_fails, spawn_done,
         task_tick, sys_exit, user_fault, unexpected_exception, task_exit, wait_reaps,
         wait_blocks, wait_refused, sys_inspect, Halted, Panic, vars, Preparing
  <2>2. Issued = 0
    BY <2>1 DEF Issued, SpawnNamed
  <2>3. QED BY <1>3, <1>4, <1>6, <2>2 DEF Abi!Next, Abi!Stop
<1>7. CASE panic' = "LAB init or shell exited"
  <2>1. InUserMode /\ Essential(current)
    BY <1>7 DEF Next, sys_spawn, sys_spawn_refused, prepare_alloc, spawn_fails, spawn_done,
         task_tick, sys_exit, user_fault, unexpected_exception, task_exit, wait_reaps,
         wait_blocks, wait_refused, sys_inspect, Halted, Panic, vars
  <2>2. Abi!me.program <= 1 /\ Abi!Ready(Running)
    <3>1. Abi!me = Shown(current) /\ Abi!Ready(Running)
      BY <2>1, Calling DEF InUserMode, NotSpawning
    <3>2. QED BY <2>1, <3>1 DEF Shown, Essential, PROGRAM_SHELL
  <2>3. QED BY <1>3, <1>4, <1>7, <2>2 DEF Abi!Next, Abi!Stop
<1>8. CASE panic' = "unexpected CPU exception"
  <2>1. InUserMode
    BY <1>8 DEF Next, sys_spawn, sys_spawn_refused, prepare_alloc, spawn_fails, spawn_done,
         task_tick, sys_exit, user_fault, unexpected_exception, task_exit, wait_reaps,
         wait_blocks, wait_refused, sys_inspect, Halted, Panic, vars
  <2>2. Abi!Ready(Running)
    BY <2>1, Calling DEF InUserMode, NotSpawning
  <2>3. QED BY <1>3, <1>4, <1>8, <2>2 DEF Abi!Next, Abi!Stop
<1>9. QED BY <1>5, <1>6, <1>7, <1>8

\* The start of a spawn and its allocations are not noticed.
LEMMA SpawnUnseen ==
  ASSUME LabInv, LabInv', NEW p, sys_spawn(p)
  PROVE  UNCHANGED Abi!processVars
<1>1. PICK s \in Tasks :
        /\ FirstUnused(s)
        /\ spawning' = [by |-> "task", slot |-> s, done |-> 0]
        /\ id' = [id EXCEPT ![s] = next_pid]
        /\ parent' = [parent EXCEPT ![s] = id[current]]
        /\ program' = [program EXCEPT ![s] = p]
        /\ status' = [status EXCEPT ![s] = 0]
        /\ waiting_for' = [waiting_for EXCEPT ![s] = 0]
        /\ rax' = [rax EXCEPT ![s] = 0]
  BY DEF sys_spawn
<1>2. /\ UNCHANGED <<state, current, panic>> /\ next_pid' = next_pid + 1
      /\ spawning = NotSpawning /\ next_pid \in Nat /\ current \in Listed
  <2>1. panic = "none" /\ spawning = NotSpawning
    BY DEF sys_spawn, InUserMode
  <2>2. current \in Listed
    BY <2>1, Calling DEF NotSpawning
  <2>3. QED BY <2>1, <2>2 DEF sys_spawn, cpu, LabInv, TypeOK
<1>3. Listed' = Listed /\ s \notin Listed
  BY <1>1, <1>2 DEF Listed, Unused, FirstUnused
<1>4. \A i \in Listed : /\ id'[i] = id[i] /\ parent'[i] = parent[i] /\ program'[i] = program[i]
                        /\ status'[i] = status[i] /\ waiting_for'[i] = waiting_for[i]
                        /\ rax'[i] = rax[i]
  BY <1>1, <1>3 DEF Listed, LabInv, TypeOK
<1>5. \A i \in Listed : Shown(i)' = Shown(i)
  BY <1>2, <1>4 DEF Shown
<1>6. Table' = Table
  BY <1>3, <1>4, <1>5, TableKept
<1>7. Running' = Running
  BY <1>2, <1>4 DEF Running, Unused
<1>8. Issued' = Issued
  BY <1>1, <1>2 DEF Issued, NotSpawning
<1>9. QED BY <1>2, <1>6, <1>7, <1>8 DEF Abi!processVars

\* Each allocation of prepare leaves the table and the pids alone.
LEMMA AllocUnseen ==
  ASSUME LabInv, LabInv', prepare_alloc
  PROVE  UNCHANGED Abi!processVars
<1>1. UNCHANGED <<state, family, rax, current, next_pid, panic>>
  BY DEF prepare_alloc, cpu
<1>2. Listed' = Listed /\ \A i \in Listed : id'[i] = id[i] /\ Shown(i)' = Shown(i)
  BY <1>1 DEF Listed, Unused, Shown, family
<1>3. Table' = Table
  BY <1>2, TableKept
<1>4. spawning # NotSpawning /\ spawning'.by = spawning.by
  BY DEF prepare_alloc, Preparing, LabInv, TypeOK
<1>5. spawning' # NotSpawning
  BY <1>4 DEF LabInv, FamilyInv, SpawnAsked, NotSpawning
<1>6. Running' = Running /\ Issued' = Issued
  BY <1>1, <1>4, <1>5 DEF Running, Issued, Unused, family
<1>7. QED BY <1>1, <1>3, <1>6 DEF Abi!processVars

\* A spawn that runs out of memory loses its pid.
LEMMA SpawnFailureSeen ==
  ASSUME LabInv, LabInv', SpawnNamed, spawn_fails, panic' = "none"
  PROVE  Abi!Next
<1>1. PICK s \in Tasks : s = spawning.slot
  BY DEF LabInv, TypeOK
<1>2. /\ panic = "none" /\ spawning # NotSpawning /\ spawning.by # "boot"
      /\ id' = [id EXCEPT ![s] = 0]
      /\ parent' = [parent EXCEPT ![s] = 0]
      /\ program' = [program EXCEPT ![s] = PROGRAM_INIT]
      /\ Returns(-5) /\ spawning' = NotSpawning
      /\ UNCHANGED <<status, waiting_for, state, current, next_pid, panic>>
  BY <1>1 DEF spawn_fails, Preparing, Panic, cpu
<1>3. spawning.by = "task"
  BY <1>2 DEF LabInv, TypeOK, FamilyInv, SpawnAsked
<1>4. s \notin Listed /\ Listed' = Listed /\ Listed \subseteq Tasks
  BY <1>1, <1>2, <1>3 DEF Listed, LabInv, FamilyInv, SpawnAsked, Unused
<1>5. PICK me \in Listed : me = current
  BY <1>2, Calling
<1>6. Running = id[me] /\ me \in Tasks /\ Abi!me = Shown(me) /\ Abi!Ready(Running)
  BY <1>2, <1>5, Calling DEF Listed
<1>7. \A i \in Listed : id'[i] = id[i] /\ parent'[i] = parent[i] /\ program'[i] = program[i]
  BY <1>2, <1>4 DEF LabInv, TypeOK
<1>8. rax'[me] = -5 /\ \A i \in Listed \ {me} : rax'[i] = rax[i]
  BY <1>2, <1>4, <1>5 DEF Returns, LabInv, TypeOK
<1>9. \A i \in Listed \ {me} : Shown(i)' = Shown(i)
  BY <1>2, <1>7, <1>8 DEF Shown
<1>10. Shown(me)' = [Shown(me) EXCEPT !.result = -5]
  BY <1>2, <1>7, <1>8 DEF Shown
<1>11. Table' = Put(Table, id[me], Shown(me)')
  BY <1>4, <1>7, <1>9, TableWith
<1>12. Table' = Abi!Answered(-5)
  BY <1>6, <1>10, <1>11 DEF Abi!Answered, Abi!With, Put
<1>13. Running' = Running /\ Issued' = Issued + 1
  <2>1. next_pid \in Nat
    BY DEF LabInv, TypeOK
  <2>2. QED BY <1>2, <1>5, <1>6, <1>7, <2>1 DEF Running, Issued, Unused
<1>14. Abi!MaySpawn(program[s]) /\ program[s] \in 1 .. Programs
  BY <1>1, <1>2, <1>3, SameRights DEF SpawnNamed
<1>15. Abi!SpawnFails(program[s])
  BY <1>2, <1>12, <1>13, <1>14 DEF Abi!SpawnFails
<1>16. QED BY <1>2, <1>6, <1>14, <1>15 DEF Abi!Next

\* A task joins the table and another is told.
LEMMA TableGrows ==
  ASSUME LabInv, LabInv', NEW c \in Listed, NEW s \in Tasks, s \notin Listed,
         Listed' = Listed \cup {s}, id' = id,
         \A i \in Listed \ {c} : Shown(i)' = Shown(i)
  PROVE  Table' = Put(Put(Table, id[c], Shown(c)'), id[s], Shown(s)')
<1>1. DOMAIN Table = {id[i] : i \in Listed} /\ \A i \in Listed : Table[id[i]] = Shown(i)
  BY TableAt
<1>2. PICK t, n, r, m, q :
        t = Table /\ n = id[c] /\ r = Shown(c)' /\ m = id[s] /\ q = Shown(s)'
  OBVIOUS
<1> DEFINE f == Put(Put(t, n, r), m, q)
<1>3. \A i, j \in Listed' : id[i] = id[j] => i = j
  BY DEF LabInv, FamilyInv, FamilyIntact, Listed
<1>4. n # m
  BY <1>2, <1>3
<1>5. /\ f = [p \in DOMAIN f |-> f[p]] /\ DOMAIN f = DOMAIN t \cup {n, m}
      /\ f[n] = r /\ f[m] = q /\ \A p \in DOMAIN t \ {n, m} : f[p] = t[p]
  BY <1>4 DEF Put
<1> HIDE DEF f
<1>6. DOMAIN f = {id'[i] : i \in Listed'}
  BY <1>1, <1>2, <1>5
<1>7. ASSUME NEW i \in Listed' PROVE f[id'[i]] = Shown(i)'
  BY <1>1, <1>2, <1>3, <1>5
<1>8. Table' = f
  BY <1>5, <1>6, <1>7, TableIs
<1>9. QED BY <1>2, <1>8 DEF f, Put

\* The spawned process appears when its address space is complete.
LEMMA SpawnSeen ==
  ASSUME LabInv, LabInv', SpawnNamed, spawn_done, spawning.by # "boot"
  PROVE  Abi!Next
<1>1. PICK s \in Tasks : s = spawning.slot
  BY DEF LabInv, TypeOK
<1>2. /\ panic = "none" /\ spawning # NotSpawning /\ spawning' = NotSpawning
      /\ state' = [state EXCEPT ![s] = PROCESS_READY]
      /\ Returns(id[s])
      /\ UNCHANGED <<id, parent, program, status, waiting_for, current, next_pid, panic>>
  BY <1>1 DEF spawn_done, Preparing, cpu, family
<1>3. spawning.by = "task"
  BY <1>2 DEF LabInv, TypeOK, FamilyInv, SpawnAsked
<1>4. Unused(s) /\ parent[s] = id[current]
  BY <1>1, <1>3 DEF LabInv, FamilyInv, SpawnAsked
<1>5. state'[s] = PROCESS_READY /\ \A i \in Tasks \ {s} : state'[i] = state[i]
  BY <1>2 DEF LabInv, TypeOK
<1>6. s \notin Listed /\ Listed' = Listed \cup {s} /\ Listed \subseteq Tasks
  BY <1>4, <1>5 DEF Listed, Unused, PROCESS_READY, PROCESS_UNUSED
<1>7. PICK me \in Listed : me = current
  BY <1>2, Calling
<1>8. Running = id[me] /\ Abi!me = Shown(me) /\ Abi!Ready(Running)
  BY <1>2, <1>7, Calling
<1>9. /\ rax'[me] = id[s] /\ rax'[s] = rax[s]
      /\ \A i \in Listed \ {me} : rax'[i] = rax[i]
  BY <1>2, <1>6, <1>7 DEF Returns, LabInv, TypeOK
<1>10. rax[s] = 0 /\ id[s] = next_pid - 1
  BY <1>1, <1>2 DEF SpawnNamed
<1>11. \A i \in Listed \ {me} : Shown(i)' = Shown(i)
  BY <1>2, <1>5, <1>6, <1>9 DEF Shown
<1>12. Shown(me)' = [Shown(me) EXCEPT !.result = id[s]]
  <2>1. state'[me] = state[me]
    BY <1>5, <1>6
  <2>2. QED BY <1>2, <1>9, <2>1 DEF Shown
<1>13. Shown(s)' = Abi!New(Running, program[s])
  BY <1>2, <1>4, <1>5, <1>7, <1>8, <1>9, <1>10
  DEF Shown, Abi!New, PROCESS_READY, PROCESS_WAITING, PROCESS_EXITED
<1>14. Table' = Put(Put(Table, id[me], Shown(me)'), id[s], Shown(s)')
  BY <1>2, <1>6, <1>11, TableGrows
<1>15. Running' = Running /\ Issued' = Issued + 1 /\ Issued' = id[s]
  <2>1. next_pid \in Nat
    BY DEF LabInv, TypeOK
  <2>2. Issued' = Issued + 1 /\ Issued' = id[s]
    BY <1>2, <1>10, <2>1 DEF Issued
  <2>3. current' \in Listed' /\ id' = id
    BY <1>2, <1>6, <1>7
  <2>4. QED BY <1>7, <1>8, <1>2, <2>2, <2>3 DEF Running, Listed
<1>16. Table' = Abi!With(Abi!Answered(Issued'), Issued', Abi!New(Running, program[s]))
  <2>1. PICK v, n, x, k : v = Issued' /\ n = Abi!New(Running, program[s]) /\ x = Shown(me)'
                          /\ k = Running
    OBVIOUS
  <2>2. Table' = Put(Put(Table, k, x), v, n)
    BY <1>8, <1>13, <1>14, <1>15, <2>1
  <2>3. x = [Abi!me EXCEPT !.result = v]
    BY <1>8, <1>12, <1>15, <2>1
  <2>4. QED BY <2>1, <2>2, <2>3 DEF Abi!Answered, Abi!With, Put
<1>17. Abi!MaySpawn(program[s]) /\ program[s] \in 1 .. Programs
  BY <1>1, <1>2, <1>3, SameRights DEF SpawnNamed
<1>18. Abi!Spawn(program[s])
  BY <1>2, <1>15, <1>16, <1>17 DEF Abi!Spawn
<1>19. QED BY <1>2, <1>8, <1>17, <1>18 DEF Abi!Next

\* The first process is init, and runs.
LEMMA BootSeen ==
  ASSUME LabInv, LabInv', SpawnNamed, spawn_done, spawning.by = "boot"
  PROVE  Abi!Next
<1>1. /\ panic = "none" /\ panic' = panic /\ spawning # NotSpawning /\ spawning' = NotSpawning
      /\ spawning.slot = 0
      /\ state' = [state EXCEPT ![0] = PROCESS_READY] /\ current' = 0
      /\ UNCHANGED <<id, parent, program, status, waiting_for, rax, next_pid>>
  BY DEF spawn_done, Preparing, LabInv, FamilyInv, SpawnAsked, select_task, family
<1>2. /\ \A i \in Tasks : Unused(i)
      /\ program[0] = PROGRAM_INIT /\ id[0] = 1 /\ parent[0] = 0
  BY DEF LabInv, FamilyInv, SpawnAsked
<1>3. next_pid = 2 /\ rax[0] = 0
  BY <1>1 DEF SpawnNamed
<1>4. state'[0] = PROCESS_READY /\ \A i \in Tasks \ {0} : state'[i] = state[i]
  BY <1>1, ZeroIsThere DEF LabInv, TypeOK
<1>5. Listed = {} /\ Listed' = {0}
  BY <1>2, <1>4, ZeroIsThere DEF Listed, Unused, PROCESS_READY, PROCESS_UNUSED
<1>6. Issued = 0 /\ Issued' = 1 /\ Running' = 1
  <2>1. Issued = 0 /\ Issued' = 1
    BY <1>1, <1>3 DEF Issued
  <2>2. ~Unused(current)' /\ id'[current'] = 1
    BY <1>1, <1>2, <1>4 DEF Unused, PROCESS_READY, PROCESS_UNUSED
  <2>3. QED BY <2>1, <2>2 DEF Running
<1>7. Shown(0)' = Abi!New(0, 0)
  BY <1>1, <1>2, <1>3, <1>4
  DEF Shown, Abi!New, PROGRAM_INIT, PROCESS_READY, PROCESS_WAITING, PROCESS_EXITED
<1>8. PICK t, n : t = Table /\ n = Abi!New(0, 0)
  OBVIOUS
<1> DEFINE f == Put(t, 1, n)
<1>9. DOMAIN t = {}
  BY <1>5, <1>8, TableAt
<1>10. f = [p \in DOMAIN f |-> f[p]] /\ DOMAIN f = {1} /\ f[1] = n
  BY <1>9 DEF Put
<1> HIDE DEF f
<1>11. DOMAIN f = {id'[i] : i \in Listed'} /\ \A i \in Listed' : f[id'[i]] = Shown(i)'
  BY <1>1, <1>2, <1>5, <1>7, <1>8, <1>10
<1>12. Table' = f
  BY <1>10, <1>11, TableIs
<1>13. Table' = Abi!With(Table, 1, Abi!New(0, 0))
  BY <1>8, <1>12 DEF f, Put, Abi!With
<1>14. Abi!Boot
  BY <1>1, <1>6, <1>13 DEF Abi!Boot
<1>15. QED BY <1>1, <1>14 DEF Abi!Next

\* wait for a zombie: its status is the answer and it leaves the table.
LEMMA ReapSeen ==
  ASSUME LabInv, LabInv', NEW pid, wait_reaps(pid)
  PROVE  Abi!Next
<1>1. panic = "none" /\ spawning = NotSpawning /\ spawning.by # "boot"
  BY DEF wait_reaps, InUserMode, NotSpawning
<1>2. PICK c \in Tasks : /\ state[c] = PROCESS_EXITED
                         /\ id[c] = pid /\ parent[c] = id[current]
                         /\ Returns(status[c])
                         /\ state' = [state EXCEPT ![c] = PROCESS_UNUSED]
  BY DEF wait_reaps, FirstChild, Child
<1>3. UNCHANGED <<id, parent, program, status, waiting_for, current, next_pid, spawning, panic>>
  BY DEF wait_reaps, family, cpu
<1>4. PICK me \in Listed : me = current
  BY <1>1, Calling
<1>5. /\ Running = id[me] /\ Abi!me = Shown(me) /\ Abi!Ready(Running)
      /\ me \in Tasks /\ state[me] = PROCESS_READY
  BY <1>1, <1>4, Calling DEF Listed, LabInv, CurrentIsMapped
<1>6. state'[c] = PROCESS_UNUSED /\ \A i \in Tasks \ {c} : state'[i] = state[i]
  BY <1>2 DEF LabInv, TypeOK
<1>7. c \in Listed /\ Listed' = Listed \ {c} /\ Listed \subseteq Tasks /\ me # c
  BY <1>2, <1>5, <1>6 DEF Listed, Unused, PROCESS_READY, PROCESS_EXITED, PROCESS_UNUSED
<1>8. rax'[me] = status[c] /\ \A i \in Listed \ {me} : rax'[i] = rax[i]
  BY <1>2, <1>4, <1>5, <1>7 DEF Returns, LabInv, TypeOK
<1>9. \A i \in Listed \ {me, c} : Shown(i)' = Shown(i)
  BY <1>3, <1>6, <1>7, <1>8 DEF Shown
<1>10. Shown(me)' = [Shown(me) EXCEPT !.result = status[c]]
  <2>1. state'[me] = state[me]
    BY <1>5, <1>6, <1>7
  <2>2. QED BY <1>3, <1>8, <2>1 DEF Shown
<1>11. DOMAIN Table = {id[i] : i \in Listed} /\ \A i \in Listed : Table[id[i]] = Shown(i)
  BY TableAt
<1>12. \A i, j \in Listed : id[i] = id[j] => i = j
  BY DEF LabInv, FamilyInv, FamilyIntact, Listed
<1>13. PICK t, n, r, m : t = Table /\ n = id[me] /\ r = Shown(me)' /\ m = id[c]
  OBVIOUS
<1> DEFINE f == Drop(Put(t, n, r), m)
<1>14. n # m /\ n \in DOMAIN t
  BY <1>7, <1>11, <1>12, <1>13
<1>15. /\ f = [p \in DOMAIN f |-> f[p]] /\ DOMAIN f = DOMAIN t \ {m}
       /\ f[n] = r /\ \A p \in DOMAIN t \ {n, m} : f[p] = t[p]
  BY <1>14 DEF Put, Drop
<1> HIDE DEF f
<1>16. DOMAIN f = {id'[i] : i \in Listed'}
  BY <1>3, <1>7, <1>11, <1>12, <1>13, <1>15
<1>17. ASSUME NEW i \in Listed' PROVE f[id'[i]] = Shown(i)'
  BY <1>3, <1>7, <1>9, <1>11, <1>12, <1>13, <1>15
<1>18. Table' = f
  BY <1>15, <1>16, <1>17, TableIs
<1>19. m \in DOMAIN Table /\ Table[m] = Shown(c) /\ m = pid
  BY <1>2, <1>7, <1>11, <1>13
<1>20. /\ Shown(c).state = "exited" /\ Shown(c).parent = Running
       /\ Shown(c).status = status[c]
  BY <1>2, <1>4, <1>5 DEF Shown, PROCESS_EXITED
<1>21. Table' = Abi!Without(Abi!Answered(Table[m].status), m)
  <2>1. PICK v : v = status[c]
    OBVIOUS
  <2>2. r = [Abi!me EXCEPT !.result = v] /\ n = Running /\ Table[m].status = v
    BY <1>5, <1>10, <1>13, <1>19, <1>20, <2>1
  <2>3. QED BY <1>13, <1>18, <2>2 DEF f, Put, Drop, Abi!Without, Abi!With, Abi!Answered
<1>22. Running' = Running /\ Issued' = Issued
  <2>1. ~Unused(current)' /\ ~Unused(current)
    BY <1>3, <1>4, <1>5, <1>6, <1>7 DEF Unused, PROCESS_READY, PROCESS_UNUSED
  <2>2. QED BY <1>3, <2>1 DEF Running, Issued
<1>23. Abi!Reap(m)
  BY <1>3, <1>19, <1>20, <1>21, <1>22 DEF Abi!Reap, Abi!Child
<1>24. QED BY <1>1, <1>5, <1>19, <1>23 DEF Abi!Next

\* wait for a child that is alive: the caller sleeps and another task runs.
LEMMA BlockSeen ==
  ASSUME LabInv, LabInv', NEW pid \in Nat, wait_blocks(pid), panic' = "none"
  PROVE  Abi!Next
<1>1. panic = "none" /\ spawning = NotSpawning /\ spawning.by # "boot"
  BY DEF wait_blocks, InUserMode, NotSpawning
<1>2. PICK me \in Listed : me = current
  BY <1>1, Calling
<1>3. Running = id[me] /\ Abi!me = Shown(me) /\ Abi!Ready(Running)
  BY <1>1, <1>2, Calling
<1>4. /\ me \in Tasks /\ state[me] = PROCESS_READY
  BY <1>1, <1>2 DEF Listed, LabInv, CurrentIsMapped
<1>5. PICK c \in Tasks : /\ state[c] # PROCESS_UNUSED /\ state[c] # PROCESS_EXITED
                         /\ id[c] = pid /\ parent[c] = id[me]
  BY <1>2 DEF wait_blocks, FirstChild, Child
<1>6. /\ state' = [state EXCEPT ![me] = PROCESS_WAITING]
      /\ waiting_for' = [waiting_for EXCEPT ![me] = pid]
      /\ UNCHANGED <<id, parent, program, status, rax, next_pid, spawning, panic>>
  BY <1>1, <1>2 DEF wait_blocks, Panic
<1>7. /\ state'[me] = PROCESS_WAITING /\ \A i \in Tasks \ {me} : state'[i] = state[i]
      /\ waiting_for'[me] = pid /\ \A i \in Tasks \ {me} : waiting_for'[i] = waiting_for[i]
  BY <1>4, <1>6 DEF LabInv, TypeOK
<1>8. Listed' = Listed /\ Listed \subseteq Tasks
  BY <1>4, <1>7 DEF Listed, Unused, PROCESS_READY, PROCESS_WAITING, PROCESS_UNUSED
<1>9. \A i \in Listed \ {me} : Shown(i)' = Shown(i)
  BY <1>6, <1>7, <1>8 DEF Shown
<1>10. Shown(me)' = [Shown(me) EXCEPT !.state = "waiting", !.waiting_for = pid]
  <2>1. Shown(me) = [parent |-> parent[me], program |-> program[me], state |-> state[me],
                     waiting_for |-> 0, status |-> 0, result |-> rax[me]]
    BY <1>4 DEF Shown, PROCESS_READY, PROCESS_WAITING, PROCESS_EXITED
  <2>2. Shown(me)' = [parent |-> parent[me], program |-> program[me], state |-> "waiting",
                      waiting_for |-> pid, status |-> 0, result |-> rax[me]]
    BY <1>6, <1>7 DEF Shown, PROCESS_READY, PROCESS_WAITING, PROCESS_EXITED
  <2>3. PICK a, b, s, v, r :
          /\ a = parent[me] /\ b = program[me] /\ s = state[me] /\ v = rax[me]
          /\ r = Shown(me)
    OBVIOUS
  <2>4. r = [parent |-> a, program |-> b, state |-> s,
             waiting_for |-> 0, status |-> 0, result |-> v]
    BY <2>1, <2>3
  <2>5. PICK q : q = [r EXCEPT !.state = "waiting", !.waiting_for = pid]
    OBVIOUS
  <2>6. q = [parent |-> a, program |-> b, state |-> "waiting",
             waiting_for |-> pid, status |-> 0, result |-> v]
    BY <2>4, <2>5
  <2>7. QED BY <2>2, <2>3, <2>5, <2>6
<1>11. Table' = Put(Table, id[me], Shown(me)')
  BY <1>6, <1>8, <1>9, TableWith
<1>12. Table' = Abi!With(Table, Running, [Abi!me EXCEPT !.state = "waiting", !.waiting_for = pid])
  BY <1>3, <1>10, <1>11 DEF Abi!With, Put
<1>13. /\ pid \in DOMAIN Table /\ Table[pid].parent = Running
       /\ Table[pid].state # "exited"
  <2>1. c \in Listed
    BY <1>5 DEF Listed, Unused
  <2>2. pid \in DOMAIN Table /\ Table[pid] = Shown(c)
    BY <1>5, <2>1, TableAt
  <2>3. QED BY <1>3, <1>5, <2>2 DEF Shown, PROCESS_EXITED
<1>14. Abi!Dispatch
  BY <1>1, <1>6, DispatchSeen
<1>15. Issued' = Issued
  BY <1>6 DEF Issued
<1>16. Abi!Block(pid)
  BY <1>6, <1>12, <1>13, <1>14, <1>15 DEF Abi!Block, Abi!Child
<1>17. QED BY <1>1, <1>3, <1>13, <1>16 DEF Abi!Next

\* Before init, the table is empty and no pid has been issued.
LEMMA AbiInit == Init => Abi!Init
<1> SUFFICES ASSUME Init PROVE Abi!Init
  OBVIOUS
<1>1. \A i \in Tasks : Unused(i)
  BY DEF Init, Unused
<1>2. Listed = {}
  BY <1>1 DEF Listed
<1>3. Table = [p \in {} |-> Abi!New(0, 0)]
  BY <1>2 DEF Table
<1>4. Running = 0
  <2>1. current \in Tasks
    BY ZeroIsThere DEF Init
  <2>2. QED BY <1>1, <2>1 DEF Running
<1>5. Issued = 0 /\ panic = "none"
  BY DEF Init, Issued, NotSpawning
<1>6. QED BY <1>3, <1>4, <1>5 DEF Abi!Init

\* exit without a waiting parent leaves a zombie, and with one hands over.
LEMMA ExitSeen ==
  ASSUME LabInv, LabInv', InUserMode, panic' = "none",
         NEW code \in Statuses \cup {128 + v : v \in Vectors \cap UserFaults}, task_exit(code)
  PROVE  Abi!Next
<1>1. panic = "none" /\ spawning = NotSpawning /\ spawning.by # "boot"
  BY DEF InUserMode, NotSpawning
<1>2. PICK old \in Listed : old = current
  BY <1>1, Calling
<1>3. Running = id[old] /\ Abi!me = Shown(old) /\ Abi!Ready(Running)
  BY <1>1, <1>2, Calling
<1>4. old \in Tasks /\ state[old] = PROCESS_READY
  BY <1>1, <1>2 DEF Listed, LabInv, CurrentIsMapped
<1>5. /\ ~Essential(old)
      /\ state' = [AfterExit(old) EXCEPT ![old] = Reaped(old)]
      /\ status' = [status EXCEPT ![old] = code]
      /\ rax' = [i \in Tasks |-> IF i \in Waiters(old) THEN code ELSE rax[i]]
      /\ UNCHANGED <<id, parent, program, waiting_for, next_pid, spawning, panic>>
  BY <1>1, <1>2 DEF task_exit, Panic
<1>6. /\ state'[old] = Reaped(old) /\ status'[old] = code
      /\ \A i \in Tasks \ {old} :
           /\ state'[i] = IF i \in Waiters(old) THEN PROCESS_READY ELSE state[i]
           /\ status'[i] = status[i]
      /\ \A i \in Tasks : rax'[i] = IF i \in Waiters(old) THEN code ELSE rax[i]
  BY <1>4, <1>5 DEF AfterExit, LabInv, TypeOK
<1>7. DOMAIN Table = {id[i] : i \in Listed} /\ \A i \in Listed : Table[id[i]] = Shown(i)
  BY TableAt
<1>8. \A i, j \in Listed : id[i] = id[j] => i = j
  BY DEF LabInv, FamilyInv, FamilyIntact, Listed
<1>9. /\ Listed \subseteq Tasks /\ old \notin Waiters(old)
      /\ Waiters(old) \subseteq Listed /\ \A i \in Waiters(old) : state[i] = PROCESS_WAITING
  BY <1>4 DEF Listed, Unused, Waiters, PROCESS_READY, PROCESS_WAITING, PROCESS_UNUSED
<1>10. Abi!me.program > 1 /\ Abi!me.parent = parent[old]
  <2>1. program[old] \in Nat
    BY <1>4 DEF LabInv, TypeOK
  <2>2. QED BY <1>3, <1>5, <2>1 DEF Shown, Essential, PROGRAM_SHELL
<1>11. \A i \in Listed \ ({old} \cup Waiters(old)) : Shown(i)' = Shown(i)
  BY <1>5, <1>6, <1>9 DEF Shown
<1>12. Abi!Dispatch /\ Issued' = Issued
  BY <1>1, <1>5, DispatchSeen DEF Issued
<1>13. CASE Waiters(old) = {}
  <2>1. state'[old] = PROCESS_EXITED /\ rax'[old] = rax[old]
    BY <1>4, <1>6, <1>13 DEF Reaped
  <2>2. Listed' = Listed
    BY <1>2, <1>6, <1>13, <2>1 DEF Listed, Unused, PROCESS_EXITED, PROCESS_UNUSED
  <2>3. Table' = Put(Table, id[old], Shown(old)')
    BY <1>5, <1>11, <1>13, <2>2, TableWith
  <2>4. Shown(old)' = [Shown(old) EXCEPT !.state = "exited", !.status = code]
    <3>1. Shown(old) = [parent |-> parent[old], program |-> program[old], state |-> state[old],
                        waiting_for |-> 0, status |-> 0, result |-> rax[old]]
      BY <1>4 DEF Shown, PROCESS_READY, PROCESS_WAITING, PROCESS_EXITED
    <3>2. Shown(old)' = [parent |-> parent[old], program |-> program[old], state |-> "exited",
                         waiting_for |-> 0, status |-> code, result |-> rax[old]]
      BY <1>5, <1>6, <2>1 DEF Shown, PROCESS_WAITING, PROCESS_EXITED
    <3>3. PICK a, b, s, v, r :
            /\ a = parent[old] /\ b = program[old] /\ s = state[old] /\ v = rax[old]
            /\ r = Shown(old)
      OBVIOUS
    <3>4. r = [parent |-> a, program |-> b, state |-> s,
               waiting_for |-> 0, status |-> 0, result |-> v]
      BY <3>1, <3>3
    <3>5. PICK q : q = [r EXCEPT !.state = "exited", !.status = code]
      OBVIOUS
    <3>6. q = [parent |-> a, program |-> b, state |-> "exited",
               waiting_for |-> 0, status |-> code, result |-> v]
      BY <3>4, <3>5
    <3>7. QED BY <3>2, <3>3, <3>5, <3>6
  <2>5. ~Abi!Awaited
    <3>1. SUFFICES ASSUME Abi!Awaited PROVE FALSE
      OBVIOUS
    <3>2. PICK i \in Listed : id[i] = parent[old]
      BY <1>7, <1>10, <3>1 DEF Abi!Awaited
    <3>3. Shown(i).state = "waiting" /\ Shown(i).waiting_for = id[old]
      BY <1>3, <1>7, <1>10, <3>1, <3>2 DEF Abi!Awaited
    <3>4. i \in Waiters(old)
      BY <1>9, <3>2, <3>3 DEF Shown, Waiters, PROCESS_WAITING
    <3>5. QED BY <1>13, <3>4
  <2>6. Table' = Abi!With(Table, Running, [Abi!me EXCEPT !.state = "exited", !.status = code])
    BY <1>3, <2>3, <2>4 DEF Abi!With, Put
  <2>7. Abi!Exit(code)
    BY <1>5, <1>10, <1>12, <2>5, <2>6 DEF Abi!Exit
  <2>8. QED BY <1>1, <1>3, <2>7 DEF Abi!Next
<1>14. CASE Waiters(old) # {}
  <2>1. PICK w \in Waiters(old) : TRUE
    BY <1>14
  <2>2. /\ w \in Listed /\ w # old /\ id[w] = parent[old]
        /\ state[w] = PROCESS_WAITING /\ waiting_for[w] = id[old]
    BY <1>9, <2>1 DEF Waiters
  <2>3. Waiters(old) = {w}
    BY <1>8, <1>9, <2>1, <2>2 DEF Waiters
  <2>4. state'[old] = PROCESS_UNUSED /\ state'[w] = PROCESS_READY /\ rax'[w] = code
    BY <1>6, <1>9, <1>14, <2>1, <2>2 DEF Reaped
  <2>5. Listed' = Listed \ {old}
    BY <1>6, <1>9, <2>3, <2>2, <2>4 DEF Listed, Unused, PROCESS_READY, PROCESS_UNUSED
  <2>6. Shown(w)' = [Shown(w) EXCEPT !.state = "ready", !.waiting_for = 0, !.result = code]
    <3>1. Shown(w) = [parent |-> parent[w], program |-> program[w], state |-> state[w],
                      waiting_for |-> id[old], status |-> 0, result |-> rax[w]]
      BY <2>2 DEF Shown, PROCESS_WAITING, PROCESS_EXITED
    <3>2. Shown(w)' = [parent |-> parent[w], program |-> program[w], state |-> "ready",
                       waiting_for |-> 0, status |-> 0, result |-> code]
      BY <1>5, <2>4 DEF Shown, PROCESS_READY, PROCESS_WAITING, PROCESS_EXITED
    <3>3. PICK a, b, s, v, m, r :
            /\ a = parent[w] /\ b = program[w] /\ s = state[w] /\ v = rax[w] /\ m = id[old]
            /\ r = Shown(w)
      OBVIOUS
    <3>4. r = [parent |-> a, program |-> b, state |-> s,
               waiting_for |-> m, status |-> 0, result |-> v]
      BY <3>1, <3>3
    <3>5. PICK q : q = [r EXCEPT !.state = "ready", !.waiting_for = 0, !.result = code]
      OBVIOUS
    <3>6. q = [parent |-> a, program |-> b, state |-> "ready",
               waiting_for |-> 0, status |-> 0, result |-> code]
      BY <3>4, <3>5
    <3>7. QED BY <3>2, <3>3, <3>5, <3>6
  <2>7. PICK t, m, n, r : t = Table /\ m = id[old] /\ n = id[w] /\ r = Shown(w)'
    OBVIOUS
  <2> DEFINE f == Put(Drop(t, m), n, r)
  <2>8. n # m /\ n \in DOMAIN t
    BY <1>7, <1>8, <2>2, <2>7
  <2>9. /\ f = [p \in DOMAIN f |-> f[p]] /\ DOMAIN f = DOMAIN t \ {m}
        /\ f[n] = r /\ \A p \in DOMAIN t \ {n, m} : f[p] = t[p]
    BY <2>8 DEF Put, Drop
  <2> HIDE DEF f
  <2>10. DOMAIN f = {id'[i] : i \in Listed'}
    BY <1>5, <1>7, <1>8, <2>5, <2>7, <2>9
  <2>11. ASSUME NEW i \in Listed' PROVE f[id'[i]] = Shown(i)'
    BY <1>5, <1>7, <1>8, <1>11, <2>2, <2>3, <2>5, <2>7, <2>9
  <2>12. Table' = f
    BY <2>9, <2>10, <2>11, TableIs
  <2>13. n \in DOMAIN Table /\ Table[n] = Shown(w) /\ n = Abi!me.parent
    BY <1>7, <1>10, <2>2, <2>7
  <2>14. Abi!Awaited
    <3>1. Shown(w).state = "waiting" /\ Shown(w).waiting_for = Running
      BY <1>3, <2>2 DEF Shown, PROCESS_WAITING
    <3>2. QED BY <2>13, <3>1 DEF Abi!Awaited
  <2>15. Table' = Abi!With(Abi!Without(Table, Running), Abi!me.parent,
                    [Table[Abi!me.parent] EXCEPT !.state = "ready", !.waiting_for = 0,
                                                 !.result = code])
    <3>1. r = [Table[Abi!me.parent] EXCEPT !.state = "ready", !.waiting_for = 0,
                                           !.result = code]
      BY <2>6, <2>7, <2>13
    <3>2. QED BY <1>3, <2>7, <2>12, <2>13, <3>1 DEF f, Put, Drop, Abi!With, Abi!Without
  <2>16. Abi!Exit(code)
    BY <1>5, <1>10, <1>12, <2>14, <2>15 DEF Abi!Exit
  <2>17. QED BY <1>1, <1>3, <2>16 DEF Abi!Next
<1>15. QED BY <1>13, <1>14

\* Every step of laboratory.c is a step of Processes or is not seen.
LEMMA AbiNext == AbiInv /\ [Next]_vars => [Abi!Next]_(Abi!processVars)
<1> SUFFICES ASSUME LabInv, SpawnNamed, [Next]_vars PROVE Abi!Next \/ UNCHANGED Abi!processVars
  BY DEF AbiInv
<1>1. LabInv'
  BY LabNext
<1>2. CASE UNCHANGED vars
  <2>1. Listed' = Listed /\ \A i \in Listed : id'[i] = id[i] /\ Shown(i)' = Shown(i)
    BY <1>2 DEF Listed, Unused, Shown, family, vars
  <2>2. Table' = Table
    BY <1>1, <2>1, TableKept
  <2>3. QED BY <1>2, <2>2 DEF Abi!processVars, Running, Issued, Unused, family, cpu, vars
<1>3. CASE Next /\ panic # "none"
  BY <1>2, <1>3 DEF Next, sys_spawn, sys_spawn_refused, prepare_alloc, spawn_fails, spawn_done,
     task_tick, sys_exit, user_fault, unexpected_exception, wait_reaps, wait_blocks,
     wait_refused, sys_inspect, Halted, InUserMode, Preparing
<1>4. CASE Next /\ panic = "none" /\ panic' # "none"
  BY <1>1, <1>4, StopSeen
<1>5. CASE Next /\ panic = "none" /\ panic' = "none"
  <2>1. ASSUME NEW p \in 0 .. Programs, sys_spawn(p) PROVE UNCHANGED Abi!processVars
    BY <1>1, <2>1, SpawnUnseen
  <2>2. ASSUME NEW p \in 0 .. Programs, sys_spawn_refused(p) PROVE Abi!Next
    BY <1>1, <2>2, RefusalSeen
  <2>3. CASE prepare_alloc
    BY <1>1, <2>3, AllocUnseen
  <2>4. CASE spawn_fails
    BY <1>1, <1>5, <2>4, SpawnFailureSeen
  <2>5. CASE spawn_done
    BY <1>1, <2>5, SpawnSeen, BootSeen
  <2>6. CASE task_tick
    BY <1>1, <1>5, <2>6, TickSeen
  <2>7. ASSUME NEW code \in Statuses, sys_exit(code) PROVE Abi!Next
    BY <1>1, <1>5, <2>7, ExitSeen DEF sys_exit
  <2>8. ASSUME NEW vector \in Vectors, user_fault(vector) PROVE Abi!Next
    <3>1. 128 + vector \in Statuses \cup {128 + v : v \in Vectors \cap UserFaults}
      BY <2>8 DEF user_fault
    <3>2. QED BY <1>1, <1>5, <2>8, <3>1, ExitSeen DEF user_fault
  <2>9. ASSUME NEW pid \in Pids, wait_reaps(pid) PROVE Abi!Next
    BY <1>1, <2>9, ReapSeen
  <2>10. ASSUME NEW pid \in Pids, wait_blocks(pid) PROVE Abi!Next
    BY <1>1, <1>5, <2>10, BlockSeen, LabAssumption DEF Pids
  <2>11. ASSUME NEW pid \in Pids, wait_refused(pid) PROVE Abi!Next
    BY <1>1, <2>11, WaitRefusalSeen
  <2>12. CASE sys_inspect
    BY <1>1, <1>5, <2>12, InspectSeen
  <2>13. CASE Halted
    BY <1>5, <2>13 DEF Halted
  <2>14. ASSUME NEW vector \in Vectors, unexpected_exception(vector) PROVE FALSE
    BY <1>5, <2>14 DEF unexpected_exception, Panic
  <2>15. QED
    BY <1>5, <2>1, <2>2, <2>3, <2>4, <2>5, <2>6, <2>7, <2>8, <2>9, <2>10, <2>11, <2>12, <2>13,
       <2>14
    DEF Next
<1>6. QED BY <1>2, <1>3, <1>4, <1>5

\* laboratory.c implements the spawn, exit and wait of Processes: every step
\* a program can notice is one of its steps, whatever fills the table, runs
\* out of memory, faults or is preempted in between.
THEOREM ProcessesImplemented == Spec => ImplementsProcesses
<1>1. Init => Abi!Init
  BY AbiInit
<1>2. AbiInv /\ [Next]_vars => [Abi!Next]_(Abi!processVars)
  BY AbiNext
<1>3. QED
  BY <1>1, <1>2, NamedInit, NamedNext, PTL DEF Spec, ImplementsProcesses, Abi!Spec

-----------------------------------------------------------------------------
(* The mirror of Observation.                                              *)

ProcessRecord == [kind : {"process"}, pid : Nat, parent : Nat, program : Nat,
                  state : ProcessState, current : BOOLEAN]
MapRecord     == [kind : {"map"}, pid : Nat, page : Frames]
MemoryRecord  == [kind : {"memory"}, free : Nat]
NameRecord    == [kind : {"schedule", "syscall"}, pid : Nat]
Record == ProcessRecord \cup MapRecord \cup MemoryRecord \cup NameRecord

\* The records that are still to come.
Told == ToSet(pending)

\* What the mirror shows, or is told, of task i.
Says(r, i) == /\ r.pid = id[i] /\ r.parent = parent[i]
              /\ r.program = program[i] /\ r.state = state[i]

\* A record that is true of the task table as it is.
Truthful(r) ==
  /\ r.kind = "process" =>
       \/ r.state = PROCESS_UNUSED /\ \A i \in Tasks : ~Unused(i) => id[i] # r.pid
       \/ \E i \in Tasks : ~Unused(i) /\ Says(r, i) /\ (r.current => i = current)
  /\ r.kind = "map" => \E i \in Tasks : Alive(i) /\ id[i] = r.pid /\ r.page \in owned[i]
  /\ r.kind = "memory" => r.free = free_count
  /\ r.kind \in {"schedule", "syscall"} => r.pid = id[current]

About(r, p)   == r.kind = "process" /\ r.pid = p
Names(r)      == r.kind \in {"schedule", "syscall"}
Maps(r, p, g) == r.kind = "map" /\ r.pid = p /\ r.page = g

\* Every map record comes after the process it belongs to.
Ordered(s, listed) ==
  \A k \in 1 .. Len(s) : s[k].kind = "map" =>
    \/ s[k].pid \in listed
    \/ \E m \in 1 .. (k - 1) : About(s[m], s[k].pid)

MirrorTyped ==
  /\ pending \in Seq(Record)
  /\ processes \in [DOMAIN processes -> ProcessRecord]
  /\ maps \in [DOMAIN maps -> SUBSET Frames]

\* Every process the kernel has is listed as it is, or a record that says so
\* is on its way; and so is one for every process that is listed wrongly.
Listing ==
  /\ \A i \in Tasks : ~Unused(i) =>
       \/ \E r \in Told : About(r, id[i])
       \/ id[i] \in DOMAIN processes /\ Says(processes[id[i]], i)
  /\ \A p \in DOMAIN processes :
       \/ \E i \in Tasks : ~Unused(i) /\ id[i] = p
       \/ \E r \in Told : About(r, p)
  /\ \A i \in Tasks : Alive(i) /\ id[i] \in DOMAIN processes =>
       processes[id[i]].state # PROCESS_EXITED

\* The same for the mark of the current process ...
Marking ==
  \A p \in DOMAIN processes : processes[p].current =>
    p = id[current] \/ \E r \in Told : Names(r) \/ About(r, p)

\* ... for the pages of the living, which are only ever added to ...
Paging ==
  /\ \A i \in Tasks : Alive(i) =>
       /\ PagesOf(id[i]) \subseteq owned[i]
       /\ \A g \in owned[i] : g \in PagesOf(id[i]) \/ \E r \in Told : Maps(r, id[i], g)
  /\ \A q \in DOMAIN maps : processes[q].state # PROCESS_EXITED =>
       \/ \E i \in Tasks : Alive(i) /\ id[i] = q
       \/ \A r \in Told : r.kind # "map"
  /\ Ordered(pending, DOMAIN processes)

\* ... and for the free count, which a spawn under way has yet to report.
Counting ==
  /\ spawning = NotSpawning => free = free_count \/ \E r \in Told : r.kind = "memory"
  /\ spawning.by = "task" => free = free_count + Cardinality(Held(spawning.slot))
  /\ spawning # NotSpawning => pending = << >>

Reported == (\A r \in Told : Truthful(r)) /\ Listing /\ Marking /\ Paging /\ Counting

\* The inductive invariant.
MirrorInv ==
  LabInv /\ MirrorTyped /\ LivePagesApart /\ IF panic = "none" THEN Reported ELSE Quiet

\* Among the processes the kernel has, an identifier names one.
LEMMA OneByName ==
  ASSUME LabInv, NEW i \in Tasks, NEW j \in Tasks, ~Unused(i), ~Unused(j), id[i] = id[j]
  PROVE  i = j
BY DEF LabInv, FamilyInv, FamilyIntact

\* Whoever is alive is in the table.
LEMMA AliveIsUsed ==
  ASSUME NEW i \in Tasks, Alive(i)
  PROVE  ~Unused(i) /\ state[i] # PROCESS_EXITED /\ state[i] # PROCESS_UNUSED
BY DEF Alive, Unused, PROCESS_UNUSED, PROCESS_READY, PROCESS_WAITING, PROCESS_EXITED

\* The map records that are left still do.
LEMMA OrderedTail ==
  ASSUME NEW s \in Seq(Record), s # << >>, NEW listed, NEW listed2, Ordered(s, listed),
         \A x \in ToSet(Tail(s)) : x.kind = "map" /\ (x.pid \in listed \/ About(Head(s), x.pid))
                            => x.pid \in listed2
  PROVE  Ordered(Tail(s), listed2)
<1>1. /\ Len(s) \in Nat /\ Len(s) > 0 /\ Head(s) = s[1]
      /\ Len(Tail(s)) = Len(s) - 1
      /\ \A k \in 1 .. Len(Tail(s)) : Tail(s)[k] = s[k + 1]
  OBVIOUS
<1>2. SUFFICES ASSUME NEW k \in 1 .. Len(Tail(s)), Tail(s)[k].kind = "map",
                      Tail(s)[k].pid \notin listed2
               PROVE  \E m \in 1 .. (k - 1) : About(Tail(s)[m], Tail(s)[k].pid)
  BY DEF Ordered
<1>3. k + 1 \in 1 .. Len(s) /\ Tail(s)[k] = s[k + 1] /\ Tail(s)[k] \in ToSet(Tail(s))
  <2>1. k + 1 \in 1 .. Len(s) /\ Tail(s)[k] = s[k + 1]
    BY <1>1
  <2>2. k \in DOMAIN Tail(s)
    BY <1>1
  <2>3. Tail(s)[k] \in ToSet(Tail(s))
    BY <2>2 DEF ToSet
  <2>4. QED BY <2>1, <2>3
<1>4. s[k + 1].pid \notin listed /\ ~About(s[1], s[k + 1].pid)
  BY <1>1, <1>2, <1>3
<1>5. PICK m \in 1 .. (k + 1 - 1) : About(s[m], s[k + 1].pid)
  BY <1>2, <1>3, <1>4 DEF Ordered
<1>6. m # 1 /\ m - 1 \in 1 .. (k - 1) /\ m - 1 \in 1 .. Len(Tail(s))
  BY <1>1, <1>4, <1>5
<1>7. Tail(s)[m - 1] = s[m]
  BY <1>1, <1>6
<1>8. QED BY <1>3, <1>5, <1>6, <1>7

\* Guest._event leaves the records that are to come, and the kernel, alone.
LEMMA ApplyFrame ==
  ASSUME MirrorInv, apply
  PROVE  /\ LabInv' /\ UNCHANGED vars /\ panic = "none" /\ Reported
         /\ Head(pending) \in Record /\ Truthful(Head(pending)) /\ Head(pending) \in Told
         /\ pending' \in Seq(Record) /\ Told = {Head(pending)} \cup Told'
         /\ \A x \in Told' : x \in Record /\ Truthful(x)
         /\ (\A x \in Told : Truthful(x))'
         /\ pending # << >> /\ spawning = NotSpawning
<1>1. UNCHANGED vars /\ pending # << >> /\ pending' = Tail(pending) /\ panic = "none" /\ Reported
  BY DEF apply, MirrorInv, Quiet
<1>2. LabInv'
  BY <1>1, LabNext DEF MirrorInv
<1>3. pending \in Seq(Record)
  BY DEF MirrorInv, MirrorTyped
<1>4. /\ Head(pending) \in Record /\ pending' \in Seq(Record)
      /\ Told = {Head(pending)} \cup Told'
  BY <1>1, <1>3, ElementsOfTail DEF Told
<1>5. \A x \in Told : Truthful(x)
  BY <1>1 DEF Reported
<1>6. \A x \in Told' : x \in Record
  BY <1>4 DEF Told, ToSet
<1>7. \A x : Truthful(x)' <=> Truthful(x)
  BY <1>1 DEF Truthful, vars, family, spaces, cpu, pages, Unused, Says, Alive
<1>8. spawning = NotSpawning
  BY <1>1 DEF Reported, Counting
<1>9. QED BY <1>1, <1>2, <1>4, <1>5, <1>6, <1>7, <1>8

\* A process that has gone: nothing the kernel still has is about it.
LEMMA ApplyGone ==
  ASSUME MirrorInv, apply, Head(pending).kind = "process", Head(pending).state = PROCESS_UNUSED
  PROVE  MirrorInv'
<1> DEFINE r == Head(pending)
           p == r.pid
<1>1. /\ LabInv' /\ UNCHANGED vars /\ panic = "none" /\ Reported
      /\ r \in Record /\ Truthful(r) /\ r \in Told
      /\ pending' \in Seq(Record) /\ Told = {r} \cup Told'
      /\ \A x \in Told' : x \in Record /\ Truthful(x)
      /\ (\A x \in Told : Truthful(x))'
      /\ pending # << >> /\ spawning = NotSpawning
  BY ApplyFrame
<1>2. /\ processes' = [q \in DOMAIN processes \ {p} |-> processes[q]]
      /\ maps' = [q \in DOMAIN maps \ {p} |-> maps[q]]
      /\ UNCHANGED free /\ pending' = Tail(pending)
  BY DEF apply, _event, Forgets
<1>3. \A i \in Tasks : ~Unused(i) => id[i] # p
  BY <1>1 DEF Truthful, Says, Unused
<1>4. UNCHANGED <<id, state, parent, program, owned, current, free_count, spawning, tables>>
  BY <1>1 DEF vars, family, spaces, cpu, pages
<1>5. /\ \A i : Unused(i)' <=> Unused(i)
      /\ \A i : Alive(i)' <=> Alive(i)
      /\ \A x, i : Says(x, i)' <=> Says(x, i)
  BY <1>4 DEF Unused, Alive, Says
<1>6. \A i \in Tasks : Alive(i) => ~Unused(i) /\ id[i] # p
  BY <1>3, AliveIsUsed
<1>7. MirrorTyped'
  BY <1>1, <1>2 DEF MirrorTyped, MirrorInv
<1>8. LivePagesApart'
  BY <1>2 DEF LivePagesApart, MirrorInv
<1>9. Listing'
  <2>1. Listing
    BY <1>1 DEF Reported
  <2>2. QED BY <1>1, <1>2, <1>3, <1>4, <1>5, <1>6, <2>1 DEF Listing, About
<1>10. Marking'
  <2>1. Marking
    BY <1>1 DEF Reported
  <2>2. QED BY <1>1, <1>2, <1>4, <2>1 DEF Marking, About, Names
<1>11. Paging'
  <2>1. Paging
    BY <1>1 DEF Reported
  <2>2. \A i \in Tasks : Alive(i) => PagesOf(id[i])' = PagesOf(id[i])
    BY <1>2, <1>4, <1>6 DEF PagesOf
  <2>3. \A x \in Told' : x.kind = "map" => x.pid # p
    BY <1>1, <1>6 DEF Truthful
  <2>4. Ordered(Tail(pending), DOMAIN processes')
    <3>1. \A x \in ToSet(Tail(pending)) :
            x.kind = "map" /\ (x.pid \in DOMAIN processes \/ About(r, x.pid)) => x.pid \in DOMAIN processes'
      BY <1>2, <2>3 DEF About, Told
    <3>2. pending \in Seq(Record)
      BY DEF MirrorInv, MirrorTyped
    <3>3. QED BY <1>1, <2>1, <3>1, <3>2, OrderedTail DEF Paging
  <2>5. Ordered(pending, DOMAIN processes)'
    BY <1>2, <2>4
  <2>6. (\A q \in DOMAIN maps : processes[q].state # PROCESS_EXITED =>
           \/ \E i \in Tasks : Alive(i) /\ id[i] = q
           \/ \A x \in Told : x.kind # "map")'
    <3>1. DOMAIN maps \subseteq DOMAIN processes
      BY DEF MirrorInv, LivePagesApart
    <3>2. QED BY <1>1, <1>2, <1>4, <1>5, <2>1, <3>1 DEF Paging
  <2>7. \A i \in Tasks : Alive(i) =>
          /\ PagesOf(id[i])' \subseteq owned[i]
          /\ \A g \in owned[i] : g \in PagesOf(id[i])' \/ \E x \in Told' : Maps(x, id[i], g)
    BY <1>1, <2>1, <2>2 DEF Paging, Maps
  <2>8. QED BY <1>4, <1>5, <2>5, <2>6, <2>7 DEF Paging, PagesOf, Maps
<1>12. Counting'
  BY <1>1, <1>2, <1>4 DEF Counting, Reported, Held, NotSpawning
<1>13. Reported'
  BY <1>1, <1>9, <1>10, <1>11, <1>12 DEF Reported
<1>14. QED BY <1>1, <1>7, <1>8, <1>13 DEF MirrorInv, vars

\* A process that is there: what was said of it before no longer matters.
LEMMA ApplyProcess ==
  ASSUME MirrorInv, apply, Head(pending).kind = "process", Head(pending).state # PROCESS_UNUSED
  PROVE  MirrorInv'
<1> DEFINE r == Head(pending)
           p == r.pid
<1>1. /\ LabInv' /\ UNCHANGED vars /\ panic = "none" /\ Reported
      /\ r \in Record /\ Truthful(r) /\ r \in Told
      /\ pending' \in Seq(Record) /\ Told = {r} \cup Told'
      /\ \A x \in Told' : x \in Record /\ Truthful(x)
      /\ (\A x \in Told : Truthful(x))'
      /\ pending # << >> /\ spawning = NotSpawning
  BY ApplyFrame
<1>2. /\ processes' = [q \in {p} \cup DOMAIN processes |-> IF q = p THEN r ELSE processes[q]]
      /\ UNCHANGED <<maps, free>> /\ pending' = Tail(pending)
  BY DEF apply, _event, Assigned
<1>3. PICK h \in Tasks : ~Unused(h) /\ Says(r, h) /\ (r.current => h = current)
  BY <1>1 DEF Truthful
<1>4. UNCHANGED <<id, state, parent, program, owned, current, free_count, spawning, tables>>
  BY <1>1 DEF vars, family, spaces, cpu, pages
<1>5. /\ \A i : Unused(i)' <=> Unused(i)
      /\ \A i : Alive(i)' <=> Alive(i)
      /\ \A x, i : Says(x, i)' <=> Says(x, i)
  BY <1>4 DEF Unused, Alive, Says
<1>6. \A i \in Tasks : ~Unused(i) /\ id[i] = p => i = h
  BY <1>3, OneByName DEF Says, MirrorInv
<1>7. r \in ProcessRecord
  BY <1>1 DEF Record, ProcessRecord, MapRecord, MemoryRecord, NameRecord
<1>8. MirrorTyped'
  BY <1>1, <1>2, <1>7 DEF MirrorTyped, MirrorInv
<1>9. Listing /\ Marking /\ Paging /\ Counting
  BY <1>1 DEF Reported
<1>10. state[h] = r.state /\ id[h] = p /\ (r.state # PROCESS_EXITED => Alive(h))
  <2>1. state[h] \in ProcessState
    BY DEF MirrorInv, LabInv, TypeOK
  <2>2. QED BY <1>3, <2>1 DEF Says, Unused, Alive, ProcessState
<1>11. p \in DOMAIN processes /\ r.state # PROCESS_EXITED => processes[p].state # PROCESS_EXITED
  BY <1>9, <1>10 DEF Listing
<1>12. LivePagesApart'
  BY <1>2, <1>11 DEF LivePagesApart, MirrorInv
<1>13. Listing'
  <2>1. \A i \in Tasks : ~Unused(i) =>
          \/ \E x \in Told' : About(x, id[i])
          \/ id[i] \in DOMAIN processes' /\ Says(processes'[id[i]], i)
    BY <1>1, <1>2, <1>3, <1>6, <1>9 DEF Listing, About
  <2>2. \A q \in DOMAIN processes' :
          (\E i \in Tasks : ~Unused(i) /\ id[i] = q) \/ \E x \in Told' : About(x, q)
    BY <1>1, <1>2, <1>3, <1>9, <1>10 DEF Listing, About
  <2>3. \A i \in Tasks : Alive(i) /\ id[i] \in DOMAIN processes' =>
          processes'[id[i]].state # PROCESS_EXITED
    BY <1>2, <1>6, <1>9, <1>10, AliveIsUsed DEF Listing
  <2>4. QED BY <1>4, <1>5, <2>1, <2>2, <2>3 DEF Listing
<1>14. Marking'
  BY <1>1, <1>2, <1>3, <1>4, <1>9, <1>10 DEF Marking, About, Names
<1>15. Paging'
  <2>1. Ordered(Tail(pending), DOMAIN processes')
    <3>1. \A x \in ToSet(Tail(pending)) :
            x.kind = "map" /\ (x.pid \in DOMAIN processes \/ About(r, x.pid)) => x.pid \in DOMAIN processes'
      BY <1>2 DEF About
    <3>2. pending \in Seq(Record)
      BY DEF MirrorInv, MirrorTyped
    <3>3. QED BY <1>1, <1>9, <3>1, <3>2, OrderedTail DEF Paging
  <2>2. Ordered(pending, DOMAIN processes)'
    BY <1>2, <2>1
  <2>3. \A q \in DOMAIN maps : processes'[q].state # PROCESS_EXITED =>
          \/ \E i \in Tasks : Alive(i) /\ id[i] = q
          \/ \A x \in Told' : x.kind # "map"
    <3>1. DOMAIN maps \subseteq DOMAIN processes
      BY DEF MirrorInv, LivePagesApart
    <3>2. QED BY <1>1, <1>2, <1>9, <1>10, <3>1 DEF Paging
  <2>4. \A i \in Tasks : Alive(i) =>
          /\ PagesOf(id[i]) \subseteq owned[i]
          /\ \A g \in owned[i] : g \in PagesOf(id[i]) \/ \E x \in Told' : Maps(x, id[i], g)
    BY <1>1, <1>9 DEF Paging, Maps
  <2>5. \A i : PagesOf(id[i])' = PagesOf(id[i])
    BY <1>2, <1>4 DEF PagesOf
  <2>6. \A i \in Tasks : Alive(i) =>
          /\ PagesOf(id[i])' \subseteq owned[i]
          /\ \A g \in owned[i] : g \in PagesOf(id[i])' \/ \E x \in Told' : Maps(x, id[i], g)
    BY <2>4, <2>5
  <2>7. UNCHANGED <<maps, id, owned>>
    BY <1>2, <1>4
  <2>8. QED BY <1>5, <2>2, <2>3, <2>6, <2>7 DEF Paging, Maps
<1>16. Counting'
  BY <1>1, <1>2, <1>4, <1>9 DEF Counting, Held, NotSpawning
<1>17. Reported'
  BY <1>1, <1>13, <1>14, <1>15, <1>16 DEF Reported
<1>18. QED BY <1>1, <1>8, <1>12, <1>17 DEF MirrorInv, vars

\* A page: its owner is listed already, and nobody else who is listed alive
\* has it, because nobody else who is alive owns it.
LEMMA ApplyMap ==
  ASSUME MirrorInv, apply, Head(pending).kind = "map"
  PROVE  MirrorInv'
<1> DEFINE r == Head(pending)
           p == r.pid
<1>1. /\ LabInv' /\ UNCHANGED vars /\ panic = "none" /\ Reported
      /\ r \in Record /\ Truthful(r) /\ r \in Told
      /\ pending' \in Seq(Record) /\ Told = {r} \cup Told'
      /\ \A x \in Told' : x \in Record /\ Truthful(x)
      /\ (\A x \in Told : Truthful(x))'
      /\ pending # << >> /\ spawning = NotSpawning
  BY ApplyFrame
<1>2. /\ maps' = [q \in {p} \cup DOMAIN maps |->
                    IF q = p THEN PagesOf(p) \cup {r.page} ELSE maps[q]]
      /\ UNCHANGED <<processes, free>> /\ pending' = Tail(pending)
  BY DEF apply, _event, Assigned
<1>3. PICK h \in Tasks : Alive(h) /\ id[h] = p /\ r.page \in owned[h]
  BY <1>1 DEF Truthful
<1>4. UNCHANGED <<id, state, parent, program, owned, current, free_count, spawning, tables>>
  BY <1>1 DEF vars, family, spaces, cpu, pages
<1>5. /\ \A i : Unused(i)' <=> Unused(i)
      /\ \A i : Alive(i)' <=> Alive(i)
      /\ \A x, i : Says(x, i)' <=> Says(x, i)
  BY <1>4 DEF Unused, Alive, Says
<1>6. \A i \in Tasks : ~Unused(i) /\ id[i] = p => i = h
  BY <1>3, OneByName, AliveIsUsed DEF MirrorInv
<1>7. r \in MapRecord
  BY <1>1 DEF Record, ProcessRecord, MapRecord, MemoryRecord, NameRecord
<1>8. Listing /\ Marking /\ Paging /\ Counting
  BY <1>1 DEF Reported
<1>9. PagesOf(p) \subseteq Frames /\ r.page \in Frames
  BY <1>7 DEF PagesOf, MirrorInv, MirrorTyped, MapRecord
<1>10. MirrorTyped'
  BY <1>1, <1>2, <1>9 DEF MirrorTyped, MirrorInv
<1>11. pending \in Seq(Record)
  BY DEF MirrorInv, MirrorTyped
<1>12. p \in DOMAIN processes
  <2>1. 1 \in 1 .. Len(pending) /\ pending[1] = r
    BY <1>1, <1>11
  <2>2. Ordered(pending, DOMAIN processes)
    BY <1>8 DEF Paging
  <2>3. \/ pending[1].pid \in DOMAIN processes
        \/ \E m \in 1 .. (1 - 1) : About(pending[m], pending[1].pid)
    BY <2>1, <2>2 DEF Ordered
  <2>4. QED BY <2>1, <2>3
<1>13. DOMAIN maps \subseteq DOMAIN processes
  BY DEF MirrorInv, LivePagesApart
<1>14. PagesOf(p) \cup {r.page} \subseteq owned[h]
  BY <1>3, <1>8 DEF Paging
<1>15. ASSUME NEW q \in DOMAIN maps, q # p, processes[q].state # PROCESS_EXITED
       PROVE  maps[q] \cap (PagesOf(p) \cup {r.page}) = {}
  <2>1. PICK j \in Tasks : Alive(j) /\ id[j] = q
    BY <1>1, <1>8, <1>15 DEF Paging
  <2>2. maps[q] \subseteq owned[j]
    BY <1>8, <1>15, <2>1 DEF Paging, PagesOf
  <2>3. j # h
    BY <1>3, <1>15, <2>1
  <2>4. owned[j] \cap owned[h] = {}
    BY <2>3 DEF MirrorInv, LabInv, MemoryInv, PagesHaveOneOwner, Held
  <2>5. QED BY <1>14, <2>2, <2>4
<1>16. LivePagesApart'
  <2>1. DOMAIN maps' \subseteq DOMAIN processes'
    BY <1>2, <1>12, <1>13
  <2>2. ASSUME NEW s \in DOMAIN maps', NEW t \in DOMAIN maps', s # t,
               processes'[s].state # PROCESS_EXITED, processes'[t].state # PROCESS_EXITED
        PROVE  maps'[s] \cap maps'[t] = {}
    <3>1. CASE s = p
      BY <1>2, <1>15, <2>2, <3>1
    <3>2. CASE t = p
      BY <1>2, <1>15, <2>2, <3>2
    <3>3. CASE s # p /\ t # p
      BY <1>2, <2>2, <3>3 DEF MirrorInv, LivePagesApart
    <3>4. QED BY <3>1, <3>2, <3>3
  <2>3. QED BY <2>1, <2>2 DEF LivePagesApart
<1>17. Listing'
  BY <1>1, <1>2, <1>4, <1>5, <1>8 DEF Listing, About
<1>18. Marking'
  BY <1>1, <1>2, <1>4, <1>8 DEF Marking, About, Names
<1>19. Paging'
  <2>1. Ordered(Tail(pending), DOMAIN processes)
    <3>1. \A x \in ToSet(Tail(pending)) :
            x.kind = "map" /\ (x.pid \in DOMAIN processes \/ About(r, x.pid)) => x.pid \in DOMAIN processes
      BY DEF About
    <3>2. QED BY <1>1, <1>8, <1>11, <3>1, OrderedTail DEF Paging
  <2>2. Ordered(pending, DOMAIN processes)'
    BY <1>2, <2>1
  <2>3. \A q \in DOMAIN maps' : processes'[q].state # PROCESS_EXITED =>
          \/ \E i \in Tasks : Alive(i) /\ id[i] = q
          \/ \A x \in Told' : x.kind # "map"
    BY <1>1, <1>2, <1>3, <1>8 DEF Paging
  <2>4. \A i \in Tasks : Alive(i) =>
          PagesOf(id[i])' = IF i = h THEN PagesOf(p) \cup {r.page} ELSE PagesOf(id[i])
    BY <1>2, <1>3, <1>4, <1>6, AliveIsUsed DEF PagesOf
  <2>5. \A i \in Tasks : Alive(i) =>
          /\ PagesOf(id[i])' \subseteq owned[i]
          /\ \A g \in owned[i] : g \in PagesOf(id[i])' \/ \E x \in Told' : Maps(x, id[i], g)
    <3>1. ASSUME NEW i \in Tasks, Alive(i)
          PROVE  /\ PagesOf(id[i]) \subseteq owned[i]
                 /\ \A g \in owned[i] : g \in PagesOf(id[i]) \/ \E x \in Told : Maps(x, id[i], g)
      BY <1>8, <3>1 DEF Paging
    <3>2. \A i \in Tasks : \A g : Maps(r, id[i], g) /\ Alive(i) => i = h /\ g = r.page
      BY <1>6, AliveIsUsed DEF Maps
    <3>3. QED BY <1>1, <1>3, <1>14, <2>4, <3>1, <3>2
  <2>6. QED BY <1>2, <1>4, <1>5, <2>2, <2>3, <2>5 DEF Paging, Maps
<1>20. Counting'
  BY <1>1, <1>2, <1>4, <1>8 DEF Counting, Held, NotSpawning
<1>21. Reported'
  BY <1>1, <1>17, <1>18, <1>19, <1>20 DEF Reported
<1>22. QED BY <1>1, <1>10, <1>16, <1>21 DEF MirrorInv, vars

\* The free count, and the mark of the current process.
LEMMA ApplyRest ==
  ASSUME MirrorInv, apply, Head(pending).kind \in {"memory", "schedule", "syscall"}
  PROVE  MirrorInv'
<1> DEFINE r == Head(pending)
<1>1. /\ LabInv' /\ UNCHANGED vars /\ panic = "none" /\ Reported
      /\ r \in Record /\ Truthful(r) /\ r \in Told
      /\ pending' \in Seq(Record) /\ Told = {r} \cup Told'
      /\ \A x \in Told' : x \in Record /\ Truthful(x)
      /\ (\A x \in Told : Truthful(x))'
      /\ pending # << >> /\ spawning = NotSpawning
  BY ApplyFrame
<1>2. /\ UNCHANGED maps /\ pending' = Tail(pending)
      /\ \/ r.kind = "memory" /\ free' = r.free /\ UNCHANGED processes
         \/ r.kind # "memory" /\ UNCHANGED free
            /\ processes' = [q \in DOMAIN processes |-> [processes[q] EXCEPT !.current = q = r.pid]]
  BY DEF apply, _event, OnlyCurrent
<1>3. UNCHANGED <<id, state, parent, program, owned, current, free_count, spawning, tables>>
  BY <1>1 DEF vars, family, spaces, cpu, pages
<1>4. /\ \A i : Unused(i)' <=> Unused(i)
      /\ \A i : Alive(i)' <=> Alive(i)
      /\ \A x, i : Says(x, i)' <=> Says(x, i)
  BY <1>3 DEF Unused, Alive, Says
<1>5. Listing /\ Marking /\ Paging /\ Counting
  BY <1>1 DEF Reported
<1>6. processes \in [DOMAIN processes -> ProcessRecord]
  BY DEF MirrorInv, MirrorTyped
<1>7. /\ DOMAIN processes' = DOMAIN processes
      /\ processes' \in [DOMAIN processes -> ProcessRecord]
      /\ \A q \in DOMAIN processes :
           /\ processes'[q].pid = processes[q].pid
           /\ processes'[q].parent = processes[q].parent
           /\ processes'[q].program = processes[q].program
           /\ processes'[q].state = processes[q].state
           /\ (r.kind # "memory" /\ processes'[q].current => q = r.pid)
  <2>1. CASE r.kind = "memory"
    BY <1>2, <1>6, <2>1
  <2>2. CASE r.kind # "memory"
    <3>1. processes' = [q \in DOMAIN processes |-> [processes[q] EXCEPT !.current = q = r.pid]]
      BY <1>2, <2>2
    <3>2. ASSUME NEW q \in DOMAIN processes
          PROVE  /\ processes'[q] \in ProcessRecord
                 /\ (processes'[q].current => q = r.pid)
                 /\ processes'[q].pid = processes[q].pid
                 /\ processes'[q].parent = processes[q].parent
                 /\ processes'[q].program = processes[q].program
                 /\ processes'[q].state = processes[q].state
           /\ (r.kind # "memory" /\ processes'[q].current => q = r.pid)
      <4>1. processes'[q] = [processes[q] EXCEPT !.current = q = r.pid] /\ processes[q] \in ProcessRecord
        BY <3>1, <1>6
      <4> HIDE DEF r
      <4>2. QED BY <4>1 DEF ProcessRecord
    <3>3. QED BY <3>1, <3>2
  <2>3. QED BY <2>1, <2>2
<1>8. MirrorTyped'
  BY <1>1, <1>2, <1>7 DEF MirrorTyped, MirrorInv
<1>9. DOMAIN maps \subseteq DOMAIN processes
  BY DEF MirrorInv, LivePagesApart
<1>10. LivePagesApart'
  BY <1>2, <1>7 DEF LivePagesApart, MirrorInv
<1>11. \A q : ~About(r, q) /\ \A g : ~Maps(r, q, g)
  BY DEF About, Maps
<1>12. Listing'
  <2>1. \A i \in Tasks : id[i] \in DOMAIN processes =>
          (Says(processes'[id[i]], i) <=> Says(processes[id[i]], i))
    BY <1>7 DEF Says
  <2>2. QED BY <1>1, <1>3, <1>4, <1>5, <1>7, <1>11, <2>1 DEF Listing
<1>13. Marking'
  <2>1. CASE r.kind = "memory"
    BY <1>1, <1>2, <1>3, <1>5, <1>11, <2>1 DEF Marking, Names
  <2>2. CASE r.kind # "memory"
    <3>1. \A q \in DOMAIN processes : processes'[q].current => q = r.pid
      BY <1>7, <2>2
    <3>2. r.pid = id[current]
      BY <1>1, <2>2 DEF Truthful
    <3>3. QED BY <1>3, <1>7, <3>1, <3>2 DEF Marking
  <2>3. QED BY <2>1, <2>2
<1>14. Paging'
  <2>1. Ordered(Tail(pending), DOMAIN processes)
    <3>1. \A x \in ToSet(Tail(pending)) :
            x.kind = "map" /\ (x.pid \in DOMAIN processes \/ About(r, x.pid)) => x.pid \in DOMAIN processes
      BY <1>11
    <3>2. pending \in Seq(Record)
      BY DEF MirrorInv, MirrorTyped
    <3>3. QED BY <1>1, <1>5, <3>1, <3>2, OrderedTail DEF Paging
  <2>2. Ordered(pending, DOMAIN processes)'
    BY <1>2, <1>7, <2>1
  <2>3. \A q \in DOMAIN maps : processes'[q].state # PROCESS_EXITED =>
          \/ \E i \in Tasks : Alive(i) /\ id[i] = q
          \/ \A x \in Told' : x.kind # "map"
    BY <1>1, <1>5, <1>7, <1>9 DEF Paging
  <2>4. \A i \in Tasks : Alive(i) =>
          /\ PagesOf(id[i]) \subseteq owned[i]
          /\ \A g \in owned[i] : g \in PagesOf(id[i]) \/ \E x \in Told' : Maps(x, id[i], g)
    BY <1>1, <1>5, <1>11 DEF Paging
  <2>5. \A i : PagesOf(id[i])' = PagesOf(id[i])
    BY <1>2, <1>3 DEF PagesOf
  <2>6. \A i \in Tasks : Alive(i) =>
          /\ PagesOf(id[i])' \subseteq owned[i]
          /\ \A g \in owned[i] : g \in PagesOf(id[i])' \/ \E x \in Told' : Maps(x, id[i], g)
    BY <2>4, <2>5
  <2>7. QED BY <1>2, <1>3, <1>4, <2>2, <2>3, <2>6 DEF Paging, Maps
<1>15. Counting'
  BY <1>1, <1>2, <1>3, <1>5 DEF Counting, Held, NotSpawning, Truthful
<1>16. Reported'
  BY <1>1, <1>12, <1>13, <1>14, <1>15 DEF Reported
<1>17. QED BY <1>1, <1>8, <1>10, <1>16 DEF MirrorInv, vars

\* So a record that is applied keeps the invariant, whatever it is.
LEMMA ApplyStep ==
  ASSUME MirrorInv, apply
  PROVE  MirrorInv'
<1>1. Head(pending) \in Record
  BY ApplyFrame
<1>2. Head(pending).kind \in {"process", "map", "memory", "schedule", "syscall"}
  BY <1>1 DEF Record, ProcessRecord, MapRecord, MemoryRecord, NameRecord
<1>3. QED BY <1>2, ApplyGone, ApplyProcess, ApplyMap, ApplyRest

-----------------------------------------------------------------------------
(* What a handler has to write.                                            *)

\* Between handlers the mirror lists the task table exactly.
LEMMA QuietMirror ==
  ASSUME MirrorInv, Quiet, panic = "none"
  PROVE  /\ Told = {} /\ Reported
         /\ \A i \in Tasks : ~Unused(i) => id[i] \in DOMAIN processes /\ Says(processes[id[i]], i)
         /\ \A p \in DOMAIN processes : \E i \in Tasks : ~Unused(i) /\ id[i] = p
         /\ \A p \in DOMAIN processes : processes[p].current => p = id[current]
         /\ \A i \in Tasks : Alive(i) => PagesOf(id[i]) = owned[i]
         /\ \A p \in DOMAIN maps : processes[p].state # PROCESS_EXITED =>
              \E i \in Tasks : Alive(i) /\ id[i] = p
         /\ DOMAIN maps \subseteq DOMAIN processes
<1>1. Told = {} /\ Reported
  BY DEF Told, ToSet, Quiet, MirrorInv
<1>2. Listing /\ Marking /\ Paging
  BY <1>1 DEF Reported
<1>3. DOMAIN maps \subseteq DOMAIN processes
  BY DEF MirrorInv, LivePagesApart
<1>4. /\ \A i \in Tasks : ~Unused(i) => id[i] \in DOMAIN processes /\ Says(processes[id[i]], i)
      /\ \A p \in DOMAIN processes : \E i \in Tasks : ~Unused(i) /\ id[i] = p
  BY <1>1, <1>2 DEF Listing
<1>5. \A p \in DOMAIN processes : processes[p].current => p = id[current]
  BY <1>1, <1>2 DEF Marking
<1>6. \A i \in Tasks : Alive(i) => PagesOf(id[i]) = owned[i]
  BY <1>1, <1>2 DEF Paging
<1>7. ASSUME NEW p \in DOMAIN maps, processes[p].state # PROCESS_EXITED
      PROVE  \E i \in Tasks : Alive(i) /\ id[i] = p
  <2>1. PICK i \in Tasks : ~Unused(i) /\ id[i] = p /\ Says(processes[p], i)
    BY <1>3, <1>4, <1>7
  <2>2. state[i] \in ProcessState /\ state[i] # PROCESS_EXITED
    BY <1>7, <2>1 DEF Says, MirrorInv, LabInv, TypeOK
  <2>3. QED BY <2>1, <2>2 DEF Unused, Alive, ProcessState
<1>8. QED BY <1>1, <1>3, <1>4, <1>5, <1>6, <1>7

\* A handler keeps the mirror right if it writes only what is true after it,
\* a record for every process it adds, removes or changes, the pages of the
\* one it adds, and one for the process that is current no longer.
LEMMA Reports ==
  ASSUME MirrorInv, Quiet, panic = "none", panic' = "none", LabInv', UNCHANGED mirror,
         pending' \in Seq(Record),
         (\A r \in Told : Truthful(r))',
         \A i \in Tasks : ~Unused(i)' =>
           \/ \E r \in Told' : About(r, id'[i])
           \/ ~Unused(i) /\ UNCHANGED <<id[i], parent[i], program[i], state[i]>>,
         \A i \in Tasks : ~Unused(i) =>
           \/ \E r \in Told' : About(r, id[i])
           \/ ~Unused(i)' /\ id'[i] = id[i],
         \/ DOMAIN processes = {} \/ id'[current'] = id[current]
         \/ \E r \in Told' : Names(r) \/ About(r, id[current]),
         \A i \in Tasks : Alive(i)' =>
           \/ Alive(i) /\ UNCHANGED <<id[i], owned[i]>>
           \/ id'[i] \notin DOMAIN processes /\ \A g \in owned'[i] : \E r \in Told' : Maps(r, id'[i], g),
         \/ \A r \in Told' : r.kind # "map"
         \/ \A i \in Tasks : Alive(i) => Alive(i)' /\ id'[i] = id[i],
         Ordered(pending', DOMAIN processes),
         Counting'
  PROVE  MirrorInv'
<1>1. UNCHANGED <<processes, maps, free>>
  BY DEF mirror
<1>2. MirrorTyped' /\ LivePagesApart'
  BY <1>1 DEF MirrorInv, MirrorTyped, LivePagesApart
<1>3. /\ \A i \in Tasks : ~Unused(i) => id[i] \in DOMAIN processes /\ Says(processes[id[i]], i)
      /\ \A p \in DOMAIN processes : \E i \in Tasks : ~Unused(i) /\ id[i] = p
      /\ \A p \in DOMAIN processes : processes[p].current => p = id[current]
      /\ \A i \in Tasks : Alive(i) => PagesOf(id[i]) = owned[i]
      /\ \A p \in DOMAIN maps : processes[p].state # PROCESS_EXITED =>
           \E i \in Tasks : Alive(i) /\ id[i] = p
      /\ DOMAIN maps \subseteq DOMAIN processes /\ Reported
  BY QuietMirror
<1>4. Listing'
  <2>1. ASSUME NEW i \in Tasks, ~Unused(i)'
        PROVE  \/ \E r \in Told' : About(r, id'[i])
               \/ id'[i] \in DOMAIN processes' /\ Says(processes[id[i]], i)'
    <3>1. CASE ~Unused(i) /\ UNCHANGED <<id[i], parent[i], program[i], state[i]>>
      <4>1. id[i] \in DOMAIN processes /\ Says(processes[id[i]], i)
        BY <1>3, <3>1
      <4>2. QED BY <1>1, <3>1, <4>1 DEF Says
    <3>2. QED BY <2>1, <3>1
  <2>2. \A p \in DOMAIN processes :
          (\E i \in Tasks : ~Unused(i)' /\ id'[i] = p) \/ \E r \in Told' : About(r, p)
    BY <1>3
  <2>3. \A i \in Tasks : Alive(i)' /\ id'[i] \in DOMAIN processes =>
          processes[id'[i]].state # PROCESS_EXITED
    BY <1>3 DEF Reported, Listing
  <2>4. QED BY <1>1, <2>1, <2>2, <2>3 DEF Listing
<1>5. Marking'
  BY <1>1, <1>3 DEF Marking
<1>6. Paging'
  <2>1. ASSUME NEW i \in Tasks, Alive(i)'
        PROVE  /\ PagesOf(id[i])' \subseteq owned'[i]
               /\ \A g \in owned'[i] : g \in PagesOf(id[i])' \/ \E r \in Told' : Maps(r, id'[i], g)
    <3>1. CASE Alive(i) /\ UNCHANGED <<id[i], owned[i]>>
      <4>1. PagesOf(id[i])' = PagesOf(id[i])
        BY <1>1, <3>1 DEF PagesOf
      <4>2. QED BY <1>3, <3>1, <4>1
    <3>2. CASE id'[i] \notin DOMAIN processes /\ \A g \in owned'[i] : \E r \in Told' : Maps(r, id'[i], g)
      <4>1. PagesOf(id[i])' = {}
        BY <1>1, <1>3, <3>2 DEF PagesOf
      <4>2. QED BY <3>2, <4>1
    <3>3. QED BY <2>1, <3>1, <3>2
  <2>2. \A q \in DOMAIN maps : processes[q].state # PROCESS_EXITED =>
          \/ \E i \in Tasks : Alive(i)' /\ id'[i] = q
          \/ \A r \in Told' : r.kind # "map"
    BY <1>3
  <2>3. Ordered(pending, DOMAIN processes)'
    BY <1>1
  <2>4. QED BY <1>1, <2>1, <2>2, <2>3 DEF Paging, Maps
<1>7. Reported'
  BY <1>4, <1>5, <1>6 DEF Reported
<1>8. QED BY <1>2, <1>7 DEF MirrorInv

\* A handler that stops the kernel writes nothing more.
LEMMA StopStep ==
  ASSUME MirrorInv, LabInv', panic' # "none", pending' = << >>, UNCHANGED mirror
  PROVE  MirrorInv'
BY DEF MirrorInv, MirrorTyped, LivePagesApart, mirror, Quiet

\* The records are what they should be.
LEMMA RecordTyped ==
  ASSUME LabInv
  PROVE  /\ \A i \in Tasks, st \in ProcessState, cur \in Tasks :
              Process(i, st, cur) \in Record /\ Process(i, st, cur) \in ProcessRecord
         /\ \A n \in Nat : Memory(n) \in Record
         /\ \A i \in Tasks : Schedule(i) \in Record
         /\ \A i \in Tasks : [kind |-> "syscall", pid |-> id[i]] \in Record
         /\ \A i \in Tasks : \A g \in owned[i] : [kind |-> "map", pid |-> id[i], page |-> g] \in Record
<1>1. /\ id \in [Tasks -> Nat] /\ parent \in [Tasks -> Nat] /\ program \in [Tasks -> Nat]
      /\ owned \in [Tasks -> SUBSET Frames]
  BY DEF LabInv, TypeOK
<1>2. \A i \in Tasks, st \in ProcessState, cur \in Tasks : Process(i, st, cur) \in ProcessRecord
  BY <1>1 DEF Process, ProcessRecord
<1>3. \A n \in Nat : Memory(n) \in MemoryRecord
  BY DEF Memory, MemoryRecord
<1>4. \A i \in Tasks : /\ Schedule(i) \in NameRecord
                       /\ [kind |-> "syscall", pid |-> id[i]] \in NameRecord
  BY <1>1 DEF Schedule, NameRecord
<1>5. \A i \in Tasks : \A g \in owned[i] : [kind |-> "map", pid |-> id[i], page |-> g] \in MapRecord
  BY <1>1 DEF MapRecord
<1>6. QED BY <1>2, <1>3, <1>4, <1>5 DEF Record

\* mappings_event writes one record for every page, and only those.
LEMMA MappingsWritten ==
  ASSUME LabInv, NEW i \in Tasks, root[i] # 0
  PROVE  /\ Mappings(i) \in Seq(Record)
         /\ ToSet(Mappings(i)) = {[kind |-> "map", pid |-> id[i], page |-> g] : g \in owned[i]}
<1> DEFINE n == Cardinality(owned[i])
           f == SetToSeq(owned[i])
           R(g) == [kind |-> "map", pid |-> id[i], page |-> g]
<1>1. IsFiniteSet(owned[i])
  <2>1. owned[i] \subseteq Frames
    BY DEF LabInv, TypeOK
  <2>2. QED BY <2>1, FramesFinite, FS_Subset
<1>2. /\ n \in Nat /\ f \in [1 .. n -> owned[i]]
      /\ \A x \in owned[i] : \E k \in 1 .. n : f[k] = x
  BY <1>1, Enumerates
<1>3. \A g \in owned[i] : R(g) \in Record
  BY RecordTyped
<1>4. Mappings(i) = [k \in 1 .. n |-> R(f[k])]
  BY DEF Mappings
<1> HIDE DEF R, n, f
<1>5. [k \in 1 .. n |-> R(f[k])] \in Seq(Record) /\ Len([k \in 1 .. n |-> R(f[k])]) = n
  BY <1>2, <1>3
<1>6. ToSet(Mappings(i)) = {R(g) : g \in owned[i]}
  <2>1. \A k \in 1 .. n : Mappings(i)[k] = R(f[k])
    BY <1>4
  <2>2. Len(Mappings(i)) = n
    BY <1>4, <1>5
  <2>3. QED BY <1>2, <2>1, <2>2 DEF ToSet
<1>7. QED BY <1>4, <1>5, <1>6 DEF R

\* A call that changes nothing the mirror shows may report whatever is true.
LEMMA SameTable ==
  ASSUME MirrorInv, Quiet, InUserMode, panic' = "none", LabInv', UNCHANGED mirror,
         UNCHANGED <<state, id, parent, program, owned, current, free_count, spawning>>,
         pending' \in Seq({r \in Record : Truthful(r)})
  PROVE  MirrorInv'
<1>1. panic = "none" /\ spawning = NotSpawning
  BY DEF InUserMode
<1>2. pending' \in Seq(Record) /\ \A r \in Told' : r \in Record /\ Truthful(r)
  <2>1. \A k \in 1 .. Len(pending') : pending'[k] \in {r \in Record : Truthful(r)}
    OBVIOUS
  <2>2. Len(pending') \in Nat /\ pending' = [k \in 1 .. Len(pending') |-> pending'[k]]
    OBVIOUS
  <2>3. QED BY <2>1, <2>2 DEF Told, ToSet
<1>3. /\ \A i : Unused(i)' <=> Unused(i)
      /\ \A i : Alive(i)' <=> Alive(i)
  BY DEF Unused, Alive
<1>4. (\A r \in Told : Truthful(r))'
  <2>1. \A r : Truthful(r)' <=> Truthful(r)
    BY <1>3 DEF Truthful, Says
  <2>2. QED BY <1>2, <2>1
<1>5. Ordered(pending', DOMAIN processes)
  <2>1. ASSUME NEW k \in 1 .. Len(pending'), pending'[k].kind = "map"
        PROVE  pending'[k].pid \in DOMAIN processes
    <3>1. pending'[k] \in Told'
      BY DEF Told, ToSet
    <3>2. PICK i \in Tasks : Alive(i) /\ id[i] = pending'[k].pid
      BY <1>2, <2>1, <3>1 DEF Truthful
    <3>3. QED BY <1>1, <3>2, AliveIsUsed, QuietMirror
  <2>2. QED BY <2>1 DEF Ordered
<1>6. Counting'
  <2>1. free = free_count
    BY <1>1, QuietMirror DEF Reported, Counting
  <2>2. QED BY <1>1, <2>1 DEF Counting, NotSpawning, mirror
<1>7. QED BY <1>1, <1>2, <1>3, <1>4, <1>5, <1>6, Reports

\* What the handlers of Laboratory do to the invariant of Laboratory.
LEMMA LabKept ==
  ASSUME MirrorInv, Next \/ UNCHANGED vars
  PROVE  LabInv'
BY LabNext DEF MirrorInv

\* The record of a call names the current task.
LEMMA CurrentNamed ==
  ASSUME LabInv, InUserMode
  PROVE  /\ [kind |-> "syscall", pid |-> id[current]] \in {r \in Record : Truthful(r)}
         /\ Syscall \in Seq({r \in Record : Truthful(r)})
         /\ << >> \in Seq({r \in Record : Truthful(r)})
<1>1. current \in Tasks
  BY DEF LabInv, TypeOK
<1>2. [kind |-> "syscall", pid |-> id[current]] \in Record
  BY <1>1, RecordTyped
<1>3. Truthful([kind |-> "syscall", pid |-> id[current]])
  BY DEF Truthful
<1>4. QED BY <1>2, <1>3 DEF Syscall

\* The calls that change nothing: spawn and wait refused, and the rest.
LEMMA RefusedStep ==
  ASSUME MirrorInv, Quiet, NEW p \in 0 .. Programs, sys_spawn_refused(p), Writes(Syscall)
  PROVE  MirrorInv'
<1>1. InUserMode /\ LabInv' /\ LabInv
  BY LabKept DEF Next, sys_spawn_refused, MirrorInv
<1>2. panic' = "none" /\ UNCHANGED <<state, id, parent, program, owned, current, free_count, spawning>>
  BY <1>1 DEF sys_spawn_refused, InUserMode, family, spaces, cpu, pages
<1>3. UNCHANGED mirror /\ pending' = Syscall
  BY <1>2 DEF Writes
<1>4. QED BY <1>1, <1>2, <1>3, CurrentNamed, SameTable

\* wait refused.
LEMMA WaitRefusedStep ==
  ASSUME MirrorInv, Quiet, NEW pid \in Pids, wait_refused(pid), Writes(<< >>)
  PROVE  MirrorInv'
<1>1. InUserMode /\ LabInv' /\ LabInv
  BY LabKept DEF Next, wait_refused, MirrorInv
<1>2. panic' = "none" /\ UNCHANGED <<state, id, parent, program, owned, current, free_count, spawning>>
  BY <1>1 DEF wait_refused, InUserMode, family, spaces, cpu, pages
<1>3. UNCHANGED mirror /\ pending' = << >>
  BY <1>2 DEF Writes
<1>4. QED BY <1>1, <1>2, <1>3, CurrentNamed, SameTable

\* Any other call.
LEMMA SyscallStep ==
  ASSUME MirrorInv, trace_syscall
  PROVE  MirrorInv'
<1>1. InUserMode /\ Quiet /\ LabInv' /\ LabInv
  BY LabKept DEF trace_syscall, MirrorInv
<1>2. panic' = "none" /\ UNCHANGED <<state, id, parent, program, owned, current, free_count, spawning>>
  BY <1>1 DEF trace_syscall, InUserMode, vars, family, spaces, cpu, pages
<1>3. UNCHANGED mirror /\ pending' = Syscall
  BY <1>2 DEF trace_syscall, Writes
<1>4. QED BY <1>1, <1>2, <1>3, CurrentNamed, SameTable

\* inspect reports every process as it is, with its pages.
LEMMA InspectReports ==
  ASSUME MirrorInv, trace_inspect
  PROVE  MirrorInv'
<1> DEFINE T == {r \in Record : Truthful(r)}
           K == Seq(T)
           part(n) == IF Unused(n - 1) THEN << >>
                      ELSE <<Process(n - 1, state[n - 1], current)>> \o Mappings(n - 1)
           ss == [n \in 1 .. TaskLimit |-> part(n)]
<1>1. /\ InUserMode /\ Quiet /\ LabInv' /\ LabInv /\ current \in Tasks
  BY LabKept DEF trace_inspect, sys_inspect, Next, MirrorInv, LabInv, TypeOK
<1>2. CASE panic' # "none"
  BY <1>1, <1>2, StopStep DEF trace_inspect, Writes
<1>3. CASE panic' = "none"
  <2>1. UNCHANGED <<state, id, parent, program, owned, current, free_count, spawning>>
    BY <1>1, <1>3 DEF trace_inspect, sys_inspect, Panic, InUserMode, family, spaces, cpu, pages
  <2>2. << >> \in K /\ \A s, t \in K : s \o t \in K
    OBVIOUS
  <2>3. ASSUME NEW n \in 1 .. TaskLimit PROVE part(n) \in K
    <3> DEFINE i == n - 1
    <3>1. i \in Tasks
      BY LabAssumption DEF Tasks
    <3>2. CASE Unused(i)
      BY <3>2, <2>2
    <3>3. CASE ~Unused(i)
      <4>1. state[i] \in ProcessState
        BY <1>1, <3>1 DEF LabInv, TypeOK
      <4>2. Process(i, state[i], current) \in Record
        BY <1>1, <3>1, <4>1, RecordTyped
      <4>3. Truthful(Process(i, state[i], current))
        BY <3>1, <3>3 DEF Truthful, Process, Says
      <4>4. Mappings(i) \in K
        <5>1. CASE root[i] = 0
          BY <2>2, <5>1 DEF Mappings
        <5>2. CASE root[i] # 0
          <6>1. /\ Mappings(i) \in Seq(Record)
                /\ ToSet(Mappings(i)) = {[kind |-> "map", pid |-> id[i], page |-> g] : g \in owned[i]}
            BY <1>1, <3>1, <5>2, MappingsWritten
          <6>2. Alive(i)
            <7>1. root[i] \in Held(i) /\ spawning = NotSpawning
              BY <1>1, <3>1, <5>2 DEF LabInv, MemoryInv, PagesHaveOneOwner, Held, InUserMode
            <7>2. QED BY <1>1, <3>1, <7>1 DEF LabInv, MemoryInv, PagesHaveOneOwner
          <6>3. \A r \in ToSet(Mappings(i)) : Truthful(r)
            BY <3>1, <6>1, <6>2 DEF Truthful
          <6>4. \A k \in 1 .. Len(Mappings(i)) : Mappings(i)[k] \in T
            BY <6>1, <6>3 DEF ToSet
          <6>5. QED BY <6>1, <6>4
        <5>3. QED BY <5>1, <5>2
      <4>5. <<Process(i, state[i], current)>> \in K
        BY <4>2, <4>3
      <4>6. QED BY <2>2, <3>3, <4>4, <4>5
    <3>4. QED BY <3>2, <3>3
  <2>4. ss \in Seq(K)
    <3>1. TaskLimit \in Nat
      BY LabAssumption
    <3> HIDE DEF part, K
    <3>2. QED BY <2>3, <3>1
  <2>5. FlattenSeq(ss) \in K
    <3> HIDE DEF K, ss
    <3>1. QED BY <2>2, <2>4, Flattened
  <2>6. <<Memory(free_count)>> \in K
    <3>1. free_count \in Nat
      BY <1>1 DEF LabInv, TypeOK, PageTypeOK
    <3>2. Memory(free_count) \in Record /\ Truthful(Memory(free_count))
      BY <1>1, <3>1, RecordTyped DEF Truthful, Memory
    <3>3. QED BY <3>2
  <2>7. pending' = FlattenSeq(ss) \o <<Memory(free_count)>> /\ UNCHANGED mirror
    BY <1>3 DEF trace_inspect, Writes, InspectRecords
  <2>8. pending' \in K
    <3> HIDE DEF K, ss
    <3>1. QED BY <2>2, <2>5, <2>6, <2>7
  <2>9. QED BY <1>1, <1>3, <2>1, <2>7, <2>8, SameTable
<1>4. QED BY <1>2, <1>3

\* The timer names the process it switches to.
LEMMA TickReports ==
  ASSUME MirrorInv, trace_tick
  PROVE  MirrorInv'
<1>1. /\ InUserMode /\ Quiet /\ LabInv' /\ LabInv /\ current \in Tasks /\ current' \in Tasks
      /\ panic = "none" /\ spawning = NotSpawning
  BY LabKept DEF trace_tick, task_tick, Next, MirrorInv, LabInv, TypeOK, InUserMode
<1>2. CASE panic' # "none"
  BY <1>1, <1>2, StopStep DEF trace_tick, Writes
<1>3. CASE panic' = "none"
  <2>1. UNCHANGED <<state, id, parent, program, owned, free_count, spawning>>
    BY <1>1, <1>3 DEF trace_tick, task_tick, Panic, family, spaces, pages
  <2>2. UNCHANGED mirror /\ pending' = IF current' # current THEN <<Schedule(current')>> ELSE << >>
    BY <1>3 DEF trace_tick, Writes, TickRecords
  <2>3. CASE current' = current
    BY <1>1, <1>3, <2>1, <2>2, <2>3, CurrentNamed, SameTable
  <2>4. CASE current' # current
    <3>1. pending' = <<Schedule(current')>> /\ Schedule(current') \in Record
      BY <1>1, <2>2, <2>4, RecordTyped
    <3>2. pending' \in Seq(Record) /\ Told' = {Schedule(current')}
      BY <3>1, ElementsOfOne DEF Told
    <3>3. (\A r \in Told : Truthful(r))'
      BY <2>1, <3>2 DEF Truthful, Schedule
    <3>4. /\ \A i : Unused(i)' <=> Unused(i)
          /\ \A i : Alive(i)' <=> Alive(i)
      BY <2>1 DEF Unused, Alive
    <3>5. \E r \in Told' : Names(r)
      BY <3>2 DEF Names, Schedule
    <3>6. \A r \in Told' : r.kind # "map"
      BY <3>2 DEF Schedule
    <3>7. Ordered(pending', DOMAIN processes)
      BY <3>2, <3>6 DEF Ordered, Told, ToSet
    <3>8. Counting'
      <4>1. free = free_count
        BY <1>1, QuietMirror DEF Reported, Counting
      <4>2. QED BY <1>1, <2>1, <2>2, <4>1 DEF Counting, NotSpawning, mirror
    <3>9. QED BY <1>1, <1>3, <2>1, <2>2, <3>2, <3>3, <3>4, <3>5, <3>6, <3>7, <3>8, Reports
  <2>5. QED BY <2>3, <2>4
<1>4. QED BY <1>2, <1>3

\* A step of spawn that says nothing: only the slot it fills changes, which
\* no record has named yet.
LEMMA SilentSpawn ==
  ASSUME MirrorInv, Quiet, panic = "none", panic' = "none", LabInv', UNCHANGED mirror,
         pending' = << >>, UNCHANGED <<state, current>>,
         \A i \in Tasks : ~Unused(i) => UNCHANGED <<id[i], parent[i], program[i], owned[i]>>,
         DOMAIN processes = {} \/ ~Unused(current),
         Counting'
  PROVE  MirrorInv'
<1>1. pending' \in Seq(Record) /\ Told' = {} /\ Ordered(pending', DOMAIN processes)
  BY DEF Told, ToSet, Ordered
<1>2. /\ \A i : Unused(i)' <=> Unused(i)
      /\ \A i : Alive(i)' <=> Alive(i)
  BY DEF Unused, Alive
<1>3. current \in Tasks
  BY DEF MirrorInv, LabInv, TypeOK
<1>4. \A i \in Tasks : Alive(i) => ~Unused(i)
  BY AliveIsUsed
<1>5. QED BY <1>1, <1>2, <1>3, <1>4, Reports

\* A spawn that starts has taken nothing yet.
LEMMA SpawnReports ==
  ASSUME MirrorInv, Quiet, NEW p \in 0 .. Programs, sys_spawn(p), Writes(<< >>)
  PROVE  MirrorInv'
<1>1. LabInv' /\ LabInv /\ InUserMode
  BY LabKept DEF Next, sys_spawn, MirrorInv
<1>2. /\ spawning = NotSpawning /\ panic = "none" /\ panic' = "none"
      /\ current \in Tasks /\ state[current] = PROCESS_READY /\ UNCHANGED <<state, current, free_count>>
  BY <1>1, UserMode DEF sys_spawn, cpu, pages
<1>3. PICK i \in Tasks :
        /\ Unused(i)
        /\ spawning' = [by |-> "task", slot |-> i, done |-> 0]
        /\ id' = [id EXCEPT ![i] = next_pid]
        /\ parent' = [parent EXCEPT ![i] = id[current]]
        /\ program' = [program EXCEPT ![i] = p]
        /\ tables' = [tables EXCEPT ![i] = {}]
        /\ owned' = [owned EXCEPT ![i] = {}]
  BY DEF sys_spawn, FirstUnused
<1>4. UNCHANGED mirror /\ pending' = << >>
  BY <1>2 DEF Writes
<1>5. \A j \in Tasks : ~Unused(j) => UNCHANGED <<id[j], parent[j], program[j], owned[j]>>
  BY <1>1, <1>3 DEF LabInv, TypeOK
<1>6. ~Unused(current)
  BY <1>2 DEF Unused, PROCESS_READY, PROCESS_UNUSED
<1>7. Counting'
  <2>1. free = free_count /\ free_count \in Nat
    BY <1>1, <1>2, QuietMirror DEF Reported, Counting, LabInv, TypeOK, PageTypeOK
  <2>2. Held(i)' = {} /\ spawning'.slot = i /\ spawning' # NotSpawning
    BY <1>1, <1>3 DEF Held, LabInv, TypeOK, NotSpawning
  <2>3. Held(spawning.slot)' = {}
    BY <2>2 DEF Held
  <2>4. Cardinality(Held(spawning.slot)') = 0
    BY <2>3, FS_EmptySet
  <2>5. free' = free_count' + Cardinality(Held(spawning.slot)')
    BY <1>2, <1>4, <2>1, <2>4 DEF mirror
  <2>6. QED BY <1>4, <2>2, <2>5 DEF Counting
<1>8. QED BY <1>1, <1>2, <1>4, <1>5, <1>6, <1>7, SilentSpawn

\* What spawn has taken has left the free count but not the mirror's.
LEMMA AllocReports ==
  ASSUME MirrorInv, Quiet, prepare_alloc, Writes(<< >>)
  PROVE  MirrorInv'
<1>1. LabInv' /\ LabInv
  BY LabKept DEF Next, MirrorInv
<1>2. PICK s \in Tasks :
        /\ panic = "none" /\ spawning # NotSpawning /\ spawning.slot = s
        /\ spawning.by \in {"nobody", "boot", "task"}
  BY <1>1 DEF prepare_alloc, Preparing, LabInv, TypeOK
<1>3. PICK f \in Frames :
        /\ PageAlloc(f)
        /\ IF Wanted = "table"
           THEN tables' = [tables EXCEPT ![s] = @ \cup {f}] /\ UNCHANGED owned
           ELSE owned' = [owned EXCEPT ![s] = @ \cup {f}] /\ UNCHANGED tables
  BY <1>2 DEF prepare_alloc
<1>4. /\ UNCHANGED <<state, id, parent, program, current, panic>>
      /\ spawning' = [spawning EXCEPT !.done = @ + 1]
  BY DEF prepare_alloc, family, cpu
<1>5. spawning'.slot = s /\ spawning'.by = spawning.by
  BY <1>1, <1>2, <1>4 DEF LabInv, TypeOK
<1>6. UNCHANGED mirror /\ pending' = << >> /\ panic' = "none"
  BY <1>2, <1>4 DEF Writes
<1>7. Unused(s) /\ spawning.by # "nobody" /\ spawning' # NotSpawning
  BY <1>1, <1>2, <1>5 DEF LabInv, FamilyInv, SpawnAsked, NotSpawning
<1>8. \A j \in Tasks : ~Unused(j) => UNCHANGED <<id[j], parent[j], program[j], owned[j]>>
  BY <1>1, <1>3, <1>4, <1>7 DEF LabInv, TypeOK
<1>9. DOMAIN processes = {} \/ ~Unused(current)
  <2>1. CASE spawning.by = "boot"
    <3>1. \A i \in Tasks : Unused(i)
      BY <1>1, <2>1 DEF LabInv, FamilyInv, SpawnAsked
    <3>2. QED BY <1>2, <3>1, QuietMirror
  <2>2. CASE spawning.by # "boot"
    BY <1>1, <1>2, <2>2 DEF LabInv, CurrentIsMapped, Unused, PROCESS_READY, PROCESS_UNUSED
  <2>3. QED BY <2>1, <2>2
<1>10. Counting'
  <2>1. PageTypeOK /\ CountExact /\ Held(s) \subseteq AllocatedFrames
    BY <1>1 DEF LabInv, TypeOK, MemoryInv, PagesHaveOneOwner
  <2>2. f \notin AllocatedFrames
    BY <1>3, <2>1, AllocEffect
  <2>3. Held(s)' = Held(s) \cup {f} /\ f \notin Held(s)
    <3>1. tables \in [Tasks -> SUBSET Frames] /\ owned \in [Tasks -> SUBSET Frames]
      BY <1>1 DEF LabInv, TypeOK
    <3>2. tables'[s] \cup owned'[s] = (tables[s] \cup owned[s]) \cup {f}
      <4>1. CASE Wanted = "table"
        BY <1>3, <3>1, <4>1
      <4>2. CASE Wanted # "table"
        BY <1>3, <3>1, <4>2
      <4>3. QED BY <4>1, <4>2
    <3>3. QED BY <2>1, <2>2, <3>2 DEF Held
  <2>4. IsFiniteSet(Held(s))
    <3>1. Held(s) \subseteq Frames
      BY <1>1 DEF LabInv, TypeOK, Held
    <3>2. QED BY <3>1, FramesFinite, FS_Subset
  <2>5. Cardinality(Held(s)) \in Nat /\ Cardinality(Held(s)') = Cardinality(Held(s)) + 1
    BY <2>3, <2>4, FS_AddElement, FS_CardinalityType
  <2>6. free_count' = free_count - 1 /\ free_count \in Nat
    BY <1>3, <2>1 DEF PageAlloc, PageTypeOK
  <2>7. spawning.by = "task" => free = free_count + Cardinality(Held(s))
    BY <1>2, QuietMirror DEF Reported, Counting
  <2>8. Held(spawning.slot)' = Held(s)'
    BY <1>5 DEF Held
  <2>9. spawning'.by = "task" => free' = free_count' + Cardinality(Held(spawning.slot)')
    BY <1>5, <1>6, <2>5, <2>6, <2>7, <2>8 DEF mirror
  <2>10. QED BY <1>6, <1>7, <2>9 DEF Counting
<1>11. QED BY <1>1, <1>2, <1>4, <1>6, <1>8, <1>9, <1>10, SilentSpawn

\* A spawn that fails has given back what it took, so the mirror's count is
\* right again without a record.
LEMMA SpawnFailsReports ==
  ASSUME MirrorInv, Quiet, spawn_fails, Writes(Syscall)
  PROVE  MirrorInv'
<1>1. LabInv' /\ LabInv
  BY LabKept DEF Next, MirrorInv
<1>2. CASE panic' # "none"
  BY <1>1, <1>2, StopStep DEF Writes
<1>3. CASE panic' = "none"
  <2>1. /\ panic = "none" /\ spawning # NotSpawning
        /\ spawning \in [by : {"nobody", "boot", "task"}, slot : Tasks, done : 0 .. Len(Plan)]
    BY <1>1 DEF spawn_fails, Preparing, LabInv, TypeOK
  <2>2. spawning.by = "task"
    BY <1>1, <1>3, <2>1 DEF spawn_fails, Panic, LabInv, FamilyInv, SpawnAsked
  <2>3. PICK i \in Tasks :
          /\ i = spawning.slot /\ Unused(i) /\ release_pages(i)
          /\ id' = [id EXCEPT ![i] = 0]
          /\ parent' = [parent EXCEPT ![i] = 0]
          /\ program' = [program EXCEPT ![i] = PROGRAM_INIT]
          /\ spawning' = NotSpawning
          /\ UNCHANGED <<state, current>>
    BY <1>1, <1>3, <2>1, <2>2 DEF spawn_fails, Panic, SpawnCleanup, LabInv, FamilyInv, SpawnAsked, cpu
  <2>4. /\ current \in Tasks /\ ~Unused(current)
    BY <1>1, <2>1, <2>2 DEF LabInv, TypeOK, CurrentIsMapped, Unused, PROCESS_READY, PROCESS_UNUSED
  <2>5. UNCHANGED mirror /\ pending' = Syscall
    BY <1>3 DEF Writes
  <2>6. \A j \in Tasks : ~Unused(j) => UNCHANGED <<id[j], parent[j], program[j], owned[j]>>
    BY <1>1, <2>3, ReleaseEffect DEF LabInv, TypeOK
  <2>7. /\ \A j : Unused(j)' <=> Unused(j)
        /\ \A j : Alive(j)' <=> Alive(j)
    BY <2>3 DEF Unused, Alive
  <2>8. \A j \in Tasks : Alive(j) => ~Unused(j)
    BY AliveIsUsed
  <2>9. free' = free_count'
    <3>1. Released(i) = Held(i)
      BY <1>1 DEF LabInv, MemoryInv, PagesHaveOneOwner, Released, Held
    <3>2. free = free_count + Cardinality(Held(i))
      BY <2>1, <2>2, <2>3, QuietMirror DEF Reported, Counting
    <3>3. free_count' = free_count + Cardinality(Held(i))
      BY <2>3, <3>1 DEF release_pages, PageFreeAll
    <3>4. QED BY <2>5, <3>2, <3>3 DEF mirror
  <2>10. Counting'
    BY <2>3, <2>9 DEF Counting, NotSpawning
  <2>11. pending' \in Seq(Record) /\ Told' = {[kind |-> "syscall", pid |-> id[current]]}
    BY <1>1, <2>4, <2>5, RecordTyped, ElementsOfOne DEF Syscall, Told
  <2>12. (\A r \in Told : Truthful(r))'
    <3>1. id'[current'] = id[current]
      BY <2>3, <2>4, <2>6
    <3>2. QED BY <2>11, <3>1 DEF Truthful
  <2>13. \A r \in Told' : r.kind # "map"
    BY <2>11
  <2>14. Ordered(pending', DOMAIN processes)
    BY <2>11, <2>13 DEF Ordered, Told, ToSet
  <2>15. id'[current'] = id[current]
    BY <2>3, <2>4, <2>6
  <2>16. \A j \in Tasks : ~Unused(j)' => ~Unused(j) /\ UNCHANGED <<id[j], parent[j], program[j], state[j]>>
    BY <2>3, <2>6, <2>7
  <2>17. QED BY <1>1, <1>3, <2>1, <2>5, <2>6, <2>7, <2>8, <2>10, <2>11, <2>12, <2>13, <2>14, <2>15, <2>16, Reports
<1>4. QED BY <1>2, <1>3

\* The new process is listed with its pages before anything else is said, and
\* nobody it could be confused with is listed.
LEMMA SpawnDoneReports ==
  ASSUME MirrorInv, Quiet, spawn_done, Writes(SpawnRecords(spawning.slot))
  PROVE  MirrorInv'
<1>1. LabInv' /\ LabInv
  BY LabKept DEF Next, MirrorInv
<1>2. /\ panic = "none" /\ spawning # NotSpawning
      /\ spawning \in [by : {"nobody", "boot", "task"}, slot : Tasks, done : 0 .. Len(Plan)]
  BY <1>1 DEF spawn_done, Preparing, LabInv, TypeOK
<1>3. PICK s \in Tasks : s = spawning.slot
  BY <1>2
<1>4. /\ state' = [state EXCEPT ![s] = PROCESS_READY]
      /\ spawning' = NotSpawning
      /\ UNCHANGED <<free_count, id, parent, program, owned, panic>>
  BY <1>3 DEF spawn_done, family, pages
<1>5. Unused(s) /\ spawning.by \in {"boot", "task"}
  BY <1>1, <1>2, <1>3 DEF LabInv, FamilyInv, SpawnAsked
<1>6. /\ state'[s] = PROCESS_READY /\ \A j \in Tasks \ {s} : state'[j] = state[j]
  BY <1>1, <1>4 DEF LabInv, TypeOK
<1>7. /\ Alive(s)' /\ ~Unused(s)' /\ ~Alive(s)
      /\ \A j \in Tasks \ {s} : (Alive(j)' <=> Alive(j)) /\ (Unused(j)' <=> Unused(j))
      /\ \A j \in Tasks : Alive(j) => ~Unused(j)
  BY <1>5, <1>6 DEF Alive, Unused, PROCESS_READY, PROCESS_UNUSED, PROCESS_WAITING
<1>8. root[s] # 0
  BY <1>1, <1>2, <1>3, LabAssumption DEF LabInv, MemoryInv, Building, spawn_done, MoreToDo
<1>9. /\ current \in Tasks /\ current' \in Tasks
      /\ spawning.by = "boot" => s = 0 /\ current' = 0 /\ \A i \in Tasks : Unused(i)
      /\ spawning.by = "task" => current' = current /\ ~Unused(current)
  <2>1. current \in Tasks /\ current' \in Tasks
    BY <1>1 DEF LabInv, TypeOK
  <2>2. spawning.by = "boot" => s = 0 /\ current' = 0 /\ \A i \in Tasks : Unused(i)
    BY <1>1, <1>3 DEF LabInv, FamilyInv, SpawnAsked, spawn_done, select_task
  <2>3. spawning.by = "task" => current' = current
    BY DEF spawn_done, cpu
  <2>4. spawning.by = "task" => ~Unused(current)
    BY <1>1, <1>2 DEF LabInv, CurrentIsMapped, Unused, PROCESS_READY, PROCESS_UNUSED
  <2>5. QED BY <2>1, <2>2, <2>3, <2>4
<1>10. id[s] \notin DOMAIN processes
  <2>1. \A i \in Tasks : ~Unused(i) => id[i] # id[s]
    BY <1>1, <1>3, <1>5, <1>9 DEF LabInv, FamilyInv, SpawnAsked
  <2>2. QED BY <1>2, <2>1, QuietMirror
<1> DEFINE P == Process(s, PROCESS_READY, current)
           M == Mappings(s)
           C == Memory(free_count)
           S == IF spawning.by = "task" THEN Syscall ELSE << >>
           Y == [kind |-> "syscall", pid |-> id[current]]
<1>11. /\ UNCHANGED mirror /\ panic' = "none"
       /\ pending' = <<P>> \o M \o <<C>> \o S
  BY <1>2, <1>3, <1>4 DEF Writes, SpawnRecords
<1>12. /\ P \in Record /\ C \in Record /\ Y \in Record /\ M \in Seq(Record) /\ S \in Seq(Record)
       /\ ToSet(M) = {[kind |-> "map", pid |-> id[s], page |-> g] : g \in owned[s]}
       /\ ToSet(S) \subseteq {Y} /\ (spawning.by # "task" => ToSet(S) = {})
  <2>1. free_count \in Nat /\ PROCESS_READY \in ProcessState
    BY <1>1 DEF LabInv, TypeOK, PageTypeOK, ProcessState
  <2>2. P \in Record /\ C \in Record /\ Y \in Record
    BY <1>1, <1>9, <2>1, RecordTyped
  <2>3. S \in Seq(Record) /\ ToSet(S) \subseteq {Y} /\ (spawning.by # "task" => ToSet(S) = {})
    <3>1. CASE spawning.by = "task"
      BY <2>2, <3>1, ElementsOfOne DEF Syscall
    <3>2. CASE spawning.by # "task"
      BY <2>2, <3>2, ElementsOfOne
    <3>3. QED BY <3>1, <3>2
  <2>4. QED BY <1>1, <1>8, <2>2, <2>3, MappingsWritten
<1>13. pending' \in Seq(Record) /\ Told' = {P, C} \cup ToSet(M) \cup ToSet(S)
  <2> HIDE DEF P, M, C, S
  <2>0. M \in Seq(Record) /\ S \in Seq(Record)
    BY <1>12
  <2>1. /\ <<P>> \in Seq(Record) /\ ToSet(<<P>>) = {P}
        /\ <<C>> \in Seq(Record) /\ ToSet(<<C>>) = {C}
    BY <1>12, ElementsOfOne
  <2>2. PICK a \in Seq(Record), c \in Seq(Record) :
          a = <<P>> /\ c = <<C>> /\ ToSet(a) = {P} /\ ToSet(c) = {C}
    BY <2>1
  <2>3. a \o M \in Seq(Record) /\ a \o M \o c \in Seq(Record) /\ a \o M \o c \o S \in Seq(Record)
    BY <2>0
  <2>4. /\ ToSet(a \o M) = ToSet(a) \cup ToSet(M)
        /\ ToSet(a \o M \o c) = ToSet(a \o M) \cup ToSet(c)
        /\ ToSet(a \o M \o c \o S) = ToSet(a \o M \o c) \cup ToSet(S)
    <3>1. ToSet(a \o M) = ToSet(a) \cup ToSet(M)
      BY <2>0, ElementsOfConcat, Zenon
    <3>2. ToSet(a \o M \o c) = ToSet(a \o M) \cup ToSet(c)
      BY <2>3, ElementsOfConcat, Zenon
    <3>3. ToSet(a \o M \o c \o S) = ToSet(a \o M \o c) \cup ToSet(S)
      BY <2>0, <2>3, ElementsOfConcat, Zenon
    <3>4. QED BY <3>1, <3>2, <3>3
  <2>5. pending' = a \o M \o c \o S
    BY <1>11, <2>2
  <2>6. QED BY <2>2, <2>3, <2>4, <2>5 DEF Told
<1>14. /\ P.kind = "process" /\ P.pid = id[s] /\ P.parent = parent[s] /\ P.program = program[s]
       /\ P.state = PROCESS_READY /\ (P.current => s = current)
       /\ C.kind = "memory" /\ C.free = free_count
       /\ Y.kind = "syscall" /\ Y.pid = id[current]
  BY DEF Process, Memory
<1> HIDE DEF P, M, C, S, Y
<1>15. \A r \in Told' : Truthful(r)'
  <2>1. ASSUME NEW r, r = P PROVE Truthful(r)'
    <3>1. P.current => s = current'
      BY <1>5, <1>9, <1>14
    <3>2. Says(r, s)'
      BY <1>4, <1>6, <1>14, <2>1 DEF Says
    <3>3. QED BY <1>7, <1>14, <2>1, <3>1, <3>2 DEF Truthful
  <2>2. ASSUME NEW r, r = C PROVE Truthful(r)'
    BY <1>4, <1>14, <2>2 DEF Truthful
  <2>3. ASSUME NEW r \in ToSet(M) PROVE Truthful(r)'
    BY <1>4, <1>7, <1>12, <2>3 DEF Truthful
  <2>4. ASSUME NEW r \in ToSet(S) PROVE Truthful(r)'
    <3>1. r = Y /\ current' = current
      BY <1>5, <1>9, <1>12, <2>4
    <3>2. QED BY <1>4, <1>14, <3>1 DEF Truthful
  <2>5. QED BY <1>13, <2>1, <2>2, <2>3, <2>4
<1>16. P \in Told' /\ About(P, id[s]) /\ C \in Told'
  BY <1>13, <1>14 DEF About
<1>17. \A g \in owned[s] : \E r \in Told' : Maps(r, id[s], g)
  <2>1. ASSUME NEW g \in owned[s] PROVE \E r \in Told' : Maps(r, id[s], g)
    <3>1. [kind |-> "map", pid |-> id[s], page |-> g] \in Told'
      BY <1>12, <1>13
    <3>2. Maps([kind |-> "map", pid |-> id[s], page |-> g], id[s], g)
      BY DEF Maps
    <3>3. QED BY <3>1, <3>2
  <2>2. QED BY <2>1
<1>18. Ordered(pending', DOMAIN processes)
  <2>1. pending'[1] = P /\ 1 \in 1 .. Len(pending') /\ Len(pending') \in Nat
    <3>1. <<P>> \in Seq(Record) /\ M \in Seq(Record) /\ S \in Seq(Record) /\ <<C>> \in Seq(Record)
      BY <1>12
    <3>2. <<P>> \o M \in Seq(Record) /\ (<<P>> \o M)[1] = P /\ Len(<<P>> \o M) >= 1
      BY <3>1
    <3>3. /\ <<P>> \o M \o <<C>> \in Seq(Record) /\ (<<P>> \o M \o <<C>>)[1] = P
          /\ Len(<<P>> \o M \o <<C>>) >= 1
      BY <3>1, <3>2
    <3>4. /\ (<<P>> \o M \o <<C>> \o S)[1] = P
          /\ Len(<<P>> \o M \o <<C>> \o S) >= 1
      BY <3>1, <3>3
    <3>5. QED BY <1>11, <1>13, <3>4
  <2>2. ASSUME NEW k \in 1 .. Len(pending'), pending'[k].kind = "map"
        PROVE  \E m \in 1 .. (k - 1) : About(pending'[m], pending'[k].pid)
    <3>1. pending'[k] \in Told'
      BY DEF Told, ToSet
    <3>2. pending'[k].pid = id[s]
      BY <1>12, <1>13, <1>14, <2>2, <3>1
    <3>3. k # 1
      BY <1>14, <2>1, <2>2
    <3>4. 1 \in 1 .. (k - 1)
      BY <2>1, <3>3
    <3>5. QED BY <1>16, <2>1, <3>2, <3>4
  <2>3. QED BY <2>2 DEF Ordered
<1>19. Counting'
  BY <1>4, <1>14, <1>16 DEF Counting, NotSpawning
<1>20. \A i \in Tasks : ~Unused(i)' =>
         \/ \E r \in Told' : About(r, id'[i])
         \/ ~Unused(i) /\ UNCHANGED <<id[i], parent[i], program[i], state[i]>>
  <2>1. ASSUME NEW i \in Tasks, i # s, ~Unused(i)'
        PROVE  ~Unused(i) /\ UNCHANGED <<id[i], parent[i], program[i], state[i]>>
    BY <1>4, <1>6, <1>7, <2>1
  <2>2. About(P, id'[s])
    BY <1>4, <1>16
  <2>3. QED BY <1>16, <2>1, <2>2
<1>21. \A i \in Tasks : ~Unused(i) => ~Unused(i)' /\ id'[i] = id[i]
  BY <1>4, <1>7
<1>22. DOMAIN processes = {} \/ id'[current'] = id[current]
  <2>1. CASE spawning.by = "boot"
    BY <1>2, <1>9, <2>1, QuietMirror
  <2>2. CASE spawning.by = "task"
    BY <1>4, <1>9, <2>2
  <2>3. QED BY <1>5, <2>1, <2>2
<1>23. \A i \in Tasks : Alive(i)' =>
         \/ Alive(i) /\ UNCHANGED <<id[i], owned[i]>>
         \/ id'[i] \notin DOMAIN processes /\ \A g \in owned'[i] : \E r \in Told' : Maps(r, id'[i], g)
  <2>1. ASSUME NEW i \in Tasks, i # s, Alive(i)'
        PROVE  Alive(i) /\ UNCHANGED <<id[i], owned[i]>>
    BY <1>4, <1>7, <2>1
  <2>2. id'[s] \notin DOMAIN processes /\ \A g \in owned'[s] : \E r \in Told' : Maps(r, id'[s], g)
    BY <1>4, <1>10, <1>17
  <2>3. QED BY <2>1, <2>2
<1>24. \A i \in Tasks : Alive(i) => Alive(i)' /\ id'[i] = id[i]
  BY <1>4, <1>7
<1>25. QED
  BY <1>1, <1>2, <1>11, <1>13, <1>15, <1>18, <1>19, <1>20, <1>21, <1>22, <1>23, <1>24, Reports

\* What exit does to the task table, if it does not stop the kernel.
LEMMA ExitEffect ==
  ASSUME LabInv, InUserMode, NEW code \in Nat, task_exit(code), panic' = "none"
  PROVE  /\ current' \in Tasks /\ current' # current
         /\ UNCHANGED <<id, parent, program, spawning>>
         /\ state'[current] = Reaped(current)
         /\ \A i \in Tasks \ {current} :
              /\ state'[i] = IF i \in Waiters(current) THEN PROCESS_READY ELSE state[i]
              /\ owned'[i] = owned[i]
<1>1. current \in Tasks /\ state[current] = PROCESS_READY /\ panic = "none"
  BY UserMode
<1>2. PICK next \in Tasks :
        /\ NextReady(AfterExit(current), next)
        /\ current' = next
        /\ state' = [AfterExit(current) EXCEPT ![current] = Reaped(current)]
        /\ release_pages(current)
        /\ UNCHANGED <<id, parent, program, spawning>>
  BY DEF task_exit, Panic, select_task
<1>3. AfterExit(current)[next] = PROCESS_READY
  BY <1>2, NextReadyIsReady
<1>4. next # current
  BY <1>3 DEF AfterExit, PROCESS_EXITED, PROCESS_READY
<1>5. \A i \in Tasks \ {current} : owned'[i] = owned[i]
  BY <1>1, <1>2, ReleaseEffect
<1>6. QED BY <1>1, <1>2, <1>4, <1>5 DEF AfterExit

\* exit reports the parent it wakes and the task it ends, gone or a zombie.
LEMMA ExitReports ==
  ASSUME MirrorInv, trace_exit
  PROVE  MirrorInv'
<1>0. PICK old : old = current
  OBVIOUS
<1> DEFINE W == Waiters(old)
           n == Cardinality(W)
           f == SetToSeq(W)
           A == [k \in 1 .. n |-> Process(f[k], PROCESS_READY, old)]
           O == Process(old, Reaped(old), current')
           C == Memory(free_count')
<1>1. /\ InUserMode /\ Quiet /\ LabInv' /\ LabInv
      /\ panic = "none" /\ spawning = NotSpawning
      /\ old \in Tasks /\ current' \in Tasks /\ state[old] = PROCESS_READY
  <2>1. InUserMode /\ Quiet /\ LabInv
    BY DEF trace_exit, sys_exit, user_fault, MirrorInv
  <2>2. LabInv'
    BY LabKept DEF trace_exit, Next
  <2>3. QED BY <1>0, <2>1, <2>2, UserMode DEF LabInv, TypeOK
<1>2. CASE panic' # "none"
  BY <1>1, <1>2, StopStep DEF trace_exit, Writes
<1>3. CASE panic' = "none"
  <2>1. PICK code \in Nat : task_exit(code)
    <3>1. \A code \in Statuses : code \in Nat
      BY LabAssumption
    <3>2. \A vector \in Vectors : 128 + vector \in Nat
      BY LabAssumption
    <3>3. QED BY <3>1, <3>2 DEF trace_exit, sys_exit, user_fault
  <2>2. /\ current' # old /\ UNCHANGED <<id, parent, program, spawning>>
        /\ state'[old] = Reaped(old)
        /\ \A i \in Tasks \ {old} :
             /\ state'[i] = IF i \in W THEN PROCESS_READY ELSE state[i]
             /\ owned'[i] = owned[i]
    BY <1>0, <1>1, <1>3, <2>1, ExitEffect
  <2>3. W \subseteq Tasks \ {old} /\ \A i \in W : state[i] = PROCESS_WAITING
    BY <1>1 DEF Waiters, PROCESS_READY, PROCESS_WAITING
  <2>4. Reaped(old) \in {PROCESS_UNUSED, PROCESS_EXITED}
    BY DEF Reaped
  <2>5. /\ \A i \in Tasks \ {old} : (Alive(i)' <=> Alive(i)) /\ (Unused(i)' <=> Unused(i))
        /\ ~Alive(old)' /\ ~Unused(old) /\ (Unused(old)' <=> Reaped(old) = PROCESS_UNUSED)
        /\ \A i \in Tasks : Alive(i) => ~Unused(i)
    BY <1>1, <2>2, <2>3, <2>4 DEF Alive, Unused, PROCESS_UNUSED, PROCESS_READY,
                                  PROCESS_WAITING, PROCESS_EXITED
  <2>6. /\ UNCHANGED mirror /\ pending' = A \o <<O, C>>
    BY <1>0, <1>3 DEF trace_exit, Writes, ExitRecords
  <2>7. /\ n \in Nat /\ f \in [1 .. n -> W]
        /\ \A x \in W : \E k \in 1 .. n : f[k] = x
    <3>1. IsFiniteSet(Tasks)
      BY FS_Interval, LabAssumption DEF Tasks
    <3>2. IsFiniteSet(W)
      BY <2>3, <3>1, FS_Subset
    <3>3. QED BY <3>2, Enumerates
  <2>8. /\ O \in Record /\ C \in Record
        /\ \A i \in W : Process(i, PROCESS_READY, old) \in Record
    <3>1. free_count' \in Nat
      BY <1>1 DEF LabInv, TypeOK, PageTypeOK
    <3>2. PROCESS_READY \in ProcessState /\ Reaped(old) \in ProcessState
      BY <2>4 DEF ProcessState
    <3>3. QED BY <1>1, <2>3, <3>1, <3>2, RecordTyped
  <2>9. A \in Seq(Record) /\ ToSet(A) = {Process(i, PROCESS_READY, old) : i \in W}
    <3> DEFINE R(i) == Process(i, PROCESS_READY, old)
    <3> HIDE DEF R, n, f, W
    <3>1. \A i \in W : R(i) \in Record
      BY <2>8 DEF R
    <3>2. A = [k \in 1 .. n |-> R(f[k])]
      BY DEF R
    <3> HIDE DEF A
    <3>3. /\ [k \in 1 .. n |-> R(f[k])] \in Seq(Record)
          /\ Len([k \in 1 .. n |-> R(f[k])]) = n
      BY <2>7, <3>1
    <3>4. \A k \in 1 .. n : A[k] = R(f[k])
      BY <3>2
    <3>5. Len(A) = n
      BY <3>2, <3>3
    <3>6. ToSet(A) = {R(i) : i \in W}
      BY <2>7, <3>4, <3>5 DEF ToSet
    <3>7. QED BY <3>2, <3>3, <3>6 DEF R
  <2>10. /\ O.kind = "process" /\ O.pid = id[old] /\ O.parent = parent[old]
         /\ O.program = program[old] /\ O.state = Reaped(old) /\ ~O.current
         /\ C.kind = "memory" /\ C.free = free_count'
    BY <2>2 DEF Process, Memory
  <2>11. ASSUME NEW i \in W
         PROVE  LET P == Process(i, PROCESS_READY, old) IN
                /\ P.kind = "process" /\ P.pid = id[i] /\ P.parent = parent[i]
                /\ P.program = program[i] /\ P.state = PROCESS_READY /\ ~P.current
    BY <2>3, <2>11 DEF Process
  <2> HIDE DEF A, O, C, W, n, f
  <2>12. pending' \in Seq(Record) /\ Told' = ToSet(A) \cup {O, C}
    <3>1. PICK t : t = <<O, C>> /\ t \in Seq(Record)
      <4>1. \A x, y \in Record : <<x, y>> \in Seq(Record)
        OBVIOUS
      <4>2. QED BY <2>8, <4>1
    <3>2. ToSet(t) = {O, C}
      <4>1. Len(t) = 2 /\ t[1] = O /\ t[2] = C
        BY <3>1
      <4>2. QED BY <4>1 DEF ToSet
    <3>3. pending' = A \o t
      BY <2>6, <3>1
    <3>4. A \o t \in Seq(Record)
      BY <2>9, <3>1
    <3>5. ToSet(A \o t) = ToSet(A) \cup ToSet(t)
      <4>1. A \in Seq(Record) /\ t \in Seq(Record)
        BY <2>9, <3>1
      <4>2. QED BY <4>1, ElementsOfConcat, Zenon
    <3>6. QED BY <3>2, <3>3, <3>4, <3>5 DEF Told
  <2>13. \A i \in W : \E r \in Told' : About(r, id[i])
    BY <2>9, <2>11, <2>12 DEF About
  <2>14. O \in Told' /\ About(O, id[old]) /\ C \in Told'
    BY <2>10, <2>12 DEF About
  <2>15. \A r \in Told' : Truthful(r)'
    <3>1. ASSUME NEW r, r = C PROVE Truthful(r)'
      BY <2>10, <3>1 DEF Truthful
    <3>2. ASSUME NEW r, r = O PROVE Truthful(r)'
      <4>1. CASE Reaped(old) = PROCESS_UNUSED
        <5>1. ASSUME NEW i \in Tasks, ~Unused(i)' PROVE id'[i] # r.pid
          <6>1. i # old /\ ~Unused(i)
            BY <2>5, <4>1, <5>1
          <6>2. QED BY <1>1, <2>2, <2>5, <2>10, <3>2, <6>1, OneByName
        <5>2. QED BY <2>10, <3>2, <4>1, <5>1 DEF Truthful
      <4>2. CASE Reaped(old) # PROCESS_UNUSED
        <5>1. ~Unused(old)' /\ Says(r, old)'
          BY <2>2, <2>5, <2>10, <3>2, <4>2 DEF Says
        <5>2. QED BY <1>1, <2>10, <3>2, <5>1 DEF Truthful
      <4>3. QED BY <4>1, <4>2
    <3>3. ASSUME NEW r \in ToSet(A) PROVE Truthful(r)'
      <4>1. PICK i \in W : r = Process(i, PROCESS_READY, old)
        BY <2>9, <3>3
      <4>2. /\ r.kind = "process" /\ r.pid = id[i] /\ r.parent = parent[i]
            /\ r.program = program[i] /\ r.state = PROCESS_READY /\ ~r.current
        BY <2>11, <4>1
      <4>3. i \in Tasks \ {old} /\ ~Unused(i)' /\ state'[i] = PROCESS_READY
        BY <2>2, <2>3 DEF Unused, PROCESS_READY, PROCESS_UNUSED
      <4>4. Says(r, i)'
        BY <2>2, <4>2, <4>3 DEF Says
      <4>5. QED BY <4>2, <4>3, <4>4 DEF Truthful
    <3>4. QED BY <2>12, <3>1, <3>2, <3>3
  <2>16. \A r \in Told' : r.kind # "map"
    <3>1. \A r \in ToSet(A) : r.kind = "process"
      BY <2>9, <2>11
    <3>2. QED BY <2>10, <2>12, <3>1
  <2>17. Ordered(pending', DOMAIN processes)
    BY <2>12, <2>16 DEF Ordered, Told, ToSet
  <2>18. Counting'
    BY <1>1, <2>2, <2>10, <2>14 DEF Counting, NotSpawning
  <2>19. \A i \in Tasks : ~Unused(i)' =>
           \/ \E r \in Told' : About(r, id'[i])
           \/ ~Unused(i) /\ UNCHANGED <<id[i], parent[i], program[i], state[i]>>
    <3>1. ASSUME NEW i \in Tasks, ~Unused(i)', i # old, i \notin W
          PROVE  ~Unused(i) /\ UNCHANGED <<id[i], parent[i], program[i], state[i]>>
      BY <2>2, <2>5, <3>1
    <3>2. QED BY <2>2, <2>13, <2>14, <3>1
  <2>20. \A i \in Tasks : ~Unused(i) =>
           (\E r \in Told' : About(r, id[i])) \/ (~Unused(i)' /\ id'[i] = id[i])
    BY <2>2, <2>5, <2>14
  <2>21. \A i \in Tasks : Alive(i)' => Alive(i) /\ UNCHANGED <<id[i], owned[i]>>
    BY <2>2, <2>5
  <2>22. \E r \in Told' : About(r, id[current])
    BY <1>0, <2>14
  <2>23. QED
    BY <1>1, <1>3, <2>6, <2>12, <2>15, <2>16, <2>17, <2>18, <2>19, <2>20, <2>21, <2>22, Reports
<1>4. QED BY <1>2, <1>3

\* One process record is enough for a handler that changes one process.
LEMMA OneRecord ==
  ASSUME MirrorInv, Quiet, InUserMode, panic' = "none", LabInv', UNCHANGED mirror,
         UNCHANGED <<id, parent, program, owned, free_count, spawning>>,
         NEW h \in Tasks, NEW st \in ProcessState, NEW cur \in Tasks,
         ~Unused(h), Alive(h)' => Alive(h), st = state'[h], cur = h => st # PROCESS_READY,
         pending' = <<Process(h, st, cur)>>,
         \A i \in Tasks \ {h} : state'[i] = state[i],
         current' = current \/ current = h
  PROVE  MirrorInv'
<1> DEFINE P == Process(h, st, cur)
<1>1. panic = "none" /\ spawning = NotSpawning /\ LabInv
  BY DEF InUserMode, MirrorInv
<1>2. P \in Record
  BY <1>1, RecordTyped
<1>3. /\ P.kind = "process" /\ P.pid = id[h] /\ P.parent = parent[h] /\ P.program = program[h]
      /\ P.state = state'[h] /\ ~P.current
  BY DEF Process
<1>4. PICK x : x = P
  OBVIOUS
<1>5. pending' \in Seq(Record) /\ Told' = {x}
  BY <1>2, <1>4, ElementsOfOne DEF Told
<1> HIDE DEF P
<1>6. \A i \in Tasks \ {h} : (Alive(i)' <=> Alive(i)) /\ (Unused(i)' <=> Unused(i))
  BY DEF Alive, Unused
<1>7. Truthful(x)'
  <2>1. CASE Unused(h)'
    <3>1. ASSUME NEW i \in Tasks, ~Unused(i)' PROVE id'[i] # x.pid
      BY <1>1, <1>3, <1>4, <1>6, <2>1, <3>1, OneByName
    <3>2. QED BY <1>3, <1>4, <2>1, <3>1 DEF Truthful, Unused
  <2>2. CASE ~Unused(h)'
    <3>1. Says(x, h)'
      BY <1>3, <1>4 DEF Says
    <3>2. QED BY <1>3, <1>4, <2>2, <3>1 DEF Truthful
  <2>3. QED BY <2>1, <2>2
<1>8. About(x, id[h]) /\ x.kind # "map"
  BY <1>3, <1>4 DEF About
<1>9. Ordered(pending', DOMAIN processes)
  BY <1>5, <1>8 DEF Ordered, Told, ToSet
<1>10. Counting'
  <2>1. free = free_count
    BY <1>1, QuietMirror DEF Reported, Counting
  <2>2. QED BY <1>1, <2>1 DEF Counting, NotSpawning, mirror
<1>11. \A i \in Tasks : ~Unused(i)' =>
         \/ \E r \in Told' : About(r, id'[i])
         \/ ~Unused(i) /\ UNCHANGED <<id[i], parent[i], program[i], state[i]>>
  BY <1>5, <1>6, <1>8
<1>12. \A i \in Tasks : ~Unused(i) =>
         (\E r \in Told' : About(r, id[i])) \/ (~Unused(i)' /\ id'[i] = id[i])
  BY <1>5, <1>6, <1>8
<1>13. \A i \in Tasks : Alive(i)' => Alive(i) /\ UNCHANGED <<id[i], owned[i]>>
  BY <1>6
<1>14. id'[current'] = id[current] \/ \E r \in Told' : About(r, id[current])
  BY <1>5, <1>8
<1>15. QED
  BY <1>1, <1>5, <1>7, <1>8, <1>9, <1>10, <1>11, <1>12, <1>13, <1>14, Reports

\* wait reports the zombie it reaps, or its caller, which now waits.
LEMMA WaitReports ==
  ASSUME MirrorInv, trace_wait
  PROVE  MirrorInv'
<1>1. /\ InUserMode /\ Quiet /\ LabInv' /\ LabInv
      /\ panic = "none" /\ current \in Tasks /\ state[current] = PROCESS_READY
  <2>1. InUserMode /\ Quiet /\ LabInv
    BY DEF trace_wait, wait_reaps, wait_blocks, wait_refused, MirrorInv
  <2>2. LabInv'
    BY LabKept DEF trace_wait, Next
  <2>3. QED BY <2>1, <2>2, UserMode
<1>2. CASE panic' # "none"
  BY <1>1, <1>2, StopStep DEF trace_wait, Writes
<1>3. CASE panic' = "none"
  <2>1. PICK pid \in Pids :
          \/ \E i \in Tasks : /\ FirstChild(i, pid) /\ wait_reaps(pid)
                              /\ Writes(<<Process(i, PROCESS_UNUSED, current)>>)
          \/ wait_blocks(pid) /\ Writes(<<Process(current, PROCESS_WAITING, current)>>)
          \/ wait_refused(pid) /\ Writes(<< >>)
    BY DEF trace_wait
  <2>2. ASSUME NEW i \in Tasks, FirstChild(i, pid), wait_reaps(pid),
               Writes(<<Process(i, PROCESS_UNUSED, current)>>)
        PROVE  MirrorInv'
    <3>1. PICK h \in Tasks : /\ FirstChild(h, pid) /\ state[h] = PROCESS_EXITED
                             /\ state' = [state EXCEPT ![h] = PROCESS_UNUSED]
      BY <2>2 DEF wait_reaps
    <3>2. h = i
      <4>1. ~Unused(h) /\ ~Unused(i) /\ id[h] = id[i]
        BY <2>2, <3>1 DEF FirstChild, Child, Unused
      <4>2. QED BY <1>1, <4>1, OneByName
    <3>3. /\ state'[i] = PROCESS_UNUSED /\ \A j \in Tasks \ {i} : state'[j] = state[j]
          /\ ~Unused(i) /\ ~Alive(i)'
      BY <1>1, <3>1, <3>2 DEF LabInv, TypeOK, Unused, Alive, PROCESS_UNUSED, PROCESS_READY,
                              PROCESS_WAITING, PROCESS_EXITED
    <3>4. /\ UNCHANGED <<id, parent, program, owned, free_count, spawning, current>>
          /\ UNCHANGED mirror /\ pending' = <<Process(i, PROCESS_UNUSED, current)>>
      BY <1>3, <2>2 DEF wait_reaps, Writes, family, spaces, cpu, pages
    <3>5. PROCESS_UNUSED \in ProcessState /\ PROCESS_UNUSED # PROCESS_READY
      BY DEF ProcessState, PROCESS_UNUSED, PROCESS_READY
    <3>6. QED BY <1>1, <1>3, <3>3, <3>4, <3>5, OneRecord
  <2>3. ASSUME wait_blocks(pid), Writes(<<Process(current, PROCESS_WAITING, current)>>)
        PROVE  MirrorInv'
    <3>1. /\ state' = [state EXCEPT ![current] = PROCESS_WAITING]
          /\ UNCHANGED <<id, parent, program, owned, free_count, spawning>>
      BY <1>1, <1>3, <2>3 DEF wait_blocks, Panic, family, spaces, pages
    <3>2. UNCHANGED mirror /\ pending' = <<Process(current, PROCESS_WAITING, current)>>
      BY <1>3, <2>3 DEF Writes
    <3>3. /\ state'[current] = PROCESS_WAITING /\ \A j \in Tasks \ {current} : state'[j] = state[j]
          /\ ~Unused(current) /\ Alive(current)
      BY <1>1, <3>1 DEF LabInv, TypeOK, Unused, Alive, PROCESS_UNUSED, PROCESS_READY
    <3>4. PROCESS_WAITING \in ProcessState /\ PROCESS_WAITING # PROCESS_READY
      BY DEF ProcessState, PROCESS_WAITING, PROCESS_READY
    <3>5. QED BY <1>1, <1>3, <3>1, <3>2, <3>3, <3>4, OneRecord
  <2>4. QED BY <1>1, <2>1, <2>2, <2>3, WaitRefusedStep
<1>4. QED BY <1>2, <1>3

-----------------------------------------------------------------------------
(* The mirror is right.                                                    *)

\* An empty mirror is right about a kernel that has just booted.
LEMMA MirrorInit == ObservationInit => MirrorInv
<1> SUFFICES ASSUME ObservationInit PROVE MirrorInv
  OBVIOUS
<1>1. LabInv /\ panic = "none"
  BY LabInit DEF ObservationInit, Init
<1>2. pending = << >> /\ processes = << >> /\ maps = << >>
  BY DEF ObservationInit
<1>3. Told = {} /\ DOMAIN processes = {} /\ DOMAIN maps = {}
  BY <1>2 DEF Told, ToSet
<1>4. MirrorTyped /\ LivePagesApart
  BY <1>2, <1>3 DEF MirrorTyped, LivePagesApart
<1>5. \A i \in Tasks : Unused(i) /\ ~Alive(i)
  BY DEF ObservationInit, Init, Unused, Alive, PROCESS_UNUSED, PROCESS_READY, PROCESS_WAITING
<1>6. Listing /\ Marking /\ Paging
  BY <1>2, <1>3, <1>5 DEF Listing, Marking, Paging, Ordered
<1>7. Counting
  BY <1>2 DEF ObservationInit, Init, Counting, NotSpawning
<1>8. QED BY <1>1, <1>3, <1>4, <1>6, <1>7 DEF MirrorInv, Reported

\* Every handler and every record keeps it right.
LEMMA MirrorNext == MirrorInv /\ [ObservationNext]_observed => MirrorInv'
<1> SUFFICES ASSUME MirrorInv, [ObservationNext]_observed PROVE MirrorInv'
  OBVIOUS
<1>1. CASE trace_spawn
  BY <1>1, SpawnReports, AllocReports, RefusedStep, SpawnFailsReports, SpawnDoneReports DEF trace_spawn
<1>2. CASE trace_tick \/ trace_exit \/ trace_wait \/ trace_inspect \/ trace_syscall
  BY <1>2, TickReports, ExitReports, WaitReports, InspectReports, SyscallStep
<1>3. CASE apply
  BY <1>3, ApplyStep
<1>4. CASE UNCHANGED observed
  <2>1. UNCHANGED vars /\ UNCHANGED <<pending, processes, maps, free>>
    BY <1>4 DEF observed, mirror
  <2>2. LabInv'
    BY <2>1, LabKept
  <2>3. UNCHANGED <<state, id, parent, program, owned, current, free_count, spawning, panic, tables>>
    BY <2>1 DEF vars, family, spaces, cpu, pages
  <2>4. (MirrorTyped /\ LivePagesApart)'
    BY <2>1 DEF MirrorInv, MirrorTyped, LivePagesApart
  <2>5. Told' = Told
    BY <2>1 DEF Told
  <2>6. /\ \A r : Truthful(r)' <=> Truthful(r)
        /\ \A i : Unused(i)' <=> Unused(i)
        /\ \A i : Alive(i)' <=> Alive(i)
        /\ \A r, i : Says(r, i)' <=> Says(r, i)
    BY <2>3 DEF Truthful, Unused, Alive, Says
  <2>7. Reported => Reported'
    <3>1. Listing => Listing'
      BY <2>1, <2>3, <2>5, <2>6 DEF Listing, Says
    <3>2. Marking => Marking'
      BY <2>1, <2>3, <2>5 DEF Marking
    <3>3. Paging => Paging'
      BY <2>1, <2>3, <2>5, <2>6 DEF Paging, PagesOf
    <3>4. Counting => Counting'
      BY <2>1, <2>3, <2>5 DEF Counting, Held
    <3>5. QED BY <2>5, <2>6, <3>1, <3>2, <3>3, <3>4 DEF Reported
  <2>8. QED BY <2>1, <2>2, <2>3, <2>4, <2>7 DEF MirrorInv, Quiet
<1>5. CASE Halted /\ UNCHANGED <<pending, mirror>>
  BY <1>4, <1>5 DEF Halted, observed
<1>6. CASE trace_panic
  <2>1. panic' # "none" /\ Next
    BY <1>6 DEF trace_panic, unexpected_exception, Panic, Next
  <2>2. LabInv'
    BY <2>1, LabKept
  <2>3. QED BY <1>6, <2>1, <2>2, StopStep DEF trace_panic, Writes
<1>7. QED BY <1>1, <1>2, <1>3, <1>4, <1>5, <1>6 DEF ObservationNext

\* Once a handler's records have been applied, the page shows the task table.
THEOREM MirrorCorrect == ObservationSpec => []MirrorFollowsTable
<1>1. MirrorInv => MirrorFollowsTable
  <2> SUFFICES ASSUME MirrorInv, Quiet, InUserMode
               PROVE  /\ DOMAIN processes = {id[i] : i \in {j \in Tasks : ~Unused(j)}}
                      /\ free = free_count
                      /\ \A i \in Tasks : ~Unused(i) =>
                           /\ Says(processes[id[i]], i)
                           /\ (processes[id[i]].current => i = current)
                           /\ Alive(i) => PagesOf(id[i]) = owned[i]
    BY DEF MirrorFollowsTable, Says
  <2>1. panic = "none" /\ spawning = NotSpawning
    BY DEF InUserMode
  <2>2. DOMAIN processes = {id[i] : i \in {j \in Tasks : ~Unused(j)}}
    <3>1. /\ \A i \in Tasks : ~Unused(i) => id[i] \in DOMAIN processes
          /\ \A p \in DOMAIN processes : \E i \in Tasks : ~Unused(i) /\ id[i] = p
      BY <2>1, QuietMirror
    <3>2. QED BY <3>1
  <2>3. free = free_count
    BY <2>1, QuietMirror DEF Reported, Counting
  <2>4. ~Unused(current) /\ current \in Tasks
    BY UserMode DEF MirrorInv, Unused, PROCESS_READY, PROCESS_UNUSED
  <2>5. ASSUME NEW i \in Tasks, ~Unused(i), processes[id[i]].current PROVE i = current
    BY <2>1, <2>4, <2>5, QuietMirror, OneByName DEF MirrorInv
  <2>6. QED BY <2>1, <2>2, <2>3, <2>5, QuietMirror
<1>2. QED BY <1>1, MirrorInit, MirrorNext, PTL DEF ObservationSpec

\* Between any two records, no page is shown under two living processes.
THEOREM ApartCorrect == ObservationSpec => []LivePagesApart
<1>1. MirrorInv => LivePagesApart
  BY DEF MirrorInv
<1>2. QED BY <1>1, MirrorInit, MirrorNext, PTL DEF ObservationSpec

=============================================================================
