---------------------------- MODULE Observation ----------------------------
(***************************************************************************)
(* What the host believes about the kernel.  Every handler of              *)
(* kernel/laboratory.c writes observation records to COM2, and             *)
(* Guest._event (tools/lab_guest.py) rebuilds the processes, their pages   *)
(* and the free count from them, one record at a time.  This module adds   *)
(* the records to the actions of Laboratory, and the mirror.               *)
(*                                                                         *)
(* The mirror never acts on the kernel and the channel keeps its order, so *)
(* it is enough to let a handler run when the records of the one before    *)
(* have been applied.  Records that only enter the event log (boot, spawn, *)
(* wait, exit, fault, snapshot) are left to Console.  maps is keyed by     *)
(* virtual address in the code; a process never moves a page, so a set of  *)
(* pages says the same.  The data page's own record comes and goes with    *)
(* the map records.  A handler that stops the kernel writes no more here.  *)
(***************************************************************************)
EXTENDS Laboratory, SequencesExt

VARIABLES
  pending,      \* records written and not yet applied
  processes,    \* Guest.processes: a function from the pids that are listed
  maps,         \* Guest.maps: the pages recorded for a pid
  free          \* Guest.free

mirror == <<processes, maps, free>>
observed == <<vars, pending, mirror>>

-----------------------------------------------------------------------------
(* The records.                                                            *)

\* process_event: task i, in state st, while cur is the current task.
Process(i, st, cur) ==
  [kind |-> "process", pid |-> id[i], parent |-> parent[i], program |-> program[i],
   state |-> st, current |-> i = cur /\ st = PROCESS_READY]

Memory(count) == [kind |-> "memory", free |-> count]
Schedule(i)   == [kind |-> "schedule", pid |-> id[i]]
Syscall       == <<[kind |-> "syscall", pid |-> id[current]]>>

\* mappings_event: nothing for a task whose address space is gone.
Mappings(i) ==
  IF root[i] = 0 THEN << >>
  ELSE [k \in 1 .. Cardinality(owned[i]) |->
          [kind |-> "map", pid |-> id[i], page |-> SetToSeq(owned[i])[k]]]

\* Mutant: the parent that exit wakes is not reported.
ExitRecordsNoParent(old, next) == <<Process(old, Reaped(old), next), Memory(free_count')>>

\* task_exit: the parents it wakes, then, after the switch, the task itself.
ExitRecords(old, next) ==
  [k \in 1 .. Cardinality(Waiters(old)) |->
     Process(SetToSeq(Waiters(old))[k], PROCESS_READY, old)]
  \o <<Process(old, Reaped(old), next), Memory(free_count')>>

SpawnRecords(i) ==
  <<Process(i, PROCESS_READY, current)>> \o Mappings(i) \o <<Memory(free_count)>>
  \o IF spawning.by = "task" THEN Syscall ELSE << >>

TickRecords(next) == IF next # current THEN <<Schedule(next)>> ELSE << >>

\* inspect: every task that is not unused, in the order of the table.
InspectRecords ==
  FlattenSeq([n \in 1 .. TaskLimit |->
                IF Unused(n - 1) THEN << >>
                ELSE <<Process(n - 1, state[n - 1], current)>> \o Mappings(n - 1)])
  \o <<Memory(free_count)>>

-----------------------------------------------------------------------------
(* The handlers, with what they write.                                     *)

Writes(records) == pending' = (IF panic' = "none" THEN records ELSE << >>) /\ UNCHANGED mirror

Quiet == pending = << >>

trace_spawn ==
  /\ Quiet
  /\ \/ (\E p \in 0 .. Programs : sys_spawn(p)) /\ Writes(<< >>)
     \/ prepare_alloc /\ Writes(<< >>)
     \/ (\E p \in 0 .. Programs : sys_spawn_refused(p)) /\ Writes(Syscall)
     \/ spawn_fails /\ Writes(Syscall)
     \/ spawn_done /\ Writes(SpawnRecords(spawning.slot))

trace_tick == Quiet /\ task_tick /\ Writes(TickRecords(current'))

trace_exit ==
  /\ Quiet
  /\ (\E code \in Statuses : sys_exit(code)) \/ (\E vector \in Vectors : user_fault(vector))
  /\ Writes(ExitRecords(current, current'))

trace_wait ==
  /\ Quiet
  /\ \E pid \in Pids :
       \/ \E i \in Tasks : FirstChild(i, pid) /\ wait_reaps(pid) /\ Writes(<<Process(i, PROCESS_UNUSED, current)>>)
       \/ wait_blocks(pid) /\ Writes(<<Process(current, PROCESS_WAITING, current)>>)
       \/ wait_refused(pid) /\ Writes(<< >>)

trace_inspect == Quiet /\ sys_inspect /\ Writes(InspectRecords)

\* A stop of the kernel; the panic is written to COM1 only.
trace_panic ==
  /\ Quiet
  /\ \E vector \in Vectors : unexpected_exception(vector)
  /\ Writes(<< >>)

\* Any other call that is worth a record; what it does is in UserFiles.
trace_syscall == Quiet /\ InUserMode /\ UNCHANGED vars /\ Writes(Syscall)

-----------------------------------------------------------------------------
(* Guest._event.                                                           *)

\* dict[key] = value
Assigned(dict, key, value) ==
  [k \in {key} \cup DOMAIN dict |-> IF k = key THEN value ELSE dict[k]]

\* Mutant: a process that has gone leaves its pages behind.
ForgetsListedOnly(pid) ==
  processes' = [p \in DOMAIN processes \ {pid} |-> processes[p]] /\ UNCHANGED maps

\* processes.pop(pid, None); maps.pop(pid, None)
Forgets(pid) ==
  /\ processes' = [p \in DOMAIN processes \ {pid} |-> processes[p]]
  /\ maps' = [p \in DOMAIN maps \ {pid} |-> maps[p]]

\* schedule and syscall records: only this process is current.
OnlyCurrent(pid) == [p \in DOMAIN processes |-> [processes[p] EXCEPT !.current = p = pid]]

PagesOf(pid) == IF pid \in DOMAIN maps THEN maps[pid] ELSE {}

_event(r) ==
  \/ /\ r.kind = "process" /\ r.state = PROCESS_UNUSED
     /\ Forgets(r.pid) /\ UNCHANGED free
  \/ /\ r.kind = "process" /\ r.state # PROCESS_UNUSED
     /\ processes' = Assigned(processes, r.pid, r)
     /\ UNCHANGED <<maps, free>>
  \/ /\ r.kind = "map"
     /\ maps' = Assigned(maps, r.pid, PagesOf(r.pid) \cup {r.page})
     /\ UNCHANGED <<processes, free>>
  \/ /\ r.kind = "memory"
     /\ free' = r.free /\ UNCHANGED <<processes, maps>>
  \/ /\ r.kind \in {"schedule", "syscall"}
     /\ processes' = OnlyCurrent(r.pid) /\ UNCHANGED <<maps, free>>

apply == ~Quiet /\ _event(Head(pending)) /\ pending' = Tail(pending) /\ UNCHANGED vars

\* A new Guest has an empty mirror, and the kernel it starts has just booted.
ObservationInit ==
  /\ Init
  /\ pending = << >> /\ processes = << >> /\ maps = << >> /\ free = 0

ObservationNext ==
  \/ trace_spawn \/ trace_tick \/ trace_exit \/ trace_wait \/ trace_inspect \/ trace_panic
  \/ trace_syscall \/ apply
  \/ Halted /\ UNCHANGED <<pending, mirror>>

\* The fairness of Laboratory, and a reader that reads.
ObservationSpec ==
  /\ ObservationInit /\ [][ObservationNext]_observed
  /\ WF_observed(apply) /\ SF_observed(trace_tick)
  /\ WF_observed(Preparing /\ trace_spawn)

-----------------------------------------------------------------------------
\* What the page is shown is the task table: once the records of a handler
\* have been applied, the mirror lists exactly the processes the kernel has,
\* with their parents, programs and states, the pages of the living ones and
\* the true free count, and it marks no process as current but the one that
\* is.  Nothing but the handlers' own records keeps it so: exit and wait
\* switch tasks without a schedule record.
MirrorFollowsTable ==
  Quiet /\ InUserMode =>
    /\ DOMAIN processes = {id[i] : i \in {j \in Tasks : ~Unused(j)}}
    /\ free = free_count
    /\ \A i \in Tasks : ~Unused(i) =>
         LET shown == processes[id[i]] IN
         /\ shown.parent = parent[i] /\ shown.program = program[i] /\ shown.state = state[i]
         /\ shown.current => i = current
         /\ Alive(i) => PagesOf(id[i]) = owned[i]

\* Between any two records the page never shows a physical page under two
\* processes that have not exited, nor pages of a process it does not list:
\* a process is reported dead before its pages are reported anywhere else.
LivePagesApart ==
  /\ DOMAIN maps \subseteq DOMAIN processes
  /\ \A p, q \in DOMAIN maps :
       /\ p # q
       /\ processes[p].state # PROCESS_EXITED /\ processes[q].state # PROCESS_EXITED
       => maps[p] \cap maps[q] = {}
============================================================================
