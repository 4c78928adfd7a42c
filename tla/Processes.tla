------------------------------ MODULE Processes ------------------------------
(***************************************************************************)
(* SYS_SPAWN, SYS_EXIT and SYS_WAIT of abi.h as the programs that call     *)
(* them see them, without slots, memory, address spaces or an order of     *)
(* scheduling.  A process is known by a pid that is never given out again; *)
(* it stays until its parent has been told its status, which happens once; *)
(* and one process runs, which is ready.                                   *)
(***************************************************************************)
EXTENDS Integers

CONSTANTS
  Programs,             \* PROGRAM_COUNT
  Codes                 \* what a process can end with

VARIABLES
  processes,   \* by pid, those that have been created and not waited for
  running,     \* the pid that runs, 0 before init does
  issued,      \* the last pid that was given out
  stopped      \* why the kernel has stopped, "none" while it runs

processVars == <<processes, running, issued, stopped>>

New(parent, program) ==
  [parent |-> parent, program |-> program, state |-> "ready",
   waiting_for |-> 0, status |-> 0, result |-> 0]

me       == processes[running]
Ready(p) == p \in DOMAIN processes /\ processes[p].state = "ready"

With(table, pid, process) ==
  [p \in DOMAIN table \cup {pid} |-> IF p = pid THEN process ELSE table[p]]
Without(table, pid) == [p \in DOMAIN table \ {pid} |-> table[p]]

\* A call of the running process returns v.
Answered(v) == With(processes, running, [me EXCEPT !.result = v])

\* Another ready process runs, or the same one.
Dispatch == running' \in {p \in DOMAIN processes' : processes'[p].state = "ready"}

Init ==
  /\ processes = [p \in {} |-> New(0, 0)]
  /\ running = 0 /\ issued = 0 /\ stopped = "none"

Boot ==
  /\ issued = 0
  /\ processes' = With(processes, 1, New(0, 0))
  /\ running' = 1 /\ issued' = 1
  /\ UNCHANGED stopped

\* Init may start shells, and a shell the programs that follow it.
MaySpawn(program) ==
  \/ me.program = 0 /\ program = 1
  \/ me.program = 1 /\ program \in 2 .. (Programs - 1)

Spawn(program) ==
  /\ MaySpawn(program)
  /\ issued' = issued + 1
  /\ processes' = With(Answered(issued'), issued', New(running, program))
  /\ UNCHANGED <<running, stopped>>

\* For want of a slot or of memory; a pid may be lost.
SpawnFails(program) ==
  /\ MaySpawn(program)
  /\ processes' = Answered(-5)
  /\ issued' \in {issued, issued + 1}
  /\ UNCHANGED <<running, stopped>>

\* A spawn that is not the caller's right, a wait for no child of its own.
Refused == processes' = Answered(-3) /\ UNCHANGED <<running, issued, stopped>>

Inspect == processes' = Answered(0) /\ UNCHANGED <<running, issued, stopped>>

Preempt == UNCHANGED <<processes, issued, stopped>> /\ Dispatch

\* The parent waits for this very process.
Awaited ==
  /\ me.parent \in DOMAIN processes
  /\ processes[me.parent].state = "waiting" /\ processes[me.parent].waiting_for = running

Exit(code) ==
  /\ me.program > 1
  /\ processes' =
       IF Awaited
       THEN With(Without(processes, running), me.parent,
                 [processes[me.parent] EXCEPT !.state = "ready", !.waiting_for = 0, !.result = code])
       ELSE With(processes, running, [me EXCEPT !.state = "exited", !.status = code])
  /\ Dispatch
  /\ UNCHANGED <<issued, stopped>>

Child(pid) == pid \in DOMAIN processes /\ processes[pid].parent = running

\* The child has exited: its status is returned, and it is gone.
Reap(pid) ==
  /\ Child(pid) /\ processes[pid].state = "exited"
  /\ processes' = Without(Answered(processes[pid].status), pid)
  /\ UNCHANGED <<running, issued, stopped>>

Block(pid) ==
  /\ Child(pid) /\ processes[pid].state # "exited"
  /\ processes' = With(processes, running, [me EXCEPT !.state = "waiting", !.waiting_for = pid])
  /\ Dispatch
  /\ UNCHANGED <<issued, stopped>>

\* The kernel stops if init cannot be created, if init or a shell exits, and
\* at an exception of the running process that it does not handle.
Stop ==
  /\ \/ issued = 0 /\ stopped' = "LAB init creation failed"
     \/ Ready(running) /\ me.program <= 1 /\ stopped' = "LAB init or shell exited"
     \/ Ready(running) /\ stopped' = "unexpected CPU exception"
  /\ UNCHANGED <<processes, running, issued>>

Next ==
  /\ stopped = "none"
  /\ \/ Boot \/ Stop
     \/ /\ Ready(running)
        /\ \/ \E program \in 1 .. Programs : Spawn(program) \/ SpawnFails(program)
           \/ \E code \in Codes : Exit(code)
           \/ \E pid \in DOMAIN processes : Reap(pid) \/ Block(pid)
           \/ Refused \/ Inspect \/ Preempt

Spec == Init /\ [][Next]_processVars
=============================================================================
