------------------------------ MODULE PagePool ------------------------------
(***************************************************************************)
(* What page.h promises of the physical allocator, without bytes, counts   *)
(* or a search order: a fixed pool of managed frames, each of which is     *)
(* held by at most one caller at a time.  "Only a page currently           *)
(* allocated by this allocator may be freed."                              *)
(***************************************************************************)
VARIABLES
  managed,     \* the frames this allocator may ever hand out
  allocated    \* the ones it has handed out and not got back

poolVars == <<managed, allocated>>

Init == allocated = {}

Alloc(f) == /\ f \in managed \ allocated
            /\ allocated' = allocated \cup {f}
            /\ UNCHANGED managed

Free(f) == /\ f \in allocated
           /\ allocated' = allocated \ {f}
           /\ UNCHANGED managed

Next == \E f \in managed : Alloc(f) \/ Free(f)

Spec == Init /\ [][Next]_poolVars
=============================================================================
