----------------------------- MODULE AddressMap -----------------------------
(***************************************************************************)
(* What vm.h promises of address spaces, without page tables: a live space *)
(* is a partial map from pages of the lower half to a physical page with   *)
(* permissions.  Mapping a page that is mapped already is refused, and an  *)
(* operation on one space is never seen by another.                        *)
(***************************************************************************)
CONSTANTS
  Space,          \* the address_space structures callers own
  UserPage,       \* the virtual pages that may be mapped
  Translation,    \* physical page and permissions
  NotMapped

VARIABLES
  live,      \* the spaces that have been created and not destroyed
  mapping,   \* mapping[s][p] is a Translation or NotMapped
  asked      \* the vm_map under way, as a set of at most one request

mapVars == <<live, mapping, asked>>

Nothing == [p \in UserPage |-> NotMapped]

Init == live = {} /\ mapping = [s \in Space |-> Nothing] /\ asked = {}

Create(s) == /\ s \notin live
             /\ live' = live \cup {s}
             /\ UNCHANGED <<mapping, asked>>

\* Map p to t: vm_map is called, and succeeds or fails.
Ask(s, p, t) == /\ s \in live
                /\ mapping[s][p] = NotMapped
                /\ asked' = {[space |-> s, page |-> p, to |-> t]}
                /\ UNCHANGED <<live, mapping>>

Map(s, p, t) == /\ asked = {[space |-> s, page |-> p, to |-> t]}
                /\ mapping' = [mapping EXCEPT ![s][p] = t]
                /\ asked' = {}
                /\ UNCHANGED live

MapFails == /\ asked' = {}
            /\ UNCHANGED <<live, mapping>>

Unmap(s, p) == /\ s \in live
               /\ mapping[s][p] # NotMapped
               /\ mapping' = [mapping EXCEPT ![s][p] = NotMapped]
               /\ UNCHANGED <<live, asked>>

Destroy(s) == /\ s \in live
              /\ live' = live \ {s}
              /\ mapping' = [mapping EXCEPT ![s] = Nothing]
              /\ UNCHANGED asked

\* A vm_map under way keeps the other operations waiting.
Next ==
  \/ /\ asked = {}
     /\ \E s \in Space :
          \/ Create(s)
          \/ Destroy(s)
          \/ \E p \in UserPage : Unmap(s, p) \/ \E t \in Translation : Ask(s, p, t)
  \/ /\ asked # {}
     /\ \/ MapFails
        \/ \E s \in Space, p \in UserPage, t \in Translation : Map(s, p, t)

Spec == Init /\ [][Next]_mapVars
=============================================================================
