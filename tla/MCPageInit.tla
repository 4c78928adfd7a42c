----------------------------- MODULE MCPageInit -----------------------------
(***************************************************************************)
(* Two-byte pages in a word of 24 values: state bytes fill up to six       *)
(* pages.  Maps of up to two entries, drawn from regions at the bottom, in *)
(* the middle, at the top and past the top of the address space, aligned   *)
(* and not, empty and not, plus one reserved entry and one null.           *)
(***************************************************************************)
EXTENDS PageInit

MCRegions == [usable : {TRUE}, base : {0, 2, 4, 5, 10, 16, 22}, length : {0, 2, 3, 6, 8, 12, 18, 22}]
MCEntries == MCRegions \cup {[usable |-> FALSE, base |-> 2, length |-> 8], NullEntry}

MCMaps ==
  {m \in UNION {[1 .. n -> MCEntries] : n \in 0 .. 2} :
     \A i, j \in DOMAIN m : i # j /\ m[i] # NullEntry /\ m[j] # NullEntry => ~Overlap(m[i], m[j])}
=============================================================================
