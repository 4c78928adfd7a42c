--------------------------- MODULE MCPageAllocator ---------------------------
(***************************************************************************)
(* Five frames.  The memories are the fragmented layouts that matter: one  *)
(* hole at the end, one in the middle, a single managed frame, none.       *)
(***************************************************************************)
EXTENDS PageAllocator

MCMemories == {{1, 2, 3, 4}, {1, 2, 4}, {3}, {}}
=============================================================================
