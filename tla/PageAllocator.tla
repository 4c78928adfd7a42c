---------------------------- MODULE PageAllocator ----------------------------
(***************************************************************************)
(* page.c driven by an arbitrary caller: page_alloc, page_free and         *)
(* page_data in any order, with any address, page zero, foreign,           *)
(* misaligned and already free ones included.  last is what the caller     *)
(* has seen: the outcome of the latest call and the content of the cell    *)
(* it passes to page_alloc.                                                *)
(***************************************************************************)
EXTENDS Page

CONSTANT Offsets     \* offsets inside a page a caller may ask for; 0 is aligned

ASSUME OffsetsAssumption == 0 \in Offsets

VARIABLE last

allocatorVars == <<pages, last>>

\* A physical address: page number and offset, one page beyond the end too.
Address == [frame : 0 .. FrameCount, offset : Offsets]
Aligned(f) == [frame |-> f, offset |-> 0]

Call == [op : {"none", "alloc", "free", "data"}, ok : BOOLEAN, cell : Address]

AllocatorInit ==
  /\ \E managed \in Memories : PagesReady(managed)
  /\ \E a \in Address : last = [op |-> "none", ok |-> TRUE, cell |-> a]

page_alloc ==
  \/ \E f \in Frames :
       /\ PageAlloc(f)
       /\ last' = [op |-> "alloc", ok |-> TRUE, cell |-> Aligned(f)]
  \/ /\ PageAllocFails
     /\ UNCHANGED pages
     /\ last' = [op |-> "alloc", ok |-> FALSE, cell |-> last.cell]

\* Mutant: any managed-looking address is accepted, its state unread.
ValidAnyState(a) == a.offset = 0 /\ a.frame < FrameCount

\* The three rejections page_free and page_data share.
Valid(a) == /\ a.offset = 0
            /\ a.frame < FrameCount
            /\ Borrowable(a.frame)

page_free(a) ==
  /\ last' = [op |-> "free", ok |-> Valid(a), cell |-> last.cell]
  /\ IF Valid(a)
     THEN PageFreeAll({a.frame})
     ELSE UNCHANGED pages

page_data(a) ==
  /\ last' = [op |-> "data", ok |-> Valid(a), cell |-> last.cell]
  /\ UNCHANGED pages

AllocatorNext == \/ page_alloc
        \/ \E a \in Address : page_free(a) \/ page_data(a)

AllocatorSpec == AllocatorInit /\ [][AllocatorNext]_allocatorVars

-----------------------------------------------------------------------------
AllocatorTypeOK == PageTypeOK /\ last \in Call

\* A caller is told that memory is exhausted only when no frame is free: the
\* scan wraps around and visits every frame once, wherever it starts.
RefusalMeansExhausted ==
  last.op = "alloc" /\ ~last.ok => FreeFrames = {}

\* Page zero, the metadata and everything outside the usable entries are
\* never handed out, and no frame is handed out twice: page.c implements the
\* pool of page.h.
Pool == INSTANCE PagePool WITH managed   <- ManagedFrames,
                               allocated <- AllocatedFrames
ImplementsPool == Pool!Spec

\* The search resumes after the last page handed out, so a caller that keeps
\* allocating circulates through the memory: no free frame is passed over
\* for ever in favour of others that are freed and taken again.
EveryFrameCirculates ==
  []<><<page_alloc /\ last'.ok>>_pages =>
    \A f \in Frames : states[f] = PAGE_FREE ~> states[f] = PAGE_ALLOCATED
=============================================================================
