-------------------------------- MODULE Page --------------------------------
(***************************************************************************)
(* The physical page allocator of kernel/memory/page.c after page_init:    *)
(* one static structure "pages" with a state byte per frame, a cached      *)
(* count of the free ones and the frame where the next search starts.      *)
(*                                                                         *)
(* This module holds the state and the operations as actions on it.        *)
(* PageAllocator closes them under an arbitrary caller; Laboratory calls   *)
(* them from the kernel's handlers.  PageInit models page_init itself,     *)
(* which establishes PagesReady.                                           *)
(*                                                                         *)
(* A frame is named by its number, so the physical address of frame f is   *)
(* f * PAGE_SIZE; addresses that are not multiples of PAGE_SIZE, and the   *)
(* rejection of those, are in PageAllocator.                               *)
(***************************************************************************)
EXTENDS Integers, FiniteSets

CONSTANTS
  FrameCount,   \* pages.frame_count
  Memories      \* the sets of managed frames page_init may have produced

ASSUME FrameCountAssumption == FrameCount \in Nat \ {0}

VARIABLES
  states,       \* pages.states: one entry per frame
  free_count,   \* pages.free_count
  next_frame    \* pages.next_frame

pages == <<states, free_count, next_frame>>

PAGE_UNMANAGED == "unmanaged"
PAGE_FREE      == "free"
PAGE_ALLOCATED == "allocated"
PageState      == {PAGE_UNMANAGED, PAGE_FREE, PAGE_ALLOCATED}

Frames == 0 .. (FrameCount - 1)

ASSUME MemoriesAssumption == Memories \subseteq SUBSET (Frames \ {0})

FreeFrames      == {f \in Frames : states[f] = PAGE_FREE}
AllocatedFrames == {f \in Frames : states[f] = PAGE_ALLOCATED}
ManagedFrames   == {f \in Frames : states[f] # PAGE_UNMANAGED}

\* What page_init leaves behind when it accepts a memory map whose usable
\* pages, without page zero and the metadata, are the frames in managed.
PagesReady(managed) ==
  /\ states = [f \in Frames |-> IF f \in managed THEN PAGE_FREE
                                                  ELSE PAGE_UNMANAGED]
  /\ free_count = Cardinality(managed)
  /\ next_frame = 0

-----------------------------------------------------------------------------
\* The frame the scan looks at after k steps from next_frame, with the wrap.
Ahead(k) == IF next_frame + k < FrameCount THEN next_frame + k
                                           ELSE next_frame + k - FrameCount

\* The scan passes k frames that are not free and stops at frame f.
ScanStopsAt(f) ==
  \E k \in Frames :
    /\ f = Ahead(k)
    /\ states[f] = PAGE_FREE
    /\ \A j \in 0 .. (k - 1) : states[Ahead(j)] # PAGE_FREE

\* Mutant: a search that always starts at the bottom.
NextFrameFirstFit(f) == 0

\* pages.next_frame after frame f has been handed out.
NextFrame(f) == IF f + 1 = FrameCount THEN 0 ELSE f + 1

\* page_alloc stores frame f in *address and returns true.
PageAlloc(f) ==
  /\ free_count # 0
  /\ f \in Frames
  /\ ScanStopsAt(f)
  /\ states' = [states EXCEPT ![f] = PAGE_ALLOCATED]
  /\ free_count' = free_count - 1
  /\ next_frame' = NextFrame(f)

\* Mutant: the scan stops at the end of the table instead of wrapping.
PageAllocFailsNoWrap ==
  \/ free_count = 0
  \/ \A f \in next_frame .. (FrameCount - 1) : states[f] # PAGE_FREE

\* page_alloc returns false: the count says so, or a whole lap found nothing.
PageAllocFails ==
  \/ free_count = 0
  \/ \A k \in Frames : states[Ahead(k)] # PAGE_FREE

\* page_data(address) is not NULL, and page_free(address) will succeed.
Borrowable(f) == f \in Frames /\ states[f] = PAGE_ALLOCATED

\* One page_free for each frame of S; all of them succeed iff every frame is
\* Borrowable, which each caller checks and panics otherwise.
PageFreeAll(S) ==
  /\ states' = [f \in Frames |-> IF f \in S THEN PAGE_FREE ELSE states[f]]
  /\ free_count' = free_count + Cardinality(S)
  /\ UNCHANGED next_frame

-----------------------------------------------------------------------------
PageTypeOK ==
  /\ states \in [Frames -> PageState]
  /\ free_count \in 0 .. FrameCount
  /\ next_frame \in Frames

\* The cached count page_alloc trusts before it scans, and which the shell's
\* memory command reports, is the number of frames marked free.
CountExact == free_count = Cardinality(FreeFrames)
=============================================================================
