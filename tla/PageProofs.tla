----------------------------- MODULE PageProofs -----------------------------
(***************************************************************************)
(* Proofs about page.c, for every number of frames.  The lemmas say what   *)
(* one allocation and one batch of releases do to the set of free frames;  *)
(* the kernel modules that call the allocator rest on them.  The theorems  *)
(* are about any caller: every memory layout and every sequence of calls.  *)
(***************************************************************************)
EXTENDS PageAllocator, FiniteSetTheorems, TLAPS

\* The frames form a finite set, so the sets the counts are about are finite.
LEMMA FramesFinite ==
  /\ IsFiniteSet(Frames)
  /\ Cardinality(Frames) = FrameCount
  /\ \A S \in SUBSET Frames : IsFiniteSet(S) /\ Cardinality(S) \in 0 .. FrameCount
<1>1. IsFiniteSet(Frames) /\ Cardinality(Frames) = FrameCount
  BY FS_Interval, FrameCountAssumption DEF Frames
<1>2. ASSUME NEW S \in SUBSET Frames
      PROVE  IsFiniteSet(S) /\ Cardinality(S) \in 0 .. FrameCount
  BY <1>1, FS_Subset, FS_CardinalityType, FrameCountAssumption
<1>3. QED BY <1>1, <1>2

\* page_alloc turns exactly one free frame into an allocated one.
LEMMA AllocEffect ==
  ASSUME PageTypeOK, NEW f \in Frames, PageAlloc(f)
  PROVE  /\ states[f] = PAGE_FREE
         /\ FreeFrames' = FreeFrames \ {f}
         /\ AllocatedFrames' = AllocatedFrames \cup {f}
         /\ ManagedFrames' = ManagedFrames
         /\ f \notin AllocatedFrames
         /\ states' \in [Frames -> PageState]
         /\ next_frame' \in Frames
<1> USE FrameCountAssumption DEF PageState, PAGE_UNMANAGED, PAGE_FREE, PAGE_ALLOCATED
<1>1. states[f] = PAGE_FREE
  BY DEF PageAlloc, ScanStopsAt
<1>2. states' = [states EXCEPT ![f] = PAGE_ALLOCATED]
  BY DEF PageAlloc
<1>3. states' \in [Frames -> PageState]
  BY <1>2 DEF PageTypeOK
<1>4. \A g \in Frames : states'[g] = IF g = f THEN PAGE_ALLOCATED ELSE states[g]
  BY <1>2 DEF PageTypeOK
<1>5. next_frame' \in Frames
  BY DEF PageAlloc, NextFrame, Frames
<1>6. QED
  BY <1>1, <1>3, <1>4, <1>5 DEF FreeFrames, AllocatedFrames, ManagedFrames

\* Releasing a set of allocated frames frees exactly those.
LEMMA FreeAllEffect ==
  ASSUME PageTypeOK, NEW S \in SUBSET AllocatedFrames, PageFreeAll(S)
  PROVE  /\ FreeFrames' = FreeFrames \cup S
         /\ FreeFrames \cap S = {}
         /\ AllocatedFrames' = AllocatedFrames \ S
         /\ ManagedFrames' = ManagedFrames
         /\ states' \in [Frames -> PageState]
         /\ next_frame' \in Frames
<1> USE DEF PageState, PAGE_UNMANAGED, PAGE_FREE, PAGE_ALLOCATED
<1>1. S \subseteq Frames /\ \A f \in S : states[f] = PAGE_ALLOCATED
  BY DEF AllocatedFrames
<1>2. states' \in [Frames -> PageState]
  BY DEF PageFreeAll, PageTypeOK
<1>3. \A g \in Frames : states'[g] = IF g \in S THEN PAGE_FREE ELSE states[g]
  BY DEF PageFreeAll
<1>4. next_frame' \in Frames
  BY DEF PageFreeAll, PageTypeOK
<1>5. QED
  BY <1>1, <1>2, <1>3, <1>4 DEF FreeFrames, AllocatedFrames, ManagedFrames

\* Together: the allocator's type and its exact count survive an allocation.
LEMMA AllocPreserves ==
  ASSUME PageTypeOK, CountExact, NEW f \in Frames, PageAlloc(f)
  PROVE  PageTypeOK' /\ CountExact'
<1>1. /\ f \in FreeFrames /\ FreeFrames' = FreeFrames \ {f}
      /\ states' \in [Frames -> PageState] /\ next_frame' \in Frames
  BY AllocEffect DEF FreeFrames
<1>2. IsFiniteSet(FreeFrames)
  BY FramesFinite DEF FreeFrames
<1>3. Cardinality(FreeFrames \ {f}) = Cardinality(FreeFrames) - 1
  BY <1>1, <1>2, FS_RemoveElement
<1>4. free_count' = free_count - 1 /\ free_count # 0
  BY DEF PageAlloc
<1>5. CountExact'
  BY <1>1, <1>3, <1>4 DEF CountExact
<1>6. free_count' \in 0 .. FrameCount
  BY <1>4, FrameCountAssumption DEF PageTypeOK
<1>7. QED
  BY <1>1, <1>5, <1>6 DEF PageTypeOK

\* ... and a batch of releases, however many frames it returns.
LEMMA FreeAllPreserves ==
  ASSUME PageTypeOK, CountExact, NEW S \in SUBSET AllocatedFrames, PageFreeAll(S)
  PROVE  PageTypeOK' /\ CountExact'
<1>1. /\ FreeFrames' = FreeFrames \cup S /\ FreeFrames \cap S = {}
      /\ states' \in [Frames -> PageState] /\ next_frame' \in Frames
  BY FreeAllEffect
<1>2. FreeFrames \in SUBSET Frames /\ S \in SUBSET Frames
  BY DEF FreeFrames, AllocatedFrames
<1>3. IsFiniteSet(FreeFrames) /\ IsFiniteSet(S)
  BY <1>2, FramesFinite
<1>4. Cardinality(FreeFrames \cup S) = Cardinality(FreeFrames) + Cardinality(S)
  <2>1. Cardinality(FreeFrames \cup S) =
          Cardinality(FreeFrames) + Cardinality(S) - Cardinality(FreeFrames \cap S)
    BY <1>3, FS_Union
  <2>2. Cardinality(FreeFrames \cap S) = 0
    BY <1>1, FS_EmptySet
  <2>3. Cardinality(FreeFrames) \in Nat /\ Cardinality(S) \in Nat
    BY <1>3, FS_CardinalityType
  <2>4. QED BY <2>1, <2>2, <2>3
<1>5. CountExact'
  BY <1>1, <1>4 DEF CountExact, PageFreeAll
<1>6. free_count' \in 0 .. FrameCount
  <2>1. FreeFrames \cup S \in SUBSET Frames
    BY <1>2
  <2>2. QED BY <1>1, <1>5, <2>1, FramesFinite DEF CountExact
<1>7. QED
  BY <1>1, <1>5, <1>6 DEF PageTypeOK

\* A refused allocation means no frame is free: either the count is zero and
\* exact, or the scan has looked at every frame once.
LEMMA FailsMeansNoneFree ==
  ASSUME PageTypeOK, CountExact, PageAllocFails
  PROVE  FreeFrames = {}
<1>1. CASE free_count = 0
  <2>1. IsFiniteSet(FreeFrames)
    BY FramesFinite DEF FreeFrames
  <2>2. QED BY <1>1, <2>1, FS_EmptySet DEF CountExact
<1>2. CASE \A k \in Frames : states[Ahead(k)] # PAGE_FREE
  <2>1. SUFFICES ASSUME NEW f \in Frames PROVE states[f] # PAGE_FREE
    BY DEF FreeFrames
  <2>2. CASE f >= next_frame
    <3>1. f - next_frame \in Frames /\ Ahead(f - next_frame) = f
      BY <2>2, FrameCountAssumption DEF PageTypeOK, Frames, Ahead
    <3>2. QED BY <3>1, <1>2
  <2>3. CASE f < next_frame
    <3>1. /\ f - next_frame + FrameCount \in Frames
          /\ Ahead(f - next_frame + FrameCount) = f
      BY <2>3, FrameCountAssumption DEF PageTypeOK, Frames, Ahead
    <3>2. QED BY <3>1, <1>2
  <2>4. QED BY <2>2, <2>3 DEF PageTypeOK, Frames
<1>3. QED BY <1>1, <1>2 DEF PageAllocFails

-----------------------------------------------------------------------------
\* PagesReady, which page_init establishes, satisfies both.
LEMMA ReadyEstablishes ==
  ASSUME NEW managed \in SUBSET Frames, PagesReady(managed)
  PROVE  PageTypeOK /\ CountExact /\ AllocatedFrames = {}
<1> USE DEF PageState, PAGE_UNMANAGED, PAGE_FREE, PAGE_ALLOCATED
<1>1. FreeFrames = managed /\ AllocatedFrames = {}
  BY DEF PagesReady, FreeFrames, AllocatedFrames
<1>2. states \in [Frames -> PageState]
  BY DEF PagesReady
<1>3. Cardinality(managed) \in 0 .. FrameCount
  BY FramesFinite
<1>4. next_frame \in Frames
  BY FrameCountAssumption DEF PagesReady, Frames
<1>5. QED
  BY <1>1, <1>2, <1>3, <1>4 DEF PagesReady, PageTypeOK, CountExact

-----------------------------------------------------------------------------
(* page.c under an arbitrary caller.                                       *)

\* The inductive invariant: the type, the exact count, and what a refusal
\* told the caller.  The count is what makes the refusal truthful.
AllocatorInv == AllocatorTypeOK /\ CountExact /\ RefusalMeansExhausted

\* It holds after page_init.
LEMMA InitAllocator == AllocatorInit => AllocatorInv
<1> SUFFICES ASSUME AllocatorInit PROVE AllocatorInv
  OBVIOUS
<1>1. PICK managed \in Memories : PagesReady(managed)
  BY DEF AllocatorInit
<1>2. managed \in SUBSET Frames
  BY MemoriesAssumption
<1>3. PageTypeOK /\ CountExact
  BY <1>1, <1>2, ReadyEstablishes
<1>4. last \in Call /\ last.op = "none"
  BY DEF AllocatorInit, Call
<1>5. QED
  BY <1>3, <1>4 DEF AllocatorInv, AllocatorTypeOK, RefusalMeansExhausted

\* A successful and a refused page_alloc both preserve the invariant.
LEMMA AllocStepKeeps == AllocatorInv /\ page_alloc => AllocatorInv'
<1> SUFFICES ASSUME AllocatorInv, page_alloc PROVE AllocatorInv'
  OBVIOUS
<1>1. CASE \E f \in Frames :
             /\ PageAlloc(f)
             /\ last' = [op |-> "alloc", ok |-> TRUE, cell |-> Aligned(f)]
  <2>1. PICK f \in Frames :
             /\ PageAlloc(f)
             /\ last' = [op |-> "alloc", ok |-> TRUE, cell |-> Aligned(f)]
    BY <1>1
  <2>2. PageTypeOK' /\ CountExact'
    BY <2>1, AllocPreserves DEF AllocatorInv, AllocatorTypeOK
  <2>3. Aligned(f) \in Address
    BY OffsetsAssumption, FrameCountAssumption DEF Aligned, Address, Frames
  <2>4. last' \in Call /\ last'.ok
    BY <2>1, <2>3 DEF Call
  <2>5. QED BY <2>2, <2>4 DEF AllocatorInv, AllocatorTypeOK, RefusalMeansExhausted
<1>2. CASE /\ PageAllocFails
           /\ UNCHANGED pages
           /\ last' = [op |-> "alloc", ok |-> FALSE, cell |-> last.cell]
  <2>1. FreeFrames = {} /\ FreeFrames' = FreeFrames
    BY <1>2, FailsMeansNoneFree DEF AllocatorInv, AllocatorTypeOK, FreeFrames, pages
  <2>2. last' \in Call
    BY <1>2 DEF AllocatorInv, AllocatorTypeOK, Call
  <2>3. PageTypeOK' /\ CountExact'
    BY <1>2, <2>1 DEF AllocatorInv, AllocatorTypeOK, PageTypeOK, CountExact, pages
  <2>4. QED BY <2>1, <2>2, <2>3 DEF AllocatorInv, AllocatorTypeOK, RefusalMeansExhausted
<1>3. QED BY <1>1, <1>2 DEF page_alloc

\* page_free, whether it accepts the address or rejects it.
LEMMA FreeStepKeeps ==
  ASSUME AllocatorInv, NEW a \in Address, page_free(a)
  PROVE  AllocatorInv'
<1>1. last' \in Call /\ last'.op = "free"
  BY DEF page_free, Call, AllocatorInv, AllocatorTypeOK, Valid, Borrowable
<1>2. CASE Valid(a)
  <2>1. a.frame \in AllocatedFrames
    BY <1>2 DEF Valid, Borrowable, AllocatedFrames
  <2>2. PageFreeAll({a.frame})
    BY <1>2 DEF page_free
  <2>3. PageTypeOK' /\ CountExact'
    BY <2>1, <2>2, FreeAllPreserves DEF AllocatorInv, AllocatorTypeOK
  <2>4. QED BY <1>1, <2>3 DEF AllocatorInv, AllocatorTypeOK, RefusalMeansExhausted
<1>3. CASE ~Valid(a)
  BY <1>1, <1>3 DEF page_free, pages, AllocatorInv, AllocatorTypeOK, PageTypeOK, CountExact,
                    FreeFrames, RefusalMeansExhausted
<1>4. QED BY <1>2, <1>3

\* Every call preserves it.
LEMMA NextAllocator == AllocatorInv /\ [AllocatorNext]_allocatorVars => AllocatorInv'
<1> SUFFICES ASSUME AllocatorInv, [AllocatorNext]_allocatorVars PROVE AllocatorInv'
  OBVIOUS
<1>1. CASE page_alloc
  BY <1>1, AllocStepKeeps
<1>2. ASSUME NEW a \in Address, page_free(a) PROVE AllocatorInv'
  BY <1>2, FreeStepKeeps
<1>3. ASSUME NEW a \in Address, page_data(a) PROVE AllocatorInv'
  <2>1. last' \in Call /\ last'.op = "data"
    BY <1>3 DEF page_data, Call, AllocatorInv, AllocatorTypeOK, Valid, Borrowable
  <2>2. QED
    BY <1>3, <2>1 DEF page_data, pages, AllocatorInv, AllocatorTypeOK, PageTypeOK, CountExact,
                      FreeFrames, RefusalMeansExhausted
<1>4. CASE UNCHANGED allocatorVars
  BY <1>4 DEF allocatorVars, pages, AllocatorInv, AllocatorTypeOK, PageTypeOK, CountExact,
              FreeFrames, RefusalMeansExhausted
<1>5. QED BY <1>1, <1>2, <1>3, <1>4 DEF AllocatorNext

\* Every state page.c reaches is well typed.
THEOREM AllocatorTypeCorrect == AllocatorSpec => []AllocatorTypeOK
<1>1. AllocatorInv => AllocatorTypeOK
  BY DEF AllocatorInv
<1>2. QED BY <1>1, InitAllocator, NextAllocator, PTL DEF AllocatorSpec

\* pages.free_count is always the number of frames marked free.
THEOREM CountCorrect == AllocatorSpec => []CountExact
<1>1. AllocatorInv => CountExact
  BY DEF AllocatorInv
<1>2. QED BY <1>1, InitAllocator, NextAllocator, PTL DEF AllocatorSpec

\* page_alloc returns false only when no frame is free.
THEOREM RefusalCorrect == AllocatorSpec => []RefusalMeansExhausted
<1>1. AllocatorInv => RefusalMeansExhausted
  BY DEF AllocatorInv
<1>2. QED BY <1>1, InitAllocator, NextAllocator, PTL DEF AllocatorSpec

-----------------------------------------------------------------------------
\* page.c implements the pool that page.h promises.
THEOREM PoolRefined == AllocatorSpec => ImplementsPool
<1>1. AllocatorInit => Pool!Init
  <2> SUFFICES ASSUME AllocatorInit PROVE Pool!Init
    OBVIOUS
  <2>1. PICK managed \in Memories : PagesReady(managed)
    BY DEF AllocatorInit
  <2>2. AllocatedFrames = {}
    BY <2>1, MemoriesAssumption, ReadyEstablishes
  <2>3. QED BY <2>2 DEF Pool!Init
<1>2. AllocatorInv /\ [AllocatorNext]_allocatorVars => [Pool!Next]_(Pool!poolVars)
  <2> SUFFICES ASSUME AllocatorInv, [AllocatorNext]_allocatorVars PROVE [Pool!Next]_(Pool!poolVars)
    OBVIOUS
  <2> USE DEF PAGE_UNMANAGED, PAGE_FREE, PAGE_ALLOCATED
  <2>1. ASSUME UNCHANGED pages PROVE UNCHANGED Pool!poolVars
    BY <2>1 DEF pages, Pool!poolVars, ManagedFrames, AllocatedFrames
  <2>2. ASSUME NEW f \in Frames, PageAlloc(f) PROVE Pool!Next
    <3>1. /\ f \in ManagedFrames \ AllocatedFrames
          /\ AllocatedFrames' = AllocatedFrames \cup {f}
          /\ ManagedFrames' = ManagedFrames
      BY <2>2, AllocEffect DEF AllocatorInv, AllocatorTypeOK, ManagedFrames
    <3>2. QED BY <3>1 DEF Pool!Next, Pool!Alloc
  <2>3. ASSUME NEW a \in Address, Valid(a), PageFreeAll({a.frame}) PROVE Pool!Next
    <3>1. a.frame \in AllocatedFrames /\ a.frame \in ManagedFrames
      BY <2>3 DEF Valid, Borrowable, AllocatedFrames, ManagedFrames
    <3>2. AllocatedFrames' = AllocatedFrames \ {a.frame} /\ ManagedFrames' = ManagedFrames
      BY <2>3, <3>1, FreeAllEffect DEF AllocatorInv, AllocatorTypeOK
    <3>3. QED BY <3>1, <3>2 DEF Pool!Next, Pool!Free
  <2>4. QED
    BY <2>1, <2>2, <2>3 DEF AllocatorNext, allocatorVars, page_alloc, page_free, page_data
<1>3. QED
  BY <1>1, <1>2, InitAllocator, NextAllocator, PTL DEF AllocatorSpec, ImplementsPool, Pool!Spec
=============================================================================
