------------------------------ MODULE PageInit ------------------------------
(***************************************************************************)
(* page_init of kernel/memory/page.c: it reads the boot loader's memory    *)
(* map, places one state byte per frame in the first usable region that    *)
(* has room, and marks the usable pages free except page zero and the ones *)
(* that hold the bytes.  A successful call leaves what Page!PagesReady     *)
(* describes.                                                              *)
(*                                                                         *)
(* Addresses are byte addresses in a word of WordMax + 1 values, pages     *)
(* have PageSize bytes; both are small here and every sum is reduced as    *)
(* the machine does.  The map is the boot loader's: Limine promises that   *)
(* usable entries do not overlap, which page_init does not check.          *)
(***************************************************************************)
EXTENDS Integers, Sequences, FiniteSets, FiniteSetsExt

CONSTANTS
  PageSize,     \* PAGE_SIZE
  WordMax,      \* UINT64_MAX
  Maps,         \* the memory maps: sequences of entries
  Offsets,      \* the values of hhdm_offset
  NullEntry     \* map->entries[i] == NULL

\* Two usable entries share a byte.
Overlap(d, e) ==
  /\ d.usable /\ e.usable
  /\ d.length > 0 /\ e.length > 0
  /\ d.base < e.base + e.length /\ e.base < d.base + d.length

\* What limine.h gives page_init: entries of words, the usable ones disjoint.
ASSUME PageInitAssumption ==
  /\ PageSize \in Nat \ {0} /\ WordMax \in Nat
  /\ Offsets \subseteq 0 .. WordMax
  /\ \A m \in Maps :
       /\ m \in Seq([usable : BOOLEAN, base : 0 .. WordMax, length : 0 .. WordMax] \cup {NullEntry})
       /\ \A i, j \in DOMAIN m :
            i # j /\ m[i] # NullEntry /\ m[j] # NullEntry => ~Overlap(m[i], m[j])

VARIABLES
  map, hhdm,                          \* the arguments of the call
  states,                             \* pages.states, << >> while NULL
  frame_count, free_count,
  metadata_base, metadata_pages,
  result                              \* what the last call returned

allocator == <<states, frame_count, free_count, metadata_base, metadata_pages>>
vars == <<map, hhdm, allocator, result>>

Word(n) == n % (WordMax + 1)

-----------------------------------------------------------------------------
\* First pass: the entries it looks at, and the ones it rejects.
Usable        == {i \in DOMAIN map : map[i] # NullEntry /\ map[i].usable}
UsableEntries == {map[i] : i \in Usable}
EntryEnd(e)   == Word(e.base + e.length)

Malformed(e) ==
  \/ e.base % PageSize # 0
  \/ e.length % PageSize # 0
  \/ e.length > WordMax - e.base

Highest == Max({EntryEnd(e) : e \in UsableEntries} \cup {0})

\* Mutant: the direct map's last byte is not checked against the word.
MapRefusedNoDirect ==
  \/ \E i \in DOMAIN map : map[i] = NullEntry
  \/ \E e \in UsableEntries : Malformed(e)
  \/ Highest = 0

MapRefused ==
  \/ \E i \in DOMAIN map : map[i] = NullEntry
  \/ \E e \in UsableEntries : Malformed(e)
  \/ Highest = 0
  \/ Highest - 1 > WordMax - hhdm

\* Second pass: where the state bytes go.
FrameCount    == Highest \div PageSize
MetadataPages == (FrameCount + PageSize - 1) \div PageSize
MetadataBytes == MetadataPages * PageSize

\* Mutant: page zero may hold the metadata, and base zero then means "none".
MetadataStartAtZero(e) == e.base

MetadataStart(e) == IF e.base = 0 THEN PageSize ELSE e.base
HasRoom(i) ==
  /\ MetadataStart(map[i]) <= EntryEnd(map[i])
  /\ MetadataBytes <= EntryEnd(map[i]) - MetadataStart(map[i])
Chosen == IF \E i \in Usable : HasRoom(i)
          THEN MetadataStart(map[Min({i \in Usable : HasRoom(i)})])
          ELSE 0

\* Mutant: the pages that hold the state bytes are handed out too.
MarkedWithMetadata(e) ==
  {a \div PageSize : a \in {b \in e.base .. (EntryEnd(e) - 1) : b # 0 /\ b % PageSize = 0}}

\* Third pass: the frames one usable entry marks free.
Marked(e) ==
  {a \div PageSize : a \in {b \in e.base .. (EntryEnd(e) - 1) :
                              /\ b % PageSize = 0
                              /\ b # 0
                              /\ ~(b >= Chosen /\ b < Chosen + MetadataBytes)}}

\* Every pages.free_count++ of that pass: the entry and the frame.
Markings == UNION {{i} \X Marked(map[i]) : i \in Usable}

-----------------------------------------------------------------------------
Init ==
  /\ map \in Maps
  /\ hhdm \in Offsets
  /\ states = << >> /\ frame_count = 0 /\ free_count = 0
  /\ metadata_base = 0 /\ metadata_pages = 0
  /\ result = "none"

\* pages.states != NULL
AlreadyReady == states # << >>

page_init_refused ==
  /\ AlreadyReady \/ MapRefused \/ Chosen = 0
  /\ result' = "false"
  /\ UNCHANGED <<map, hhdm, allocator>>

page_init_accepted ==
  /\ ~AlreadyReady /\ ~MapRefused /\ Chosen # 0
  /\ result' = "true"
  /\ frame_count' = FrameCount
  /\ metadata_base' = Chosen
  /\ metadata_pages' = MetadataPages
  /\ states' = [f \in 0 .. (FrameCount - 1) |->
                  IF \E e \in UsableEntries : f \in Marked(e) THEN "free" ELSE "unmanaged"]
  /\ free_count' = free_count + Cardinality(Markings)
  /\ UNCHANGED <<map, hhdm>>

Next == page_init_refused \/ page_init_accepted

Spec == Init /\ [][Next]_vars

-----------------------------------------------------------------------------
\* Reference: the bytes of usable memory, entry by entry, without any word.
UsableByte(a)  == \E e \in UsableEntries : e.base <= a /\ a < e.base + e.length
MetadataByte(a) == metadata_base <= a /\ a < metadata_base + metadata_pages * PageSize
PageBytes(f)   == (f * PageSize) .. (f * PageSize + PageSize - 1)
Initialized    == frame_count # 0

TypeOK ==
  /\ result \in {"none", "true", "false"}
  /\ DOMAIN states = 0 .. (frame_count - 1)
  /\ \A f \in DOMAIN states : states[f] \in {"free", "unmanaged"}
  /\ free_count \in 0 .. frame_count
  /\ metadata_base \in Nat /\ metadata_pages \in Nat

\* The allocator starts with exactly the pages it may hand out: a frame is
\* free iff all its bytes are usable, it is not page zero and holds no state
\* byte; and the count is the number of those frames.
OwnsExactlyTheUsablePages ==
  Initialized =>
    /\ \A f \in 0 .. frame_count :
         (f < frame_count /\ states[f] = "free") <=>
           (f # 0 /\ \A a \in PageBytes(f) : UsableByte(a) /\ ~MetadataByte(a))
    /\ free_count = Cardinality({f \in DOMAIN states : states[f] = "free"})

\* The state bytes themselves live in usable memory above page zero, one for
\* every frame, and every tracked byte has an address in the direct map.
MetadataIsHoused ==
  Initialized =>
    /\ \A a \in metadata_base .. (metadata_base + frame_count - 1) :
         UsableByte(a) /\ MetadataByte(a) /\ a >= PageSize
    /\ hhdm + frame_count * PageSize - 1 <= WordMax

\* page_init gives up only when it must: a well-formed map of which some
\* usable region above page zero has room for the state bytes is accepted.
RefusedOnlyForCause ==
  result = "false" /\ ~Initialized =>
    \/ MapRefused
    \/ \A e \in UsableEntries :
         e.base + e.length - (IF e.base = 0 THEN PageSize ELSE e.base) < MetadataBytes
=============================================================================
