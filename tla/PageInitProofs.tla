--------------------------- MODULE PageInitProofs ---------------------------
(***************************************************************************)
(* page_init of kernel/memory/page.c, for every page size, every word and  *)
(* every memory map whose usable entries do not overlap: it leaves exactly *)
(* the usable pages free, its state bytes have room, and it refuses only   *)
(* for cause.  The facts about the three passes come first, then the call. *)
(***************************************************************************)
EXTENDS PageInit, SequenceFacts

-----------------------------------------------------------------------------
(* Arithmetic.                                                             *)

\* Quotient and remainder by the size of a page.
LEMMA Division ==
  ASSUME NEW n \in Nat
  PROVE  /\ n \div PageSize \in Nat /\ n % PageSize \in 0 .. (PageSize - 1)
         /\ n = PageSize * (n \div PageSize) + (n % PageSize)
BY PageInitAssumption

\* The quotient and the remainder of a multiple of the page size.
LEMMA DivisionExact ==
  ASSUME NEW q \in Nat
  PROVE  PageSize * q \in Nat /\ (PageSize * q) \div PageSize = q /\ (PageSize * q) % PageSize = 0
BY PageInitAssumption

\* Page addresses are in the order of their numbers, a page size apart.
LEMMA PagesInOrder ==
  ASSUME NEW q \in Nat, NEW r \in Nat
  PROVE  /\ q < r => PageSize * q + PageSize <= PageSize * r
         /\ q <= r <=> PageSize * q <= PageSize * r
<1>1. PageSize * (q + 1) = PageSize * q + PageSize
  BY PageInitAssumption
<1>2. \A x, y \in Nat : x <= y => PageSize * x <= PageSize * y
  BY PageInitAssumption
<1>3. q < r => q + 1 <= r
  OBVIOUS
<1>4. ASSUME r < q PROVE PageSize * r < PageSize * q
  <2>1. r + 1 <= q
    BY <1>4
  <2>2. PageSize * (r + 1) <= PageSize * q
    BY <1>2, <2>1
  <2>3. PageSize * (r + 1) = PageSize * r + PageSize
    BY PageInitAssumption
  <2>4. PageSize * r \in Nat /\ PageSize * q \in Nat
    BY DivisionExact
  <2>5. QED BY <2>2, <2>3, <2>4, PageInitAssumption
<1>5. PageSize * r \in Nat /\ PageSize * q \in Nat
  BY DivisionExact
<1>6. q + 1 \in Nat
  OBVIOUS
<1>7. QED BY <1>1, <1>2, <1>3, <1>4, <1>5, <1>6

\* A page address is a multiple of the page size.
LEMMA PageAddress ==
  ASSUME NEW x \in Nat, x % PageSize = 0
  PROVE  x \div PageSize \in Nat /\ x = PageSize * (x \div PageSize)
<1> DEFINE q == x \div PageSize
<1>1. q \in Nat /\ x = PageSize * q + (x % PageSize)
  BY Division
<1>2. PageSize * q \in Nat
  BY <1>1, DivisionExact
<1> HIDE DEF q
<1>3. x = PageSize * q
  BY <1>1, <1>2
<1>4. QED BY <1>1, <1>3 DEF q

\* Between two page addresses there is at least one page.
LEMMA PageBetween ==
  ASSUME NEW x \in Nat, NEW y \in Nat, x % PageSize = 0, y % PageSize = 0, x < y
  PROVE  x + PageSize <= y
<1>1. PICK q \in Nat : x = PageSize * q
  BY PageAddress
<1>2. PICK r \in Nat : y = PageSize * r
  BY PageAddress
<1>3. q < r
  BY <1>1, <1>2, PagesInOrder
<1>4. QED BY <1>1, <1>2, <1>3, PagesInOrder

\* The sum of two multiples of the page size is one.
LEMMA SumOfPages ==
  ASSUME NEW x \in Nat, NEW y \in Nat, x % PageSize = 0, y % PageSize = 0
  PROVE  (x + y) % PageSize = 0
<1>1. PICK q \in Nat : x = PageSize * q
  BY PageAddress
<1>2. PICK r \in Nat : y = PageSize * r
  BY PageAddress
<1>3. x + y = PageSize * (q + r)
  BY <1>1, <1>2, PageInitAssumption
<1>4. QED BY <1>3, DivisionExact

\* A number within the word is not changed by it.
LEMMA WithinWord ==
  ASSUME NEW n \in Nat, n <= WordMax
  PROVE  Word(n) = n
BY PageInitAssumption DEF Word

-----------------------------------------------------------------------------
(* The three passes, over an accepted map.                                 *)

\* The arguments of the call.
Given == map \in Maps /\ hhdm \in Offsets

\* A usable entry is a pair of words.
LEMMA UsableTyped ==
  ASSUME Given, NEW e \in UsableEntries
  PROVE  /\ e.base \in 0 .. WordMax /\ e.length \in 0 .. WordMax /\ e.usable
         /\ \E i \in Usable : e = map[i]
<1>1. PICK i \in Usable : e = map[i]
  BY DEF UsableEntries
<1>2. map \in Seq([usable : BOOLEAN, base : 0 .. WordMax, length : 0 .. WordMax] \cup {NullEntry})
  BY PageInitAssumption DEF Given
<1>3. e \in [usable : BOOLEAN, base : 0 .. WordMax, length : 0 .. WordMax] /\ e.usable
  BY <1>1, <1>2 DEF Usable
<1>4. QED BY <1>1, <1>3

\* The first pass has established this of every usable entry.
LEMMA EntryFacts ==
  ASSUME Given, ~MapRefused, NEW e \in UsableEntries
  PROVE  /\ e.base \in Nat /\ e.length \in Nat
         /\ EntryEnd(e) = e.base + e.length /\ EntryEnd(e) <= WordMax
         /\ e.base % PageSize = 0 /\ EntryEnd(e) % PageSize = 0
<1>1. e.base \in 0 .. WordMax /\ e.length \in 0 .. WordMax
  BY UsableTyped
<1>2. ~Malformed(e)
  BY DEF MapRefused
<1>3. e.base % PageSize = 0 /\ e.length % PageSize = 0 /\ ~(e.length > WordMax - e.base)
  BY <1>2 DEF Malformed
<1>4. e.base + e.length \in Nat /\ e.base + e.length <= WordMax
  BY <1>1, <1>3, PageInitAssumption
<1>5. EntryEnd(e) = e.base + e.length
  BY <1>4, WithinWord DEF EntryEnd
<1>6. (e.base + e.length) % PageSize = 0
  BY <1>1, <1>3, SumOfPages
<1>7. QED BY <1>1, <1>3, <1>4, <1>5, <1>6

\* highest is the end of the last entry, and a page address.
LEMMA HighestFacts ==
  ASSUME Given, ~MapRefused
  PROVE  /\ Highest \in Nat /\ Highest # 0 /\ Highest <= WordMax /\ Highest % PageSize = 0
         /\ \A e \in UsableEntries : EntryEnd(e) <= Highest
<1> DEFINE S == {EntryEnd(e) : e \in UsableEntries} \cup {0}
<1>1. S \in SUBSET Nat /\ S # {} /\ \A x \in S : x <= WordMax
  BY EntryFacts, PageInitAssumption
<1>2. \A x \in S : x % PageSize = 0
  <2>1. 0 % PageSize = 0
    BY PageInitAssumption
  <2>2. QED BY <2>1, EntryFacts
<1>3. Highest \in S /\ \A y \in S : y <= Highest
  BY <1>1, LargestExists, PageInitAssumption DEF Highest
<1>4. Highest # 0
  BY DEF MapRefused
<1>5. QED BY <1>1, <1>2, <1>3, <1>4

\* There is a state byte for every frame.
LEMMA MetadataFacts ==
  ASSUME Given, ~MapRefused
  PROVE  /\ FrameCount \in Nat /\ FrameCount # 0 /\ Highest = PageSize * FrameCount
         /\ MetadataPages \in Nat /\ MetadataBytes \in Nat /\ MetadataBytes % PageSize = 0
         /\ FrameCount <= MetadataBytes
<1>1. FrameCount \in Nat /\ Highest = PageSize * FrameCount
  BY HighestFacts, PageAddress DEF FrameCount
<1>2. FrameCount # 0
  BY <1>1, HighestFacts, PageInitAssumption
<1> DEFINE n == FrameCount + PageSize - 1
<1>3. n \in Nat
  BY <1>1, PageInitAssumption
<1>4. /\ MetadataPages \in Nat /\ n % PageSize \in 0 .. (PageSize - 1)
      /\ n = PageSize * MetadataPages + (n % PageSize)
  BY <1>3, Division DEF MetadataPages
<1>5. /\ MetadataBytes = PageSize * MetadataPages
      /\ MetadataBytes \in Nat /\ MetadataBytes % PageSize = 0
  <2>1. MetadataBytes = PageSize * MetadataPages
    BY <1>4, PageInitAssumption DEF MetadataBytes
  <2>2. QED BY <1>4, <2>1, DivisionExact
<1>6. FrameCount <= MetadataBytes
  <2> DEFINE r == n % PageSize
  <2>1. FrameCount + PageSize - 1 = MetadataBytes + r /\ r \in 0 .. (PageSize - 1)
    BY <1>4, <1>5
  <2> HIDE DEF r
  <2>2. QED BY <1>1, <1>5, <2>1, PageInitAssumption
<1>7. QED BY <1>1, <1>2, <1>4, <1>5, <1>6

\* The state bytes fill whole pages of one usable entry, above page zero.
LEMMA ChosenFacts ==
  ASSUME Given, ~MapRefused, Chosen # 0
  PROVE  /\ Chosen \in Nat /\ Chosen % PageSize = 0 /\ PageSize <= Chosen
         /\ \E e \in UsableEntries : e.base <= Chosen /\ Chosen + MetadataBytes <= e.base + e.length
<1> DEFINE S == {i \in Usable : HasRoom(i)}
<1>1. \E i \in Usable : HasRoom(i)
  BY DEF Chosen
<1>2. S \in SUBSET Nat /\ S # {}
  <2>1. map \in Seq([usable : BOOLEAN, base : 0 .. WordMax, length : 0 .. WordMax] \cup {NullEntry})
    BY PageInitAssumption DEF Given
  <2>2. QED BY <1>1, <2>1 DEF Usable
<1>3. PICK i \in S : Chosen = MetadataStart(map[i])
  <2>1. Min(S) \in S
    BY <1>2, SmallestExists
  <2>2. QED BY <1>1, <2>1 DEF Chosen
<1> DEFINE e == map[i]
<1>4. e \in UsableEntries
  BY DEF UsableEntries
<1>5. /\ e.base \in Nat /\ e.length \in Nat /\ e.base % PageSize = 0
      /\ EntryEnd(e) = e.base + e.length
  BY <1>4, EntryFacts
<1>6. Chosen \in Nat /\ e.base <= Chosen /\ Chosen % PageSize = 0 /\ PageSize <= Chosen
  <2>1. CASE e.base = 0
    <3>1. Chosen = PageSize /\ PageSize % PageSize = 0
      BY <1>3, <2>1, PageInitAssumption DEF MetadataStart
    <3>2. QED BY <2>1, <3>1, PageInitAssumption
  <2>2. CASE e.base # 0
    <3>1. Chosen = e.base
      BY <1>3, <2>2 DEF MetadataStart
    <3>2. 0 % PageSize = 0
      BY PageInitAssumption
    <3>3. 0 + PageSize <= e.base
      BY <1>5, <2>2, <3>2, PageBetween
    <3>4. QED BY <1>5, <3>1, <3>3, PageInitAssumption
  <2>3. QED BY <2>1, <2>2
<1>7. Chosen + MetadataBytes <= e.base + e.length
  <2>1. MetadataBytes <= EntryEnd(e) - Chosen
    BY <1>3 DEF HasRoom
  <2>2. QED BY <1>5, <1>6, <2>1, MetadataFacts
<1>8. QED BY <1>4, <1>6, <1>7
\* The page of frame f is in entry e, whole, as soon as its first byte is.
LEMMA WholePage ==
  ASSUME Given, ~MapRefused, NEW e \in UsableEntries, NEW f \in Nat,
         e.base <= PageSize * f, PageSize * f < e.base + e.length
  PROVE  \A a \in PageBytes(f) : e.base <= a /\ a < e.base + e.length
<1>1. /\ e.base \in Nat /\ e.length \in Nat
      /\ EntryEnd(e) = e.base + e.length /\ EntryEnd(e) % PageSize = 0
  BY EntryFacts
<1>2. PageSize * f \in Nat /\ (PageSize * f) % PageSize = 0
  BY DivisionExact
<1>3. PageSize * f + PageSize <= e.base + e.length
  BY <1>1, <1>2, PageBetween
<1>4. f * PageSize = PageSize * f
  BY PageInitAssumption
<1>5. QED BY <1>1, <1>2, <1>3, <1>4, PageInitAssumption DEF PageBytes

\* The page of frame f misses the state bytes, whole, as soon as its first
\* byte does.
LEMMA PageOutside ==
  ASSUME Given, ~MapRefused, Chosen # 0, NEW f \in Nat,
         ~(PageSize * f >= Chosen /\ PageSize * f < Chosen + MetadataBytes)
  PROVE  \A a \in PageBytes(f) : ~(Chosen <= a /\ a < Chosen + MetadataBytes)
<1>1. /\ Chosen \in Nat /\ Chosen % PageSize = 0
      /\ MetadataBytes \in Nat
  BY ChosenFacts, MetadataFacts
<1>2. PageSize * f \in Nat /\ (PageSize * f) % PageSize = 0 /\ f * PageSize = PageSize * f
  BY DivisionExact, PageInitAssumption
<1>3. CASE PageSize * f < Chosen
  <2>1. PageSize * f + PageSize <= Chosen
    BY <1>1, <1>2, <1>3, PageBetween
  <2>2. QED BY <1>1, <1>2, <2>1, PageInitAssumption DEF PageBytes
<1>4. CASE PageSize * f >= Chosen + MetadataBytes
  BY <1>1, <1>2, <1>4, PageInitAssumption DEF PageBytes
<1>5. QED BY <1>1, <1>2, <1>3, <1>4

\* Which frames the third pass marks for an entry.
LEMMA MarkedFrames ==
  ASSUME Given, ~MapRefused, Chosen # 0, NEW e \in UsableEntries, NEW f
  PROVE  f \in Marked(e) <=>
           /\ f \in Nat /\ f # 0
           /\ e.base <= PageSize * f /\ PageSize * f < e.base + e.length
           /\ ~(PageSize * f >= Chosen /\ PageSize * f < Chosen + MetadataBytes)
<1>1. e.base \in Nat /\ e.length \in Nat /\ EntryEnd(e) = e.base + e.length
  BY EntryFacts
<1>2. ASSUME f \in Marked(e)
      PROVE  /\ f \in Nat /\ f # 0
             /\ e.base <= PageSize * f /\ PageSize * f < e.base + e.length
             /\ ~(PageSize * f >= Chosen /\ PageSize * f < Chosen + MetadataBytes)
  <2>1. PICK a \in e.base .. (EntryEnd(e) - 1) :
          /\ a % PageSize = 0 /\ a # 0 /\ f = a \div PageSize
          /\ ~(a >= Chosen /\ a < Chosen + MetadataBytes)
    BY <1>2 DEF Marked
  <2>2. a \in Nat /\ a < e.base + e.length
    BY <1>1, <2>1
  <2>3. f \in Nat /\ a = PageSize * f
    BY <2>1, <2>2, PageAddress
  <2>4. f # 0
    BY <2>1, <2>3, PageInitAssumption
  <2>5. QED BY <2>1, <2>2, <2>3, <2>4
<1>3. ASSUME /\ f \in Nat /\ f # 0
             /\ e.base <= PageSize * f /\ PageSize * f < e.base + e.length
             /\ ~(PageSize * f >= Chosen /\ PageSize * f < Chosen + MetadataBytes)
      PROVE  f \in Marked(e)
  <2> DEFINE a == PageSize * f
  <2>1. a \in Nat /\ a % PageSize = 0 /\ a \div PageSize = f
    BY <1>3, DivisionExact
  <2>2. a # 0
    BY <1>3, PageInitAssumption
  <2>3. a \in e.base .. (EntryEnd(e) - 1)
    BY <1>1, <1>3, <2>1
  <2>4. QED BY <1>3, <2>1, <2>2, <2>3 DEF Marked
<1>4. QED BY <1>2, <1>3

\* The frames marked free are those whose bytes are all usable memory that
\* holds no state byte, page zero apart, and their numbers are in the table.
LEMMA MarkedAreUsable ==
  ASSUME Given, ~MapRefused, Chosen # 0, NEW f \in Nat
  PROVE  /\ (\E e \in UsableEntries : f \in Marked(e)) <=>
              (f # 0 /\ \A a \in PageBytes(f) :
                          UsableByte(a) /\ ~(Chosen <= a /\ a < Chosen + MetadataBytes))
         /\ (\E e \in UsableEntries : f \in Marked(e)) => f < FrameCount
<1>1. ASSUME NEW e \in UsableEntries, f \in Marked(e)
      PROVE  /\ f # 0 /\ f < FrameCount
             /\ \A a \in PageBytes(f) :
                  UsableByte(a) /\ ~(Chosen <= a /\ a < Chosen + MetadataBytes)
  <2>1. /\ f # 0 /\ e.base <= PageSize * f /\ PageSize * f < e.base + e.length
        /\ ~(PageSize * f >= Chosen /\ PageSize * f < Chosen + MetadataBytes)
    BY <1>1, MarkedFrames
  <2>2. \A a \in PageBytes(f) : UsableByte(a)
    BY <2>1, WholePage DEF UsableByte
  <2>3. \A a \in PageBytes(f) : ~(Chosen <= a /\ a < Chosen + MetadataBytes)
    BY <2>1, PageOutside
  <2>4. f < FrameCount
    <3>1. EntryEnd(e) = e.base + e.length /\ EntryEnd(e) <= Highest
      BY EntryFacts, HighestFacts
    <3>2. Highest = PageSize * FrameCount /\ FrameCount \in Nat
      BY MetadataFacts
    <3>3. PageSize * f \in Nat /\ PageSize * FrameCount \in Nat /\ e.base + e.length \in Nat
      BY <3>2, DivisionExact, EntryFacts
    <3>4. ~(PageSize * FrameCount <= PageSize * f)
      BY <2>1, <3>1, <3>2, <3>3
    <3>5. QED BY <3>2, <3>4, PagesInOrder
  <2>5. QED BY <2>1, <2>2, <2>3, <2>4
<1>2. ASSUME f # 0,
             \A a \in PageBytes(f) :
               UsableByte(a) /\ ~(Chosen <= a /\ a < Chosen + MetadataBytes)
      PROVE  \E e \in UsableEntries : f \in Marked(e)
  <2>1. PageSize * f \in Nat /\ f * PageSize = PageSize * f
    BY DivisionExact, PageInitAssumption
  <2>2. PageSize * f \in PageBytes(f)
    BY <2>1, PageInitAssumption DEF PageBytes
  <2>3. PICK e \in UsableEntries : e.base <= PageSize * f /\ PageSize * f < e.base + e.length
    BY <1>2, <2>2 DEF UsableByte
  <2>4. Chosen \in Nat /\ MetadataBytes \in Nat
    BY ChosenFacts, MetadataFacts
  <2>5. ~(PageSize * f >= Chosen /\ PageSize * f < Chosen + MetadataBytes)
    BY <1>2, <2>1, <2>2, <2>4
  <2>6. f \in Marked(e)
    BY <1>2, <2>3, <2>5, MarkedFrames
  <2>7. QED BY <2>6
<1>3. QED BY <1>1, <1>2

\* No frame is counted twice: usable entries do not overlap.
LEMMA MarkedOnce ==
  ASSUME Given, ~MapRefused, Chosen # 0,
         NEW i \in Usable, NEW j \in Usable, NEW f, f \in Marked(map[i]), f \in Marked(map[j])
  PROVE  i = j
<1> DEFINE d == map[i]
           e == map[j]
<1>1. d \in UsableEntries /\ e \in UsableEntries
  BY DEF UsableEntries
<1>2. /\ d.base \in Nat /\ d.length \in Nat /\ d.usable
      /\ e.base \in Nat /\ e.length \in Nat /\ e.usable
  BY <1>1, EntryFacts, UsableTyped
<1>3. /\ f \in Nat
      /\ d.base <= PageSize * f /\ PageSize * f < d.base + d.length
      /\ e.base <= PageSize * f /\ PageSize * f < e.base + e.length
  BY <1>1, MarkedFrames
<1>4. PageSize * f \in Nat
  BY <1>3, DivisionExact
<1>5. Overlap(d, e)
  BY <1>2, <1>3, <1>4 DEF Overlap
<1>6. QED BY <1>5, PageInitAssumption DEF Given, Usable

\* The increments of free_count are as many as the frames marked free.
LEMMA MarkingsCounted ==
  ASSUME Given, ~MapRefused, Chosen # 0,
         NEW F, F = {f \in 0 .. (FrameCount - 1) : \E e \in UsableEntries : f \in Marked(e)}
  PROVE  Cardinality(Markings) = Cardinality(F) /\ Cardinality(F) \in 0 .. FrameCount
<1>1. FrameCount \in Nat
  BY MetadataFacts
<1>2. IsFiniteSet(F) /\ Cardinality(F) \in Nat /\ Cardinality(F) <= FrameCount
  <2>1. IsFiniteSet(0 .. (FrameCount - 1)) /\ Cardinality(0 .. (FrameCount - 1)) = FrameCount
    BY <1>1, FS_Interval
  <2>2. IsFiniteSet(F) /\ Cardinality(F) <= FrameCount
    BY <2>1, FS_Subset
  <2>3. QED BY <2>2, FS_CardinalityType
<1> DEFINE By(f) == CHOOSE i \in Usable : f \in Marked(map[i])
           g == [f \in F |-> <<By(f), f>>]
<1>3. ASSUME NEW f \in F PROVE By(f) \in Usable /\ f \in Marked(map[By(f)])
  <2>1. \E i \in Usable : f \in Marked(map[i])
    BY DEF UsableEntries
  <2>2. QED BY <2>1
<1>4. ASSUME NEW i \in Usable, NEW f \in Marked(map[i]) PROVE f \in F /\ By(f) = i
  <2>1. map[i] \in UsableEntries
    BY DEF UsableEntries
  <2>2. f \in Nat
    BY <2>1, MarkedFrames
  <2>3. f < FrameCount
    BY <2>1, <2>2, MarkedAreUsable
  <2>4. f \in F
    BY <1>1, <2>1, <2>2, <2>3
  <2>5. QED BY <1>3, <2>4, MarkedOnce
<1> HIDE DEF By
<1>5. g \in Bijection(F, Markings)
  <2>1. g \in [F -> Markings]
    BY <1>3 DEF Markings
  <2>2. \A a, b \in F : g[a] = g[b] => a = b
    OBVIOUS
  <2>3. ASSUME NEW m \in Markings PROVE \E f \in F : g[f] = m
    <3>1. PICK i \in Usable : m \in {i} \X Marked(map[i])
      BY DEF Markings
    <3>2. PICK f \in Marked(map[i]) : m = <<i, f>>
      BY <3>1
    <3>3. f \in F /\ g[f] = m
      BY <1>4, <3>2
    <3>4. QED BY <3>3
  <2>4. QED BY <2>1, <2>2, <2>3 DEF Bijection, Injection, Surjection, IsInjective
<1>6. Cardinality(Markings) = Cardinality(F)
  <2>1. ExistsBijection(F, Markings)
    BY <1>5 DEF ExistsBijection
  <2>2. QED BY <1>2, <2>1, FS_Bijection
<1>7. QED BY <1>1, <1>2, <1>6
-----------------------------------------------------------------------------
(* The call.  Until it succeeds the allocator is untouched; afterwards it  *)
(* holds what the passes computed from the map, which no step changes.     *)

Untouched ==
  /\ states = << >> /\ frame_count = 0 /\ free_count = 0
  /\ metadata_base = 0 /\ metadata_pages = 0

Computed ==
  /\ ~MapRefused /\ Chosen # 0
  /\ frame_count = FrameCount
  /\ metadata_base = Chosen /\ metadata_pages = MetadataPages
  /\ states = [f \in 0 .. (FrameCount - 1) |->
                 IF \E e \in UsableEntries : f \in Marked(e) THEN "free" ELSE "unmanaged"]
  /\ free_count = Cardinality(Markings)

CallInv ==
  /\ Given /\ result \in {"none", "true", "false"}
  /\ Untouched \/ Computed
  /\ RefusedOnlyForCause

\* The passes read nothing but the map and the offset.
LEMMA SameMap ==
  ASSUME UNCHANGED <<map, hhdm>>
  PROVE  /\ Given' = Given /\ MapRefused' = MapRefused /\ Chosen' = Chosen
         /\ FrameCount' = FrameCount /\ MetadataPages' = MetadataPages
         /\ MetadataBytes' = MetadataBytes /\ UsableEntries' = UsableEntries
         /\ Markings' = Markings
         /\ \A e : Marked(e)' = Marked(e)
<1>1. Usable' = Usable /\ UsableEntries' = UsableEntries /\ Given' = Given
  BY DEF Usable, UsableEntries, Given
<1>2. Highest' = Highest
  BY <1>1 DEF Highest, EntryEnd, Word
<1>3. MapRefused' = MapRefused
  BY <1>1, <1>2 DEF MapRefused, Malformed
<1>4. FrameCount' = FrameCount /\ MetadataPages' = MetadataPages /\ MetadataBytes' = MetadataBytes
  BY <1>2 DEF FrameCount, MetadataPages, MetadataBytes
<1>5. Chosen' = Chosen
  BY <1>1, <1>4 DEF Chosen, HasRoom, MetadataStart, EntryEnd, Word
<1>6. \A e : Marked(e)' = Marked(e)
  BY <1>4, <1>5 DEF Marked, EntryEnd, Word
<1>7. Markings' = Markings
  BY <1>1, <1>6 DEF Markings
<1>8. QED BY <1>1, <1>3, <1>4, <1>5, <1>6, <1>7

\* An allocator that has its table refuses a second call.
LEMMA ComputedIsReady ==
  ASSUME Given, Computed
  PROVE  AlreadyReady /\ Initialized
<1>1. FrameCount \in Nat /\ FrameCount # 0
  BY MetadataFacts DEF Computed
<1>2. 0 \in DOMAIN states
  BY <1>1 DEF Computed
<1>3. 0 \notin DOMAIN << >>
  OBVIOUS
<1>4. QED BY <1>1, <1>2, <1>3 DEF Computed, AlreadyReady, Initialized

\* If the map is accepted and no entry is chosen, none had room.
LEMMA NoRoom ==
  ASSUME Given, ~MapRefused, Chosen = 0, NEW e \in UsableEntries
  PROVE  e.base + e.length - (IF e.base = 0 THEN PageSize ELSE e.base) < MetadataBytes
<1>1. ~\E i \in Usable : HasRoom(i)
  <2>1. ASSUME \E i \in Usable : HasRoom(i) PROVE FALSE
    <3> DEFINE S == {i \in Usable : HasRoom(i)}
    <3>1. S \in SUBSET Nat /\ S # {}
      <4>1. map \in Seq([usable : BOOLEAN, base : 0 .. WordMax, length : 0 .. WordMax] \cup {NullEntry})
        BY PageInitAssumption DEF Given
      <4>2. QED BY <2>1, <4>1 DEF Usable
    <3>2. Min(S) \in S
      BY <3>1, SmallestExists
    <3>3. MetadataStart(map[Min(S)]) = 0
      BY <2>1 DEF Chosen
    <3>4. map[Min(S)] \in UsableEntries
      BY <3>2 DEF UsableEntries
    <3>5. map[Min(S)].base \in Nat
      BY <3>4, EntryFacts
    <3>6. QED BY <3>3, <3>5, PageInitAssumption DEF MetadataStart
  <2>2. QED BY <2>1
<1>2. PICK i \in Usable : e = map[i]
  BY DEF UsableEntries
<1>3. e.base \in Nat /\ e.length \in Nat /\ EntryEnd(e) = e.base + e.length
  BY EntryFacts
<1>4. MetadataBytes \in Nat /\ MetadataBytes # 0
  <2>1. MetadataBytes \in Nat /\ FrameCount \in Nat /\ FrameCount # 0 /\ FrameCount <= MetadataBytes
    BY MetadataFacts
  <2>2. QED BY <2>1
<1>5. ~(MetadataStart(e) <= EntryEnd(e) /\ MetadataBytes <= EntryEnd(e) - MetadataStart(e))
  BY <1>1, <1>2 DEF HasRoom
<1>6. MetadataStart(e) = (IF e.base = 0 THEN PageSize ELSE e.base) /\ MetadataStart(e) \in Nat
  BY <1>3, PageInitAssumption DEF MetadataStart
<1>7. QED BY <1>3, <1>4, <1>5, <1>6

\* CallInv is inductive.
LEMMA CallStep ==
  CallInv /\ [Next]_vars => CallInv'
<1> SUFFICES ASSUME CallInv, [Next]_vars PROVE CallInv'
  OBVIOUS
<1>1. CASE page_init_refused
  <2>1. UNCHANGED <<map, hhdm>> /\ UNCHANGED allocator /\ result' = "false"
    BY <1>1 DEF page_init_refused
  <2>2. (Untouched' <=> Untouched) /\ (Computed' <=> Computed)
    BY <2>1, SameMap DEF Untouched, Computed, allocator
  <2>3. RefusedOnlyForCause'
    <3>1. SUFFICES ASSUME ~Initialized, ~MapRefused
                   PROVE  \A e \in UsableEntries :
                            e.base + e.length - (IF e.base = 0 THEN PageSize ELSE e.base) < MetadataBytes
      BY <2>1, SameMap DEF RefusedOnlyForCause, Initialized, allocator
    <3>2. Untouched
      BY <3>1, ComputedIsReady DEF CallInv
    <3>3. Chosen = 0
      BY <1>1, <3>1, <3>2 DEF page_init_refused, AlreadyReady, Untouched
    <3>4. QED BY <3>1, <3>3, NoRoom DEF CallInv
  <2>4. QED BY <2>1, <2>2, <2>3, SameMap DEF CallInv
<1>2. CASE page_init_accepted
  <2>1. UNCHANGED <<map, hhdm>> /\ result' = "true" /\ ~AlreadyReady /\ ~MapRefused /\ Chosen # 0
    BY <1>2 DEF page_init_accepted
  <2>2. Untouched
    BY <2>1, ComputedIsReady DEF CallInv
  <2>3. free_count' = Cardinality(Markings)
    <3>1. Cardinality(Markings) \in Nat
      <4>1. Given
        BY DEF CallInv
      <4>2. Cardinality(Markings) \in 0 .. FrameCount
        BY <2>1, <4>1, MarkingsCounted
      <4>3. QED BY <4>2
    <3>2. QED BY <1>2, <2>2, <3>1 DEF page_init_accepted, Untouched
  <2>4. Computed'
    BY <1>2, <2>1, <2>3, SameMap DEF page_init_accepted, Computed
  <2>5. RefusedOnlyForCause'
    BY <2>1 DEF RefusedOnlyForCause
  <2>6. QED BY <2>1, <2>4, <2>5, SameMap DEF CallInv
<1>3. CASE UNCHANGED vars
  <2>1. UNCHANGED <<map, hhdm>> /\ UNCHANGED allocator /\ UNCHANGED result
    BY <1>3 DEF vars
  <2>2. (Untouched' <=> Untouched) /\ (Computed' <=> Computed)
    BY <2>1, SameMap DEF Untouched, Computed, allocator
  <2>3. RefusedOnlyForCause' <=> RefusedOnlyForCause
    BY <2>1, SameMap DEF RefusedOnlyForCause, Initialized, allocator
  <2>4. QED BY <2>1, <2>2, <2>3, SameMap DEF CallInv
<1>4. QED BY <1>1, <1>2, <1>3 DEF Next

\* CallInv always holds.
LEMMA CallInvariant == Spec => []CallInv
<1>1. Init => CallInv
  BY DEF Init, CallInv, Given, Untouched, RefusedOnlyForCause
<1>2. QED BY <1>1, CallStep, PTL DEF Spec

-----------------------------------------------------------------------------
(* The theorems.                                                           *)

\* The table has one entry per frame, and the count fits the table.
THEOREM InitTypeCorrect == Spec => []TypeOK
<1>1. CallInv => TypeOK
  <2> SUFFICES ASSUME CallInv PROVE TypeOK
    OBVIOUS
  <2>1. CASE Untouched
    BY <2>1 DEF CallInv, Untouched, TypeOK
  <2>2. CASE Computed
    <3>1. /\ FrameCount \in Nat /\ MetadataPages \in Nat /\ Chosen \in Nat
      BY <2>2, MetadataFacts, ChosenFacts DEF CallInv, Computed
    <3>2. Cardinality(Markings) \in 0 .. FrameCount
      BY <2>2, MarkingsCounted DEF CallInv, Computed
    <3>3. QED BY <2>2, <3>1, <3>2 DEF CallInv, Computed, TypeOK
  <2>3. QED BY <2>1, <2>2 DEF CallInv
<1>2. QED BY <1>1, CallInvariant, PTL

\* page_init leaves exactly the usable pages free, page zero and the pages
\* of the state bytes apart, and free_count is their number.
THEOREM OwnsCorrect == Spec => []OwnsExactlyTheUsablePages
<1>1. CallInv => OwnsExactlyTheUsablePages
  <2> SUFFICES ASSUME CallInv, Initialized
               PROVE  /\ \A f \in 0 .. frame_count :
                           (f < frame_count /\ states[f] = "free") <=>
                             (f # 0 /\ \A a \in PageBytes(f) : UsableByte(a) /\ ~MetadataByte(a))
                      /\ free_count = Cardinality({f \in DOMAIN states : states[f] = "free"})
    BY DEF OwnsExactlyTheUsablePages
  <2>1. Given /\ Computed
    BY DEF CallInv, Untouched, Initialized
  <2>2. ~MapRefused /\ Chosen # 0 /\ frame_count = FrameCount /\ FrameCount \in Nat
    BY <2>1, MetadataFacts DEF Computed
  <2>3. \A a : MetadataByte(a) <=> (Chosen <= a /\ a < Chosen + MetadataBytes)
    BY <2>1 DEF Computed, MetadataByte, MetadataBytes
  <2>4. ASSUME NEW f \in 0 .. frame_count
        PROVE  (f < frame_count /\ states[f] = "free") <=>
                 (f # 0 /\ \A a \in PageBytes(f) : UsableByte(a) /\ ~MetadataByte(a))
    <3>1. f \in Nat
      BY <2>2
    <3>2. f < frame_count => (states[f] = "free" <=> \E e \in UsableEntries : f \in Marked(e))
      BY <2>1, <2>2, <3>1 DEF Computed
    <3>3. QED BY <2>1, <2>2, <2>3, <3>1, <3>2, MarkedAreUsable
  <2>5. free_count = Cardinality({f \in DOMAIN states : states[f] = "free"})
    <3> DEFINE F == {f \in 0 .. (FrameCount - 1) : \E e \in UsableEntries : f \in Marked(e)}
    <3>1. {f \in DOMAIN states : states[f] = "free"} = F
      BY <2>1, <2>2 DEF Computed
    <3>2. Cardinality(Markings) = Cardinality(F)
      BY <2>1, <2>2, MarkingsCounted
    <3>3. QED BY <2>1, <3>1, <3>2 DEF Computed
  <2>6. QED BY <2>4, <2>5
<1>2. QED BY <1>1, CallInvariant, PTL

\* The state bytes of page_init lie in one usable region above page zero,
\* one per frame, and every tracked byte has an address in the direct map.
THEOREM HousedCorrect == Spec => []MetadataIsHoused
<1>1. CallInv => MetadataIsHoused
  <2> SUFFICES ASSUME CallInv, Initialized
               PROVE  /\ \A a \in metadata_base .. (metadata_base + frame_count - 1) :
                           UsableByte(a) /\ MetadataByte(a) /\ a >= PageSize
                      /\ hhdm + frame_count * PageSize - 1 <= WordMax
    BY DEF MetadataIsHoused
  <2>1. Given /\ Computed
    BY DEF CallInv, Untouched, Initialized
  <2>2. /\ FrameCount \in Nat /\ Highest = PageSize * FrameCount
        /\ MetadataBytes \in Nat /\ FrameCount <= MetadataBytes
        /\ Chosen \in Nat /\ PageSize <= Chosen
        /\ frame_count = FrameCount /\ metadata_base = Chosen
        /\ metadata_pages * PageSize = MetadataBytes
    BY <2>1, MetadataFacts, ChosenFacts DEF Computed, MetadataBytes
  <2>3. PICK e \in UsableEntries : e.base <= Chosen /\ Chosen + MetadataBytes <= e.base + e.length
    BY <2>1, ChosenFacts DEF Computed
  <2>4. e.base \in Nat /\ e.length \in Nat
    BY <2>1, EntryFacts DEF Computed
  <2>5. ASSUME NEW a \in metadata_base .. (metadata_base + frame_count - 1)
        PROVE  UsableByte(a) /\ MetadataByte(a) /\ a >= PageSize
    <3>1. a \in Nat /\ Chosen <= a /\ a < Chosen + MetadataBytes
      BY <2>2
    <3>2. e.base <= a /\ a < e.base + e.length
      BY <2>2, <2>3, <2>4, <3>1
    <3>3. a >= PageSize
      BY <2>2, <3>1, PageInitAssumption
    <3>4. QED BY <2>2, <3>1, <3>2, <3>3 DEF UsableByte, MetadataByte
  <2>6. hhdm + frame_count * PageSize - 1 <= WordMax
    <3>1. Highest \in Nat /\ ~(Highest - 1 > WordMax - hhdm)
      BY <2>1, HighestFacts DEF Computed, MapRefused
    <3>2. hhdm \in 0 .. WordMax
      BY <2>1, PageInitAssumption DEF Given
    <3>3. frame_count * PageSize = Highest
      BY <2>2, PageInitAssumption
    <3>4. QED BY <3>1, <3>2, <3>3, PageInitAssumption
  <2>7. QED BY <2>5, <2>6
<1>2. QED BY <1>1, CallInvariant, PTL

\* page_init refuses a map only if it is malformed or no usable region above
\* page zero has room for the state bytes.
THEOREM RefusalForCause == Spec => []RefusedOnlyForCause
<1>1. CallInv => RefusedOnlyForCause
  BY DEF CallInv
<1>2. QED BY <1>1, CallInvariant, PTL
=============================================================================
