--------------------------------- MODULE VM ---------------------------------
(***************************************************************************)
(* Four-level page tables, kernel/memory/vm.c: the address_space           *)
(* structures, the table pages they own, CR3 and the translations the      *)
(* processor has cached.                                                   *)
(*                                                                         *)
(* A virtual page is the path of its four table indices.  Physical pages   *)
(* come from the pool PageAllocator is proved to implement.  vm_map is a   *)
(* loop that may stop half way, so it is modelled one level per step; the  *)
(* kernel runs it with interrupts off on one processor, so the other       *)
(* operations wait for it, but the processor keeps filling its TLB.  A     *)
(* call that is refused before it changes anything is a stuttering step.   *)
(***************************************************************************)
EXTENDS Integers, FiniteSets, Sequences

CONSTANTS
  Frame,          \* physical pages of the pool
  BootRoot,       \* the root Limine left in CR3
  KernelTable,    \* the table its upper half leads to
  Space,          \* the address_space structures
  Index,          \* indices of a table entry, 0 .. 511 in the code
  Upper,          \* the indices of the root's upper half
  Page,           \* the virtual pages callers ask for, as paths
  FlagSets,       \* the permissions callers ask for
  TableLimit,     \* VM_TABLE_LIMIT
  DataLimit,      \* the user pages callers keep track of, at most
  NoRoot,         \* space->root == 0
  NotMapped, Idle

ASSUME VMAssumption ==
  /\ IsFiniteSet(Frame)
  /\ BootRoot \notin Frame /\ KernelTable \notin Frame /\ BootRoot # KernelTable
  /\ NoRoot \notin Frame \cup {BootRoot}
  /\ Upper \subseteq Index /\ 0 \in Index \ Upper
  /\ Page \subseteq [1 .. 4 -> Index]
  /\ TableLimit \in Nat \ {0} /\ DataLimit \in Nat
  /\ FlagSets \subseteq SUBSET {"write", "user", "exec"}

VARIABLES
  allocated,   \* the pages handed out by page_alloc
  data,        \* the ones callers hold as user pages
  mem,         \* table contents, by physical page
  root,        \* space->root
  tables,      \* space->tables[0 .. table_count - 1]
  walk,        \* a vm_map in progress, or Idle
  cr3,         \* vm_current_root()
  tlb,         \* cached translations of the active space
  panicked     \* "page table ownership differs"

spaces == <<root, tables>>
vars == <<allocated, data, mem, root, tables, walk, cr3, tlb, panicked>>

Physical == Frame \cup {BootRoot, KernelTable}
All      == {"write", "user", "exec"}       \* VM_WRITE | VM_USER | VM_EXEC
Entry    == [present : BOOLEAN, frame : Physical, flags : SUBSET All, large : BOOLEAN]

Absent == [present |-> FALSE, frame |-> BootRoot, flags |-> {}, large |-> FALSE]
Link(f, flags) == [present |-> TRUE, frame |-> f, flags |-> flags, large |-> FALSE]
Zeroed == [i \in Index |-> Absent]
\* A page that is not a table may hold anything, entries that look present too.
Junk == [i \in Index |-> Link(KernelTable, All)]

\* address < 2^47, and the page at address zero.
LowerHalf(p) == p[1] \notin Upper
ZeroPage     == <<0, 0, 0, 0>>

-----------------------------------------------------------------------------
(* leaf_entry and vm_lookup.                                               *)

Descends(e) == e.present /\ ~e.large

\* The entries the walk for page p reads, one per level.
Table1(s)    == IF root[s] = NoRoot THEN BootRoot ELSE root[s]
Entry1(s, p) == mem[Table1(s)][p[1]]
Entry2(s, p) == mem[Entry1(s, p).frame][p[2]]
Entry3(s, p) == mem[Entry2(s, p).frame][p[3]]
Leaf(s, p)   == mem[Entry3(s, p).frame][p[4]]

\* How far the walk gets: the level of the last table it reaches.
Reaches2(s, p) == root[s] # NoRoot /\ LowerHalf(p) /\ Descends(Entry1(s, p))
Reaches3(s, p) == Reaches2(s, p) /\ Descends(Entry2(s, p))
Reaches4(s, p) == Reaches3(s, p) /\ Descends(Entry3(s, p))

LeafPresent(s, p) == Reaches4(s, p) /\ Leaf(s, p).present

\* vm_lookup: the physical page and the permissions all four levels allow.
Lookup(s, p) ==
  IF LeafPresent(s, p)
  THEN [frame |-> Leaf(s, p).frame,
        flags |-> Entry1(s, p).flags \cap Entry2(s, p).flags \cap
                  Entry3(s, p).flags \cap Leaf(s, p).flags]
  ELSE NotMapped

-----------------------------------------------------------------------------
(* page_alloc and page_free, as PagePool states them.                      *)

PageAlloc(f) == f \in Frame \ allocated /\ allocated' = allocated \cup {f}
PageFree(S)  == allocated' = allocated \ S

-----------------------------------------------------------------------------
\* The boot root has a kernel half only, which user code cannot reach into.
BootTable == [i \in Index |-> IF i \in Upper THEN Link(KernelTable, All) ELSE Absent]

Init ==
  /\ allocated = {} /\ data = {}
  /\ mem = [f \in Physical |-> IF f = BootRoot THEN BootTable
                               ELSE IF f = KernelTable THEN Zeroed ELSE Junk]
  /\ root = [s \in Space |-> NoRoot]
  /\ tables = [s \in Space |-> {}]
  /\ walk = Idle
  /\ cr3 = BootRoot
  /\ tlb = {}
  /\ panicked = FALSE

Ready == walk = Idle /\ ~panicked

\* Mutant: a new table that is not cleared.
ClearedStale(f) == mem[f]

\* new_table: the limit, then page_alloc, and 512 entries are cleared.
RoomForTable(s) == Cardinality(tables[s]) # TableLimit
Cleared(f) == Zeroed

\* vm_create: one table, the upper half copied without user access.
KernelHalf(table) ==
  [i \in Index |-> IF i \in Upper
                   THEN [mem[BootRoot][i] EXCEPT !.flags = @ \ {"user"}]
                   ELSE table[i]]

vm_create(s) ==
  /\ Ready
  /\ root[s] = NoRoot /\ tables[s] = {}
  /\ \E f \in Frame :
       /\ RoomForTable(s) /\ PageAlloc(f)
       /\ mem' = [mem EXCEPT ![f] = KernelHalf(Cleared(f))]
       /\ root' = [root EXCEPT ![s] = f]
       /\ tables' = [tables EXCEPT ![s] = {f}]
  /\ UNCHANGED <<data, walk, cr3, tlb, panicked>>

\* Mutants: the kernel half, or a page already mapped, is accepted.
MapAcceptedAnywhere(s, p, f) ==
  /\ root[s] # NoRoot /\ p # ZeroPage /\ f \in allocated /\ ~LeafPresent(s, p)
MapAcceptedTwice(s, p, f) ==
  /\ root[s] # NoRoot /\ p # ZeroPage /\ f \in allocated /\ LowerHalf(p)

\* The tests of vm_map before it changes anything.
MapAccepted(s, p, f) ==
  /\ root[s] # NoRoot
  /\ p # ZeroPage /\ LowerHalf(p)
  /\ f \in allocated            \* page_data(physical) != NULL
  /\ ~LeafPresent(s, p)

\* vm_map of one of the caller's pages, one level of the walk at a time.
vm_map(s, p, f, flags) ==
  /\ Ready
  /\ f \in data
  /\ MapAccepted(s, p, f)
  /\ walk' = [space |-> s, page |-> p, frame |-> f, flags |-> flags,
              level |-> 1, table |-> root[s]]
  /\ UNCHANGED <<allocated, data, mem, spaces, cr3, tlb, panicked>>

Here == mem[walk.table][walk.page[walk.level]]     \* table[index]
MemWith(table, i, e) == [mem EXCEPT ![table] = [@ EXCEPT ![i] = e]]
Walking == walk # Idle /\ walk.level < 4

vm_map_descend ==
  /\ Walking /\ Descends(Here)
  /\ walk' = [walk EXCEPT !.level = @ + 1, !.table = Here.frame]
  /\ UNCHANGED <<allocated, data, mem, spaces, cr3, tlb, panicked>>

\* Mutants: the new table is linked but not recorded as the space's own.
RecordedNot(s, f) == tables

Recorded(s, f) == [tables EXCEPT ![s] = @ \cup {f}]

vm_map_new_table ==
  /\ Walking /\ ~Here.present
  /\ RoomForTable(walk.space)
  /\ \E f \in Frame :
       /\ PageAlloc(f)
       /\ mem' = [mem EXCEPT ![f] = Cleared(f),
                             ![walk.table] = [@ EXCEPT ![walk.page[walk.level]] = Link(f, All)]]
       /\ tables' = Recorded(walk.space, f)
       /\ walk' = [walk EXCEPT !.level = @ + 1, !.table = f]
  /\ UNCHANGED <<data, root, cr3, tlb, panicked>>

\* Out of tables, out of memory, or a large page in the way: vm_map returns
\* false and leaves the tables it has added.
vm_map_fails ==
  /\ Walking
  /\ IF Here.present THEN Here.large
     ELSE ~RoomForTable(walk.space) \/ allocated = Frame
  /\ walk' = Idle
  /\ UNCHANGED <<allocated, data, mem, spaces, cr3, tlb, panicked>>

vm_map_leaf ==
  /\ walk # Idle /\ walk.level = 4
  /\ mem' = MemWith(walk.table, walk.page[4], Link(walk.frame, walk.flags))
  /\ walk' = Idle
  /\ UNCHANGED <<allocated, data, spaces, cr3, tlb, panicked>>

\* Mutant: unmapping leaves the processor's copy of the translation.
FlushedNever(s, p) == tlb

\* invlpg, when the space is the active one.
Flushed(s, p) == IF root[s] = cr3 THEN {t \in tlb : t.page # p} ELSE tlb

vm_unmap(s, p) ==
  /\ Ready
  /\ LeafPresent(s, p)
  /\ mem' = MemWith(Entry3(s, p).frame, p[4], Absent)
  /\ tlb' = Flushed(s, p)
  /\ UNCHANGED <<allocated, data, spaces, walk, cr3, panicked>>

\* Mutant: the active root may be destroyed.
DestroyAcceptedActive(s) == root[s] # NoRoot

DestroyAccepted(s) == root[s] # NoRoot /\ root[s] # cr3

vm_destroy(s) ==
  /\ Ready
  /\ DestroyAccepted(s)
  /\ IF tables[s] \subseteq allocated
     THEN /\ PageFree(tables[s])
          /\ mem' = [f \in Physical |-> IF f \in tables[s] THEN Junk ELSE mem[f]]
          /\ root' = [root EXCEPT ![s] = NoRoot]
          /\ tables' = [tables EXCEPT ![s] = {}]
          /\ UNCHANGED panicked
     ELSE panicked' = TRUE /\ UNCHANGED <<allocated, mem, spaces>>
  /\ UNCHANGED <<data, walk, cr3, tlb>>

\* vm_switch writes CR3, which drops every cached translation.
vm_switch(r) ==
  /\ Ready
  /\ r = BootRoot \/ \E s \in Space : r = root[s] /\ r # NoRoot
  /\ cr3' = r
  /\ tlb' = {}
  /\ UNCHANGED <<allocated, data, mem, spaces, walk, panicked>>

-----------------------------------------------------------------------------
(* The callers of vm.c and the processor.                                  *)

\* A caller takes a page for user data, and writes to it what it likes.
TakePage(f) ==
  /\ Ready /\ Cardinality(data) < DataLimit
  /\ PageAlloc(f)
  /\ data' = data \cup {f}
  /\ UNCHANGED <<mem, spaces, walk, cr3, tlb, panicked>>

\* A caller frees a page of its own that it has unmapped everywhere.
ReturnPage(f) ==
  /\ Ready
  /\ f \in data
  /\ \A s \in Space, p \in Page : LeafPresent(s, p) => Lookup(s, p).frame # f
  /\ PageFree({f})
  /\ data' = data \ {f}
  /\ UNCHANGED <<mem, spaces, walk, cr3, tlb, panicked>>

\* The processor caches a translation of the active space when it uses it.
TlbFill(s, p) ==
  /\ root[s] = cr3 /\ Lookup(s, p) # NotMapped
  /\ tlb' = tlb \cup {[page |-> p, to |-> Lookup(s, p)]}
  /\ UNCHANGED <<allocated, data, mem, spaces, walk, cr3, panicked>>

Next ==
  \/ \E s \in Space :
       \/ vm_create(s) \/ vm_destroy(s)
       \/ \E p \in Page :
            \/ vm_unmap(s, p) \/ TlbFill(s, p)
            \/ \E f \in Frame, flags \in FlagSets : vm_map(s, p, f, flags)
  \/ vm_map_descend \/ vm_map_new_table \/ vm_map_fails \/ vm_map_leaf
  \/ \E r \in Frame \cup {BootRoot} : vm_switch(r)
  \/ \E f \in Frame : TakePage(f) \/ ReturnPage(f)

Spec == Init /\ [][Next]_vars

-----------------------------------------------------------------------------
Walk == [space : Space, page : Page, frame : Frame, flags : FlagSets,
         level : 1 .. 4, table : Frame]

\* The two markers are not what they mark the absence of.
ASSUME MarkerAssumption ==
  /\ NotMapped \notin [frame : Physical, flags : SUBSET All]
  /\ Idle \notin Walk

TypeOK ==
  /\ allocated \subseteq Frame /\ data \subseteq Frame
  /\ mem \in [Physical -> [Index -> Entry]]
  /\ root \in [Space -> Frame \cup {NoRoot}]
  /\ tables \in [Space -> SUBSET Frame]
  /\ walk \in Walk \cup {Idle}
  /\ cr3 \in Frame \cup {BootRoot}
  /\ tlb \subseteq [page : Page, to : [frame : Physical, flags : SUBSET All]]
  /\ panicked \in BOOLEAN

\* The tables the walks of space s go through, with the indices that lead there.
Visits(s) ==
  LET lower == {p \in Page : LowerHalf(p)}
  IN {[at |-> << >>, table |-> root[s]] : r \in {root[s]} \ {NoRoot}} \cup
     {[at |-> SubSeq(p, 1, 1), table |-> Entry1(s, p).frame] : p \in {q \in lower : Reaches2(s, q)}} \cup
     {[at |-> SubSeq(p, 1, 2), table |-> Entry2(s, p).frame] : p \in {q \in lower : Reaches3(s, q)}} \cup
     {[at |-> SubSeq(p, 1, 3), table |-> Entry3(s, p).frame] : p \in {q \in lower : Reaches4(s, q)}}

\* Every allocated page has exactly one owner: the caller that took it or the
\* one space that will free it.  Nothing leaks when vm_map stops half way,
\* and vm_destroy never meets a page it does not own.
EveryPageHasOneOwner ==
  /\ ~panicked
  /\ allocated = data \cup UNION {tables[s] : s \in Space}
  /\ \A s \in Space :
       /\ tables[s] \cap data = {}
       /\ Cardinality(tables[s]) <= TableLimit
       /\ (root[s] = NoRoot) = (tables[s] = {})
       /\ \A r \in Space \ {s} : tables[s] \cap tables[r] = {}

\* A walk through the lower half never leaves the tables of its own space,
\* and two walks meet in a table only where their paths agree.
WalksStayInside ==
  \A s \in Space : \A v \in Visits(s) :
    /\ v.table \in tables[s]
    /\ \A w \in Visits(s) : v.table = w.table => v = w

\* Every root sees the kernel half of the boot root, without user access,
\* and no operation on a user space writes to the tables behind it.
KernelHalfIntact ==
  /\ mem[BootRoot] = BootTable /\ mem[KernelTable] = Zeroed
  /\ \A s \in Space : root[s] # NoRoot =>
       \A i \in Upper : mem[root[s]][i] = Link(KernelTable, All \ {"user"})

\* The processor never uses a translation that the tables no longer hold.
NoStaleTranslation ==
  \A t \in tlb : \E s \in Space : root[s] = cr3 /\ Lookup(s, t.page) = t.to

\* The tables of vm.c implement the promise of vm.h: seen through vm_lookup,
\* mapping adds the page asked for, with exactly the permissions asked for, a
\* failed or unfinished vm_map adds nothing, and no space sees another's
\* operations.
UserMap == INSTANCE AddressMap WITH
  UserPage    <- {p \in Page : LowerHalf(p) /\ p # ZeroPage},
  Translation <- [frame : Frame, flags : FlagSets],
  live        <- {s \in Space : root[s] # NoRoot},
  mapping     <- [s \in Space |-> [p \in {q \in Page : LowerHalf(q) /\ q # ZeroPage} |->
                                     Lookup(s, p)]],
  asked       <- {[space |-> w.space, page |-> w.page,
                   to |-> [frame |-> w.frame, flags |-> w.flags]] : w \in {walk} \ {Idle}}
ImplementsAddressMap == UserMap!Spec
=============================================================================
