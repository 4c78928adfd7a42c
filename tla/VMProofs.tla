------------------------------ MODULE VMProofs ------------------------------
(***************************************************************************)
(* kernel/memory/vm.c, for every pool of pages, every number of spaces and *)
(* entries per table and every set of virtual pages: the invariants of VM  *)
(* and the refinement of AddressMap are theorems.                          *)
(*                                                                         *)
(* The heart of the argument is that the tables of a space form a tree,    *)
(* stated for all paths of the lower half and not only for the pages that  *)
(* callers use: each table is reached along one path only, so a write to   *)
(* one entry changes exactly the walks that pass through that entry.       *)
(***************************************************************************)
EXTENDS VM, FiniteSetTheorems, SequenceTheorems, TLAPS

\* All paths of the lower half, and the tables met along one.
Paths == {p \in [1 .. 4 -> Index] : LowerHalf(p)}
Node2(s, p) == Entry1(s, p).frame
Node3(s, p) == Entry2(s, p).frame
Node4(s, p) == Entry3(s, p).frame

\* Walks stay in the tables of the space and never come back to the root.
Inside(s, p) ==
  /\ Reaches2(s, p) => Node2(s, p) \in tables[s] \ {root[s]}
  /\ Reaches3(s, p) => Node3(s, p) \in tables[s] \ {root[s]}
  /\ Reaches4(s, p) => Node4(s, p) \in tables[s] \ {root[s]}

\* Two walks meet in a table only at the same level, after the same indices.
Apart(s, p, q) ==
  /\ Reaches2(s, p) /\ Reaches2(s, q) /\ Node2(s, p) = Node2(s, q) => p[1] = q[1]
  /\ Reaches2(s, p) /\ Reaches3(s, q) => Node2(s, p) # Node3(s, q)
  /\ Reaches2(s, p) /\ Reaches4(s, q) => Node2(s, p) # Node4(s, q)
  /\ Reaches3(s, p) /\ Reaches3(s, q) /\ Node3(s, p) = Node3(s, q) => p[1] = q[1] /\ p[2] = q[2]
  /\ Reaches3(s, p) /\ Reaches4(s, q) => Node3(s, p) # Node4(s, q)
  /\ Reaches4(s, p) /\ Reaches4(s, q) /\ Node4(s, p) = Node4(s, q) =>
       p[1] = q[1] /\ p[2] = q[2] /\ p[3] = q[3]

\* Links between tables allow everything and are never large pages, so what
\* a page permits is what its leaf says.
Proper(e) == e.present => ~e.large /\ e.flags = All
Linked(s, p) ==
  /\ root[s] # NoRoot => Proper(Entry1(s, p))
  /\ Reaches2(s, p) => Proper(Entry2(s, p))
  /\ Reaches3(s, p) => Proper(Entry3(s, p))

\* Only pages that vm_map accepts are ever mapped.
Asked(s, p) ==
  LeafPresent(s, p) =>
    Leaf(s, p).frame \in Frame /\ Leaf(s, p).flags \in FlagSets /\ p # ZeroPage

Trees == \A s \in Space, p \in Paths :
  /\ Inside(s, p) /\ Linked(s, p) /\ Asked(s, p)
  /\ \A q \in Paths : Apart(s, p, q)

RootsOwned == \A s \in Space : root[s] # NoRoot => root[s] \in tables[s]

\* The walk for p reaches table t at level k.
OnPath(s, p, k, t) ==
  /\ k = 1 => t = root[s]
  /\ k = 2 => Reaches2(s, p) /\ t = Node2(s, p)
  /\ k = 3 => Reaches3(s, p) /\ t = Node3(s, p)
  /\ k = 4 => Reaches4(s, p) /\ t = Node4(s, p)

\* A vm_map in progress stands at the table its path leads to, and the page
\* is still not mapped.
WalkAt(s, p, k, t) ==
  walk # Idle /\ walk.space = s /\ walk.page = p /\ walk.level = k /\ walk.table = t
WalkOnPath ==
  \A s \in Space, p \in Page, k \in 1 .. 4, t \in Frame : WalkAt(s, p, k, t) =>
    /\ root[s] # NoRoot /\ LowerHalf(p) /\ p # ZeroPage
    /\ ~LeafPresent(s, p)
    /\ OnPath(s, p, k, t)

\* The inductive invariant.
VMInv ==
  /\ TypeOK /\ EveryPageHasOneOwner /\ RootsOwned /\ KernelHalfIntact
  /\ Trees /\ WalkOnPath /\ NoStaleTranslation

-----------------------------------------------------------------------------
(* Walks.                                                                  *)

\* Every entry a walk reads is an entry.
LEMMA EntriesTyped ==
  ASSUME TypeOK, NEW s \in Space, NEW p \in Paths
  PROVE  /\ Entry1(s, p) \in Entry /\ Entry2(s, p) \in Entry
         /\ Entry3(s, p) \in Entry /\ Leaf(s, p) \in Entry
<1>1. p[1] \in Index /\ p[2] \in Index /\ p[3] \in Index /\ p[4] \in Index
  BY DEF Paths
<1>2. \A f \in Physical, i \in Index : mem[f][i] \in Entry
  BY DEF TypeOK
<1>3. \A e \in Entry : e.frame \in Physical
  BY DEF Entry
<1>4. Table1(s) \in Physical
  BY DEF TypeOK, Table1, Physical
<1>5. Entry1(s, p) \in Entry
  BY <1>1, <1>2, <1>4 DEF Entry1
<1>6. Entry2(s, p) \in Entry
  BY <1>1, <1>2, <1>3, <1>5 DEF Entry2
<1>7. Entry3(s, p) \in Entry
  BY <1>1, <1>2, <1>3, <1>6 DEF Entry3
<1>8. Leaf(s, p) \in Entry
  BY <1>1, <1>2, <1>3, <1>7 DEF Leaf
<1>9. QED BY <1>5, <1>6, <1>7, <1>8

\* A step leaves the tables that the walk for p in space s meets as they are,
\* or the whole walk.
SameTables(s, p) ==
  /\ root'[s] = root[s]
  /\ root[s] # NoRoot => Entry1(s, p)' = Entry1(s, p)
  /\ Reaches2(s, p)' <=> Reaches2(s, p)
  /\ Reaches2(s, p) => Entry2(s, p)' = Entry2(s, p)
  /\ Reaches3(s, p)' <=> Reaches3(s, p)
  /\ Reaches3(s, p) => Entry3(s, p)' = Entry3(s, p)
  /\ Reaches4(s, p)' <=> Reaches4(s, p)
Same(s, p) ==
  /\ SameTables(s, p)
  /\ Reaches4(s, p) => Leaf(s, p)' = Leaf(s, p)

\* Reaching a level means reaching the ones above.
LEMMA ReachesDown ==
  ASSUME NEW s \in Space, NEW p
  PROVE  /\ Reaches4(s, p) => Reaches3(s, p)
         /\ Reaches3(s, p) => Reaches2(s, p)
         /\ Reaches2(s, p) => root[s] # NoRoot
BY DEF Reaches2, Reaches3, Reaches4

\* Then vm_lookup returns what it returned before.
LEMMA SameLookup ==
  ASSUME NEW s \in Space, NEW p, Same(s, p)
  PROVE  /\ LeafPresent(s, p)' <=> LeafPresent(s, p)
         /\ Lookup(s, p)' = Lookup(s, p)
<1>1. LeafPresent(s, p)' <=> LeafPresent(s, p)
  BY DEF Same, SameTables, LeafPresent
<1>2. CASE LeafPresent(s, p)
  <2>1. Reaches4(s, p) /\ Reaches3(s, p) /\ Reaches2(s, p) /\ root[s] # NoRoot
    BY <1>2, ReachesDown DEF LeafPresent
  <2>2. /\ Entry1(s, p)' = Entry1(s, p) /\ Entry2(s, p)' = Entry2(s, p)
        /\ Entry3(s, p)' = Entry3(s, p) /\ Leaf(s, p)' = Leaf(s, p)
    BY <2>1 DEF Same, SameTables
  <2>3. QED BY <1>1, <1>2, <2>2 DEF Lookup
<1>3. CASE ~LeafPresent(s, p)
  BY <1>1, <1>3 DEF Lookup
<1>4. QED BY <1>1, <1>2, <1>3

\* A step that writes to no entry on the path leaves the walk alone.  The
\* four facts are about one level each.
LEMMA WalkUntouched ==
  ASSUME NEW s \in Space, NEW p \in Paths, root'[s] = root[s],
         root[s] # NoRoot => mem'[root[s]][p[1]] = mem[root[s]][p[1]],
         Reaches2(s, p) => mem'[Node2(s, p)][p[2]] = mem[Node2(s, p)][p[2]],
         Reaches3(s, p) => mem'[Node3(s, p)][p[3]] = mem[Node3(s, p)][p[3]],
         Reaches4(s, p) => mem'[Node4(s, p)][p[4]] = mem[Node4(s, p)][p[4]]
  PROVE  Same(s, p)
<1>1. root[s] # NoRoot => Entry1(s, p)' = Entry1(s, p)
  BY DEF Entry1, Table1
<1>2. Reaches2(s, p)' <=> Reaches2(s, p)
  BY <1>1 DEF Reaches2
<1>3. Reaches2(s, p) => Entry2(s, p)' = Entry2(s, p)
  BY <1>1, ReachesDown DEF Entry2, Node2
<1>4. Reaches3(s, p)' <=> Reaches3(s, p)
  BY <1>2, <1>3 DEF Reaches3
<1>5. Reaches3(s, p) => Entry3(s, p)' = Entry3(s, p)
  BY <1>3, ReachesDown DEF Entry3, Node3
<1>6. Reaches4(s, p)' <=> Reaches4(s, p)
  BY <1>4, <1>5 DEF Reaches4
<1>7. Reaches4(s, p) => Leaf(s, p)' = Leaf(s, p)
  BY <1>5, ReachesDown DEF Leaf, Node4
<1>8. QED
  BY <1>1, <1>2, <1>3, <1>4, <1>5, <1>6, <1>7 DEF Same, SameTables

\* A step that writes to no table of the space leaves all its walks alone.
LEMMA SpaceUntouched ==
  ASSUME RootsOwned, Trees, NEW s \in Space, root'[s] = root[s],
         \A g \in tables[s] : mem'[g] = mem[g], NEW p \in Paths
  PROVE  Same(s, p)
<1>1. root[s] # NoRoot => root[s] \in tables[s]
  BY DEF RootsOwned
<1>2. Inside(s, p)
  BY DEF Trees
<1>3. QED
  BY <1>1, <1>2, WalkUntouched DEF Inside

\* What the tree says of walks whose tables have not changed.
LEMMA SameTree ==
  ASSUME NEW s \in Space, NEW p \in Paths, SameTables(s, p), tables[s] \subseteq tables'[s]
  PROVE  /\ Inside(s, p) => Inside(s, p)'
         /\ Linked(s, p) => Linked(s, p)'
         /\ Same(s, p) /\ Asked(s, p) => Asked(s, p)'
<1>1. /\ Reaches2(s, p) => Node2(s, p)' = Node2(s, p)
      /\ Reaches3(s, p) => Node3(s, p)' = Node3(s, p)
      /\ Reaches4(s, p) => Node4(s, p)' = Node4(s, p)
  BY ReachesDown DEF SameTables, Node2, Node3, Node4
<1>2. Inside(s, p) => Inside(s, p)'
  BY <1>1 DEF SameTables, Inside
<1>3. Linked(s, p) => Linked(s, p)'
  BY DEF SameTables, Linked, Proper
<1>4. Same(s, p) /\ Asked(s, p) => Asked(s, p)'
  BY DEF Same, SameTables, Asked, LeafPresent
<1>5. QED BY <1>2, <1>3, <1>4

\* Walks whose tables have not changed still meet only where their paths agree.
LEMMA SameApart ==
  ASSUME NEW s \in Space, NEW p \in Paths, NEW q \in Paths,
         SameTables(s, p), SameTables(s, q)
  PROVE  Apart(s, p, q) => Apart(s, p, q)'
<1>1. /\ Reaches2(s, p) => Node2(s, p)' = Node2(s, p)
      /\ Reaches3(s, p) => Node3(s, p)' = Node3(s, p)
      /\ Reaches4(s, p) => Node4(s, p)' = Node4(s, p)
  BY ReachesDown DEF SameTables, Node2, Node3, Node4
<1>2. /\ Reaches2(s, q) => Node2(s, q)' = Node2(s, q)
      /\ Reaches3(s, q) => Node3(s, q)' = Node3(s, q)
      /\ Reaches4(s, q) => Node4(s, q)' = Node4(s, q)
  BY ReachesDown DEF SameTables, Node2, Node3, Node4
<1>3. QED
  BY <1>1, <1>2 DEF SameTables, Apart


-----------------------------------------------------------------------------
(* A write to one entry of one table.                                      *)

\* The paths p and q lead through the same entry at level k.
Agree(p, q, k) ==
  /\ p[1] = q[1]
  /\ k \in {2, 3, 4} => p[2] = q[2]
  /\ k \in {3, 4} => p[3] = q[3]
  /\ k = 4 => p[4] = q[4]

\* Walks with the same indices read the same entries.
LEMMA AgreeingWalks ==
  ASSUME NEW s \in Space, NEW p \in Paths, NEW q \in Paths, p[1] = q[1]
  PROVE  /\ Entry1(s, q) = Entry1(s, p) /\ (Reaches2(s, q) <=> Reaches2(s, p))
         /\ p[2] = q[2] => /\ Entry2(s, q) = Entry2(s, p)
                           /\ Reaches3(s, q) <=> Reaches3(s, p)
         /\ p[2] = q[2] /\ p[3] = q[3] => /\ Entry3(s, q) = Entry3(s, p)
                                          /\ Reaches4(s, q) <=> Reaches4(s, p)
         /\ p[2] = q[2] /\ p[3] = q[3] /\ p[4] = q[4] => Leaf(s, q) = Leaf(s, p)
<1>1. Entry1(s, q) = Entry1(s, p) /\ (Reaches2(s, q) <=> Reaches2(s, p))
  BY DEF Entry1, Reaches2, Paths, LowerHalf
<1>2. p[2] = q[2] => Entry2(s, q) = Entry2(s, p) /\ (Reaches3(s, q) <=> Reaches3(s, p))
  BY <1>1 DEF Entry2, Reaches3
<1>3. p[2] = q[2] /\ p[3] = q[3] =>
        Entry3(s, q) = Entry3(s, p) /\ (Reaches4(s, q) <=> Reaches4(s, p))
  BY <1>2 DEF Entry3, Reaches4
<1>4. p[2] = q[2] /\ p[3] = q[3] /\ p[4] = q[4] => Leaf(s, q) = Leaf(s, p)
  BY <1>3 DEF Leaf
<1>5. QED BY <1>1, <1>2, <1>3, <1>4

\* Two paths through all four entries are one path.
LEMMA AgreeingPaths ==
  ASSUME NEW p \in Paths, NEW q \in Paths, Agree(p, q, 4)
  PROVE  p = q
<1>1. p \in [1 .. 4 -> Index] /\ q \in [1 .. 4 -> Index]
  BY DEF Paths
<1>2. \A m \in 1 .. 4 : p[m] = q[m]
  BY DEF Agree
<1>3. QED BY <1>1, <1>2

\* Space s is written at the entry where the walk for p stands at level k,
\* and nowhere else.
WritesAt(s, p, k, t) ==
  /\ root'[s] = root[s] /\ root[s] # NoRoot /\ OnPath(s, p, k, t)
  /\ \A g \in tables[s], i \in Index : g # t \/ i # p[k] => mem'[g][i] = mem[g][i]

\* Then every walk that does not pass through that entry is unchanged: in a
\* tree no other path leads to the same table.
LEMMA WriteElsewhere ==
  ASSUME RootsOwned, Trees, NEW s \in Space, NEW p \in Paths, NEW k \in 1 .. 4, NEW t,
         WritesAt(s, p, k, t), NEW q \in Paths, ~Agree(p, q, k)
  PROVE  Same(s, q)
<1>1. /\ root[s] \in tables[s] /\ root[s] # NoRoot
      /\ Inside(s, p) /\ Inside(s, q) /\ Apart(s, p, q) /\ Apart(s, q, p)
  BY DEF RootsOwned, Trees, WritesAt
<1>2. q[1] \in Index /\ q[2] \in Index /\ q[3] \in Index /\ q[4] \in Index
  BY DEF Paths
<1>3. SUFFICES
        /\ root[s] # t \/ q[1] # p[k]
        /\ Reaches2(s, q) => Node2(s, q) # t \/ q[2] # p[k]
        /\ Reaches3(s, q) => Node3(s, q) # t \/ q[3] # p[k]
        /\ Reaches4(s, q) => Node4(s, q) # t \/ q[4] # p[k]
  <2>1. /\ mem'[root[s]][q[1]] = mem[root[s]][q[1]]
        /\ Reaches2(s, q) => mem'[Node2(s, q)][q[2]] = mem[Node2(s, q)][q[2]]
        /\ Reaches3(s, q) => mem'[Node3(s, q)][q[3]] = mem[Node3(s, q)][q[3]]
        /\ Reaches4(s, q) => mem'[Node4(s, q)][q[4]] = mem[Node4(s, q)][q[4]]
    BY <1>1, <1>2, <1>3 DEF WritesAt, Inside
  <2>2. QED
    BY <2>1, WalkUntouched DEF WritesAt
<1>4. CASE k = 1
  BY <1>1, <1>4 DEF WritesAt, OnPath, Inside, Agree
<1>5. CASE k = 2
  <2>1. Reaches2(s, p) /\ t = Node2(s, p)
    BY <1>5 DEF WritesAt, OnPath
  <2>2. QED BY <1>1, <1>5, <2>1 DEF Inside, Apart, Agree
<1>6. CASE k = 3
  <2>1. Reaches3(s, p) /\ t = Node3(s, p)
    BY <1>6 DEF WritesAt, OnPath
  <2>2. QED BY <1>1, <1>6, <2>1 DEF Inside, Apart, Agree
<1>7. CASE k = 4
  <2>1. Reaches4(s, p) /\ t = Node4(s, p)
    BY <1>7 DEF WritesAt, OnPath
  <2>2. QED BY <1>1, <1>7, <2>1 DEF Inside, Apart, Agree
<1>8. QED BY <1>4, <1>5, <1>6, <1>7

\* A walk that does pass through it is the same down to that table, and then
\* reads the new entry.
LEMMA WriteThrough ==
  ASSUME RootsOwned, Trees, NEW s \in Space, NEW p \in Paths, NEW k \in 1 .. 4, NEW t,
         WritesAt(s, p, k, t), NEW q \in Paths, Agree(p, q, k)
  PROVE  /\ k = 1 => Entry1(s, q)' = mem'[t][p[k]]
         /\ k = 2 => /\ Reaches2(s, q) /\ Reaches2(s, q)' /\ Entry1(s, q)' = Entry1(s, q)
                     /\ Node2(s, q) = t /\ Entry2(s, q)' = mem'[t][p[k]]
         /\ k = 3 => /\ Reaches3(s, q) /\ Reaches3(s, q)' /\ Entry1(s, q)' = Entry1(s, q)
                     /\ Entry2(s, q)' = Entry2(s, q)
                     /\ Node3(s, q) = t /\ Entry3(s, q)' = mem'[t][p[k]]
         /\ k = 4 => /\ Reaches4(s, q) /\ Reaches4(s, q)' /\ Entry1(s, q)' = Entry1(s, q)
                     /\ Entry2(s, q)' = Entry2(s, q) /\ Entry3(s, q)' = Entry3(s, q)
                     /\ Node4(s, q) = t /\ Leaf(s, q)' = mem'[t][p[k]]
<1>1. /\ root[s] \in tables[s] /\ root[s] # NoRoot /\ root'[s] = root[s]
      /\ Inside(s, q) /\ Apart(s, q, q)
  BY DEF RootsOwned, Trees, WritesAt
<1>2. q[1] \in Index /\ q[2] \in Index /\ q[3] \in Index /\ LowerHalf(q)
  BY DEF Paths
<1>3. k = 1 => Entry1(s, q)' = mem'[t][p[k]]
  BY <1>1 DEF WritesAt, OnPath, Entry1, Table1, Agree
<1>4. ASSUME Reaches2(s, q), root[s] # t
      PROVE  Entry1(s, q)' = Entry1(s, q) /\ Reaches2(s, q)' /\ Node2(s, q)' = Node2(s, q)
  <2>1. Entry1(s, q)' = Entry1(s, q)
    BY <1>1, <1>2, <1>4 DEF Entry1, Table1, WritesAt
  <2>2. QED BY <1>1, <1>4, <2>1 DEF Reaches2, Node2
<1>5. ASSUME Reaches3(s, q), root[s] # t, Node2(s, q) # t
      PROVE  Entry2(s, q)' = Entry2(s, q) /\ Reaches3(s, q)' /\ Node3(s, q)' = Node3(s, q)
  <2>1. Reaches2(s, q) /\ Node2(s, q) \in tables[s]
    BY <1>1, <1>5, ReachesDown DEF Inside
  <2>2. Entry2(s, q)' = Entry2(s, q)
    BY <1>2, <1>4, <1>5, <2>1 DEF Entry2, Node2, WritesAt
  <2>3. QED BY <1>4, <1>5, <2>1, <2>2 DEF Reaches3, Node3
<1>6. ASSUME Reaches4(s, q), root[s] # t, Node2(s, q) # t, Node3(s, q) # t
      PROVE  Entry3(s, q)' = Entry3(s, q) /\ Reaches4(s, q)' /\ Node4(s, q)' = Node4(s, q)
  <2>1. Reaches3(s, q) /\ Node3(s, q) \in tables[s]
    BY <1>1, <1>6, ReachesDown DEF Inside
  <2>2. Entry3(s, q)' = Entry3(s, q)
    BY <1>2, <1>5, <1>6, <2>1 DEF Entry3, Node3, WritesAt
  <2>3. QED BY <1>5, <1>6, <2>1, <2>2 DEF Reaches4, Node4
<1>7. CASE k = 2
  <2>1. Reaches2(s, q) /\ t = Node2(s, q) /\ p[k] = q[2] /\ root[s] # t
    BY <1>1, <1>7, AgreeingWalks DEF WritesAt, OnPath, Agree, Node2, Inside
  <2>2. QED BY <1>4, <1>7, <2>1 DEF Entry2, Node2
<1>8. CASE k = 3
  <2>1. Reaches3(s, q) /\ t = Node3(s, q) /\ p[k] = q[3]
    BY <1>8, AgreeingWalks DEF WritesAt, OnPath, Agree, Node3
  <2>2. Reaches2(s, q) /\ root[s] # t /\ Node2(s, q) # t
    BY <1>1, <2>1, ReachesDown DEF Inside, Apart
  <2>3. QED BY <1>4, <1>5, <1>8, <2>1, <2>2 DEF Entry3, Node3
<1>9. CASE k = 4
  <2>1. Reaches4(s, q) /\ t = Node4(s, q) /\ p[k] = q[4]
    BY <1>9, AgreeingWalks DEF WritesAt, OnPath, Agree, Node4
  <2>2. /\ Reaches2(s, q) /\ Reaches3(s, q) /\ root[s] # t
        /\ Node2(s, q) # t /\ Node3(s, q) # t
    BY <1>1, <2>1, ReachesDown DEF Inside, Apart
  <2>3. QED BY <1>4, <1>5, <1>6, <1>9, <2>1, <2>2 DEF Leaf, Node4
<1>10. QED BY <1>3, <1>7, <1>8, <1>9

-----------------------------------------------------------------------------
(* Steps that do not write to tables.                                      *)

\* Markers differ from what they stand in for.
LEMMA Markers ==
  /\ NoRoot \notin Frame /\ BootRoot \notin Frame /\ KernelTable \notin Frame
  /\ BootRoot # KernelTable /\ NoRoot # BootRoot
  /\ Frame \subseteq Physical /\ BootRoot \in Physical /\ KernelTable \in Physical
BY VMAssumption DEF Physical

\* The pages callers ask for in the lower half are paths.
LEMMA PagesArePaths ==
  ASSUME NEW p \in Page, LowerHalf(p)
  PROVE  p \in Paths
BY VMAssumption DEF Paths

\* So is every page that is mapped.
LEMMA MappedIsPath ==
  ASSUME NEW s \in Space, NEW p \in Page, LeafPresent(s, p)
  PROVE  p \in Paths
BY PagesArePaths DEF LeafPresent, Reaches4, Reaches3, Reaches2

\* If all walks are as they were, the trees are.
LEMMA TreesSame ==
  ASSUME Trees, \A s \in Space, p \in Paths : Same(s, p),
         \A s \in Space : tables[s] \subseteq tables'[s]
  PROVE  Trees'
<1>1. ASSUME NEW s \in Space, NEW p \in Paths
      PROVE  Inside(s, p)' /\ Linked(s, p)' /\ Asked(s, p)'
  BY SameTree DEF Trees, Same
<1>2. ASSUME NEW s \in Space, NEW p \in Paths, NEW q \in Paths
      PROVE  Apart(s, p, q)'
  BY SameApart DEF Trees, Same
<1>3. QED BY <1>1, <1>2 DEF Trees

\* A step that writes no table changes no walk.
LEMMA QuietStep ==
  ASSUME VMInv, UNCHANGED <<mem, root, tables>>
  PROVE  /\ \A s \in Space, p \in Paths : Same(s, p)
         /\ Trees' /\ RootsOwned' /\ KernelHalfIntact'
<1>1. \A s \in Space, p \in Paths : Same(s, p)
  BY SpaceUntouched DEF VMInv
<1>2. Trees'
  BY <1>1, TreesSame DEF VMInv
<1>3. RootsOwned' /\ KernelHalfIntact'
  BY DEF VMInv, RootsOwned, KernelHalfIntact
<1>4. QED BY <1>1, <1>2, <1>3

\* Cached translations survive as long as the walks they came from do.
LEMMA CacheKept ==
  ASSUME TypeOK, NoStaleTranslation, tlb' \subseteq tlb, cr3' = cr3,
         \A t \in tlb', s \in Space : root[s] = cr3 /\ LeafPresent(s, t.page) => Same(s, t.page)
  PROVE  NoStaleTranslation'
<1> SUFFICES ASSUME NEW t \in tlb'
             PROVE  \E s \in Space : root'[s] = cr3' /\ Lookup(s, t.page)' = t.to
  BY DEF NoStaleTranslation
<1>1. PICK s \in Space : root[s] = cr3 /\ Lookup(s, t.page) = t.to
  BY DEF NoStaleTranslation
<1>2. t.to # NotMapped
  BY MarkerAssumption DEF TypeOK
<1>3. LeafPresent(s, t.page)
  BY <1>1, <1>2 DEF Lookup
<1>4. Same(s, t.page)
  BY <1>1, <1>3
<1>5. Lookup(s, t.page)' = Lookup(s, t.page) /\ root'[s] = root[s]
  BY <1>4, SameLookup DEF Same, SameTables
<1>6. QED BY <1>1, <1>5

\* Then what is cached still holds.
LEMMA CacheQuiet ==
  ASSUME VMInv, UNCHANGED <<mem, root, tables>>, tlb' \subseteq tlb, cr3' = cr3
  PROVE  NoStaleTranslation'
<1>1. \A s \in Space, p \in Paths : Same(s, p)
  BY QuietStep
<1>2. ASSUME NEW t \in tlb', NEW s \in Space, LeafPresent(s, t.page) PROVE Same(s, t.page)
  BY <1>1, <1>2, MappedIsPath DEF VMInv, TypeOK
<1>3. QED BY <1>2, CacheKept DEF VMInv

\* A walk in progress, when the walk for its page is as it was.
LEMMA OnPathKept ==
  ASSUME NEW s \in Space, NEW p \in Paths, NEW k \in 1 .. 4, NEW t, Same(s, p),
         OnPath(s, p, k, t)
  PROVE  OnPath(s, p, k, t)'
<1>1. /\ Reaches2(s, p) => Node2(s, p)' = Node2(s, p)
      /\ Reaches3(s, p) => Node3(s, p)' = Node3(s, p)
      /\ Reaches4(s, p) => Node4(s, p)' = Node4(s, p)
  BY ReachesDown DEF Same, SameTables, Node2, Node3, Node4
<1>2. QED BY <1>1 DEF Same, SameTables, OnPath

\* A vm_map in progress stays on its path while no table is written.
LEMMA WalkQuiet ==
  ASSUME VMInv, UNCHANGED <<mem, root, tables, walk>>
  PROVE  WalkOnPath'
<1> SUFFICES ASSUME NEW s \in Space, NEW p \in Page, NEW k \in 1 .. 4, NEW t \in Frame,
                    WalkAt(s, p, k, t)'
             PROVE  /\ root'[s] # NoRoot /\ LowerHalf(p) /\ p # ZeroPage
                    /\ ~LeafPresent(s, p)' /\ OnPath(s, p, k, t)'
  BY DEF WalkOnPath, LowerHalf, ZeroPage
<1>1. WalkAt(s, p, k, t)
  BY DEF WalkAt
<1>2. /\ root[s] # NoRoot /\ LowerHalf(p) /\ p # ZeroPage
      /\ ~LeafPresent(s, p) /\ OnPath(s, p, k, t)
  BY <1>1 DEF VMInv, WalkOnPath
<1>3. p \in Paths /\ Same(s, p)
  BY <1>2, PagesArePaths, QuietStep
<1>4. QED BY <1>2, <1>3, OnPathKept, SameLookup

\* When no vm_map is in progress there is nothing to say of it.
LEMMA WalkIdle == walk' = Idle => WalkOnPath'
BY DEF WalkOnPath, WalkAt

\* No space exists at the start, so there are no walks.
LEMMA VMInit == Init => VMInv
<1> SUFFICES ASSUME Init PROVE VMInv
  OBVIOUS
<1> USE DEF Init
<1>1. BootTable \in [Index -> Entry] /\ Zeroed \in [Index -> Entry] /\ Junk \in [Index -> Entry]
  <2>1. Link(KernelTable, All) \in Entry /\ Absent \in Entry
    BY Markers DEF Link, Absent, Entry, All
  <2>2. QED BY <2>1 DEF BootTable, Zeroed, Junk
<1>2. TypeOK
  <2>1. mem \in [Physical -> [Index -> Entry]]
    BY <1>1
  <2>2. QED BY <2>1 DEF TypeOK
<1>3. EveryPageHasOneOwner
  <2>1. Cardinality({}) = 0
    BY FS_EmptySet
  <2>2. QED BY <2>1, VMAssumption DEF EveryPageHasOneOwner
<1>4. RootsOwned /\ KernelHalfIntact
  BY Markers DEF RootsOwned, KernelHalfIntact
<1>5. Trees
  BY DEF Trees, Inside, Linked, Asked, Apart, LeafPresent, Reaches2, Reaches3, Reaches4
<1>6. WalkOnPath /\ NoStaleTranslation
  BY DEF WalkOnPath, WalkAt, NoStaleTranslation
<1>7. QED BY <1>2, <1>3, <1>4, <1>5, <1>6 DEF VMInv

\* The processor caches a translation that holds.
LEMMA TlbFillStep ==
  ASSUME VMInv, NEW s \in Space, NEW p \in Page, TlbFill(s, p)
  PROVE  VMInv'
<1>1. /\ root[s] = cr3 /\ Lookup(s, p) # NotMapped
      /\ tlb' = tlb \cup {[page |-> p, to |-> Lookup(s, p)]}
      /\ UNCHANGED <<allocated, data, mem, root, tables, walk, cr3, panicked>>
  BY DEF TlbFill, spaces
<1>2. LeafPresent(s, p) /\ p \in Paths
  BY <1>1, MappedIsPath DEF Lookup
<1>3. TypeOK'
  <2>1. Lookup(s, p) \in [frame : Physical, flags : SUBSET All]
    <3>1. Entry1(s, p) \in Entry /\ Leaf(s, p) \in Entry
      BY <1>2, EntriesTyped DEF VMInv
    <3>2. QED BY <1>2, <3>1 DEF Lookup, Entry
  <2>2. [page |-> p, to |-> Lookup(s, p)] \in
          [page : Page, to : [frame : Physical, flags : SUBSET All]]
    BY <2>1
  <2>3. QED BY <1>1, <2>2 DEF VMInv, TypeOK
<1>4. EveryPageHasOneOwner'
  BY <1>1 DEF VMInv, EveryPageHasOneOwner
<1>5. Trees' /\ RootsOwned' /\ KernelHalfIntact' /\ WalkOnPath'
  BY <1>1, QuietStep, WalkQuiet
<1>6. NoStaleTranslation'
  <2>1. ASSUME NEW r \in Space, NEW q \in Page, LeafPresent(r, q)
        PROVE  root'[r] = root[r] /\ Lookup(r, q)' = Lookup(r, q)
    BY <1>1, <2>1, MappedIsPath, QuietStep, SameLookup DEF Same, SameTables
  <2>2. ASSUME NEW t \in tlb'
        PROVE  \E r \in Space : root'[r] = cr3' /\ Lookup(r, t.page)' = t.to
    <3>1. PICK r \in Space : root[r] = cr3 /\ Lookup(r, t.page) = t.to
      BY <1>1 DEF VMInv, NoStaleTranslation
    <3>2. t.page \in Page /\ t.to # NotMapped
      BY <1>1, MarkerAssumption DEF VMInv, TypeOK
    <3>3. LeafPresent(r, t.page)
      BY <3>1, <3>2 DEF Lookup
    <3>4. QED BY <1>1, <2>1, <3>1, <3>2, <3>3
  <2>3. QED BY <2>2 DEF NoStaleTranslation
<1>7. QED BY <1>3, <1>4, <1>5, <1>6 DEF VMInv

\* vm_map starts at the root; vm_map_fails gives up.
LEMMA MapBeginStep ==
  ASSUME VMInv, NEW s \in Space, NEW p \in Page, NEW f \in Frame, NEW flags \in FlagSets,
         vm_map(s, p, f, flags)
  PROVE  VMInv'
<1>1. /\ MapAccepted(s, p, f) /\ UNCHANGED <<allocated, data, mem, root, tables, cr3, tlb, panicked>>
      /\ walk' = [space |-> s, page |-> p, frame |-> f, flags |-> flags,
                  level |-> 1, table |-> root[s]]
  BY DEF vm_map, spaces
<1>2. root[s] \in Frame
  BY <1>1 DEF MapAccepted, VMInv, TypeOK
<1>3. TypeOK'
  <2>1. walk' \in Walk
    BY <1>1, <1>2 DEF Walk
  <2>2. QED BY <1>1, <2>1 DEF VMInv, TypeOK
<1>4. EveryPageHasOneOwner'
  BY <1>1 DEF VMInv, EveryPageHasOneOwner
<1>5. Trees' /\ RootsOwned' /\ KernelHalfIntact' /\ NoStaleTranslation'
  BY <1>1, QuietStep, CacheQuiet
<1>6. WalkOnPath'
  <2> SUFFICES ASSUME NEW r \in Space, NEW q \in Page, NEW k \in 1 .. 4, NEW t \in Frame,
                      WalkAt(r, q, k, t)'
               PROVE  /\ root'[r] # NoRoot /\ LowerHalf(q) /\ q # ZeroPage
                      /\ ~LeafPresent(r, q)' /\ OnPath(r, q, k, t)'
    BY DEF WalkOnPath, LowerHalf, ZeroPage
  <2>1. r = s /\ q = p /\ k = 1 /\ t = root[s]
    BY <1>1 DEF WalkAt
  <2>2. root[s] # NoRoot /\ LowerHalf(p) /\ p # ZeroPage /\ ~LeafPresent(s, p)
    BY <1>1 DEF MapAccepted
  <2>3. ~LeafPresent(s, p)'
    BY <1>1, <2>2, PagesArePaths, QuietStep, SameLookup
  <2>4. QED BY <1>1, <2>1, <2>2, <2>3 DEF OnPath
<1>7. QED BY <1>3, <1>4, <1>5, <1>6 DEF VMInv

\* vm_map goes one level down: to the next table on the path of its page.
LEMMA DescendEffect ==
  ASSUME VMInv, vm_map_descend
  PROVE  \E s \in Space, p \in Page, k \in 1 .. 3, t \in Frame :
           /\ WalkAt(s, p, k, t)
           /\ root[s] # NoRoot /\ LowerHalf(p) /\ p # ZeroPage
           /\ ~LeafPresent(s, p) /\ p \in Paths
           /\ OnPath(s, p, k + 1, Here.frame) /\ Here.frame \in Frame
<1>1. walk # Idle /\ walk.level < 4 /\ Descends(Here)
  BY DEF vm_map_descend, Walking
<1>2. walk \in Walk
  BY <1>1 DEF VMInv, TypeOK
<1>3. PICK s \in Space, p \in Page, k \in 1 .. 3, t \in Frame : WalkAt(s, p, k, t)
  BY <1>1, <1>2 DEF Walk, WalkAt
<1>4. /\ root[s] # NoRoot /\ LowerHalf(p) /\ p # ZeroPage
      /\ ~LeafPresent(s, p) /\ OnPath(s, p, k, t) /\ p \in Paths
  BY <1>3, PagesArePaths DEF VMInv, WalkOnPath
<1>5. Here = mem[t][p[k]]
  BY <1>3 DEF WalkAt, Here
<1>6. OnPath(s, p, k + 1, Here.frame)
  <2>1. CASE k = 1
    BY <1>1, <1>4, <1>5, <2>1 DEF OnPath, Reaches2, Entry1, Table1, Node2
  <2>2. CASE k = 2
    BY <1>1, <1>4, <1>5, <2>2 DEF OnPath, Reaches3, Entry2, Node2, Node3
  <2>3. CASE k = 3
    BY <1>1, <1>4, <1>5, <2>3 DEF OnPath, Reaches4, Entry3, Node3, Node4
  <2>4. QED BY <2>1, <2>2, <2>3
<1>7. Here.frame \in Frame
  <2>1. Inside(s, p) /\ tables[s] \subseteq Frame
    BY <1>4 DEF VMInv, TypeOK, Trees
  <2>2. QED BY <1>6, <2>1 DEF OnPath, Inside
<1>8. QED BY <1>3, <1>4, <1>6, <1>7

LEMMA DescendStep == VMInv /\ vm_map_descend => VMInv'
<1> SUFFICES ASSUME VMInv, vm_map_descend PROVE VMInv'
  OBVIOUS
<1>1. /\ walk # Idle /\ walk.level < 4
      /\ UNCHANGED <<allocated, data, mem, root, tables, cr3, tlb, panicked>>
      /\ walk' = [walk EXCEPT !.level = @ + 1, !.table = Here.frame]
  BY DEF vm_map_descend, Walking, spaces
<1>2. walk \in Walk
  BY <1>1 DEF VMInv, TypeOK
<1>3. PICK s \in Space, p \in Page, k \in 1 .. 3, t \in Frame :
        /\ WalkAt(s, p, k, t)
        /\ root[s] # NoRoot /\ LowerHalf(p) /\ p # ZeroPage
        /\ ~LeafPresent(s, p) /\ p \in Paths
        /\ OnPath(s, p, k + 1, Here.frame) /\ Here.frame \in Frame
  BY DescendEffect
<1>4. TypeOK'
  <2>1. walk.level + 1 \in 1 .. 4
    BY <1>1, <1>2 DEF Walk
  <2>2. walk' \in Walk
    BY <1>1, <1>2, <1>3, <2>1 DEF Walk
  <2>3. QED BY <1>1, <2>2 DEF VMInv, TypeOK
<1>5. EveryPageHasOneOwner'
  BY <1>1 DEF VMInv, EveryPageHasOneOwner
<1>6. Trees' /\ RootsOwned' /\ KernelHalfIntact' /\ NoStaleTranslation' /\ Same(s, p)
  BY <1>1, <1>3, QuietStep, CacheQuiet
<1>7. WalkOnPath'
  <2> SUFFICES ASSUME NEW r \in Space, NEW q \in Page, NEW l \in 1 .. 4, NEW u \in Frame,
                      WalkAt(r, q, l, u)'
               PROVE  /\ root'[r] # NoRoot /\ LowerHalf(q) /\ q # ZeroPage
                      /\ ~LeafPresent(r, q)' /\ OnPath(r, q, l, u)'
    BY DEF WalkOnPath, LowerHalf, ZeroPage
  <2>1. r = s /\ q = p /\ l = k + 1 /\ u = Here.frame
    BY <1>1, <1>2, <1>3 DEF WalkAt, Walk
  <2>2. OnPath(s, p, l, u)
    BY <1>3, <2>1
  <2>3. OnPath(s, p, l, u)' /\ ~LeafPresent(s, p)'
    BY <1>3, <1>6, <2>2, OnPathKept, SameLookup
  <2>4. QED BY <1>1, <1>3, <2>1, <2>3
<1>8. QED BY <1>4, <1>5, <1>6, <1>7 DEF VMInv

\* vm_map gives up: what it has added stays with the space.
LEMMA MapFailsStep == VMInv /\ vm_map_fails => VMInv'
<1> SUFFICES ASSUME VMInv, vm_map_fails PROVE VMInv'
  OBVIOUS
<1>1. walk' = Idle /\ UNCHANGED <<allocated, data, mem, root, tables, cr3, tlb, panicked>>
  BY DEF vm_map_fails, spaces
<1>2. TypeOK' /\ EveryPageHasOneOwner'
  BY <1>1 DEF VMInv, TypeOK, EveryPageHasOneOwner
<1>3. Trees' /\ RootsOwned' /\ KernelHalfIntact' /\ NoStaleTranslation' /\ WalkOnPath'
  BY <1>1, QuietStep, CacheQuiet, WalkIdle
<1>4. QED BY <1>2, <1>3 DEF VMInv

\* vm_switch drops every cached translation.
LEMMA SwitchStep ==
  ASSUME VMInv, NEW r \in Frame \cup {BootRoot}, vm_switch(r)
  PROVE  VMInv'
<1>1. cr3' = r /\ tlb' = {} /\ UNCHANGED <<allocated, data, mem, root, tables, walk, panicked>>
  BY DEF vm_switch, spaces
<1>2. TypeOK' /\ EveryPageHasOneOwner'
  BY <1>1 DEF VMInv, TypeOK, EveryPageHasOneOwner
<1>3. Trees' /\ RootsOwned' /\ KernelHalfIntact' /\ WalkOnPath'
  BY <1>1, QuietStep, WalkQuiet
<1>4. QED BY <1>1, <1>2, <1>3 DEF VMInv, NoStaleTranslation

\* Callers take pages and return pages of their own.
LEMMA PageStep ==
  ASSUME VMInv, NEW f \in Frame, TakePage(f) \/ ReturnPage(f)
  PROVE  VMInv'
<1>1. UNCHANGED <<mem, root, tables, walk, cr3, tlb, panicked>>
  BY DEF TakePage, ReturnPage, spaces
<1>2. \/ f \notin allocated /\ allocated' = allocated \cup {f} /\ data' = data \cup {f}
      \/ f \in data /\ allocated' = allocated \ {f} /\ data' = data \ {f}
  BY DEF TakePage, ReturnPage, PageAlloc, PageFree
<1>3. TypeOK'
  BY <1>1, <1>2 DEF VMInv, TypeOK
<1>4. EveryPageHasOneOwner'
  <2>1. \A s \in Space : tables[s] \subseteq allocated /\ tables[s] \cap data = {}
    BY DEF VMInv, EveryPageHasOneOwner
  <2>2. allocated' = data' \cup UNION {tables[s] : s \in Space}
    BY <1>2, <2>1 DEF VMInv, EveryPageHasOneOwner
  <2>3. \A s \in Space : tables[s] \cap data' = {}
    BY <1>2, <2>1
  <2>4. QED BY <1>1, <2>2, <2>3 DEF VMInv, EveryPageHasOneOwner
<1>5. Trees' /\ RootsOwned' /\ KernelHalfIntact' /\ NoStaleTranslation' /\ WalkOnPath'
  BY <1>1, QuietStep, CacheQuiet, WalkQuiet
<1>6. QED BY <1>3, <1>4, <1>5 DEF VMInv

-----------------------------------------------------------------------------
(* Spaces that are created and destroyed.                                  *)

\* Trees change in one space only.
LEMMA OneTreeChanges ==
  ASSUME Trees, NEW s \in Space,
         \A r \in Space \ {s} : tables[r] \subseteq tables'[r] /\ \A p \in Paths : Same(r, p),
         \A p \in Paths : Inside(s, p)' /\ Linked(s, p)' /\ Asked(s, p)',
         \A p \in Paths : \A q \in Paths : Apart(s, p, q)'
  PROVE  Trees'
<1>1. ASSUME NEW r \in Space, NEW p \in Paths, r # s
      PROVE  Inside(r, p)' /\ Linked(r, p)' /\ Asked(r, p)'
  BY <1>1, SameTree DEF Trees, Same
<1>2. ASSUME NEW r \in Space, NEW p \in Paths, NEW q \in Paths, r # s
      PROVE  Apart(r, p, q)'
  BY <1>2, SameApart DEF Trees, Same
<1>3. QED BY <1>1, <1>2 DEF Trees

\* What the tables of two spaces have to do with each other, and with callers.
LEMMA TablesOwned ==
  ASSUME VMInv, NEW s \in Space
  PROVE  /\ tables[s] \subseteq Frame /\ tables[s] \subseteq allocated
         /\ tables[s] \cap data = {} /\ BootRoot \notin tables[s] /\ KernelTable \notin tables[s]
         /\ IsFiniteSet(tables[s]) /\ Cardinality(tables[s]) \in Nat
         /\ \A r \in Space \ {s} : tables[s] \cap tables[r] = {}
         /\ \A r \in Space : root[r] # NoRoot /\ root[r] \in tables[s] => r = s
<1>1. tables[s] \subseteq Frame
  BY DEF VMInv, TypeOK
<1>2. IsFiniteSet(tables[s]) /\ Cardinality(tables[s]) \in Nat
  BY <1>1, VMAssumption, FS_Subset, FS_CardinalityType
<1>3. tables[s] \subseteq allocated /\ tables[s] \cap data = {}
  BY DEF VMInv, EveryPageHasOneOwner
<1>4. \A r \in Space \ {s} : tables[s] \cap tables[r] = {}
  BY DEF VMInv, EveryPageHasOneOwner
<1>5. \A r \in Space : root[r] # NoRoot /\ root[r] \in tables[s] => r = s
  BY <1>4 DEF VMInv, RootsOwned
<1>6. QED BY <1>1, <1>2, <1>3, <1>4, <1>5, Markers

\* A table from page_alloc that is recorded at once keeps the ownership whole.
LEMMA TableAdded ==
  ASSUME VMInv, NEW s \in Space, NEW f \in Frame, f \notin allocated, RoomForTable(s),
         allocated' = allocated \cup {f}, UNCHANGED <<data, panicked>>,
         tables' = [tables EXCEPT ![s] = @ \cup {f}],
         root'[s] # NoRoot, \A r \in Space \ {s} : root'[r] = root[r]
  PROVE  EveryPageHasOneOwner'
<1>1. /\ tables'[s] = tables[s] \cup {f}
      /\ \A r \in Space \ {s} : tables'[r] = tables[r]
  BY DEF VMInv, TypeOK
<1>2. /\ ~panicked /\ allocated = data \cup UNION {tables[r] : r \in Space}
      /\ \A r \in Space : /\ tables[r] \cap data = {} /\ Cardinality(tables[r]) <= TableLimit
                          /\ (root[r] = NoRoot) = (tables[r] = {})
                          /\ \A v \in Space \ {r} : tables[r] \cap tables[v] = {}
  BY DEF VMInv, EveryPageHasOneOwner
<1>3. allocated' = data' \cup UNION {tables'[r] : r \in Space}
  BY <1>1, <1>2
<1>4. \A r \in Space : f \notin tables[r] /\ f \notin data
  BY <1>2
<1>5. Cardinality(tables'[s]) <= TableLimit
  <2>1. Cardinality(tables[s] \cup {f}) = Cardinality(tables[s]) + 1
    BY <1>4, TablesOwned, FS_AddElement
  <2>2. Cardinality(tables[s]) \in Nat /\ Cardinality(tables[s]) # TableLimit
    BY TablesOwned DEF RoomForTable
  <2>3. Cardinality(tables[s]) <= TableLimit /\ TableLimit \in Nat
    BY <1>2, VMAssumption
  <2>4. Cardinality(tables[s]) + 1 <= TableLimit
    BY <2>2, <2>3
  <2>5. QED BY <1>1, <2>1, <2>4
<1>6. ASSUME NEW r \in Space
      PROVE  /\ tables'[r] \cap data' = {}
             /\ Cardinality(tables'[r]) <= TableLimit
             /\ (root'[r] = NoRoot) = (tables'[r] = {})
             /\ \A v \in Space \ {r} : tables'[r] \cap tables'[v] = {}
  <2>1. CASE r = s
    <3>1. tables'[r] \cap data' = {}
      BY <1>1, <1>2, <1>4, <2>1
    <3>2. (root'[r] = NoRoot) = (tables'[r] = {})
      BY <1>1, <2>1
    <3>3. \A v \in Space \ {r} : tables'[r] \cap tables'[v] = {}
      BY <1>1, <1>2, <1>4, <2>1
    <3>4. QED BY <1>5, <2>1, <3>1, <3>2, <3>3
  <2>2. CASE r # s
    <3>1. \A v \in Space \ {r} : tables'[r] \cap tables'[v] = {}
      BY <1>1, <1>2, <1>4, <2>2
    <3>2. QED BY <1>1, <1>2, <2>2, <3>1
  <2>3. QED BY <2>1, <2>2
<1>7. QED BY <1>2, <1>3, <1>6 DEF EveryPageHasOneOwner

\* vm_create: the other spaces see nothing, and nothing is mapped in the new
\* one, which has the kernel half of the boot root.
LEMMA CreateEffect ==
  ASSUME VMInv, NEW s \in Space, vm_create(s)
  PROVE  /\ \A r \in Space \ {s}, p \in Paths : Same(r, p)
         /\ \A p \in Paths : Entry1(s, p)' = Absent /\ ~Reaches2(s, p)'
         /\ root[s] = NoRoot /\ root'[s] # NoRoot
         /\ \A r \in Space \ {s} : root'[r] = root[r]
         /\ TypeOK' /\ EveryPageHasOneOwner' /\ RootsOwned' /\ KernelHalfIntact'
<1>1. PICK f \in Frame :
        /\ RoomForTable(s) /\ f \notin allocated /\ allocated' = allocated \cup {f}
        /\ mem' = [mem EXCEPT ![f] = KernelHalf(Zeroed)]
        /\ root' = [root EXCEPT ![s] = f]
        /\ tables' = [tables EXCEPT ![s] = {f}]
  BY DEF vm_create, PageAlloc, Cleared
<1>2. /\ root[s] = NoRoot /\ tables[s] = {} /\ f # NoRoot
      /\ UNCHANGED <<data, walk, cr3, tlb, panicked>>
  BY Markers DEF vm_create
<1>3. /\ root'[s] = f /\ tables'[s] = {f}
      /\ \A r \in Space \ {s} : root'[r] = root[r] /\ tables'[r] = tables[r]
  BY <1>1 DEF VMInv, TypeOK
<1>4. mem'[f] = KernelHalf(Zeroed) /\ \A g \in Physical \ {f} : mem'[g] = mem[g]
  BY <1>1, Markers DEF VMInv, TypeOK
<1>5. \A r \in Space : f \notin tables[r] /\ tables[r] \subseteq Physical
  BY <1>1, TablesOwned, Markers
<1>6. ASSUME NEW r \in Space \ {s}, NEW p \in Paths PROVE Same(r, p)
  <2>1. \A g \in tables[r] : mem'[g] = mem[g]
    BY <1>4, <1>5
  <2>2. QED BY <1>3, <2>1, SpaceUntouched DEF VMInv
<1>7. ASSUME NEW p \in Paths PROVE Entry1(s, p)' = Absent /\ ~Reaches2(s, p)'
  <2>1. p[1] \in Index /\ p[1] \notin Upper
    BY DEF Paths, LowerHalf
  <2>2. Table1(s)' = f
    BY <1>2, <1>3 DEF Table1
  <2>3. Entry1(s, p)' = Absent
    BY <1>4, <2>1, <2>2 DEF Entry1, KernelHalf, Zeroed
  <2>4. QED BY <2>3 DEF Reaches2, Descends, Absent
<1>8. \A i \in Index : KernelHalf(Zeroed)[i] =
                         IF i \in Upper THEN Link(KernelTable, All \ {"user"}) ELSE Absent
  <2>1. ASSUME NEW i \in Upper
        PROVE  [mem[BootRoot][i] EXCEPT !.flags = @ \ {"user"}] = Link(KernelTable, All \ {"user"})
    <3>1. mem[BootRoot][i] = Link(KernelTable, All)
      BY VMAssumption DEF VMInv, KernelHalfIntact, BootTable
    <3> DEFINE X == All \ {"user"}
               e == [Link(KernelTable, All) EXCEPT !.flags = X]
    <3>2. mem[BootRoot][i].flags = All
      BY <3>1 DEF Link
    <3>3. X \in SUBSET All /\ Link(KernelTable, All) \in Entry /\ Link(KernelTable, X) \in Entry
      BY Markers DEF Link, Entry
    <3> HIDE DEF X
    <3>4. e \in Entry
      BY <3>3 DEF Entry
    <3>5. /\ e.present = Link(KernelTable, X).present /\ e.frame = Link(KernelTable, X).frame
          /\ e.flags = Link(KernelTable, X).flags /\ e.large = Link(KernelTable, X).large
      BY DEF Link
    <3>6. e = Link(KernelTable, X)
      BY <3>3, <3>4, <3>5 DEF Entry
    <3>7. QED BY <3>1, <3>2, <3>6 DEF X
  <2>2. QED BY <2>1 DEF KernelHalf, Zeroed
<1>9. TypeOK'
  <2>1. Link(KernelTable, All \ {"user"}) \in Entry /\ Absent \in Entry
    BY Markers DEF Link, Absent, Entry, All
  <2>2. KernelHalf(Zeroed) \in [Index -> Entry]
    <3>1. KernelHalf(Zeroed) = [i \in Index |-> KernelHalf(Zeroed)[i]]
      BY DEF KernelHalf
    <3>2. QED BY <1>8, <2>1, <3>1
  <2>3. mem' \in [Physical -> [Index -> Entry]]
    BY <1>1, <2>2 DEF VMInv, TypeOK
  <2>4. root' \in [Space -> Frame \cup {NoRoot}] /\ tables' \in [Space -> SUBSET Frame]
    BY <1>1 DEF VMInv, TypeOK
  <2>5. QED BY <1>1, <1>2, <2>3, <2>4 DEF VMInv, TypeOK
<1>10. EveryPageHasOneOwner'
  <2>1. tables' = [tables EXCEPT ![s] = @ \cup {f}]
    BY <1>1, <1>2 DEF VMInv, TypeOK
  <2>2. QED BY <1>1, <1>2, <1>3, <2>1, TableAdded
<1>11. RootsOwned'
  BY <1>3 DEF VMInv, RootsOwned
<1>12. KernelHalfIntact'
  <2>1. mem'[BootRoot] = BootTable' /\ mem'[KernelTable] = Zeroed'
    BY <1>4, Markers DEF VMInv, KernelHalfIntact, BootTable, Zeroed
  <2>2. ASSUME NEW r \in Space, root'[r] # NoRoot, NEW i \in Upper
        PROVE  mem'[root'[r]][i] = Link(KernelTable, All \ {"user"})
    <3>1. CASE r = s
      BY <1>3, <1>4, <1>8, <3>1, VMAssumption
    <3>2. CASE r # s
      <4>1. root'[r] = root[r] /\ root[r] \in tables[r]
        BY <1>3, <2>2, <3>2 DEF VMInv, RootsOwned
      <4>2. mem'[root[r]] = mem[root[r]]
        BY <1>4, <1>5, <4>1
      <4>3. QED BY <2>2, <4>1, <4>2 DEF VMInv, KernelHalfIntact
    <3>3. QED BY <3>1, <3>2
  <2>3. QED BY <2>1, <2>2 DEF KernelHalfIntact
<1>13. QED
  BY <1>2, <1>3, <1>6, <1>7, <1>9, <1>10, <1>11, <1>12

\* The new space has the smallest tree, and it is not the active one.
LEMMA CreateStep ==
  ASSUME VMInv, NEW s \in Space, vm_create(s)
  PROVE  VMInv'
<1>1. UNCHANGED <<walk, cr3, tlb>> /\ walk = Idle /\ root[s] = NoRoot
  BY DEF vm_create, Ready
<1>2. \A r \in Space \ {s}, p \in Paths : Same(r, p)
  BY CreateEffect
<1>3. \A p \in Paths : Entry1(s, p)' = Absent /\ ~Reaches2(s, p)'
  BY CreateEffect
<1>4. Trees'
  <2>1. \A p \in Paths : ~Reaches2(s, p)' /\ ~Reaches3(s, p)' /\ ~Reaches4(s, p)'
    BY <1>3 DEF Reaches3, Reaches4
  <2>2. \A p \in Paths : Inside(s, p)' /\ Asked(s, p)'
    BY <2>1 DEF Inside, Asked, LeafPresent
  <2>3. \A p \in Paths : Linked(s, p)'
    BY <1>3, <2>1 DEF Linked, Proper, Absent
  <2>4. \A p \in Paths : \A q \in Paths : Apart(s, p, q)'
    BY <2>1 DEF Apart
  <2>5. \A r \in Space \ {s} : tables[r] \subseteq tables'[r]
    BY DEF vm_create, VMInv, TypeOK
  <2>6. Trees
    BY DEF VMInv
  <2>7. QED BY <1>2, <2>2, <2>3, <2>4, <2>5, <2>6, OneTreeChanges
<1>5. NoStaleTranslation'
  <2>1. cr3 # root[s]
    BY <1>1, Markers DEF VMInv, TypeOK
  <2>2. ASSUME NEW t \in tlb', NEW r \in Space, root[r] = cr3, LeafPresent(r, t.page)
        PROVE  Same(r, t.page)
    BY <1>1, <1>2, <2>1, <2>2, MappedIsPath DEF VMInv, TypeOK
  <2>3. QED BY <1>1, <2>2, CacheKept DEF VMInv
<1>6. WalkOnPath'
  BY <1>1, WalkIdle
<1>7. TypeOK' /\ EveryPageHasOneOwner' /\ RootsOwned' /\ KernelHalfIntact'
  BY CreateEffect
<1>8. QED BY <1>4, <1>5, <1>6, <1>7 DEF VMInv

\* vm_destroy finds all its tables allocated, so it never panics, and the
\* other spaces keep all of theirs.
LEMMA DestroyEffect ==
  ASSUME VMInv, NEW s \in Space, vm_destroy(s)
  PROVE  /\ \A r \in Space \ {s}, p \in Paths : Same(r, p)
         /\ root[s] # NoRoot /\ root'[s] = NoRoot
         /\ \A r \in Space \ {s} : root'[r] = root[r] /\ tables'[r] = tables[r]
         /\ TypeOK' /\ EveryPageHasOneOwner' /\ RootsOwned' /\ KernelHalfIntact'
<1>1. /\ allocated' = allocated \ tables[s]
      /\ mem' = [f \in Physical |-> IF f \in tables[s] THEN Junk ELSE mem[f]]
      /\ root' = [root EXCEPT ![s] = NoRoot]
      /\ tables' = [tables EXCEPT ![s] = {}]
      /\ UNCHANGED <<data, walk, cr3, tlb, panicked>>
      /\ root[s] # NoRoot
  <2>1. tables[s] \subseteq allocated
    BY TablesOwned
  <2>2. QED BY <2>1 DEF vm_destroy, PageFree, DestroyAccepted
<1>2. /\ root'[s] = NoRoot /\ tables'[s] = {}
      /\ \A r \in Space \ {s} : root'[r] = root[r] /\ tables'[r] = tables[r]
  BY <1>1 DEF VMInv, TypeOK
<1>3. \A g \in Physical : g \notin tables[s] => mem'[g] = mem[g]
  BY <1>1
<1>4. \A r \in Space \ {s} : \A g \in tables[r] : mem'[g] = mem[g]
  <2>1. ASSUME NEW r \in Space \ {s} PROVE tables[r] \cap tables[s] = {} /\ tables[r] \subseteq Physical
    BY TablesOwned, Markers
  <2>2. QED BY <1>3, <2>1
<1>5. ASSUME NEW r \in Space \ {s}, NEW p \in Paths PROVE Same(r, p)
  BY <1>2, <1>4, SpaceUntouched DEF VMInv
<1>6. TypeOK'
  <2>1. Junk \in [Index -> Entry]
    <3>1. Link(KernelTable, All) \in Entry
      BY Markers DEF Link, Entry, All
    <3>2. QED BY <3>1 DEF Junk
  <2>2. mem' \in [Physical -> [Index -> Entry]]
    BY <1>1, <2>1 DEF VMInv, TypeOK
  <2>3. root' \in [Space -> Frame \cup {NoRoot}] /\ tables' \in [Space -> SUBSET Frame]
    BY <1>1 DEF VMInv, TypeOK
  <2>4. QED BY <1>1, <2>2, <2>3 DEF VMInv, TypeOK
<1>7. EveryPageHasOneOwner'
  <2>1. /\ ~panicked /\ allocated = data \cup UNION {tables[r] : r \in Space}
        /\ \A r \in Space : /\ tables[r] \cap data = {} /\ Cardinality(tables[r]) <= TableLimit
                            /\ (root[r] = NoRoot) = (tables[r] = {})
                            /\ \A v \in Space \ {r} : tables[r] \cap tables[v] = {}
    BY DEF VMInv, EveryPageHasOneOwner
  <2>2. allocated' = data' \cup UNION {tables'[r] : r \in Space}
    <3>1. UNION {tables[r] : r \in Space} = tables[s] \cup UNION {tables'[r] : r \in Space}
      BY <1>2
    <3>2. tables[s] \cap UNION {tables'[r] : r \in Space} = {}
      BY <1>2, <2>1
    <3>3. QED BY <1>1, <2>1, <3>1, <3>2
  <2>3. Cardinality({}) = 0
    BY FS_EmptySet
  <2>4. ASSUME NEW r \in Space
        PROVE  /\ tables'[r] \cap data' = {}
               /\ Cardinality(tables'[r]) <= TableLimit
               /\ (root'[r] = NoRoot) = (tables'[r] = {})
               /\ \A v \in Space \ {r} : tables'[r] \cap tables'[v] = {}
    <3>1. CASE r = s
      <4>1. tables'[r] = {} /\ root'[r] = NoRoot
        BY <1>2, <3>1
      <4>2. Cardinality(tables'[r]) <= TableLimit
        BY <2>3, <4>1, VMAssumption
      <4>3. QED BY <4>1, <4>2
    <3>2. CASE r # s
      BY <1>1, <1>2, <2>1, <3>2
    <3>3. QED BY <3>1, <3>2
  <2>5. QED BY <1>1, <2>1, <2>2, <2>4 DEF EveryPageHasOneOwner
<1>8. RootsOwned'
  BY <1>2 DEF VMInv, RootsOwned
<1>9. KernelHalfIntact'
  <2>1. mem'[BootRoot] = BootTable' /\ mem'[KernelTable] = Zeroed'
    BY <1>3, TablesOwned, Markers DEF VMInv, KernelHalfIntact, BootTable, Zeroed
  <2>2. ASSUME NEW r \in Space, root'[r] # NoRoot
        PROVE  root'[r] = root[r] /\ mem'[root[r]] = mem[root[r]]
    BY <1>2, <1>4, <2>2 DEF VMInv, RootsOwned
  <2>3. QED BY <2>1, <2>2 DEF VMInv, KernelHalfIntact
<1>10. QED BY <1>1, <1>2, <1>5, <1>6, <1>7, <1>8, <1>9

\* Cached translations come from the active root, which is not destroyed.
LEMMA DestroyStep ==
  ASSUME VMInv, NEW s \in Space, vm_destroy(s)
  PROVE  VMInv'
<1>1. UNCHANGED <<walk, cr3, tlb>> /\ walk = Idle /\ root[s] # cr3
  BY DEF vm_destroy, Ready, DestroyAccepted
<1>2. /\ \A r \in Space \ {s}, p \in Paths : Same(r, p)
      /\ \A r \in Space \ {s} : tables'[r] = tables[r]
      /\ root'[s] = NoRoot
  BY DestroyEffect
<1>3. Trees'
  <2>1. \A p \in Paths : ~Reaches2(s, p)' /\ ~Reaches3(s, p)' /\ ~Reaches4(s, p)'
    BY <1>2 DEF Reaches2, Reaches3, Reaches4
  <2>2. \A p \in Paths : Inside(s, p)' /\ Asked(s, p)' /\ Linked(s, p)'
    BY <1>2, <2>1 DEF Inside, Asked, LeafPresent, Linked
  <2>3. \A p \in Paths : \A q \in Paths : Apart(s, p, q)'
    BY <2>1 DEF Apart
  <2>4. Trees
    BY DEF VMInv
  <2>5. QED BY <1>2, <2>2, <2>3, <2>4, OneTreeChanges
<1>4. NoStaleTranslation'
  <2>1. ASSUME NEW t \in tlb', NEW r \in Space, root[r] = cr3, LeafPresent(r, t.page)
        PROVE  Same(r, t.page)
    BY <1>1, <1>2, <2>1, MappedIsPath DEF VMInv, TypeOK
  <2>2. QED BY <1>1, <2>1, CacheKept DEF VMInv
<1>5. WalkOnPath'
  BY <1>1, WalkIdle
<1>6. TypeOK' /\ EveryPageHasOneOwner' /\ RootsOwned' /\ KernelHalfIntact'
  BY DestroyEffect
<1>7. QED BY <1>3, <1>4, <1>5, <1>6 DEF VMInv

-----------------------------------------------------------------------------
(* Pages that are mapped and unmapped: the leaf level.                     *)

\* The root of another space is not written, and neither is the upper half
\* of a root when the path written belongs to the lower half.
LEMMA KernelKept ==
  ASSUME VMInv, NEW s \in Space, NEW p \in Paths, NEW k \in 1 .. 4, NEW t \in tables[s],
         OnPath(s, p, k, t), UNCHANGED root,
         \A g \in Physical \ {t} : g \notin Frame \/ g \in allocated => mem'[g] = mem[g],
         \A i \in Index \ {p[k]} : mem'[t][i] = mem[t][i]
  PROVE  KernelHalfIntact'
<1>1. /\ mem[BootRoot] = BootTable /\ mem[KernelTable] = Zeroed
      /\ \A r \in Space : root[r] # NoRoot =>
           \A i \in Upper : mem[root[r]][i] = Link(KernelTable, All \ {"user"})
  BY DEF VMInv, KernelHalfIntact
<1>2. mem'[BootRoot] = BootTable' /\ mem'[KernelTable] = Zeroed'
  BY <1>1, TablesOwned, Markers DEF BootTable, Zeroed
<1>3. ASSUME NEW r \in Space, root[r] # NoRoot, NEW i \in Upper
      PROVE  mem'[root[r]][i] = mem[root[r]][i]
  <2>1. root[r] \in tables[r] /\ root[r] \in allocated /\ root[r] \in Physical
    BY <1>3, TablesOwned, Markers DEF VMInv, RootsOwned
  <2>2. CASE root[r] # t
    BY <2>1, <2>2
  <2>3. CASE root[r] = t
    <3>1. r = s
      BY <1>3, <2>3, TablesOwned
    <3>2. Inside(s, p)
      BY DEF VMInv, Trees
    <3>3. k = 1
      BY <2>3, <3>1, <3>2 DEF OnPath, Inside
    <3>4. i \in Index /\ i # p[1]
      BY VMAssumption DEF Paths, LowerHalf
    <3>5. QED BY <2>3, <3>3, <3>4
  <2>4. QED BY <2>2, <2>3
<1>4. QED BY <1>1, <1>2, <1>3 DEF KernelHalfIntact

\* A write to the leaf of one page: every table stays where it is, and every
\* other page of every space is translated as before.
LEMMA LeafWrite ==
  ASSUME VMInv, NEW s \in Space, NEW p \in Paths, Reaches4(s, p), NEW e \in Entry,
         UNCHANGED <<root, tables>>, mem' = MemWith(Node4(s, p), p[4], e)
  PROVE  /\ \A r \in Space, q \in Paths : r # s \/ q # p => Same(r, q)
         /\ \A r \in Space, q \in Paths : SameTables(r, q)
         /\ Leaf(s, p)' = e /\ Reaches4(s, p)'
         /\ mem' \in [Physical -> [Index -> Entry]] /\ RootsOwned' /\ KernelHalfIntact'
<1>1. PICK t : t = Node4(s, p)
  OBVIOUS
<1>2. /\ OnPath(s, p, 4, t) /\ root[s] # NoRoot /\ t \in tables[s] /\ t \in Physical
      /\ p[4] \in Index
  <2>1. Inside(s, p) /\ p[4] \in Index
    BY DEF VMInv, Trees, Paths
  <2>2. t \in tables[s]
    BY <1>1, <2>1 DEF Inside
  <2>3. QED BY <1>1, <2>1, <2>2, ReachesDown, TablesOwned, Markers DEF OnPath
<1>3. mem' = [mem EXCEPT ![t] = [@ EXCEPT ![p[4]] = e]]
  BY <1>1 DEF MemWith
<1>4. mem \in [Physical -> [Index -> Entry]]
  BY DEF VMInv, TypeOK
<1>5. /\ mem'[t][p[4]] = e /\ \A i \in Index \ {p[4]} : mem'[t][i] = mem[t][i]
      /\ \A g \in Physical \ {t} : mem'[g] = mem[g]
  BY <1>2, <1>3, <1>4
<1>6. mem' \in [Physical -> [Index -> Entry]]
  <2>1. [mem[t] EXCEPT ![p[4]] = e] \in [Index -> Entry]
    BY <1>2, <1>4
  <2>2. QED BY <1>3, <1>4, <2>1
<1>7. WritesAt(s, p, 4, t)
  <2>1. tables[s] \subseteq Physical
    BY TablesOwned, Markers
  <2>2. QED BY <1>2, <1>5, <2>1 DEF WritesAt
<1>8. RootsOwned /\ Trees
  BY DEF VMInv
<1>9. ASSUME NEW r \in Space, NEW q \in Paths, r # s \/ q # p PROVE Same(r, q)
  <2>1. CASE r # s
    <3>1. \A g \in tables[r] : mem'[g] = mem[g]
      BY <1>2, <1>5, <2>1, TablesOwned, Markers
    <3>2. QED BY <1>8, <3>1, SpaceUntouched
  <2>2. CASE r = s
    <3>1. ~Agree(p, q, 4)
      BY <1>9, <2>2, AgreeingPaths
    <3>2. QED BY <1>7, <1>8, <2>2, <3>1, WriteElsewhere
  <2>3. QED BY <2>1, <2>2
<1>10. /\ Reaches4(s, p)' /\ Entry1(s, p)' = Entry1(s, p) /\ Entry2(s, p)' = Entry2(s, p)
       /\ Entry3(s, p)' = Entry3(s, p) /\ Leaf(s, p)' = mem'[t][p[4]]
  <2>1. Agree(p, p, 4)
    BY DEF Agree
  <2>2. QED BY <1>7, <1>8, <2>1, WriteThrough
<1>11. SameTables(s, p)
  <2>1. Reaches3(s, p) /\ Reaches2(s, p) /\ root[s] # NoRoot
    BY ReachesDown
  <2>2. Reaches3(s, p)' /\ Reaches2(s, p)'
    BY <1>10 DEF Reaches4, Reaches3
  <2>3. QED BY <1>10, <2>1, <2>2 DEF SameTables
<1>12. \A r \in Space, q \in Paths : SameTables(r, q)
  BY <1>9, <1>11 DEF Same
<1>13. RootsOwned' /\ KernelHalfIntact'
  <2>1. RootsOwned'
    BY <1>8 DEF RootsOwned
  <2>2. KernelHalfIntact'
    BY <1>2, <1>5, KernelKept
  <2>3. QED BY <2>1, <2>2
<1>14. QED BY <1>5, <1>6, <1>9, <1>10, <1>12, <1>13

\* Then the trees hold, if the leaf that was written is one a caller asked for.
LEMMA LeafTrees ==
  ASSUME Trees, UNCHANGED tables, NEW s \in Space, NEW p \in Paths, Asked(s, p)',
         \A r \in Space, q \in Paths : r # s \/ q # p => Same(r, q),
         \A r \in Space, q \in Paths : SameTables(r, q)
  PROVE  Trees'
<1>1. ASSUME NEW r \in Space, NEW q \in Paths
      PROVE  Inside(r, q)' /\ Linked(r, q)' /\ Asked(r, q)'
  BY SameTree DEF Trees
<1>2. ASSUME NEW r \in Space, NEW q \in Paths, NEW v \in Paths
      PROVE  Apart(r, q, v)'
  BY SameApart DEF Trees
<1>3. QED BY <1>1, <1>2 DEF Trees

\* vm_unmap: one page of one space is no longer mapped.
LEMMA UnmapEffect ==
  ASSUME VMInv, NEW s \in Space, NEW p \in Page, vm_unmap(s, p)
  PROVE  /\ p \in Paths /\ LeafPresent(s, p) /\ ~LeafPresent(s, p)'
         /\ \A r \in Space, q \in Paths : r # s \/ q # p => Same(r, q)
         /\ \A r \in Space, q \in Paths : SameTables(r, q)
         /\ mem' \in [Physical -> [Index -> Entry]] /\ RootsOwned' /\ KernelHalfIntact'
<1>1. /\ LeafPresent(s, p) /\ mem' = MemWith(Node4(s, p), p[4], Absent)
      /\ UNCHANGED <<root, tables>>
  BY DEF vm_unmap, Node4, spaces
<1>2. p \in Paths /\ Reaches4(s, p) /\ Absent \in Entry
  BY <1>1, MappedIsPath, Markers DEF LeafPresent, Absent, Entry
<1>3. Leaf(s, p)' = Absent
  BY <1>1, <1>2, LeafWrite
<1>4. ~LeafPresent(s, p)'
  BY <1>3 DEF LeafPresent, Absent
<1>5. QED BY <1>1, <1>2, <1>4, LeafWrite

\* The translation of the page is flushed when it may be cached, and no other
\* cached translation is touched.
LEMMA UnmapStep ==
  ASSUME VMInv, NEW s \in Space, NEW p \in Page, vm_unmap(s, p)
  PROVE  VMInv'
<1>1. /\ walk = Idle /\ tlb' = Flushed(s, p)
      /\ UNCHANGED <<allocated, data, root, tables, walk, cr3, panicked>>
  BY DEF vm_unmap, Ready, spaces
<1>2. /\ p \in Paths /\ LeafPresent(s, p) /\ ~LeafPresent(s, p)'
      /\ \A r \in Space, q \in Paths : r # s \/ q # p => Same(r, q)
      /\ \A r \in Space, q \in Paths : SameTables(r, q)
      /\ mem' \in [Physical -> [Index -> Entry]] /\ RootsOwned' /\ KernelHalfIntact'
  BY UnmapEffect
<1>3. TypeOK'
  BY <1>1, <1>2 DEF VMInv, TypeOK, Flushed
<1>4. EveryPageHasOneOwner'
  BY <1>1 DEF VMInv, EveryPageHasOneOwner
<1>5. Trees'
  <2>1. Asked(s, p)' /\ Trees
    BY <1>2 DEF Asked, VMInv
  <2>2. QED BY <1>1, <1>2, <2>1, LeafTrees
<1>6. NoStaleTranslation'
  <2>1. ASSUME NEW t \in tlb', NEW r \in Space, root[r] = cr3, LeafPresent(r, t.page)
        PROVE  Same(r, t.page)
    <3>1. t \in tlb /\ t.page \in Page
      BY <1>1 DEF Flushed, VMInv, TypeOK
    <3>2. r # s \/ t.page # p
      BY <1>1, <2>1 DEF Flushed
    <3>3. t.page \in Paths
      BY <2>1, <3>1, MappedIsPath
    <3>4. QED BY <1>2, <3>2, <3>3
  <2>2. tlb' \subseteq tlb
    BY <1>1 DEF Flushed
  <2>3. QED BY <1>1, <2>1, <2>2, CacheKept DEF VMInv
<1>7. WalkOnPath'
  BY <1>1, WalkIdle
<1>8. QED BY <1>2, <1>3, <1>4, <1>5, <1>6, <1>7 DEF VMInv

\* The last level of vm_map: exactly the page asked for becomes mapped, with
\* the frame and the permissions asked for.
LEMMA MapLeafEffect ==
  ASSUME VMInv, vm_map_leaf
  PROVE  \E s \in Space, p \in Page :
           /\ p \in Paths /\ p # ZeroPage /\ root[s] # NoRoot
           /\ ~LeafPresent(s, p) /\ LeafPresent(s, p)'
           /\ s = walk.space /\ p = walk.page
           /\ walk.frame \in Frame /\ walk.flags \in FlagSets
           /\ Leaf(s, p)' = Link(walk.frame, walk.flags)
           /\ \A r \in Space, q \in Paths : r # s \/ q # p => Same(r, q)
           /\ \A r \in Space, q \in Paths : SameTables(r, q)
           /\ mem' \in [Physical -> [Index -> Entry]] /\ RootsOwned' /\ KernelHalfIntact'
<1>1. /\ walk # Idle /\ walk.level = 4 /\ UNCHANGED <<root, tables>>
      /\ mem' = MemWith(walk.table, walk.page[4], Link(walk.frame, walk.flags))
  BY DEF vm_map_leaf, spaces
<1>2. walk \in Walk
  BY <1>1 DEF VMInv, TypeOK
<1>3. PICK s \in Space, p \in Page, t \in Frame : WalkAt(s, p, 4, t)
  BY <1>1, <1>2 DEF Walk, WalkAt
<1>4. /\ root[s] # NoRoot /\ LowerHalf(p) /\ p # ZeroPage
      /\ ~LeafPresent(s, p) /\ OnPath(s, p, 4, t) /\ p \in Paths
  BY <1>3, PagesArePaths DEF VMInv, WalkOnPath
<1>5. Reaches4(s, p) /\ t = Node4(s, p)
  BY <1>4 DEF OnPath
<1>6. walk.frame \in Frame /\ walk.flags \in FlagSets /\ Link(walk.frame, walk.flags) \in Entry
  BY <1>2, Markers, VMAssumption DEF Walk, Link, Entry, All
<1>7. mem' = MemWith(Node4(s, p), p[4], Link(walk.frame, walk.flags))
  BY <1>1, <1>3, <1>5 DEF WalkAt
<1>8. PICK e \in Entry : e = Link(walk.frame, walk.flags)
  BY <1>6
<1>9. /\ \A r \in Space, q \in Paths : r # s \/ q # p => Same(r, q)
      /\ \A r \in Space, q \in Paths : SameTables(r, q)
      /\ Leaf(s, p)' = e /\ Reaches4(s, p)'
      /\ mem' \in [Physical -> [Index -> Entry]] /\ RootsOwned' /\ KernelHalfIntact'
  BY <1>1, <1>4, <1>5, <1>7, <1>8, LeafWrite
<1>10. LeafPresent(s, p)'
  BY <1>8, <1>9 DEF LeafPresent, Link
<1>11. s = walk.space /\ p = walk.page
  BY <1>3 DEF WalkAt
<1>12. QED BY <1>4, <1>6, <1>8, <1>9, <1>10, <1>11

\* A page that was not mapped is in no cache, so nothing goes stale.
LEMMA MapLeafStep == VMInv /\ vm_map_leaf => VMInv'
<1> SUFFICES ASSUME VMInv, vm_map_leaf PROVE VMInv'
  OBVIOUS
<1>1. walk' = Idle /\ UNCHANGED <<allocated, data, root, tables, cr3, tlb, panicked>>
  BY DEF vm_map_leaf, spaces
<1>2. PICK s \in Space, p \in Page :
        /\ p \in Paths /\ p # ZeroPage /\ root[s] # NoRoot
        /\ ~LeafPresent(s, p) /\ LeafPresent(s, p)'
        /\ walk.frame \in Frame /\ walk.flags \in FlagSets
        /\ Leaf(s, p)' = Link(walk.frame, walk.flags)
        /\ \A r \in Space, q \in Paths : r # s \/ q # p => Same(r, q)
        /\ \A r \in Space, q \in Paths : SameTables(r, q)
        /\ mem' \in [Physical -> [Index -> Entry]] /\ RootsOwned' /\ KernelHalfIntact'
  BY MapLeafEffect
<1>3. TypeOK'
  BY <1>1, <1>2 DEF VMInv, TypeOK
<1>4. EveryPageHasOneOwner'
  BY <1>1 DEF VMInv, EveryPageHasOneOwner
<1>5. Trees'
  <2>1. Asked(s, p)'
    BY <1>2 DEF Asked, Link, ZeroPage
  <2>2. Trees
    BY DEF VMInv
  <2>3. QED BY <1>1, <1>2, <2>1, <2>2, LeafTrees
<1>6. NoStaleTranslation'
  <2>1. ASSUME NEW t \in tlb', NEW r \in Space, root[r] = cr3, LeafPresent(r, t.page)
        PROVE  Same(r, t.page)
    BY <1>1, <1>2, <2>1, MappedIsPath DEF VMInv, TypeOK
  <2>2. QED BY <1>1, <2>1, CacheKept DEF VMInv
<1>7. WalkOnPath'
  BY <1>1, WalkIdle
<1>8. QED BY <1>2, <1>3, <1>4, <1>5, <1>6, <1>7 DEF VMInv

-----------------------------------------------------------------------------
(* A table added in the middle of vm_map.                                  *)

\* A walk that passes through the new link at level k: it is the same above,
\* and ends in the new table f, which has no entries.
Extended(s, q, k, f) ==
  /\ k = 1 => /\ ~Reaches2(s, q)
              /\ Entry1(s, q)' = Link(f, All) /\ Reaches2(s, q)'
              /\ Entry2(s, q)' = Absent /\ ~Reaches3(s, q)'
  /\ k = 2 => /\ Reaches2(s, q) /\ ~Reaches3(s, q) /\ Entry1(s, q)' = Entry1(s, q)
              /\ Entry2(s, q)' = Link(f, All) /\ Reaches2(s, q)' /\ Reaches3(s, q)'
              /\ Entry3(s, q)' = Absent /\ ~Reaches4(s, q)'
  /\ k = 3 => /\ Reaches3(s, q) /\ ~Reaches4(s, q) /\ Entry1(s, q)' = Entry1(s, q)
              /\ Entry2(s, q)' = Entry2(s, q) /\ Reaches2(s, q)' /\ Reaches3(s, q)'
              /\ Entry3(s, q)' = Link(f, All) /\ Reaches4(s, q)'
              /\ Leaf(s, q)' = Absent

\* An extended walk maps nothing, before or after.
LEMMA ExtendedUnmapped ==
  ASSUME NEW s \in Space, NEW q \in Paths, NEW k \in 1 .. 3, NEW f, Extended(s, q, k, f)
  PROVE  ~LeafPresent(s, q) /\ ~LeafPresent(s, q)'
<1>1. CASE k = 1
  BY <1>1 DEF Extended, LeafPresent, Reaches3, Reaches4
<1>2. CASE k = 2
  BY <1>2 DEF Extended, LeafPresent, Reaches4
<1>3. CASE k = 3
  BY <1>3 DEF Extended, LeafPresent, Absent
<1>4. QED BY <1>1, <1>2, <1>3

\* The tree of the space with one more table that no walk had met before.
LEMMA ExtendedTree ==
  ASSUME NEW s \in Space, NEW q \in Paths, NEW k \in 1 .. 3, NEW f, Extended(s, q, k, f),
         root'[s] = root[s], root[s] # NoRoot, root[s] # f,
         tables'[s] = tables[s] \cup {f}, Inside(s, q), Linked(s, q)
  PROVE  Inside(s, q)' /\ Linked(s, q)' /\ Asked(s, q)'
<1>1. Link(f, All).frame = f /\ Proper(Link(f, All)) /\ Proper(Absent)
  BY DEF Link, Absent, Proper
<1>2. Asked(s, q)'
  BY ExtendedUnmapped DEF Asked
<1>3. CASE k = 1
  <2>1. ~Reaches4(s, q)'
    BY <1>3 DEF Extended, Reaches4
  <2>2. QED BY <1>1, <1>2, <1>3, <2>1 DEF Extended, Inside, Linked, Node2
<1>4. CASE k = 2
  BY <1>1, <1>2, <1>4 DEF Extended, Inside, Linked, Node2, Node3, Proper
<1>5. CASE k = 3
  <2>1. Reaches2(s, q)
    BY <1>5, ReachesDown DEF Extended
  <2>2. QED BY <1>1, <1>2, <1>5, <2>1 DEF Extended, Inside, Linked, Node2, Node3, Node4, Proper
<1>6. QED BY <1>3, <1>4, <1>5

\* Walks that reach the new table have the same indices up to its link.
LEMMA ExtendedTwice ==
  ASSUME NEW s \in Space, NEW p \in Paths, NEW q \in Paths, NEW v \in Paths,
         NEW k \in 1 .. 3, NEW f, Agree(p, q, k), Agree(p, v, k),
         Extended(s, q, k, f), Extended(s, v, k, f), f \notin tables[s],
         Inside(s, q), Inside(s, v), Apart(s, q, v)
  PROVE  Apart(s, q, v)'
<1>1. Link(f, All).frame = f
  BY DEF Link
<1>2. CASE k = 1
  <2>1. ~Reaches4(s, q)' /\ ~Reaches4(s, v)'
    BY <1>2 DEF Extended, Reaches4
  <2>2. q[1] = v[1]
    BY DEF Agree
  <2>3. QED BY <1>2, <2>1, <2>2 DEF Extended, Apart
<1>3. CASE k = 2
  <2>1. q[1] = v[1] /\ q[2] = v[2]
    BY <1>3 DEF Agree
  <2>2. Node2(s, q)' = Node2(s, q) /\ Node3(s, v)' = f /\ Node2(s, q) \in tables[s]
    BY <1>1, <1>3 DEF Extended, Node2, Node3, Inside
  <2>3. QED BY <1>3, <2>1, <2>2 DEF Extended, Apart
<1>4. CASE k = 3
  <2>1. q[1] = v[1] /\ q[2] = v[2] /\ q[3] = v[3]
    BY <1>4 DEF Agree
  <2>2. Reaches2(s, q) /\ Reaches2(s, v) /\ Reaches3(s, q) /\ Reaches3(s, v)
    BY <1>4, ReachesDown DEF Extended
  <2>3. /\ Node2(s, q)' = Node2(s, q) /\ Node3(s, q)' = Node3(s, q)
        /\ Node3(s, v)' = Node3(s, v) /\ Node4(s, v)' = f
        /\ Node2(s, q) \in tables[s] /\ Node3(s, q) \in tables[s]
    BY <1>1, <1>4, <2>2 DEF Extended, Node2, Node3, Node4, Inside
  <2>4. QED BY <1>4, <2>1, <2>2, <2>3 DEF Extended, Apart
<1>5. QED BY <1>2, <1>3, <1>4

\* A walk that passes elsewhere never meets the new table.
LEMMA ExtendedOnce ==
  ASSUME NEW s \in Space, NEW q \in Paths, NEW v \in Paths, NEW k \in 1 .. 3, NEW f,
         Extended(s, q, k, f), Same(s, v), f \notin tables[s],
         Inside(s, q), Inside(s, v), Apart(s, q, v), Apart(s, v, q)
  PROVE  Apart(s, q, v)' /\ Apart(s, v, q)'
<1>1. Link(f, All).frame = f
  BY DEF Link
<1>2. /\ Reaches2(s, v)' => Reaches2(s, v) /\ Node2(s, v)' = Node2(s, v) /\ Node2(s, v) # f
      /\ Reaches3(s, v)' => Reaches3(s, v) /\ Node3(s, v)' = Node3(s, v) /\ Node3(s, v) # f
      /\ Reaches4(s, v)' => Reaches4(s, v) /\ Node4(s, v)' = Node4(s, v) /\ Node4(s, v) # f
  BY ReachesDown DEF Same, SameTables, Node2, Node3, Node4, Inside
<1>3. CASE k = 1
  <2>1. ~Reaches4(s, q)' /\ Node2(s, q)' = f
    BY <1>1, <1>3 DEF Extended, Reaches4, Node2
  <2>2. QED BY <1>2, <1>3, <2>1 DEF Extended, Apart
<1>4. CASE k = 2
  <2>1. Node2(s, q)' = Node2(s, q) /\ Node3(s, q)' = f
    BY <1>1, <1>4 DEF Extended, Node2, Node3
  <2>2. QED BY <1>2, <1>4, <2>1 DEF Extended, Apart
<1>5. CASE k = 3
  <2>1. Reaches2(s, q) /\ Reaches3(s, q)
    BY <1>5, ReachesDown DEF Extended
  <2>2. Node2(s, q)' = Node2(s, q) /\ Node3(s, q)' = Node3(s, q) /\ Node4(s, q)' = f
    BY <1>1, <1>5 DEF Extended, Node2, Node3, Node4
  <2>3. QED BY <1>2, <1>5, <2>1, <2>2 DEF Extended, Apart
<1>6. QED BY <1>3, <1>4, <1>5

\* new_table inside vm_map: walks through the missing link are extended by
\* one empty table, and all other walks are as before.
LEMMA NewTableEffect ==
  ASSUME VMInv, vm_map_new_table
  PROVE  \E s \in Space, p \in Page, k \in 1 .. 3, t \in Frame, f \in Frame :
           /\ WalkAt(s, p, k, t) /\ p \in Paths /\ root[s] # NoRoot /\ p # ZeroPage
           /\ f \notin allocated /\ RoomForTable(s)
           /\ allocated' = allocated \cup {f}
           /\ tables' = [tables EXCEPT ![s] = @ \cup {f}]
           /\ walk' = [walk EXCEPT !.level = @ + 1, !.table = f]
           /\ \A r \in Space \ {s}, q \in Paths : Same(r, q)
           /\ \A q \in Paths : IF Agree(p, q, k) THEN Extended(s, q, k, f) ELSE Same(s, q)
           /\ mem' \in [Physical -> [Index -> Entry]] /\ KernelHalfIntact'
<1>1. /\ walk # Idle /\ walk.level < 4 /\ ~Here.present /\ RoomForTable(walk.space)
      /\ UNCHANGED <<data, root, cr3, tlb, panicked>>
  BY DEF vm_map_new_table, Walking
<1>2. PICK f \in Frame :
        /\ f \notin allocated /\ allocated' = allocated \cup {f}
        /\ mem' = [mem EXCEPT ![f] = Zeroed,
                   ![walk.table] = [@ EXCEPT ![walk.page[walk.level]] = Link(f, All)]]
        /\ tables' = [tables EXCEPT ![walk.space] = @ \cup {f}]
        /\ walk' = [walk EXCEPT !.level = @ + 1, !.table = f]
  BY DEF vm_map_new_table, PageAlloc, Cleared, Recorded
<1>3. walk \in Walk
  BY <1>1 DEF VMInv, TypeOK
<1>4. PICK s \in Space, p \in Page, k \in 1 .. 3, t \in Frame : WalkAt(s, p, k, t)
  BY <1>1, <1>3 DEF Walk, WalkAt
<1>5. /\ root[s] # NoRoot /\ LowerHalf(p) /\ p # ZeroPage
      /\ ~LeafPresent(s, p) /\ OnPath(s, p, k, t) /\ p \in Paths
  BY <1>4, PagesArePaths DEF VMInv, WalkOnPath
<1>6. t \in tables[s] /\ t \in allocated /\ t # f /\ p[k] \in Index /\ t \in Physical /\ f \in Physical
  <2>1. Inside(s, p) /\ root[s] \in tables[s] /\ p[k] \in Index
    BY <1>5 DEF VMInv, Trees, RootsOwned, Paths
  <2>2. t \in tables[s]
    BY <1>5, <2>1 DEF OnPath, Inside
  <2>3. QED BY <1>2, <2>1, <2>2, TablesOwned, Markers
<1>7. /\ mem' = [mem EXCEPT ![f] = Zeroed, ![t] = [@ EXCEPT ![p[k]] = Link(f, All)]]
      /\ ~mem[t][p[k]].present
  BY <1>1, <1>2, <1>4 DEF WalkAt, Here
<1>8. mem \in [Physical -> [Index -> Entry]]
  BY DEF VMInv, TypeOK
<1>9. mem[t] \in [Index -> Entry]
  BY <1>6, <1>8
<1>10. /\ mem'[f] = Zeroed /\ mem'[t] = [mem[t] EXCEPT ![p[k]] = Link(f, All)]
       /\ \A g \in Physical : g # f /\ g # t => mem'[g] = mem[g]
  BY <1>6, <1>7, <1>8
<1>11. mem'[t][p[k]] = Link(f, All) /\ \A i \in Index \ {p[k]} : mem'[t][i] = mem[t][i]
  BY <1>6, <1>9, <1>10
<1>12. mem' \in [Physical -> [Index -> Entry]]
  <2>1. Zeroed \in [Index -> Entry]
    <3>1. Absent \in Entry
      BY Markers DEF Absent, Entry
    <3>2. QED BY <3>1 DEF Zeroed
  <2>2. [mem[t] EXCEPT ![p[k]] = Link(f, All)] \in [Index -> Entry]
    <3>1. Link(f, All) \in Entry
      BY <1>6 DEF Link, Entry
    <3>2. QED BY <1>6, <1>9, <3>1
  <2>3. DOMAIN mem' = Physical /\ mem' = [g \in Physical |-> mem'[g]]
    BY <1>7, <1>8
  <2>4. \A g \in Physical : mem'[g] \in [Index -> Entry]
    BY <1>8, <1>10, <2>1, <2>2
  <2>5. QED BY <2>3, <2>4
<1>13. RootsOwned /\ Trees /\ k \in 1 .. 4
  BY DEF VMInv
<1>14. \A r \in Space : tables[r] \subseteq Physical /\ f \notin tables[r]
  BY <1>2, TablesOwned, Markers
<1>15. ASSUME NEW r \in Space \ {s}, NEW q \in Paths PROVE Same(r, q)
  <2>1. t \notin tables[r]
    BY <1>6, TablesOwned
  <2>2. \A g \in tables[r] : mem'[g] = mem[g]
    BY <1>10, <1>14, <2>1
  <2>3. QED BY <1>1, <1>13, <2>2, SpaceUntouched
<1>16. WritesAt(s, p, k, t)
  BY <1>1, <1>5, <1>10, <1>11, <1>14 DEF WritesAt
<1>17. ASSUME NEW q \in Paths, Agree(p, q, k) PROVE Extended(s, q, k, f)
  <2>1. \A i \in Index : mem'[f][i] = Absent
    BY <1>10 DEF Zeroed
  <2>2. q[2] \in Index /\ q[3] \in Index /\ q[4] \in Index /\ LowerHalf(q)
    BY DEF Paths
  <2>3. Descends(Link(f, All)) /\ ~Descends(Absent) /\ Link(f, All).frame = f
    BY DEF Descends, Link, Absent
  <2>4. root'[s] # NoRoot /\ ~Descends(mem[t][p[k]])
    BY <1>1, <1>5, <1>7 DEF Descends
  <2>5. CASE k = 1
    <3>1. Entry1(s, q)' = Link(f, All)
      BY <1>5, <1>11, <1>13, <1>16, <1>17, <2>5, WriteThrough
    <3>2. Entry1(s, q) = mem[t][p[k]]
      BY <1>5, <1>17, <2>5 DEF OnPath, Entry1, Table1, Agree
    <3>3. ~Reaches2(s, q) /\ Reaches2(s, q)'
      BY <2>2, <2>3, <2>4, <3>1, <3>2 DEF Reaches2, LowerHalf
    <3>4. Entry2(s, q)' = Absent
      BY <2>1, <2>2, <2>3, <3>1 DEF Entry2
    <3>5. QED BY <2>3, <2>5, <3>1, <3>3, <3>4 DEF Extended, Reaches3
  <2>6. CASE k = 2
    <3>1. /\ Reaches2(s, q) /\ Reaches2(s, q)' /\ Entry1(s, q)' = Entry1(s, q)
          /\ Node2(s, q) = t /\ Entry2(s, q)' = Link(f, All)
      BY <1>5, <1>11, <1>13, <1>16, <1>17, <2>6, WriteThrough
    <3>2. Entry2(s, q) = mem[t][p[k]]
      BY <1>17, <2>6, <3>1 DEF Entry2, Node2, Agree
    <3>3. ~Reaches3(s, q) /\ Reaches3(s, q)'
      BY <2>3, <2>4, <3>1, <3>2 DEF Reaches3
    <3>4. Entry3(s, q)' = Absent
      BY <2>1, <2>2, <2>3, <3>1 DEF Entry3
    <3>5. QED BY <2>3, <2>6, <3>1, <3>3, <3>4 DEF Extended, Reaches4
  <2>7. CASE k = 3
    <3>1. /\ Reaches3(s, q) /\ Reaches3(s, q)' /\ Entry1(s, q)' = Entry1(s, q)
          /\ Entry2(s, q)' = Entry2(s, q)
          /\ Node3(s, q) = t /\ Entry3(s, q)' = Link(f, All)
      BY <1>5, <1>11, <1>13, <1>16, <1>17, <2>7, WriteThrough
    <3>2. Entry3(s, q) = mem[t][p[k]]
      BY <1>17, <2>7, <3>1 DEF Entry3, Node3, Agree
    <3>3. ~Reaches4(s, q) /\ Reaches4(s, q)'
      BY <2>3, <2>4, <3>1, <3>2 DEF Reaches4
    <3>4. Leaf(s, q)' = Absent
      BY <2>1, <2>2, <2>3, <3>1 DEF Leaf
    <3>5. Reaches2(s, q)'
      BY <3>1 DEF Reaches3
    <3>6. QED BY <2>3, <2>7, <3>1, <3>3, <3>4, <3>5 DEF Extended
  <2>8. QED BY <2>5, <2>6, <2>7
<1>18. ASSUME NEW q \in Paths, ~Agree(p, q, k) PROVE Same(s, q)
  BY <1>5, <1>13, <1>16, <1>18, WriteElsewhere
<1>19. KernelHalfIntact'
  <2>1. \A g \in Physical \ {t} : g \notin Frame \/ g \in allocated => mem'[g] = mem[g]
    BY <1>2, <1>10
  <2>2. QED BY <1>1, <1>5, <1>6, <1>11, <2>1, KernelKept
<1>20. walk.space = s
  BY <1>4 DEF WalkAt
<1>21. QED
  BY <1>1, <1>2, <1>4, <1>5, <1>12, <1>15, <1>17, <1>18, <1>19, <1>20

\* The new table extends the tree, and vm_map goes on from it.
LEMMA NewTableStep == VMInv /\ vm_map_new_table => VMInv'
<1> SUFFICES ASSUME VMInv, vm_map_new_table PROVE VMInv'
  OBVIOUS
<1>1. UNCHANGED <<data, root, cr3, tlb, panicked>>
  BY DEF vm_map_new_table
<1>2. PICK s \in Space, p \in Page, k \in 1 .. 3, t \in Frame, f \in Frame :
        /\ WalkAt(s, p, k, t) /\ p \in Paths /\ root[s] # NoRoot /\ p # ZeroPage
        /\ f \notin allocated /\ RoomForTable(s)
        /\ allocated' = allocated \cup {f}
        /\ tables' = [tables EXCEPT ![s] = @ \cup {f}]
        /\ walk' = [walk EXCEPT !.level = @ + 1, !.table = f]
        /\ \A r \in Space \ {s}, q \in Paths : Same(r, q)
        /\ \A q \in Paths : IF Agree(p, q, k) THEN Extended(s, q, k, f) ELSE Same(s, q)
        /\ mem' \in [Physical -> [Index -> Entry]] /\ KernelHalfIntact'
  BY NewTableEffect
<1>3. /\ tables'[s] = tables[s] \cup {f} /\ f \notin tables[s] /\ root[s] \in tables[s]
      /\ \A r \in Space \ {s} : tables'[r] = tables[r]
  BY <1>2, TablesOwned DEF VMInv, TypeOK, RootsOwned
<1>4. walk \in Walk
  BY <1>2 DEF VMInv, TypeOK, WalkAt
<1>5. TypeOK'
  <2>1. walk.level = k
    BY <1>2 DEF WalkAt
  <2>2. k + 1 \in 1 .. 4
    OBVIOUS
  <2>3. walk' \in Walk
    BY <1>2, <1>4, <2>1, <2>2 DEF Walk
  <2>4. tables' \in [Space -> SUBSET Frame]
    BY <1>2 DEF VMInv, TypeOK
  <2>5. QED BY <1>1, <1>2, <2>3, <2>4 DEF VMInv, TypeOK
<1>6. EveryPageHasOneOwner'
  BY <1>1, <1>2, TableAdded
<1>7. RootsOwned'
  BY <1>1, <1>3 DEF VMInv, RootsOwned
<1>8. Trees'
  <2>1. /\ Trees /\ \A q \in Paths : Inside(s, q) /\ Linked(s, q)
        /\ \A q \in Paths : \A v \in Paths : Apart(s, q, v)
    BY DEF VMInv, Trees
  <2>2. ASSUME NEW q \in Paths PROVE Inside(s, q)' /\ Linked(s, q)' /\ Asked(s, q)'
    <3>1. CASE Agree(p, q, k)
      BY <1>1, <1>2, <1>3, <2>1, <3>1, ExtendedTree
    <3>2. CASE ~Agree(p, q, k)
      <4>1. Same(s, q) /\ SameTables(s, q) /\ tables[s] \subseteq tables'[s]
        BY <1>2, <1>3, <3>2 DEF Same
      <4>2. Asked(s, q)
        BY <2>1 DEF Trees
      <4>3. QED BY <2>1, <4>1, <4>2, SameTree
    <3>3. QED BY <3>1, <3>2
  <2>3. ASSUME NEW q \in Paths, NEW v \in Paths PROVE Apart(s, q, v)'
    <3>1. CASE Agree(p, q, k) /\ Agree(p, v, k)
      BY <1>2, <1>3, <2>1, <3>1, ExtendedTwice
    <3>2. CASE Agree(p, q, k) /\ ~Agree(p, v, k)
      BY <1>2, <1>3, <2>1, <3>2, ExtendedOnce
    <3>3. CASE ~Agree(p, q, k) /\ Agree(p, v, k)
      BY <1>2, <1>3, <2>1, <3>3, ExtendedOnce
    <3>4. CASE ~Agree(p, q, k) /\ ~Agree(p, v, k)
      BY <1>2, <2>1, <3>4, SameApart DEF Same
    <3>5. QED BY <3>1, <3>2, <3>3, <3>4
  <2>4. QED BY <1>2, <1>3, <2>1, <2>2, <2>3, OneTreeChanges
<1>9. NoStaleTranslation'
  <2>1. ASSUME NEW u \in tlb', NEW r \in Space, root[r] = cr3, LeafPresent(r, u.page)
        PROVE  Same(r, u.page)
    <3>1. u.page \in Paths
      BY <1>1, <2>1, MappedIsPath DEF VMInv, TypeOK
    <3>2. CASE r # s
      BY <1>2, <3>1, <3>2
    <3>3. CASE r = s
      <4>1. ~Agree(p, u.page, k)
        BY <1>2, <2>1, <3>1, <3>3, ExtendedUnmapped
      <4>2. QED BY <1>2, <3>1, <3>3, <4>1
    <3>4. QED BY <3>2, <3>3
  <2>2. QED BY <1>1, <2>1, CacheKept DEF VMInv
<1>10. WalkOnPath'
  <2> SUFFICES ASSUME NEW r \in Space, NEW q \in Page, NEW l \in 1 .. 4, NEW u \in Frame,
                      WalkAt(r, q, l, u)'
               PROVE  /\ root'[r] # NoRoot /\ LowerHalf(q) /\ q # ZeroPage
                      /\ ~LeafPresent(r, q)' /\ OnPath(r, q, l, u)'
    BY DEF WalkOnPath, LowerHalf, ZeroPage
  <2>1. r = s /\ q = p /\ l = k + 1 /\ u = f
    BY <1>2, <1>4 DEF WalkAt, Walk
  <2>2. Extended(s, p, k, f)
    BY <1>2 DEF Agree
  <2>3. Link(f, All).frame = f
    BY DEF Link
  <2>4. OnPath(s, p, k + 1, f)'
    <3>1. CASE k = 1
      BY <2>2, <2>3, <3>1 DEF Extended, OnPath, Node2
    <3>2. CASE k = 2
      BY <2>2, <2>3, <3>2 DEF Extended, OnPath, Node3
    <3>3. CASE k = 3
      BY <2>2, <2>3, <3>3 DEF Extended, OnPath, Node4
    <3>4. QED BY <3>1, <3>2, <3>3
  <2>5. ~LeafPresent(s, p)' /\ LowerHalf(p)
    BY <1>2, <2>2, ExtendedUnmapped DEF Paths
  <2>6. QED BY <1>1, <1>2, <2>1, <2>4, <2>5
<1>11. QED BY <1>2, <1>5, <1>6, <1>7, <1>8, <1>9, <1>10 DEF VMInv

-----------------------------------------------------------------------------
(* The invariants of VM.                                                   *)

\* Every step keeps the invariant.
LEMMA VMNext == VMInv /\ [Next]_vars => VMInv'
<1> SUFFICES ASSUME VMInv, [Next]_vars PROVE VMInv'
  OBVIOUS
<1>1. CASE UNCHANGED vars
  <2>1. UNCHANGED <<mem, root, tables, walk, cr3, tlb>> /\ UNCHANGED <<allocated, data, panicked>>
    BY <1>1 DEF vars
  <2>2. TypeOK' /\ EveryPageHasOneOwner'
    BY <2>1 DEF VMInv, TypeOK, EveryPageHasOneOwner
  <2>3. Trees' /\ RootsOwned' /\ KernelHalfIntact' /\ NoStaleTranslation' /\ WalkOnPath'
    BY <2>1, QuietStep, CacheQuiet, WalkQuiet
  <2>4. QED BY <2>2, <2>3 DEF VMInv
<1>2. ASSUME NEW s \in Space, vm_create(s) PROVE VMInv'
  BY <1>2, CreateStep
<1>3. ASSUME NEW s \in Space, vm_destroy(s) PROVE VMInv'
  BY <1>3, DestroyStep
<1>4. ASSUME NEW s \in Space, NEW p \in Page, vm_unmap(s, p) PROVE VMInv'
  BY <1>4, UnmapStep
<1>5. ASSUME NEW s \in Space, NEW p \in Page, TlbFill(s, p) PROVE VMInv'
  BY <1>5, TlbFillStep
<1>6. ASSUME NEW s \in Space, NEW p \in Page, NEW f \in Frame, NEW flags \in FlagSets,
             vm_map(s, p, f, flags)
      PROVE  VMInv'
  BY <1>6, MapBeginStep
<1>7. ASSUME vm_map_descend \/ vm_map_new_table \/ vm_map_fails \/ vm_map_leaf PROVE VMInv'
  BY <1>7, DescendStep, NewTableStep, MapFailsStep, MapLeafStep
<1>8. ASSUME NEW r \in Frame \cup {BootRoot}, vm_switch(r) PROVE VMInv'
  BY <1>8, SwitchStep
<1>9. ASSUME NEW f \in Frame, TakePage(f) \/ ReturnPage(f) PROVE VMInv'
  BY <1>9, PageStep
<1>10. QED
  BY <1>1, <1>2, <1>3, <1>4, <1>5, <1>6, <1>7, <1>8, <1>9 DEF Next

\* The invariant holds in every reachable state.
LEMMA VMInvariant == Spec => []VMInv
<1>1. Init => VMInv
  BY VMInit
<1>2. VMInv /\ [Next]_vars => VMInv'
  BY VMNext
<1>3. QED BY <1>1, <1>2, PTL DEF Spec

\* Paths that agree on their first indices have the same prefix.
LEMMA Prefixes ==
  ASSUME NEW p \in Paths, NEW q \in Paths, NEW m \in 1 .. 3, \A i \in 1 .. m : p[i] = q[i]
  PROVE  SubSeq(p, 1, m) = SubSeq(q, 1, m)
<1>1. p \in [1 .. 4 -> Index] /\ q \in [1 .. 4 -> Index]
  BY DEF Paths
<1>2. p \in Seq(Index) /\ q \in Seq(Index)
  <2>1. 4 \in Nat
    OBVIOUS
  <2>2. [1 .. 4 -> Index] \subseteq UNION {[1 .. n -> Index] : n \in Nat}
    BY <2>1, Zenon
  <2>3. QED BY <1>1, <2>2, SeqDef, Zenon
<1>3. /\ SubSeq(p, 1, m) = [i \in 1 .. m |-> p[i]]
      /\ SubSeq(q, 1, m) = [i \in 1 .. m |-> q[i]]
  BY <1>2, SubSeqProperties
<1>4. QED BY <1>3

\* The tables of Visits, level by level.
VisitsRoot(s, v) == root[s] # NoRoot /\ v = [at |-> << >>, table |-> root[s]]
Visits2(s, v, p) == Reaches2(s, p) /\ v = [at |-> SubSeq(p, 1, 1), table |-> Node2(s, p)]
Visits3(s, v, p) == Reaches3(s, p) /\ v = [at |-> SubSeq(p, 1, 2), table |-> Node3(s, p)]
Visits4(s, v, p) == Reaches4(s, p) /\ v = [at |-> SubSeq(p, 1, 3), table |-> Node4(s, p)]

\* There are no others.
LEMMA VisitLevels ==
  ASSUME NEW s \in Space, NEW v \in Visits(s)
  PROVE  \/ VisitsRoot(s, v)
         \/ \E p \in Paths : Visits2(s, v, p) \/ Visits3(s, v, p) \/ Visits4(s, v, p)
<1>1. \A p \in Page : LowerHalf(p) => p \in Paths
  BY PagesArePaths
<1>2. CASE root[s] # NoRoot /\ v = [at |-> << >>, table |-> root[s]]
  BY <1>2 DEF VisitsRoot
<1>3. CASE \E p \in Page : /\ LowerHalf(p) /\ Reaches2(s, p)
                           /\ v = [at |-> SubSeq(p, 1, 1), table |-> Entry1(s, p).frame]
  BY <1>1, <1>3 DEF Visits2, Node2
<1>4. CASE \E p \in Page : /\ LowerHalf(p) /\ Reaches3(s, p)
                           /\ v = [at |-> SubSeq(p, 1, 2), table |-> Entry2(s, p).frame]
  BY <1>1, <1>4 DEF Visits3, Node3
<1>5. CASE \E p \in Page : /\ LowerHalf(p) /\ Reaches4(s, p)
                           /\ v = [at |-> SubSeq(p, 1, 3), table |-> Entry3(s, p).frame]
  BY <1>1, <1>5 DEF Visits4, Node4
<1>6. QED BY <1>2, <1>3, <1>4, <1>5, Zenon DEF Visits

\* Trees says it of all paths; Visits lists the tables of the pages in use.
LEMMA WalksInside == VMInv => WalksStayInside
<1> SUFFICES ASSUME VMInv, NEW s \in Space, NEW v \in Visits(s)
             PROVE  /\ v.table \in tables[s]
                    /\ \A w \in Visits(s) : v.table = w.table => v = w
  BY DEF WalksStayInside
<1>1. root[s] # NoRoot => root[s] \in tables[s]
  BY DEF VMInv, RootsOwned
<1>2. /\ \A p \in Paths : Inside(s, p)
      /\ \A p, q \in Paths : Apart(s, p, q)
  BY DEF VMInv, Trees
<1>3. v.table \in tables[s]
  <2>1. CASE VisitsRoot(s, v)
    BY <1>1, <2>1 DEF VisitsRoot
  <2>2. CASE \E p \in Paths : Visits2(s, v, p) \/ Visits3(s, v, p) \/ Visits4(s, v, p)
    BY <1>2, <2>2 DEF Visits2, Visits3, Visits4, Inside
  <2>3. QED BY <2>1, <2>2, VisitLevels
<1>4. ASSUME NEW w \in Visits(s), v.table = w.table PROVE v = w
  <2>1. CASE VisitsRoot(s, v) /\ VisitsRoot(s, w)
    BY <2>1 DEF VisitsRoot
  <2>2. ASSUME NEW p \in Paths, VisitsRoot(s, v) \/ VisitsRoot(s, w),
               \/ Visits2(s, v, p) \/ Visits3(s, v, p) \/ Visits4(s, v, p)
               \/ Visits2(s, w, p) \/ Visits3(s, w, p) \/ Visits4(s, w, p)
        PROVE  FALSE \/ v = w
    BY <1>2, <1>4, <2>2 DEF VisitsRoot, Visits2, Visits3, Visits4, Inside
  <2>3. ASSUME NEW p \in Paths, NEW q \in Paths,
               Visits2(s, v, p) \/ Visits3(s, v, p) \/ Visits4(s, v, p),
               Visits2(s, w, q) \/ Visits3(s, w, q) \/ Visits4(s, w, q)
        PROVE  v = w
    <3>1. Apart(s, p, q) /\ Apart(s, q, p)
      BY <1>2
    <3>2. CASE Visits2(s, v, p) /\ Visits2(s, w, q)
      <4>1. p[1] = q[1]
        BY <1>4, <3>1, <3>2 DEF Visits2, Apart
      <4>2. SubSeq(p, 1, 1) = SubSeq(q, 1, 1)
        BY <4>1, Prefixes
      <4>3. QED BY <1>4, <3>2, <4>2 DEF Visits2
    <3>3. CASE Visits3(s, v, p) /\ Visits3(s, w, q)
      <4>1. p[1] = q[1] /\ p[2] = q[2]
        BY <1>4, <3>1, <3>3 DEF Visits3, Apart
      <4>2. SubSeq(p, 1, 2) = SubSeq(q, 1, 2)
        BY <4>1, Prefixes
      <4>3. QED BY <1>4, <3>3, <4>2 DEF Visits3
    <3>4. CASE Visits4(s, v, p) /\ Visits4(s, w, q)
      <4>1. p[1] = q[1] /\ p[2] = q[2] /\ p[3] = q[3]
        BY <1>4, <3>1, <3>4 DEF Visits4, Apart
      <4>2. SubSeq(p, 1, 3) = SubSeq(q, 1, 3)
        BY <4>1, Prefixes
      <4>3. QED BY <1>4, <3>4, <4>2 DEF Visits4
    <3>5. ~(Visits2(s, v, p) /\ Visits3(s, w, q)) /\ ~(Visits3(s, v, p) /\ Visits2(s, w, q))
      BY <1>4, <3>1 DEF Visits2, Visits3, Apart
    <3>6. ~(Visits2(s, v, p) /\ Visits4(s, w, q)) /\ ~(Visits4(s, v, p) /\ Visits2(s, w, q))
      BY <1>4, <3>1 DEF Visits2, Visits4, Apart
    <3>7. ~(Visits3(s, v, p) /\ Visits4(s, w, q)) /\ ~(Visits4(s, v, p) /\ Visits3(s, w, q))
      BY <1>4, <3>1 DEF Visits3, Visits4, Apart
    <3>8. QED BY <2>3, <3>2, <3>3, <3>4, <3>5, <3>6, <3>7
  <2>4. QED BY <2>1, <2>2, <2>3, VisitLevels
<1>5. QED BY <1>3, <1>4

\* Every variable keeps its type: entries name physical pages, and a walk in
\* progress stands at a page of the pool.
THEOREM VMTypeCorrect == Spec => []TypeOK
<1>1. VMInv => TypeOK
  BY DEF VMInv
<1>2. QED BY <1>1, VMInvariant, PTL

\* Every page handed out by page_alloc belongs to one caller or one space,
\* however often vm_map stops half way, and vm_destroy never panics.
THEOREM VMOwnershipCorrect == Spec => []EveryPageHasOneOwner
<1>1. VMInv => EveryPageHasOneOwner
  BY DEF VMInv
<1>2. QED BY <1>1, VMInvariant, PTL

\* leaf_entry never leaves the tables of its space, and no table is reached
\* along two paths.
THEOREM WalksCorrect == Spec => []WalksStayInside
<1>1. VMInv => WalksStayInside
  BY WalksInside
<1>2. QED BY <1>1, VMInvariant, PTL

\* Every root vm_create made keeps the kernel half of the boot root, without
\* user access, and the boot root itself is never written.
THEOREM KernelHalfCorrect == Spec => []KernelHalfIntact
<1>1. VMInv => KernelHalfIntact
  BY DEF VMInv
<1>2. QED BY <1>1, VMInvariant, PTL

\* A translation the processor has cached is one the active tables hold:
\* vm_unmap flushes what it removes, vm_destroy spares the active root, and a
\* table added by vm_map changes no translation.
THEOREM TranslationsCorrect == Spec => []NoStaleTranslation
<1>1. VMInv => NoStaleTranslation
  BY DEF VMInv
<1>2. QED BY <1>1, VMInvariant, PTL

-----------------------------------------------------------------------------
(* The refinement of AddressMap.                                           *)

UserPages == {p \in Page : LowerHalf(p) /\ p # ZeroPage}
Translations == [frame : Frame, flags : FlagSets]
Live == {s \in Space : root[s] # NoRoot}
Mapping == [s \in Space |-> [p \in UserPages |-> Lookup(s, p)]]
Request == {[space |-> w.space, page |-> w.page,
             to |-> [frame |-> w.frame, flags |-> w.flags]] : w \in {walk} \ {Idle}}

\* No space lives and nothing is mapped at the start.
LEMMA RefinesInit == Init => UserMap!Init
<1> SUFFICES ASSUME Init PROVE UserMap!Init
  OBVIOUS
<1>1. \A s \in Space : root[s] = NoRoot
  BY DEF Init
<1>2. \A s \in Space, p \in UserPages : Lookup(s, p) = NotMapped
  BY <1>1 DEF Lookup, LeafPresent, Reaches4, Reaches3, Reaches2
<1>3. Live = {} /\ Mapping = [s \in Space |-> [p \in UserPages |-> NotMapped]]
  BY <1>1, <1>2 DEF Live, Mapping
<1>4. Request = {}
  BY DEF Init, Request
<1>5. QED BY <1>3, <1>4 DEF UserMap!Init, UserMap!Nothing, Live, Mapping, UserPages, Request

\* A step that changes no root and no translation changes no map.
LEMMA MapsKept ==
  ASSUME \A s \in Space : root'[s] = root[s],
         \A s \in Space, p \in UserPages : Lookup(s, p)' = Lookup(s, p)
  PROVE  Live' = Live /\ Mapping' = Mapping
<1>1. Live' = Live
  BY DEF Live
<1>2. Mapping' = Mapping
  BY DEF Mapping, UserPages, LowerHalf, ZeroPage
<1>3. QED BY <1>1, <1>2

\* If it is not the start or the end of a vm_map either, it is not seen.
LEMMA Unseen ==
  ASSUME Live' = Live, Mapping' = Mapping, Request' = Request
  PROVE  UNCHANGED UserMap!mapVars
BY DEF UserMap!mapVars, Live, Mapping, UserPages, Request

\* The pages of the abstract map are paths.
LEMMA UserPagesArePaths == ASSUME NEW p \in UserPages PROVE p \in Paths
BY PagesArePaths DEF UserPages

\* No table is written, so no map changes.
LEMMA QuietKept ==
  ASSUME VMInv, UNCHANGED <<mem, root, tables>>
  PROVE  Live' = Live /\ Mapping' = Mapping
<1>1. \A s \in Space, p \in UserPages : Lookup(s, p)' = Lookup(s, p)
  BY QuietStep, UserPagesArePaths, SameLookup
<1>2. QED BY <1>1, MapsKept

\* Outside vm_map nothing is seen then.
LEMMA QuietUnseen ==
  ASSUME VMInv, UNCHANGED <<mem, root, tables, walk>>
  PROVE  UNCHANGED UserMap!mapVars
<1>1. Request' = Request
  BY DEF Request
<1>2. QED BY <1>1, QuietKept, Unseen

\* What a vm_map that goes one level down was asked for stays the same.
LEMMA RequestKept ==
  ASSUME VMInv, walk # Idle, NEW t \in Frame, walk.level < 4,
         walk' = [walk EXCEPT !.level = @ + 1, !.table = t]
  PROVE  Request' = Request
<1>1. walk \in Walk
  BY DEF VMInv, TypeOK
<1>2. /\ walk'.space = walk.space /\ walk'.page = walk.page
      /\ walk'.frame = walk.frame /\ walk'.flags = walk.flags
  BY <1>1 DEF Walk
<1>3. walk' # Idle
  <2>1. walk.level + 1 \in 1 .. 4
    BY <1>1 DEF Walk
  <2>2. walk' \in Walk
    BY <1>1, <2>1 DEF Walk
  <2>3. QED BY <2>2, MarkerAssumption
<1>4. PICK request : request = [space |-> walk.space, page |-> walk.page,
                                to |-> [frame |-> walk.frame, flags |-> walk.flags]]
  OBVIOUS
<1>5. Request = {request}
  BY <1>4 DEF Request
<1>6. request = [space |-> walk'.space, page |-> walk'.page,
                 to |-> [frame |-> walk'.frame, flags |-> walk'.flags]]
  BY <1>2, <1>4
<1>7. Request' = {request}
  BY <1>3, <1>6 DEF Request
<1>8. QED BY <1>5, <1>7

\* A table added by vm_map is not seen, so a vm_map that fails is not seen.
LEMMA NewTableUnseen ==
  ASSUME VMInv, vm_map_new_table
  PROVE  UNCHANGED UserMap!mapVars
<1>1. PICK s \in Space, p \in Page, k \in 1 .. 3, f \in Frame :
        /\ \A r \in Space \ {s}, q \in Paths : Same(r, q)
        /\ \A q \in Paths : IF Agree(p, q, k) THEN Extended(s, q, k, f) ELSE Same(s, q)
        /\ walk' = [walk EXCEPT !.level = @ + 1, !.table = f]
  BY NewTableEffect
<1>2. ASSUME NEW r \in Space, NEW q \in UserPages PROVE Lookup(r, q)' = Lookup(r, q)
  <2>1. CASE r # s \/ ~Agree(p, q, k)
    BY <1>1, <2>1, UserPagesArePaths, SameLookup
  <2>2. CASE r = s /\ Agree(p, q, k)
    <3>1. ~LeafPresent(s, q) /\ ~LeafPresent(s, q)'
      BY <1>1, <2>2, UserPagesArePaths, ExtendedUnmapped
    <3>2. QED BY <2>2, <3>1 DEF Lookup
  <2>3. QED BY <2>1, <2>2
<1>3. UNCHANGED root
  BY DEF vm_map_new_table
<1>4. Live' = Live /\ Mapping' = Mapping
  BY <1>2, <1>3, MapsKept
<1>5. Request' = Request
  BY <1>1, RequestKept DEF vm_map_new_table, Walking
<1>6. QED BY <1>4, <1>5, Unseen

\* No vm_map is under way.
LEMMA NoneAsked == ASSUME walk = Idle PROVE Request = {}
BY DEF Request

\* vm_create is Create: nothing is mapped in the new space.
LEMMA RefinesCreate ==
  ASSUME VMInv, NEW s \in Space, vm_create(s)
  PROVE  UserMap!Create(s)
<1>1. /\ \A r \in Space \ {s}, p \in Paths : Same(r, p)
      /\ \A p \in Paths : ~Reaches2(s, p)'
      /\ root[s] = NoRoot /\ root'[s] # NoRoot
      /\ \A r \in Space \ {s} : root'[r] = root[r]
  BY CreateEffect
<1>2. ASSUME NEW r \in Space, NEW p \in UserPages PROVE Lookup(r, p)' = Lookup(r, p)
  <2>1. p \in Paths
    BY UserPagesArePaths
  <2>2. CASE r # s
    BY <1>1, <2>1, <2>2, SameLookup
  <2>3. CASE r = s
    <3>1. ~LeafPresent(s, p) /\ ~LeafPresent(s, p)'
      BY <1>1, <2>1 DEF LeafPresent, Reaches4, Reaches3, Reaches2
    <3>2. QED BY <2>3, <3>1 DEF Lookup
  <2>4. QED BY <2>2, <2>3
<1>3. Mapping' = Mapping
  BY <1>2 DEF Mapping, UserPages, LowerHalf, ZeroPage
<1>4. s \notin Live /\ Live' = Live \cup {s}
  BY <1>1 DEF Live
<1>5. Request' = Request
  BY DEF vm_create, Request
<1>6. QED BY <1>3, <1>4, <1>5 DEF UserMap!Create, Live, Mapping, UserPages, Request

\* vm_destroy is Destroy: everything in the space is gone, nothing elsewhere.
LEMMA RefinesDestroy ==
  ASSUME VMInv, NEW s \in Space, vm_destroy(s)
  PROVE  UserMap!Destroy(s)
<1>1. /\ \A r \in Space \ {s}, p \in Paths : Same(r, p)
      /\ root[s] # NoRoot /\ root'[s] = NoRoot
      /\ \A r \in Space \ {s} : root'[r] = root[r]
  BY DestroyEffect
<1>2. ASSUME NEW r \in Space, NEW p \in UserPages
      PROVE  Lookup(r, p)' = IF r = s THEN NotMapped ELSE Lookup(r, p)
  <2>1. CASE r # s
    BY <1>1, <2>1, UserPagesArePaths, SameLookup
  <2>2. CASE r = s
    <3>1. ~LeafPresent(s, p)'
      BY <1>1 DEF LeafPresent, Reaches4, Reaches3, Reaches2
    <3>2. QED BY <2>2, <3>1 DEF Lookup
  <2>3. QED BY <2>1, <2>2
<1>3. Mapping' = [Mapping EXCEPT ![s] = [p \in UserPages |-> NotMapped]]
  BY <1>2 DEF Mapping, UserPages, LowerHalf, ZeroPage
<1>4. s \in Live /\ Live' = Live \ {s}
  BY <1>1 DEF Live
<1>5. Request' = Request
  BY DEF vm_destroy, Request
<1>6. QED
  BY <1>3, <1>4, <1>5 DEF UserMap!Destroy, UserMap!Nothing, Live, Mapping, UserPages, Request

\* vm_unmap is Unmap.
LEMMA RefinesUnmap ==
  ASSUME VMInv, NEW s \in Space, NEW p \in Page, vm_unmap(s, p)
  PROVE  p \in UserPages /\ UserMap!Unmap(s, p)
<1>1. /\ p \in Paths /\ LeafPresent(s, p) /\ ~LeafPresent(s, p)'
      /\ \A r \in Space, q \in Paths : r # s \/ q # p => Same(r, q)
  BY UnmapEffect
<1>2. p \in UserPages
  <2>1. Asked(s, p)
    BY <1>1 DEF VMInv, Trees
  <2>2. QED BY <1>1, <2>1 DEF Asked, UserPages, Paths
<1>3. Lookup(s, p) # NotMapped
  <2>1. Lookup(s, p) \in [frame : Physical, flags : SUBSET All]
    <3>1. Entry1(s, p) \in Entry /\ Leaf(s, p) \in Entry
      BY <1>1, EntriesTyped DEF VMInv
    <3>2. QED BY <1>1, <3>1 DEF Lookup, Entry
  <2>2. QED BY <2>1, MarkerAssumption
<1>4. ASSUME NEW r \in Space, NEW q \in UserPages
      PROVE  Lookup(r, q)' = IF r = s /\ q = p THEN NotMapped ELSE Lookup(r, q)
  <2>1. CASE r # s \/ q # p
    BY <1>1, <2>1, UserPagesArePaths, SameLookup
  <2>2. CASE r = s /\ q = p
    BY <1>1, <2>2 DEF Lookup
  <2>3. QED BY <2>1, <2>2
<1>5. Mapping' = [Mapping EXCEPT ![s][p] = NotMapped]
  BY <1>2, <1>4 DEF Mapping, UserPages, LowerHalf, ZeroPage
<1>6. s \in Live /\ Live' = Live /\ Mapping[s][p] # NotMapped
  <2>1. UNCHANGED root
    BY DEF vm_unmap, spaces
  <2>2. root[s] # NoRoot
    BY <1>1, ReachesDown DEF LeafPresent
  <2>3. QED BY <1>2, <1>3, <2>1, <2>2 DEF Live, Mapping
<1>7. Request' = Request
  BY DEF vm_unmap, Request
<1>8. QED BY <1>2, <1>5, <1>6, <1>7 DEF UserMap!Unmap, Live, Mapping, UserPages, Request

\* The tests of vm_map let through what may be asked.
LEMMA RefinesAsk ==
  ASSUME VMInv, NEW s \in Space, NEW p \in Page, NEW f \in Frame, NEW flags \in FlagSets,
         vm_map(s, p, f, flags)
  PROVE  p \in UserPages /\ \E t \in Translations : UserMap!Ask(s, p, t)
<1>1. /\ root[s] # NoRoot /\ p # ZeroPage /\ LowerHalf(p) /\ ~LeafPresent(s, p)
      /\ walk' = [space |-> s, page |-> p, frame |-> f, flags |-> flags,
                  level |-> 1, table |-> root[s]]
      /\ UNCHANGED <<mem, root, tables>>
  BY DEF vm_map, MapAccepted, spaces
<1>2. PICK t \in Translations : t = [frame |-> f, flags |-> flags]
  BY DEF Translations
<1>3. p \in UserPages /\ s \in Live /\ Mapping[s][p] = NotMapped
  BY <1>1 DEF UserPages, Live, Mapping, Lookup
<1>4. Live' = Live /\ Mapping' = Mapping
  BY <1>1, QuietKept
<1>5. Request' = {[space |-> s, page |-> p, to |-> t]}
  <2>1. walk' # Idle
    <3>1. root[s] \in Frame
      BY <1>1 DEF VMInv, TypeOK
    <3>2. walk' \in Walk
      BY <1>1, <3>1 DEF Walk
    <3>3. QED BY <3>2, MarkerAssumption
  <2>2. QED BY <1>1, <1>2, <2>1 DEF Request
<1>6. UserMap!Ask(s, p, t)
  BY <1>3, <1>4, <1>5 DEF UserMap!Ask, Live, Mapping, UserPages, Request
<1>7. QED BY <1>2, <1>3, <1>6

\* A vm_map that gives up has changed nothing that is seen.
LEMMA RefinesFailure ==
  ASSUME VMInv, vm_map_fails
  PROVE  UserMap!MapFails
<1>1. walk' = Idle /\ UNCHANGED <<mem, root, tables>>
  BY DEF vm_map_fails, spaces
<1>2. Live' = Live /\ Mapping' = Mapping
  BY <1>1, QuietKept
<1>3. Request' = {}
  BY <1>1 DEF Request
<1>4. QED BY <1>2, <1>3 DEF UserMap!MapFails, Live, Mapping, UserPages, Request

\* The last level of vm_map is Map, with exactly the permissions asked for:
\* the links above the leaf allow everything.
LEMMA RefinesMap ==
  ASSUME VMInv, vm_map_leaf
  PROVE  \E s \in Space, p \in UserPages, t \in Translations : UserMap!Map(s, p, t)
<1>1. PICK s \in Space, p \in Page :
        /\ p \in Paths /\ p # ZeroPage /\ root[s] # NoRoot
        /\ ~LeafPresent(s, p) /\ LeafPresent(s, p)'
        /\ s = walk.space /\ p = walk.page
        /\ walk.frame \in Frame /\ walk.flags \in FlagSets
        /\ Leaf(s, p)' = Link(walk.frame, walk.flags)
        /\ \A r \in Space, q \in Paths : r # s \/ q # p => Same(r, q)
        /\ \A r \in Space, q \in Paths : SameTables(r, q)
  BY MapLeafEffect
<1>2. PICK t \in Translations : t = [frame |-> walk.frame, flags |-> walk.flags]
  BY <1>1 DEF Translations
<1>3. p \in UserPages /\ Lookup(s, p) = NotMapped
  BY <1>1 DEF UserPages, Paths, Lookup
<1>4. Lookup(s, p)' = t
  <2>1. Trees' /\ VMInv'
    BY MapLeafStep DEF VMInv
  <2>2. Linked(s, p)'
    BY <1>1, <2>1 DEF Trees
  <2>3. Reaches4(s, p)' /\ Reaches3(s, p)' /\ Reaches2(s, p)'
    BY <1>1 DEF LeafPresent, Reaches4, Reaches3
  <2>4. Entry1(s, p)'.flags = All /\ Entry2(s, p)'.flags = All /\ Entry3(s, p)'.flags = All
    BY <2>2, <2>3 DEF Linked, Proper, Reaches2, Reaches3, Reaches4, Descends
  <2>5. walk.flags \subseteq All
    BY <1>1, VMAssumption DEF All
  <2>6. Lookup(s, p)' = [frame |-> Leaf(s, p)'.frame,
                         flags |-> All \cap All \cap All \cap Leaf(s, p)'.flags]
    BY <1>1, <2>4 DEF Lookup
  <2>7. Leaf(s, p)'.frame = walk.frame /\ Leaf(s, p)'.flags = walk.flags
    BY <1>1 DEF Link
  <2>8. All \cap All \cap All \cap walk.flags = walk.flags
    BY <2>5
  <2>9. QED BY <1>2, <2>6, <2>7, <2>8
<1>5. ASSUME NEW r \in Space, NEW q \in UserPages
      PROVE  Lookup(r, q)' = IF r = s /\ q = p THEN t ELSE Lookup(r, q)
  <2>1. CASE r # s \/ q # p
    BY <1>1, <2>1, UserPagesArePaths, SameLookup
  <2>2. CASE r = s /\ q = p
    BY <1>4, <2>2
  <2>3. QED BY <2>1, <2>2
<1>6. Mapping' = [Mapping EXCEPT ![s][p] = t]
  BY <1>3, <1>5 DEF Mapping, UserPages, LowerHalf, ZeroPage
<1>7. s \in Live /\ Live' = Live /\ Mapping[s][p] = NotMapped
  <2>1. UNCHANGED root
    BY DEF vm_map_leaf, spaces
  <2>2. QED BY <1>1, <1>3, <2>1 DEF Live, Mapping
<1>8. Request = {[space |-> s, page |-> p, to |-> t]} /\ Request' = {}
  <2>1. walk # Idle /\ walk' = Idle
    BY DEF vm_map_leaf
  <2>2. QED BY <1>1, <1>2, <2>1 DEF Request
<1>9. UserMap!Map(s, p, t)
  BY <1>3, <1>6, <1>7, <1>8 DEF UserMap!Map, Live, Mapping, UserPages, Request
<1>10. QED BY <1>2, <1>3, <1>9

\* Every step of vm.c is a step of the abstract map or is not seen.
LEMMA RefinesNext == VMInv /\ [Next]_vars => [UserMap!Next]_(UserMap!mapVars)
<1> SUFFICES ASSUME VMInv, [Next]_vars PROVE [UserMap!Next]_(UserMap!mapVars)
  OBVIOUS
<1>1. CASE UNCHANGED vars
  <2>1. UNCHANGED <<mem, root, tables, walk>>
    BY <1>1 DEF vars, spaces
  <2>2. QED BY <2>1, QuietUnseen
<1>2. ASSUME NEW s \in Space, vm_create(s) \/ vm_destroy(s) PROVE UserMap!Next
  <2>1. Request = {}
    BY <1>2, NoneAsked DEF vm_create, vm_destroy, Ready
  <2>2. QED BY <1>2, <2>1, RefinesCreate, RefinesDestroy DEF UserMap!Next, Request
<1>3. ASSUME NEW s \in Space, NEW p \in Page, vm_unmap(s, p) PROVE UserMap!Next
  <2>1. Request = {}
    BY <1>3, NoneAsked DEF vm_unmap, Ready
  <2>2. QED BY <1>3, <2>1, RefinesUnmap DEF UserMap!Next, UserPages, Request
<1>4. ASSUME NEW s \in Space, NEW p \in Page, TlbFill(s, p) PROVE UNCHANGED UserMap!mapVars
  <2>1. UNCHANGED <<mem, root, tables, walk>>
    BY <1>4 DEF TlbFill, spaces
  <2>2. QED BY <2>1, QuietUnseen
<1>5. ASSUME NEW s \in Space, NEW p \in Page, NEW f \in Frame, NEW flags \in FlagSets,
             vm_map(s, p, f, flags)
      PROVE  UserMap!Next
  <2>1. Request = {}
    BY <1>5, NoneAsked DEF vm_map, Ready
  <2>2. QED BY <1>5, <2>1, RefinesAsk DEF UserMap!Next, UserPages, Translations, Request
<1>6. CASE vm_map_descend
  <2>1. UNCHANGED <<mem, root, tables>>
    BY <1>6 DEF vm_map_descend, spaces
  <2>2. Request' = Request
    <3>1. Here.frame \in Frame
      BY <1>6, DescendEffect
    <3>2. QED BY <1>6, <3>1, RequestKept DEF vm_map_descend, Walking
  <2>3. QED BY <2>1, <2>2, QuietKept, Unseen
<1>7. CASE vm_map_new_table
  BY <1>7, NewTableUnseen
<1>8. CASE vm_map_leaf
  <2>1. Request # {}
    BY <1>8 DEF vm_map_leaf, Request
  <2>2. QED BY <1>8, <2>1, RefinesMap DEF UserMap!Next, UserPages, Translations, Request
<1>9. ASSUME NEW r \in Frame \cup {BootRoot}, vm_switch(r) PROVE UNCHANGED UserMap!mapVars
  <2>1. UNCHANGED <<mem, root, tables, walk>>
    BY <1>9 DEF vm_switch, spaces
  <2>2. QED BY <2>1, QuietUnseen
<1>10. ASSUME NEW f \in Frame, TakePage(f) \/ ReturnPage(f) PROVE UNCHANGED UserMap!mapVars
  <2>1. UNCHANGED <<mem, root, tables, walk>>
    BY <1>10 DEF TakePage, ReturnPage, spaces
  <2>2. QED BY <2>1, QuietUnseen
<1>11. CASE vm_map_fails
  <2>1. Request # {}
    BY <1>11 DEF vm_map_fails, Walking, Request
  <2>2. QED BY <1>11, <2>1, RefinesFailure DEF UserMap!Next, Request
<1>12. QED
  BY <1>1, <1>2, <1>3, <1>4, <1>5, <1>6, <1>7, <1>8, <1>9, <1>10, <1>11 DEF Next

\* vm.c implements what vm.h promises: seen through vm_lookup its spaces are
\* partial maps, every step is one operation on one of them or nothing, and
\* what vm_map adds is the page and the permissions it was asked for.
THEOREM AddressMapImplemented == Spec => ImplementsAddressMap
<1>1. Init => UserMap!Init
  BY RefinesInit
<1>2. VMInv /\ [Next]_vars => [UserMap!Next]_(UserMap!mapVars)
  BY RefinesNext
<1>3. QED
  BY <1>1, <1>2, VMInvariant, PTL DEF Spec, ImplementsAddressMap, UserMap!Spec
=============================================================================
