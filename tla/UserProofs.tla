----------------------------- MODULE UserProofs -----------------------------
(***************************************************************************)
(* kernel/usercopy.c and kernel/ramfs.c, for every page size, every word,  *)
(* every number of tasks, files and slots and every file length: the check *)
(* of user ranges is exact, reads deliver files in order, and a refused    *)
(* call leaves no trace.                                                   *)
(*                                                                         *)
(* The experiments M3 to M6, for every number of table pages and of free   *)
(* pages and every slice that holds four calls: they end in no panic but   *)
(* their intentional stop.                                                 *)
(***************************************************************************)
EXTENDS UserFiles, TwoTask, SequenceFacts

-----------------------------------------------------------------------------
(* Arithmetic.                                                             *)

\* Quotient and remainder by the size of a page.
LEMMA Division ==
  ASSUME NEW n \in Nat
  PROVE  /\ n \div PageSize \in Nat /\ n % PageSize \in 0 .. (PageSize - 1)
         /\ n = PageSize * (n \div PageSize) + (n % PageSize)
BY UserFilesAssumption

\* They are determined by the equation.
LEMMA DivisionUnique ==
  ASSUME NEW q \in Nat, NEW r \in 0 .. (PageSize - 1)
  PROVE  /\ (PageSize * q + r) \div PageSize = q
         /\ (PageSize * q + r) % PageSize = r
BY UserFilesAssumption

\* The smaller of two numbers.
LEMMA SmallerOfTwo ==
  ASSUME NEW x \in Int, NEW y \in Int
  PROVE  Min({x, y}) \in {x, y} /\ Min({x, y}) <= x /\ Min({x, y}) <= y
<1>1. \E m \in {x, y} : \A z \in {x, y} : m <= z
  OBVIOUS
<1>2. QED BY <1>1 DEF Min

-----------------------------------------------------------------------------
(* user_range.                                                             *)

\* The loop looks at one address of every page the range touches.
LEMMA VisitsEveryPage ==
  ASSUME NEW a \in Nat, NEW b \in Nat, a <= b
  PROVE  \E c \in a .. b : /\ c = a \/ c % PageSize = 0
                           /\ c \div PageSize = b \div PageSize
<1>1. PICK q \in Nat, r \in 0 .. (PageSize - 1) : q = b \div PageSize /\ b = PageSize * q + r
  BY Division
<1>2. PageSize * q \in Nat /\ PageSize * q <= b
  BY <1>1, UserFilesAssumption
<1>3. CASE a <= PageSize * q
  <2>1. 0 \in 0 .. (PageSize - 1) /\ PageSize * q + 0 = PageSize * q
    BY <1>2, UserFilesAssumption
  <2>2. (PageSize * q) \div PageSize = q /\ (PageSize * q) % PageSize = 0
    BY <2>1, DivisionUnique
  <2>3. QED BY <1>1, <1>2, <1>3, <2>2
<1>4. CASE PageSize * q < a
  <2>1. PICK d \in 0 .. (PageSize - 1) : a = PageSize * q + d
    <3>1. a - PageSize * q \in 0 .. (PageSize - 1)
      BY <1>1, <1>2, <1>4, UserFilesAssumption
    <3>2. a = PageSize * q + (a - PageSize * q)
      BY <1>2
    <3>3. QED BY <3>1, <3>2
  <2>2. a \div PageSize = q
    BY <2>1, DivisionUnique
  <2>3. QED BY <1>1, <2>2
<1>5. QED BY <1>2, <1>3, <1>4

\* What user_range accepts.
LEMMA RangeExact ==
  ASSUME NEW t \in Tasks, NEW a \in Nat, NEW length \in Nat, NEW writing \in BOOLEAN
  PROVE  user_range(t, a, length, writing) <=>
           /\ length <= CopyLimit /\ a < UserLimit /\ a + length <= UserLimit
           /\ \A b \in a .. (a + length - 1) : Allows(t, b, writing)
<1>1. length <= UserLimit - a <=> a + length <= UserLimit
  BY UserFilesAssumption
<1>2. (\A b \in Visited(a, length) : Allows(t, b, writing)) <=>
        (\A b \in a .. (a + length - 1) : Allows(t, b, writing))
  <2>1. Visited(a, length) \subseteq a .. (a + length - 1)
    BY DEF Visited
  <2>2. ASSUME \A b \in Visited(a, length) : Allows(t, b, writing),
               NEW b \in a .. (a + length - 1)
        PROVE  Allows(t, b, writing)
    <3>1. PICK c \in a .. b : (c = a \/ c % PageSize = 0) /\ c \div PageSize = b \div PageSize
      BY VisitsEveryPage
    <3>2. c \in Visited(a, length)
      BY <3>1 DEF Visited
    <3>3. Allows(t, c, writing)
      BY <2>2, <3>2
    <3>4. QED BY <3>1, <3>3 DEF Allows
  <2>3. QED BY <2>1, <2>2
<1>3. QED BY <1>1, <1>2 DEF user_range

-----------------------------------------------------------------------------
(* The files.                                                              *)

\* ramfs_open refuses and changes nothing, or takes a slot that is free.
LEMMA OpenEffect ==
  ASSUME NEW slots \in [Fds -> Slot], NEW name
  PROVE  LET r == ramfs_open(slots, name) IN
           \/ r.result \in {-4, -5} /\ r.slots = slots
           \/ /\ r.result \in Fds /\ name \in Files /\ ~slots[r.result].used
              /\ r.slots = [slots EXCEPT ![r.result] = [used |-> TRUE, file |-> name, offset |-> 0]]
<1>1. CASE name \notin Files
  BY <1>1 DEF ramfs_open, Return
<1>2. CASE name \in Files /\ FreeFds(slots) = {}
  BY <1>2 DEF ramfs_open, Return
<1>3. CASE name \in Files /\ FreeFds(slots) # {}
  <2>1. FreeFds(slots) \in SUBSET Nat
    BY RamFSAssumption DEF FreeFds, Fds
  <2>2. PICK fd \in FreeFds(slots) : fd = Min(FreeFds(slots))
    BY <1>3, <2>1, SmallestExists
  <2>3. ramfs_open(slots, name) =
          Return(fd, [slots EXCEPT ![fd] = [used |-> TRUE, file |-> name, offset |-> 0]])
    BY <1>3, <2>2 DEF ramfs_open
  <2>4. fd \in Fds /\ ~slots[fd].used
    BY <2>2 DEF FreeFds
  <2>5. QED BY <1>3, <2>3, <2>4 DEF Return
<1>4. QED BY <1>1, <1>2, <1>3

\* A read that moves the offset of its slot by what it delivers, never past
\* the end of the file.
Delivers(slots, fd, length, r) ==
  /\ fd \in Fds /\ slots[fd].used /\ r.result \in 0 .. length
  /\ slots[fd].offset + r.result <= FileSize[slots[fd].file]
  /\ r.slots = [slots EXCEPT ![fd].offset = @ + r.result]

\* ramfs_read refuses and changes nothing, or delivers.
LEMMA ReadEffect ==
  ASSUME NEW slots \in [Fds -> Slot], NEW fd, NEW length \in Nat, NEW r,
         \A d \in Fds : slots[d].used => slots[d].offset <= FileSize[slots[d].file],
         r = ramfs_read(slots, fd, length)
  PROVE  (r.result = -3 /\ r.slots = slots) \/ Delivers(slots, fd, length, r)
<1>1. CASE ~IsOpen(slots, fd)
  BY <1>1 DEF ramfs_read, Return
<1>2. CASE IsOpen(slots, fd)
  <2>1. fd \in Fds /\ slots[fd].used /\ slots[fd] \in Slot
    BY <1>2 DEF IsOpen
  <2>2. /\ slots[fd].offset \in Nat /\ FileSize[slots[fd].file] \in Nat
        /\ slots[fd].offset <= FileSize[slots[fd].file]
    BY <2>1, RamFSAssumption DEF Slot, Files
  <2>3. PICK n : n = Available(slots[fd], length)
    OBVIOUS
  <2>4. n \in 0 .. length /\ slots[fd].offset + n <= FileSize[slots[fd].file]
    <3>1. FileSize[slots[fd].file] - slots[fd].offset \in Int /\ length \in Int
      BY <2>2
    <3>2. /\ n \in {length, FileSize[slots[fd].file] - slots[fd].offset}
          /\ n <= length /\ n <= FileSize[slots[fd].file] - slots[fd].offset
      BY <2>3, <3>1, SmallerOfTwo DEF Available
    <3>3. QED BY <2>2, <3>2
  <2>5. ramfs_read(slots, fd, length) = Return(n, [slots EXCEPT ![fd].offset = @ + n])
    BY <1>2, <2>3 DEF ramfs_read
  <2>6. QED BY <2>1, <2>4, <2>5 DEF Return, Delivers
<1>3. QED BY <1>1, <1>2

\* ramfs_close refuses and changes nothing, or frees an open slot.
LEMMA CloseEffect ==
  ASSUME NEW slots \in [Fds -> Slot], NEW fd
  PROVE  LET r == ramfs_close(slots, fd) IN
           \/ r.result = -3 /\ r.slots = slots
           \/ /\ fd \in Fds /\ r.result = 0
              /\ r.slots = [slots EXCEPT ![fd].used = FALSE]
BY DEF ramfs_close, Return, IsOpen

-----------------------------------------------------------------------------
(* The calls.                                                              *)

FilesTyped ==
  /\ files \in [Tasks -> [Fds -> Slot]]
  /\ got \in [Tasks -> [Fds -> Seq(Nat)]]
  /\ uart \in Nat

\* The inductive invariant.
FilesInv == FilesTyped /\ ReadsFormAPrefix

\* What one step may never do.
NoTrace ==
  /\ last'.result < 0 => UNCHANGED <<files, uart>> /\ last'.wrote = {}
  /\ \A b \in last'.wrote : Allows(last'.task, b, TRUE)

\* What the reads of one slot add to what they have delivered.
LEMMA PrefixGrows ==
  ASSUME NEW m \in Nat, NEW n \in Nat
  PROVE  [k \in 1 .. m |-> k] \o [k \in 1 .. n |-> m + k] = [k \in 1 .. (m + n) |-> k]
<1> DEFINE s1 == [k \in 1 .. m |-> k]
           s2 == [k \in 1 .. n |-> m + k]
           s3 == [k \in 1 .. (m + n) |-> k]
<1>1. s1 \in Seq(Nat) /\ s2 \in Seq(Nat) /\ s3 \in Seq(Nat)
  OBVIOUS
<1>2. Len(s1) = m /\ Len(s2) = n /\ Len(s3) = m + n
  OBVIOUS
<1>3. /\ \A i \in 1 .. m : s1[i] = i
      /\ \A i \in 1 .. n : s2[i] = m + i
      /\ \A i \in 1 .. (m + n) : s3[i] = i
  OBVIOUS
<1> HIDE DEF s1, s2, s3
<1>4. /\ s1 \o s2 \in Seq(Nat) /\ Len(s1 \o s2) = m + n
      /\ \A i \in 1 .. (m + n) : (s1 \o s2)[i] = IF i <= m THEN s1[i] ELSE s2[i - m]
  BY <1>1, <1>2, ConcatProperties
<1>5. \A i \in 1 .. (m + n) : (s1 \o s2)[i] = s3[i]
  BY <1>3, <1>4
<1>6. s1 \o s2 = s3
  BY <1>1, <1>2, <1>4, <1>5, SeqEqual
<1>7. QED BY <1>6 DEF s1, s2, s3

\* The kernel writes only what user_range has accepted.
LEMMA WritesAccepted ==
  ASSUME NEW t \in Tasks, NEW a \in Nat, NEW length \in Nat, NEW n \in Nat, n <= length,
         user_range(t, a, length, TRUE), UNCHANGED mapping
  PROVE  \A b \in a .. (a + n - 1) : Allows(t, b, TRUE) /\ Allows(t, b, TRUE)'
<1>1. \A b \in a .. (a + length - 1) : Allows(t, b, TRUE)
  BY RangeExact
<1>2. \A b \in a .. (a + n - 1) : b \in a .. (a + length - 1)
  OBVIOUS
<1>3. QED BY <1>1, <1>2 DEF Allows

\* Nothing happens to the files.
LEMMA FilesUntouched ==
  ASSUME FilesInv, UNCHANGED <<files, got>>, uart' \in Nat
  PROVE  FilesInv'
<1>1. FilesTyped'
  BY DEF FilesInv, FilesTyped
<1>2. ReadsFormAPrefix'
  BY DEF FilesInv, ReadsFormAPrefix
<1>3. QED BY <1>1, <1>2 DEF FilesInv

\* SYS_OPEN: the slot it takes starts at the beginning of the file.
LEMMA OpenStep ==
  ASSUME FilesInv, NEW t \in Tasks, NEW a \in Nat, NEW length \in Nat, NEW name,
         sys_open(t, a, length, name)
  PROVE  FilesInv' /\ NoTrace
<1>1. PICK r : /\ \/ r = ramfs_open(files[t], name)
                  \/ r = Return(-2, files[t])
               /\ files' = [files EXCEPT ![t] = r.slots]
               /\ got' = IF r.result >= 0 THEN [got EXCEPT ![t][r.result] = << >>] ELSE got
               /\ last' = [task |-> t, result |-> r.result, wrote |-> {}]
               /\ uart' = uart
  BY DEF sys_open, Ends
<1>2. files[t] \in [Fds -> Slot] /\ got[t] \in [Fds -> Seq(Nat)]
  BY DEF FilesInv, FilesTyped
<1>3. \/ r.result \in {-2, -4, -5} /\ r.slots = files[t]
      \/ /\ r.result \in Fds /\ name \in Files /\ ~files[t][r.result].used
         /\ r.slots = [files[t] EXCEPT ![r.result] = [used |-> TRUE, file |-> name, offset |-> 0]]
  <2>1. CASE r = ramfs_open(files[t], name)
    BY <1>2, <2>1, OpenEffect
  <2>2. CASE r = Return(-2, files[t])
    BY <2>2 DEF Return
  <2>3. QED BY <1>1, <2>1, <2>2
<1>4. CASE r.result \in {-2, -4, -5} /\ r.slots = files[t]
  <2>1. files' = files /\ got' = got
    BY <1>1, <1>4 DEF FilesInv, FilesTyped
  <2>2. FilesInv'
    BY <1>1, <2>1, FilesUntouched DEF FilesInv, FilesTyped
  <2>3. QED BY <1>1, <2>1, <2>2 DEF NoTrace
<1>5. CASE /\ r.result \in Fds /\ name \in Files
           /\ r.slots = [files[t] EXCEPT ![r.result] = [used |-> TRUE, file |-> name, offset |-> 0]]
  <2>1. PICK fd \in Fds : fd = r.result
    BY <1>5
  <2>2. fd \in Nat
    BY RamFSAssumption DEF Fds
  <2>3. /\ files' = [files EXCEPT ![t] = [files[t] EXCEPT ![fd] =
                                             [used |-> TRUE, file |-> name, offset |-> 0]]]
        /\ got' = [got EXCEPT ![t] = [got[t] EXCEPT ![fd] = << >>]]
    BY <1>1, <1>5, <2>1, <2>2
  <2>4. [used |-> TRUE, file |-> name, offset |-> 0] \in Slot /\ << >> \in Seq(Nat)
    BY <1>5 DEF Slot
  <2>5. FilesTyped'
    <3>1. [files[t] EXCEPT ![fd] = [used |-> TRUE, file |-> name, offset |-> 0]] \in [Fds -> Slot]
      BY <1>2, <2>4
    <3>2. [got[t] EXCEPT ![fd] = << >>] \in [Fds -> Seq(Nat)]
      BY <1>2, <2>4
    <3>3. QED BY <1>1, <2>3, <3>1, <3>2 DEF FilesInv, FilesTyped
  <2>6. /\ files'[t][fd] = [used |-> TRUE, file |-> name, offset |-> 0] /\ got'[t][fd] = << >>
        /\ \A u \in Tasks, d \in Fds : u # t \/ d # fd =>
             files'[u][d] = files[u][d] /\ got'[u][d] = got[u][d]
    BY <1>2, <2>3 DEF FilesInv, FilesTyped
  <2>7. ReadsFormAPrefix'
    <3>1. ASSUME NEW u \in Tasks, NEW d \in Fds, files'[u][d].used
          PROVE  /\ got'[u][d] = [k \in 1 .. files'[u][d].offset |-> k]
                 /\ files'[u][d].offset <= FileSize[files'[u][d].file]
      <4>1. CASE u = t /\ d = fd
        <5>1. FileSize[name] \in Nat
          BY <1>5, RamFSAssumption DEF Files
        <5>2. [k \in 1 .. 0 |-> k] = << >>
          OBVIOUS
        <5>3. QED BY <2>6, <4>1, <5>1, <5>2
      <4>2. CASE u # t \/ d # fd
        BY <2>6, <3>1, <4>2 DEF FilesInv, ReadsFormAPrefix
      <4>3. QED BY <4>1, <4>2
    <3>2. QED BY <3>1 DEF ReadsFormAPrefix
  <2>8. NoTrace
    BY <1>1, <2>1, <2>2 DEF NoTrace
  <2>9. QED BY <2>5, <2>7, <2>8 DEF FilesInv
<1>6. QED BY <1>3, <1>4, <1>5

\* SYS_READ: what it delivers continues what the slot has delivered.
LEMMA ReadStep ==
  ASSUME FilesInv, NEW t \in Tasks, NEW fd, NEW a \in Nat, NEW length \in Nat,
         sys_read(t, fd, a, length)
  PROVE  FilesInv' /\ NoTrace
<1>1. PICK r : /\ \/ user_range(t, a, length, TRUE) /\ r = ramfs_read(files[t], fd, length)
                  \/ r = Return(-2, files[t])
               /\ files' = [files EXCEPT ![t] = r.slots]
               /\ got' = IF r.result > 0
                         THEN [got EXCEPT ![t][fd] = @ \o
                                 [k \in 1 .. r.result |-> files[t][fd].offset + k]]
                         ELSE got
               /\ last' = [task |-> t, result |-> r.result, wrote |-> a .. (a + r.result - 1)]
               /\ UNCHANGED <<mapping, uart>>
  BY DEF sys_read, ReadCall, Ends
<1>2. /\ files[t] \in [Fds -> Slot] /\ got[t] \in [Fds -> Seq(Nat)]
      /\ \A d \in Fds : files[t][d].used =>
           /\ files[t][d].offset <= FileSize[files[t][d].file]
           /\ got[t][d] = [k \in 1 .. files[t][d].offset |-> k]
  BY DEF FilesInv, FilesTyped, ReadsFormAPrefix
<1>3. \/ r.result \in {-2, -3} /\ r.slots = files[t]
      \/ /\ fd \in Fds /\ files[t][fd].used /\ r.result \in 0 .. length
         /\ user_range(t, a, length, TRUE)
         /\ files[t][fd].offset + r.result <= FileSize[files[t][fd].file]
         /\ r.slots = [files[t] EXCEPT ![fd].offset = @ + r.result]
  <2>1. CASE user_range(t, a, length, TRUE) /\ r = ramfs_read(files[t], fd, length)
    <3>1. \A d \in Fds : files[t][d].used => files[t][d].offset <= FileSize[files[t][d].file]
      BY <1>2
    <3>2. (r.result = -3 /\ r.slots = files[t]) \/ Delivers(files[t], fd, length, r)
      BY <1>2, <2>1, <3>1, ReadEffect
    <3>3. QED BY <2>1, <3>2 DEF Delivers
  <2>2. CASE r = Return(-2, files[t])
    BY <2>2 DEF Return
  <2>3. QED BY <1>1, <2>1, <2>2
<1>4. CASE r.result \in {-2, -3} /\ r.slots = files[t]
  <2>1. files' = files /\ got' = got /\ a .. (a + r.result - 1) = {}
    BY <1>1, <1>4 DEF FilesInv, FilesTyped
  <2>2. FilesInv'
    BY <1>1, <2>1, FilesUntouched DEF FilesInv, FilesTyped
  <2>3. QED BY <1>1, <2>1, <2>2 DEF NoTrace
<1>5. CASE /\ fd \in Fds /\ files[t][fd].used /\ r.result \in 0 .. length
           /\ user_range(t, a, length, TRUE)
           /\ files[t][fd].offset + r.result <= FileSize[files[t][fd].file]
           /\ r.slots = [files[t] EXCEPT ![fd].offset = @ + r.result]
  <2>1. PICK n \in Nat : n = r.result /\ n <= length
    BY <1>5
  <2>2. PICK m \in Nat : m = files[t][fd].offset
    BY <1>2, <1>5 DEF Slot
  <2>3. PICK slot \in Slot : slot = [files[t][fd] EXCEPT !.offset = m + n]
    <3>1. files[t][fd] \in Slot /\ m + n \in Nat
      BY <1>2, <1>5
    <3>2. [files[t][fd] EXCEPT !.offset = m + n] \in Slot
      BY <3>1 DEF Slot
    <3>3. QED BY <3>2
  <2>4. /\ slot.used = files[t][fd].used /\ slot.file = files[t][fd].file
        /\ slot.offset = m + n
    BY <1>2, <1>5, <2>3 DEF Slot
  <2>5. files' = [files EXCEPT ![t] = [files[t] EXCEPT ![fd] = slot]]
    BY <1>1, <1>5, <2>1, <2>2, <2>3
  <2>6. /\ files'[t][fd] = slot
        /\ \A u \in Tasks, d \in Fds : u # t \/ d # fd => files'[u][d] = files[u][d]
    BY <1>2, <1>5, <2>5 DEF FilesInv, FilesTyped
  <2>7. got[t][fd] = [k \in 1 .. m |-> k]
    BY <1>2, <1>5, <2>2
  <2>8. /\ got' \in [Tasks -> [Fds -> Seq(Nat)]]
        /\ got'[t][fd] = [k \in 1 .. (m + n) |-> k]
        /\ \A u \in Tasks, d \in Fds : u # t \/ d # fd => got'[u][d] = got[u][d]
    <3>1. CASE n = 0
      <4>1. got' = got /\ m + n = m
        BY <1>1, <2>1, <3>1
      <4>2. QED BY <2>7, <4>1 DEF FilesInv, FilesTyped
    <3>2. CASE n > 0
      <4>1. PICK g : g = [k \in 1 .. m |-> k] \o [k \in 1 .. n |-> m + k]
        OBVIOUS
      <4>2. g = [k \in 1 .. (m + n) |-> k]
        BY <4>1, PrefixGrows
      <4>3. g \in Seq(Nat)
        BY <4>2
      <4>4. got' = [got EXCEPT ![t] = [got[t] EXCEPT ![fd] = g]]
        BY <1>1, <2>1, <2>2, <2>7, <3>2, <4>1
      <4>5. [got[t] EXCEPT ![fd] = g] \in [Fds -> Seq(Nat)]
        BY <1>2, <1>5, <4>3
      <4>6. got' \in [Tasks -> [Fds -> Seq(Nat)]]
        BY <4>4, <4>5 DEF FilesInv, FilesTyped
      <4>7. /\ got'[t][fd] = g
            /\ \A u \in Tasks, d \in Fds : u # t \/ d # fd => got'[u][d] = got[u][d]
        BY <1>2, <1>5, <4>4 DEF FilesInv, FilesTyped
      <4>8. QED BY <4>2, <4>6, <4>7
    <3>3. QED BY <3>1, <3>2
  <2>9. FilesTyped'
    <3>1. [files[t] EXCEPT ![fd] = slot] \in [Fds -> Slot]
      BY <1>2, <2>3
    <3>2. files' \in [Tasks -> [Fds -> Slot]]
      BY <2>5, <3>1 DEF FilesInv, FilesTyped
    <3>3. QED BY <1>1, <2>8, <3>2 DEF FilesInv, FilesTyped
  <2>10. ReadsFormAPrefix'
    <3>1. ASSUME NEW u \in Tasks, NEW d \in Fds, files'[u][d].used
          PROVE  /\ got'[u][d] = [k \in 1 .. files'[u][d].offset |-> k]
                 /\ files'[u][d].offset <= FileSize[files'[u][d].file]
      <4>1. CASE u = t /\ d = fd
        BY <1>5, <2>1, <2>2, <2>4, <2>6, <2>8, <4>1
      <4>2. CASE u # t \/ d # fd
        <5>1. files'[u][d] = files[u][d] /\ got'[u][d] = got[u][d]
          BY <2>6, <2>8, <4>2
        <5>2. QED BY <3>1, <5>1 DEF FilesInv, ReadsFormAPrefix
      <4>3. QED BY <4>1, <4>2
    <3>2. QED BY <3>1 DEF ReadsFormAPrefix
  <2>11. NoTrace
    <3>1. \A b \in a .. (a + n - 1) : Allows(t, b, TRUE)
      BY <1>1, <1>5, <2>1, WritesAccepted
    <3>2. last'.task = t /\ last'.result = n /\ last'.wrote = a .. (a + n - 1)
      BY <1>1, <2>1
    <3>3. QED BY <3>1, <3>2 DEF NoTrace, Allows
  <2>12. QED BY <2>9, <2>10, <2>11 DEF FilesInv
<1>6. QED BY <1>3, <1>4, <1>5

\* SYS_CLOSE: the slot is free, and nothing is said of it any more.
LEMMA CloseStep ==
  ASSUME FilesInv, NEW t \in Tasks, NEW fd, sys_close(t, fd)
  PROVE  FilesInv' /\ NoTrace
<1>1. PICK r : /\ r = ramfs_close(files[t], fd)
               /\ files' = [files EXCEPT ![t] = r.slots]
               /\ last' = [task |-> t, result |-> r.result, wrote |-> {}]
               /\ UNCHANGED <<mapping, got, uart>>
  BY DEF sys_close, Ends
<1>2. files[t] \in [Fds -> Slot]
  BY DEF FilesInv, FilesTyped
<1>3. \/ r.result = -3 /\ r.slots = files[t]
      \/ fd \in Fds /\ r.result = 0 /\ r.slots = [files[t] EXCEPT ![fd].used = FALSE]
  BY <1>1, <1>2, CloseEffect
<1>4. CASE r.result = -3 /\ r.slots = files[t]
  <2>1. files' = files
    BY <1>1, <1>4 DEF FilesInv, FilesTyped
  <2>2. FilesInv'
    BY <1>1, <2>1, FilesUntouched DEF FilesInv, FilesTyped
  <2>3. QED BY <1>1, <2>1, <2>2 DEF NoTrace
<1>5. CASE fd \in Fds /\ r.result = 0 /\ r.slots = [files[t] EXCEPT ![fd].used = FALSE]
  <2>1. PICK slot \in Slot : slot = [files[t][fd] EXCEPT !.used = FALSE]
    <3>1. files[t][fd] \in Slot
      BY <1>2, <1>5
    <3>2. [files[t][fd] EXCEPT !.used = FALSE] \in Slot
      BY <3>1 DEF Slot
    <3>3. QED BY <3>2
  <2>2. ~slot.used
    BY <1>2, <1>5, <2>1 DEF Slot
  <2>3. files' = [files EXCEPT ![t] = [files[t] EXCEPT ![fd] = slot]]
    BY <1>1, <1>5, <2>1
  <2>4. /\ files'[t][fd] = slot
        /\ \A u \in Tasks, d \in Fds : u # t \/ d # fd => files'[u][d] = files[u][d]
    BY <1>2, <1>5, <2>3 DEF FilesInv, FilesTyped
  <2>5. FilesTyped'
    <3>1. [files[t] EXCEPT ![fd] = slot] \in [Fds -> Slot]
      BY <1>2, <2>1
    <3>2. QED BY <1>1, <2>3, <3>1 DEF FilesInv, FilesTyped
  <2>6. ReadsFormAPrefix'
    BY <1>1, <2>2, <2>4 DEF FilesInv, ReadsFormAPrefix
  <2>7. NoTrace
    BY <1>1, <1>5 DEF NoTrace
  <2>8. QED BY <2>5, <2>6, <2>7 DEF FilesInv
<1>6. QED BY <1>3, <1>4, <1>5

\* The other calls touch no file.
LEMMA OtherStep ==
  ASSUME FilesInv, NEW t \in Tasks, NEW a \in Nat,
         \/ \E length \in Nat : sys_write(t, a, length)
         \/ sys_input(t, a)
         \/ \E found \in BOOLEAN : sys_process(t, found, a)
         \/ \E index \in AnyFile : sys_file(t, index, a)
         \/ sys_memory(t, a)
  PROVE  FilesInv' /\ NoTrace
<1>1. CASE \E length \in Nat : sys_write(t, a, length)
  <2>1. UNCHANGED <<mapping, files, got, uart>> /\ last'.wrote = {}
    BY <1>1 DEF sys_write, Ends
  <2>2. QED BY <2>1, FilesUntouched DEF NoTrace, FilesInv, FilesTyped
<1>2. CASE sys_input(t, a)
  <2>1. UNCHANGED <<mapping, files, got>>
    BY <1>2 DEF sys_input
  <2>2. ASSUME NEW result, UNCHANGED uart, last' = [task |-> t, result |-> result, wrote |-> {}]
        PROVE  FilesInv' /\ NoTrace
    <3>1. last'.wrote = {}
      BY <2>2
    <3>2. QED BY <2>1, <2>2, <3>1, FilesUntouched DEF NoTrace, FilesInv, FilesTyped
  <2>3. CASE /\ user_range(t, a, 1, TRUE) /\ uart # 0 /\ uart' = uart - 1
             /\ last' = [task |-> t, result |-> 1, wrote |-> {a}]
    <3>1. Allows(t, a, TRUE)
      <4>1. 1 \in Nat /\ 1 <= 1 /\ a \in a .. (a + 1 - 1)
        OBVIOUS
      <4>2. QED BY <2>1, <2>3, <4>1, WritesAccepted
    <3>2. FilesInv'
      BY <2>1, <2>3, FilesUntouched DEF FilesInv, FilesTyped
    <3>3. last'.task = t /\ last'.result = 1 /\ last'.wrote = {a}
      BY <2>3
    <3>4. QED BY <3>1, <3>2, <3>3 DEF NoTrace, Allows
  <2>4. QED BY <1>2, <2>2, <2>3 DEF sys_input, Ends
<1>3. ASSUME NEW found \in BOOLEAN, NEW result \in Nat, CopyOut(t, a, found, result)
      PROVE  FilesInv' /\ NoTrace
  <2>1. UNCHANGED <<mapping, files, got, uart>>
    BY <1>3 DEF CopyOut
  <2>2. FilesInv'
    BY <2>1, FilesUntouched DEF FilesInv, FilesTyped
  <2>3. ASSUME NEW code, last' = [task |-> t, result |-> code, wrote |-> {}]
        PROVE  NoTrace
    <3>1. last'.wrote = {}
      BY <2>3
    <3>2. QED BY <2>1, <3>1 DEF NoTrace
  <2>4. CASE /\ user_range(t, a, InfoSize, TRUE)
             /\ last' = [task |-> t, result |-> result, wrote |-> a .. (a + InfoSize - 1)]
    <3>1. InfoSize \in Nat /\ InfoSize <= InfoSize
      BY UserFilesAssumption
    <3>2. \A b \in a .. (a + InfoSize - 1) : Allows(t, b, TRUE)
      BY <2>1, <2>4, <3>1, WritesAccepted
    <3>3. /\ last'.task = t /\ last'.result = result
          /\ last'.wrote = a .. (a + InfoSize - 1)
      BY <2>4
    <3>4. QED BY <2>2, <3>2, <3>3 DEF NoTrace, Allows
  <2>5. QED BY <1>3, <2>2, <2>3, <2>4 DEF CopyOut, Ends
<1>4. CASE \/ \E found \in BOOLEAN : sys_process(t, found, a)
           \/ \E index \in AnyFile : sys_file(t, index, a)
           \/ sys_memory(t, a)
  BY <1>3, <1>4 DEF sys_process, sys_file, sys_memory
<1>5. QED BY <1>1, <1>2, <1>4

\* A character typed touches no task.
LEMMA TypeStep ==
  ASSUME FilesInv, Type
  PROVE  FilesInv' /\ NoTrace
<1>1. /\ uart' = uart + 1 /\ UNCHANGED <<files, got>>
      /\ last' = [task |-> "none", result |-> 0, wrote |-> {}]
  BY DEF Type
<1>2. FilesInv'
  BY <1>1, FilesUntouched DEF FilesInv, FilesTyped
<1>3. QED BY <1>1, <1>2 DEF NoTrace

\* Every call keeps the invariant, and leaves no trace when it is refused.
LEMMA FilesNext == FilesInv /\ Next => FilesInv' /\ NoTrace
<1> SUFFICES ASSUME FilesInv, Next PROVE FilesInv' /\ NoTrace
  OBVIOUS
<1>1. Words \subseteq Nat /\ Lengths \subseteq Nat
  BY UserFilesAssumption DEF Words, Lengths
<1>2. ASSUME NEW t \in Tasks, NEW a \in Words, NEW length \in Lengths,
             \/ \E name \in AnyFile : sys_open(t, a, length, name)
             \/ \E fd \in AnyFd : sys_read(t, fd, a, length)
      PROVE  FilesInv' /\ NoTrace
  BY <1>1, <1>2, OpenStep, ReadStep
<1>3. ASSUME NEW t \in Tasks, NEW a \in Words,
             \/ \E length \in Lengths : sys_write(t, a, length)
             \/ sys_input(t, a)
             \/ \E found \in BOOLEAN : sys_process(t, found, a)
             \/ \E index \in AnyFile : sys_file(t, index, a)
             \/ sys_memory(t, a)
      PROVE  FilesInv' /\ NoTrace
  BY <1>1, <1>3, OtherStep
<1>4. ASSUME NEW t \in Tasks, NEW fd \in AnyFd, sys_close(t, fd) PROVE FilesInv' /\ NoTrace
  BY <1>4, CloseStep
<1>5. CASE Type
  BY <1>5, TypeStep
<1>6. QED BY <1>2, <1>3, <1>4, <1>5 DEF Next

\* No slot is open at the start.
LEMMA FilesInit == Init => FilesInv
<1> SUFFICES ASSUME Init PROVE FilesInv
  OBVIOUS
<1>1. Closed \in Slot /\ << >> \in Seq(Nat)
  BY RamFSAssumption DEF Closed, Slot, Files
<1>2. FilesTyped
  BY <1>1 DEF Init, FilesTyped
<1>3. ReadsFormAPrefix
  BY DEF Init, ReadsFormAPrefix, Closed
<1>4. QED BY <1>2, <1>3 DEF FilesInv

\* The invariant holds in every reachable state.
LEMMA FilesInvariant == Spec => []FilesInv
<1>1. Init => FilesInv
  BY FilesInit
<1>2. FilesInv /\ [Next]_vars => FilesInv'
  <2>1. FilesInv /\ UNCHANGED vars => FilesInv'
    <3> SUFFICES ASSUME FilesInv, UNCHANGED vars PROVE FilesInv'
      OBVIOUS
    <3>1. UNCHANGED <<files, got>> /\ uart' = uart
      BY DEF vars
    <3>2. QED BY <3>1, FilesUntouched DEF FilesInv, FilesTyped
  <2>2. QED BY <2>1, FilesNext
<1>3. QED BY <1>1, <1>2, PTL DEF Spec

-----------------------------------------------------------------------------
\* user_range looks up one address per page and accepts exactly the ranges
\* the task may access byte by byte, at every edge of the word.
THEOREM RangeCorrect == Spec => []RangeAgreesWithPages
<1>1. RangeAgreesWithPages
  <2>1. Words \subseteq Nat /\ 0 .. WordMax \subseteq Nat
    BY UserFilesAssumption DEF Words
  <2>2. QED BY <2>1, RangeExact DEF RangeAgreesWithPages
<1>2. QED BY <1>1, PTL

\* SYS_READ delivers each open file from its beginning, in order and without
\* gaps, across refused calls and the calls of other slots and tasks.
THEOREM ReadsCorrect == Spec => []ReadsFormAPrefix
<1>1. FilesInv => ReadsFormAPrefix
  BY DEF FilesInv
<1>2. QED BY <1>1, FilesInvariant, PTL

\* A call with a negative result consumed nothing and wrote nothing, and no
\* call writes where its caller could not have.
THEOREM RefusalsCorrect == Spec => RefusedCallsLeaveNoTrace
<1>1. FilesInv /\ [Next]_vars => [NoTrace]_vars
  BY FilesNext
<1>2. QED BY <1>1, FilesInvariant, PTL DEF Spec, RefusedCallsLeaveNoTrace, NoTrace
-----------------------------------------------------------------------------
(* TwoTask: the invariant of the two programs.                             *)

\* struct task.
Task == [alive : BOOLEAN, reported : BOOLEAN, fault_seen : BOOLEAN, user_seen : BOOLEAN,
         counter : Nat, slices : Nat, rejected_pointers : Nat, rejected_calls : Nat,
         files_opened : Nat, bytes_read : Nat, eof_reads : Nat, file_errors : Nat,
         files : [Fds -> Slot]]

\* Whether line k is among the first n.
Past(n, k) == IF n >= k THEN 1 ELSE 0

\* What the kernel has counted for a task after n lines of the script.
CountsAfter(t, n) ==
  /\ n >= 1 => t.user_seen
  /\ t.rejected_pointers = Past(n, 4) + Past(n, 5) + Past(n, 6) + Past(n, 13) + Past(n, 14)
  /\ t.rejected_calls = Past(n, 3)
  /\ t.files_opened = Past(n, 8) + Past(n, 9) + Past(n, 25)
  /\ t.bytes_read = 5 * Past(n, 15) + 12 * Past(n, 17) + Past(n, 20)
  /\ t.eof_reads = Past(n, 19) + Past(n, 26)
  /\ t.file_errors = Past(n, 7) + Past(n, 10) + Past(n, 11) + Past(n, 12)
                     + Past(n, 23) + Past(n, 24)

\* The task's slots after n lines.
SlotsAfter(slots, n) ==
  /\ slots[0].used <=> n \in 8 .. 20 \cup 25 .. 26
  /\ slots[1].used <=> n \in 9 .. 21
  /\ n \in 8 .. 20 => /\ slots[0].file = Hello
                      /\ slots[0].offset = 5 * Past(n, 15) + 12 * Past(n, 17)
  /\ n \in 25 .. 26 => slots[0].file = Empty /\ slots[0].offset = 0
  /\ n \in 9 .. 21 => slots[1].file = Hello /\ slots[1].offset = Past(n, 20)

\* Both, for a task whose program has made n calls of its script.
After(t, n) == CountsAfter(t, n) /\ SlotsAfter(t.files, n)

\* The length of the script.
Lines == IF level >= 5 THEN 27 ELSE 6

\* Where a program can be.
Places == {"count", "script", "start", "loop", "report", "probe", "exit"}

\* The types of the state.
RunTyped ==
  /\ level \in 3 .. 6 /\ current \in T /\ ticks \in Nat /\ steps \in 0 .. SliceSteps
  /\ tasks \in [T -> Task]
  /\ user \in [T -> [at : Places, line : Nat, start : Nat]]
  /\ data \in [T -> [marker : {0, 1, 2}, moved : SUBSET Nat]]
  /\ free \in Nat /\ initial_free \in Nat

\* M3: a counter has moved once its task has had a step.
Counting ==
  /\ \A i \in T : user[i].at = "count"
  /\ \A i \in T : tasks[i].slices >= 1 => tasks[i].counter = 1
  /\ steps >= 1 => tasks[current].counter = 1

\* Task i has not yet started its timed loop.
InScript(i) == user[i].at \in {"script", "start"}

\* The kernel has counted for task i exactly what its script asked so far.
ScriptInv(i) ==
  /\ user[i].at # "count"
  /\ user[i].line \in 1 .. (Lines + 1)
  /\ user[i].at = "script" <=> user[i].line <= Lines
  /\ After(tasks[i], user[i].line - 1)
  /\ tasks[i].reported <=> user[i].at \in {"probe", "exit"}

\* Past its start, a task of M6 has marked its own page and, once it has had
\* a step two ticks later, has moved the counter there.
LoopInv(i) ==
  ~InScript(i) =>
    /\ user[i].start <= ticks
    /\ level >= 6 =>
         /\ data[i].marker = i
         /\ \/ user[i].at # "loop"
            \/ ticks = user[i].start + 2 /\ steps >= 1
            \/ ticks >= user[i].start + 3
            => 1 \in data[i].moved

\* The steps of this slice, as far as they count towards the script.
SliceShare == IF steps < 4 THEN steps ELSE 4

\* While both live they take turns, so a tick's parity tells whose it is; each
\* two ticks bring task 0 at least four calls on, so its loop starts by tick 12
\* and it faults twelve ticks later, before the survivor's loop is over.
TogetherInv ==
  tasks[0].alive =>
    /\ current = ticks % 2
    /\ tasks[0].slices = (ticks + 1) \div 2 /\ tasks[1].slices = ticks \div 2
    /\ ~tasks[0].fault_seen
    /\ user[0].at \in {"script", "start", "loop", "report", "probe"}
    /\ user[1].at \in {"script", "start", "loop"}
    /\ \A i \in T : ~InScript(i) => user[i].start % 2 = i
    /\ InScript(0) =>
         user[0].line - 1 >= IF current = 0 THEN 2 * ticks + SliceShare ELSE 2 * (ticks + 1)
    /\ ~InScript(0) => user[0].start <= 12 /\ ticks <= user[0].start + 12
    /\ user[0].at = "loop" /\ ticks = user[0].start + 12 => steps = 0
    /\ user[0].at = "report" => ticks = user[0].start + 12 /\ steps <= 1
    /\ user[0].at = "probe" => ticks = user[0].start + 12 /\ steps <= 2

\* After the fault.
AloneInv ==
  ~tasks[0].alive =>
    /\ current = 1
    /\ tasks[0].fault_seen /\ user[0].at = "probe"
    /\ tasks[0].slices >= 2 /\ tasks[1].slices >= 2
    /\ user[1].at \in {"script", "start", "loop", "report", "exit"}

\* M4 to M6.
UserInv ==
  /\ tasks[1].alive /\ ~tasks[1].fault_seen
  /\ free = initial_free - Needed
  /\ \A i \in T : ScriptInv(i) /\ LoopInv(i)
  /\ TogetherInv /\ AloneInv

\* The state task_start finds.
Starting ==
  /\ tasks = [i \in T |-> NewTask] /\ free = initial_free
  /\ current = 0 /\ ticks = 0 /\ steps = 0
  /\ \A i \in T : /\ user[i].at = (IF level = 3 THEN "count" ELSE "script")
                  /\ user[i].line = 1

\* The inductive invariant.
TwoTaskInv ==
  EnoughMemory =>
    \/ stopped = "preparing" /\ RunTyped /\ Starting
    \/ stopped = "no" /\ RunTyped /\ level = 3 /\ Counting
    \/ stopped = "no" /\ RunTyped /\ level >= 4 /\ UserInv
    \/ stopped = "intentional stop"

-----------------------------------------------------------------------------
(* What one system call makes of a task.                                   *)

\* Two slots, and the two files the program opens.
LEMMA SlotFacts ==
  /\ Fds = {0, 1} /\ 0 \in Files /\ 1 \in Files /\ -1 \notin Files
  /\ FileSize[0] = 17 /\ FileSize[1] = 0
BY TwoTaskAssumption DEF Fds, Hello, Empty, Missing

\* What no call touches.
SameTask(t, u) ==
  /\ u.alive = t.alive /\ u.reported = t.reported /\ u.fault_seen = t.fault_seen
  /\ u.counter = t.counter /\ u.slices = t.slices

\* u is t with user_seen set, the observations increased by as much as the
\* arguments say, and other slots.
Becomes(t, u, pointers, calls, opened, bytes, eofs, errors, slots) ==
  /\ u \in Task /\ SameTask(t, u) /\ u.user_seen
  /\ u.rejected_pointers = t.rejected_pointers + pointers
  /\ u.rejected_calls = t.rejected_calls + calls
  /\ u.files_opened = t.files_opened + opened /\ u.bytes_read = t.bytes_read + bytes
  /\ u.eof_reads = t.eof_reads + eofs /\ u.file_errors = t.file_errors + errors
  /\ u.files = slots

\* One observation of a task goes up.
LEMMA Raised ==
  ASSUME NEW t \in Task, t.user_seen, NEW k \in Nat
  PROVE  /\ Becomes(t, [t EXCEPT !.rejected_pointers = @ + k], k, 0, 0, 0, 0, 0, t.files)
         /\ Becomes(t, [t EXCEPT !.rejected_calls = @ + k], 0, k, 0, 0, 0, 0, t.files)
         /\ Becomes(t, [t EXCEPT !.files_opened = @ + k], 0, 0, k, 0, 0, 0, t.files)
         /\ Becomes(t, [t EXCEPT !.bytes_read = @ + k], 0, 0, 0, k, 0, 0, t.files)
         /\ Becomes(t, [t EXCEPT !.eof_reads = @ + k], 0, 0, 0, 0, k, 0, t.files)
         /\ Becomes(t, [t EXCEPT !.file_errors = @ + k], 0, 0, 0, 0, 0, k, t.files)
<1>1. Becomes(t, [t EXCEPT !.rejected_pointers = @ + k], k, 0, 0, 0, 0, 0, t.files)
  <2>1. PICK u : u = [t EXCEPT !.rejected_pointers = @ + k]
    OBVIOUS
  <2>2. u \in Task /\ u.rejected_pointers = t.rejected_pointers + k
    BY <2>1 DEF Task
  <2>3. /\ SameTask(t, u) /\ u.user_seen = t.user_seen /\ u.files = t.files
        /\ u.rejected_calls = t.rejected_calls /\ u.files_opened = t.files_opened
        /\ u.bytes_read = t.bytes_read /\ u.eof_reads = t.eof_reads
        /\ u.file_errors = t.file_errors
    BY <2>1 DEF Task, SameTask
  <2>4. QED BY <2>1, <2>2, <2>3 DEF Becomes, Task
<1>2. Becomes(t, [t EXCEPT !.rejected_calls = @ + k], 0, k, 0, 0, 0, 0, t.files)
  <2>1. PICK u : u = [t EXCEPT !.rejected_calls = @ + k]
    OBVIOUS
  <2>2. u \in Task /\ u.rejected_calls = t.rejected_calls + k
    BY <2>1 DEF Task
  <2>3. /\ SameTask(t, u) /\ u.user_seen = t.user_seen /\ u.files = t.files
        /\ u.rejected_pointers = t.rejected_pointers /\ u.files_opened = t.files_opened
        /\ u.bytes_read = t.bytes_read /\ u.eof_reads = t.eof_reads
        /\ u.file_errors = t.file_errors
    BY <2>1 DEF Task, SameTask
  <2>4. QED BY <2>1, <2>2, <2>3 DEF Becomes, Task
<1>3. Becomes(t, [t EXCEPT !.files_opened = @ + k], 0, 0, k, 0, 0, 0, t.files)
  <2>1. PICK u : u = [t EXCEPT !.files_opened = @ + k]
    OBVIOUS
  <2>2. u \in Task /\ u.files_opened = t.files_opened + k
    BY <2>1 DEF Task
  <2>3. /\ SameTask(t, u) /\ u.user_seen = t.user_seen /\ u.files = t.files
        /\ u.rejected_pointers = t.rejected_pointers /\ u.rejected_calls = t.rejected_calls
        /\ u.bytes_read = t.bytes_read /\ u.eof_reads = t.eof_reads
        /\ u.file_errors = t.file_errors
    BY <2>1 DEF Task, SameTask
  <2>4. QED BY <2>1, <2>2, <2>3 DEF Becomes, Task
<1>4. Becomes(t, [t EXCEPT !.bytes_read = @ + k], 0, 0, 0, k, 0, 0, t.files)
  <2>1. PICK u : u = [t EXCEPT !.bytes_read = @ + k]
    OBVIOUS
  <2>2. u \in Task /\ u.bytes_read = t.bytes_read + k
    BY <2>1 DEF Task
  <2>3. /\ SameTask(t, u) /\ u.user_seen = t.user_seen /\ u.files = t.files
        /\ u.rejected_pointers = t.rejected_pointers /\ u.rejected_calls = t.rejected_calls
        /\ u.files_opened = t.files_opened /\ u.eof_reads = t.eof_reads
        /\ u.file_errors = t.file_errors
    BY <2>1 DEF Task, SameTask
  <2>4. QED BY <2>1, <2>2, <2>3 DEF Becomes, Task
<1>5. Becomes(t, [t EXCEPT !.eof_reads = @ + k], 0, 0, 0, 0, k, 0, t.files)
  <2>1. PICK u : u = [t EXCEPT !.eof_reads = @ + k]
    OBVIOUS
  <2>2. u \in Task /\ u.eof_reads = t.eof_reads + k
    BY <2>1 DEF Task
  <2>3. /\ SameTask(t, u) /\ u.user_seen = t.user_seen /\ u.files = t.files
        /\ u.rejected_pointers = t.rejected_pointers /\ u.rejected_calls = t.rejected_calls
        /\ u.files_opened = t.files_opened /\ u.bytes_read = t.bytes_read
        /\ u.file_errors = t.file_errors
    BY <2>1 DEF Task, SameTask
  <2>4. QED BY <2>1, <2>2, <2>3 DEF Becomes, Task
<1>6. Becomes(t, [t EXCEPT !.file_errors = @ + k], 0, 0, 0, 0, 0, k, t.files)
  <2>1. PICK u : u = [t EXCEPT !.file_errors = @ + k]
    OBVIOUS
  <2>2. u \in Task /\ u.file_errors = t.file_errors + k
    BY <2>1 DEF Task
  <2>3. /\ SameTask(t, u) /\ u.user_seen = t.user_seen /\ u.files = t.files
        /\ u.rejected_pointers = t.rejected_pointers /\ u.rejected_calls = t.rejected_calls
        /\ u.files_opened = t.files_opened /\ u.bytes_read = t.bytes_read
        /\ u.eof_reads = t.eof_reads
    BY <2>1 DEF Task, SameTask
  <2>4. QED BY <2>1, <2>2, <2>3 DEF Becomes, Task
<1>7. QED BY <1>1, <1>2, <1>3, <1>4, <1>5, <1>6

\* The kernel notes that the task has called.
LEMMA Calls ==
  ASSUME NEW t \in Task
  PROVE  Becomes(t, [t EXCEPT !.user_seen = TRUE], 0, 0, 0, 0, 0, 0, t.files)
<1>1. PICK u : u = [t EXCEPT !.user_seen = TRUE]
  OBVIOUS
<1>2. u \in Task /\ u.user_seen
  BY <1>1 DEF Task
<1>3. /\ SameTask(t, u) /\ u.files = t.files
      /\ u.rejected_pointers = t.rejected_pointers /\ u.rejected_calls = t.rejected_calls
      /\ u.files_opened = t.files_opened /\ u.bytes_read = t.bytes_read
      /\ u.eof_reads = t.eof_reads /\ u.file_errors = t.file_errors
  BY <1>1 DEF Task, SameTask
<1>4. QED BY <1>1, <1>2, <1>3 DEF Becomes, Task

\* The task's slots are replaced.
LEMMA Slotted ==
  ASSUME NEW t \in Task, t.user_seen, NEW slots \in [Fds -> Slot]
  PROVE  Becomes(t, [t EXCEPT !.files = slots], 0, 0, 0, 0, 0, 0, slots)
<1>1. PICK u : u = [t EXCEPT !.files = slots]
  OBVIOUS
<1>2. u \in Task /\ u.files = slots
  BY <1>1 DEF Task
<1>3. /\ SameTask(t, u) /\ u.user_seen = t.user_seen
      /\ u.rejected_pointers = t.rejected_pointers /\ u.rejected_calls = t.rejected_calls
      /\ u.files_opened = t.files_opened /\ u.bytes_read = t.bytes_read
      /\ u.eof_reads = t.eof_reads /\ u.file_errors = t.file_errors
  BY <1>1 DEF Task, SameTask
<1>4. QED BY <1>1, <1>2, <1>3 DEF Becomes, Task

\* Two such changes after each other.
LEMMA Twice ==
  ASSUME NEW t \in Task, NEW u, NEW v, NEW s, NEW slots,
         NEW p \in Nat, NEW c \in Nat, NEW o \in Nat, NEW b \in Nat, NEW e \in Nat, NEW x \in Nat,
         Becomes(t, u, 0, 0, 0, 0, 0, 0, s), Becomes(u, v, p, c, o, b, e, x, slots)
  PROVE  Becomes(t, v, p, c, o, b, e, x, slots)
BY DEF Becomes, SameTask, Task

\* The calls on no file.
LEMMA PlainCall ==
  ASSUME NEW t \in Task, NEW c, NEW r, r = syscall_dispatch(t, c)
  PROVE  /\ c = TaskId => r.result = 0 /\ Becomes(t, r.task, 0, 0, 0, 0, 0, 0, t.files)
         /\ \A n \in Nat, want \in Int : c = Write(TRUE, n, want) =>
              r.result = n /\ Becomes(t, r.task, 0, 0, 0, 0, 0, 0, t.files)
         /\ \A want \in Int : c = Unknown(want) =>
              r.result = -1 /\ Becomes(t, r.task, 0, 1, 0, 0, 0, 0, t.files)
<1>1. PICK seen : seen = [t EXCEPT !.user_seen = TRUE]
  OBVIOUS
<1>2. Becomes(t, seen, 0, 0, 0, 0, 0, 0, t.files)
  BY <1>1, Calls
<1>3. seen \in Task /\ seen.user_seen /\ seen.files = t.files
  BY <1>2 DEF Becomes
<1>4. Becomes(seen, [seen EXCEPT !.rejected_calls = @ + 1], 0, 1, 0, 0, 0, 0, t.files)
  BY <1>3, Raised
<1>5. ASSUME c = TaskId PROVE r.result = 0 /\ r.task = seen
  BY <1>1, <1>5 DEF syscall_dispatch, TaskId
<1>6. ASSUME NEW n \in Nat, NEW want \in Int, c = Write(TRUE, n, want)
      PROVE  r.result = n /\ r.task = seen
  <2>1. c.call = "write" /\ c.ok /\ c.length = n
    BY <1>6 DEF Write
  <2>2. r = [[result |-> 0, task |-> seen] EXCEPT !.result = n]
    BY <1>1, <2>1 DEF syscall_dispatch
  <2>3. QED BY <2>2
<1>8. ASSUME NEW want \in Int, c = Unknown(want)
      PROVE  r.result = -1 /\ r.task = [seen EXCEPT !.rejected_calls = @ + 1]
  BY <1>1, <1>8 DEF syscall_dispatch, Unknown
<1>7. Becomes(t, [seen EXCEPT !.rejected_calls = @ + 1], 0, 1, 0, 0, 0, 0, t.files)
  BY <1>2, <1>4, Twice
<1>9. ASSUME c = TaskId PROVE r.result = 0 /\ Becomes(t, r.task, 0, 0, 0, 0, 0, 0, t.files)
  BY <1>2, <1>5, <1>9
<1>10. ASSUME NEW n \in Nat, NEW want \in Int, c = Write(TRUE, n, want)
      PROVE  r.result = n /\ Becomes(t, r.task, 0, 0, 0, 0, 0, 0, t.files)
  BY <1>2, <1>6, <1>10
<1>11. ASSUME NEW want \in Int, c = Unknown(want)
      PROVE  r.result = -1 /\ Becomes(t, r.task, 0, 1, 0, 0, 0, 0, t.files)
  BY <1>7, <1>8, <1>11
<1>12. QED BY <1>9, <1>10, <1>11

\* The calls with a pointer the task may not use.
LEMMA RefusedCall ==
  ASSUME NEW t \in Task, NEW c, NEW r, r = syscall_dispatch(t, c),
         c.call \in {"write", "read"}, ~c.ok
  PROVE  r.result = -2 /\ Becomes(t, r.task, 1, 0, 0, 0, 0, 0, t.files)
<1>1. PICK seen : seen = [t EXCEPT !.user_seen = TRUE]
  OBVIOUS
<1>2. Becomes(t, seen, 0, 0, 0, 0, 0, 0, t.files)
  BY <1>1, Calls
<1>3. seen \in Task /\ seen.user_seen /\ seen.files = t.files
  BY <1>2 DEF Becomes
<1>4. Becomes(seen, [seen EXCEPT !.rejected_pointers = @ + 1], 1, 0, 0, 0, 0, 0, t.files)
  BY <1>3, Raised
<1>5. Becomes(t, [seen EXCEPT !.rejected_pointers = @ + 1], 1, 0, 0, 0, 0, 0, t.files)
  BY <1>2, <1>4, Twice
<1>6. r = Rejected(seen, [result |-> 0, task |-> seen])
  BY <1>1 DEF syscall_dispatch
<1>7. r.result = -2 /\ r.task = [seen EXCEPT !.rejected_pointers = @ + 1]
  BY <1>6 DEF Rejected
<1>8. QED BY <1>5, <1>7

\* A call on files, whose effect on the slots is q.
LEMMA FilesCall ==
  ASSUME NEW t \in Task, NEW c, NEW q, NEW r, r = syscall_dispatch(t, c),
         \/ c.call = "open" /\ q = ramfs_open(t.files, c.name)
         \/ c.call = "read" /\ c.ok /\ q = ramfs_read(t.files, c.fd, c.length)
         \/ c.call = "close" /\ q = ramfs_close(t.files, c.fd),
         q.result \in Int, q.slots \in [Fds -> Slot]
  PROVE  /\ r.result = q.result
         /\ q.result < 0 => Becomes(t, r.task, 0, 0, 0, 0, 0, 1, q.slots)
         /\ q.result >= 0 /\ c.call = "open" => Becomes(t, r.task, 0, 0, 1, 0, 0, 0, q.slots)
         /\ q.result >= 0 /\ c.call = "close" => Becomes(t, r.task, 0, 0, 0, 0, 0, 0, q.slots)
         /\ q.result = 0 /\ c.call = "read" => Becomes(t, r.task, 0, 0, 0, 0, 1, 0, q.slots)
         /\ q.result > 0 /\ c.call = "read" =>
              Becomes(t, r.task, 0, 0, 0, q.result, 0, 0, q.slots)
<1>1. PICK seen : seen = [t EXCEPT !.user_seen = TRUE]
  OBVIOUS
<1>2. Becomes(t, seen, 0, 0, 0, 0, 0, 0, t.files)
  BY <1>1, Calls
<1>3. seen \in Task /\ seen.user_seen /\ seen.files = t.files
  BY <1>2 DEF Becomes
<1>4. r = FileCall(seen, c)
  BY <1>1 DEF syscall_dispatch
<1>5. PICK u : u = [seen EXCEPT !.files = q.slots]
  OBVIOUS
<1>6. Becomes(seen, u, 0, 0, 0, 0, 0, 0, q.slots)
  BY <1>3, <1>5, Slotted
<1>7. u \in Task /\ u.user_seen /\ u.files = q.slots
  BY <1>6 DEF Becomes
<1>8. Becomes(t, u, 0, 0, 0, 0, 0, 0, q.slots)
  BY <1>2, <1>6, Twice
<1>9. r.result = q.result /\ r.task = Counted(u, c, q.result)
  BY <1>3, <1>4, <1>5 DEF FileCall
<1>10. /\ q.result < 0 => r.task = [u EXCEPT !.file_errors = @ + 1]
       /\ q.result >= 0 /\ c.call = "open" => r.task = [u EXCEPT !.files_opened = @ + 1]
       /\ q.result >= 0 /\ c.call = "close" => r.task = u
       /\ q.result = 0 /\ c.call = "read" => r.task = [u EXCEPT !.eof_reads = @ + 1]
       /\ q.result > 0 /\ c.call = "read" => r.task = [u EXCEPT !.bytes_read = @ + q.result]
  BY <1>9 DEF Counted
<1>11. /\ Becomes(u, [u EXCEPT !.file_errors = @ + 1], 0, 0, 0, 0, 0, 1, q.slots)
       /\ Becomes(u, [u EXCEPT !.files_opened = @ + 1], 0, 0, 1, 0, 0, 0, q.slots)
       /\ Becomes(u, [u EXCEPT !.eof_reads = @ + 1], 0, 0, 0, 0, 1, 0, q.slots)
  BY <1>7, Raised
<1>12. ASSUME q.result > 0
       PROVE  Becomes(u, [u EXCEPT !.bytes_read = @ + q.result], 0, 0, 0, q.result, 0, 0, q.slots)
  <2>1. PICK k \in Nat : k = q.result
    BY <1>12
  <2>2. Becomes(u, [u EXCEPT !.bytes_read = @ + k], 0, 0, 0, k, 0, 0, q.slots)
    BY <1>7, Raised
  <2>3. QED BY <2>1, <2>2
<1>13. /\ Becomes(t, [u EXCEPT !.file_errors = @ + 1], 0, 0, 0, 0, 0, 1, q.slots)
       /\ Becomes(t, [u EXCEPT !.files_opened = @ + 1], 0, 0, 1, 0, 0, 0, q.slots)
       /\ Becomes(t, [u EXCEPT !.eof_reads = @ + 1], 0, 0, 0, 0, 1, 0, q.slots)
  BY <1>8, <1>11, Twice
<1>14. ASSUME q.result > 0
       PROVE  Becomes(t, [u EXCEPT !.bytes_read = @ + q.result], 0, 0, 0, q.result, 0, 0, q.slots)
  <2>1. q.result \in Nat
    BY <1>14
  <2>2. QED BY <1>8, <1>12, <1>14, <2>1, Twice
<1>15. QED BY <1>8, <1>9, <1>10, <1>13, <1>14

-----------------------------------------------------------------------------
(* Opening and reading with two slots.                                     *)

\* The least slot that is free is taken.
LEMMA TwoSlotsOpen ==
  ASSUME NEW slots \in [Fds -> Slot], NEW name \in Files
  PROVE  /\ slots[0].used /\ slots[1].used => ramfs_open(slots, name) = Return(-5, slots)
         /\ ~slots[0].used =>
              ramfs_open(slots, name) =
                Return(0, [slots EXCEPT ![0] = [used |-> TRUE, file |-> name, offset |-> 0]])
         /\ slots[0].used /\ ~slots[1].used =>
              ramfs_open(slots, name) =
                Return(1, [slots EXCEPT ![1] = [used |-> TRUE, file |-> name, offset |-> 0]])
<1>1. ASSUME slots[0].used, slots[1].used PROVE ramfs_open(slots, name) = Return(-5, slots)
  <2>1. FreeFds(slots) = {}
    BY <1>1, SlotFacts DEF FreeFds
  <2>2. QED BY <2>1 DEF ramfs_open
<1>2. ASSUME NEW fd \in {0, 1}, ~slots[fd].used, fd = 1 => slots[0].used
      PROVE  ramfs_open(slots, name) =
               Return(fd, [slots EXCEPT ![fd] = [used |-> TRUE, file |-> name, offset |-> 0]])
  <2>1. FreeFds(slots) \in SUBSET Nat /\ fd \in FreeFds(slots)
    BY <1>2, SlotFacts DEF FreeFds
  <2>2. \A d \in FreeFds(slots) : fd <= d
    BY <1>2, SlotFacts DEF FreeFds
  <2>3. Min(FreeFds(slots)) = fd
    <3>1. /\ Min(FreeFds(slots)) \in FreeFds(slots)
          /\ \A d \in FreeFds(slots) : Min(FreeFds(slots)) <= d
      BY <2>1, SmallestExists
    <3>2. QED BY <2>1, <2>2, <3>1
  <2>4. QED BY <2>1, <2>3 DEF ramfs_open
<1>3. QED BY <1>1, <1>2

\* A read delivers what was asked for, or what is left of the file.
LEMMA OpenSlotRead ==
  ASSUME NEW slots \in [Fds -> Slot], NEW fd \in {0, 1}, NEW length \in Nat, NEW n \in Nat,
         slots[fd].used, slots[fd].file \in Files,
         \/ n = length /\ slots[fd].offset + n <= FileSize[slots[fd].file]
         \/ n < length /\ slots[fd].offset + n = FileSize[slots[fd].file]
  PROVE  /\ ramfs_read(slots, fd, length) = Return(n, [slots EXCEPT ![fd].offset = @ + n])
         /\ Return(n, [slots EXCEPT ![fd].offset = @ + n]).result = n
<1>1. slots[fd] \in Slot
  BY SlotFacts
<1>2. PICK left \in Int : left = FileSize[slots[fd].file] - slots[fd].offset
  BY <1>1, RamFSAssumption DEF Slot, Files
<1>3. /\ Min({length, left}) \in {length, left}
      /\ Min({length, left}) <= length /\ Min({length, left}) <= left
  BY <1>2, SmallerOfTwo
<1>4. Min({length, left}) = n
  BY <1>1, <1>2, <1>3, RamFSAssumption DEF Slot, Files
<1>5. Available(slots[fd], length) = n
  BY <1>2, <1>4 DEF Available
<1>6. QED BY <1>5, SlotFacts DEF ramfs_read, IsOpen, Return

-----------------------------------------------------------------------------
(* The lines of the script, one by one.                                    *)

\* Call c, made after n lines of the script, has the result r.result it
\* must have, and r.task is the task after one line more.
LineDone(t, n, c, r) ==
  /\ r.result = c.want
  /\ r.task \in Task /\ SameTask(t, r.task) /\ After(r.task, n + 1)

\* The lines on no file: c is line i.
OnNoFile(i, c) ==
  \/ i = 1 /\ c = TaskId
  \/ i = 2 /\ c = Write(TRUE, 31, 31)
  \/ i = 3 /\ c = Unknown(-1)
  \/ i = 4 /\ c = Write(FALSE, 1, -2)
  \/ i = 5 /\ c = Write(FALSE, 16, -2)
  \/ i = 6 /\ c = Write(FALSE, 8, -2)
  \/ i = 13 /\ c = Read(0, FALSE, 4, -2)
  \/ i = 14 /\ c = Read(0, FALSE, 16, -2)
  \/ i = 16 /\ c = Write(TRUE, 5, 5)
  \/ i = 18 /\ c = Write(TRUE, 12, 12)

\* They are answered as the program requires.
LEMMA PlainLine ==
  ASSUME NEW t \in Task, NEW n \in 0 .. 26, After(t, n), NEW c, OnNoFile(n + 1, c)
  PROVE  LineDone(t, n, c, syscall_dispatch(t, c))
<1>1. PICK r : r = syscall_dispatch(t, c)
  OBVIOUS
<1>2. CASE n = 0 /\ c = TaskId
  <2>1. r.result = 0 /\ Becomes(t, r.task, 0, 0, 0, 0, 0, 0, t.files)
    BY <1>1, <1>2, PlainCall
  <2>2. QED BY <1>1, <1>2, <2>1 DEF LineDone, Becomes, After, CountsAfter, SlotsAfter, Past, Task, TaskId
<1>3. CASE n \in {1, 15, 17} /\ \E m \in Nat : c = Write(TRUE, m, m)
  <2>1. r.result = c.want /\ Becomes(t, r.task, 0, 0, 0, 0, 0, 0, t.files)
    <3>1. PICK m \in Nat : c = Write(TRUE, m, m)
      BY <1>3
    <3>2. m \in Int /\ c.want = m
      BY <3>1 DEF Write
    <3>3. QED BY <1>1, <3>1, <3>2, PlainCall
  <2>2. After(r.task, n + 1)
    BY <1>3, <2>1 DEF Becomes, After, CountsAfter, SlotsAfter, Past, Task
  <2>3. QED BY <1>1, <2>1, <2>2 DEF LineDone, Becomes
<1>4. CASE n = 2 /\ c = Unknown(-1)
  <2>1. r.result = -1 /\ Becomes(t, r.task, 0, 1, 0, 0, 0, 0, t.files) /\ c.want = -1
    <3>1. PICK want \in Int : want = -1 /\ c = Unknown(want)
      BY <1>4
    <3>2. r.result = -1 /\ Becomes(t, r.task, 0, 1, 0, 0, 0, 0, t.files)
      BY <1>1, <3>1, PlainCall
    <3>3. QED BY <3>1, <3>2 DEF Unknown
  <2>2. After(r.task, n + 1)
    BY <1>4, <2>1 DEF Becomes, After, CountsAfter, SlotsAfter, Past, Task
  <2>3. QED BY <1>1, <2>1, <2>2 DEF LineDone, Becomes
<1>5. CASE /\ n \in {3, 4, 5, 12, 13}
           /\ \E k \in Nat : c = Write(FALSE, k, -2) \/ c = Read(0, FALSE, k, -2)
  <2>1. c.want = -2
    BY <1>5 DEF Write, Read
  <2>2. r.result = -2 /\ Becomes(t, r.task, 1, 0, 0, 0, 0, 0, t.files)
    <3>1. c.call \in {"write", "read"} /\ ~c.ok
      BY <1>5 DEF Write, Read
    <3>2. QED BY <1>1, <3>1, RefusedCall
  <2>3. After(r.task, n + 1)
    BY <1>5, <2>2 DEF Becomes, After, CountsAfter, SlotsAfter, Past, Task
  <2>4. QED BY <1>1, <2>1, <2>2, <2>3 DEF LineDone, Becomes
<1>6. /\ n \in {0, 1, 2, 3, 4, 5, 12, 13, 15, 17}
      /\ n = 0 => c = TaskId
      /\ n = 1 => c = Write(TRUE, 31, 31)
      /\ n = 2 => c = Unknown(-1)
      /\ n = 15 => c = Write(TRUE, 5, 5)
      /\ n = 17 => c = Write(TRUE, 12, 12)
  BY DEF OnNoFile, Write, Read, Unknown, TaskId
<1>7. n \in {3, 4, 5, 12, 13} => \E k \in Nat : c = Write(FALSE, k, -2) \/ c = Read(0, FALSE, k, -2)
  BY DEF OnNoFile, Write, Read, Unknown, TaskId
<1>8. QED BY <1>2, <1>3, <1>4, <1>5, <1>6, <1>7

\* The lines that open a file.
Opening(i, c) ==
  \/ i = 7 /\ c = Open(Missing, -4)
  \/ i = 8 /\ c = Open(Hello, 0)
  \/ i = 9 /\ c = Open(Hello, 1)
  \/ i = 10 /\ c = Open(Hello, -5)
  \/ i = 25 /\ c = Open(Empty, 0)

\* So are they.
LEMMA OpenLine ==
  ASSUME NEW t \in Task, NEW n \in 0 .. 26, After(t, n), NEW c, Opening(n + 1, c)
  PROVE  LineDone(t, n, c, syscall_dispatch(t, c))
<1>1. PICK q, r : r = syscall_dispatch(t, c) /\ q = ramfs_open(t.files, c.name)
  OBVIOUS
<1>2. c.call = "open" /\ t.files \in [Fds -> Slot]
  BY DEF Opening, Open, Task
<1>3. CASE n = 6
  <2>1. q = Return(-4, t.files) /\ c.want = -4
    BY <1>1, <1>3, SlotFacts DEF ramfs_open, Opening, Open, Missing
  <2>2. q.result = -4 /\ q.slots = t.files
    BY <2>1 DEF Return
  <2>3. r.result = -4 /\ Becomes(t, r.task, 0, 0, 0, 0, 0, 1, t.files)
    BY <1>1, <1>2, <2>2, FilesCall
  <2>4. After(r.task, n + 1)
    BY <1>3, <2>3 DEF Becomes, After, CountsAfter, SlotsAfter, Past, Task
  <2>5. QED BY <1>1, <2>1, <2>3, <2>4 DEF LineDone, Becomes
<1>4. CASE n = 9
  <2>1. q = Return(-5, t.files) /\ c.want = -5
    <3>1. t.files[0].used /\ t.files[1].used
      BY <1>4 DEF After, SlotsAfter
    <3>2. c.name \in Files /\ c.want = -5
      BY <1>4, SlotFacts DEF Opening, Open, Hello
    <3>3. QED BY <1>1, <1>2, <3>1, <3>2, TwoSlotsOpen
  <2>2. q.result = -5 /\ q.slots = t.files
    BY <2>1 DEF Return
  <2>3. r.result = -5 /\ Becomes(t, r.task, 0, 0, 0, 0, 0, 1, t.files)
    BY <1>1, <1>2, <2>2, FilesCall
  <2>4. After(r.task, n + 1)
    BY <1>4, <2>3 DEF Becomes, After, CountsAfter, SlotsAfter, Past, Task
  <2>5. QED BY <1>1, <2>1, <2>3, <2>4 DEF LineDone, Becomes
<1>5. ASSUME NEW fd \in {0, 1}, NEW file \in {0, 1}, n \in {7, 8, 24},
             n = 8 <=> fd = 1, n = 24 <=> file = 1
      PROVE  LineDone(t, n, c, syscall_dispatch(t, c))
  <2>1. c.name = file /\ c.want = fd /\ file \in Files
    BY <1>5, SlotFacts DEF Opening, Open, Hello, Empty
  <2>2. PICK slot : slot = [used |-> TRUE, file |-> file, offset |-> 0]
    OBVIOUS
  <2>3. slot \in Slot /\ slot.used /\ slot.file = file /\ slot.offset = 0
    BY <2>1, <2>2 DEF Slot
  <2>4. q = Return(fd, [t.files EXCEPT ![fd] = slot])
    <3>1. ~t.files[fd].used /\ (fd = 1 => t.files[0].used)
      BY <1>5 DEF After, SlotsAfter
    <3>2. CASE fd = 0
      BY <1>1, <1>2, <2>1, <2>2, <3>1, <3>2, TwoSlotsOpen
    <3>3. CASE fd = 1
      BY <1>1, <1>2, <2>1, <2>2, <3>1, <3>3, TwoSlotsOpen
    <3>4. QED BY <3>2, <3>3
  <2>5. PICK slots \in [Fds -> Slot] : slots = [t.files EXCEPT ![fd] = slot]
    BY <1>2, <2>3
  <2>6. q.result = fd /\ q.slots = slots
    BY <2>4, <2>5 DEF Return
  <2>7. slots[fd] = slot /\ slots[1 - fd] = t.files[1 - fd]
    BY <1>2, <1>5, <2>5, SlotFacts
  <2>8. r.result = fd /\ Becomes(t, r.task, 0, 0, 1, 0, 0, 0, slots)
    BY <1>1, <1>2, <1>5, <2>6, FilesCall
  <2>9. After(r.task, n + 1)
    BY <1>5, <2>3, <2>7, <2>8 DEF Becomes, After, CountsAfter, SlotsAfter, Past, Task, Hello, Empty
  <2>10. QED BY <1>1, <2>1, <2>8, <2>9 DEF LineDone, Becomes
<1>6. QED BY <1>3, <1>4, <1>5 DEF Opening

\* The lines that read a file.
Reading(i, c) ==
  \/ i = 11 /\ c = Read(99, TRUE, 1, -3)
  \/ i = 15 /\ c = Read(0, TRUE, 5, 5)
  \/ i = 17 /\ c = Read(0, TRUE, 32, 12)
  \/ i = 19 /\ c = Read(0, TRUE, 1, 0)
  \/ i = 20 /\ c = Read(1, TRUE, 1, 1)
  \/ i = 24 /\ c = Read(1, TRUE, 1, -3)
  \/ i = 26 /\ c = Read(0, TRUE, 1, 0)

\* So are they.
LEMMA ReadLine ==
  ASSUME NEW t \in Task, NEW n \in 0 .. 26, After(t, n), NEW c, Reading(n + 1, c)
  PROVE  LineDone(t, n, c, syscall_dispatch(t, c))
<1>1. PICK q, r : r = syscall_dispatch(t, c) /\ q = ramfs_read(t.files, c.fd, c.length)
  OBVIOUS
<1>2. c.call = "read" /\ c.ok /\ t.files \in [Fds -> Slot]
  BY DEF Reading, Read, Task
<1>3. CASE n \in {10, 23}
  <2>1. q = Return(-3, t.files) /\ c.want = -3
    BY <1>1, <1>3, SlotFacts DEF ramfs_read, IsOpen, Reading, Read, After, SlotsAfter
  <2>2. q.result = -3 /\ q.result < 0 /\ q.result \in Int /\ q.slots = t.files
    BY <2>1 DEF Return
  <2>3. r.result = -3 /\ Becomes(t, r.task, 0, 0, 0, 0, 0, 1, t.files)
    BY <1>1, <1>2, <2>2, FilesCall
  <2>4. After(r.task, n + 1)
    BY <1>3, <2>3 DEF Becomes, After, CountsAfter, SlotsAfter, Past, Task
  <2>5. QED BY <1>1, <2>1, <2>3, <2>4 DEF LineDone, Becomes
<1>4. ASSUME n \in {14, 16, 18, 19, 25}
      PROVE  LineDone(t, n, c, syscall_dispatch(t, c))
  <2>1. PICK fd \in {0, 1} : fd = c.fd /\ (fd = 1 <=> n = 19)
    BY <1>4 DEF Reading, Read
  <2>2. PICK m \in Nat : /\ m = c.want
                         /\ n = 14 => m = 5 /\ c.length = 5
                         /\ n = 16 => m = 12 /\ c.length = 32
                         /\ n = 18 => m = 0 /\ c.length = 1
                         /\ n = 19 => m = 1 /\ c.length = 1
                         /\ n = 25 => m = 0 /\ c.length = 1
    BY <1>4 DEF Reading, Read
  <2>3. PICK length \in Nat : length = c.length
    BY <1>4, <2>2
  <2>4. PICK slot : slot = t.files[fd]
    OBVIOUS
  <2>5. /\ slot \in Slot /\ slot.used /\ slot.file \in {0, 1}
        /\ n = 14 => slot.file = 0 /\ slot.offset = 0
        /\ n = 16 => slot.file = 0 /\ slot.offset = 5
        /\ n = 18 => slot.file = 0 /\ slot.offset = 17
        /\ n = 19 => slot.file = 0 /\ slot.offset = 0
        /\ n = 25 => slot.file = 1 /\ slot.offset = 0
    BY <1>2, <1>4, <2>1, <2>4, SlotFacts DEF After, SlotsAfter, Past, Hello, Empty
  <2>6. PICK offset \in Nat, size \in Nat :
          /\ offset = slot.offset /\ size = FileSize[slot.file]
          /\ n = 14 => offset = 0 /\ size = 17
          /\ n = 16 => offset = 5 /\ size = 17
          /\ n = 18 => offset = 17 /\ size = 17
          /\ n = 19 => offset = 0 /\ size = 17
          /\ n = 25 => offset = 0 /\ size = 0
    <3>1. slot.offset \in Nat /\ FileSize[slot.file] \in Nat
      BY <2>5, SlotFacts DEF Slot
    <3>2. /\ n = 14 => slot.offset = 0 /\ FileSize[slot.file] = 17
          /\ n = 16 => slot.offset = 5 /\ FileSize[slot.file] = 17
          /\ n = 18 => slot.offset = 17 /\ FileSize[slot.file] = 17
          /\ n = 19 => slot.offset = 0 /\ FileSize[slot.file] = 17
          /\ n = 25 => slot.offset = 0 /\ FileSize[slot.file] = 0
      BY <2>5, SlotFacts
    <3>3. QED BY <3>1, <3>2
  <2>7. (m = length /\ offset + m <= size) \/ (m < length /\ offset + m = size)
    BY <1>4, <2>2, <2>3, <2>6
  <2>8. q = Return(m, [t.files EXCEPT ![fd].offset = @ + m])
    <3>1. \/ m = length /\ slot.offset + m <= FileSize[slot.file]
          \/ m < length /\ slot.offset + m = FileSize[slot.file]
      BY <2>6, <2>7
    <3>2. slot.file \in Files
      BY <2>5, SlotFacts
    <3>3. QED BY <1>1, <1>2, <2>1, <2>3, <2>4, <2>5, <3>1, <3>2, OpenSlotRead
  <2>9. PICK moved \in Slot : /\ moved.used /\ moved.file = slot.file
                              /\ moved.offset = slot.offset + m
                              /\ moved = [slot EXCEPT !.offset = @ + m]
    <3>1. PICK moved : moved = [slot EXCEPT !.offset = @ + m]
      OBVIOUS
    <3>2. moved.used /\ moved.file = slot.file /\ moved.offset = slot.offset + m
      BY <2>5, <3>1 DEF Slot
    <3>3. moved \in Slot
      BY <2>5, <3>1 DEF Slot
    <3>4. QED BY <3>1, <3>2, <3>3
  <2>10. PICK slots \in [Fds -> Slot] : slots = [t.files EXCEPT ![fd] = moved]
    BY <1>2, <2>9
  <2>11. q.result = m /\ q.slots = slots
    BY <2>4, <2>8, <2>9, <2>10 DEF Return
  <2>12. slots[fd] = moved /\ slots[1 - fd] = t.files[1 - fd]
    BY <1>2, <2>10, SlotFacts
  <2>13. /\ r.result = m
         /\ m = 0 => Becomes(t, r.task, 0, 0, 0, 0, 1, 0, slots)
         /\ m > 0 => Becomes(t, r.task, 0, 0, 0, m, 0, 0, slots)
    BY <1>1, <1>2, <2>11, FilesCall
  <2>14. SlotsAfter(slots, n + 1)
    <3>1. /\ moved.used /\ moved.file = slot.file
          /\ n = 14 => slot.file = 0 /\ moved.offset = 5
          /\ n = 16 => slot.file = 0 /\ moved.offset = 17
          /\ n = 18 => slot.file = 0 /\ moved.offset = 17
          /\ n = 19 => slot.file = 0 /\ moved.offset = 1
          /\ n = 25 => slot.file = 1 /\ moved.offset = 0
      BY <2>2, <2>5, <2>6, <2>9
    <3>2. SlotsAfter(t.files, n)
      BY DEF After
    <3>3. CASE fd = 0
      <4>1. slots[0] = moved /\ slots[1] = t.files[1]
        BY <2>12, <3>3
      <4>2. CASE n = 14
        BY <3>1, <3>2, <4>1, <4>2 DEF SlotsAfter, Past, Hello
      <4>3. CASE n = 16
        BY <3>1, <3>2, <4>1, <4>3 DEF SlotsAfter, Past, Hello
      <4>4. CASE n = 18
        BY <3>1, <3>2, <4>1, <4>4 DEF SlotsAfter, Past, Hello
      <4>5. CASE n = 25
        BY <3>1, <3>2, <4>1, <4>5 DEF SlotsAfter, Past, Empty
      <4>6. QED BY <1>4, <2>1, <3>3, <4>2, <4>3, <4>4, <4>5
    <3>4. CASE fd = 1
      <4>1. slots[1] = moved /\ slots[0] = t.files[0] /\ n = 19
        BY <1>4, <2>1, <2>12, <3>4
      <4>2. QED BY <3>1, <3>2, <4>1 DEF SlotsAfter, Past, Hello
    <3>5. QED BY <3>3, <3>4
  <2>15. CASE m = 0
    <3>1. n \in {18, 25} /\ Becomes(t, r.task, 0, 0, 0, 0, 1, 0, slots)
      BY <1>4, <2>2, <2>13, <2>15
    <3>2. CountsAfter(r.task, n + 1)
      BY <3>1 DEF Becomes, After, CountsAfter, Past, Task
    <3>3. QED BY <1>1, <2>2, <2>13, <2>14, <3>1, <3>2 DEF LineDone, Becomes, After
  <2>16. CASE m > 0
    <3>1. n \in {14, 16, 19} /\ Becomes(t, r.task, 0, 0, 0, m, 0, 0, slots)
      BY <1>4, <2>2, <2>13, <2>16
    <3>2. CountsAfter(r.task, n + 1)
      BY <2>2, <3>1 DEF Becomes, After, CountsAfter, Past, Task
    <3>3. QED BY <1>1, <2>2, <2>13, <2>14, <3>1, <3>2 DEF LineDone, Becomes, After
  <2>17. QED BY <2>15, <2>16
<1>5. n \in {10, 23} \/ n \in {14, 16, 18, 19, 25}
  BY DEF Reading, Read
<1>6. QED BY <1>3, <1>4, <1>5

\* The lines that close a file.
Closing(i, c) ==
  \/ i = 12 /\ c = Close(99, -3)
  \/ i = 21 /\ c = Close(0, 0)
  \/ i = 22 /\ c = Close(1, 0)
  \/ i = 23 /\ c = Close(1, -3)
  \/ i = 27 /\ c = Close(0, 0)

\* So are they.
LEMMA CloseLine ==
  ASSUME NEW t \in Task, NEW n \in 0 .. 26, After(t, n), NEW c, Closing(n + 1, c)
  PROVE  LineDone(t, n, c, syscall_dispatch(t, c))
<1>1. PICK q, r : r = syscall_dispatch(t, c) /\ q = ramfs_close(t.files, c.fd)
  OBVIOUS
<1>2. c.call = "close" /\ t.files \in [Fds -> Slot]
  BY DEF Closing, Close, Task
<1>3. CASE n \in {11, 22}
  <2>1. q = Return(-3, t.files) /\ c.want = -3
    BY <1>1, <1>3, SlotFacts DEF ramfs_close, IsOpen, Closing, Close, After, SlotsAfter
  <2>2. q.result = -3 /\ q.result < 0 /\ q.result \in Int /\ q.slots = t.files
    BY <2>1 DEF Return
  <2>3. r.result = -3 /\ Becomes(t, r.task, 0, 0, 0, 0, 0, 1, t.files)
    BY <1>1, <1>2, <2>2, FilesCall
  <2>4. After(r.task, n + 1)
    BY <1>3, <2>3 DEF Becomes, After, CountsAfter, SlotsAfter, Past, Task
  <2>5. QED BY <1>1, <2>1, <2>3, <2>4 DEF LineDone, Becomes
<1>4. ASSUME n \in {20, 21, 26}
      PROVE  LineDone(t, n, c, syscall_dispatch(t, c))
  <2>1. PICK fd \in {0, 1} : fd = c.fd /\ (fd = 1 <=> n = 21) /\ c.want = 0
    BY <1>4 DEF Closing, Close
  <2>2. t.files[fd] \in Slot /\ t.files[fd].used
    BY <1>2, <1>4, <2>1, SlotFacts DEF After, SlotsAfter
  <2>3. q = Return(0, [t.files EXCEPT ![fd].used = FALSE])
    BY <1>1, <2>1, <2>2, SlotFacts DEF ramfs_close, IsOpen
  <2>4. PICK shut \in Slot : ~shut.used /\ shut = [t.files[fd] EXCEPT !.used = FALSE]
    BY <2>2 DEF Slot
  <2>5. PICK slots \in [Fds -> Slot] : slots = [t.files EXCEPT ![fd] = shut]
    BY <1>2, <2>4
  <2>6. q.result = 0 /\ q.slots = slots
    BY <2>3, <2>4, <2>5 DEF Return
  <2>7. slots[fd] = shut /\ slots[1 - fd] = t.files[1 - fd]
    BY <1>2, <2>5, SlotFacts
  <2>8. r.result = 0 /\ Becomes(t, r.task, 0, 0, 0, 0, 0, 0, slots)
    BY <1>1, <1>2, <2>6, FilesCall
  <2>9. SlotsAfter(slots, n + 1)
    <3>1. CASE fd = 0
      <4>1. slots[0] = shut /\ slots[1] = t.files[1] /\ n \in {20, 26}
        BY <1>4, <2>1, <2>7, <3>1
      <4>2. QED BY <2>4, <4>1 DEF After, SlotsAfter, Past
    <3>2. CASE fd = 1
      <4>1. slots[1] = shut /\ slots[0] = t.files[0] /\ n = 21
        BY <1>4, <2>1, <2>7, <3>2
      <4>2. QED BY <2>4, <4>1 DEF After, SlotsAfter, Past
    <3>3. QED BY <3>1, <3>2
  <2>10. CountsAfter(r.task, n + 1)
    BY <1>4, <2>8 DEF Becomes, After, CountsAfter, Past, Task
  <2>11. QED BY <1>1, <2>1, <2>8, <2>9, <2>10 DEF LineDone, Becomes, After
<1>5. QED BY <1>3, <1>4 DEF Closing

\* The script, line by line.
LEMMA ScriptIs ==
  /\ Len(Script) = Lines
  /\ /\ Script[1] = TaskId /\ Script[2] = Write(TRUE, 31, 31) /\ Script[3] = Unknown(-1)
     /\ Script[4] = Write(FALSE, 1, -2) /\ Script[5] = Write(FALSE, 16, -2)
     /\ Script[6] = Write(FALSE, 8, -2)
  /\ level >= 5 =>
       /\ Script[7] = Open(Missing, -4) /\ Script[8] = Open(Hello, 0)
       /\ Script[9] = Open(Hello, 1) /\ Script[10] = Open(Hello, -5)
       /\ Script[11] = Read(99, TRUE, 1, -3) /\ Script[12] = Close(99, -3)
       /\ Script[13] = Read(0, FALSE, 4, -2) /\ Script[14] = Read(0, FALSE, 16, -2)
       /\ Script[15] = Read(0, TRUE, 5, 5) /\ Script[16] = Write(TRUE, 5, 5)
       /\ Script[17] = Read(0, TRUE, 32, 12) /\ Script[18] = Write(TRUE, 12, 12)
       /\ Script[19] = Read(0, TRUE, 1, 0) /\ Script[20] = Read(1, TRUE, 1, 1)
       /\ Script[21] = Close(0, 0) /\ Script[22] = Close(1, 0) /\ Script[23] = Close(1, -3)
       /\ Script[24] = Read(1, TRUE, 1, -3) /\ Script[25] = Open(Empty, 0)
       /\ Script[26] = Read(0, TRUE, 1, 0) /\ Script[27] = Close(0, 0)
<1>1. /\ Len(Boundary) = 6
      /\ Boundary[1] = TaskId /\ Boundary[2] = Write(TRUE, 31, 31) /\ Boundary[3] = Unknown(-1)
      /\ Boundary[4] = Write(FALSE, 1, -2) /\ Boundary[5] = Write(FALSE, 16, -2)
      /\ Boundary[6] = Write(FALSE, 8, -2)
  BY DEF Boundary
<1>2. /\ Len(read_file) = 21
      /\ read_file[1] = Open(Missing, -4) /\ read_file[2] = Open(Hello, 0)
      /\ read_file[3] = Open(Hello, 1) /\ read_file[4] = Open(Hello, -5)
      /\ read_file[5] = Read(99, TRUE, 1, -3) /\ read_file[6] = Close(99, -3)
      /\ read_file[7] = Read(0, FALSE, 4, -2) /\ read_file[8] = Read(0, FALSE, 16, -2)
      /\ read_file[9] = Read(0, TRUE, 5, 5) /\ read_file[10] = Write(TRUE, 5, 5)
      /\ read_file[11] = Read(0, TRUE, 32, 12) /\ read_file[12] = Write(TRUE, 12, 12)
      /\ read_file[13] = Read(0, TRUE, 1, 0) /\ read_file[14] = Read(1, TRUE, 1, 1)
      /\ read_file[15] = Close(0, 0) /\ read_file[16] = Close(1, 0)
      /\ read_file[17] = Close(1, -3) /\ read_file[18] = Read(1, TRUE, 1, -3)
      /\ read_file[19] = Open(Empty, 0) /\ read_file[20] = Read(0, TRUE, 1, 0)
      /\ read_file[21] = Close(0, 0)
  BY DEF read_file
<1>3. PICK S : /\ S = {Boundary[i] : i \in 1 .. 6} \cup {read_file[i] : i \in 1 .. 21}
               /\ Boundary \in Seq(S) /\ read_file \in Seq(S)
  <2>1. PICK S : S = {Boundary[i] : i \in 1 .. 6} \cup {read_file[i] : i \in 1 .. 21}
    OBVIOUS
  <2>2. Boundary = [i \in 1 .. 6 |-> Boundary[i]]
    BY DEF Boundary
  <2>3. read_file = [i \in 1 .. 21 |-> read_file[i]]
    BY DEF read_file
  <2>4. /\ \A i \in 1 .. 6 : Boundary[i] \in S
        /\ \A i \in 1 .. 21 : read_file[i] \in S
    BY <2>1
  <2>5. Boundary \in Seq(S)
    BY <2>2, <2>4
  <2>6. read_file \in Seq(S)
    BY <2>3, <2>4
  <2>7. QED BY <2>1, <2>5, <2>6
<1>4. PICK both : both = Boundary \o read_file
  OBVIOUS
<1>5. /\ Len(both) = 27
      /\ \A i \in 1 .. 27 : both[i] = IF i <= 6 THEN Boundary[i] ELSE read_file[i - 6]
  <2>1. /\ Len(both) = Len(Boundary) + Len(read_file)
        /\ \A i \in 1 .. (Len(Boundary) + Len(read_file)) :
             both[i] = IF i <= Len(Boundary) THEN Boundary[i] ELSE read_file[i - Len(Boundary)]
    BY <1>3, <1>4, ConcatProperties
  <2>2. QED BY <1>1, <1>2, <2>1
<1>6. /\ both[1] = Boundary[1] /\ both[2] = Boundary[2] /\ both[3] = Boundary[3]
      /\ both[4] = Boundary[4] /\ both[5] = Boundary[5] /\ both[6] = Boundary[6]
  BY <1>5
<1>7. /\ both[7] = read_file[1] /\ both[8] = read_file[2] /\ both[9] = read_file[3]
      /\ both[10] = read_file[4] /\ both[11] = read_file[5] /\ both[12] = read_file[6]
      /\ both[13] = read_file[7] /\ both[14] = read_file[8] /\ both[15] = read_file[9]
      /\ both[16] = read_file[10] /\ both[17] = read_file[11] /\ both[18] = read_file[12]
      /\ both[19] = read_file[13] /\ both[20] = read_file[14] /\ both[21] = read_file[15]
      /\ both[22] = read_file[16] /\ both[23] = read_file[17] /\ both[24] = read_file[18]
      /\ both[25] = read_file[19] /\ both[26] = read_file[20] /\ both[27] = read_file[21]
  BY <1>5
<1>8. CASE level >= 5
  <2>1. Script = both /\ Lines = 27
    BY <1>4, <1>8 DEF Script, Lines
  <2>2. QED BY <1>1, <1>2, <1>5, <1>6, <1>7, <2>1, Zenon
<1>9. CASE ~(level >= 5)
  BY <1>1, <1>9 DEF Script, Lines
<1>10. QED BY <1>8, <1>9

\* Every call of the script returns what the program requires.
LEMMA ScriptLine ==
  ASSUME NEW t \in Task, NEW n \in 0 .. 26, n < Lines, After(t, n)
  PROVE  LineDone(t, n, Script[n + 1], syscall_dispatch(t, Script[n + 1]))
<1>1. PICK i \in 1 .. 27 : i = n + 1
  OBVIOUS
<1>2. PICK c : c = Script[i]
  OBVIOUS
<1>3. i > 6 => level >= 5
  BY <1>1 DEF Lines
<1>4. CASE i \in {1, 2, 3, 4, 5, 6, 13, 14, 16, 18}
  <2>1. OnNoFile(i, c)
    <3>1. CASE i \in {1, 2, 3, 4, 5, 6}
      BY <1>2, <3>1, ScriptIs, Zenon DEF OnNoFile
    <3>2. CASE i \in {13, 14, 16, 18}
      <4>1. level >= 5
        BY <1>3, <3>2
      <4>2. QED BY <1>2, <3>2, <4>1, ScriptIs, Zenon DEF OnNoFile
    <3>3. QED BY <1>4, <3>1, <3>2
  <2>2. QED BY <1>1, <1>2, <2>1, PlainLine
<1>5. CASE i \in {7, 8, 9, 10, 25}
  <2>1. level >= 5
    BY <1>3, <1>5
  <2>2. Opening(i, c)
    BY <1>2, <1>5, <2>1, ScriptIs, Zenon DEF Opening
  <2>3. QED BY <1>1, <1>2, <2>2, OpenLine
<1>6. CASE i \in {11, 15, 17, 19, 20, 24, 26}
  <2>1. level >= 5
    BY <1>3, <1>6
  <2>2. Reading(i, c)
    BY <1>2, <1>6, <2>1, ScriptIs, Zenon DEF Reading
  <2>3. QED BY <1>1, <1>2, <2>2, ReadLine
<1>7. CASE i \in {12, 21, 22, 23, 27}
  <2>1. level >= 5
    BY <1>3, <1>7
  <2>2. Closing(i, c)
    BY <1>2, <1>7, <2>1, ScriptIs, Zenon DEF Closing
  <2>3. QED BY <1>1, <1>2, <2>2, CloseLine
<1>8. QED BY <1>4, <1>5, <1>6, <1>7

-----------------------------------------------------------------------------
(* The start.                                                              *)

\* The pages the spaces take.
LEMMA NeededFacts ==
  ASSUME level \in 3 .. 6
  PROVE  /\ Cardinality(Spaces) \in Nat /\ Tables * Cardinality(Spaces) \in Nat
         /\ Owned \in Nat /\ Needed \in Nat
         /\ Needed = Owned + Tables * Cardinality(Spaces)
         /\ Boot \notin Spaces
<1>1. Spaces = {SpaceOf(0), SpaceOf(1)} /\ SpaceOf(0) \in {0, 1} /\ SpaceOf(1) \in {0, 1}
  BY DEF Spaces, SpaceOf, T
<1>2. IsFiniteSet(Spaces)
  <2>1. IsFiniteSet({0, 1})
    <3>1. IsFiniteSet({0})
      BY FS_Singleton
    <3>2. IsFiniteSet({0} \cup {1})
      BY <3>1, FS_AddElement
    <3>3. {0} \cup {1} = {0, 1}
      OBVIOUS
    <3>4. QED BY <3>2, <3>3
  <2>2. Spaces \subseteq {0, 1}
    BY <1>1
  <2>3. QED BY <2>1, <2>2, FS_Subset
<1>3. Cardinality(Spaces) \in Nat
  BY <1>2, FS_CardinalityType
<1>4. \A n \in Nat : Tables * n \in Nat
  BY TwoTaskAssumption
<1>5. QED BY <1>1, <1>3, <1>4 DEF Owned, Needed, Boot

\* What a task counted, and its slots.
SameCounts(t, u) ==
  /\ u.user_seen = t.user_seen /\ u.files = t.files
  /\ u.rejected_pointers = t.rejected_pointers /\ u.rejected_calls = t.rejected_calls
  /\ u.files_opened = t.files_opened /\ u.bytes_read = t.bytes_read
  /\ u.eof_reads = t.eof_reads /\ u.file_errors = t.file_errors

\* After depends on nothing else.
LEMMA AfterKept ==
  ASSUME NEW t, NEW u, SameCounts(t, u), NEW n, After(t, n)
  PROVE  After(u, n)
BY DEF SameCounts, After, CountsAfter

\* One step more since the last tick.
LEMMA StepEffect ==
  ASSUME RunTyped, Step
  PROVE  /\ steps' \in 0 .. SliceSteps /\ steps' >= 1
         /\ steps < 4 => steps' = steps + 1
         /\ steps >= 4 => steps' >= 4
BY TwoTaskAssumption DEF RunTyped, Step

\* A task before its first call.
LEMMA NewTaskFacts ==
  /\ NewTask \in Task /\ After(NewTask, 0)
  /\ NewTask.alive /\ ~NewTask.reported /\ ~NewTask.fault_seen
  /\ NewTask.counter = 0 /\ NewTask.slices = 0
<1>1. Closed \in Slot
  BY RamFSAssumption DEF Closed, Slot, Files
<1>2. PICK slots \in [Fds -> Slot] : slots = [fd \in Fds |-> Closed]
  BY <1>1
<1>3. NewTask \in Task
  BY <1>2 DEF NewTask, Task
<1>4. /\ NewTask.alive /\ ~NewTask.reported /\ ~NewTask.fault_seen
      /\ NewTask.counter = 0 /\ NewTask.slices = 0
  BY DEF NewTask
<1>5. CountsAfter(NewTask, 0)
  BY DEF NewTask, CountsAfter, Past
<1>6. NewTask.files = slots
  BY <1>2 DEF NewTask
<1>7. ~slots[0].used /\ ~slots[1].used
  BY <1>2, SlotFacts DEF Closed
<1>8. SlotsAfter(slots, 0)
  BY <1>7 DEF SlotsAfter
<1>9. QED BY <1>3, <1>4, <1>5, <1>6, <1>8 DEF After

\* The initial states.
LEMMA TwoTaskInitial == TwoTaskInit => TwoTaskInv
<1> SUFFICES ASSUME TwoTaskInit PROVE stopped = "preparing" /\ RunTyped /\ Starting
  BY DEF TwoTaskInv
<1>1. tasks \in [T -> Task]
  BY NewTaskFacts DEF TwoTaskInit
<1>2. user \in [T -> [at : Places, line : Nat, start : Nat]]
  BY DEF TwoTaskInit, Places
<1>3. data \in [T -> [marker : {0, 1, 2}, moved : SUBSET Nat]]
  BY DEF TwoTaskInit, Nobody
<1>4. RunTyped
  BY <1>1, <1>2, <1>3, TwoTaskAssumption DEF TwoTaskInit, RunTyped, T
<1>5. Starting
  BY DEF TwoTaskInit, Starting
<1>6. QED BY <1>4, <1>5 DEF TwoTaskInit

\* task_start: the spaces are built and the first task is entered.
LEMMA StartsStep ==
  ASSUME RunTyped, Starting, EnoughMemory, task_start
  PROVE  /\ stopped' = "no" /\ RunTyped'
         /\ level = 3 => Counting'
         /\ level >= 4 => UserInv'
<1>1. level \in 3 .. 6 /\ Needed \in Nat /\ free \in Nat /\ free = initial_free
  BY NeededFacts DEF RunTyped, Starting
<1>2. ~(level >= 4 /\ free < Needed)
  BY <1>1 DEF EnoughMemory
<1>3. /\ free' = (IF level >= 4 THEN free - Needed ELSE free) /\ stopped' = "no"
      /\ UNCHANGED <<level, current, ticks, tasks, user, data, initial_free, steps>>
  BY <1>2 DEF task_start
<1>4. free' \in Nat /\ Needed' = Needed
  BY <1>1, <1>2, <1>3 DEF Needed, Owned, Spaces, SpaceOf
<1>5. RunTyped'
  BY <1>3, <1>4 DEF RunTyped
<1>6. /\ \A i \in T : tasks[i] = NewTask
      /\ \A i \in T : user[i].at = (IF level = 3 THEN "count" ELSE "script") /\ user[i].line = 1
      /\ current = 0 /\ ticks = 0 /\ steps = 0
  BY DEF Starting
<1>7. ASSUME level = 3 PROVE Counting'
  BY <1>3, <1>6, <1>7, NewTaskFacts DEF Counting, T
<1>8. ASSUME level >= 4 PROVE UserInv'
  <2>1. \A i \in T : user[i].at = "script" /\ user[i].line = 1
    BY <1>1, <1>6, <1>8
  <2>2. ASSUME NEW i \in T PROVE ScriptInv(i)' /\ LoopInv(i)'
    <3>1. After(tasks'[i], 0) /\ ~tasks'[i].reported
      BY <1>3, <1>6, NewTaskFacts
    <3>2. Lines' \in {6, 27}
      BY DEF Lines
    <3>3. user'[i].at = "script" /\ user'[i].line = 1
      BY <1>3, <2>1
    <3>4. user'[i].line - 1 = 0
      BY <3>3
    <3>5. ScriptInv(i)'
      <4>1. After(tasks'[i], user'[i].line - 1)
        BY <3>1, <3>4
      <4>2. /\ user'[i].line \in 1 .. (Lines' + 1)
            /\ user'[i].at = "script" <=> user'[i].line <= Lines'
        <5>1. PICK lines \in {6, 27} : lines = Lines'
          BY <3>2
        <5>2. PICK line \in Nat : line = user'[i].line /\ line = 1
          BY <3>3
        <5>3. line \in 1 .. (lines + 1) /\ line <= lines
          BY <5>2
        <5>4. QED BY <3>3, <5>1, <5>2, <5>3
      <4>3. QED BY <3>1, <3>3, <4>1, <4>2 DEF ScriptInv
    <3>6. LoopInv(i)'
      BY <3>3 DEF LoopInv, InScript
    <3>7. QED BY <3>5, <3>6
  <2>3. tasks'[0].alive /\ tasks'[1].alive /\ ~tasks'[0].fault_seen /\ ~tasks'[1].fault_seen
        /\ tasks'[0].slices = 0 /\ tasks'[1].slices = 0
    BY <1>3, <1>6, NewTaskFacts DEF T
  <2>4. TogetherInv'
    <3>1. \A i \in T : user'[i].at = "script" /\ user'[i].line = 1
      BY <1>3, <2>1
    <3>2. InScript(0)' /\ InScript(1)'
      BY <3>1 DEF InScript, T
    <3>3. current' = 0 /\ ticks' = 0 /\ steps' = 0
      BY <1>3, <1>6
    <3>4. SliceShare' = 0
      BY <3>3 DEF SliceShare
    <3>5. QED BY <2>3, <3>1, <3>2, <3>3, <3>4 DEF TogetherInv, T
  <2>5. AloneInv'
    BY <2>3 DEF AloneInv
  <2>6. free' = initial_free' - Needed'
    BY <1>1, <1>3, <1>4, <1>8
  <2>7. QED BY <2>2, <2>3, <2>4, <2>5, <2>6 DEF UserInv
<1>9. QED BY <1>3, <1>5, <1>7, <1>8

-----------------------------------------------------------------------------
(* Changes that are not calls of the script; the counters of M3.           *)

\* u counted what t counted, and is otherwise as the arguments say.
Turned(t, u, alive, reported, fault_seen, counter, slices) ==
  /\ u \in Task /\ SameCounts(t, u)
  /\ u.alive = alive /\ u.reported = reported /\ u.fault_seen = fault_seen
  /\ u.counter = counter /\ u.slices = slices

\* What the timer, SYS_REPORT, a fault and an exit make of a task.
LEMMA TaskChanges ==
  ASSUME NEW t \in Task
  PROVE  /\ Turned(t, [t EXCEPT !.slices = @ + 1],
                   t.alive, t.reported, t.fault_seen, t.counter, t.slices + 1)
         /\ Turned(t, [t EXCEPT !.counter = 1],
                   t.alive, t.reported, t.fault_seen, 1, t.slices)
         /\ Turned(t, [t EXCEPT !.reported = TRUE],
                   t.alive, TRUE, t.fault_seen, t.counter, t.slices)
         /\ Turned(t, [t EXCEPT !.fault_seen = TRUE],
                   t.alive, t.reported, TRUE, t.counter, t.slices)
         /\ Turned(t, [t EXCEPT !.alive = FALSE],
                   FALSE, t.reported, t.fault_seen, t.counter, t.slices)
<1>1. Turned(t, [t EXCEPT !.slices = @ + 1],
             t.alive, t.reported, t.fault_seen, t.counter, t.slices + 1)
  <2>1. PICK u : u = [t EXCEPT !.slices = @ + 1]
    OBVIOUS
  <2>2. u \in Task /\ u.slices = t.slices + 1
    BY <2>1 DEF Task
  <2>3. /\ SameCounts(t, u) /\ u.alive = t.alive /\ u.reported = t.reported
        /\ u.fault_seen = t.fault_seen /\ u.counter = t.counter
    BY <2>1 DEF Task, SameCounts
  <2>4. QED BY <2>1, <2>2, <2>3 DEF Turned
<1>2. Turned(t, [t EXCEPT !.counter = 1], t.alive, t.reported, t.fault_seen, 1, t.slices)
  <2>1. PICK u : u = [t EXCEPT !.counter = 1]
    OBVIOUS
  <2>2. u \in Task /\ u.counter = 1
    BY <2>1 DEF Task
  <2>3. /\ SameCounts(t, u) /\ u.alive = t.alive /\ u.reported = t.reported
        /\ u.fault_seen = t.fault_seen /\ u.slices = t.slices
    BY <2>1 DEF Task, SameCounts
  <2>4. QED BY <2>1, <2>2, <2>3 DEF Turned
<1>3. Turned(t, [t EXCEPT !.reported = TRUE], t.alive, TRUE, t.fault_seen, t.counter, t.slices)
  <2>1. PICK u : u = [t EXCEPT !.reported = TRUE]
    OBVIOUS
  <2>2. u \in Task /\ u.reported = TRUE
    BY <2>1 DEF Task
  <2>3. /\ SameCounts(t, u) /\ u.alive = t.alive /\ u.counter = t.counter
        /\ u.fault_seen = t.fault_seen /\ u.slices = t.slices
    BY <2>1 DEF Task, SameCounts
  <2>4. QED BY <2>1, <2>2, <2>3 DEF Turned
<1>4. Turned(t, [t EXCEPT !.fault_seen = TRUE], t.alive, t.reported, TRUE, t.counter, t.slices)
  <2>1. PICK u : u = [t EXCEPT !.fault_seen = TRUE]
    OBVIOUS
  <2>2. u \in Task /\ u.fault_seen = TRUE
    BY <2>1 DEF Task
  <2>3. /\ SameCounts(t, u) /\ u.alive = t.alive /\ u.counter = t.counter
        /\ u.reported = t.reported /\ u.slices = t.slices
    BY <2>1 DEF Task, SameCounts
  <2>4. QED BY <2>1, <2>2, <2>3 DEF Turned
<1>5. Turned(t, [t EXCEPT !.alive = FALSE], FALSE, t.reported, t.fault_seen, t.counter, t.slices)
  <2>1. PICK u : u = [t EXCEPT !.alive = FALSE]
    OBVIOUS
  <2>2. u \in Task /\ u.alive = FALSE
    BY <2>1 DEF Task
  <2>3. /\ SameCounts(t, u) /\ u.fault_seen = t.fault_seen /\ u.counter = t.counter
        /\ u.reported = t.reported /\ u.slices = t.slices
    BY <2>1 DEF Task, SameCounts
  <2>4. QED BY <2>1, <2>2, <2>3 DEF Turned
<1>6. QED BY <1>1, <1>2, <1>3, <1>4, <1>5

\* The counter of M3 moves.
LEMMA CountStep ==
  ASSUME RunTyped, level = 3, Counting, count_forever
  PROVE  RunTyped' /\ Counting'
<1>1. PICK t \in Task : t = tasks[current] /\ current \in T
  BY DEF RunTyped
<1>2. PICK u : /\ u = [t EXCEPT !.counter = 1]
               /\ Turned(t, u, t.alive, t.reported, t.fault_seen, 1, t.slices)
  BY TaskChanges
<1>3. /\ tasks' = [tasks EXCEPT ![current] = u] /\ Step
      /\ UNCHANGED <<level, current, ticks, user, data, free, initial_free>>
  BY <1>1, <1>2 DEF count_forever
<1>4. u \in Task /\ u.counter = 1
  BY <1>2 DEF Turned
<1>5. tasks' \in [T -> Task] /\ tasks'[current] = u /\ \A i \in T \ {current} : tasks'[i] = tasks[i]
  BY <1>1, <1>3, <1>4 DEF RunTyped
<1>6. RunTyped'
  BY <1>3, <1>5, StepEffect DEF RunTyped
<1>7. Counting'
  BY <1>1, <1>3, <1>4, <1>5 DEF Counting
<1>8. QED BY <1>6, <1>7

\* The timer in M3: by the time both have had their slices, both counters
\* have moved.
LEMMA CountTick ==
  ASSUME RunTyped, level = 3, Counting, task_tick
  PROVE  (RunTyped' /\ Counting' /\ UNCHANGED stopped) \/ stopped' = "intentional stop"
<1>1. PICK t \in Task : t = tasks[current] /\ current \in T
  BY DEF RunTyped
<1>2. PICK u : /\ u = [t EXCEPT !.slices = @ + 1]
               /\ Turned(t, u, t.alive, t.reported, t.fault_seen, t.counter, t.slices + 1)
  BY TaskChanges
<1>3. PICK counted : counted = [tasks EXCEPT ![current] = u]
  OBVIOUS
<1>4. [tasks EXCEPT ![current].slices = @ + 1] = counted
  BY <1>1, <1>2, <1>3
<1>5. steps >= 1
  <2>1. steps >= SliceSteps
    BY DEF task_tick
  <2>2. QED BY <2>1, TwoTaskAssumption DEF RunTyped
<1>6. u \in Task /\ u.counter = t.counter /\ t.counter = 1
  BY <1>1, <1>2, <1>5 DEF Turned, Counting
<1>7. counted \in [T -> Task] /\ counted[current] = u
      /\ \A i \in T \ {current} : counted[i] = tasks[i]
  BY <1>1, <1>3, <1>6 DEF RunTyped
<1>8. \A i \in T : counted[i].slices >= 1 => tasks[i].counter = 1 /\ counted[i].counter = 1
  BY <1>1, <1>6, <1>7 DEF Counting
<1>9. CASE \A i \in T : counted[i].slices >= 4
  <2>1. \A i \in T : counted[i].slices \in Nat
    BY <1>7 DEF Task
  <2>2. \A i \in T : tasks[i].counter = 1
    BY <1>8, <1>9, <2>1
  <2>3. ~ \E i \in T : tasks[i].counter = 0
    BY <2>2
  <2>4. Panic(IF \E i \in T : tasks[i].counter = 0 THEN "M3 task never ran" ELSE "intentional stop")
    BY <1>4, <1>9 DEF task_tick
  <2>5. QED BY <2>3, <2>4 DEF Panic
<1>10. CASE ~ \A i \in T : counted[i].slices >= 4
  <2>1. /\ tasks' = counted /\ ticks' = ticks + 1 /\ steps' = 0
        /\ current' \in {Other, current}
        /\ UNCHANGED <<level, user, data, free, initial_free, stopped>>
    BY <1>4, <1>10 DEF task_tick
  <2>2. current' \in T
    BY <1>1, <2>1 DEF Other, T
  <2>3. RunTyped'
    BY <1>7, <2>1, <2>2, TwoTaskAssumption DEF RunTyped
  <2>4. Counting'
    BY <1>8, <2>1 DEF Counting
  <2>5. QED BY <2>1, <2>3, <2>4
<1>11. QED BY <1>9, <1>10

-----------------------------------------------------------------------------
(* The steps of M4 to M6.                                                  *)

\* The number of lines.
LEMMA LinesFacts == Lines \in {6, 27} /\ (level' = level => Lines' = Lines)
BY DEF Lines

\* A task's place in the script is kept by what keeps its counts.
LEMMA ScriptKept ==
  ASSUME NEW i \in T, ScriptInv(i), level' = level, user'[i] = user[i],
         SameCounts(tasks[i], tasks'[i]), tasks'[i].reported = tasks[i].reported
  PROVE  ScriptInv(i)'
<1>1. Lines' = Lines
  BY LinesFacts
<1>2. After(tasks'[i], user[i].line - 1)
  BY AfterKept DEF ScriptInv
<1>3. QED BY <1>1, <1>2 DEF ScriptInv

\* While both tasks live.
LEMMA TogetherFacts ==
  ASSUME RunTyped, UserInv, tasks[0].alive
  PROVE  /\ InScript(0) => ticks <= 13
         /\ ~InScript(0) => ticks <= 24
         /\ ticks = user[0].start + 12 /\ ~InScript(0) => current = 0
<1>1. ticks \in Nat /\ user[0].start \in Nat /\ user[0].line \in Nat /\ steps \in Nat
  BY TwoTaskAssumption DEF RunTyped, T
<1>2. SliceShare \in Nat
  BY <1>1 DEF SliceShare
<1>3. InScript(0) => user[0].line - 1 <= 27
  BY <1>1, LinesFacts DEF UserInv, ScriptInv, T
<1>4. InScript(0) => ticks <= 13
  BY <1>1, <1>2, <1>3 DEF UserInv, TogetherInv
<1>5. ~InScript(0) => ticks <= 24
  BY <1>1 DEF UserInv, TogetherInv
<1>6. ticks = user[0].start + 12 /\ ~InScript(0) => current = 0
  BY <1>1 DEF UserInv, TogetherInv, T
<1>7. QED BY <1>4, <1>5, <1>6

\* The timer in M4 to M6.
LEMMA UserTick ==
  ASSUME RunTyped, level >= 4, UserInv, task_tick
  PROVE  RunTyped' /\ UserInv' /\ UNCHANGED stopped
<1>1. PICK t \in Task : t = tasks[current] /\ current \in T
  BY DEF RunTyped
<1>2. PICK u : /\ u = [t EXCEPT !.slices = @ + 1]
               /\ Turned(t, u, t.alive, t.reported, t.fault_seen, t.counter, t.slices + 1)
  BY TaskChanges
<1>3. [tasks EXCEPT ![current].slices = @ + 1] = [tasks EXCEPT ![current] = u]
  BY <1>1, <1>2
<1>4. /\ tasks' = [tasks EXCEPT ![current] = u] /\ ticks' = ticks + 1 /\ steps' = 0
      /\ current' = (IF tasks[Other].alive THEN Other ELSE current)
      /\ UNCHANGED <<level, user, data, free, initial_free, stopped>>
  <2>1. level # 3
    BY DEF RunTyped
  <2>2. QED BY <1>3, <2>1 DEF task_tick
<1>5. steps >= 4 /\ steps \in Nat /\ ticks \in Nat /\ ticks' \in Nat
  <2>1. steps >= SliceSteps
    BY DEF task_tick
  <2>2. QED BY <1>4, <2>1, TwoTaskAssumption DEF RunTyped
<1>6. u \in Task /\ u.slices = t.slices + 1 /\ t.slices \in Nat
  BY <1>2 DEF Turned, Task
<1>7. tasks' \in [T -> Task] /\ tasks'[current] = u
      /\ \A i \in T \ {current} : tasks'[i] = tasks[i]
  BY <1>1, <1>4, <1>6 DEF RunTyped
<1>8. \A i \in T : /\ SameCounts(tasks[i], tasks'[i]) /\ tasks'[i].alive = tasks[i].alive
                   /\ tasks'[i].reported = tasks[i].reported
                   /\ tasks'[i].fault_seen = tasks[i].fault_seen
  BY <1>1, <1>2, <1>7 DEF Turned, SameCounts
<1>9. /\ tasks'[0].slices = tasks[0].slices + (IF current = 0 THEN 1 ELSE 0)
      /\ tasks'[1].slices = tasks[1].slices + (IF current = 1 THEN 1 ELSE 0)
      /\ tasks[0].slices \in Nat /\ tasks[1].slices \in Nat
  BY <1>1, <1>6, <1>7 DEF T, RunTyped, Task
<1>10. current' \in T
  BY <1>1, <1>4 DEF Other, T
<1>11. RunTyped'
  BY <1>4, <1>5, <1>7, <1>10, TwoTaskAssumption DEF RunTyped
<1>12. ASSUME NEW i \in T PROVE ScriptInv(i)'
  BY <1>4, <1>8, ScriptKept DEF UserInv
<1>13. ASSUME NEW i \in T PROVE LoopInv(i)'
  <2>1. LoopInv(i) /\ user[i].start \in Nat
    BY DEF UserInv, RunTyped
  <2>2. QED BY <1>4, <1>5, <2>1 DEF LoopInv, InScript
<1>14. TogetherInv'
  <2>1. SUFFICES ASSUME tasks'[0].alive PROVE TogetherInv'
    BY DEF TogetherInv
  <2>2. tasks[0].alive /\ tasks[1].alive
    BY <1>8, <2>1 DEF T, UserInv
  <2>3. current' = 1 - current /\ current = ticks % 2
    BY <1>1, <1>4, <2>2 DEF Other, T, UserInv, TogetherInv
  <2>4. current' = ticks' % 2
    BY <1>4, <1>5, <2>3
  <2>5. tasks'[0].slices = (ticks' + 1) \div 2 /\ tasks'[1].slices = ticks' \div 2
    <3>1. tasks[0].slices = (ticks + 1) \div 2 /\ tasks[1].slices = ticks \div 2
      BY <2>2 DEF UserInv, TogetherInv
    <3>2. QED BY <1>1, <1>4, <1>5, <1>9, <2>3, <3>1 DEF T
  <2>6. \A i \in T : InScript(i)' <=> InScript(i)
    BY <1>4 DEF InScript
  <2>7. user[0].line \in Nat /\ user[0].start \in Nat
    BY DEF RunTyped, T
  <2>8. SliceShare = 4 /\ SliceShare' = 0
    BY <1>4, <1>5 DEF SliceShare
  <2>9. InScript(0)' =>
          user'[0].line - 1 >= IF current' = 0 THEN 2 * ticks' + SliceShare' ELSE 2 * (ticks' + 1)
    BY <1>1, <1>4, <1>5, <2>2, <2>3, <2>6, <2>7, <2>8 DEF UserInv, TogetherInv, T
  <2>10. ~InScript(0) => user[0].at = "loop" /\ ticks < user[0].start + 12
    BY <1>5, <2>2, <2>7 DEF UserInv, TogetherInv, InScript
  <2>11. ~InScript(0)' => user'[0].start <= 12 /\ ticks' <= user'[0].start + 12
    BY <1>4, <1>5, <2>2, <2>6, <2>7, <2>10 DEF UserInv, TogetherInv, T
  <2>12. user'[0].at \notin {"report", "probe"}
    BY <1>4, <2>10 DEF InScript
  <2>13. QED BY <1>4, <1>8, <2>2, <2>4, <2>5, <2>6, <2>9, <2>11, <2>12 DEF UserInv, TogetherInv, T
<1>15. AloneInv'
  <2>1. SUFFICES ASSUME ~tasks'[0].alive PROVE AloneInv'
    BY DEF AloneInv
  <2>2. ~tasks[0].alive /\ current = 1
    BY <1>8, <2>1 DEF T, UserInv, AloneInv
  <2>3. current' = 1
    BY <1>4, <2>2 DEF Other
  <2>4. QED BY <1>4, <1>8, <1>9, <2>2, <2>3 DEF UserInv, AloneInv, T
<1>16. Needed' = Needed
  BY <1>4 DEF Needed, Owned, Spaces, SpaceOf
<1>17. QED BY <1>4, <1>8, <1>11, <1>12, <1>13, <1>14, <1>15, <1>16 DEF UserInv, T

\* A step of one task says nothing new of the loop of the other.
LEMMA OtherLoop ==
  ASSUME RunTyped, level >= 4, UserInv, NEW i \in T, i # current,
         user'[i] = user[i], UNCHANGED <<level, ticks>>, level >= 6 => data'[i] = data[i]
  PROVE  LoopInv(i)'
<1>1. CASE InScript(i)
  BY <1>1 DEF LoopInv, InScript
<1>2. CASE ~InScript(i)
  <2>1. LoopInv(i) /\ user[i].start \in Nat /\ ticks \in Nat /\ current \in T
    BY DEF UserInv, RunTyped
  <2>2. user[i].at # "loop" \/ ticks # user[i].start + 2
    <3>1. CASE tasks[0].alive
      <4>1. current = ticks % 2 /\ user[i].start % 2 = i
        BY <1>2, <3>1 DEF UserInv, TogetherInv
      <4>2. QED BY <2>1, <4>1 DEF T
    <3>2. CASE ~tasks[0].alive
      <4>1. current = 1 /\ user[0].at = "probe"
        BY <3>2 DEF UserInv, AloneInv
      <4>2. QED BY <4>1 DEF T
    <3>3. QED BY <3>1, <3>2
  <2>3. user[i].at # "loop" \/ ticks >= user[i].start + 3 => (level >= 6 => 1 \in data[i].moved)
    BY <1>2, <2>1 DEF LoopInv
  <2>4. user[i].start <= ticks /\ (level >= 6 => data[i].marker = i)
    BY <1>2, <2>1 DEF LoopInv
  <2>5. /\ user'[i].start <= ticks'
        /\ level' >= 6 => data'[i].marker = i
        /\ level' >= 6 => ((\/ user'[i].at # "loop"
                            \/ ticks' = user'[i].start + 2 /\ steps' >= 1
                            \/ ticks' >= user'[i].start + 3)
                           => 1 \in data'[i].moved)
    BY <2>2, <2>3, <2>4
  <2>6. QED BY <2>5 DEF LoopInv
<1>3. QED BY <1>1, <1>2

\* A step of task 1 while task 0 lives.
LEMMA TogetherByOne ==
  ASSUME RunTyped, UserInv, current = 1, UNCHANGED <<level, current, ticks>>,
         user'[0] = user[0], tasks'[0] = tasks[0], tasks'[1].slices = tasks[1].slices,
         tasks[0].alive => user'[1].at \in {"script", "start", "loop"},
         tasks[0].alive /\ ~InScript(1)' => user'[1].start % 2 = 1
  PROVE  TogetherInv'
<1>1. SUFFICES ASSUME tasks'[0].alive PROVE TogetherInv'
  BY DEF TogetherInv
<1>2. tasks[0].alive
  BY <1>1
<1>3. InScript(0)' <=> InScript(0)
  BY DEF InScript
<1>4. InScript(0)' => user'[0].line - 1 >= 2 * (ticks' + 1)
  BY <1>2, <1>3 DEF UserInv, TogetherInv
<1>5. ~InScript(0) => ticks # user[0].start + 12
  BY <1>2, TogetherFacts
<1>6. user[0].at \notin {"report", "probe"}
  BY <1>2, <1>5 DEF UserInv, TogetherInv, InScript
<1>7. ~InScript(0)' => /\ user'[0].start % 2 = 0 /\ user'[0].start <= 12
                       /\ ticks' <= user'[0].start + 12 /\ ticks' # user'[0].start + 12
  BY <1>2, <1>3, <1>5 DEF UserInv, TogetherInv, T
<1>8. user'[0].at \in {"script", "start", "loop"}
  BY <1>2, <1>6 DEF UserInv, TogetherInv
<1>9. user'[0].at = "loop" => ~InScript(0)'
  BY DEF InScript
<1>10. \A i \in T : ~InScript(i)' => user'[i].start % 2 = i
  BY <1>2, <1>7 DEF T
<1>11. /\ current' = ticks' % 2 /\ ~tasks'[0].fault_seen
       /\ tasks'[0].slices = (ticks' + 1) \div 2 /\ tasks'[1].slices = ticks' \div 2
  BY <1>2 DEF UserInv, TogetherInv
<1>12. user'[1].at \in {"script", "start", "loop"} /\ current' # 0
  BY <1>2
<1>13. QED BY <1>4, <1>7, <1>8, <1>9, <1>10, <1>11, <1>12 DEF TogetherInv

\* A step of task 1 when it is alone.
LEMMA AloneByOne ==
  ASSUME RunTyped, UserInv, current = 1, UNCHANGED current,
         user'[0] = user[0], tasks'[0] = tasks[0], tasks'[1].slices = tasks[1].slices,
         user'[1].at \in {"script", "start", "loop", "report", "exit"}
  PROVE  AloneInv'
BY DEF UserInv, AloneInv

\* One line of the script.
LEMMA ScriptStep ==
  ASSUME RunTyped, level >= 4, UserInv, script_call
  PROVE  RunTyped' /\ UserInv' /\ UNCHANGED stopped
<1>1. /\ current \in T /\ tasks[current] \in Task /\ user[current].at = "script"
      /\ ScriptInv(current) /\ user[current].line \in Nat
      /\ user[current] \in [at : Places, line : Nat, start : Nat]
  BY DEF RunTyped, UserInv, script_call, At, me
<1>2. PICK n \in 0 .. 26 : n = user[current].line - 1 /\ n < Lines
  <2>1. PICK lines \in {6, 27} : lines = Lines
    BY LinesFacts
  <2>2. user[current].line \in 1 .. lines
    BY <1>1, <2>1 DEF ScriptInv
  <2>3. user[current].line - 1 \in 0 .. 26 /\ user[current].line - 1 < lines
    BY <2>2
  <2>4. QED BY <2>1, <2>3
<1>3. After(tasks[current], n)
  BY <1>1, <1>2 DEF ScriptInv
<1>4. PICK c, r : c = Script[n + 1] /\ r = syscall_dispatch(tasks[current], c)
  OBVIOUS
<1>5. LineDone(tasks[current], n, c, r)
  BY <1>1, <1>2, <1>3, <1>4, ScriptLine
<1>6. /\ r.result = c.want /\ r.task \in Task /\ SameTask(tasks[current], r.task)
      /\ After(r.task, n + 1)
  BY <1>5 DEF LineDone
<1>7. user[current].line = n + 1
  BY <1>1, <1>2
<1>8. PICK at : at = IF n + 1 = Lines THEN "start" ELSE "script"
  OBVIOUS
<1>9. PICK v : v = [at |-> at, line |-> n + 2, start |-> user[current].start]
  OBVIOUS
<1>10. /\ v \in [at : Places, line : Nat, start : Nat]
       /\ v.line = n + 2 /\ v.at = at /\ v.start = user[current].start
       /\ at \in {"script", "start"}
  BY <1>1, <1>8, <1>9 DEF Places
<1>11. /\ tasks' = [tasks EXCEPT ![current] = r.task] /\ user' = [user EXCEPT ![current] = v]
       /\ Step /\ UNCHANGED <<level, current, ticks, data, free, initial_free, stopped>>
  <2>1. Script[me.line] = c /\ me.at = "script"
    BY <1>1, <1>4, <1>7 DEF me
  <2>2. [at |-> IF me.line = Len(Script) THEN "start" ELSE "script",
         line |-> me.line + 1, start |-> me.start] = v
    <3>1. (IF me.line = Len(Script) THEN "start" ELSE "script") = at
      BY <1>7, <1>8, ScriptIs DEF me
    <3>2. me.line + 1 = n + 2 /\ me.start = user[current].start
      BY <1>7 DEF me
    <3>3. QED BY <1>9, <3>1, <3>2
  <2>3. /\ tasks' = [tasks EXCEPT ![current] = r.task]
        /\ user' = [user EXCEPT ![current] =
                       [at |-> IF me.line = Len(Script) THEN "start" ELSE "script",
                        line |-> me.line + 1, start |-> me.start]]
        /\ Step /\ UNCHANGED <<level, current, ticks, data, free, initial_free, stopped>>
    BY <1>4, <1>6, <2>1 DEF script_call
  <2>4. QED BY <2>2, <2>3
<1>12. /\ tasks' \in [T -> Task] /\ tasks'[current] = r.task
       /\ user' \in [T -> [at : Places, line : Nat, start : Nat]] /\ user'[current] = v
       /\ \A i \in T \ {current} : tasks'[i] = tasks[i] /\ user'[i] = user[i]
  BY <1>1, <1>6, <1>10, <1>11 DEF RunTyped
<1>13. RunTyped'
  BY <1>11, <1>12, StepEffect DEF RunTyped
<1>14. ScriptInv(current)'
  <2>1. PICK lines \in {6, 27} : lines = Lines /\ lines = Lines'
    BY <1>11, LinesFacts
  <2>2. /\ v.line \in 1 .. (lines + 1) /\ v.at # "count"
        /\ v.at = "script" <=> v.line <= lines
        /\ v.at \notin {"probe", "exit"}
    BY <1>2, <1>8, <1>10, <2>1
  <2>3. After(r.task, v.line - 1)
    <3>1. v.line - 1 = n + 1
      BY <1>10
    <3>2. QED BY <1>6, <3>1
  <2>4. ~r.task.reported
    BY <1>1, <1>6 DEF SameTask, ScriptInv
  <2>5. QED BY <1>11, <1>12, <2>1, <2>2, <2>3, <2>4 DEF ScriptInv
<1>15. ASSUME NEW i \in T PROVE ScriptInv(i)' /\ LoopInv(i)'
  <2>1. CASE i = current
    <3>1. InScript(current)'
      BY <1>8, <1>11, <1>10, <1>12 DEF InScript
    <3>2. QED BY <1>11, <1>14, <2>1, <3>1 DEF LoopInv, InScript
  <2>2. CASE i # current
    <3>1. tasks'[i] = tasks[i] /\ user'[i] = user[i]
      BY <1>12, <2>2
    <3>2. SameCounts(tasks[i], tasks'[i])
      BY <3>1 DEF SameCounts
    <3>3. ScriptInv(i)'
      BY <1>11, <3>1, <3>2, ScriptKept DEF UserInv
    <3>4. QED BY <1>11, <2>2, <3>1, <3>3, OtherLoop
  <2>3. QED BY <2>1, <2>2
<1>16. \A i \in T : /\ tasks'[i].alive = tasks[i].alive /\ tasks'[i].slices = tasks[i].slices
                    /\ tasks'[i].fault_seen = tasks[i].fault_seen
  BY <1>1, <1>6, <1>12 DEF SameTask
<1>17. TogetherInv' /\ AloneInv'
  <2>1. CASE current = 1
    <3>1. user'[0] = user[0] /\ tasks'[0] = tasks[0] /\ tasks'[1].slices = tasks[1].slices
      BY <1>12, <1>16, <2>1 DEF T
    <3>2. user'[1].at \in {"script", "start"} /\ InScript(1)'
      BY <1>8, <1>10, <1>12, <2>1 DEF InScript
    <3>3. QED BY <1>11, <2>1, <3>1, <3>2, TogetherByOne, AloneByOne
  <2>2. CASE current = 0
    <3>1. tasks[0].alive
      BY <2>2 DEF UserInv, AloneInv
    <3>2. user'[1] = user[1] /\ user'[0] = v /\ v.at \in {"script", "start"}
      BY <1>8, <1>10, <1>12, <2>2 DEF T
    <3>3. InScript(0) /\ InScript(0)' /\ (InScript(1)' <=> InScript(1))
      BY <1>1, <2>2, <3>2 DEF InScript
    <3>4. n >= 2 * ticks + SliceShare
      BY <1>2, <2>2, <3>1, <3>3 DEF UserInv, TogetherInv
    <3>5. ticks \in Nat /\ steps \in Nat /\ steps' \in Nat
          /\ (steps < 4 => steps' = steps + 1) /\ (steps >= 4 => steps' >= 4)
      BY <1>11, StepEffect, TwoTaskAssumption DEF RunTyped
    <3>6. v.line - 1 >= 2 * ticks + SliceShare'
      <4>1. SliceShare \in Nat /\ SliceShare' \in Nat /\ SliceShare' <= SliceShare + 1
        BY <3>5 DEF SliceShare
      <4>2. v.line - 1 = n + 1
        BY <1>10
      <4>3. QED BY <3>4, <3>5, <4>1, <4>2
    <3>7. \A i \in T : ~InScript(i)' => user'[i].start % 2 = i
      BY <3>1, <3>2, <3>3 DEF UserInv, TogetherInv, T
    <3>8. /\ current' = ticks' % 2 /\ current' = 0 /\ ticks' = ticks /\ ~tasks'[0].fault_seen
          /\ tasks'[0].slices = (ticks' + 1) \div 2 /\ tasks'[1].slices = ticks' \div 2
          /\ user'[1].at \in {"script", "start", "loop"}
      BY <1>11, <1>16, <2>2, <3>1, <3>2 DEF UserInv, TogetherInv, T
    <3>9. TogetherInv'
      BY <3>2, <3>3, <3>6, <3>7, <3>8 DEF TogetherInv
    <3>10. AloneInv'
      BY <1>16, <3>1 DEF AloneInv, T
    <3>11. QED BY <3>9, <3>10
  <2>3. QED BY <1>1, <2>1, <2>2 DEF T
<1>18. Needed' = Needed
  BY <1>11 DEF Needed, Owned, Spaces, SpaceOf
<1>19. QED BY <1>11, <1>13, <1>15, <1>16, <1>17, <1>18 DEF UserInv, T

\* A step of task 0, after which it is past its script.
LEMMA TogetherByZero ==
  ASSUME RunTyped, UserInv, current = 0, UNCHANGED <<level, current, ticks>>,
         user'[1] = user[1], tasks'[1] = tasks[1], tasks'[0].slices = tasks[0].slices,
         tasks'[0].alive = tasks[0].alive, tasks'[0].fault_seen = tasks[0].fault_seen,
         user'[0].at \in {"loop", "report", "probe"},
         user'[0].start % 2 = 0, user'[0].start <= 12, ticks <= user'[0].start + 12,
         user'[0].at = "loop" => ticks # user'[0].start + 12,
         user'[0].at = "report" => ticks = user'[0].start + 12 /\ steps' <= 1,
         user'[0].at = "probe" => ticks = user'[0].start + 12 /\ steps' <= 2
  PROVE  TogetherInv' /\ AloneInv'
<1>1. tasks[0].alive /\ tasks'[0].alive
  BY DEF UserInv, AloneInv
<1>2. ~InScript(0)' /\ (InScript(1)' <=> InScript(1))
  BY DEF InScript
<1>3. \A i \in T : ~InScript(i)' => user'[i].start % 2 = i
  BY <1>1, <1>2 DEF UserInv, TogetherInv, T
<1>4. /\ current' = ticks' % 2 /\ ~tasks'[0].fault_seen
      /\ tasks'[0].slices = (ticks' + 1) \div 2 /\ tasks'[1].slices = ticks' \div 2
      /\ user'[1].at \in {"script", "start", "loop"}
  BY <1>1 DEF UserInv, TogetherInv
<1>5. TogetherInv'
  BY <1>2, <1>3, <1>4 DEF TogetherInv
<1>6. QED BY <1>1, <1>5 DEF AloneInv

\* The marker is written and the loop begins.
LEMMA LoopBegins ==
  ASSUME RunTyped, level >= 4, UserInv, start_loop
  PROVE  RunTyped' /\ UserInv' /\ UNCHANGED stopped
<1>1. /\ current \in T /\ user[current].at = "start" /\ ScriptInv(current)
      /\ user[current].line \in Nat /\ ticks \in Nat
      /\ InScript(current)
  BY DEF RunTyped, UserInv, start_loop, At, me, InScript
<1>2. PICK v : v = [at |-> "loop", line |-> user[current].line, start |-> ticks]
  OBVIOUS
<1>3. /\ v \in [at : Places, line : Nat, start : Nat]
      /\ v.at = "loop" /\ v.line = user[current].line /\ v.start = ticks
  BY <1>1, <1>2 DEF Places
<1>4. /\ user' = [user EXCEPT ![current] = v] /\ Step
      /\ UNCHANGED <<level, current, ticks, tasks, free, initial_free, stopped>>
      /\ data' = IF level >= 6 THEN [data EXCEPT ![SpaceOf(current)].marker = current] ELSE data
  BY <1>2 DEF start_loop, me
<1>5. /\ user' \in [T -> [at : Places, line : Nat, start : Nat]] /\ user'[current] = v
      /\ \A i \in T \ {current} : user'[i] = user[i]
  BY <1>1, <1>3, <1>4 DEF RunTyped
<1>6. /\ data' \in [T -> [marker : {0, 1, 2}, moved : SUBSET Nat]]
      /\ level >= 6 => /\ data'[current].marker = current
                       /\ \A i \in T \ {current} : data'[i] = data[i]
  <2>1. CASE level >= 6
    <3>1. PICK d : d = [data[current] EXCEPT !.marker = current]
      OBVIOUS
    <3>2. d \in [marker : {0, 1, 2}, moved : SUBSET Nat] /\ d.marker = current
      BY <1>1, <3>1 DEF RunTyped, T
    <3>3. SpaceOf(current) = current
      BY <2>1 DEF SpaceOf
    <3>4. data' = [data EXCEPT ![current] = d]
      BY <1>4, <2>1, <3>1, <3>3
    <3>5. QED BY <1>1, <3>2, <3>4 DEF RunTyped
  <2>2. CASE ~(level >= 6)
    BY <1>4, <2>2 DEF RunTyped
  <2>3. QED BY <2>1, <2>2
<1>7. RunTyped'
  BY <1>4, <1>5, <1>6, StepEffect DEF RunTyped
<1>8. ASSUME NEW i \in T PROVE ScriptInv(i)' /\ LoopInv(i)'
  <2>1. CASE i = current
    <3>1. Lines' = Lines
      BY <1>4, LinesFacts
    <3>2. /\ user'[i].at = "loop" /\ user'[i].line = user[i].line
          /\ user'[i].start = ticks' /\ tasks'[i] = tasks[i] /\ user[i].at = "start"
      BY <1>1, <1>3, <1>4, <1>5, <2>1
    <3>3. ScriptInv(i)'
      BY <1>1, <2>1, <3>1, <3>2 DEF ScriptInv
    <3>4. ticks' \in Nat /\ (level' >= 6 => data'[i].marker = i)
      BY <1>1, <1>4, <1>6, <2>1
    <3>5. PICK k \in Nat : k = ticks'
      BY <3>4
    <3>6. /\ user'[i].start <= ticks' /\ user'[i].at = "loop"
          /\ ticks' # user'[i].start + 2 /\ ~(ticks' >= user'[i].start + 3)
      <4>1. k <= k /\ k # k + 2 /\ ~(k >= k + 3)
        OBVIOUS
      <4>2. user'[i].start = k /\ ticks' = k
        BY <3>2, <3>5
      <4>3. QED BY <3>2, <4>1, <4>2
    <3>7. LoopInv(i)'
      BY <3>4, <3>6 DEF LoopInv
    <3>8. QED BY <3>3, <3>7
  <2>2. CASE i # current
    <3>1. tasks'[i] = tasks[i] /\ user'[i] = user[i] /\ (level >= 6 => data'[i] = data[i])
      BY <1>4, <1>5, <1>6, <2>2
    <3>2. SameCounts(tasks[i], tasks'[i])
      BY <3>1 DEF SameCounts
    <3>3. ScriptInv(i)'
      BY <1>4, <3>1, <3>2, ScriptKept DEF UserInv
    <3>4. QED BY <1>4, <2>2, <3>1, <3>3, OtherLoop
  <2>3. QED BY <2>1, <2>2
<1>9. TogetherInv' /\ AloneInv'
  <2>1. CASE current = 1
    <3>1. user'[0] = user[0] /\ user'[1].at = "loop" /\ user'[1].start = ticks
      BY <1>3, <1>5, <2>1 DEF T
    <3>2. tasks[0].alive => ticks % 2 = 1
      BY <2>1 DEF UserInv, TogetherInv
    <3>3. QED BY <1>4, <2>1, <3>1, <3>2, TogetherByOne, AloneByOne
  <2>2. CASE current = 0
    <3>1. tasks[0].alive
      BY <2>2 DEF UserInv, AloneInv
    <3>2. user'[1] = user[1] /\ user'[0].at = "loop" /\ user'[0].start = ticks
      BY <1>3, <1>5, <2>2 DEF T
    <3>3. ticks % 2 = 0
      BY <2>2, <3>1 DEF UserInv, TogetherInv
    <3>4. ticks <= 13
      BY <1>1, <2>2, <3>1, TogetherFacts
    <3>5. ticks <= 12 /\ ticks <= ticks + 12 /\ ticks # ticks + 12
      BY <1>1, <3>3, <3>4
    <3>6. QED BY <1>4, <2>2, <3>2, <3>3, <3>5, TogetherByZero
  <2>3. QED BY <1>1, <2>1, <2>2 DEF T
<1>10. Needed' = Needed
  BY <1>4 DEF Needed, Owned, Spaces, SpaceOf
<1>11. QED BY <1>4, <1>7, <1>8, <1>9, <1>10 DEF UserInv

\* Where a task goes without a change of its counts.
LEMMA PlaceChanges ==
  ASSUME RunTyped, NEW where \in Places, Goes(where)
  PROVE  /\ user' \in [T -> [at : Places, line : Nat, start : Nat]]
         /\ user'[current].at = where /\ user'[current].line = user[current].line
         /\ user'[current].start = user[current].start
         /\ \A i \in T \ {current} : user'[i] = user[i]
<1>1. PICK v : v = [user[current] EXCEPT !.at = where]
  OBVIOUS
<1>2. current \in T /\ user[current] \in [at : Places, line : Nat, start : Nat]
  BY DEF RunTyped
<1>3. /\ v \in [at : Places, line : Nat, start : Nat]
      /\ v.at = where /\ v.line = user[current].line /\ v.start = user[current].start
  BY <1>1, <1>2
<1>4. user' = [user EXCEPT ![current] = v]
  BY <1>1, <1>2 DEF Goes
<1>5. QED BY <1>2, <1>3, <1>4 DEF RunTyped

\* Round the loop once more, or out of it.
LEMMA LoopStep ==
  ASSUME RunTyped, level >= 4, UserInv, timed_loop
  PROVE  RunTyped' /\ UserInv' /\ UNCHANGED stopped
<1>1. /\ current \in T /\ user[current].at = "loop" /\ ScriptInv(current) /\ LoopInv(current)
      /\ user[current].start \in Nat /\ ticks \in Nat /\ ~InScript(current) /\ steps \in Nat
      /\ user[current].line \in Nat
  <2>1. user[current].at = "loop"
    BY DEF timed_loop, At, me
  <2>2. /\ current \in T /\ user[current] \in [at : Places, line : Nat, start : Nat]
        /\ ticks \in Nat /\ steps \in Nat
    BY TwoTaskAssumption DEF RunTyped
  <2>3. QED BY <2>1, <2>2 DEF UserInv, InScript
<1>2. Duration(0) = 12 /\ Duration(1) = 24
  BY DEF Duration
<1>3. CASE ticks - user[current].start >= Duration(current)
  <2>1. /\ Goes("report") /\ Step
        /\ UNCHANGED <<level, current, ticks, tasks, data, free, initial_free, stopped>>
    BY <1>3 DEF timed_loop, me
  <2>2. /\ user' \in [T -> [at : Places, line : Nat, start : Nat]]
        /\ user'[current].at = "report" /\ user'[current].line = user[current].line
        /\ user'[current].start = user[current].start
        /\ \A i \in T \ {current} : user'[i] = user[i]
    <3>1. "report" \in Places
      BY DEF Places
    <3>2. QED BY <2>1, <3>1, PlaceChanges
  <2>3. RunTyped'
    BY <2>1, <2>2, StepEffect DEF RunTyped
  <2>4. ticks >= user[current].start + 12
    BY <1>1, <1>2, <1>3 DEF T
  <2>5. ASSUME NEW i \in T PROVE ScriptInv(i)' /\ LoopInv(i)'
    <3>1. CASE i = current
      <4>1. Lines' = Lines
        BY <2>1, LinesFacts
      <4>2. ScriptInv(i)'
        BY <1>1, <2>1, <2>2, <3>1, <4>1 DEF ScriptInv
      <4>3. level >= 6 => data[i].marker = i /\ 1 \in data[i].moved
        BY <1>1, <2>4, <3>1 DEF LoopInv
      <4>4. LoopInv(i)'
        BY <1>1, <2>1, <2>2, <2>4, <3>1, <4>3 DEF LoopInv
      <4>5. QED BY <4>2, <4>4
    <3>2. CASE i # current
      <4>1. tasks'[i] = tasks[i] /\ user'[i] = user[i] /\ (level >= 6 => data'[i] = data[i])
        BY <2>1, <2>2, <3>2
      <4>2. SameCounts(tasks[i], tasks'[i])
        BY <4>1 DEF SameCounts
      <4>3. ScriptInv(i)'
        BY <2>1, <4>1, <4>2, ScriptKept DEF UserInv
      <4>4. QED BY <2>1, <3>2, <4>1, <4>3, OtherLoop
    <3>3. QED BY <3>1, <3>2
  <2>6. TogetherInv' /\ AloneInv'
    <3>1. CASE current = 1
      <4>1. ~tasks[0].alive
        <5>1. SUFFICES ASSUME tasks[0].alive PROVE FALSE
          OBVIOUS
        <5>2. user[1].start % 2 = 1 /\ ticks <= 24
          BY <1>1, <3>1, <5>1, TogetherFacts DEF UserInv, TogetherInv, T
        <5>3. QED BY <1>1, <1>2, <1>3, <3>1, <5>2
      <4>2. user'[0] = user[0] /\ user'[1].at = "report"
        BY <2>2, <3>1 DEF T
      <4>3. QED BY <2>1, <3>1, <4>1, <4>2, TogetherByOne, AloneByOne
    <3>2. CASE current = 0
      <4>1. tasks[0].alive
        BY <3>2 DEF UserInv, AloneInv
      <4>2. /\ user[0].start % 2 = 0 /\ user[0].start <= 12 /\ ticks <= user[0].start + 12
            /\ ticks = user[0].start + 12 => steps = 0
        BY <1>1, <3>2, <4>1 DEF UserInv, TogetherInv, T
      <4>3. ticks = user[0].start + 12 /\ steps' <= 1
        BY <1>1, <2>1, <2>4, <3>2, <4>2, StepEffect
      <4>4. user'[1] = user[1] /\ user'[0].at = "report" /\ user'[0].start = user[0].start
        BY <2>2, <3>2 DEF T
      <4>5. QED BY <2>1, <3>2, <4>2, <4>3, <4>4, TogetherByZero
    <3>3. QED BY <1>1, <3>1, <3>2 DEF T
  <2>7. Needed' = Needed
    BY <2>1 DEF Needed, Owned, Spaces, SpaceOf
  <2>8. QED BY <2>1, <2>3, <2>5, <2>6, <2>7 DEF UserInv
<1>4. CASE ~(ticks - user[current].start >= Duration(current))
  <2>1. level >= 6 => SpaceOf(current) = current /\ data[current].marker = current
    BY <1>1 DEF SpaceOf, LoopInv
  <2>2. /\ data' = [data EXCEPT ![SpaceOf(current)].moved = @ \cup {counter_slot}] /\ Step
        /\ UNCHANGED <<level, current, ticks, tasks, user, free, initial_free, stopped>>
    BY <1>4, <2>1 DEF timed_loop, me
  <2>3. PICK s \in T : s = SpaceOf(current)
    BY <1>1 DEF SpaceOf, T
  <2>4. PICK d : d = [data[s] EXCEPT !.moved = @ \cup {counter_slot}]
    OBVIOUS
  <2>5. counter_slot \in Nat /\ (level >= 6 => counter_slot = 1)
    BY <1>1 DEF counter_slot, T
  <2>6. /\ d \in [marker : {0, 1, 2}, moved : SUBSET Nat] /\ d.marker = data[s].marker
        /\ d.moved = data[s].moved \cup {counter_slot}
    <3>1. data[s] \in [marker : {0, 1, 2}, moved : SUBSET Nat]
      BY <2>3 DEF RunTyped
    <3>2. QED BY <2>4, <2>5, <3>1
  <2>7. data' = [data EXCEPT ![s] = d]
    BY <2>2, <2>3, <2>4
  <2>8. /\ data' \in [T -> [marker : {0, 1, 2}, moved : SUBSET Nat]] /\ data'[s] = d
        /\ \A i \in T \ {s} : data'[i] = data[i]
    BY <2>3, <2>6, <2>7 DEF RunTyped
  <2>9. RunTyped'
    BY <2>2, <2>8, StepEffect DEF RunTyped
  <2>10. ASSUME NEW i \in T PROVE ScriptInv(i)' /\ LoopInv(i)'
    <3>1. tasks'[i] = tasks[i] /\ user'[i] = user[i]
      BY <2>2
    <3>2. SameCounts(tasks[i], tasks'[i])
      BY <3>1 DEF SameCounts
    <3>3. ScriptInv(i)'
      BY <2>2, <3>1, <3>2, ScriptKept DEF UserInv
    <3>4. CASE i = current
      <4>1. level >= 6 => data'[i].marker = i /\ 1 \in data'[i].moved
        BY <2>1, <2>3, <2>5, <2>6, <2>8, <3>4
      <4>2. LoopInv(i)'
        BY <1>1, <2>2, <3>4, <4>1 DEF LoopInv
      <4>3. QED BY <3>3, <4>2
    <3>5. CASE i # current
      <4>1. level >= 6 => data'[i] = data[i]
        BY <2>1, <2>3, <2>8, <3>5
      <4>2. QED BY <2>2, <3>1, <3>3, <3>5, <4>1, OtherLoop
    <3>6. QED BY <3>4, <3>5
  <2>11. TogetherInv' /\ AloneInv'
    <3>1. CASE current = 1
      <4>1. user'[0] = user[0] /\ user'[1] = user[1] /\ user[1].at = "loop"
        BY <1>1, <2>2, <3>1
      <4>2. tasks[0].alive => user[1].start % 2 = 1
        BY <1>1, <3>1 DEF UserInv, TogetherInv, T
      <4>3. QED BY <2>2, <3>1, <4>1, <4>2, TogetherByOne, AloneByOne
    <3>2. CASE current = 0
      <4>1. tasks[0].alive
        BY <3>2 DEF UserInv, AloneInv
      <4>2. user[0].start % 2 = 0 /\ user[0].start <= 12
        BY <1>1, <3>2, <4>1 DEF UserInv, TogetherInv, T
      <4>3. ticks < user[0].start + 12
        BY <1>1, <1>2, <1>4, <3>2
      <4>4. user'[0] = user[0] /\ user'[1] = user[1] /\ user[0].at = "loop"
        BY <1>1, <2>2, <3>2
      <4>5. ticks <= user[0].start + 12 /\ ticks # user[0].start + 12
        BY <1>1, <3>2, <4>3
      <4>6. QED BY <2>2, <3>2, <4>2, <4>4, <4>5, TogetherByZero
    <3>3. QED BY <1>1, <3>1, <3>2 DEF T
  <2>12. Needed' = Needed
    BY <2>2 DEF Needed, Owned, Spaces, SpaceOf
  <2>13. QED BY <2>2, <2>9, <2>10, <2>11, <2>12 DEF UserInv
<1>5. QED BY <1>3, <1>4

\* SYS_REPORT: nobody has reported twice, and the survivor reports after
\* the fault.
LEMMA ReportStep ==
  ASSUME RunTyped, level >= 4, UserInv, report
  PROVE  RunTyped' /\ UserInv' /\ UNCHANGED stopped
<1>1. user[current].at = "report"
  BY DEF report, At, me
<1>2. /\ current \in T /\ user[current] \in [at : Places, line : Nat, start : Nat]
      /\ ticks \in Nat /\ steps \in Nat /\ tasks[current] \in Task
  BY TwoTaskAssumption DEF RunTyped
<1>3. ScriptInv(current) /\ LoopInv(current) /\ ~InScript(current)
  BY <1>1, <1>2 DEF UserInv, InScript
<1>4. ~tasks[current].reported
  BY <1>1, <1>3 DEF ScriptInv
<1>5. current = 1 => ~tasks[0].alive /\ tasks[0].fault_seen
  BY <1>1 DEF UserInv, TogetherInv, AloneInv
<1>6. PICK t \in Task : t = tasks[current]
  BY <1>2
<1>7. PICK u : /\ u = [t EXCEPT !.reported = TRUE]
               /\ Turned(t, u, t.alive, TRUE, t.fault_seen, t.counter, t.slices)
  BY TaskChanges
<1>8. PICK where \in {"probe", "exit"} : where = IF current = 0 THEN "probe" ELSE "exit"
  OBVIOUS
<1>9. /\ tasks' = [tasks EXCEPT ![current].reported = TRUE]
      /\ Goes(where) /\ Step
      /\ UNCHANGED <<level, current, ticks, data, free, initial_free, stopped>>
  BY <1>4, <1>5, <1>8 DEF report
<1>10. tasks' = [tasks EXCEPT ![current] = u]
  BY <1>2, <1>6, <1>7, <1>9
<1>11. /\ u \in Task /\ SameCounts(t, u) /\ u.reported /\ u.alive = t.alive
       /\ u.fault_seen = t.fault_seen /\ u.slices = t.slices
  BY <1>7 DEF Turned
<1>12. /\ tasks' \in [T -> Task] /\ tasks'[current] = u
       /\ \A i \in T \ {current} : tasks'[i] = tasks[i]
  BY <1>2, <1>10, <1>11 DEF RunTyped
<1>13. /\ user' \in [T -> [at : Places, line : Nat, start : Nat]]
       /\ user'[current].at = where /\ user'[current].line = user[current].line
       /\ user'[current].start = user[current].start
       /\ \A i \in T \ {current} : user'[i] = user[i]
  <2>1. where \in Places
    BY DEF Places
  <2>2. QED BY <1>9, <2>1, PlaceChanges
<1>14. RunTyped'
  BY <1>9, <1>12, <1>13, StepEffect DEF RunTyped
<1>15. ASSUME NEW i \in T PROVE ScriptInv(i)' /\ LoopInv(i)'
  <2>1. CASE i = current
    <3>1. Lines' = Lines
      BY <1>9, LinesFacts
    <3>2. After(tasks'[i], user'[i].line - 1)
      <4>1. After(tasks[i], user[i].line - 1)
        BY <1>3, <2>1 DEF ScriptInv
      <4>2. SameCounts(tasks[i], tasks'[i])
        BY <1>6, <1>11, <1>12, <2>1
      <4>3. After(tasks'[i], user[i].line - 1)
        BY <4>1, <4>2, AfterKept
      <4>4. QED BY <1>13, <2>1, <4>3
    <3>3. user'[i].line \in 1 .. (Lines + 1) /\ ~(user'[i].line <= Lines)
      BY <1>1, <1>3, <1>13, <2>1 DEF ScriptInv
    <3>4. user'[i].at \in {"probe", "exit"} /\ tasks'[i].reported
      BY <1>11, <1>12, <1>13, <2>1
    <3>5. ScriptInv(i)'
      BY <3>1, <3>2, <3>3, <3>4 DEF ScriptInv
    <3>6. LoopInv(i)'
      BY <1>1, <1>3, <1>9, <1>13, <2>1 DEF LoopInv
    <3>7. QED BY <3>5, <3>6
  <2>2. CASE i # current
    <3>1. tasks'[i] = tasks[i] /\ user'[i] = user[i] /\ data'[i] = data[i]
      BY <1>9, <1>12, <1>13, <2>2
    <3>2. SameCounts(tasks[i], tasks'[i])
      BY <3>1 DEF SameCounts
    <3>3. ScriptInv(i)'
      BY <1>9, <3>1, <3>2, ScriptKept DEF UserInv
    <3>4. QED BY <1>9, <2>2, <3>1, <3>3, OtherLoop
  <2>3. QED BY <2>1, <2>2
<1>16. TogetherInv' /\ AloneInv'
  <2>1. CASE current = 1
    <3>1. user'[0] = user[0] /\ tasks'[0] = tasks[0] /\ user'[1].at = "exit"
          /\ tasks'[1].slices = tasks[1].slices
      BY <1>6, <1>8, <1>11, <1>12, <1>13, <2>1 DEF T
    <3>2. QED BY <1>5, <1>9, <2>1, <3>1, TogetherByOne, AloneByOne
  <2>2. CASE current = 0
    <3>1. tasks[0].alive
      BY <2>2 DEF UserInv, AloneInv
    <3>2. /\ user[0].start % 2 = 0 /\ user[0].start <= 12 /\ ticks <= user[0].start + 12
          /\ ticks = user[0].start + 12 /\ steps <= 1
      BY <1>1, <1>3, <2>2, <3>1 DEF UserInv, TogetherInv, T
    <3>3. steps' <= 2
      BY <1>2, <1>9, <3>2, StepEffect
    <3>4. /\ user'[1] = user[1] /\ tasks'[1] = tasks[1]
          /\ user'[0].at = "probe" /\ user'[0].start = user[0].start
          /\ tasks'[0].slices = tasks[0].slices /\ tasks'[0].alive = tasks[0].alive
          /\ tasks'[0].fault_seen = tasks[0].fault_seen
      BY <1>6, <1>8, <1>11, <1>12, <1>13, <2>2 DEF T
    <3>5. QED BY <1>9, <2>2, <3>2, <3>3, <3>4, TogetherByZero
  <2>3. QED BY <1>2, <2>1, <2>2 DEF T
<1>17. Needed' = Needed
  BY <1>9 DEF Needed, Owned, Spaces, SpaceOf
<1>18. tasks'[1].alive /\ ~tasks'[1].fault_seen
  BY <1>2, <1>6, <1>11, <1>12 DEF UserInv, T
<1>19. QED BY <1>9, <1>14, <1>15, <1>16, <1>17, <1>18 DEF UserInv

\* The fault: it is task 0's, after its report, and the other task goes on.
LEMMA FaultStep ==
  ASSUME RunTyped, level >= 4, UserInv, user_fault
  PROVE  RunTyped' /\ UserInv' /\ UNCHANGED stopped
<1>1. user[current].at = "probe"
  BY DEF user_fault, At, me
<1>2. current \in T /\ ticks \in Nat /\ tasks[0] \in Task /\ user[0].start \in Nat
  BY DEF RunTyped, T
<1>3. current = 0 /\ tasks[0].alive
  BY <1>1, <1>2 DEF UserInv, TogetherInv, AloneInv, T
<1>4. ScriptInv(0) /\ LoopInv(0) /\ ~InScript(0) /\ tasks[0].reported
  BY <1>1, <1>3 DEF UserInv, InScript, T, ScriptInv
<1>5. /\ ticks = user[0].start + 12 /\ user[0].start % 2 = 0 /\ ticks % 2 = 0
      /\ tasks[0].slices = (ticks + 1) \div 2 /\ tasks[1].slices = ticks \div 2
      /\ user[1].at \in {"script", "start", "loop"}
  BY <1>1, <1>3, <1>4 DEF UserInv, TogetherInv, T
<1>6. tasks[0].slices >= 2 /\ tasks[1].slices >= 2
  BY <1>2, <1>5
<1>7. PICK t \in Task : t = tasks[0]
  BY <1>2
<1>8. PICK u : /\ u = [t EXCEPT !.fault_seen = TRUE]
               /\ Turned(t, u, t.alive, t.reported, TRUE, t.counter, t.slices)
  BY TaskChanges
<1>9. u \in Task
  BY <1>8 DEF Turned
<1>10. PICK v : /\ v = [u EXCEPT !.alive = FALSE]
                /\ Turned(u, v, FALSE, u.reported, u.fault_seen, u.counter, u.slices)
  BY <1>9, TaskChanges
<1>11. /\ v \in Task /\ SameCounts(t, v) /\ ~v.alive /\ v.fault_seen
       /\ v.reported = t.reported /\ v.slices = t.slices
  BY <1>8, <1>10 DEF Turned, SameCounts
<1>12. PICK after : after = [tasks EXCEPT ![0] = v]
  OBVIOUS
<1>13. /\ after \in [T -> Task] /\ after[0] = v /\ after[1] = tasks[1]
  BY <1>11, <1>12 DEF RunTyped, T
<1>14. PICK ts : ts = [tasks EXCEPT ![0] = u] /\ task_exit(ts)
  <2>1. task_exit([tasks EXCEPT ![current].fault_seen = TRUE])
    BY <1>3, <1>4 DEF user_fault
  <2>2. [tasks EXCEPT ![current].fault_seen = TRUE] = [tasks EXCEPT ![0] = u]
    BY <1>3, <1>7, <1>8
  <2>3. QED BY <2>1, <2>2
<1>15. [ts EXCEPT ![current] = Stopped(@)] = after
  <2>1. ts \in [T -> Task] /\ ts[0] = u
    BY <1>9, <1>14 DEF RunTyped, T
  <2>2. [ts EXCEPT ![0] = Stopped(u)] = after
    BY <1>10, <1>12, <1>14 DEF RunTyped, Stopped, T
  <2>3. QED BY <1>3, <2>1, <2>2
<1>16. after[Other].alive
  BY <1>3, <1>13 DEF Other, UserInv
<1>17. /\ tasks' = after /\ current' = 1 /\ Step
       /\ UNCHANGED <<level, ticks, data, free, initial_free, stopped, user>>
  <2>1. Other = 1
    BY <1>3 DEF Other
  <2>2. /\ tasks' = after /\ current' = Other /\ Step
        /\ UNCHANGED <<level, ticks, data, free, initial_free, stopped, user>>
    BY <1>14, <1>15, <1>16 DEF task_exit
  <2>3. QED BY <2>1, <2>2
<1>18. RunTyped'
  BY <1>13, <1>17, StepEffect DEF RunTyped, T
<1>19. \A i \in T : SameCounts(tasks[i], tasks'[i]) /\ tasks'[i].reported = tasks[i].reported
  BY <1>7, <1>11, <1>13, <1>17 DEF T, SameCounts
<1>20. ASSUME NEW i \in T PROVE ScriptInv(i)' /\ LoopInv(i)'
  <2>1. ScriptInv(i)'
    BY <1>17, <1>19, ScriptKept DEF UserInv
  <2>2. CASE i = 0
    BY <1>1, <1>3, <1>4, <1>17, <2>1, <2>2 DEF LoopInv
  <2>3. CASE i = 1
    BY <1>3, <1>17, <2>1, <2>3, OtherLoop
  <2>4. QED BY <2>2, <2>3 DEF T
<1>21. TogetherInv' /\ AloneInv'
  BY <1>1, <1>3, <1>5, <1>6, <1>7, <1>11, <1>13, <1>17 DEF TogetherInv, AloneInv
<1>22. Needed' = Needed
  BY <1>17 DEF Needed, Owned, Spaces, SpaceOf
<1>23. QED BY <1>13, <1>17, <1>18, <1>20, <1>21, <1>22 DEF UserInv

\* What user_complete requires of a task that is through its script.
LEMMA ScriptObserved ==
  ASSUME NEW t \in Task, After(t, Lines), t.reported, t.slices >= 2
  PROVE  Observed(t)
<1>1. CASE level >= 5
  <2>1. Lines = 27
    BY <1>1 DEF Lines
  <2>2. CountsAfter(t, 27) /\ SlotsAfter(t.files, 27)
    BY <2>1 DEF After
  <2>3. /\ t.user_seen /\ t.rejected_pointers = 5 /\ t.rejected_calls = 1 /\ t.files_opened = 3
        /\ t.bytes_read = 18 /\ t.eof_reads = 2 /\ t.file_errors = 6
    BY <2>2 DEF CountsAfter, Past
  <2>4. ~t.files[0].used /\ ~t.files[1].used
    BY <2>2 DEF SlotsAfter
  <2>5. QED BY <2>3, <2>4 DEF Observed
<1>2. CASE ~(level >= 5)
  <2>1. Lines = 6
    BY <1>2 DEF Lines
  <2>2. CountsAfter(t, 6)
    BY <2>1 DEF After
  <2>3. t.user_seen /\ t.rejected_pointers = 3 /\ t.rejected_calls = 1
    BY <2>2 DEF CountsAfter, Past
  <2>4. QED BY <1>2, <2>3 DEF Observed
<1>3. QED BY <1>1, <1>2

\* The survivor's exit: every check of user_complete holds, and all pages
\* come back.
LEMMA ExitStep ==
  ASSUME RunTyped, level >= 4, UserInv, sys_exit
  PROVE  stopped' = "intentional stop"
<1>1. user[current].at = "exit"
  BY DEF sys_exit, At, me
<1>2. current \in T /\ tasks \in [T -> Task]
  BY DEF RunTyped
<1>3. current = 1 /\ ~tasks[0].alive
  BY <1>1, <1>2 DEF UserInv, TogetherInv, AloneInv, T
<1>4. /\ user[0].at = "probe" /\ user[1].at = "exit"
      /\ tasks[0].slices >= 2 /\ tasks[1].slices >= 2
      /\ tasks[0].fault_seen /\ ~tasks[1].fault_seen
  BY <1>1, <1>3 DEF UserInv, AloneInv
<1>5. ASSUME NEW i \in T PROVE Observed(tasks[i])
  <2>1. ScriptInv(i) /\ user[i].at \in {"probe", "exit"} /\ user[i].line \in Nat
    BY <1>4 DEF UserInv, T, RunTyped
  <2>2. user[i].line - 1 = Lines
    <3>1. PICK lines \in {6, 27} : lines = Lines
      BY LinesFacts
    <3>2. user[i].line \in 1 .. (lines + 1) /\ ~(user[i].line <= lines)
      BY <2>1, <3>1 DEF ScriptInv
    <3>3. QED BY <2>1, <3>1, <3>2
  <2>3. After(tasks[i], Lines) /\ tasks[i].reported
    BY <2>1, <2>2 DEF ScriptInv
  <2>4. QED BY <1>2, <1>4, <2>3, ScriptObserved DEF T
<1>6. Isolated
  <2>1. SUFFICES ASSUME level >= 6 PROVE Isolated
    BY DEF Isolated
  <2>2. SpaceOf(0) = 0 /\ SpaceOf(1) = 1
    BY <2>1 DEF SpaceOf
  <2>3. \A i \in T : data[i].marker = i /\ 1 \in data[i].moved
    BY <1>4, <2>1 DEF UserInv, LoopInv, InScript, T
  <2>4. QED BY <2>2, <2>3 DEF Isolated, T
<1>7. PICK t \in Task : t = tasks[1]
  BY <1>2 DEF T
<1>8. PICK u : /\ u = [t EXCEPT !.alive = FALSE]
               /\ Turned(t, u, FALSE, t.reported, t.fault_seen, t.counter, t.slices)
  BY TaskChanges
<1>9. u \in Task /\ SameCounts(t, u) /\ u.reported = t.reported
      /\ u.fault_seen = t.fault_seen /\ u.slices = t.slices
  BY <1>8 DEF Turned
<1>10. PICK after : after = [tasks EXCEPT ![1] = u]
  OBVIOUS
<1>11. after[0] = tasks[0] /\ after[1] = u
  BY <1>2, <1>10 DEF T
<1>12. Observed(u)
  BY <1>5, <1>7, <1>9 DEF Observed, SameCounts, T
<1>13. [tasks EXCEPT ![current] = Stopped(@)] = after
  BY <1>2, <1>3, <1>7, <1>8, <1>10 DEF Stopped, T
<1>14. user_complete(after)
  <2>1. task_exit(tasks)
    BY DEF sys_exit
  <2>2. ~after[Other].alive
    BY <1>3, <1>11 DEF Other
  <2>3. QED BY <1>13, <2>1, <2>2 DEF task_exit
<1>15. /\ \A i \in T : Observed(after[i])
       /\ after[0].fault_seen /\ ~after[1].fault_seen
  BY <1>4, <1>5, <1>7, <1>9, <1>11, <1>12 DEF T
<1>16. level \in 3 .. 6 /\ initial_free \in Nat
  BY DEF RunTyped
<1>17. RootAtCleanup \notin Spaces
  BY <1>16, NeededFacts DEF RootAtCleanup
<1>18. free + Tables * Cardinality(Spaces) + Owned = initial_free
  <2>1. PICK p \in Nat, o \in Nat : p = Tables * Cardinality(Spaces) /\ o = Owned /\ Needed = o + p
    BY <1>16, NeededFacts
  <2>2. free = initial_free - (o + p)
    BY <2>1 DEF UserInv
  <2>3. free + p + o = initial_free
    BY <1>16, <2>2
  <2>4. QED BY <2>1, <2>3
<1>19. QED BY <1>6, <1>14, <1>15, <1>17, <1>18 DEF user_complete

-----------------------------------------------------------------------------
(* The invariant is inductive.                                             *)

\* The kernel and the pages it started with stay what they are.
LEMMA LevelKept ==
  ASSUME [TwoTaskNext]_twoTaskVars
  PROVE  UNCHANGED <<level, initial_free>>
<1>1. ASSUME NEW why, Panic(why) PROVE UNCHANGED <<level, initial_free>>
  BY <1>1 DEF Panic
<1>2. CASE task_start
  BY <1>1, <1>2 DEF task_start
<1>3. CASE task_tick
  BY <1>1, <1>3 DEF task_tick
<1>4. CASE count_forever
  BY <1>4 DEF count_forever
<1>5. CASE script_call
  BY <1>1, <1>5 DEF script_call
<1>6. CASE start_loop
  BY <1>6 DEF start_loop
<1>7. CASE timed_loop
  BY <1>1, <1>7 DEF timed_loop
<1>8. CASE report
  BY <1>1, <1>8 DEF report
<1>9. ASSUME NEW ts, task_exit(ts) PROVE UNCHANGED <<level, initial_free>>
  <2>1. ASSUME NEW after, user_complete(after) PROVE UNCHANGED <<level, initial_free>>
    BY <1>1, <2>1 DEF user_complete
  <2>2. QED BY <1>9, <2>1 DEF task_exit
<1>10. CASE user_fault
  BY <1>1, <1>9, <1>10 DEF user_fault
<1>11. CASE sys_exit
  BY <1>9, <1>11 DEF sys_exit
<1>12. CASE UNCHANGED twoTaskVars
  BY <1>12 DEF twoTaskVars
<1>13. QED BY <1>2, <1>3, <1>4, <1>5, <1>6, <1>7, <1>8, <1>10, <1>11, <1>12
           DEF TwoTaskNext, Program, Halted

\* Where a program is tells which of its steps can be taken.
LEMMA ProgramPlaces ==
  ASSUME Program
  PROVE  stopped = "no" /\ user[current].at # "count"
<1>1. ASSUME NEW where, At(where) PROVE stopped = "no" /\ user[current].at = where
  BY <1>1 DEF At, me, Running
<1>2. \/ At("script") \/ At("start") \/ At("loop")
      \/ At("report") \/ At("probe") \/ At("exit")
  BY DEF Program, script_call, start_loop, timed_loop, report, user_fault, sys_exit
<1>3. QED BY <1>1, <1>2

\* A step from a state of the two programs.
LEMMA UserStep ==
  ASSUME RunTyped, level >= 4, UserInv, stopped = "no", TwoTaskNext
  PROVE  (RunTyped' /\ UserInv' /\ stopped' = "no") \/ stopped' = "intentional stop"
<1>1. ~task_start /\ ~Halted
  BY DEF task_start, Halted
<1>2. ~count_forever
  BY DEF count_forever, UserInv, ScriptInv, RunTyped
<1>3. CASE task_tick
  BY <1>3, UserTick
<1>4. CASE script_call
  BY <1>4, ScriptStep
<1>5. CASE start_loop
  BY <1>5, LoopBegins
<1>6. CASE timed_loop
  BY <1>6, LoopStep
<1>7. CASE report
  BY <1>7, ReportStep
<1>8. CASE user_fault
  BY <1>8, FaultStep
<1>9. CASE sys_exit
  BY <1>9, ExitStep
<1>10. QED BY <1>1, <1>2, <1>3, <1>4, <1>5, <1>6, <1>7, <1>8, <1>9 DEF TwoTaskNext, Program

\* A step from a state of the two counters of M3.
LEMMA CountingStep ==
  ASSUME RunTyped, level = 3, Counting, stopped = "no", TwoTaskNext
  PROVE  (RunTyped' /\ Counting' /\ stopped' = "no") \/ stopped' = "intentional stop"
<1>1. ~task_start /\ ~Halted
  BY DEF task_start, Halted
<1>2. ~Program
  BY ProgramPlaces DEF Counting, RunTyped
<1>3. CASE task_tick
  BY <1>3, CountTick
<1>4. CASE count_forever
  <2>1. stopped' = "no"
    BY <1>4 DEF count_forever
  <2>2. QED BY <1>4, <2>1, CountStep
<1>5. QED BY <1>1, <1>2, <1>3, <1>4 DEF TwoTaskNext

\* Every step preserves the invariant.
LEMMA TwoTaskInductive ==
  ASSUME TwoTaskInv, [TwoTaskNext]_twoTaskVars
  PROVE  TwoTaskInv'
<1>1. SUFFICES ASSUME EnoughMemory' PROVE TwoTaskInv'
  BY DEF TwoTaskInv
<1>2. level' = level /\ EnoughMemory
  <2>1. UNCHANGED <<level, initial_free>>
    BY LevelKept
  <2>2. Needed' = Needed
    BY <2>1 DEF Needed, Owned, Spaces, SpaceOf
  <2>3. QED BY <1>1, <2>1, <2>2 DEF EnoughMemory
<1>3. CASE UNCHANGED twoTaskVars
  <2>1. (RunTyped' <=> RunTyped) /\ (Starting' <=> Starting) /\ stopped' = stopped
    BY <1>3 DEF twoTaskVars, RunTyped, Starting
  <2>2. Counting' <=> Counting
    BY <1>3 DEF twoTaskVars, Counting
  <2>3. UserInv' <=> UserInv
    BY <1>3 DEF twoTaskVars, UserInv, ScriptInv, LoopInv, TogetherInv, AloneInv, Lines,
                InScript, SliceShare, Needed, Owned, Spaces, SpaceOf
  <2>4. QED BY <1>2, <2>1, <2>2, <2>3 DEF TwoTaskInv
<1>4. CASE TwoTaskNext
  <2>1. CASE stopped = "preparing" /\ RunTyped /\ Starting
    <3>1. ~task_tick /\ ~count_forever /\ ~Program /\ ~Halted
      BY <2>1, ProgramPlaces DEF task_tick, count_forever, Running, Halted
    <3>2. task_start
      BY <1>4, <3>1 DEF TwoTaskNext
    <3>3. level = 3 \/ level >= 4
      BY <2>1 DEF RunTyped
    <3>4. QED BY <1>2, <2>1, <3>2, <3>3, StartsStep DEF TwoTaskInv
  <2>2. CASE stopped = "no" /\ RunTyped /\ level = 3 /\ Counting
    BY <1>2, <1>4, <2>2, CountingStep DEF TwoTaskInv
  <2>3. CASE stopped = "no" /\ RunTyped /\ level >= 4 /\ UserInv
    BY <1>2, <1>4, <2>3, UserStep DEF TwoTaskInv
  <2>4. CASE stopped = "intentional stop"
    <3>1. ~task_start /\ ~task_tick /\ ~count_forever /\ ~Program
      BY <2>4, ProgramPlaces DEF task_start, task_tick, count_forever, Running
    <3>2. stopped' = stopped
      BY <1>4, <3>1 DEF TwoTaskNext, Halted, twoTaskVars
    <3>3. QED BY <2>4, <3>2 DEF TwoTaskInv
  <2>5. QED BY <1>2, <2>1, <2>2, <2>3, <2>4 DEF TwoTaskInv
<1>5. QED BY <1>3, <1>4

\* Wherever the timer interrupts task.c's two tasks, no check of the kernels
\* M3 to M6 or of user/program.c fails: each ends only in its intentional
\* stop, for every length of a slice that holds four calls.
THEOREM OnlyIntentionalStopCorrect == TwoTaskSpec => []OnlyIntentionalStop
<1>1. TwoTaskInv => OnlyIntentionalStop
  BY DEF TwoTaskInv, OnlyIntentionalStop
<1>2. QED BY <1>1, TwoTaskInitial, TwoTaskInductive, PTL DEF TwoTaskSpec
=============================================================================
