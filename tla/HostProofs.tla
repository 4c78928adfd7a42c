----------------------------- MODULE HostProofs -----------------------------
(***************************************************************************)
(* tools/linux.py and the packagers, for every choice of stages, cases and *)
(* guest sizes and any number of commands, edits and interruptions: what a *)
(* verdict rests on, what a command boots, what setup repairs, where the   *)
(* probe stays, and what a package starts.                                 *)
(*                                                                         *)
(* The argument has three parts.  What a command does is a sequence of     *)
(* steps, of which only neighbours matter: a step that needs something     *)
(* comes right after one that provides it (After, Runs).  Promise says     *)
(* what a command may count on when it comes to a step.  HostInv adds what *)
(* remains true between commands.                                          *)
(***************************************************************************)
EXTENDS Package, SequenceFacts

-----------------------------------------------------------------------------
(* The types, and the programs as the proofs see them.                     *)

Names  == {"setup", "prepare", "doctor", "build", "run", "lab", "check"}
Cases  == [place : Places, stage : Stages, fault : {1} \cup ToSet(FaultCases),
           attack : {0} \cup ToSet(AttackCases), memory : ToSet(Memories)]
Marks  == {"entered", "depths", "attack", "fault", "passed", "panic", "stop"} \X (0 .. LAB)
Origin == [version : 0 .. MaxVersion, patched : BOOLEAN]
Kernels == [whole : BOOLEAN, stage : 0 .. LAB, fault : 0 .. 7, attack : 0 .. 5,
            sources : Origin, by : 0 .. MaxCommands]
Images == [whole : BOOLEAN, kernel : Kernels, loader : {"absent", "torn", "good"}, padded : BOOLEAN]

-----------------------------------------------------------------------------
(* The programs.                                                           *)

SerialWords == {"reset", "popen", "watch", "stop", "verdict", "depths"}
ImageWords  == SerialWords \cup {"compare", "lab"}
FreeWords   == {"doctor", "check_qemu", "copy", "patch"}
BuildWords  == ImageWords \cup {"guard", "user", "link", "inspect", "write", "pad"} \cup FreeWords
SetupWords  == {"check_qemu", "venv", "cached", "download", "doctor"} \cup Assets
Busy        == {"popen", "watch"}       \* QEMU runs after these

Step(what, c) == [do |-> what, of |-> c]

\* The steps of the commands that leave the loader alone, and of the others.
BuildSteps == {s \in [do : BuildWords, of : Cases] : s.do \in SerialWords => s.of.place = "project"}
SetupSteps == [do : SetupWords, of : Cases]

\* The same kernel is asked for, whatever the memory of the guest.
SameKernelAs(c, d) ==
  c.place = d.place /\ c.stage = d.stage /\ c.fault = d.fault /\ c.attack = d.attack

\* Steps that need nothing of the step before.
Opens(s) == \/ s.do \in SetupWords \cup FreeWords
            \/ s.do = "guard" /\ s.of.place = "project"

\* Step s may come right after step t.
After(t, s) ==
  \/ Opens(s) /\ t.do \notin Busy
  \/ SameKernelAs(t.of, s.of) /\ s.do = "reset" /\ t.do \in {"compare", "verdict", "depths"}
  \/ /\ t.of = s.of
     /\ \/ t.do = "patch"   /\ s.do = "guard"
        \/ t.do = "guard"   /\ s.do \in {"user", "link"}
        \/ t.do = "user"    /\ s.do = "link"
        \/ t.do = "link"    /\ s.do = "inspect"
        \/ t.do = "inspect" /\ s.do = "write"
        \/ t.do = "write"   /\ s.do = "pad"
        \/ t.do = "pad"     /\ s.do = "compare"
        \/ t.do \in {"compare", "lab"} /\ s.do = "lab"
        \/ t.do = "reset"   /\ s.do = "popen"
        \/ t.do = "popen"   /\ s.do = "watch"
        \/ t.do = "watch"   /\ s.do = "stop"
        \/ t.do = "stop"    /\ s.do = "verdict"
        \/ t.do = "verdict" /\ s.do = "depths"

\* p is a program of steps in S from step s to step t.
Runs(S, p, s, t) ==
  /\ p \in Seq(S) /\ Len(p) > 0 /\ p[1] = s /\ p[Len(p)] = t
  /\ \A k \in 2 .. Len(p) : After(p[k - 1], p[k])

\* A single step is a program.
LEMMA RunsDo ==
  ASSUME NEW S, NEW w, NEW c, Step(w, c) \in S
  PROVE  Runs(S, Do(w, c), Step(w, c), Step(w, c))
BY DEF Runs, Do, Step

\* Two programs make one if the second may come after the first.
LEMMA RunsJoin ==
  ASSUME NEW S, NEW p, NEW q, NEW s, NEW t, NEW u, NEW v,
         Runs(S, p, s, t), Runs(S, q, u, v), After(t, u)
  PROVE  Runs(S, p \o q, s, v)
<1> DEFINE m == Len(p)
           n == Len(q)
           r == p \o q
<1>1. /\ p \in Seq(S) /\ q \in Seq(S) /\ m \in Nat /\ n \in Nat /\ m > 0 /\ n > 0
      /\ p[1] = s /\ p[m] = t /\ q[1] = u /\ q[n] = v
      /\ \A k \in 2 .. m : After(p[k - 1], p[k])
      /\ \A k \in 2 .. n : After(q[k - 1], q[k])
  BY DEF Runs
<1>2. /\ r \in Seq(S) /\ Len(r) = m + n
      /\ \A i \in 1 .. (m + n) : r[i] = IF i <= m THEN p[i] ELSE q[i - m]
  BY <1>1, ConcatProperties
<1> HIDE DEF m, n, r
<1>3. r[1] = s /\ r[m + n] = v
  <2>1. 1 \in 1 .. (m + n) /\ m + n \in 1 .. (m + n) /\ 1 <= m /\ ~(m + n <= m) /\ (m + n) - m = n
    BY <1>1
  <2>2. QED BY <1>1, <1>2, <2>1
<1>4. ASSUME NEW k \in 2 .. (m + n) PROVE After(r[k - 1], r[k])
  <2>1. k \in 1 .. (m + n) /\ k - 1 \in 1 .. (m + n)
    BY <1>1
  <2>2. CASE k <= m
    <3>1. r[k] = p[k] /\ r[k - 1] = p[k - 1] /\ k \in 2 .. m
      BY <1>1, <1>2, <2>1, <2>2
    <3>2. QED BY <1>1, <3>1
  <2>3. CASE k = m + 1
    <3>1. r[k] = q[1] /\ r[k - 1] = p[m]
      BY <1>1, <1>2, <2>1, <2>3
    <3>2. QED BY <1>1, <3>1
  <2>4. CASE k > m + 1
    <3>1. k - m \in 2 .. n /\ (k - 1) - m = (k - m) - 1 /\ ~(k <= m) /\ ~(k - 1 <= m)
      BY <1>1, <2>4
    <3>2. r[k] = q[k - m] /\ r[k - 1] = q[(k - m) - 1]
      BY <1>2, <2>1, <3>1
    <3>3. QED BY <1>1, <3>1, <3>2
  <2>5. QED BY <1>1, <2>2, <2>3, <2>4
<1>5. QED BY <1>1, <1>2, <1>3, <1>4 DEF Runs, r

\* The values of the constants.
LEMMA Values ==
  /\ M6 \in Stages /\ LAB \in Stages /\ Stages \subseteq 0 .. 7 /\ M6 = 6 /\ LAB = 7
  /\ Memory0 \in ToSet(Memories)
  /\ ToSet(FaultCases) \subseteq 2 .. 7 /\ ToSet(AttackCases) \subseteq 1 .. 5
  /\ Plain(LAB, Memory0) \in Options /\ Options \subseteq Labels
  /\ Options \subseteq Cases /\ \A c \in Options : c.place = "project"
<1>1. ToSet(Levels) \subseteq 0 .. 6 /\ ToSet(FaultCases) \subseteq 2 .. 7 /\ ToSet(AttackCases) \subseteq 1 .. 5
  BY HostAssumption DEF ToSet
<1>2. Memory0 \in ToSet(Memories)
  BY HostAssumption DEF ToSet, Memory0
<1>3. M6 \in Stages /\ LAB \in Stages /\ Stages \subseteq 0 .. 7
  BY <1>1 DEF Stages, M6, LAB
<1>4. Options \subseteq Labels
  BY DEF Options, Labels, Case
<1>5. Options \subseteq Cases /\ \A c \in Options : c.place = "project"
  BY <1>4 DEF Labels, Cases, Places
<1>6. Plain(LAB, Memory0) \in Options
  BY <1>2, <1>3 DEF Options, Plain
<1>7. QED BY <1>1, <1>2, <1>3, <1>4, <1>5, <1>6 DEF M6, LAB

\* build and image: from the options to the comparison.
LEMMA MadeRuns ==
  ASSUME NEW c \in Cases
  PROVE  Runs(BuildSteps, Made(c), Step("guard", c), Step("compare", c))
<1> DEFINE B(w) == Runs(BuildSteps, Do(w, c), Step(w, c), Step(w, c))
<1>1. \A w \in {"guard", "user", "link", "inspect", "write", "pad", "compare"} : Step(w, c) \in BuildSteps
  BY DEF Step, BuildSteps, BuildWords, ImageWords, SerialWords
<1>2. B("guard") /\ B("user") /\ B("link") /\ B("inspect") /\ B("write") /\ B("pad") /\ B("compare")
  BY <1>1, RunsDo
<1>3. /\ After(Step("guard", c), Step("user", c)) /\ After(Step("guard", c), Step("link", c))
      /\ After(Step("user", c), Step("link", c)) /\ After(Step("link", c), Step("inspect", c))
      /\ After(Step("inspect", c), Step("write", c)) /\ After(Step("write", c), Step("pad", c))
      /\ After(Step("pad", c), Step("compare", c))
  BY DEF After, Step
<1>4. Runs(BuildSteps, Build(c), Step("guard", c), Step("inspect", c))
  <2>1. CASE c.stage >= 4
    <3>1. Build(c) = ((Do("guard", c) \o Do("user", c)) \o Do("link", c)) \o Do("inspect", c)
      BY <2>1 DEF Build
    <3>2. Runs(BuildSteps, Do("guard", c) \o Do("user", c), Step("guard", c), Step("user", c))
      BY <1>2, <1>3, RunsJoin
    <3>3. Runs(BuildSteps, (Do("guard", c) \o Do("user", c)) \o Do("link", c), Step("guard", c), Step("link", c))
      BY <1>2, <1>3, <3>2, RunsJoin
    <3>4. QED BY <1>2, <1>3, <3>1, <3>3, RunsJoin
  <2>2. CASE ~(c.stage >= 4)
    <3>1. Build(c) = (Do("guard", c) \o Do("link", c)) \o Do("inspect", c)
      <4>1. Do("guard", c) \in Seq(BuildSteps)
        BY <1>2 DEF Runs
      <4>2. Do("guard", c) \o << >> = Do("guard", c)
        BY <4>1, ConcatEmptySeq
      <4>3. QED BY <2>2, <4>2 DEF Build
    <3>2. Runs(BuildSteps, Do("guard", c) \o Do("link", c), Step("guard", c), Step("link", c))
      BY <1>2, <1>3, RunsJoin
    <3>3. QED BY <1>2, <1>3, <3>1, <3>2, RunsJoin
  <2>3. QED BY <2>1, <2>2
<1>5. Runs(BuildSteps, Image(c), Step("write", c), Step("compare", c))
  <2>1. Runs(BuildSteps, Do("write", c) \o Do("pad", c), Step("write", c), Step("pad", c))
    BY <1>2, <1>3, RunsJoin
  <2>2. QED BY <1>2, <1>3, <2>1, RunsJoin DEF Image
<1>6. QED BY <1>3, <1>4, <1>5, RunsJoin DEF Made

\* serial_check, from the empty log to the verdict.
LEMMA SerialRuns ==
  ASSUME NEW c \in Cases, c.place = "project"
  PROVE  Runs(BuildSteps, Serial(c), Step("reset", c), Step("verdict", c))
<1> DEFINE B(w) == Runs(BuildSteps, Do(w, c), Step(w, c), Step(w, c))
<1>1. \A w \in SerialWords : Step(w, c) \in BuildSteps
  BY DEF Step, BuildSteps, BuildWords, ImageWords, SerialWords
<1>2. B("reset") /\ B("popen") /\ B("watch") /\ B("stop") /\ B("verdict")
  BY <1>1, RunsDo DEF SerialWords
<1>3. /\ After(Step("reset", c), Step("popen", c)) /\ After(Step("popen", c), Step("watch", c))
      /\ After(Step("watch", c), Step("stop", c)) /\ After(Step("stop", c), Step("verdict", c))
  BY DEF After, Step
<1>4. Runs(BuildSteps, Do("reset", c) \o Do("popen", c), Step("reset", c), Step("popen", c))
  BY <1>2, <1>3, RunsJoin
<1>5. Runs(BuildSteps, Do("reset", c) \o Do("popen", c) \o Do("watch", c), Step("reset", c), Step("watch", c))
  BY <1>2, <1>3, <1>4, RunsJoin
<1>6. Runs(BuildSteps, Do("reset", c) \o Do("popen", c) \o Do("watch", c) \o Do("stop", c),
           Step("reset", c), Step("stop", c))
  BY <1>2, <1>3, <1>5, RunsJoin
<1>7. QED BY <1>2, <1>3, <1>6, RunsJoin DEF Serial

\* Programs that may come after any other, and end at a quiet step.
Anywhere == {p \in Seq(BuildSteps) :
               p = << >> \/ \E s, t \in BuildSteps : Runs(BuildSteps, p, s, t) /\ Opens(s) /\ t.do \notin Busy}

\* The first and the last step of a program are steps of it.
LEMMA RunsEnds ==
  ASSUME NEW S, NEW p, NEW s, NEW t, Runs(S, p, s, t)
  PROVE  p \in Seq(S) /\ s \in S /\ t \in S
<1>1. p \in Seq(S) /\ Len(p) \in Nat /\ Len(p) > 0 /\ p[1] = s /\ p[Len(p)] = t
  BY DEF Runs
<1>2. 1 \in 1 .. Len(p) /\ Len(p) \in 1 .. Len(p)
  BY <1>1
<1>3. QED BY <1>1, <1>2

\* Such programs can be put together, and begin with the first step.
LEMMA AnywhereJoin ==
  ASSUME NEW p, NEW q \in Anywhere, NEW s, NEW t, Runs(BuildSteps, p, s, t), t.do \notin Busy
  PROVE  \E v \in BuildSteps : Runs(BuildSteps, p \o q, s, v) /\ v.do \notin Busy
<1>1. CASE q = << >>
  <2>1. p \in Seq(BuildSteps) /\ t \in BuildSteps
    BY RunsEnds
  <2>2. p \o q = p
    BY <1>1, <2>1, ConcatEmptySeq
  <2>3. QED BY <2>1, <2>2
<1>2. CASE q # << >>
  <2>1. PICK u, v \in BuildSteps : Runs(BuildSteps, q, u, v) /\ Opens(u) /\ v.do \notin Busy
    BY <1>2 DEF Anywhere
  <2>2. After(t, u)
    BY <2>1 DEF After
  <2>3. Runs(BuildSteps, p \o q, s, v)
    BY <2>1, <2>2, RunsJoin
  <2>4. QED BY <2>1, <2>3
<1>3. QED BY <1>1, <1>2

\* Anywhere is closed under concatenation.
LEMMA AnywhereClosed ==
  ASSUME NEW p \in Anywhere, NEW q \in Anywhere
  PROVE  p \o q \in Anywhere
<1>1. p \in Seq(BuildSteps) /\ q \in Seq(BuildSteps)
  BY DEF Anywhere
<1>2. p \o q \in Seq(BuildSteps)
  BY <1>1, ConcatProperties
<1>3. CASE p = << >>
  <2>1. p \o q = q
    BY <1>1, <1>3, ConcatEmptySeq
  <2>2. QED BY <2>1
<1>4. CASE p # << >>
  <2>1. PICK s, t \in BuildSteps : Runs(BuildSteps, p, s, t) /\ Opens(s) /\ t.do \notin Busy
    BY <1>4 DEF Anywhere
  <2>2. PICK v \in BuildSteps : Runs(BuildSteps, p \o q, s, v) /\ v.do \notin Busy
    BY <2>1, AnywhereJoin
  <2>3. QED BY <1>2, <2>1, <2>2 DEF Anywhere
<1>5. QED BY <1>3, <1>4

\* One program for each element of a sequence.
LEMMA AnywhereEach ==
  ASSUME NEW ss \in Seq(Anywhere)
  PROVE  FlattenSeq(ss) \in Anywhere
<1>1. << >> \in Anywhere
  BY DEF Anywhere
<1>2. \A p, q \in Anywhere : p \o q \in Anywhere
  BY AnywhereClosed
<1>3. QED BY <1>1, <1>2, Flattened

\* The boots of one kernel, for every memory.
Boots(c) ==
  {p \in Seq(BuildSteps) :
     p = << >> \/ \E s, t \in BuildSteps :
                    /\ Runs(BuildSteps, p, s, t)
                    /\ s.do = "reset" /\ SameKernelAs(c, s.of)
                    /\ t.do \in {"verdict", "depths"} /\ SameKernelAs(c, t.of)}

\* One boot and the next.
LEMMA BootsClosed ==
  ASSUME NEW c, NEW p \in Boots(c), NEW q \in Boots(c)
  PROVE  p \o q \in Boots(c)
<1>1. p \in Seq(BuildSteps) /\ q \in Seq(BuildSteps)
  BY DEF Boots
<1>2. p \o q \in Seq(BuildSteps)
  BY <1>1, ConcatProperties
<1>3. CASE p = << >>
  <2>1. p \o q = q
    BY <1>1, <1>3, ConcatEmptySeq
  <2>2. QED BY <2>1
<1>4. CASE q = << >>
  <2>1. p \o q = p
    BY <1>1, <1>4, ConcatEmptySeq
  <2>2. QED BY <2>1
<1>5. CASE p # << >> /\ q # << >>
  <2>1. PICK s, t \in BuildSteps :
          /\ Runs(BuildSteps, p, s, t) /\ s.do = "reset" /\ SameKernelAs(c, s.of)
          /\ t.do \in {"verdict", "depths"} /\ SameKernelAs(c, t.of)
    BY <1>5 DEF Boots
  <2>2. PICK u, v \in BuildSteps :
          /\ Runs(BuildSteps, q, u, v) /\ u.do = "reset" /\ SameKernelAs(c, u.of)
          /\ v.do \in {"verdict", "depths"} /\ SameKernelAs(c, v.of)
    BY <1>5 DEF Boots
  <2>3. After(t, u)
    BY <2>1, <2>2 DEF After, SameKernelAs
  <2>4. Runs(BuildSteps, p \o q, s, v)
    BY <2>1, <2>2, <2>3, RunsJoin
  <2>5. QED BY <1>2, <2>1, <2>2, <2>4 DEF Boots
<1>6. QED BY <1>3, <1>4, <1>5

\* The boots of a case are boots of its kernel.
LEMMA BootedRuns ==
  ASSUME NEW c \in Cases, c.place = "project"
  PROVE  Booted(c) \in Boots(c)
<1> DEFINE One(m) == Serial([c EXCEPT !.memory = m])
                     \o (IF c.attack = 3 THEN Do("depths", [c EXCEPT !.memory = m]) ELSE << >>)
           ss == [i \in DOMAIN Memories |-> One(Memories[i])]
<1>1. ASSUME NEW m \in ToSet(Memories) PROVE One(m) \in Boots(c)
  <2> DEFINE d == [c EXCEPT !.memory = m]
  <2>1. d \in Cases /\ d.place = "project" /\ SameKernelAs(c, d)
    BY DEF Cases, SameKernelAs
  <2> HIDE DEF d
  <2>2. Runs(BuildSteps, Serial(d), Step("reset", d), Step("verdict", d))
    BY <2>1, SerialRuns
  <2>3. \A w \in SerialWords : Step(w, d) \in BuildSteps
    BY <2>1 DEF Step, BuildSteps, BuildWords, ImageWords, SerialWords
  <2>4. CASE c.attack = 3
    <3>1. Runs(BuildSteps, Do("depths", d), Step("depths", d), Step("depths", d))
      BY <2>3, RunsDo DEF SerialWords
    <3>2. After(Step("verdict", d), Step("depths", d))
      BY DEF After, Step
    <3>3. Runs(BuildSteps, Serial(d) \o Do("depths", d), Step("reset", d), Step("depths", d))
      BY <2>2, <3>1, <3>2, RunsJoin
    <3>4. Serial(d) \o Do("depths", d) \in Boots(c)
      BY <2>1, <2>3, <3>3, RunsEnds DEF Boots, Step, SerialWords
    <3>5. QED BY <2>4, <3>4 DEF d
  <2>5. CASE c.attack # 3
    <3>1. Serial(d) \in Seq(BuildSteps)
      BY <2>2, RunsEnds
    <3>2. Serial(d) \o << >> = Serial(d)
      BY <3>1, ConcatEmptySeq
    <3>3. Serial(d) \in Boots(c)
      BY <2>1, <2>2, <2>3, <3>1 DEF Boots, Step, SerialWords
    <3>4. QED BY <2>5, <3>2, <3>3 DEF d
  <2>6. QED BY <2>4, <2>5
<1>2. ss \in Seq(Boots(c))
  <2>1. Len(Memories) \in Nat /\ DOMAIN Memories = 1 .. Len(Memories)
    BY HostAssumption
  <2>2. \A i \in 1 .. Len(Memories) : One(Memories[i]) \in Boots(c)
    BY <1>1, <2>1 DEF ToSet
  <2> HIDE DEF One
  <2>3. QED BY <2>1, <2>2, IsASeq
<1>3. Booted(c) = FlattenSeq(ss)
  BY DEF Booted, Each
<1> HIDE DEF ss
<1>4. << >> \in Boots(c)
  BY DEF Boots
<1>5. \A p, q \in Boots(c) : p \o q \in Boots(c)
  BY BootsClosed
<1>6. QED BY <1>2, <1>3, <1>4, <1>5, Flattened

\* One case of check.
LEMMA CheckedRuns ==
  ASSUME NEW c \in Cases, c.place = "project"
  PROVE  Checked(c) \in Anywhere
<1>1. Runs(BuildSteps, Made(c), Step("guard", c), Step("compare", c))
  BY MadeRuns
<1>2. Opens(Step("guard", c)) /\ Step("compare", c).do = "compare" /\ Step("compare", c).of = c
  BY DEF Opens, Step
<1>3. Booted(c) \in Boots(c)
  BY BootedRuns
<1>4. CASE Booted(c) = << >>
  <2>1. Made(c) \in Seq(BuildSteps) /\ Step("guard", c) \in BuildSteps /\ Step("compare", c) \in BuildSteps
    BY <1>1, RunsEnds
  <2>2. Checked(c) = Made(c)
    BY <1>4, <2>1, ConcatEmptySeq DEF Checked
  <2>3. QED BY <1>1, <1>2, <2>1, <2>2 DEF Anywhere, Busy
<1>5. CASE Booted(c) # << >>
  <2>1. PICK s, t \in BuildSteps :
          /\ Runs(BuildSteps, Booted(c), s, t) /\ s.do = "reset" /\ SameKernelAs(c, s.of)
          /\ t.do \in {"verdict", "depths"}
    BY <1>3, <1>5 DEF Boots
  <2>2. After(Step("compare", c), s)
    BY <1>2, <2>1 DEF After
  <2>3. Runs(BuildSteps, Checked(c), Step("guard", c), t)
    BY <1>1, <2>1, <2>2, RunsJoin DEF Checked
  <2>4. Checked(c) \in Seq(BuildSteps) /\ Step("guard", c) \in BuildSteps
    BY <2>3, RunsEnds
  <2>5. QED BY <1>2, <2>1, <2>3, <2>4 DEF Anywhere, Busy
<1>6. QED BY <1>4, <1>5

\* check, from the doctor to the probe.
LEMMA CheckRuns ==
  \E t \in BuildSteps : /\ Runs(BuildSteps, check, Step("doctor", Plain(LAB, Memory0)), t)
                        /\ t.do \notin Busy
<1> DEFINE lab   == Plain(LAB, Memory0)
           probe == Case("fixture", LAB, 1, 0, Memory0)
           E1 == Each(Levels, LAMBDA s : Checked(Plain(s, Memory0)))
           E2 == Each(AttackCases, LAMBDA a : Checked(Case("project", M6, 1, a, Memory0)))
           E3 == Each(FaultCases, LAMBDA f : Checked(Case("project", M6, f, 0, Memory0)))
           p4 == Do("doctor", lab) \o E1 \o E2 \o E3
           p6 == p4 \o Made(Plain(M6, Memory0)) \o Made(lab)
           p9 == p6 \o Lab(lab) \o Lab(lab) \o Lab(lab)
           pb == p9 \o Do("copy", probe) \o Do("patch", probe)
<1>1. lab \in Cases /\ lab.place = "project" /\ probe \in Cases /\ Plain(M6, Memory0) \in Cases
      /\ Plain(M6, Memory0).place = "project"
  BY Values DEF Plain, Case, Cases, Places
<1>2. E1 \in Anywhere
  <2> DEFINE ss == [i \in DOMAIN Levels |-> Checked(Plain(Levels[i], Memory0))]
  <2>1. Len(Levels) \in Nat /\ DOMAIN Levels = 1 .. Len(Levels)
    BY HostAssumption
  <2>2. ASSUME NEW i \in 1 .. Len(Levels) PROVE Checked(Plain(Levels[i], Memory0)) \in Anywhere
    <3>1. Levels[i] \in Stages
      BY <2>1 DEF Stages, ToSet
    <3>2. Plain(Levels[i], Memory0) \in Cases /\ Plain(Levels[i], Memory0).place = "project"
      BY <3>1, Values DEF Plain, Case, Cases, Places
    <3>3. QED BY <3>2, CheckedRuns
  <2>3. ss \in Seq(Anywhere)
    BY <2>1, <2>2, IsASeq
  <2>4. E1 = FlattenSeq(ss)
    BY DEF Each
  <2> HIDE DEF ss, E1
  <2>5. QED BY <2>3, <2>4, AnywhereEach
<1>3. E2 \in Anywhere
  <2> DEFINE C(a) == Case("project", M6, 1, a, Memory0)
             ss == [i \in DOMAIN AttackCases |-> Checked(C(AttackCases[i]))]
  <2>1. Len(AttackCases) \in Nat /\ DOMAIN AttackCases = 1 .. Len(AttackCases)
    BY HostAssumption
  <2>2. ASSUME NEW i \in 1 .. Len(AttackCases) PROVE Checked(C(AttackCases[i])) \in Anywhere
    <3>1. AttackCases[i] \in ToSet(AttackCases)
      BY <2>1 DEF ToSet
    <3>2. C(AttackCases[i]) \in Cases /\ C(AttackCases[i]).place = "project"
      BY <3>1, Values DEF Case, Cases, Places
    <3>3. QED BY <3>2, CheckedRuns
  <2>3. ss \in Seq(Anywhere)
    BY <2>1, <2>2, IsASeq
  <2>4. E2 = FlattenSeq(ss)
    BY DEF Each
  <2> HIDE DEF ss, E2
  <2>5. QED BY <2>3, <2>4, AnywhereEach
<1>4. E3 \in Anywhere
  <2> DEFINE C(f) == Case("project", M6, f, 0, Memory0)
             ss == [i \in DOMAIN FaultCases |-> Checked(C(FaultCases[i]))]
  <2>1. Len(FaultCases) \in Nat /\ DOMAIN FaultCases = 1 .. Len(FaultCases)
    BY HostAssumption
  <2>2. ASSUME NEW i \in 1 .. Len(FaultCases) PROVE Checked(C(FaultCases[i])) \in Anywhere
    <3>1. FaultCases[i] \in ToSet(FaultCases)
      BY <2>1 DEF ToSet
    <3>2. C(FaultCases[i]) \in Cases /\ C(FaultCases[i]).place = "project"
      BY <3>1, Values DEF Case, Cases, Places
    <3>3. QED BY <3>2, CheckedRuns
  <2>3. ss \in Seq(Anywhere)
    BY <2>1, <2>2, IsASeq
  <2>4. E3 = FlattenSeq(ss)
    BY DEF Each
  <2> HIDE DEF ss, E3
  <2>5. QED BY <2>3, <2>4, AnywhereEach
<1>5. check = pb \o Made(probe) \o Lab(probe)
  BY DEF check
<1>6. /\ Step("doctor", lab) \in BuildSteps /\ Step("lab", lab) \in BuildSteps
      /\ Step("copy", probe) \in BuildSteps /\ Step("patch", probe) \in BuildSteps
      /\ Step("lab", probe) \in BuildSteps
  BY <1>1 DEF Step, BuildSteps, BuildWords, ImageWords, SerialWords, FreeWords
<1> HIDE DEF lab, probe, E1, E2, E3
<1>7. PICK t \in BuildSteps : Runs(BuildSteps, p4, Step("doctor", lab), t) /\ t.do \notin Busy
  <2>1. Runs(BuildSteps, Do("doctor", lab), Step("doctor", lab), Step("doctor", lab))
    BY <1>6, RunsDo
  <2>2. Step("doctor", lab).do \notin Busy
    BY DEF Step, Busy
  <2>3. PICK t1 \in BuildSteps : Runs(BuildSteps, Do("doctor", lab) \o E1, Step("doctor", lab), t1) /\ t1.do \notin Busy
    BY <1>2, <2>1, <2>2, AnywhereJoin
  <2>4. PICK t2 \in BuildSteps : Runs(BuildSteps, Do("doctor", lab) \o E1 \o E2, Step("doctor", lab), t2) /\ t2.do \notin Busy
    BY <1>3, <2>3, AnywhereJoin
  <2>5. QED BY <1>4, <2>4, AnywhereJoin
<1> HIDE DEF p4
<1>8. Runs(BuildSteps, p6, Step("doctor", lab), Step("compare", lab))
  <2> DEFINE m6 == Plain(M6, Memory0)
  <2>1. /\ Runs(BuildSteps, Made(m6), Step("guard", m6), Step("compare", m6))
        /\ Runs(BuildSteps, Made(lab), Step("guard", lab), Step("compare", lab))
    BY <1>1, MadeRuns
  <2>2. After(t, Step("guard", m6))
    BY <1>1, <1>7 DEF After, Opens, Step
  <2>3. After(Step("compare", m6), Step("guard", lab))
    BY <1>1 DEF After, Opens, Step, Busy
  <2> HIDE DEF m6
  <2>4. Runs(BuildSteps, p4 \o Made(m6), Step("doctor", lab), Step("compare", m6))
    BY <1>7, <2>1, <2>2, RunsJoin
  <2>5. Runs(BuildSteps, p4 \o Made(m6) \o Made(lab), Step("doctor", lab), Step("compare", lab))
    BY <2>1, <2>3, <2>4, RunsJoin
  <2>6. QED BY <2>5 DEF m6
<1> HIDE DEF p6
<1>9. Runs(BuildSteps, p9, Step("doctor", lab), Step("lab", lab))
  <2>1. Runs(BuildSteps, Lab(lab), Step("lab", lab), Step("lab", lab))
    BY <1>6, RunsDo DEF Lab
  <2>2. After(Step("compare", lab), Step("lab", lab)) /\ After(Step("lab", lab), Step("lab", lab))
    BY DEF After, Step
  <2>3. Runs(BuildSteps, p6 \o Lab(lab), Step("doctor", lab), Step("lab", lab))
    BY <1>8, <2>1, <2>2, RunsJoin
  <2>4. Runs(BuildSteps, p6 \o Lab(lab) \o Lab(lab), Step("doctor", lab), Step("lab", lab))
    BY <2>1, <2>2, <2>3, RunsJoin
  <2>5. QED BY <2>1, <2>2, <2>4, RunsJoin
<1> HIDE DEF p9
<1>10. Runs(BuildSteps, pb, Step("doctor", lab), Step("patch", probe))
  <2>1. /\ Runs(BuildSteps, Do("copy", probe), Step("copy", probe), Step("copy", probe))
        /\ Runs(BuildSteps, Do("patch", probe), Step("patch", probe), Step("patch", probe))
    BY <1>6, RunsDo
  <2>2. After(Step("lab", lab), Step("copy", probe)) /\ After(Step("copy", probe), Step("patch", probe))
    BY DEF After, Step, Opens, FreeWords, Busy
  <2>3. Runs(BuildSteps, p9 \o Do("copy", probe), Step("doctor", lab), Step("copy", probe))
    BY <1>9, <2>1, <2>2, RunsJoin
  <2>4. QED BY <2>1, <2>2, <2>3, RunsJoin
<1> HIDE DEF pb
<1>11. Runs(BuildSteps, check, Step("doctor", lab), Step("lab", probe))
  <2>1. Runs(BuildSteps, Made(probe), Step("guard", probe), Step("compare", probe))
    BY <1>1, MadeRuns
  <2>2. Runs(BuildSteps, Lab(probe), Step("lab", probe), Step("lab", probe))
    BY <1>6, RunsDo DEF Lab
  <2>3. After(Step("patch", probe), Step("guard", probe)) /\ After(Step("compare", probe), Step("lab", probe))
    BY DEF After, Step
  <2>4. Runs(BuildSteps, pb \o Made(probe), Step("doctor", lab), Step("compare", probe))
    BY <1>10, <2>1, <2>3, RunsJoin
  <2>5. Runs(BuildSteps, (pb \o Made(probe)) \o Lab(probe), Step("doctor", lab), Step("lab", probe))
    BY <2>2, <2>3, <2>4, RunsJoin
  <2>6. QED BY <1>5, <2>5
<1>12. Step("lab", probe).do \notin Busy
  BY DEF Step, Busy
<1>13. QED BY <1>6, <1>11, <1>12 DEF lab

\* The commands that leave the loader alone.
LEMMA BuildCommands ==
  ASSUME NEW name \in {"doctor", "build", "run", "lab", "check"}, NEW c \in Options
  PROVE  \E s, t \in BuildSteps :
           /\ Runs(BuildSteps, Steps(name, c), s, t) /\ Opens(s) /\ t.do \notin Busy
           /\ name = "check" => s.do = "doctor"
<1>1. c \in Cases /\ c.place = "project"
  BY Values
<1>2. /\ Step("doctor", c) \in BuildSteps /\ Step("check_qemu", c) \in BuildSteps
      /\ Step("lab", c) \in BuildSteps
  BY <1>1 DEF Step, BuildSteps, BuildWords, ImageWords, SerialWords, FreeWords
<1>3. /\ Runs(BuildSteps, Do("doctor", c), Step("doctor", c), Step("doctor", c))
      /\ Runs(BuildSteps, check_qemu(c), Step("check_qemu", c), Step("check_qemu", c))
      /\ Runs(BuildSteps, Lab(c), Step("lab", c), Step("lab", c))
  BY <1>2, RunsDo DEF check_qemu, Lab
<1>4. Runs(BuildSteps, Made(c), Step("guard", c), Step("compare", c))
  BY <1>1, MadeRuns
<1>5. /\ Opens(Step("guard", c)) /\ Opens(Step("doctor", c)) /\ Opens(Step("check_qemu", c))
      /\ \A w \in {"doctor", "compare", "lab", "verdict"} : Step(w, c).do \notin Busy
  BY <1>1 DEF Opens, Step, FreeWords, Busy
<1>6. Runs(BuildSteps, check_qemu(c) \o Made(c), Step("check_qemu", c), Step("compare", c))
  <2>1. After(Step("check_qemu", c), Step("guard", c))
    BY <1>5 DEF After, Step, Busy
  <2>2. QED BY <1>3, <1>4, <2>1, RunsJoin
<1>7. Runs(BuildSteps, check_qemu(c) \o Made(c) \o Lab(c), Step("check_qemu", c), Step("lab", c))
  <2>1. After(Step("compare", c), Step("lab", c))
    BY DEF After, Step
  <2>2. QED BY <1>3, <1>6, <2>1, RunsJoin
<1>8. CASE name = "doctor"
  <2>1. Steps(name, c) = Do("doctor", c)
    BY <1>8 DEF Steps
  <2>2. QED BY <1>2, <1>3, <1>5, <1>8, <2>1
<1>9. CASE name = "build"
  <2>1. Steps(name, c) = Made(c)
    BY <1>9 DEF Steps
  <2>2. QED BY <1>4, <1>5, <1>9, <2>1, RunsEnds
<1>10. CASE name = "run"
  <2>1. CASE c.stage = LAB
    <3>1. Steps(name, c) = check_qemu(c) \o Made(c) \o Lab(c)
      BY <1>10, <2>1 DEF Steps
    <3>2. QED BY <1>2, <1>5, <1>7, <1>10, <3>1
  <2>2. CASE c.stage # LAB
    <3>1. Steps(name, c) = check_qemu(c) \o Made(c) \o Serial(c)
      BY <1>10, <2>2 DEF Steps
    <3>2. Runs(BuildSteps, Serial(c), Step("reset", c), Step("verdict", c))
      BY <1>1, SerialRuns
    <3>3. After(Step("compare", c), Step("reset", c))
      BY DEF After, Step, SameKernelAs
    <3>4. Runs(BuildSteps, check_qemu(c) \o Made(c) \o Serial(c), Step("check_qemu", c), Step("verdict", c))
      BY <1>6, <3>2, <3>3, RunsJoin
    <3>5. QED BY <1>5, <1>10, <3>1, <3>4, RunsEnds
  <2>3. QED BY <2>1, <2>2
<1>11. CASE name = "lab"
  <2>1. Steps(name, c) = check_qemu(c) \o Made(c) \o Lab(c)
    BY <1>11 DEF Steps
  <2>2. QED BY <1>2, <1>5, <1>7, <1>11, <2>1
<1>12. CASE name = "check"
  <2> DEFINE first == Step("doctor", Plain(LAB, Memory0))
  <2>1. Steps(name, c) = check
    BY <1>12 DEF Steps
  <2>2. PICK t \in BuildSteps : Runs(BuildSteps, check, first, t) /\ t.do \notin Busy
    BY CheckRuns
  <2>3. Opens(first) /\ first.do = "doctor"
    BY DEF Opens, Step, FreeWords
  <2> HIDE DEF first
  <2>4. first \in BuildSteps
    BY <2>2, RunsEnds
  <2>5. QED BY <2>1, <2>2, <2>3, <2>4
<1>13. QED BY <1>8, <1>9, <1>10, <1>11, <1>12

\* prepare, place by place.
LEMMA PrepareProgram ==
  ASSUME NEW c \in Cases
  PROVE  /\ prepare(c) \in Seq(SetupSteps) /\ Len(prepare(c)) = 4
         /\ prepare(c)[1].do = "download" /\ prepare(c)[2].do = "limine-bios-cd.bin"
         /\ prepare(c)[3].do = "limine-bios.sys" /\ prepare(c)[4].do = "LICENSE"
BY DEF prepare, Do, SetupSteps, SetupWords, Assets, LIMINE_FILES

\* setup, place by place.
LEMMA SetupProgram ==
  ASSUME NEW c \in Cases
  PROVE  /\ setup(c) \in Seq(SetupSteps) /\ Len(setup(c)) = 8
         /\ setup(c)[1].do = "check_qemu" /\ setup(c)[2].do = "venv" /\ setup(c)[3].do = "cached"
         /\ setup(c)[4].do = "download" /\ setup(c)[5].do = "limine-bios-cd.bin"
         /\ setup(c)[6].do = "limine-bios.sys" /\ setup(c)[7].do = "LICENSE"
         /\ setup(c)[8].do = "doctor"
BY DEF setup, check_qemu, prepare, Do, SetupSteps, SetupWords, Assets, LIMINE_FILES

AllSteps == BuildSteps \cup SetupSteps

\* What the proofs need to know of the steps of a command.
LEMMA Shape ==
  ASSUME NEW name \in Names, NEW c \in Options
  PROVE  LET p == Steps(name, c)
         IN /\ p \in Seq(AllSteps) /\ Len(p) > 0
            /\ name \in {"setup", "prepare"} => p \in Seq(SetupSteps)
            /\ name \notin {"setup", "prepare"} => p \in Seq(BuildSteps)
            /\ Opens(p[1]) /\ p[Len(p)].do \notin Busy
            /\ \A k \in 2 .. Len(p) : After(p[k - 1], p[k])
            /\ name = "check" => p[1].do = "doctor"
            /\ name = "setup" => p = setup(c)
<1> DEFINE p == Steps(name, c)
<1>1. c \in Cases
  BY Values
<1>2. CASE name \in {"setup", "prepare"}
  <2>1. p = IF name = "setup" THEN setup(c) ELSE prepare(c)
    BY <1>2 DEF Steps
  <2>2. p \in Seq(SetupSteps) /\ Len(p) \in Nat /\ Len(p) > 0
    <3>1. setup(c) \in Seq(SetupSteps) /\ Len(setup(c)) = 8
      BY <1>1, SetupProgram
    <3>2. prepare(c) \in Seq(SetupSteps) /\ Len(prepare(c)) = 4
      BY <1>1, PrepareProgram
    <3> HIDE DEF p
    <3>3. CASE name = "setup"
      BY <2>1, <3>1, <3>3
    <3>4. CASE name # "setup"
      BY <2>1, <3>2, <3>4
    <3>5. QED BY <3>3, <3>4
  <2> HIDE DEF p
  <2>3. \A k \in 1 .. Len(p) : p[k] \in SetupSteps
    BY <2>2
  <2>4. \A s \in SetupSteps : Opens(s) /\ s.do \notin Busy
    BY DEF SetupSteps, Opens, SetupWords, Assets, LIMINE_FILES, Busy
  <2>5. \A k \in 2 .. Len(p) : k \in 1 .. Len(p) /\ k - 1 \in 1 .. Len(p)
    BY <2>2
  <2>6. \A k \in 2 .. Len(p) : After(p[k - 1], p[k])
    BY <2>3, <2>4, <2>5 DEF After
  <2>7. 1 \in 1 .. Len(p) /\ Len(p) \in 1 .. Len(p)
    BY <2>2
  <2>8. p \in Seq(AllSteps)
    BY <2>2 DEF AllSteps
  <2>9. name # "check"
    BY <1>2
  <2>10. QED BY <1>2, <2>1, <2>2, <2>3, <2>4, <2>6, <2>7, <2>8, <2>9 DEF p
<1>3. CASE name \notin {"setup", "prepare"}
  <2>1. name \in {"doctor", "build", "run", "lab", "check"}
    BY <1>3 DEF Names
  <2>2. PICK s, t \in BuildSteps :
           /\ Runs(BuildSteps, p, s, t) /\ Opens(s) /\ t.do \notin Busy
           /\ name = "check" => s.do = "doctor"
    BY <2>1, BuildCommands
  <2> HIDE DEF p
  <2>3. p \in Seq(AllSteps)
    BY <2>2 DEF Runs, AllSteps
  <2>4. QED BY <1>3, <2>2, <2>3 DEF Runs, p
<1>4. QED BY <1>2, <1>3

-----------------------------------------------------------------------------
(* The inductive invariant.                                                *)

FilesTyped ==
  /\ tree \in 1 .. MaxVersion /\ head \in 1 .. MaxVersion
  /\ assets \in [Assets -> {"absent", "torn", "good"}]
  /\ elf \in [Places -> Kernels] /\ iso \in [Places -> [Stages -> Images]]
  /\ log \in [Labels -> SUBSET Marks]
  /\ fixture \in Origin
  /\ qemu \in [running : BOOLEAN, opened : BOOLEAN, image : Images, of : Cases,
              by : 0 .. MaxCommands, name : Names \cup {"none"}, wrote : SUBSET Marks]
  /\ said \in [pass : BOOLEAN, of : Cases, need : SUBSET Marks]

CommandTyped ==
  /\ given \in 0 .. MaxCommands /\ pc \in 0 .. Len(Program)
  /\ IF pc = 0 THEN command = Nothing
     ELSE command \in [name : Names, of : Options] /\ given # 0

TypeOK == FilesTyped /\ CommandTyped

\* An image the command may boot for case c.
Fresh(image, c) ==
  /\ image.whole /\ Right(image.kernel, c) /\ image.kernel.by = given
  /\ command.name = "check" => image.loader = "good"

\* What a command may count on when it comes to step s.
Promise(s) ==
  LET c == s.of
      made == iso[c.place][c.stage]
  IN /\ s.do \in {"guard", "user", "link"} => (c.place = "fixture" => fixture.patched)
     /\ s.do \in {"user", "link", "inspect", "write"} => build_guard(c)
     /\ s.do \in {"inspect", "write"} => Right(elf[c.place], c) /\ elf[c.place].by = given
     /\ s.do \in ImageWords \cup {"pad"} => Fresh(made, c)
     /\ s.do \in ImageWords => made.padded
     /\ s.do = "popen" => log[Label(c)] = {} /\ ~said.pass
     /\ s.do \in {"watch", "stop", "verdict"} =>
          qemu.of = c /\ qemu.by = given /\ log[Label(c)] \subseteq qemu.wrote

\* The step to come, if a command runs.
Here == IF pc = 0 THEN {} ELSE {Program[pc]}

\* An image on the disk that is whole is one that build makes for its stage,
\* and the project's come from the project's sources.
ImagesSound ==
  \A p \in Places, s \in Stages :
    /\ iso[p][s].whole => /\ iso[p][s].kernel.whole /\ iso[p][s].kernel.stage = s
                          /\ s # M6 => iso[p][s].kernel.fault = 1 /\ iso[p][s].kernel.attack = 0
    /\ p = "project" => ~iso[p][s].kernel.sources.patched

\* QEMU runs only while its check watches it.
Watched == qemu.running => \E s \in Here : s.do \in {"watch", "stop"}

\* The loader's files during check, and towards the end of setup.
LoaderKept ==
  /\ command.name = "check" /\ pc > 1 => Genuine
  /\ command.name = "setup" /\ pc = 6 => assets["limine-bios-cd.bin"] = "good"
  /\ command.name = "setup" /\ pc > 6 => Genuine

DiskInv == ImagesSound /\ ~elf["project"].sources.patched
HostInv ==
  /\ TypeOK /\ DiskInv /\ Watched /\ LoaderKept /\ PassIsEarned /\ BootsThisBuild
  /\ \A s \in Here : Promise(s)

\* While there is a package, nothing is built, so what the packager saw is
\* still there.
Manifests == [source : 0 .. MaxVersion, iso : Images]
Outs   == [platform : {"none", "linux", "windows"}, image : Images, manifest : Manifests,
           archive : {"absent", "torn", "whole"}, held : Kernels]
Copies == [platform : {"none", "linux", "windows"}, image : Images, manifest : Manifests, from : Outs]
PackageTyped == out \in Outs /\ copy \in Copies

Kept ==
  /\ out = NoPackage \/ out.platform # "none"
  /\ packing # "none" \/ copy # NoCopy \/ launched.running => out.platform # "none"
  /\ out.platform = "linux" => SameKernel /\ out.held = elf["project"]
  /\ out.manifest = NoManifest \/ out.manifest.iso = given_iso
  /\ copy.platform = "linux" => out.platform = "linux" /\ copy.from.held = elf["project"]
  /\ copy.manifest = NoManifest \/ copy.manifest.iso = given_iso
  /\ launched.running => launched.of = copy /\ launched.image = copy.image /\ Verified(copy)

PackageInv == HostInv /\ PackageTyped /\ Kept

-----------------------------------------------------------------------------
(* Where a command is.                                                     *)

\* The step to come is one of the command's.
LEMMA AtStep ==
  ASSUME TypeOK, pc # 0
  PROVE  /\ command.name \in Names /\ command.of \in Options
         /\ Len(Program) \in Nat /\ pc \in 1 .. Len(Program)
         /\ Program[pc] \in AllSteps /\ This \in Cases
         /\ Program[pc].do \notin SetupWords => command.name \notin {"setup", "prepare"} /\ Program[pc] \in BuildSteps
         /\ command.name = "check" /\ Program[pc].do # "doctor" => pc > 1
         /\ command.name = "check" => Program[pc].do \notin Assets \cup {"cached"}
<1> DEFINE p == Program
<1>1. command.name \in Names /\ command.of \in Options
  BY DEF TypeOK, CommandTyped
<1>2. /\ p \in Seq(AllSteps)
      /\ command.name \in {"setup", "prepare"} => p \in Seq(SetupSteps)
      /\ command.name \notin {"setup", "prepare"} => p \in Seq(BuildSteps)
      /\ command.name = "check" => p[1].do = "doctor"
  BY <1>1, Shape DEF Program
<1>3. Len(p) \in Nat /\ pc \in 1 .. Len(p)
  <2>1. Len(p) \in Nat
    BY <1>2
  <2>2. QED BY <2>1 DEF TypeOK, CommandTyped
<1> HIDE DEF p
<1>4. /\ p[pc] \in AllSteps
      /\ command.name \in {"setup", "prepare"} => p[pc] \in SetupSteps
      /\ command.name \notin {"setup", "prepare"} => p[pc] \in BuildSteps
  BY <1>2, <1>3
<1>5. p[pc].of \in Cases
  BY <1>4 DEF AllSteps, BuildSteps, SetupSteps
<1>6. p[pc] \in SetupSteps => p[pc].do \in SetupWords
  BY DEF SetupSteps
<1>7. p[pc] \in BuildSteps => p[pc].do \notin Assets \cup {"cached"}
  BY DEF BuildSteps, BuildWords, ImageWords, SerialWords, FreeWords, Assets, LIMINE_FILES
<1>8. command.name = "check" /\ p[pc].do # "doctor" => pc > 1
  BY <1>2, <1>3
<1>9. command.name = "check" => command.name \notin {"setup", "prepare"}
  OBVIOUS
<1>10. QED BY <1>1, <1>3, <1>4, <1>5, <1>6, <1>7, <1>8, <1>9 DEF p, This

\* Steps that open need nothing.
LEMMA OpensPromise ==
  ASSUME NEW s, Opens(s)
  PROVE  Promise(s) /\ Promise(s)'
<1>1. CASE s.do \in SetupWords \cup FreeWords
  <2>1. s.do \notin ImageWords \cup {"pad", "guard", "user", "link", "inspect", "write"}
    BY <1>1 DEF SetupWords, FreeWords, ImageWords, SerialWords, Assets, LIMINE_FILES
  <2>2. s.do \notin {"popen", "watch", "stop", "verdict"}
    BY <2>1 DEF ImageWords, SerialWords
  <2>3. QED BY <2>1, <2>2 DEF Promise
<1>2. CASE s.do = "guard" /\ s.of.place = "project"
  BY <1>2 DEF Promise, ImageWords, SerialWords
<1>3. QED BY <1>1, <1>2 DEF Opens

\* setup, place by place, while it runs.
LEMMA AtSetup ==
  ASSUME TypeOK, pc # 0, command.name = "setup"
  PROVE  /\ Len(Program) = 8 /\ pc \in 1 .. 8
         /\ Program[1].do = "check_qemu" /\ Program[2].do = "venv" /\ Program[3].do = "cached"
         /\ Program[4].do = "download" /\ Program[5].do = "limine-bios-cd.bin"
         /\ Program[6].do = "limine-bios.sys" /\ Program[7].do = "LICENSE"
         /\ Program[8].do = "doctor"
<1>1. command.of \in Options /\ command.of \in Cases /\ pc \in 1 .. Len(Program)
  BY AtStep, Values
<1>2. Program = setup(command.of)
  BY <1>1, Shape DEF Program, Names
<1>3. QED BY <1>1, <1>2, SetupProgram

\* A command that ends is no longer anywhere.
LEMMA Ending ==
  ASSUME TypeOK, Ended
  PROVE  CommandTyped' /\ Here' = {} /\ LoaderKept'
<1>1. Program' = << >>
  BY DEF Ended, Nothing, Program, Steps
<1>2. CommandTyped'
  BY <1>1 DEF Ended, CommandTyped, TypeOK
<1>3. QED BY <1>2 DEF Ended, Nothing, Here, LoaderKept

\* A command that goes on comes to the next step, or ends.
LEMMA Advance ==
  ASSUME TypeOK, pc # 0, Forward(1)
  PROVE  \/ Ended /\ Program[pc].do \notin Busy
         \/ /\ pc' = pc + 1 /\ pc + 1 \in 2 .. Len(Program)
            /\ command' = command /\ given' = given /\ Program' = Program
            /\ Program[pc + 1] \in AllSteps /\ After(Program[pc], Program[pc + 1])
            /\ CommandTyped'
<1>1. /\ command.name \in Names /\ command.of \in Options
      /\ Len(Program) \in Nat /\ pc \in 1 .. Len(Program)
  BY AtStep
<1>2. /\ Program \in Seq(AllSteps) /\ Program[Len(Program)].do \notin Busy
      /\ \A k \in 2 .. Len(Program) : After(Program[k - 1], Program[k])
  BY <1>1, Shape DEF Program
<1>3. CASE pc + 1 > Len(Program)
  <2>1. pc = Len(Program)
    BY <1>1, <1>3
  <2>2. QED BY <1>2, <1>3, <2>1 DEF Forward
<1>4. CASE ~(pc + 1 > Len(Program))
  <2>1. pc' = pc + 1 /\ command' = command /\ given' = given
    BY <1>4 DEF Forward
  <2>2. pc + 1 \in 2 .. Len(Program) /\ pc + 1 \in 1 .. Len(Program) /\ (pc + 1) - 1 = pc
    BY <1>1, <1>4
  <2>3. Program[pc + 1] \in AllSteps /\ After(Program[pc], Program[pc + 1])
    BY <1>2, <2>2
  <2>4. Program' = Program
    BY <2>1 DEF Program
  <2>5. CommandTyped'
    BY <1>1, <2>1, <2>2, <2>4 DEF TypeOK, CommandTyped
  <2>6. QED BY <2>1, <2>2, <2>3, <2>4, <2>5
<1>5. QED BY <1>3, <1>4

\* A step of a command that ends it.
LEMMA StepEnds ==
  ASSUME HostInv, Ended, FilesTyped', DiskInv', ~qemu'.running, PassIsEarned', BootsThisBuild'
  PROVE  HostInv'
<1>1. CommandTyped' /\ Here' = {} /\ LoaderKept'
  BY Ending DEF HostInv
<1>2. QED BY <1>1 DEF HostInv, TypeOK, Watched

\* Nothing runs unless the command watches it.
LEMMA NoneRuns ==
  ASSUME HostInv, pc # 0, Program[pc].do \notin {"watch", "stop"}
  PROVE  ~qemu.running
BY DEF HostInv, Watched, Here

\* The files of the loader after a step that leaves them alone.
LEMMA LoaderMoves ==
  ASSUME HostInv, pc # 0, Forward(1), assets' = assets,
         Program[pc].do = "doctor" => Genuine,
         Program[pc].do \notin LIMINE_FILES \cup {"cached"}
  PROVE  LoaderKept'
<1>0. TypeOK
  BY DEF HostInv
<1>1. CASE Ended
  BY <1>0, <1>1, Ending
<1>2. CASE pc' = pc + 1 /\ command' = command
  <2>1. Genuine' <=> Genuine
    BY DEF Genuine
  <2>2. CASE command.name = "check"
    <3>1. pc > 1 \/ Program[pc].do = "doctor"
      BY <1>0, <2>2, AtStep
    <3>2. Genuine
      BY <2>2, <3>1 DEF HostInv, LoaderKept
    <3>3. QED BY <1>2, <2>1, <2>2, <3>2 DEF LoaderKept
  <2>3. CASE command.name = "setup"
    <3>1. pc \in 1 .. 8 /\ pc # 5 /\ pc # 6
      BY <1>0, <2>3, AtSetup DEF LIMINE_FILES
    <3>2. pc' # 6 /\ (pc' > 6 => pc > 6)
      BY <1>2, <3>1
    <3>3. pc' > 6 => Genuine'
      BY <2>1, <2>3, <3>2 DEF HostInv, LoaderKept
    <3>4. QED BY <1>2, <2>3, <3>2, <3>3 DEF LoaderKept
  <2>4. QED BY <1>2, <2>2, <2>3 DEF LoaderKept
<1>3. QED BY <1>0, <1>1, <1>2, Advance

\* A step of a command that goes on.
LEMMA StepMoves ==
  ASSUME HostInv, pc # 0, Forward(1), FilesTyped', DiskInv', LoaderKept',
         PassIsEarned', BootsThisBuild',
         qemu'.running => Program[pc].do \in Busy,
         command' = command /\ given' = given =>
           \A t \in AllSteps : After(Program[pc], t) => Promise(t)'
  PROVE  HostInv'
<1>0. TypeOK
  BY DEF HostInv
<1>1. CASE Ended /\ Program[pc].do \notin Busy
  BY <1>1, StepEnds
<1>2. CASE /\ pc' = pc + 1 /\ pc + 1 \in 2 .. Len(Program)
           /\ command' = command /\ given' = given /\ Program' = Program
           /\ Program[pc + 1] \in AllSteps /\ After(Program[pc], Program[pc + 1])
           /\ CommandTyped'
  <2>1. Here' = {Program[pc + 1]}
    <3>1. pc + 1 # 0 /\ pc' # 0
      BY <1>2
    <3>2. QED BY <1>2, <3>1 DEF Here
  <2>2. (\A s \in Here : Promise(s))'
    BY <1>2, <2>1
  <2>3. Watched'
    <3>1. Program[pc].do \in Busy => Program[pc + 1].do \in {"watch", "stop"}
      BY <1>2 DEF After, Busy
    <3>2. QED BY <2>1, <3>1 DEF Watched
  <2>4. QED BY <1>2, <2>2, <2>3 DEF HostInv, TypeOK
<1>3. QED BY <1>0, <1>1, <1>2, Advance

\* Steps that change no file keep their promises.
LEMMA PromiseSame ==
  ASSUME NEW t, Promise(t), UNCHANGED <<iso, elf, fixture, log, qemu, said, command, given>>
  PROVE  Promise(t)'
BY DEF Promise, Fresh, Right, build_guard, Label

-----------------------------------------------------------------------------
(* The steps that only test.                                               *)

\* What a step was promised is enough for the next, where nothing changes.
LEMMA Carry ==
  ASSUME NEW s \in AllSteps, NEW t \in AllSteps, After(s, t), Promise(s),
         s.do \in Waits \cup {"doctor", "guard", "compare", "depths", "cached"},
         s.do = "guard" => build_guard(s.of)
  PROVE  Promise(t)
<1>1. CASE Opens(t)
  BY <1>1, OpensPromise
<1>2. CASE SameKernelAs(s.of, t.of) /\ t.do = "reset" /\ s.do \in {"compare", "verdict", "depths"}
  <2>1. /\ Fresh(iso[s.of.place][s.of.stage], s.of) /\ iso[s.of.place][s.of.stage].padded
    BY <1>2 DEF Promise, ImageWords, SerialWords
  <2>2. Fresh(iso[t.of.place][t.of.stage], t.of) /\ iso[t.of.place][t.of.stage].padded
    BY <1>2, <2>1 DEF SameKernelAs, Fresh, Right
  <2>3. QED BY <1>2, <2>2 DEF Promise
<1>3. CASE t.of = s.of
  <2>1. CASE s.do = "guard" /\ t.do \in {"user", "link"}
    BY <1>3, <2>1 DEF Promise, ImageWords, SerialWords
  <2>2. CASE s.do = "user" /\ t.do = "link"
    BY <1>3, <2>2 DEF Promise, ImageWords, SerialWords
  <2>3. CASE s.do = "inspect" /\ t.do = "write"
    BY <1>3, <2>3 DEF Promise, ImageWords, SerialWords
  <2>4. CASE s.do = "compare" /\ t.do = "lab"
    BY <1>3, <2>4 DEF Promise, ImageWords, SerialWords
  <2>5. CASE s.do = "watch" /\ t.do = "stop"
    BY <1>3, <2>5 DEF Promise, ImageWords, SerialWords
  <2>6. CASE ~\/ s.do = "guard" /\ t.do \in {"user", "link"}
              \/ s.do = "user" /\ t.do = "link"
              \/ s.do = "inspect" /\ t.do = "write"
              \/ s.do = "compare" /\ t.do = "lab"
              \/ s.do = "watch" /\ t.do = "stop"
    BY <1>1, <1>2, <2>6 DEF After, Waits
  <2>7. QED BY <2>1, <2>2, <2>3, <2>4, <2>5, <2>6
<1>4. QED BY <1>1, <1>2, <1>3 DEF After

Files == <<sources, assets, built, log, qemu, said>>

\* Nothing that speaks of the files alone changes with a step that changes
\* none of them.
LEMMA FilesSame ==
  ASSUME HostInv, UNCHANGED Files, given' = given
  PROVE  FilesTyped' /\ DiskInv' /\ PassIsEarned' /\ BootsThisBuild'
<1>1. FilesTyped'
  BY DEF HostInv, TypeOK, FilesTyped, Files, sources, built
<1>2. DiskInv'
  BY DEF HostInv, DiskInv, ImagesSound, Files, sources, built
<1>3. PassIsEarned' /\ BootsThisBuild'
  BY DEF HostInv, PassIsEarned, BootsThisBuild, Right, Files, sources, built
<1>4. QED BY <1>1, <1>2, <1>3

\* The step ends the command, and QEMU with it.
LEMMA TestEnds ==
  ASSUME HostInv, pc # 0, Ended, UNCHANGED Files, Program[pc].do \notin {"watch", "stop"}
  PROVE  HostInv'
<1>1. given' = given /\ ~qemu'.running
  BY NoneRuns DEF Ended, Files
<1>2. QED BY <1>1, FilesSame, StepEnds

\* The step goes on.
LEMMA TestMoves ==
  ASSUME HostInv, pc # 0, Forward(1), UNCHANGED Files,
         Program[pc].do \in Waits \cup {"doctor", "guard", "compare", "depths"},
         Program[pc].do = "guard" => build_guard(This),
         Program[pc].do = "doctor" => Genuine
  PROVE  HostInv'
<1>0. TypeOK
  BY DEF HostInv
<1>1. given' = given
  BY <1>0, Advance DEF Ended
<1>2. FilesTyped' /\ DiskInv' /\ PassIsEarned' /\ BootsThisBuild'
  BY <1>1, FilesSame
<1>3. LoaderKept'
  <2>1. Program[pc].do \notin LIMINE_FILES \cup {"cached"}
    BY DEF LIMINE_FILES, Waits
  <2>2. QED BY <2>1, LoaderMoves DEF Files
<1>4. qemu'.running => Program[pc].do \in Busy
  BY NoneRuns DEF Files, Waits, Busy
<1>5. ASSUME command' = command /\ given' = given, NEW t \in AllSteps, After(Program[pc], t)
      PROVE  Promise(t)'
  <2>1. Program[pc] \in AllSteps /\ Promise(Program[pc])
    BY <1>0, AtStep DEF HostInv, Here
  <2>2. Promise(t)
    BY <1>5, <2>1, Carry DEF This
  <2>3. QED BY <1>5, <2>2, PromiseSame DEF Files, built
<1>6. QED BY <1>2, <1>3, <1>4, <1>5, StepMoves

\* doctor, guard, compare, depths, and the steps that only wait.
LEMMA TestStep ==
  ASSUME HostInv, test
  PROVE  HostInv'
<1>0. UNCHANGED Files
  BY DEF test, Files
<1>1. CASE At("doctor") /\ Require(doctor)
  <2>1. pc # 0 /\ Program[pc].do = "doctor"
    BY <1>1 DEF At
  <2>2. CASE doctor
    <3>1. Forward(1) /\ Genuine
      BY <1>1, <2>2 DEF Require, doctor
    <3>2. QED BY <1>0, <2>1, <3>1, TestMoves
  <2>3. CASE ~doctor
    <3>1. Ended
      BY <1>1, <2>3 DEF Require
    <3>2. QED BY <1>0, <2>1, <3>1, TestEnds
  <2>4. QED BY <2>2, <2>3
<1>2. CASE At("guard") /\ Require(build_guard(This))
  <2>1. pc # 0 /\ Program[pc].do = "guard"
    BY <1>2 DEF At
  <2>2. CASE build_guard(This)
    <3>1. Forward(1)
      BY <1>2, <2>2 DEF Require
    <3>2. QED BY <1>0, <2>1, <2>2, <3>1, TestMoves
  <2>3. CASE ~build_guard(This)
    <3>1. Ended
      BY <1>2, <2>3 DEF Require
    <3>2. QED BY <1>0, <2>1, <3>1, TestEnds
  <2>4. QED BY <2>2, <2>3
<1>3. ASSUME NEW w \in {"compare", "depths"}, At(w), Forward(1) \/ Ended
      PROVE  HostInv'
  <2>1. pc # 0 /\ Program[pc].do = w
    BY <1>3 DEF At
  <2>2. CASE Forward(1)
    BY <1>0, <2>1, <2>2, TestMoves
  <2>3. CASE Ended
    BY <1>0, <2>1, <2>3, TestEnds
  <2>4. QED BY <1>3, <2>2, <2>3
<1>4. ASSUME NEW w \in Waits, At(w), Forward(1)
      PROVE  HostInv'
  <2>1. pc # 0 /\ Program[pc].do = w /\ w \notin {"guard", "doctor"}
    BY <1>4 DEF At, Waits
  <2>2. QED BY <1>0, <1>4, <2>1, TestMoves
<1>5. QED BY <1>1, <1>2, <1>3, <1>4 DEF test, Require

-----------------------------------------------------------------------------
(* setup and prepare.                                                      *)

\* Only setup asks whether the loader is cached.
LEMMA CachedInSetup ==
  ASSUME TypeOK, At("cached")
  PROVE  command.name = "setup" /\ pc = 3 /\ Len(Program) = 8
<1>0. pc # 0 /\ Program[pc].do = "cached"
  BY DEF At
<1>1. command.name \in Names /\ command.of \in Options /\ command.of \in Cases /\ pc \in 1 .. Len(Program)
  BY <1>0, AtStep, Values
<1>2. CASE command.name \notin {"setup", "prepare"}
  <2>1. Program \in Seq(BuildSteps)
    BY <1>1, <1>2, Shape DEF Program
  <2>2. Program[pc] \in BuildSteps
    BY <1>1, <2>1
  <2>3. QED BY <1>0, <2>2 DEF BuildSteps, BuildWords, ImageWords, SerialWords, FreeWords
<1>3. CASE command.name = "prepare"
  <2>1. Program = prepare(command.of)
    BY <1>3 DEF Program, Steps
  <2>2. pc \in 1 .. 4
    BY <1>1, <2>1, PrepareProgram
  <2>3. QED BY <1>0, <1>1, <2>1, <2>2, PrepareProgram
<1>4. CASE command.name = "setup"
  BY <1>0, <1>4, AtSetup
<1>5. QED BY <1>1, <1>2, <1>3, <1>4

\* setup goes on to prepare, or, with a genuine loader, past it to doctor.
LEMMA CachedStep ==
  ASSUME HostInv, setup_cached
  PROVE  HostInv'
<1>0. TypeOK /\ pc # 0 /\ Program[pc].do = "cached" /\ UNCHANGED Files
  BY DEF HostInv, setup_cached, At, Files
<1>1. command.name = "setup" /\ pc = 3 /\ Len(Program) = 8
  BY <1>0, CachedInSetup DEF setup_cached
<1>2. ~qemu'.running
  BY <1>0, NoneRuns DEF Files
<1>3. CASE Forward(1)
  <2>1. pc' = 4 /\ command' = command /\ given' = given
    BY <1>1, <1>3 DEF Forward
  <2>2. LoaderKept'
    BY <1>1, <2>1 DEF LoaderKept
  <2>3. ASSUME NEW t \in AllSteps, After(Program[pc], t) PROVE Promise(t)'
    <3>1. Program[pc] \in AllSteps /\ Promise(Program[pc])
      BY <1>0, AtStep DEF HostInv, Here
    <3>2. Promise(t)
      BY <1>0, <2>3, <3>1, Carry
    <3>3. QED BY <1>0, <2>1, <3>2, PromiseSame DEF Files, built
  <2>4. QED BY <1>0, <1>2, <1>3, <2>1, <2>2, <2>3, FilesSame, StepMoves
<1>4. CASE Cached /\ Forward(5)
  <2>1. pc' = 8 /\ command' = command /\ given' = given
    BY <1>1, <1>4 DEF Forward
  <2>2. Program' = Program
    BY <2>1 DEF Program
  <2>3. CommandTyped'
    <3>1. given \in 0 .. MaxCommands /\ given # 0 /\ command \in [name : Names, of : Options]
      BY <1>0 DEF TypeOK, CommandTyped
    <3>2. pc' \in 0 .. Len(Program') /\ pc' # 0
      <4>1. Len(Program') = 8
        BY <1>1, <2>2
      <4>2. QED BY <2>1, <4>1
    <3>3. QED BY <2>1, <3>1, <3>2 DEF CommandTyped
  <2>4. LoaderKept'
    BY <1>0, <1>1, <1>4, <2>1 DEF LoaderKept, Cached, Genuine, Files
  <2>5. Here' = {Program[8]}
    BY <2>1, <2>2 DEF Here
  <2>6. Program[8].do = "doctor"
    BY <1>0, <1>1, AtSetup
  <2>7. Opens(Program[8])
    BY <2>6 DEF Opens, SetupWords
  <2> DEFINE s == Program[8]
  <2> HIDE DEF s
  <2>8. Opens(s) /\ Here' = {s}
    BY <2>5, <2>7 DEF s
  <2>9. (\A r \in Here : Promise(r))'
    <3>1. SUFFICES ASSUME NEW r \in Here' PROVE Promise(r)'
      OBVIOUS
    <3>2. Opens(r)
      BY <2>8
    <3>3. QED BY <3>2, OpensPromise
  <2>10. FilesTyped' /\ DiskInv' /\ PassIsEarned' /\ BootsThisBuild'
    BY <1>0, <2>1, FilesSame
  <2>11. QED BY <1>2, <2>3, <2>4, <2>9, <2>10 DEF HostInv, TypeOK, Watched
<1>5. QED BY <1>3, <1>4 DEF setup_cached

\* prepare writes one file: check never does, and setup writes both of the
\* loader's before it comes to its doctor.
LEMMA PrepareStep ==
  ASSUME HostInv, NEW f \in Assets, prepare_write(f)
  PROVE  HostInv'
<1>0. /\ TypeOK /\ pc # 0 /\ Program[pc].do = f /\ Forward(1)
      /\ assets' = [assets EXCEPT ![f] = "good"]
      /\ UNCHANGED <<tree, head, elf, iso, fixture, log, qemu, said>>
  BY DEF HostInv, prepare_write, At, sources, built
<1>1. f \in SetupWords /\ f \notin Busy \cup {"watch", "stop", "doctor"}
  BY DEF SetupWords, Assets, LIMINE_FILES, Busy
<1>2. ~qemu'.running
  BY <1>0, <1>1, NoneRuns
<1>3. given' = given
  BY <1>0, Advance DEF Ended
<1>4. FilesTyped'
  BY <1>0 DEF TypeOK, FilesTyped
<1>5. DiskInv' /\ PassIsEarned' /\ BootsThisBuild'
  BY <1>0, <1>3 DEF HostInv, DiskInv, ImagesSound, PassIsEarned, BootsThisBuild, Right
<1>6. LoaderKept'
  <2>1. CASE Ended
    BY <1>0, <2>1, Ending
  <2>2. CASE pc' = pc + 1 /\ command' = command
    <3>1. command.name # "check"
      BY <1>0, AtStep
    <3>2. CASE command.name = "setup"
      <4>1. pc \in {5, 6, 7} /\ (pc = 5 => f = "limine-bios-cd.bin") /\ (pc = 6 => f = "limine-bios.sys")
            /\ (pc = 7 => f = "LICENSE")
        BY <1>0, <3>2, AtSetup DEF Assets, LIMINE_FILES
      <4>2. DOMAIN assets = Assets
        BY <1>0 DEF TypeOK, FilesTyped
      <4>3. CASE pc = 5
        BY <1>0, <2>2, <3>2, <4>1, <4>2, <4>3 DEF LoaderKept
      <4>4. CASE pc = 6
        <5>1. assets["limine-bios-cd.bin"] = "good"
          BY <3>2, <4>4 DEF HostInv, LoaderKept
        <5>2. Genuine'
          BY <1>0, <4>1, <4>2, <4>4, <5>1 DEF Genuine, LIMINE_FILES
        <5>3. QED BY <2>2, <3>2, <4>4, <5>2 DEF LoaderKept
      <4>5. CASE pc = 7
        <5>1. Genuine
          BY <3>2, <4>5 DEF HostInv, LoaderKept
        <5>2. Genuine'
          BY <1>0, <4>1, <4>2, <4>5, <5>1 DEF Genuine, LIMINE_FILES
        <5>3. QED BY <2>2, <3>2, <4>5, <5>2 DEF LoaderKept
      <4>6. QED BY <4>1, <4>3, <4>4, <4>5
    <3>3. QED BY <2>2, <3>1, <3>2 DEF LoaderKept
  <2>3. QED BY <1>0, <2>1, <2>2, Advance
<1>7. ASSUME NEW t \in AllSteps, After(Program[pc], t) PROVE Promise(t)'
  <2>1. Opens(t)
    BY <1>0, <1>7 DEF After, Assets, LIMINE_FILES
  <2>2. QED BY <2>1, OpensPromise
<1>8. QED BY <1>0, <1>2, <1>4, <1>5, <1>6, <1>7, StepMoves

-----------------------------------------------------------------------------
(* A command is given, or breaks off; the sources change in between.       *)

\* Nothing of what is not there is wrong.
LEMMA Blank ==
  /\ NoSources \in Origin /\ NoKernel \in Kernels /\ NoImage \in Images
  /\ ~NoKernel.sources.patched /\ ~NoImage.whole /\ NoImage.kernel = NoKernel
  /\ Plain(LAB, Memory0) \in Cases
  /\ Silent \in [pass : BOOLEAN, of : Cases, need : SUBSET Marks] /\ ~Silent.pass
  /\ NoBoot \in [running : BOOLEAN, opened : BOOLEAN, image : Images, of : Cases,
                 by : 0 .. MaxCommands, name : Names \cup {"none"}, wrote : SUBSET Marks]
  /\ ~NoBoot.running /\ NoBoot.by = 0
<1>1. NoSources \in Origin
  BY HostAssumption DEF NoSources, Sources, Origin
<1>2. NoKernel \in Kernels /\ ~NoKernel.sources.patched
  BY <1>1, HostAssumption DEF NoKernel, Kernels, NoSources, Sources, LAB
<1>3. NoImage \in Images /\ ~NoImage.whole /\ NoImage.kernel = NoKernel
  BY <1>2 DEF NoImage, Images
<1>4. Plain(LAB, Memory0) \in Cases
  BY Values
<1>5. Silent \in [pass : BOOLEAN, of : Cases, need : SUBSET Marks] /\ ~Silent.pass
  BY <1>4 DEF Silent
<1>6. 0 \in 0 .. MaxCommands
  BY HostAssumption
<1>7. QED BY <1>1, <1>2, <1>3, <1>4, <1>5, <1>6 DEF NoBoot

\* A new command counts on nothing but what was true before.
LEMMA MainStep ==
  ASSUME HostInv, NEW name \in Names, NEW c \in Options, main(name, c)
  PROVE  HostInv'
<1>0. /\ TypeOK /\ pc = 0 /\ command' = [name |-> name, of |-> c] /\ pc' = 1 /\ given' = given + 1
      /\ given < MaxCommands
      /\ said' = Silent /\ qemu' = NoBoot /\ fixture' = NoSources
      /\ elf' = [elf EXCEPT !["fixture"] = NoKernel]
      /\ iso' = [iso EXCEPT !["fixture"] = [s \in Stages |-> NoImage]]
      /\ UNCHANGED <<tree, head, assets, log>>
  BY DEF HostInv, main, sources
<1>1. Program' = Steps(name, c)
  BY <1>0 DEF Program
<1>2. Len(Steps(name, c)) \in Nat /\ Len(Steps(name, c)) > 0 /\ Opens(Steps(name, c)[1])
  BY Shape
<1>3. CommandTyped'
  <2>1. given' \in 0 .. MaxCommands /\ given' # 0
    BY <1>0, HostAssumption DEF TypeOK, CommandTyped
  <2>2. command' \in [name : Names, of : Options]
    BY <1>0
  <2>3. pc' \in 0 .. Len(Program') /\ pc' # 0
    BY <1>0, <1>1, <1>2
  <2>4. QED BY <2>1, <2>2, <2>3 DEF CommandTyped
<1>4. FilesTyped'
  BY <1>0, Blank DEF TypeOK, FilesTyped, Places
<1>5. DiskInv'
  <2>1. elf'["project"] = elf["project"] /\ iso'["project"] = iso["project"]
        /\ \A s \in Stages : iso'["fixture"][s] = NoImage
    BY <1>0 DEF TypeOK, FilesTyped, Places
  <2>2. QED BY <2>1, Blank DEF HostInv, DiskInv, ImagesSound, Places
<1>6. PassIsEarned' /\ BootsThisBuild' /\ Watched'
  BY <1>0, Blank DEF PassIsEarned, BootsThisBuild, Watched
<1>7. LoaderKept'
  BY <1>0 DEF LoaderKept
<1>8. Here' = {Steps(name, c)[1]}
  BY <1>0, <1>1 DEF Here
<1>9. (\A s \in Here : Promise(s))'
  <2>1. SUFFICES ASSUME NEW s \in Here' PROVE Promise(s)'
    OBVIOUS
  <2>2. Opens(s)
    BY <1>2, <1>8
  <2>3. QED BY <2>2, OpensPromise
<1>10. QED BY <1>3, <1>4, <1>5, <1>6, <1>7, <1>9 DEF HostInv, TypeOK

\* QEMU is stopped, or stops: what it has done stays.
LEMMA StoppedSame ==
  ASSUME FilesTyped, PassIsEarned, BootsThisBuild, qemu' = Stopped, said' = said, given' = given
  PROVE  /\ PassIsEarned' /\ BootsThisBuild' /\ ~qemu'.running
         /\ qemu'.of = qemu.of /\ qemu'.by = qemu.by /\ qemu'.wrote = qemu.wrote
         /\ qemu' \in [running : BOOLEAN, opened : BOOLEAN, image : Images, of : Cases,
                       by : 0 .. MaxCommands, name : Names \cup {"none"}, wrote : SUBSET Marks]
<1>1. /\ qemu'.of = qemu.of /\ qemu'.by = qemu.by /\ qemu'.wrote = qemu.wrote
      /\ qemu'.image = qemu.image /\ qemu'.name = qemu.name /\ ~qemu'.running
      /\ qemu' \in [running : BOOLEAN, opened : BOOLEAN, image : Images, of : Cases,
                    by : 0 .. MaxCommands, name : Names \cup {"none"}, wrote : SUBSET Marks]
  BY DEF FilesTyped, Stopped
<1>2. QED BY <1>1 DEF PassIsEarned, BootsThisBuild, Right

\* A command breaks off, and leaves at most one file torn.
LEMMA RaisesStep ==
  ASSUME HostInv, raises
  PROVE  HostInv'
<1>0. /\ TypeOK /\ FilesTyped /\ PassIsEarned /\ BootsThisBuild /\ DiskInv
      /\ pc # 0 /\ Tears /\ qemu' = Stopped /\ Ended
      /\ UNCHANGED <<tree, head, fixture, log, said>>
  BY DEF HostInv, TypeOK, raises, sources
<1>1. This \in Cases /\ This.place \in Places /\ This.stage \in Stages
  BY <1>0, AtStep DEF Cases
<1>2. given' = given
  BY <1>0 DEF Ended
<1>3. /\ PassIsEarned' /\ BootsThisBuild' /\ ~qemu'.running
      /\ qemu' \in [running : BOOLEAN, opened : BOOLEAN, image : Images, of : Cases,
                    by : 0 .. MaxCommands, name : Names \cup {"none"}, wrote : SUBSET Marks]
  BY <1>0, <1>2, StoppedSame
<1>4. /\ assets' \in [Assets -> {"absent", "torn", "good"}]
      /\ elf' \in [Places -> Kernels] /\ iso' \in [Places -> [Stages -> Images]]
      /\ DiskInv'
  <2>1. CASE UNCHANGED <<elf, iso>> /\ assets' \in [Assets -> {"absent", "torn", "good"}]
    BY <1>0, <2>1 DEF FilesTyped, DiskInv, ImagesSound
  <2>2. CASE elf' = [elf EXCEPT ![This.place] = NoKernel] /\ UNCHANGED <<assets, iso>>
    <3>1. elf' \in [Places -> Kernels] /\ (elf'["project"] = elf["project"] \/ elf'["project"] = NoKernel)
      BY <1>0, <1>1, <2>2, Blank DEF FilesTyped, Places
    <3>2. QED BY <1>0, <2>2, <3>1, Blank DEF FilesTyped, DiskInv, ImagesSound
  <2>3. CASE iso' = [iso EXCEPT ![This.place][This.stage] = NoImage] /\ UNCHANGED <<assets, elf>>
    <3>1. /\ iso' \in [Places -> [Stages -> Images]]
          /\ \A p \in Places, s \in Stages : iso'[p][s] = iso[p][s] \/ iso'[p][s] = NoImage
      BY <1>0, <1>1, <2>3, Blank DEF FilesTyped
    <3>2. ImagesSound'
      BY <1>0, <3>1, Blank DEF DiskInv, ImagesSound
    <3>3. QED BY <1>0, <2>3, <3>1, <3>2 DEF FilesTyped, DiskInv
  <2>4. QED BY <1>0, <2>1, <2>2, <2>3 DEF Tears, FilesTyped
<1>5. FilesTyped'
  BY <1>0, <1>3, <1>4 DEF FilesTyped
<1>6. QED BY <1>0, <1>3, <1>4, <1>5, StepEnds

\* The sources change between commands, and only they.
LEMMA EditStep ==
  ASSUME HostInv, edit \/ commit
  PROVE  HostInv'
<1>0. /\ pc = 0 /\ tree' \in 1 .. MaxVersion /\ head' \in 1 .. MaxVersion
      /\ UNCHANGED <<assets, elf, iso, fixture, log, qemu, command, pc, given, said>>
  BY DEF HostInv, TypeOK, FilesTyped, edit, commit, built, process
<1>1. FilesTyped'
  BY <1>0 DEF HostInv, TypeOK, FilesTyped
<1>2. CommandTyped' /\ Here' = {}
  BY <1>0 DEF HostInv, TypeOK, CommandTyped, Program, Here
<1>3. DiskInv' /\ PassIsEarned' /\ BootsThisBuild'
  BY <1>0 DEF HostInv, DiskInv, ImagesSound, PassIsEarned, BootsThisBuild, Right
<1>4. Watched' /\ LoaderKept'
  BY <1>0 DEF HostInv, Watched, Here, LoaderKept, Genuine
<1>5. QED BY <1>1, <1>2, <1>3, <1>4 DEF HostInv, TypeOK

-----------------------------------------------------------------------------
(* build and image.                                                        *)

\* What a command can rely on at a step that is not one of setup's.
LEMMA AtBuild ==
  ASSUME HostInv, NEW w, w \notin SetupWords, At(w)
  PROVE  /\ TypeOK /\ FilesTyped /\ CommandTyped /\ DiskInv /\ PassIsEarned /\ BootsThisBuild
         /\ pc # 0 /\ Program[pc].do = w /\ Promise(Program[pc])
         /\ Program[pc] \in BuildSteps /\ Program[pc] \in AllSteps
         /\ This \in Cases /\ This.place \in Places /\ This.stage \in Stages
         /\ given \in 1 .. MaxCommands
         /\ command.name = "check" => Genuine
<1>1. /\ TypeOK /\ FilesTyped /\ CommandTyped /\ DiskInv /\ PassIsEarned /\ BootsThisBuild
      /\ pc # 0 /\ Program[pc].do = w /\ Promise(Program[pc])
  BY DEF HostInv, TypeOK, At, Here
<1>2. Program[pc] \in BuildSteps /\ Program[pc] \in AllSteps /\ This \in Cases
  BY <1>1, AtStep
<1>3. This.place \in Places /\ This.stage \in Stages
  BY <1>2 DEF Cases
<1>4. given \in 1 .. MaxCommands
  BY <1>1, HostAssumption DEF CommandTyped
<1>5. command.name = "check" => Genuine
  <2>1. w # "doctor"
    BY DEF SetupWords
  <2>2. command.name = "check" => pc > 1
    BY <1>1, <2>1, AtStep
  <2>3. QED BY <2>2 DEF HostInv, LoaderKept
<1>6. QED BY <1>1, <1>2, <1>3, <1>4, <1>5

\* The loader is left alone by the steps of build, check, run and lab.
LEMMA LoaderLeft ==
  ASSUME HostInv, NEW w, w \notin SetupWords, At(w), Forward(1), assets' = assets
  PROVE  LoaderKept'
<1>1. w \notin LIMINE_FILES \cup {"cached", "doctor"}
  BY DEF SetupWords, Assets
<1>2. QED BY <1>1, LoaderMoves DEF At

\* The kernel is linked from the sources of its place for the case asked for.
LEMMA LinkStep ==
  ASSUME HostInv, build_link
  PROVE  HostInv'
<1> DEFINE c == This
           k == [whole |-> TRUE, stage |-> c.stage, fault |-> c.fault, attack |-> c.attack,
                 sources |-> SourcesOf(c.place), by |-> given]
<1>0. /\ At("link") /\ "link" \notin SetupWords /\ Forward(1)
      /\ elf' = [elf EXCEPT ![c.place] = k]
      /\ UNCHANGED <<tree, head, assets, iso, log, fixture, qemu, said>>
  BY DEF build_link, SetupWords, Assets, LIMINE_FILES, sources
<1>1. /\ TypeOK /\ FilesTyped /\ DiskInv /\ PassIsEarned /\ BootsThisBuild
      /\ pc # 0 /\ Program[pc].do = "link" /\ Promise(Program[pc])
      /\ c \in Cases /\ c.place \in Places /\ given \in 1 .. MaxCommands
  BY <1>0, AtBuild
<1>2. given' = given
  BY <1>0, <1>1, Advance DEF Ended
<1>3. build_guard(c) /\ (c.place = "fixture" => fixture.patched)
  BY <1>1 DEF Promise, This
<1>4. k \in Kernels
  <2>1. SourcesOf(c.place) \in Origin
    BY <1>1, HostAssumption DEF FilesTyped, SourcesOf, Sources, Origin
  <2>2. c.stage \in 0 .. LAB /\ c.fault \in 0 .. 7 /\ c.attack \in 0 .. 5
    <3>1. c.stage \in Stages /\ c.fault \in {1} \cup ToSet(FaultCases) /\ c.attack \in {0} \cup ToSet(AttackCases)
      BY <1>1 DEF Cases
    <3>2. /\ \A x \in Stages : x \in 0 .. LAB
          /\ \A x \in {1} \cup ToSet(FaultCases) : x \in 0 .. 7
          /\ \A x \in {0} \cup ToSet(AttackCases) : x \in 0 .. 5
      BY Values
    <3> HIDE DEF c
    <3>3. QED BY <3>1, <3>2
  <2>3. QED BY <1>1, <2>1, <2>2 DEF Kernels
<1>5. Right(k, c)
  BY <1>1, <1>3 DEF Right, SourcesOf, Sources, Places
<1>6. k.by = given /\ k.sources.patched = (c.place = "fixture")
  BY <1>5 DEF Right
<1> HIDE DEF k, c
<1>7. elf' \in [Places -> Kernels] /\ elf'[c.place] = k /\ \A p \in Places : p # c.place => elf'[p] = elf[p]
  BY <1>0, <1>1, <1>4 DEF FilesTyped
<1>8. FilesTyped'
  BY <1>0, <1>1, <1>7 DEF FilesTyped
<1>9. DiskInv'
  <2>1. ~elf'["project"].sources.patched
    BY <1>1, <1>6, <1>7 DEF DiskInv, Places
  <2>2. QED BY <1>0, <1>1, <2>1 DEF DiskInv, ImagesSound
<1>10. PassIsEarned' /\ BootsThisBuild'
  BY <1>0, <1>1, <1>2 DEF PassIsEarned, BootsThisBuild, Right
<1>11. LoaderKept'
  BY <1>0, LoaderLeft
<1>12. ~qemu'.running
  BY <1>0, <1>1, NoneRuns
<1>13. ASSUME NEW t \in AllSteps, After(Program[pc], t) PROVE Promise(t)'
  <2>1. CASE Opens(t)
    BY <2>1, OpensPromise
  <2>2. CASE t.of = c /\ t.do = "inspect"
    <3>1. build_guard(t.of) /\ Right(elf'[t.of.place], t.of) /\ elf'[t.of.place].by = given'
      BY <1>2, <1>3, <1>5, <1>6, <1>7, <2>2
    <3>2. QED BY <2>2, <3>1 DEF Promise, Right, build_guard, ImageWords, SerialWords
  <2>3. QED BY <1>1, <1>13, <2>1, <2>2 DEF After, c, This
<1>14. QED BY <1>0, <1>1, <1>8, <1>9, <1>10, <1>11, <1>12, <1>13, StepMoves

\* The image takes the kernel that this command has linked.
LEMMA WriteStep ==
  ASSUME HostInv, image_write
  PROVE  HostInv'
<1> DEFINE c == This
           m == [whole |-> TRUE, kernel |-> elf[c.place],
                 loader |-> IF Genuine THEN "good" ELSE "torn", padded |-> FALSE]
<1>0. /\ At("write") /\ "write" \notin SetupWords
      /\ \/ Ended /\ UNCHANGED iso
         \/ Forward(1) /\ iso' = [iso EXCEPT ![c.place][c.stage] = m]
      /\ UNCHANGED <<tree, head, assets, elf, log, fixture, qemu, said>>
  BY DEF image_write, ToolRoot, SetupWords, Assets, LIMINE_FILES, sources
<1>1. /\ TypeOK /\ FilesTyped /\ DiskInv /\ PassIsEarned /\ BootsThisBuild
      /\ pc # 0 /\ Program[pc].do = "write" /\ Promise(Program[pc])
      /\ c \in Cases /\ c.place \in Places /\ c.stage \in Stages /\ given \in 1 .. MaxCommands
      /\ command.name = "check" => Genuine
  BY <1>0, AtBuild
<1>2. ~qemu'.running
  BY <1>0, <1>1, NoneRuns
<1>3. CASE Ended /\ UNCHANGED iso
  <2>1. UNCHANGED Files
    BY <1>0, <1>3 DEF Files, sources, built
  <2>2. QED BY <1>1, <1>3, <2>1, TestEnds
<1>4. CASE Forward(1) /\ iso' = [iso EXCEPT ![c.place][c.stage] = m]
  <2>1. given' = given
    BY <1>1, <1>4, Advance DEF Ended
  <2>2. build_guard(c) /\ Right(elf[c.place], c) /\ elf[c.place].by = given
    BY <1>1 DEF Promise, This
  <2>3. m \in Images
    BY <1>1 DEF FilesTyped, Images
  <2>4. m.whole /\ m.kernel = elf[c.place] /\ (command.name = "check" => m.loader = "good")
    BY <1>1
  <2>5. m.kernel.whole /\ m.kernel.stage = c.stage /\ m.kernel.sources.patched = (c.place = "fixture")
        /\ (c.stage # M6 => m.kernel.fault = 1 /\ m.kernel.attack = 0)
    BY <2>2, <2>4 DEF Right, build_guard
  <2> HIDE DEF m, c
  <2>6. /\ iso' \in [Places -> [Stages -> Images]] /\ iso'[c.place][c.stage] = m
        /\ \A p \in Places, s \in Stages : iso'[p][s] = iso[p][s] \/ (p = c.place /\ s = c.stage /\ iso'[p][s] = m)
    BY <1>1, <1>4, <2>3 DEF FilesTyped
  <2>7. FilesTyped'
    BY <1>0, <1>1, <2>6 DEF FilesTyped
  <2>8. DiskInv'
    <3>1. ImagesSound'
      <4>1. SUFFICES ASSUME NEW p \in Places, NEW s \in Stages
                     PROVE  /\ iso'[p][s].whole =>
                                 /\ iso'[p][s].kernel.whole /\ iso'[p][s].kernel.stage = s
                                 /\ s # M6 => iso'[p][s].kernel.fault = 1 /\ iso'[p][s].kernel.attack = 0
                            /\ p = "project" => ~iso'[p][s].kernel.sources.patched
        BY DEF ImagesSound
      <4>2. CASE iso'[p][s] = iso[p][s]
        BY <1>1, <4>2 DEF DiskInv, ImagesSound
      <4>3. CASE p = c.place /\ s = c.stage /\ iso'[p][s] = m
        BY <2>5, <4>3
      <4>4. QED BY <2>6, <4>2, <4>3
    <3>2. QED BY <1>0, <1>1, <3>1 DEF DiskInv
  <2>9. PassIsEarned' /\ BootsThisBuild'
    BY <1>0, <1>1, <2>1 DEF PassIsEarned, BootsThisBuild, Right
  <2>10. LoaderKept'
    BY <1>0, <1>4, LoaderLeft
  <2>11. ASSUME command' = command /\ given' = given, NEW t \in AllSteps, After(Program[pc], t) PROVE Promise(t)'
    <3>1. CASE Opens(t)
      BY <3>1, OpensPromise
    <3>2. CASE t.of = c /\ t.do = "pad"
      <4>1. Fresh(iso[t.of.place][t.of.stage], t.of)'
        BY <2>2, <2>4, <2>6, <2>11, <3>2 DEF Fresh, Right
      <4>2. QED BY <3>2, <4>1 DEF Promise, ImageWords, SerialWords
    <3>3. QED BY <1>1, <2>11, <3>1, <3>2 DEF After, c, This
  <2>12. QED BY <1>1, <1>2, <1>4, <2>7, <2>8, <2>9, <2>10, <2>11, StepMoves
<1>5. QED BY <1>0, <1>3, <1>4

\* Padding changes nothing else of the image.
LEMMA PadStep ==
  ASSUME HostInv, image_pad
  PROVE  HostInv'
<1> DEFINE c == This
           m == iso[c.place][c.stage]
<1>0. /\ At("pad") /\ "pad" \notin SetupWords /\ Forward(1)
      /\ iso' = [iso EXCEPT ![c.place][c.stage].padded = TRUE]
      /\ UNCHANGED <<tree, head, assets, elf, log, fixture, qemu, said>>
  BY DEF image_pad, ToolRoot, SetupWords, Assets, LIMINE_FILES, sources
<1>1. /\ TypeOK /\ FilesTyped /\ DiskInv /\ PassIsEarned /\ BootsThisBuild
      /\ pc # 0 /\ Program[pc].do = "pad" /\ Promise(Program[pc])
      /\ c \in Cases /\ c.place \in Places /\ c.stage \in Stages
  BY <1>0, AtBuild
<1>2. ~qemu'.running
  BY <1>0, <1>1, NoneRuns
<1>3. given' = given
  BY <1>0, <1>1, Advance DEF Ended
<1>4. Fresh(m, c)
  BY <1>1 DEF Promise, This
<1> HIDE DEF c
<1>5. /\ iso' \in [Places -> [Stages -> Images]] /\ iso'[c.place][c.stage].padded
      /\ \A p \in Places, s \in Stages :
           /\ iso'[p][s].whole = iso[p][s].whole /\ iso'[p][s].kernel = iso[p][s].kernel
           /\ iso'[p][s].loader = iso[p][s].loader
  <2>1. iso \in [Places -> [Stages -> Images]]
    BY <1>1 DEF FilesTyped
  <2>2. iso' = [iso EXCEPT ![c.place] = [iso[c.place] EXCEPT ![c.stage] = [m EXCEPT !.padded = TRUE]]]
    BY <1>0
  <2>3. m \in Images
    BY <1>1, <2>1
  <2> DEFINE n == [m EXCEPT !.padded = TRUE]
  <2> HIDE DEF m
  <2>4. n \in Images /\ n.padded /\ n.whole = m.whole /\ n.kernel = m.kernel /\ n.loader = m.loader
    BY <2>3 DEF Images
  <2> HIDE DEF n
  <2>5. iso' = [iso EXCEPT ![c.place] = [iso[c.place] EXCEPT ![c.stage] = n]]
    BY <2>2 DEF n
  <2>6. /\ iso' \in [Places -> [Stages -> Images]] /\ iso'[c.place][c.stage] = n
        /\ \A p \in Places, s \in Stages : iso'[p][s] = iso[p][s] \/ (p = c.place /\ s = c.stage /\ iso'[p][s] = n)
    BY <1>1, <2>1, <2>4, <2>5
  <2>7. QED BY <2>4, <2>6 DEF m
<1> HIDE DEF m
<1>6. FilesTyped'
  BY <1>0, <1>1, <1>5 DEF FilesTyped
<1>7. DiskInv'
  <2>1. ImagesSound'
    BY <1>1, <1>5 DEF DiskInv, ImagesSound
  <2>2. QED BY <1>0, <1>1, <2>1 DEF DiskInv
<1>8. PassIsEarned' /\ BootsThisBuild'
  BY <1>0, <1>1, <1>3 DEF PassIsEarned, BootsThisBuild, Right
<1>9. LoaderKept'
  BY <1>0, LoaderLeft
<1>10. ASSUME command' = command /\ given' = given, NEW t \in AllSteps, After(Program[pc], t) PROVE Promise(t)'
  <2>1. CASE Opens(t)
    BY <2>1, OpensPromise
  <2>2. CASE t.of = c /\ t.do = "compare"
    <3>1. Fresh(iso[t.of.place][t.of.stage], t.of)'
      BY <1>1, <1>4, <1>5, <1>10, <2>2 DEF Fresh, Right, m
    <3>2. QED BY <1>5, <2>2, <3>1 DEF Promise, ImageWords, SerialWords
  <2>3. QED BY <1>1, <1>10, <2>1, <2>2 DEF After, c, This
<1>11. QED BY <1>0, <1>1, <1>2, <1>6, <1>7, <1>8, <1>9, <1>10, StepMoves

-----------------------------------------------------------------------------
(* serial_check, and the QEMU it starts.                                   *)

Qemus == [running : BOOLEAN, opened : BOOLEAN, image : Images, of : Cases,
          by : 0 .. MaxCommands, name : Names \cup {"none"}, wrote : SUBSET Marks]

\* Every case of the project has a log.
LEMMA LabelKnown ==
  ASSUME NEW c \in Cases, c.place = "project"
  PROVE  Label(c) \in Labels
<1>1. CASE command.name = "check"
  BY <1>1 DEF Label, Labels, Cases
<1>2. CASE command.name # "check"
  BY <1>2 DEF Label, Labels, Cases, Plain, Case
<1>3. QED BY <1>1, <1>2

\* The state of serial_check at one of its steps.
LEMMA AtSerial ==
  ASSUME HostInv, NEW w \in SerialWords, At(w)
  PROVE  /\ w \notin SetupWords /\ This.place = "project"
         /\ Label(This) \in Labels
         /\ Fresh(iso[This.place][This.stage], This) /\ iso[This.place][This.stage].padded
<1>1. w \notin SetupWords
  BY DEF SerialWords, SetupWords, Assets, LIMINE_FILES
<1>2. /\ Program[pc].do = w /\ Promise(Program[pc])
      /\ Program[pc] \in BuildSteps /\ This \in Cases
  BY <1>1, AtBuild
<1>3. This.place = "project"
  BY <1>2 DEF BuildSteps, This
<1>4. Label(This) \in Labels
  BY <1>2, <1>3, LabelKnown
<1>5. Fresh(iso[This.place][This.stage], This) /\ iso[This.place][This.stage].padded
  BY <1>2 DEF Promise, This, ImageWords
<1>6. QED BY <1>1, <1>3, <1>4, <1>5

\* The images on the disk are as good for the next step of the same kernel.
LEMMA ImageKept ==
  ASSUME NEW c, NEW d, SameKernelAs(c, d), UNCHANGED <<iso, command, given>>,
         Fresh(iso[c.place][c.stage], c), iso[c.place][c.stage].padded
  PROVE  Fresh(iso[d.place][d.stage], d)' /\ iso'[d.place][d.stage].padded
BY DEF SameKernelAs, Fresh, Right

\* The log and the last verdict are dropped before QEMU starts.
LEMMA ResetStep ==
  ASSUME HostInv, serial_reset
  PROVE  HostInv'
<1> DEFINE c == This
<1>0. /\ At("reset") /\ Forward(1) /\ log' = [log EXCEPT ![Label(c)] = {}] /\ said' = Silent
      /\ UNCHANGED <<tree, head, assets, elf, iso, fixture, qemu>>
  BY DEF serial_reset, Emptied, sources, built
<1>1. /\ "reset" \notin SetupWords /\ Label(c) \in Labels
      /\ Fresh(iso[c.place][c.stage], c) /\ iso[c.place][c.stage].padded
  BY <1>0, AtSerial DEF SerialWords
<1>2. /\ TypeOK /\ FilesTyped /\ DiskInv /\ BootsThisBuild
      /\ pc # 0 /\ Program[pc].do = "reset"
  BY <1>0, <1>1, AtBuild
<1>3. ~qemu'.running
  BY <1>0, <1>2, NoneRuns
<1>4. log' \in [Labels -> SUBSET Marks] /\ log'[Label(c)] = {}
  BY <1>0, <1>1, <1>2 DEF FilesTyped
<1>5. FilesTyped'
  BY <1>0, <1>2, <1>4, Blank DEF FilesTyped
<1>6. DiskInv' /\ BootsThisBuild'
  BY <1>0, <1>2 DEF DiskInv, ImagesSound, BootsThisBuild, Right
<1>7. PassIsEarned' /\ ~said'.pass
  BY <1>0, Blank DEF PassIsEarned
<1>8. LoaderKept'
  BY <1>0, <1>1, LoaderLeft
<1> HIDE DEF c
<1>9. ASSUME command' = command /\ given' = given, NEW t \in AllSteps, After(Program[pc], t) PROVE Promise(t)'
  <2>1. CASE Opens(t)
    BY <2>1, OpensPromise
  <2>2. CASE t.of = c /\ t.do = "popen"
    <3>1. SameKernelAs(c, t.of)
      BY <2>2 DEF SameKernelAs
    <3>2. Fresh(iso[t.of.place][t.of.stage], t.of)' /\ iso'[t.of.place][t.of.stage].padded
      BY <1>0, <1>1, <1>9, <3>1, ImageKept
    <3>3. Label(t.of)' = Label(c)
      BY <1>9, <2>2 DEF Label
    <3>4. log'[Label(t.of)'] = {}
      BY <1>4, <3>3
    <3>5. QED BY <1>7, <2>2, <3>2, <3>4 DEF Promise
  <2>3. QED BY <1>2, <1>9, <2>1, <2>2 DEF After, c, This
<1>10. QED BY <1>0, <1>2, <1>3, <1>5, <1>6, <1>7, <1>8, <1>9, StepMoves

\* Boot, field by field.
LEMMA BootIs ==
  ASSUME NEW c
  PROVE  Boot(c) = [running |-> FALSE, opened |-> FALSE, image |-> iso[c.place][c.stage],
                    of |-> c, by |-> given, name |-> command.name, wrote |-> {}]
<1> DEFINE m == iso[c.place][c.stage]
<1>1. Boot(c) = [NoBoot EXCEPT !.image = m, !.of = c, !.by = given, !.name = command.name]
  BY DEF Boot, ToolRoot
<1> HIDE DEF m
<1>2. Boot(c) = [running |-> FALSE, opened |-> FALSE, image |-> m,
                 of |-> c, by |-> given, name |-> command.name, wrote |-> {}]
  BY <1>1 DEF NoBoot
<1>3. QED BY <1>2 DEF m

\* What Boot makes of an image that is fresh.
LEMMA Booting ==
  ASSUME FilesTyped, CommandTyped, pc # 0, This \in Cases,
         Fresh(iso[This.place][This.stage], This), iso[This.place][This.stage].padded,
         NEW r \in BOOLEAN, qemu' = [Boot(This) EXCEPT !.running = r]
  PROVE  /\ qemu' \in Qemus /\ BootsThisBuild'
         /\ qemu'.running = r /\ qemu'.of = This /\ qemu'.by = given /\ qemu'.wrote = {}
<1> DEFINE c == This
           m == iso[c.place][c.stage]
<1>1. c.place \in Places /\ c.stage \in Stages
  BY DEF Cases
<1>2. m \in Images
  BY <1>1 DEF FilesTyped
<1>3. given \in 0 .. MaxCommands /\ command.name \in Names
  BY DEF CommandTyped
<1> HIDE DEF m, c
<1>4. /\ qemu' \in Qemus /\ qemu'.image = m /\ qemu'.of = c /\ qemu'.by = given
      /\ qemu'.name = command.name /\ qemu'.wrote = {} /\ qemu'.running = r
  <2>1. qemu' = [Boot(c) EXCEPT !.running = r] /\ c \in Cases
    BY DEF c
  <2> DEFINE b == [running |-> FALSE, opened |-> FALSE, image |-> m, of |-> c, by |-> given,
                   name |-> command.name, wrote |-> {}]
  <2>2. Boot(c) = b
    BY BootIs DEF m
  <2>3. qemu' = [b EXCEPT !.running = r]
    BY <2>1, <2>2
  <2>4. QED BY <1>2, <1>3, <2>1, <2>3 DEF Qemus
<1>5. Fresh(m, c) /\ m.padded
  BY DEF m, c
<1>6. BootsThisBuild'
  BY <1>4, <1>5 DEF BootsThisBuild, Fresh, Right
<1>7. QED BY <1>4, <1>6 DEF c

\* QEMU starts with the image of this build and an empty log.
LEMMA PopenStep ==
  ASSUME HostInv, serial_popen
  PROVE  HostInv'
<1> DEFINE c == This
<1>0. /\ At("popen") /\ Forward(1) /\ qemu' = [Boot(c) EXCEPT !.running = TRUE]
      /\ UNCHANGED <<tree, head, assets, elf, iso, fixture, log, said>>
  BY DEF serial_popen, sources, built
<1>1. /\ "popen" \notin SetupWords /\ Label(c) \in Labels
      /\ Fresh(iso[c.place][c.stage], c) /\ iso[c.place][c.stage].padded
  BY <1>0, AtSerial DEF SerialWords
<1>2. /\ TypeOK /\ FilesTyped /\ CommandTyped /\ DiskInv
      /\ pc # 0 /\ Program[pc].do = "popen" /\ Promise(Program[pc]) /\ c \in Cases
  BY <1>0, <1>1, AtBuild
<1>3. log[Label(c)] = {} /\ ~said.pass
  BY <1>2 DEF Promise, This
<1>4. /\ qemu' \in Qemus /\ BootsThisBuild'
      /\ qemu'.of = c /\ qemu'.by = given /\ qemu'.wrote = {}
  BY <1>0, <1>1, <1>2, Booting
<1>5. FilesTyped'
  BY <1>0, <1>2, <1>4 DEF FilesTyped, Qemus
<1>6. DiskInv' /\ PassIsEarned'
  BY <1>0, <1>2, <1>3 DEF DiskInv, ImagesSound, PassIsEarned
<1>7. LoaderKept'
  BY <1>0, <1>1, LoaderLeft
<1> HIDE DEF c
<1>8. ASSUME command' = command /\ given' = given, NEW t \in AllSteps, After(Program[pc], t) PROVE Promise(t)'
  <2>1. CASE Opens(t)
    BY <2>1, OpensPromise
  <2>2. CASE t.of = c /\ t.do = "watch"
    <3>1. SameKernelAs(c, t.of)
      BY <2>2 DEF SameKernelAs
    <3>2. Fresh(iso[t.of.place][t.of.stage], t.of)' /\ iso'[t.of.place][t.of.stage].padded
      BY <1>0, <1>1, <1>8, <3>1, ImageKept
    <3>3. Label(t.of)' = Label(c)
      BY <1>8, <2>2 DEF Label
    <3>4. log'[Label(t.of)'] \subseteq qemu'.wrote
      BY <1>0, <1>3, <3>3
    <3>5. QED BY <1>4, <1>8, <2>2, <3>2, <3>4 DEF Promise
  <2>3. QED BY <1>2, <1>8, <2>1, <2>2 DEF After, c, This
<1>9. Program[pc].do \in Busy
  BY <1>2 DEF Busy
<1>10. QED BY <1>0, <1>2, <1>4, <1>5, <1>6, <1>7, <1>8, <1>9, StepMoves

\* QEMU is stopped; the log has nothing that it did not write.
LEMMA StopStep ==
  ASSUME HostInv, serial_stop
  PROVE  HostInv'
<1> DEFINE c == This
<1>0. /\ At("stop") /\ Forward(1) /\ qemu' = Stopped
      /\ UNCHANGED <<tree, head, assets, elf, iso, fixture, log, said>>
  BY DEF serial_stop, sources, built
<1>1. /\ "stop" \notin SetupWords /\ Label(c) \in Labels
      /\ Fresh(iso[c.place][c.stage], c) /\ iso[c.place][c.stage].padded
  BY <1>0, AtSerial DEF SerialWords
<1>2. /\ TypeOK /\ FilesTyped /\ DiskInv /\ PassIsEarned /\ BootsThisBuild
      /\ pc # 0 /\ Program[pc].do = "stop" /\ Promise(Program[pc]) /\ c \in Cases
  BY <1>0, <1>1, AtBuild
<1>3. qemu.of = c /\ qemu.by = given /\ log[Label(c)] \subseteq qemu.wrote
  BY <1>2 DEF Promise, This
<1>4. given' = given
  BY <1>0, <1>2, Advance DEF Ended
<1>5. /\ PassIsEarned' /\ BootsThisBuild' /\ ~qemu'.running
      /\ qemu'.of = c /\ qemu'.by = given /\ log[Label(c)] \subseteq qemu'.wrote
      /\ qemu' \in Qemus
  BY <1>0, <1>2, <1>3, <1>4, StoppedSame DEF Qemus
<1>6. FilesTyped'
  BY <1>0, <1>2, <1>5 DEF FilesTyped, Qemus
<1>7. DiskInv'
  BY <1>0, <1>2 DEF DiskInv, ImagesSound
<1>8. LoaderKept'
  BY <1>0, <1>1, LoaderLeft
<1> HIDE DEF c
<1>9. ASSUME command' = command /\ given' = given, NEW t \in AllSteps, After(Program[pc], t) PROVE Promise(t)'
  <2>1. CASE Opens(t)
    BY <2>1, OpensPromise
  <2>2. CASE t.of = c /\ t.do = "verdict"
    <3>1. SameKernelAs(c, t.of)
      BY <2>2 DEF SameKernelAs
    <3>2. Fresh(iso[t.of.place][t.of.stage], t.of)' /\ iso'[t.of.place][t.of.stage].padded
      BY <1>0, <1>1, <1>9, <3>1, ImageKept
    <3>3. Label(t.of)' = Label(c)
      BY <1>9, <2>2 DEF Label
    <3>4. log'[Label(t.of)'] \subseteq qemu'.wrote
      BY <1>0, <1>5, <3>3
    <3>5. QED BY <1>5, <1>9, <2>2, <3>2, <3>4 DEF Promise
  <2>3. QED BY <1>2, <1>9, <2>1, <2>2 DEF After, c, This
<1>10. QED BY <1>0, <1>2, <1>5, <1>6, <1>7, <1>8, <1>9, StepMoves

\* The verdict rests on lines in the log, all of them written by this QEMU.
LEMMA VerdictStep ==
  ASSUME HostInv, serial_verdict
  PROVE  HostInv'
<1> DEFINE c == This
           W == Witnesses(c)
           ok == W \subseteq log[Label(c)]
<1>0. /\ At("verdict") /\ Require(ok)
      /\ said' = IF ok THEN [pass |-> TRUE, of |-> c, need |-> W] ELSE Silent
      /\ UNCHANGED <<tree, head, assets, elf, iso, fixture, log, qemu>>
  BY DEF serial_verdict, sources, built
<1>1. /\ "verdict" \notin SetupWords /\ Label(c) \in Labels
      /\ Fresh(iso[c.place][c.stage], c) /\ iso[c.place][c.stage].padded
  BY <1>0, AtSerial DEF SerialWords
<1>2. /\ TypeOK /\ FilesTyped /\ DiskInv /\ BootsThisBuild
      /\ pc # 0 /\ Program[pc].do = "verdict" /\ Promise(Program[pc]) /\ c \in Cases
      /\ given \in 1 .. MaxCommands
  BY <1>0, <1>1, AtBuild
<1>3. qemu.of = c /\ qemu.by = given /\ log[Label(c)] \subseteq qemu.wrote
  BY <1>2 DEF Promise, This
<1>4. W \subseteq Marks
  <2>1. c.stage \in Stages /\ c.fault \in {1} \cup ToSet(FaultCases) /\ c.attack \in {0} \cup ToSet(AttackCases)
    BY <1>2 DEF Cases
  <2>2. /\ \A x \in Stages : x \in 0 .. LAB
        /\ \A x \in {1} \cup ToSet(FaultCases) : x \in 0 .. LAB
        /\ \A x \in {0} \cup ToSet(AttackCases) : x \in 0 .. LAB
    BY Values
  <2> HIDE DEF c
  <2>3. c.stage \in 0 .. LAB /\ c.fault \in 0 .. LAB /\ c.attack \in 0 .. LAB
    BY <2>1, <2>2
  <2>4. QED BY <2>3 DEF Witnesses, Marks
<1>5. ~qemu.running
  BY <1>2, NoneRuns
<1>6. given' = given
  BY <1>0, <1>2, Advance DEF Require, Ended
<1>7. Right(qemu.image.kernel, c)
  BY <1>2, <1>3 DEF BootsThisBuild
<1> HIDE DEF c, W
<1>8. said' \in [pass : BOOLEAN, of : Cases, need : SUBSET Marks]
  BY <1>0, <1>2, <1>4, Blank
<1>9. FilesTyped'
  BY <1>0, <1>2, <1>8 DEF FilesTyped
<1>10. DiskInv' /\ BootsThisBuild'
  BY <1>0, <1>2 DEF DiskInv, ImagesSound, BootsThisBuild, Right
<1>11. PassIsEarned'
  <2>1. CASE ok
    <3>1. said'.of = c /\ said'.need = W
      BY <1>0, <2>1
    <3>2. W \subseteq qemu'.wrote /\ qemu'.of = c /\ qemu'.by = given' /\ qemu'.image = qemu.image
      BY <1>0, <1>3, <1>6, <2>1
    <3>3. QED BY <1>7, <3>1, <3>2 DEF PassIsEarned, Right
  <2>2. CASE ~ok
    BY <1>0, <2>2, Blank DEF PassIsEarned
  <2>3. QED BY <2>1, <2>2
<1>12. CASE ok
  <2>1. Forward(1)
    BY <1>0, <1>12 DEF Require
  <2>2. LoaderKept'
    BY <1>0, <1>1, <2>1, LoaderLeft
  <2>3. ASSUME command' = command /\ given' = given, NEW t \in AllSteps, After(Program[pc], t) PROVE Promise(t)'
    <3>1. CASE Opens(t)
      BY <3>1, OpensPromise
    <3>2. CASE SameKernelAs(c, t.of) /\ t.do \in {"reset", "depths"}
      <4>1. Fresh(iso[t.of.place][t.of.stage], t.of)' /\ iso'[t.of.place][t.of.stage].padded
        BY <1>0, <1>1, <2>3, <3>2, ImageKept
      <4>2. QED BY <3>2, <4>1 DEF Promise
    <3>3. QED BY <1>2, <2>3, <3>1, <3>2 DEF After, c, This, SameKernelAs
  <2>4. QED BY <1>0, <1>2, <1>5, <1>9, <1>10, <1>11, <2>1, <2>2, <2>3, StepMoves
<1>13. CASE ~ok
  <2>1. Ended
    BY <1>0, <1>13 DEF Require
  <2>2. QED BY <1>0, <1>5, <1>9, <1>10, <1>11, <2>1, StepEnds
<1>14. QED BY <1>12, <1>13

\* What QEMU does to its own state and to its log while it runs.
LEMMA QemuWrites ==
  ASSUME HostInv, qemu.running, qemu' \in Qemus,
         qemu'.image = qemu.image, qemu'.of = qemu.of, qemu'.by = qemu.by,
         qemu'.name = qemu.name, qemu.wrote \subseteq qemu'.wrote,
         NEW L \in SUBSET Marks, log' = [log EXCEPT ![Label(qemu.of)] = L],
         log[Label(qemu.of)] \subseteq qemu.wrote => L \subseteq qemu'.wrote,
         UNCHANGED <<tree, head, assets, elf, iso, fixture, command, pc, given, said>>
  PROVE  HostInv'
<1>1. /\ TypeOK /\ FilesTyped /\ DiskInv /\ PassIsEarned /\ BootsThisBuild
      /\ Here # {} /\ \A s \in Here : Promise(s) /\ s.do \in {"watch", "stop"}
  BY DEF HostInv, TypeOK, Watched, Here
<1>2. pc # 0 /\ Here = {Program[pc]}
  BY <1>1 DEF Here
<1> DEFINE w == Program[pc].do
           c == qemu.of
<1>3. At(w) /\ w \in {"watch", "stop"} /\ w \in SerialWords
  BY <1>1, <1>2 DEF At, SerialWords
<1>4. /\ This = c /\ log[Label(c)] \subseteq qemu.wrote
  BY <1>1, <1>2, <1>3 DEF Promise, This
<1>5. Label(c) \in Labels
  BY <1>3, <1>4, AtSerial
<1>6. log' \in [Labels -> SUBSET Marks] /\ log'[Label(c)] = L
  BY <1>1, <1>5 DEF FilesTyped
<1>7. FilesTyped'
  BY <1>1, <1>6 DEF FilesTyped, Qemus
<1>8. Program' = Program /\ Here' = Here
  BY DEF Program, Here
<1>9. CommandTyped' /\ LoaderKept' /\ Watched'
  BY <1>1, <1>8 DEF HostInv, TypeOK, CommandTyped, LoaderKept, Genuine, Watched
<1>10. DiskInv' /\ PassIsEarned' /\ BootsThisBuild'
  BY <1>1 DEF DiskInv, ImagesSound, PassIsEarned, BootsThisBuild, Right
<1>11. (\A s \in Here : Promise(s))'
  <2>1. SUFFICES ASSUME NEW s \in Here' PROVE Promise(s)'
    OBVIOUS
  <2>2. s = Program[pc] /\ s.do \in {"watch", "stop"} /\ Promise(s) /\ s.of = c
    BY <1>1, <1>2, <1>4, <1>8 DEF This
  <2>3. /\ Fresh(iso[s.of.place][s.of.stage], s.of) /\ iso[s.of.place][s.of.stage].padded
        /\ qemu.by = given
    BY <2>2 DEF Promise, ImageWords, SerialWords
  <2>4. Fresh(iso[s.of.place][s.of.stage], s.of)' /\ iso'[s.of.place][s.of.stage].padded
    <3>1. SameKernelAs(s.of, s.of)
      BY DEF SameKernelAs
    <3>2. QED BY <2>3, <3>1, ImageKept
  <2>5. Label(s.of)' = Label(c)
    BY <2>2 DEF Label
  <2>6. log'[Label(s.of)'] \subseteq qemu'.wrote /\ qemu'.of = s.of /\ qemu'.by = given'
    BY <1>4, <1>6, <2>2, <2>3, <2>5
  <2>7. QED BY <2>2, <2>4, <2>6 DEF Promise
<1>12. QED BY <1>7, <1>9, <1>10, <1>11 DEF HostInv, TypeOK

\* QEMU truncates its log.
LEMMA OpensStep ==
  ASSUME HostInv, qemu_opens
  PROVE  HostInv'
<1>0. /\ qemu.running /\ qemu' = [qemu EXCEPT !.opened = TRUE]
      /\ log' = [log EXCEPT ![Label(qemu.of)] = {}]
      /\ UNCHANGED <<tree, head, assets, elf, iso, fixture, command, pc, given, said>>
  BY DEF qemu_opens, sources, built, process
<1>1. qemu \in Qemus
  BY DEF HostInv, TypeOK, FilesTyped, Qemus
<1>2. /\ qemu' \in Qemus /\ qemu'.image = qemu.image /\ qemu'.of = qemu.of /\ qemu'.by = qemu.by
      /\ qemu'.name = qemu.name /\ qemu'.wrote = qemu.wrote
  BY <1>0, <1>1 DEF Qemus
<1>3. /\ {} \in SUBSET Marks /\ qemu.wrote \subseteq qemu'.wrote
      /\ log[Label(qemu.of)] \subseteq qemu.wrote => {} \subseteq qemu'.wrote
  BY <1>2
<1> DEFINE L == {}
<1>4. /\ L \in SUBSET Marks /\ log' = [log EXCEPT ![Label(qemu.of)] = L]
      /\ log[Label(qemu.of)] \subseteq qemu.wrote => L \subseteq qemu'.wrote
  BY <1>0, <1>3
<1> HIDE DEF L
<1>5. QED BY <1>0, <1>2, <1>3, <1>4, QemuWrites

\* Every line of a kernel is a mark.
LEMMA PrintsMarks ==
  ASSUME NEW k \in Kernels
  PROVE  Prints(k) \in Seq(Marks)
<1> DEFINE M(what, n) == <<<<what, n>>>>
           a == M("entered", k.stage)
           b == IF k.attack = 3 THEN M("depths", 3) ELSE << >>
           c == IF k.attack > 0 THEN M("attack", k.attack) ELSE << >>
           d == IF k.fault > 1 THEN M("fault", k.fault) ELSE << >>
           e == IF k.stage > 0 THEN M("passed", k.stage) ELSE << >>
           f == <<<<"panic", 0>>, <<"stop", k.stage>>>>
<1>1. k.stage \in 0 .. LAB /\ k.attack \in 0 .. LAB /\ k.fault \in 0 .. LAB /\ 3 \in 0 .. LAB /\ 0 \in 0 .. LAB
  BY DEF Kernels, LAB
<1>2. /\ <<"entered", k.stage>> \in Marks /\ <<"depths", 3>> \in Marks
      /\ <<"attack", k.attack>> \in Marks /\ <<"fault", k.fault>> \in Marks
      /\ <<"passed", k.stage>> \in Marks /\ <<"panic", 0>> \in Marks /\ <<"stop", k.stage>> \in Marks
  BY <1>1 DEF Marks
<1>3. /\ a \in Seq(Marks) /\ b \in Seq(Marks) /\ c \in Seq(Marks)
      /\ d \in Seq(Marks) /\ e \in Seq(Marks) /\ f \in Seq(Marks)
  BY <1>2
<1>4. Prints(k) = a \o b \o c \o d \o e \o f
  BY DEF Prints
<1> HIDE DEF a, b, c, d, e, f
<1>5. QED BY <1>3, <1>4

\* The guest prints a line.
LEMMA WritesStep ==
  ASSUME HostInv, guest_writes
  PROVE  HostInv'
<1> DEFINE prints == Prints(qemu.image.kernel)
           n == Cardinality(qemu.wrote)
<1>1. PICK mark \in {<<"panic", 0>>} \cup {prints[i] : i \in DOMAIN prints \cap {n + 1}} :
        /\ qemu' = [qemu EXCEPT !.wrote = @ \cup {mark}]
        /\ log' = [log EXCEPT ![Label(qemu.of)] = @ \cup {mark}]
  BY DEF guest_writes
<1>2. /\ qemu.running
      /\ UNCHANGED <<tree, head, assets, elf, iso, fixture, command, pc, given, said>>
  BY DEF guest_writes, sources, built, process
<1>3. FilesTyped /\ qemu \in Qemus
  BY DEF HostInv, TypeOK, FilesTyped, Qemus
<1>4. mark \in Marks
  <2>1. prints \in Seq(Marks)
    BY <1>3, PrintsMarks DEF Qemus, Images
  <2>2. \A i \in DOMAIN prints : prints[i] \in Marks
    BY <2>1
  <2>3. <<"panic", 0>> \in Marks
    BY DEF Marks, LAB
  <2> HIDE DEF prints, n
  <2>4. QED BY <1>1, <2>2, <2>3
<1> HIDE DEF prints, n
<1>5. /\ qemu' \in Qemus /\ qemu'.image = qemu.image /\ qemu'.of = qemu.of /\ qemu'.by = qemu.by
      /\ qemu'.name = qemu.name /\ qemu'.wrote = qemu.wrote \cup {mark}
  BY <1>1, <1>3, <1>4 DEF Qemus
<1> DEFINE L == log[Label(qemu.of)] \cup {mark}
<1>6. Label(qemu.of) \in Labels
  <2>1. PICK s \in Here : s.do \in {"watch", "stop"}
    BY <1>2 DEF HostInv, Watched
  <2>2. pc # 0 /\ s = Program[pc] /\ Promise(s)
    BY <2>1 DEF Here, HostInv
  <2>3. At(s.do) /\ s.do \in SerialWords /\ This = qemu.of
    BY <2>1, <2>2 DEF At, SerialWords, Promise, This
  <2>4. QED BY <2>3, AtSerial
<1>7. L \in SUBSET Marks
  BY <1>3, <1>4, <1>6 DEF FilesTyped
<1>8. log' = [log EXCEPT ![Label(qemu.of)] = L]
  BY <1>1
<1>9. qemu.wrote \subseteq qemu'.wrote /\ (log[Label(qemu.of)] \subseteq qemu.wrote => L \subseteq qemu'.wrote)
  BY <1>5
<1> HIDE DEF L
<1>10. QED BY <1>2, <1>5, <1>7, <1>8, <1>9, QemuWrites

\* QEMU ends on its own.
LEMMA ExitsStep ==
  ASSUME HostInv, qemu_exits
  PROVE  HostInv'
<1>0. /\ qemu.running /\ qemu' = Stopped
      /\ UNCHANGED <<tree, head, assets, elf, iso, fixture, log, command, pc, given, said>>
  BY DEF qemu_exits, sources, built, process
<1>1. FilesTyped /\ PassIsEarned /\ BootsThisBuild
  BY DEF HostInv, TypeOK
<1>2. /\ PassIsEarned' /\ BootsThisBuild' /\ ~qemu'.running
      /\ qemu'.of = qemu.of /\ qemu'.by = qemu.by /\ qemu'.wrote = qemu.wrote
      /\ qemu' \in Qemus
  BY <1>0, <1>1, StoppedSame DEF Qemus
<1>3. FilesTyped'
  BY <1>0, <1>1, <1>2 DEF FilesTyped, Qemus
<1>4. Program' = Program /\ Here' = Here
  BY <1>0 DEF Program, Here
<1>5. CommandTyped' /\ LoaderKept' /\ Watched' /\ DiskInv'
  BY <1>0, <1>2, <1>4 DEF HostInv, TypeOK, CommandTyped, LoaderKept, Genuine, Watched, DiskInv, ImagesSound
<1>6. (\A s \in Here : Promise(s))'
  <2>1. SUFFICES ASSUME NEW s \in Here' PROVE Promise(s)'
    OBVIOUS
  <2>2. Promise(s)
    BY <1>4, <2>1 DEF HostInv
  <2>3. QED BY <1>0, <1>2, <2>2 DEF Promise, Fresh, Right, build_guard, Label
<1>7. QED BY <1>2, <1>3, <1>5, <1>6 DEF HostInv, TypeOK

-----------------------------------------------------------------------------
(* LAB sessions and the disposable copy.                                   *)

\* A LAB session boots the image of this build.
LEMMA LabStep ==
  ASSUME HostInv, lab_session
  PROVE  HostInv'
<1> DEFINE c == This
<1>0. /\ At("lab") /\ "lab" \notin SetupWords /\ Forward(1) /\ qemu' = Boot(c) /\ said' = Silent
      /\ UNCHANGED <<tree, head, assets, elf, iso, fixture, log>>
  BY DEF lab_session, sources, built, SetupWords, Assets, LIMINE_FILES
<1>1. /\ TypeOK /\ FilesTyped /\ CommandTyped /\ DiskInv
      /\ pc # 0 /\ Program[pc].do = "lab" /\ Promise(Program[pc]) /\ c \in Cases
  BY <1>0, AtBuild
<1>2. Fresh(iso[c.place][c.stage], c) /\ iso[c.place][c.stage].padded
  BY <1>1 DEF Promise, This, ImageWords
<1>3. qemu' = [Boot(c) EXCEPT !.running = FALSE]
  <2> HIDE DEF c
  <2>1. Boot(c) = [Boot(c) EXCEPT !.running = FALSE]
    BY BootIs
  <2>2. QED BY <1>0, <2>1
<1>4. qemu' \in Qemus /\ BootsThisBuild' /\ qemu'.running = FALSE
  BY <1>1, <1>2, <1>3, Booting
<1>5. FilesTyped'
  BY <1>0, <1>1, <1>4, Blank DEF FilesTyped, Qemus
<1>6. DiskInv' /\ PassIsEarned'
  BY <1>0, <1>1, Blank DEF DiskInv, ImagesSound, PassIsEarned
<1>7. LoaderKept'
  BY <1>0, LoaderLeft
<1> HIDE DEF c
<1>8. ASSUME command' = command /\ given' = given, NEW t \in AllSteps, After(Program[pc], t) PROVE Promise(t)'
  <2>1. CASE Opens(t)
    BY <2>1, OpensPromise
  <2>2. CASE t.of = c /\ t.do = "lab"
    <3>1. SameKernelAs(c, t.of)
      BY <2>2 DEF SameKernelAs
    <3>2. Fresh(iso[t.of.place][t.of.stage], t.of)' /\ iso'[t.of.place][t.of.stage].padded
      BY <1>0, <1>2, <1>8, <3>1, ImageKept
    <3>3. QED BY <2>2, <3>2 DEF Promise
  <2>3. QED BY <1>1, <1>8, <2>1, <2>2 DEF After, c, This
<1>9. QED BY <1>0, <1>1, <1>4, <1>5, <1>6, <1>7, <1>8, StepMoves

\* Only the disposable copy changes.
LEMMA FixtureSame ==
  ASSUME HostInv, fixture' \in Origin, given' = given,
         UNCHANGED <<tree, head, assets, elf, iso, log, qemu, said>>
  PROVE  FilesTyped' /\ DiskInv' /\ PassIsEarned' /\ BootsThisBuild'
<1>1. FilesTyped'
  BY DEF HostInv, TypeOK, FilesTyped
<1>2. DiskInv' /\ PassIsEarned' /\ BootsThisBuild'
  BY DEF HostInv, DiskInv, ImagesSound, PassIsEarned, BootsThisBuild, Right
<1>3. QED BY <1>1, <1>2

\* The copy is made afresh, without the patch.
LEMMA CopyStep ==
  ASSUME HostInv, check_copy
  PROVE  HostInv'
<1>0. /\ At("copy") /\ "copy" \notin SetupWords /\ Forward(1) /\ fixture' = Sources(tree, FALSE)
      /\ UNCHANGED <<tree, head, assets, elf, iso, log, qemu, said>>
  BY DEF check_copy, sources, SetupWords, Assets, LIMINE_FILES
<1>1. TypeOK /\ FilesTyped /\ pc # 0 /\ Program[pc].do = "copy"
  BY <1>0, AtBuild
<1>2. given' = given
  BY <1>0, <1>1, Advance DEF Ended
<1>3. fixture' \in Origin
  BY <1>0, <1>1, HostAssumption DEF FilesTyped, Sources, Origin
<1>4. FilesTyped' /\ DiskInv' /\ PassIsEarned' /\ BootsThisBuild'
  BY <1>0, <1>2, <1>3, FixtureSame
<1>5. ~qemu'.running
  BY <1>0, <1>1, NoneRuns
<1>6. LoaderKept'
  BY <1>0, LoaderLeft
<1>7. ASSUME NEW t \in AllSteps, After(Program[pc], t) PROVE Promise(t)'
  <2>1. Opens(t)
    BY <1>1, <1>7 DEF After
  <2>2. QED BY <2>1, OpensPromise
<1>8. QED BY <1>0, <1>1, <1>4, <1>5, <1>6, <1>7, StepMoves

\* Only a copy that took the patch is built.
LEMMA PatchStep ==
  ASSUME HostInv, check_patch
  PROVE  HostInv'
<1>0. /\ At("patch") /\ UNCHANGED <<tree, head, assets, elf, iso, log, qemu, said>>
  BY DEF check_patch, sources
<1>1. PICK applied \in BOOLEAN : fixture' = [fixture EXCEPT !.patched = applied] /\ Require(applied)
  BY DEF check_patch
<1>2. "patch" \notin SetupWords
  BY DEF SetupWords, Assets, LIMINE_FILES
<1>3. TypeOK /\ FilesTyped /\ pc # 0 /\ Program[pc].do = "patch"
  BY <1>0, <1>2, AtBuild
<1>4. given' = given
  BY <1>1, <1>3, Advance DEF Require, Ended
<1>5. fixture' \in Origin /\ fixture'.patched = applied
  BY <1>1, <1>3 DEF FilesTyped, Origin
<1>6. FilesTyped' /\ DiskInv' /\ PassIsEarned' /\ BootsThisBuild'
  BY <1>0, <1>4, <1>5, FixtureSame
<1>7. ~qemu'.running
  BY <1>0, <1>3, NoneRuns
<1>8. CASE applied
  <2>1. Forward(1)
    BY <1>1, <1>8 DEF Require
  <2>2. LoaderKept'
    BY <1>0, <1>2, <2>1, LoaderLeft
  <2>3. ASSUME NEW t \in AllSteps, After(Program[pc], t) PROVE Promise(t)'
    <3>1. CASE Opens(t)
      BY <3>1, OpensPromise
    <3>2. CASE t.do = "guard"
      BY <1>5, <1>8, <3>2 DEF Promise, ImageWords, SerialWords
    <3>3. QED BY <1>3, <2>3, <3>1, <3>2 DEF After
  <2>4. QED BY <1>3, <1>6, <1>7, <2>1, <2>2, <2>3, StepMoves
<1>9. CASE ~applied
  <2>1. Ended
    BY <1>1, <1>9 DEF Require
  <2>2. QED BY <1>6, <1>7, <2>1, StepEnds
<1>10. QED BY <1>8, <1>9

-----------------------------------------------------------------------------
(* The host tool.                                                          *)

\* A fresh checkout.
LEMMA HostInit == Init => HostInv
<1> SUFFICES ASSUME Init PROVE HostInv
  OBVIOUS
<1>1. FilesTyped
  <2>1. 1 \in 1 .. MaxVersion
    BY HostAssumption
  <2>2. QED BY <2>1, Blank DEF Init, FilesTyped
<1>2. CommandTyped
  <2>1. Program = << >>
    BY DEF Init, Nothing, Program, Steps
  <2>2. QED BY <2>1, HostAssumption DEF Init, CommandTyped
<1>3. DiskInv
  BY Blank DEF Init, DiskInv, ImagesSound, Places
<1>4. Watched /\ PassIsEarned /\ BootsThisBuild
  BY Blank DEF Init, Watched, PassIsEarned, BootsThisBuild
<1>5. LoaderKept
  BY DEF Init, Nothing, LoaderKept
<1>6. Here = {}
  BY DEF Init, Here
<1>7. QED BY <1>1, <1>2, <1>3, <1>4, <1>5, <1>6 DEF HostInv, TypeOK

\* Every step of the tool, of QEMU and of the user.
LEMMA HostNext ==
  ASSUME HostInv, Next
  PROVE  HostInv'
<1>1. ASSUME NEW name \in Names, NEW c \in Options, main(name, c) PROVE HostInv'
  BY <1>1, MainStep
<1>2. ASSUME NEW f \in Assets, prepare_write(f) PROVE HostInv'
  BY <1>2, PrepareStep
<1>3. QED
  BY <1>1, <1>2, RaisesStep, CachedStep, LinkStep, WriteStep, PadStep, TestStep, ResetStep,
     PopenStep, StopStep, VerdictStep, OpensStep, WritesStep, ExitsStep, LabStep, CopyStep,
     PatchStep, EditStep
  DEF Next, Names

\* A step in which nothing of the tool's state changes.
LEMMA HostSame ==
  ASSUME HostInv, UNCHANGED vars
  PROVE  HostInv'
<1>0. UNCHANGED Files /\ UNCHANGED <<command, pc, given>>
  BY DEF vars, Files, process
<1>1. FilesTyped' /\ DiskInv' /\ PassIsEarned' /\ BootsThisBuild'
  BY <1>0, FilesSame
<1>2. Program' = Program /\ Here' = Here
  BY <1>0 DEF Program, Here
<1>3. CommandTyped' /\ LoaderKept' /\ Watched'
  BY <1>0, <1>2 DEF HostInv, TypeOK, CommandTyped, LoaderKept, Genuine, Watched, Files
<1>4. (\A s \in Here : Promise(s))'
  <2>1. SUFFICES ASSUME NEW s \in Here' PROVE Promise(s)'
    OBVIOUS
  <2>2. Promise(s)
    BY <1>2, <2>1 DEF HostInv
  <2>3. QED BY <1>0, <2>2, PromiseSame DEF Files, built
<1>5. QED BY <1>1, <1>3, <1>4 DEF HostInv, TypeOK

-----------------------------------------------------------------------------
(* Packages.                                                               *)

\* The blank records of Package.
LEMMA BlankPackage ==
  /\ NoManifest \in Manifests
  /\ NoPackage \in Outs /\ NoPackage.platform = "none" /\ NoPackage.manifest = NoManifest
  /\ NoCopy \in Copies /\ NoCopy.platform = "none" /\ NoCopy.manifest = NoManifest
  /\ ~NoLaunch.running
<1>1. NoManifest \in Manifests
  BY Blank, HostAssumption DEF NoManifest, Manifests
<1>2. NoPackage \in Outs
  BY <1>1, Blank DEF NoPackage, Outs
<1>3. NoCopy \in Copies
  BY <1>1, <1>2, Blank DEF NoCopy, Copies
<1>4. QED BY <1>1, <1>2, <1>3 DEF NoPackage, NoCopy, NoLaunch

\* Before the first package.
LEMMA PackageStart == PackageInit => PackageInv
<1> SUFFICES ASSUME PackageInit PROVE PackageInv
  OBVIOUS
<1>1. HostInv
  BY HostInit DEF PackageInit
<1>2. PackageTyped /\ Kept
  BY BlankPackage DEF PackageInit, PackageTyped, Kept
<1>3. QED BY <1>1, <1>2 DEF PackageInv

\* While there is no package, the host tool goes on, and there is nothing of
\* a package that its step could invalidate.
LEMMA BuildsOn ==
  ASSUME PackageInv, out = NoPackage, Next, UNCHANGED packageVars
  PROVE  PackageInv'
<1>1. HostInv'
  BY HostNext DEF PackageInv
<1>2. UNCHANGED <<out, packing, copy, launched>>
  BY DEF packageVars
<1>3. packing = "none" /\ copy = NoCopy /\ ~launched.running
  BY BlankPackage DEF PackageInv, Kept
<1>4. PackageTyped'
  BY <1>2 DEF PackageInv, PackageTyped
<1>5. Kept'
  BY <1>2, <1>3, BlankPackage DEF Kept
<1>6. QED BY <1>1, <1>4, <1>5 DEF PackageInv

\* What the packager and the launcher compare with stays as it is while they
\* work.
LEMMA DiskSame ==
  ASSUME PackageInv, UNCHANGED vars
  PROVE  /\ HostInv' /\ given_iso' = given_iso /\ (SameKernel' <=> SameKernel)
         /\ elf'["project"] = elf["project"] /\ given_iso \in Images /\ elf["project"] \in Kernels
         /\ head \in 0 .. MaxVersion
<1>1. HostInv'
  BY HostSame DEF PackageInv
<1>2. UNCHANGED <<elf, iso>>
  BY DEF vars, built
<1>3. given_iso \in Images /\ elf["project"] \in Kernels /\ head \in 0 .. MaxVersion
  BY Values, HostAssumption DEF PackageInv, HostInv, TypeOK, FilesTyped, given_iso, Places
<1>4. QED BY <1>1, <1>2, <1>3 DEF given_iso, SameKernel

\* The packagers and a new output directory.
LEMMA PackagingStep ==
  ASSUME PackageInv,
         package_linux \/ package_desktop \/ package_image \/ package_manifest
         \/ package_archive \/ package_raises \/ fresh_output
  PROVE  PackageInv'
<1>0. UNCHANGED vars /\ UNCHANGED launched
  BY DEF package_linux, package_desktop, package_image, package_manifest, package_archive,
         package_raises, fresh_output, Started
<1>1. /\ HostInv' /\ given_iso' = given_iso /\ (SameKernel' <=> SameKernel)
      /\ elf'["project"] = elf["project"] /\ given_iso \in Images /\ elf["project"] \in Kernels
      /\ head \in 0 .. MaxVersion
  BY <1>0, DiskSame
<1>2. out \in Outs /\ copy \in Copies /\ Kept
  BY DEF PackageInv, PackageTyped
<1> SUFFICES PackageTyped' /\ Kept'
  BY <1>1 DEF PackageInv
<1>3. ASSUME NEW p \in {"linux", "windows"}, out = NoPackage, p = "linux" => SameKernel, Started(p)
      PROVE  PackageTyped' /\ Kept'
  <2>1. out' = [NoPackage EXCEPT !.platform = p, !.held = elf["project"]] /\ copy' = copy
    BY <1>3 DEF Started
  <2>2. out' \in Outs /\ out'.platform = p /\ out'.held = elf["project"] /\ out'.manifest = NoManifest
    BY <1>1, <2>1, BlankPackage DEF Outs
  <2>3. copy = NoCopy /\ ~launched.running
    BY <1>2, <1>3, BlankPackage DEF Kept
  <2>4. QED BY <1>0, <1>1, <1>2, <1>3, <2>1, <2>2, <2>3, BlankPackage DEF Kept, PackageTyped
<1>4. ASSUME copy' = copy, out' \in Outs, out.platform # "none",
             out'.platform = out.platform, out'.held = out.held,
             out'.manifest = out.manifest \/ out'.manifest.iso = given_iso
      PROVE  PackageTyped' /\ Kept'
  BY <1>0, <1>1, <1>2, <1>4 DEF Kept, PackageTyped, Verified
<1>5. CASE package_linux \/ package_desktop
  BY <1>3, <1>5 DEF package_linux, package_desktop
<1>6. CASE package_image
  <2>1. /\ out' \in Outs /\ out'.platform = out.platform /\ out'.held = out.held
        /\ out'.manifest = out.manifest
    BY <1>1, <1>2, <1>6 DEF package_image, Outs
  <2>2. out.platform # "none" /\ copy' = copy
    BY <1>2, <1>6 DEF package_image, Kept
  <2>3. QED BY <1>4, <2>1, <2>2
<1>7. CASE package_manifest
  <2> DEFINE m == [source |-> head, iso |-> given_iso]
  <2>1. m \in Manifests /\ m.iso = given_iso
    BY <1>1 DEF Manifests
  <2>2. out' = [out EXCEPT !.manifest = m]
    BY <1>7 DEF package_manifest
  <2> HIDE DEF m
  <2>3. /\ out' \in Outs /\ out'.platform = out.platform /\ out'.held = out.held
        /\ out'.manifest.iso = given_iso
    BY <1>2, <2>1, <2>2 DEF Outs
  <2>4. out.platform # "none" /\ copy' = copy
    BY <1>2, <1>7 DEF package_manifest, Kept
  <2>5. QED BY <1>4, <2>3, <2>4
<1>8. CASE package_archive \/ package_raises
  <2>1. /\ out' \in Outs /\ out'.platform = out.platform /\ out'.held = out.held
        /\ out'.manifest = out.manifest
    BY <1>2, <1>8 DEF package_archive, package_raises, Outs
  <2>2. out.platform # "none" /\ copy' = copy
    BY <1>2, <1>8 DEF package_archive, package_raises, Kept
  <2>3. QED BY <1>4, <2>1, <2>2
<1>9. CASE fresh_output
  BY <1>0, <1>9, BlankPackage DEF fresh_output, Kept, PackageTyped
<1>10. QED BY <1>5, <1>6, <1>7, <1>8, <1>9

\* The reader's machine.
LEMMA ReadersStep ==
  ASSUME PackageInv, unpack \/ damage \/ launch_linux \/ launch_desktop \/ launch_ends
  PROVE  PackageInv'
<1>0. UNCHANGED vars /\ UNCHANGED <<out, packing>>
  BY DEF unpack, damage, launch_linux, launch_desktop, launch_ends, Starts
<1>1. /\ HostInv' /\ given_iso' = given_iso /\ (SameKernel' <=> SameKernel)
      /\ elf'["project"] = elf["project"]
  BY <1>0, DiskSame
<1>2. out \in Outs /\ copy \in Copies /\ Kept
  BY DEF PackageInv, PackageTyped
<1> SUFFICES PackageTyped' /\ Kept'
  BY <1>1 DEF PackageInv
<1>3. CASE unpack
  <2> DEFINE from == [out EXCEPT !.archive = "absent"]
  <2>1. PICK image \in {out.image, NoImage}, manifest \in {out.manifest, NoManifest} :
          copy' = [platform |-> out.platform, image |-> image, manifest |-> manifest, from |-> from]
    BY <1>3 DEF unpack
  <2>2. from \in Outs /\ from.held = out.held
    BY <1>2 DEF Outs
  <2> HIDE DEF from
  <2>3. copy' \in Copies /\ copy'.platform = out.platform /\ copy'.manifest = manifest /\ copy'.from = from
    <3>1. out.platform \in {"none", "linux", "windows"} /\ image \in Images /\ manifest \in Manifests
      BY <1>2, <2>1, Blank, BlankPackage DEF Outs
    <3>2. QED BY <2>1, <2>2, <3>1 DEF Copies
  <2>4. out.platform # "none" /\ ~launched.running /\ launched' = launched
    BY <1>2, <1>3, BlankPackage DEF unpack, Kept, Verified
  <2>5. QED BY <1>0, <1>1, <1>2, <2>1, <2>2, <2>3, <2>4, BlankPackage DEF Kept, PackageTyped
<1>4. CASE damage
  <2>1. launched' = launched /\ ~launched.running /\ copy # NoCopy /\ copy' = [copy EXCEPT !.image = NoImage]
    BY <1>4 DEF damage
  <2>2. /\ copy' \in Copies /\ copy'.platform = copy.platform /\ copy'.manifest = copy.manifest
        /\ copy'.from = copy.from
    BY <1>2, <2>1, Blank DEF Copies
  <2>3. QED BY <1>0, <1>1, <1>2, <2>1, <2>2 DEF Kept, PackageTyped
<1>5. CASE launch_linux \/ launch_desktop
  <2>1. /\ launched'.image = copy.image /\ launched'.of = copy /\ copy' = copy /\ Verified(copy)
        /\ copy.platform # "none"
    BY <1>5 DEF launch_linux, launch_desktop, Starts
  <2>2. QED BY <1>0, <1>1, <1>2, <2>1, BlankPackage DEF Kept, PackageTyped, Verified
<1>6. CASE launch_ends
  <2>1. copy' = copy /\ ~launched'.running
    BY <1>6, BlankPackage DEF launch_ends
  <2>2. QED BY <1>0, <1>1, <1>2, <2>1 DEF Kept, PackageTyped
<1>7. QED BY <1>3, <1>4, <1>5, <1>6

\* Every step of the tools and of the reader keeps the invariant.
LEMMA PackageStep ==
  ASSUME PackageInv, [PackageNext]_allVars
  PROVE  PackageInv'
<1>1. CASE out = NoPackage /\ Next /\ UNCHANGED packageVars
  BY <1>1, BuildsOn
<1>2. CASE UNCHANGED allVars
  <2>1. UNCHANGED vars /\ UNCHANGED <<out, packing, copy, launched>>
    BY <1>2 DEF allVars, packageVars
  <2>2. /\ HostInv' /\ given_iso' = given_iso /\ (SameKernel' <=> SameKernel)
        /\ elf'["project"] = elf["project"]
    BY <2>1, DiskSame
  <2>3. QED BY <2>1, <2>2 DEF PackageInv, PackageTyped, Kept, Verified
<1>3. QED BY <1>1, <1>2, PackagingStep, ReadersStep DEF PackageNext

\* The inductive invariant holds in every state of the tools, the packages
\* and the launcher.
THEOREM PackageInvariant == PackageSpec => []PackageInv
<1>1. PackageInv /\ [PackageNext]_allVars => PackageInv'
  BY PackageStep
<1>2. QED BY <1>1, PackageStart, PTL DEF PackageSpec

-----------------------------------------------------------------------------
(* The theorems.                                                           *)

\* The files, QEMU and the command that runs keep their types; a command is
\* always at one of its own steps.
THEOREM HostTypeCorrect == PackageSpec => []TypeOK
<1>1. PackageInv => TypeOK
  BY DEF PackageInv, HostInv
<1>2. QED BY <1>1, PackageInvariant, PTL

\* serial_check prints PASS only for what the QEMU of that very check wrote.
THEOREM PassCorrect == PackageSpec => []PassIsEarned
<1>1. PackageInv => PassIsEarned
  BY DEF PackageInv, HostInv
<1>2. QED BY <1>1, PackageInvariant, PTL

\* run, lab and check boot only what they have built themselves.
THEOREM BootCorrect == PackageSpec => []BootsThisBuild
<1>1. PackageInv => BootsThisBuild
  BY DEF PackageInv, HostInv
<1>2. QED BY <1>1, PackageInvariant, PTL

\* The loader's files are genuine when setup comes to its doctor, whatever
\* an earlier prepare left behind.
THEOREM SetupCorrect == PackageSpec => []SetupRepairs
<1>1. PackageInv => SetupRepairs
  <2> SUFFICES ASSUME PackageInv, command.name = "setup", At("doctor") PROVE Genuine
    BY DEF SetupRepairs
  <2>1. TypeOK /\ LoaderKept /\ pc # 0 /\ Program[pc].do = "doctor"
    BY DEF PackageInv, HostInv, At
  <2>2. pc = 8
    BY <2>1, AtSetup
  <2>3. QED BY <2>1, <2>2 DEF LoaderKept
<1>2. QED BY <1>1, PackageInvariant, PTL

\* No kernel or image of the project holds the patched program of check's
\* probe.
THEOREM ProbeCorrect == PackageSpec => []ProbeStaysOut
<1>1. PackageInv => ProbeStaysOut
  BY DEF PackageInv, HostInv, DiskInv, ImagesSound, ProbeStaysOut, Places
<1>2. QED BY <1>1, PackageInvariant, PTL

\* A Linux package that starts a guest boots the finished LAB image its
\* packager saw.
THEOREM LaunchCorrect == PackageSpec => []LaunchBootsPackaged
<1>1. PackageInv => LaunchBootsPackaged
  <2> SUFFICES ASSUME PackageInv, launched.running, launched.of.platform = "linux"
               PROVE  /\ launched.image.whole
                      /\ launched.image.kernel = launched.of.from.held
                      /\ Right(launched.image.kernel, Plain(LAB, Memory0))
    BY DEF LaunchBootsPackaged
  <2>1. Kept /\ ImagesSound
    BY DEF PackageInv, HostInv, DiskInv
  <2>2. launched.of = copy /\ launched.image = copy.image /\ Verified(copy)
    BY <2>1 DEF Kept
  <2>3. launched.image = given_iso /\ SameKernel /\ copy.from.held = elf["project"]
    BY <2>1, <2>2 DEF Kept, Verified
  <2>4. /\ given_iso.kernel.whole /\ given_iso.kernel.stage = LAB /\ given_iso.kernel.fault = 1
        /\ given_iso.kernel.attack = 0 /\ ~given_iso.kernel.sources.patched
    BY <2>1, <2>3, Values DEF ImagesSound, SameKernel, given_iso, Places
  <2>5. given_iso.kernel.sources.patched \in BOOLEAN
    BY Values DEF PackageInv, HostInv, TypeOK, FilesTyped, given_iso, Places, Images, Kernels, Origin
  <2>6. Right(given_iso.kernel, Plain(LAB, Memory0))
    BY <2>4, <2>5 DEF Right, Plain, Case
  <2>7. QED BY <2>2, <2>3, <2>6 DEF SameKernel
<1>2. QED BY <1>1, PackageInvariant, PTL
=============================================================================
