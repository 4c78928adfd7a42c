----------------------------- MODULE HostBuild -----------------------------
(***************************************************************************)
(* tools/linux.py with make-image.py and qemu_host.py: the commands that   *)
(* prepare the loader's files, build a kernel, put it on an ISO, boot it   *)
(* and judge its serial log, over the files they leave on the disk.        *)
(*                                                                         *)
(* One command runs at a time (docs/LINUX.md asks for it).  A command is   *)
(* the sequence of its steps; at any of them a tool may fail or the user   *)
(* may press Ctrl+C, and a file that was being written is then torn.  The  *)
(* sources are edited between commands.  Files are records of what they    *)
(* were made from, so "the same bytes" is equality of records; by, the     *)
(* command that linked a kernel, is there for the properties.  Objects and *)
(* the user image are not kept: build makes every file it links.           *)
(***************************************************************************)
EXTENDS Integers, SequencesExt

CONSTANTS
  Levels,         \* the stages check builds in turn: 0 is M0, ..., 6 is M6
  AttackCases, FaultCases,   \* its counterexamples and faults, as sequences
  Memories,       \* the guest sizes, as a sequence
  MaxCommands,    \* bound on the commands given
  MaxVersion      \* bound on the versions of the sources

ASSUME HostAssumption ==
  /\ Levels \in Seq(0 .. 6) /\ Memories \in Seq(Nat) /\ Len(Memories) > 0
  /\ AttackCases \in Seq(1 .. 5) /\ FaultCases \in Seq(2 .. 7)
  /\ MaxCommands \in Nat /\ MaxVersion \in Nat \ {0}

VARIABLES
  tree, head,     \* versions of the working tree and of the last commit
  assets,         \* limine-binary/: the loader's files
  elf,            \* build/kernel.elf of each project
  iso,            \* images/minilinux-<stage>.iso of each tool root
  log,            \* build/linux-checks/<label>-serial.log
  fixture,        \* the disposable copy check makes of the sources
  qemu,           \* QEMU: running or not, and what it has booted
  command, pc, given,   \* the command, its next step, how many there were
  said            \* the last verdict printed

sources == <<tree, head>>
built   == <<elf, iso, fixture>>
process == <<command, pc, given>>
vars == <<sources, assets, built, log, qemu, process, said>>

M6  == 6
LAB == 7
Stages == ToSet(Levels) \cup {M6, LAB}
Places == {"project", "fixture"}            \* PROJECT and the probe's copy
LIMINE_FILES == {"limine-bios-cd.bin", "limine-bios.sys"}
Assets == LIMINE_FILES \cup {"LICENSE"}

\* What a step is about: a build, and the guest it is for.
Case(place, stage, fault, attack, memory) ==
  [place |-> place, stage |-> stage, fault |-> fault, attack |-> attack, memory |-> memory]
Plain(stage, memory) == Case("project", stage, 1, 0, memory)
Memory0 == Memories[1]

-----------------------------------------------------------------------------
(* The contents of files.                                                  *)

Sources(version, patched) == [version |-> version, patched |-> patched]
NoSources == Sources(0, FALSE)

NoKernel == [whole |-> FALSE, stage |-> 0, fault |-> 0, attack |-> 0,
             sources |-> NoSources, by |-> 0]
\* NoImage: not there, or torn.
NoImage  == [whole |-> FALSE, kernel |-> NoKernel, loader |-> "absent", padded |-> FALSE]
NoBoot   == [running |-> FALSE, opened |-> FALSE, image |-> NoImage, of |-> Plain(LAB, Memory0),
             by |-> 0, name |-> "none", wrote |-> {}]
Silent   == [pass |-> FALSE, of |-> Plain(LAB, Memory0), need |-> {}]
Nothing  == [name |-> "none", of |-> Plain(LAB, Memory0)]

\* The sources a project directory holds now.
SourcesOf(place) == IF place = "project" THEN Sources(tree, FALSE) ELSE fixture

\* serial_check's label.  run gives no case: every M6 build shares one.
Label(c) == IF command.name = "check" THEN c ELSE Plain(c.stage, c.memory)
Labels == [place : {"project"}, stage : Stages, fault : {1} \cup ToSet(FaultCases),
           attack : {0} \cup ToSet(AttackCases), memory : ToSet(Memories)]

-----------------------------------------------------------------------------
(* The commands as sequences of steps.                                     *)

Do(what, c) == <<[do |-> what, of |-> c]>>

Build(c) ==
  Do("guard", c) \o (IF c.stage >= 4 THEN Do("user", c) ELSE << >>)
  \o Do("link", c) \o Do("inspect", c)
Image(c)  == Do("write", c) \o Do("pad", c) \o Do("compare", c)
Serial(c) == Do("reset", c) \o Do("popen", c) \o Do("watch", c) \o Do("stop", c) \o Do("verdict", c)
Lab(c)    == Do("lab", c)

Each(s, Steps(_)) == FlattenSeq([i \in DOMAIN s |-> Steps(s[i])])
Made(c) == Build(c) \o Image(c)

\* One case of check, for every memory; attack 3 has more to show.
Booted(c) ==
  Each(Memories, LAMBDA m :
    Serial([c EXCEPT !.memory = m])
    \o (IF c.attack = 3 THEN Do("depths", [c EXCEPT !.memory = m]) ELSE << >>))

\* Mutant: the image is not made again for the next case.
CheckedOldImage(c) == Build(c) \o Booted(c)

Checked(c) == Made(c) \o Booted(c)

check ==
  LET lab   == Plain(LAB, Memory0)
      probe == Case("fixture", LAB, 1, 0, Memory0)
  IN Do("doctor", lab)
     \o Each(Levels, LAMBDA s : Checked(Plain(s, Memory0)))
     \o Each(AttackCases, LAMBDA a : Checked(Case("project", M6, 1, a, Memory0)))
     \o Each(FaultCases, LAMBDA f : Checked(Case("project", M6, f, 0, Memory0)))
     \o Made(Plain(M6, Memory0)) \o Made(lab)
     \o Lab(lab) \o Lab(lab) \o Lab(lab)      \* userland, bridge, boundaries
     \o Do("copy", probe) \o Do("patch", probe) \o Made(probe) \o Lab(probe)

prepare(c) == Do("download", c) \o Do("limine-bios-cd.bin", c)
              \o Do("limine-bios.sys", c) \o Do("LICENSE", c)

check_qemu(c) == Do("check_qemu", c)

setup(c) == check_qemu(c) \o Do("venv", c) \o Do("cached", c) \o prepare(c) \o Do("doctor", c)

Steps(name, c) ==
  CASE name = "setup"   -> setup(c)
    [] name = "prepare" -> prepare(c)
    [] name = "doctor"  -> Do("doctor", c)
    [] name = "build"   -> Made(c)
    [] name = "run"     -> check_qemu(c) \o Made(c) \o (IF c.stage = LAB THEN Lab(c) ELSE Serial(c))
    [] name = "lab"     -> check_qemu(c) \o Made(c) \o Lab(c)
    [] name = "check"   -> check
    [] OTHER            -> << >>

Program == Steps(command.name, command.of)
At(what) == pc # 0 /\ Program[pc].do = what
This == Program[pc].of

Ended == pc' = 0 /\ command' = Nothing /\ UNCHANGED given
Forward(n) == IF pc + n > Len(Program) THEN Ended
              ELSE pc' = pc + n /\ UNCHANGED <<command, given>>

\* Go on if the test holds, raise otherwise.
Require(test) == IF test THEN Forward(1) ELSE Ended

\* --stage, --fault, --attack and --memory.
Options == {Case("project", stage, fault, attack, memory) :
              stage \in Stages, fault \in {1} \cup ToSet(FaultCases),
              attack \in {0} \cup ToSet(AttackCases), memory \in ToSet(Memories)}

\* The options are checked before anything is done.  What is known of the
\* command before is dropped here; its temporary directory is gone.
main(name, c) ==
  /\ pc = 0 /\ given < MaxCommands
  /\ name \in {"setup", "prepare", "doctor", "check"} => c = Plain(LAB, Memory0)
  /\ name = "lab" => c.stage = LAB
  /\ command' = [name |-> name, of |-> c] /\ pc' = 1 /\ given' = given + 1
  /\ said' = Silent /\ qemu' = NoBoot
  /\ fixture' = NoSources
  /\ elf' = [elf EXCEPT !["fixture"] = NoKernel]
  /\ iso' = [iso EXCEPT !["fixture"] = [s \in Stages |-> NoImage]]
  /\ UNCHANGED <<sources, assets, log>>

\* What a write that does not finish leaves behind.
Tears ==
  \/ UNCHANGED <<assets, elf, iso>>
  \/ \E f \in Assets : At(f) /\ assets' = [assets EXCEPT ![f] = "torn"] /\ UNCHANGED <<elf, iso>>
  \/ At("link") /\ elf' = [elf EXCEPT ![This.place] = NoKernel] /\ UNCHANGED <<assets, iso>>
  \/ At("write") /\ iso' = [iso EXCEPT ![This.place][This.stage] = NoImage] /\ UNCHANGED <<assets, elf>>

\* serial_check's finally: terminate, then kill.
Stopped == [qemu EXCEPT !.running = FALSE]

\* At any step a tool or the download fails, or the user presses Ctrl+C.
raises ==
  /\ pc # 0
  /\ Tears /\ qemu' = Stopped /\ Ended
  /\ UNCHANGED <<sources, fixture, log, said>>

-----------------------------------------------------------------------------
(* setup, prepare and doctor.                                              *)

Genuine == \A f \in LIMINE_FILES : assets[f] = "good"

\* Mutant: a file that is there is taken to be the right one.
CachedByName == \A f \in Assets : assets[f] # "absent"

\* LICENSE has to be there, the loader's files have to have their digests.
Cached == assets["LICENSE"] # "absent" /\ Genuine

\* setup: with cached files, and no archive given, prepare is not called.
setup_cached ==
  /\ At("cached")
  /\ Forward(1) \/ (Cached /\ Forward(5))
  /\ UNCHANGED <<sources, assets, built, log, qemu, said>>

\* prepare writes the files of a verified archive one after the other.
prepare_write(f) ==
  /\ At(f)
  /\ assets' = [assets EXCEPT ![f] = "good"]
  /\ Forward(1)
  /\ UNCHANGED <<sources, built, log, qemu, said>>

-----------------------------------------------------------------------------
(* build and image.                                                        *)

build_link ==
  /\ At("link")
  /\ elf' = [elf EXCEPT ![This.place] =
       [whole |-> TRUE, stage |-> This.stage, fault |-> This.fault, attack |-> This.attack,
        sources |-> SourcesOf(This.place), by |-> given]]
  /\ Forward(1)
  /\ UNCHANGED <<sources, assets, iso, log, fixture, qemu, said>>

\* Mutant: the probe's image goes to the real tool root.
ToolRootShared(place) == "project"

\* The tool root whose images a project's go to.
ToolRoot(place) == place

\* make-image.py: the ISO first, the spare sectors at its end afterwards.
image_write ==
  /\ At("write")
  /\ IF \E f \in LIMINE_FILES : assets[f] = "absent" THEN Ended /\ UNCHANGED iso
     ELSE /\ iso' = [iso EXCEPT ![ToolRoot(This.place)][This.stage] =
                       [whole |-> TRUE, kernel |-> elf[This.place],
                        loader |-> IF Genuine THEN "good" ELSE "torn", padded |-> FALSE]]
          /\ Forward(1)
  /\ UNCHANGED <<sources, assets, elf, log, fixture, qemu, said>>

image_pad ==
  /\ At("pad")
  /\ iso' = [iso EXCEPT ![ToolRoot(This.place)][This.stage].padded = TRUE]
  /\ Forward(1)
  /\ UNCHANGED <<sources, assets, elf, log, fixture, qemu, said>>

-----------------------------------------------------------------------------
(* serial_check, and the QEMU it starts.                                   *)

\* Mutant: the log of an earlier check is left in place.
EmptiedNot(c) == log

\* serial.write_bytes(b"")
Emptied(c) == [log EXCEPT ![Label(c)] = {}]

serial_reset ==
  /\ At("reset")
  /\ log' = Emptied(This) /\ said' = Silent
  /\ Forward(1)
  /\ UNCHANGED <<sources, assets, built, qemu>>

Boot(c) == [NoBoot EXCEPT !.image = iso[ToolRoot(c.place)][c.stage], !.of = c, !.by = given,
                          !.name = command.name]

serial_popen ==
  /\ At("popen")
  /\ qemu' = [Boot(This) EXCEPT !.running = TRUE]
  /\ Forward(1)
  /\ UNCHANGED <<sources, assets, built, log, said>>

\* QEMU truncates the log when it opens it, if it lives that long.
qemu_opens ==
  /\ qemu.running /\ ~qemu.opened
  /\ qemu' = [qemu EXCEPT !.opened = TRUE]
  /\ log' = [log EXCEPT ![Label(qemu.of)] = {}]
  /\ UNCHANGED <<sources, assets, built, process, said>>

\* What a kernel that works prints, in order.
Prints(k) ==
  <<<<"entered", k.stage>>>>
  \o (IF k.attack = 3 THEN <<<<"depths", 3>>>> ELSE << >>)
  \o (IF k.attack > 0 THEN <<<<"attack", k.attack>>>> ELSE << >>)
  \o (IF k.fault > 1 THEN <<<<"fault", k.fault>>>> ELSE << >>)
  \o (IF k.stage > 0 THEN <<<<"passed", k.stage>>>> ELSE << >>)
  \o <<<<"panic", 0>>, <<"stop", k.stage>>>>

Bootable(image) == image.whole /\ image.kernel.whole /\ image.loader = "good"

\* The next of these, or a panic that comes too early and is the last.
guest_writes ==
  /\ qemu.running /\ qemu.opened /\ Bootable(qemu.image)
  /\ LET prints == Prints(qemu.image.kernel)
         n == Cardinality(qemu.wrote)
     IN \E mark \in {<<"panic", 0>>} \cup {prints[i] : i \in DOMAIN prints \cap {n + 1}} :
          /\ mark \notin qemu.wrote
          /\ <<"panic", 0>> \in qemu.wrote => n = Len(prints) - 1
          /\ qemu' = [qemu EXCEPT !.wrote = @ \cup {mark}]
          /\ log' = [log EXCEPT ![Label(qemu.of)] = @ \cup {mark}]
  /\ UNCHANGED <<sources, assets, built, process, said>>

qemu_exits ==
  /\ qemu.running
  /\ qemu' = Stopped
  /\ UNCHANGED <<sources, assets, built, log, process, said>>

serial_stop ==
  /\ At("stop")
  /\ qemu' = Stopped /\ Forward(1)
  /\ UNCHANGED <<sources, assets, built, log, said>>

\* The lines that must be in the log; run asks for no marker.
Witnesses(c) ==
  {<<"entered", c.stage>>, <<"stop", c.stage>>}
  \cup (IF c.stage > 0 THEN {<<"passed", c.stage>>} ELSE {})
  \cup (IF command.name = "check" /\ c.attack > 0 THEN {<<"attack", c.attack>>} ELSE {})
  \cup (IF command.name = "check" /\ c.fault > 1 THEN {<<"fault", c.fault>>} ELSE {})

serial_verdict ==
  /\ At("verdict")
  /\ Require(Witnesses(This) \subseteq log[Label(This)])
  /\ said' = IF Witnesses(This) \subseteq log[Label(This)]
             THEN [pass |-> TRUE, of |-> This, need |-> Witnesses(This)] ELSE Silent
  /\ UNCHANGED <<sources, assets, built, log, qemu>>

-----------------------------------------------------------------------------
(* Steps that only test: doctor looks at the loader, build at its options, *)
(* image at what is on the ISO, check at the depths of attack 3.  The      *)
(* others may only raise, or wait: watch ends at the panic line, when QEMU *)
(* has ended, or after 20 seconds.                                         *)

doctor == Genuine
build_guard(c) == c.stage = M6 \/ (c.fault = 1 /\ c.attack = 0)
image_compare(c) ==
  LET made == iso[ToolRoot(c.place)][c.stage] IN made.whole /\ made.kernel = elf[c.place]
oom_depths(c) == <<"depths", 3>> \in log[Label(c)]

Waits == {"check_qemu", "venv", "download", "user", "inspect", "watch"}

test ==
  /\ \/ At("doctor")  /\ Require(doctor)
     \/ At("guard")   /\ Require(build_guard(This))
     \/ At("compare") /\ Require(image_compare(This))
     \/ At("depths")  /\ Require(oom_depths(This))
     \/ \E what \in Waits : At(what) /\ Forward(1)
  /\ UNCHANGED <<sources, assets, built, log, qemu, said>>

-----------------------------------------------------------------------------
(* LAB sessions, the disposable copy, and the sources.                     *)

\* lab_guest.py, lab-server.py or a test of them: one guest, closed at the
\* end (Bridge models it).
lab_session ==
  /\ At("lab")
  /\ qemu' = Boot(This) /\ said' = Silent
  /\ Forward(1)
  /\ UNCHANGED <<sources, assets, built, log>>

check_copy ==
  /\ At("copy")
  /\ fixture' = Sources(tree, FALSE)
  /\ Forward(1)
  /\ UNCHANGED <<sources, assets, elf, iso, log, qemu, said>>

\* git apply may skip every hunk without an error; the copy is looked at.
check_patch ==
  /\ At("patch")
  /\ \E applied \in BOOLEAN :
       /\ fixture' = [fixture EXCEPT !.patched = applied]
       /\ Require(applied)
  /\ UNCHANGED <<sources, assets, elf, iso, log, qemu, said>>

\* The user edits, or goes back to an earlier version; commits.
edit ==
  /\ pc = 0 /\ tree' \in (1 .. MaxVersion) \ {tree}
  /\ UNCHANGED <<head, assets, built, log, qemu, process, said>>

commit ==
  /\ pc = 0 /\ head # tree /\ head' = tree
  /\ UNCHANGED <<tree, assets, built, log, qemu, process, said>>

\* A fresh checkout, or one where setup has run.
Init ==
  /\ tree = 1 /\ head = 1
  /\ \E found \in {"absent", "good"} : assets = [f \in Assets |-> found]
  /\ elf = [p \in Places |-> NoKernel]
  /\ iso = [p \in Places |-> [s \in Stages |-> NoImage]]
  /\ log = [l \in Labels |-> {}]
  /\ fixture = NoSources
  /\ qemu = NoBoot
  /\ command = Nothing /\ pc = 0 /\ given = 0
  /\ said = Silent

Next ==
  \/ \E name \in {"setup", "prepare", "doctor", "build", "run", "lab", "check"}, c \in Options : main(name, c)
  \/ raises
  \/ setup_cached \/ \E f \in Assets : prepare_write(f)
  \/ build_link \/ image_write \/ image_pad \/ test
  \/ serial_reset \/ serial_popen \/ serial_stop \/ serial_verdict
  \/ qemu_opens \/ guest_writes \/ qemu_exits
  \/ lab_session \/ check_copy \/ check_patch
  \/ edit \/ commit

Spec == Init /\ [][Next]_vars

-----------------------------------------------------------------------------
\* The kernel a case asks for.
Right(k, c) ==
  /\ k.whole /\ k.stage = c.stage /\ k.fault = c.fault /\ k.attack = c.attack
  /\ k.sources.patched = (c.place = "fixture")

\* SERIAL PASS is earned: the QEMU of this very check has booted the kernel
\* of the case it names and printed every line the verdict rests on.  No log
\* of an earlier check, of another build or of a QEMU that died speaks for it.
PassIsEarned ==
  said.pass => /\ qemu.of = said.of /\ qemu.by = given
               /\ Right(qemu.image.kernel, said.of)
               /\ said.need \subseteq qemu.wrote

\* Whatever was interrupted, built or edited before, a command boots only a
\* finished image that holds the kernel it has itself linked for the case it
\* asks for; check, which looks at the loader first, boots a genuine loader.
BootsThisBuild ==
  qemu.by # 0 => /\ Right(qemu.image.kernel, qemu.of) /\ qemu.image.kernel.by = qemu.by
                 /\ qemu.image.whole /\ qemu.image.padded
                 /\ qemu.name = "check" => qemu.image.loader = "good"

\* setup repairs: whatever an interrupted prepare has left behind, the
\* loader's files are genuine when setup comes to its doctor.
SetupRepairs == command.name = "setup" /\ At("doctor") => Genuine

\* "The retained probe changes only a disposable copy, never the real
\* userland": no kernel or image of the project holds the patched program.
ProbeStaysOut ==
  /\ ~elf["project"].sources.patched
  /\ \A s \in Stages : ~iso["project"][s].kernel.sources.patched
============================================================================
