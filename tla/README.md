# MiniLinux: TLA+ specifications

MiniLinux is a teaching kernel in C (page allocator, page tables, timer, user
mode, system calls, a RAM file system, processes), a Python bridge that owns
one QEMU guest, a web page that watches it, and host tools that build, boot,
check and package it. This directory models the parts that carry state, checks
them with TLC on small instances, and proves with TLAPS, for every instance, every
invariant and action property of the runs and the three refinements. `PROJECT.json`
lists every component, run, mutant, hazard and theorem, and the source lines each
definition stands for.

## Inventory

| Part | State | Operations | What is hard |
| --- | --- | --- | --- |
| Page allocator, `kernel/memory/page.c` | a state byte per frame, cached free count, next-fit position | `page_init`, `page_alloc`, `page_free`, `page_data` | count and scan must agree after any history; boot maps at the edge of the word; where the state bytes go |
| Page tables, `kernel/memory/vm.c` | root and owned tables of each space, table contents, CR3, TLB | `vm_create`, `vm_map`, `vm_lookup`, `vm_unmap`, `vm_destroy`, `vm_switch` | `vm_map` stops half way; stale tables and translations; the shared kernel half |
| LAB processes, `kernel/laboratory.c` | task table, CR3, pages of each task | spawn, timer, exit, fault, wait, inspect | out of memory at every depth of spawn; exit against wait; releasing the active space; starvation |
| User copies and files, `usercopy.c`, `ramfs.c` | open slots per task | write, open, read, close, input, process/file/memory structures | ranges across pages and limits; refused calls that already did something |
| Experiments M3–M6, `task.c`, `user.c`, `syscall.c`, `user/program.c` | two tasks, observations, tick counter | the fixed program against the timer | the order of fault and survivor depends on where ticks fall |
| Bridge, `tools/lab-server.py`, `tools/lab_guest.py` | `lab.lock`, the Guest, QEMU, two reader threads | state, input, restart, stop, Ctrl+C | handlers, readers and a dying QEMU interleave; deadlines; failing starts |
| Web console, `web/app.js`, `web/live.js` | cursor, events, rows, marks, snapshots | poll, filters, clicks | restarts between the steps of a poll, lost answers, sliding windows |
| Observation mirror, `Guest._event` | processes, maps, free count as last reported | one record at a time | exit and wait switch tasks without a schedule record; pages change hands |
| Linux host tool, `tools/linux.py`, `make-image.py`, `qemu_host.py` | the loader's files, `build/kernel.elf`, the ISO of each stage, serial logs, a disposable copy | setup, prepare, doctor, build, run, lab, check | commands interrupted anywhere; stale kernels, images and logs; a patched copy next to the real one |
| Packaging and launchers, `package-linux.py`, `package-desktop.py`, `desktop-launch.py` | output directory, manifest, archive, an unpacked copy | package, unpack, launch | what the manifest vouches for; interruption; damage |
| Init, shell and programs, `user/laboratory.c` | a line buffer, child pids | commands | coming back to the prompt after any child |
| Replay, `web/replay.js` | clip, frame, pause clock | select, pause, resume | double load |
| Boot, serial output, CPU tables, assembly; recording and test scripts | – | sequential | not a state machine of interest |

The kernel parts call each other: `laboratory.c` and `user.c` use `vm.c`, which
uses `page.c`; system calls copy through `user_range`, which uses `vm_lookup`.
Interrupt gates keep interrupts off in every handler on one processor, so a
handler is atomic with respect to other tasks. The bridge starts QEMU, writes
to COM1 and reads both serial channels in two threads; the page polls it. The
host tool leaves files that its next command, the packagers and the bridge use.

## Modules

| Module | Models | Used by |
| --- | --- | --- |
| `Page` | the state and operations of `page.c` after `page_init` | `PageAllocator`, `Laboratory` |
| `PageAllocator` | `page.c` under any caller | |
| `PagePool` | what `page.h` promises | refined by `PageAllocator` |
| `PageInit` | `page_init` on bytes and words | establishes `Page!PagesReady` |
| `VM` | `vm.c`, CR3, the TLB | |
| `AddressMap` | what `vm.h` promises | refined by `VM` |
| `Laboratory` | processes above `Page` | `Observation` |
| `Processes` | spawn, exit and wait as the calling programs see them | refined by `Laboratory` |
| `Observation` | the records `laboratory.c` writes and the mirror `Guest._event` keeps | composes `Laboratory` with the mirror |
| `RamFS` | the file operations as functions of a task's slots | `UserFiles`, `TwoTask` |
| `UserFiles` | `user_range` and the calls that copy through it | |
| `TwoTask` | the M3–M6 kernels with their programs | |
| `Bridge` | the bridge, the guest object, QEMU | |
| `Console` | the page against the bridge's event window | |
| `HostBuild` | `linux.py`, `make-image.py`, and QEMU with its serial log | `Package` |
| `Package` | the packagers, the unpacked package, its launcher | |
| `PageProofs` | the lemmas on the operations of `Page`, the theorems of `PageAllocator` | `LaboratoryProofs` |
| `PageInitProofs`, `VMProofs` | the theorems of `PageInit` and `VM` | |
| `LaboratoryProofs` | the theorems of `Laboratory` and `Observation` | |
| `UserProofs` | the theorems of `UserFiles` and `TwoTask` | |
| `WebProofs` | the theorems of `Bridge` and `Console` | |
| `HostProofs` | the theorems of `HostBuild` and `Package` | |
| `SequenceFacts` | lemmas on numbers, sets and sequences | the proof modules |

`MC*` modules and `.cfg` files give the constants their values.

How the models correspond to the code:

* **Page.** Variables are the fields of the static `pages`. The loop of
  `page_alloc` is one step: `ScanStopsAt(f)` says that a lap from `next_frame`
  meets `f` first. `PageAllocator` adds `last`, what the caller has seen.
* **PageInit.** The three passes over the map, with every sum reduced to the
  word. Limine promises that usable entries do not overlap; `PageInitAssumption`
  says so. The last pass counts a page each time it marks one (`Markings`), so a
  page that two entries claim would be counted twice, as in the code. The map is
  there and so are its entries: the test for null pointers at line 19 is left out.
* **VM.** A virtual page is the path of its four indices. `vm_map` takes one
  step per level, so that it can stop at any of them; other operations wait, the
  TLB does not. A table page that is given back holds junk that looks present.
  `AddressMap` sees a `vm_map` begin (`Ask`) and end (`Map`, `MapFails`), so what
  is mapped in the end is compared with what was asked for at the beginning.
* **Laboratory.** One action per handler, except spawn, which has one per
  allocation. User code is not trusted: the current task may make any call and
  raise any exception. `interrupt_dispatch` hands the vectors 0, 6, 13 and 14 of
  ring 3 to `user_fault`, which ends the process (`UserFaults`); every other one
  stops the kernel with "unexpected CPU exception" (`unexpected_exception`).
  An address space is the set of its tables (the walk is in `VM`); `Plan` is the
  order of `prepare`'s allocations. "active root" and "ownership" panics are one
  value. `panic` never returns, so the state is left as it was.
* **Processes.** The same calls by pid: no slots, no memory, no order of
  scheduling. `Laboratory!Table` is the mapping: the tasks that are not unused,
  by pid, with `waiting_for` and `status` where the code reads them. A spawn
  appears in one step, when it has succeeded; one that fails may lose a pid.
  `Stop` has the three reasons for which the kernel may stop.
* **UserFiles.** Small pages below a small user limit, in a word that reaches
  beyond; file contents are positions, so a byte out of place is visible.
* **TwoTask.** The script of `user/program.c` with the result it requires of
  each call; `stopped` is what `panic` was called with, the intentional stop
  included. The level is chosen in `TwoTaskInit`. How registers are saved is not
  modelled, so neither is M3's check of them (`task.c:19`). `user_complete` also
  compares the free pages with those at the start; in the model a task's pages are
  a number that is taken and given back, so that comparison cannot fail here.
* **Bridge.** Threads with program counters. Handlers hold `lab.lock` for a
  request; readers take only the guest's lock, whose critical sections are single
  steps. The assignment of `"running"` and the test of `closed` in the reader's
  `finally` are steps of their own because the code takes no lock there. A join
  is taken to succeed. Input keeps `lab.lock` from the test in `send` to the end of
  its last `sendall` (`api_input`, `guest_send`). `start_raises` is an exception
  before the `try` of `start`, which leaves a guest that is not closed and never
  had a process; `snapshot` tells it apart (`Spawned`).
* **Console.** JavaScript runs to completion between awaits, so a poll is three
  steps: sent, answered, received or lost. An event is its record number;
  `describe` is taken to describe each of them. `history` is a history variable
  that the properties compare with.
* **Observation.** Each action of `Laboratory` is conjoined with the records its
  handler writes, in their order, and `apply` takes one of them. The mirror never
  acts on the kernel and the channel keeps its order, so the next handler may
  wait until the records of the last are applied: the mirror's states between two
  records are all there. A process that has exited and is not reaped stays in
  `maps`, since there is no record that removes one map; the properties speak of
  the living.
* **HostBuild.** A command is a sequence of steps (`Steps`), and `pc` the next of
  them. `raises` ends it at any step, as a failing tool, `Ctrl+C` or a timeout
  does, and `Tears` is the file that was being written. A file is a record of
  what it was made from, so comparing bytes is comparing records; `by` names the
  command that linked a kernel. QEMU opens its log, prints and dies on its own.
  The compiler's objects are not kept: `build` makes every file it links. One
  command runs at a time, as `docs/LINUX.md` asks, and sources are edited between
  commands.
* **Package.** The packagers' checks, then image, manifest and archive as three
  steps that may be interrupted. A digest is the image it was computed from. The
  launcher's digest check and its first boot are one step and the copy is not
  damaged while it runs, so neither the time between the two
  (`desktop-launch.py:25-32`) nor later restarts, which the bridge does without a
  check, are covered.

## Runs

| Run | Instance | Shows |
| --- | --- | --- |
| `page_allocator` | 5 frames, 4 memories; 549 states | `CountExact`, `RefusalMeansExhausted`, refinement of `PagePool`, `EveryFrameCirculates` |
| `page_init` | 2-byte pages, 24-value word, all maps of ≤ 2 entries; 8.7k states | exactly the usable pages; state bytes housed; refused only for cause |
| `vm` | 7 pages, 2 spaces, 5 virtual pages, 5 tables a space; 8k states up to symmetry | one owner per page, walks inside, kernel half, TLB, refinement of `AddressMap` |
| `laboratory` | 4 slots, 4 allocations a process, pids up to 4, memories for 1 to 4, vectors 12 and 14; 190k states | ownership, wakeups, family, `NoInternalPanic`, clean pages, refinement of `Processes` |
| `observation` | 4 slots, 3 allocations a process, pids up to 4, memories of 8 and 12 pages, vectors 12 and 14; 328k states | `MirrorFollowsTable`, `LivePagesApart`, `ReadyTasksRun` |
| `user_files` | 4 pages of 2 bytes, word up to 10, all addresses and lengths; 6.4k states | exact range check, reads in order, refused calls leave no trace |
| `two_task` | M3–M6, three memory sizes; 74k states | `OnlyIntentionalStop`, `ExperimentCompletes` |
| `bridge` | 2 handlers, 3 guests; 912k states | one guest, loss noticed, stopped is final, `LockIsReleased` |
| `bridge_exit` | 1 handler, 2 guests | **violated**, see below |
| `console` | guests of 2 and 4 records, window 3, 2 rows; 428k states | window, row order, nothing from the old guest, `CatchesUp` |
| `host` | 2 commands, 2 versions, stages M0, M6 and LAB, attack 3, fault 2; 918k states | `PassIsEarned`, `BootsThisBuild`, `SetupRepairs`, `ProbeStaysOut`, `LaunchBootsPackaged` |
| `package_source` | as `host` | **violated**, see below |

Why the bounds are enough to matter. Four slots hold init, a shell and two
children, so slots are reused and searched past; the memories end a spawn after
each of its allocations. One exception that ends a process and one that stops the
kernel stand for all of them. Seven pages are fewer than two spaces can use, so
`vm_map` fails for want of pages and, at five tables, for the table limit. Two
handlers and main are the least at which a request waits behind a restart.
A window of 3 and 2 rows are passed by the fourth record. `WordMax` and
`UserLimit` are passed by ranges inside the bounds. Pids stay below the wrap at
2^32, which is not covered. In `host` the first command leaves, at any step,
the files the second finds; M0 has no checks of its own, M6 has the cases, attack
3 has the extra lines, and one fault and one attack are enough to be mistaken for
each other. A second memory size only repeats a boot under another log name.

Two runs are findings. `bridge_exit`: The bridge prints "Ctrl+C stops the bridge and its
guest" (`tools/lab-server.py:132`). If a restart request waits for `lab.lock`
when Ctrl+C arrives, `main`'s final `lab.close()` stops the guest and releases
the lock, the request takes it and starts a new QEMU, and the interpreter exits
without joining its daemon threads. The counterexample of TLC is that order.

`package_source`: `package-desktop.py` refuses a dirty tree with "Commit changes
before packaging so the manifest names the actual source" (line 23), and puts
git's HEAD in the manifest. The image it copies is the one the last build left.
Build LAB, edit, commit, package: the manifest names a commit the kernel was not
built from. `package-linux.py` compares the image with `build/kernel.elf`, which
is just as old, so it has the same gap; `LaunchBootsPackaged` says what its
comparison and the launcher's digest do give. They give neither a genuine loader
nor a padded image: `build` does not look at the loader's digests, and an image
interrupted before its padding passes the comparison.

No other run found a disagreement; `console` covers two failures recorded as
fixed in `docs/EXPERIENCE.md`, and their mutants bring them back.

Every property has a mutant: a plausible slip in one mapped definition, kept
beside it, that TLC shows to break the property.

### Assumptions on scheduling

* `EveryFrameCirculates` assumes nothing of the allocator; it says what follows
  from a caller that allocates again and again.
* `Observation!ObservationSpec`: strong fairness of the timer, which is periodic
  and stays pending while interrupts are off; weak fairness of a spawn under way
  and of the reader. The programs may do anything, or nothing.
* `TwoTaskFairSpec`: the timer ticks and the current task runs. `SliceSteps` is
  a timing assumption: a task gets at least that many calls done between two
  ticks. The program needs it, since the survivor's report must follow the
  fault and both are timed in ticks. With 4 the experiments always pass; with 3,
  TLC finds a run in which the kernel stops at "survivor has not run after
  fault". At 100 Hz a slice holds thousands of calls. `MaxTicks` is never reached.
* `Bridge!FairSpec`: threads that can run do run, deadlines pass, and a `sendall`
  to a QEMU that is gone raises. Nothing is assumed of a QEMU that is alive, of the
  user or of the order in which the lock is granted. `LockIsReleased` says that
  whoever holds the lock to start, stop or restart gives it back, and whoever types
  does so at the latest when QEMU is gone. `send` has no timeout
  (`lab_guest.py:73,184`), so a QEMU that is alive and does not read COM1 can keep
  the lock; that is the one exception in the property (`Sending`), and then restart,
  stop and the last close of `main` wait too.
* `ConsoleFairSpec`: timers fire, and a bridge that is asked again and again
  answers in the end (strong fairness of the answer and its arrival).

## Proofs

Each `*Proofs` module proves its theorems for every value of the constants that
the named assumptions allow, and every sequence of steps. The layout is always
the same: an inductive invariant (checked by TLC before it was proved), one lemma
per action, a lemma that combines them, and the theorems. A theorem that states
a property of a run carries that property's name in `PROJECT.json`.

**`PageProofs`** (`FrameCountAssumption`, `MemoriesAssumption`,
`OffsetsAssumption`): `AllocatorTypeCorrect`, `CountCorrect`, `RefusalCorrect`, and
`PoolRefined`, the refinement of `PagePool`. The invariant is `AllocatorInv`, the
conjunction of the three invariants: the count is needed for the refusal, because
`page_alloc` refuses on `free_count = 0` without looking at the table. The lemmas
on the operations say what an allocation and a release do to the
sets of free and allocated frames and to their cardinalities (`AllocEffect`,
`AllocPreserves`, `FreeAllEffect`, `FreeAllPreserves`), and that a lap that finds
nothing has seen every frame (`FailsMeansNoneFree`).

**`PageInitProofs`** (`PageInitAssumption`: entries fit the word, usable entries
do not overlap): `InitTypeCorrect`, `OwnsCorrect`, `HousedCorrect`,
`RefusalForCause`. Most of it is about the passes, not about the state: rounding
at both ends of a region in a word that wraps, that the highest end bounds every
frame, that the markings of different entries are different pages, and that their
number is the number of free frames. The invariant `CallInv` says that the state
is untouched or is what the passes compute.

**`VMProofs`** (`VMAssumption`, `MarkerAssumption`: the markers for "no mapping"
and "no walk" are not mappings or walks): `VMTypeCorrect`, `VMOwnershipCorrect`,
`WalksCorrect`, `KernelHalfCorrect`, `TranslationsCorrect`, and
`AddressMapImplemented`, the refinement of `AddressMap`. What has to be added is
that the tables of a space form a tree (`Trees`), for all paths of the lower half
and not only the virtual pages in use: two walks meet in a table only at the same
level and after the same indices (`Apart`). Then a write to one entry changes the
walks through that entry and no others, which is what ownership, the TLB and the
refinement need. `WalkOnPath` says where a `vm_map` in progress stands. For the
refinement, each level of a walk keeps the request it began with (`RequestKept`)
and changes no map (`MapsKept`) until the last one writes exactly that request.

**`LaboratoryProofs`** (the assumptions of `Laboratory` and `Page`):
`LabTypeCorrect`, `LabCountCorrect`, `OwnershipCorrect`, `MappingCorrect`,
`WaitersCorrect`, `FamilyCorrect`, `PanicsCorrect` (no check of the kernel's own
ever fires; what stops it is init's creation, an exit of init or the shell, or an
unhandled exception of ring 3), `CleanPagesCorrect`, and
`WaitCorrect`, an action property that says on the task table what the refinement
below says by pid: whoever stops waiting has the status of the child it named. The
invariants need each other, and five facts
more: the shape of the family (`Lineage`: init starts shells, shells start
programs, programs start nothing; so a task that exits leaves no child, and
somebody is always ready), pids in use have been issued (`PidsIssued`), a slot
being filled carries the caller's name (`SpawnAsked`), a space under construction
holds what the plan has put there so far (`Building`), and a living task has all
of it (`Built`).

`ProcessesImplemented` is the refinement of `Processes`. `AbiInv` adds to `LabInv`
what the caller of a spawn under way had asked for, and that the slot being filled
carries the last pid and 0 in `rax` (`SpawnNamed`): the allocations are then
stutters, and the step that ends them is a whole spawn. Since a pid names one task
(`FamilyIntact`), the table by pid is the only function with the right values
(`TableIs`), so for each action it is enough to look at the tasks one by one. At
most one task waits for the one that exits, and `Processes` finds it by the
parent's pid where the code searches the table.

The same module proves `MirrorCorrect` and `ApartCorrect` of `Observation`. Between
two records the mirror is behind, so `MirrorInv` says of each thing it shows that
it is right or that a record still to come will set it right: `Listing` for the
processes, `Marking` for the current one, `Paging` for pages, `Counting` for the
free count. Every record to come is true of the table as it is now (`Truthful`),
since the next handler waits for them, and a map record follows the record of its
process (`Ordered`). The records a handler writes depend on the size of the table,
so lemmas say what the records of all tasks contain and in which order. `LabInv`
supplies that a pid names one process and that owners are apart.

**`UserProofs`** (`UserFilesAssumption`, `RamFSAssumption`, `TwoTaskAssumption`):
`RangeCorrect`, a fact about one call (looking up one address per page agrees with
looking at every byte, up to the end of the word), `ReadsCorrect`, and the action
property `RefusalsCorrect`, all of `UserFiles`.

`OnlyIntentionalStopCorrect` is about `TwoTask`. `TwoTaskInv` has two halves. The
first is what the kernel has counted for a task, and what its slots hold, after n
lines of the script (`CountsAfter`, `SlotsAfter`); from it every call returns what
the program requires (`ScriptLine`, one case per line), and the final counts are
those that `user_complete` asks for. The second is time. While both tasks live
they take turns, so the parity of `ticks` tells who runs. Task 0 gets four calls done
in a slice, so it is through its 27 lines and starts its loop by tick 12, faults
twelve ticks later, at tick 24 at the latest, and the survivor, whose loop starts
at tick 1 at the earliest and lasts 24 ticks, has then not reported. The bound is
tight, which is why `SliceSteps >= 4` is assumed and why 3 is not enough. The other
assumptions are the code's own tables: the two files and their sizes
(`kernel/ramfs.c:6`) and the two slots (`OPEN_LIMIT`). The number of free pages,
of table pages and the length of a slice are arbitrary.

**`WebProofs`** (`BridgeAssumption`, `ConsoleAssumption`): `BridgeTypeCorrect`,
`OneGuestCorrect`, `LossCorrect`, and the action property `StoppedCorrect` of
`Bridge`. Only the holder of `lab.lock` is inside `close` or `start`;
`HolderProgress` says what it has done at each line, `StoppedIsClosed` what is left
for the next one, `ReadersExplain` that a reader ends on a closed guest or leaves
an error.

`ConsoleTypeCorrect`, `WindowCorrect`, `RowsCorrect` and `FreshGuestCorrect` are
about `Console`. `ConsoleInv` adds to the invariants that records come in order and
the bridge keeps the last of them (`HistoryInOrder`), that the page has not seen
the future of a guest (`CursorIsSeen`), and that the answer under way is what
followed the page's cursor in the bridge's window when it was given
(`AnswerFollowsCursor`); a restart may have made it an answer of an old guest. The
rest are facts about sequences: cutting a window from a window and what follows a
cursor gives the window of the whole, and placing the rows one at a time with
`insertBefore`, as `renderEvents` does, leaves them in order whatever order they
were in.

**`HostProofs`** (`HostAssumption`): `HostTypeCorrect`, `PassCorrect`,
`BootCorrect`, `SetupCorrect`, `ProbeCorrect`, `LaunchCorrect`, all of
`PackageSpec`. `check` is as long as its stages, cases and memories make it, so
the proof first shows that only neighbours matter: in every command each step is
one that needs nothing, or comes right after one that provides what it needs
(`After`, `Shape`). `Promise` says what a command may count on at each step, for
example that at "popen" the image is this command's and the log is empty.
`HostInv` adds what outlives a command: whole images are such as `build` makes
(`ImagesSound`), QEMU runs only while it is watched (`Watched`), the loader's files
are genuine during `check` and at the end of `setup` (`LoaderKept`). `Kept` says
that while there is a package its image, kernel and manifest are still those of
the disk. `FlattenSeq`, with which `check` is put together, is reasoned about by
closure: a set of programs that contains the empty one and is closed under
concatenation contains what is flattened from its elements.

Where numbers, sequences or recursive functions need induction, it is the lemma
`Induction` or `SequenceInduction` of `SequenceFacts`. The library states induction
for a formula, which the provers cannot instantiate, so these take a set in the
place of the formula (`WFMin` on `<`).

### Only model-checked

Liveness and what rests on fairness: `EveryFrameCirculates`, `ReadyTasksRun`,
`ExperimentCompletes`, `LockIsReleased`, `CatchesUp`. The prover has no rules for
`ENABLED`. The two properties that the code does not have, `ExitLeavesNoGuest` and
`ManifestNamesSource`, are refuted by TLC and have no theorem.

## Not modelled

The processor set-up and assembly, serial output, boot; the self-tests and the
counterexample builds; the shell; the replay; the other panes of the page, and
the checks on HTTP requests; `Guest.command`, used by tests only; the recording
and hygiene tools; the PowerShell stages, which do on Windows what `linux.py`
does, and the downloads of the Windows launcher. `PROJECT.json` gives the reason
for each. Edits of the sources during a build are left out too: nothing in the
tool would notice them.

Hazards seen and left without a property: the wrap of `next_pid`;
`Guest.command`, which remembers a position in a console that is cut at 64000
characters; `serial_check`, which stops QEMU at the first "MiniLinux PANIC:" and
may miss the rest of the line (a check then fails, none passes wrongly); the maps
of a process that has exited and is not reaped; the double load of the replay; a
torn LICENSE of the loader, which `setup` reuses because it only asks whether
the file is there (`linux.py:84`); a live QEMU that does not read what is typed.

## Plan

Done, in this order: `Page`, `PageAllocator` with its proofs, `PageInit`, `VM`,
`Laboratory`, `Bridge`, `RamFS` and `UserFiles`, `Console`, `TwoTask`,
`Observation`, `HostBuild`, `Package`, `Processes`.

Next, modelling:

1. `Shell`: `user/laboratory.c` as the program of `Laboratory`'s shell: it reaps
   every child it spawns and comes back to its prompt, fault or not.
2. `Replay`: `web/replay.js` in the place of the bridge under `Console`.

Next, proofs: for the liveness properties, the safety part of the argument (a measure that every fair step brings down).
