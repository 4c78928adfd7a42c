------------------------------- MODULE Bridge -------------------------------
(***************************************************************************)
(* The host side of the laboratory: tools/lab-server.py, whose handler     *)
(* threads share one Laboratory object, and the Guest of                   *)
(* tools/lab_guest.py that it owns, with its QEMU process and the threads  *)
(* that read its two serial channels.                                      *)
(*                                                                         *)
(* Handlers take lab.lock and hold it for a whole request; the reader      *)
(* threads do not.  A Guest is replaced, never reused: the variables are   *)
(* those of the current one, and old QEMU processes are remembered by the  *)
(* epoch that started them.  A join is taken to succeed (a reader whose    *)
(* socket is shut ends at once), and terminate-then-kill to end QEMU.      *)
(***************************************************************************)
EXTENDS Integers, Sequences

CONSTANTS
  Handlers,     \* threads of ThreadingHTTPServer
  MaxEpoch,     \* bound on the guests started
  WireLimit     \* bound on the console chunks under way

ASSUME BridgeAssumption ==
  /\ "main" \notin Handlers /\ "nobody" \notin Handlers
  /\ MaxEpoch \in Nat \ {0} /\ WireLimit \in Nat \ {0}

VARIABLES
  lock,        \* who holds lab.lock
  pc, op,      \* where each thread is, and in which request
  epoch,       \* lab.epoch, as a number
  fresh,       \* the holder has already made the new Guest
  closed, status, error,    \* fields of the Guest
  connected,   \* len(sockets)
  shut,        \* the sockets have been shut down
  prompt,      \* "mini$ " in self.console
  reader,      \* the two _read threads
  qemu,        \* epochs whose QEMU process is alive
  kernel,      \* what the guest's kernel is doing
  wire,        \* console chunks not yet received
  typed        \* input not yet consumed

threads == <<lock, pc, op>>
guest   == <<closed, status, error, connected, shut, prompt, reader>>
machine == <<qemu, kernel, wire, typed>>
vars == <<threads, epoch, fresh, guest, machine>>

Threads == Handlers \cup {"main"}
Channel == {0, 1}            \* the console (COM1) and the observations (COM2)
Alive   == epoch \in qemu    \* process.poll() is None

NewGuest ==
  /\ closed' = FALSE /\ status' = "starting" /\ error' = "none"
  /\ connected' = 0 /\ shut' = FALSE /\ prompt' = FALSE
  /\ reader' = [c \in Channel |-> "none"]
  /\ kernel' = "booting" /\ wire' = << >> /\ typed' = FALSE

\* main has called lab.restart(): there is no guest to close.
Init ==
  /\ lock = "main" /\ fresh = TRUE /\ epoch = 1
  /\ pc = [t \in Threads |-> IF t = "main" THEN "spawn" ELSE "idle"]
  /\ op = [t \in Threads |-> IF t = "main" THEN "restart" ELSE "none"]
  /\ closed = FALSE /\ status = "starting" /\ error = "none"
  /\ connected = 0 /\ shut = FALSE /\ prompt = FALSE
  /\ reader = [c \in Channel |-> "none"]
  /\ qemu = {} /\ kernel = "booting" /\ wire = << >> /\ typed = FALSE

Running == pc["main"] # "exited"
Goto(t, where) == pc' = [pc EXCEPT ![t] = where]
Done(t, where) == Goto(t, where) /\ op' = [op EXCEPT ![t] = "none"]

-----------------------------------------------------------------------------
(* do_GET and do_POST: a request waits for lab.lock.                       *)

request(h, what) ==
  /\ pc["main"] = "serving" /\ pc[h] = "idle"
  /\ Goto(h, "want") /\ op' = [op EXCEPT ![h] = what]
  /\ UNCHANGED <<lock, epoch, fresh, guest, machine>>

Wants(t, what) == Running /\ pc[t] = "want" /\ op[t] = what /\ lock = "nobody"

\* self.process is not None: of the guests that are not closed when the lock
\* is free, only those that start left before its try have no process.
Spawned == connected > 0

\* /api/state: snapshot, which looks at the process too.
api_state(h) ==
  /\ Wants(h, "state")
  /\ status' = IF Spawned /\ ~Alive /\ ~closed THEN "disconnected" ELSE status
  /\ Done(h, "idle")
  /\ UNCHANGED <<lock, epoch, fresh, closed, error, connected, shut, prompt, reader, machine>>

\* /api/input: send refuses unless the guest is running.  Otherwise it keeps
\* lab.lock ...
api_input(h) ==
  /\ Wants(h, "input")
  /\ \/ (closed \/ status # "running") /\ Done(h, "idle") /\ UNCHANGED lock
     \/ /\ ~closed /\ status = "running"
        /\ lock' = h /\ Goto(h, "send") /\ UNCHANGED op
  /\ UNCHANGED <<epoch, fresh, guest, machine>>

\* ... until QEMU has taken every byte, or is gone and the sendall raises.  No
\* timeout ends the wait for a QEMU that is alive and does not read.
guest_send(h) ==
  /\ Running /\ lock = h /\ pc[h] = "send"
  /\ typed' = (typed \/ Alive)
  /\ lock' = "nobody" /\ Done(h, "idle")
  /\ UNCHANGED <<epoch, fresh, guest, qemu, kernel, wire>>

\* /api/restart and /api/stop, and main's own close, begin with Guest.close.
begin_close(t) ==
  /\ \/ Wants(t, "restart") /\ epoch < MaxEpoch
     \/ Wants(t, "stop")
     \/ Wants(t, "exit")
  /\ lock' = t /\ fresh' = FALSE
  /\ Goto(t, "flag")
  /\ UNCHANGED <<op, epoch, guest, machine>>

-----------------------------------------------------------------------------
(* Guest.close, by the thread that holds the lock.                         *)

At(t, where) == Running /\ lock = t /\ pc[t] = where

close_flag(t) ==
  /\ At(t, "flag")
  /\ closed' = TRUE /\ Goto(t, "sockets")
  /\ UNCHANGED <<lock, op, epoch, fresh, status, error, connected, shut, prompt, reader, machine>>

close_sockets(t) ==
  /\ At(t, "sockets")
  /\ shut' = TRUE /\ Goto(t, "terminate")
  /\ UNCHANGED <<lock, op, epoch, fresh, closed, status, error, connected, prompt, reader, machine>>

\* Mutant: the guest's process is left to itself.
TerminatedNever == qemu

Terminated == qemu \ {epoch}

close_terminate(t) ==
  /\ At(t, "terminate")
  /\ qemu' = Terminated /\ Goto(t, "join")
  /\ UNCHANGED <<lock, op, epoch, fresh, guest, kernel, wire, typed>>

\* Mutant: the readers are not waited for.
JoinedNever == TRUE

Joined == \A c \in Channel : reader[c] \in {"none", "done"}

close_join(t) ==
  /\ At(t, "join") /\ Joined
  /\ Goto(t, "stopped")
  /\ UNCHANGED <<lock, op, epoch, fresh, guest, machine>>

\* The last line of close, and what the caller does next: restart makes the
\* new Guest, unless this close was start's own after an exception.
Leave(t) == lock' = "nobody" /\ Done(t, IF t # "main" THEN "idle"
                                        ELSE IF op[t] = "exit" THEN "leaving" ELSE "failed")
close_status(t) ==
  /\ At(t, "stopped")
  /\ IF op[t] = "restart" /\ ~fresh
     THEN /\ epoch' = epoch + 1 /\ fresh' = TRUE
          /\ NewGuest /\ Goto(t, "spawn")
          /\ UNCHANGED <<lock, op, qemu>>
     ELSE /\ status' = "stopped" /\ Leave(t)
          /\ UNCHANGED <<epoch, fresh, closed, error, connected, shut, prompt, reader, machine>>

-----------------------------------------------------------------------------
(* Guest.start, by the same thread.  An exception leads to close, except   *)
(* for what comes before its try.                                          *)

\* No free port, no build directory, no QEMU found, no log file: the new
\* Guest stays as it is made, "starting" and not closed.
start_raises(t) ==
  /\ At(t, "spawn")
  /\ Leave(t)
  /\ UNCHANGED <<epoch, fresh, guest, machine>>

start_spawn(t) ==
  /\ At(t, "spawn")
  /\ \/ qemu' = qemu \cup {epoch} /\ Goto(t, "connect")
     \/ qemu' = qemu /\ Goto(t, "flag")                \* Popen raises
  /\ UNCHANGED <<lock, op, epoch, fresh, guest, kernel, wire, typed>>

\* for port in (tty_port, trace_port)
AfterConnect == IF connected = 0 THEN "connect" ELSE "threads"

start_connect(t) ==
  /\ At(t, "connect")
  /\ \/ /\ Alive /\ connected' = connected + 1
        /\ Goto(t, AfterConnect)
     \/ connected' = connected /\ Goto(t, "flag")      \* QEMU stopped, or 10 s are over
  /\ UNCHANGED <<lock, op, epoch, fresh, closed, status, error, shut, prompt, reader, machine>>

start_threads(t) ==
  /\ At(t, "threads")
  /\ reader' = [c \in Channel |-> "reading"] /\ Goto(t, "prompt")
  /\ UNCHANGED <<lock, op, epoch, fresh, closed, status, error, connected, shut, prompt, machine>>

\* Mutant: the wait for the first prompt has no deadline.
DeadlinePassedNever == FALSE

DeadlinePassed == TRUE

\* wait_for: the predicate first, then the status; 20 s may pass at any time.
start_prompt(t) ==
  /\ At(t, "prompt")
  /\ \/ prompt /\ Goto(t, "running")
     \/ ~prompt /\ status \in {"faulted", "disconnected"} /\ Goto(t, "flag")
     \/ ~prompt /\ DeadlinePassed /\ Goto(t, "flag")
  /\ UNCHANGED <<lock, op, epoch, fresh, guest, machine>>

\* self.status = "running", without the guest's lock.
start_running(t) ==
  /\ At(t, "running")
  /\ status' = "running" /\ lock' = "nobody"
  /\ Done(t, IF t = "main" THEN "serving" ELSE "idle")
  /\ UNCHANGED <<epoch, fresh, closed, error, connected, shut, prompt, reader, machine>>

-----------------------------------------------------------------------------
(* The reader threads.                                                     *)

\* One chunk of the console; the observations carry no control.
read_chunk ==
  /\ Running /\ reader[0] = "reading" /\ wire # << >>
  /\ wire' = Tail(wire)
  /\ prompt' = (prompt \/ Head(wire) = "prompt")
  /\ IF Head(wire) = "panic" THEN status' = "faulted" /\ error' = "panic"
                             ELSE UNCHANGED <<status, error>>
  /\ UNCHANGED <<threads, epoch, fresh, closed, connected, shut, reader, qemu, kernel, typed>>

\* The loop ends: closed is seen, or recv returns nothing ...
read_end(c) ==
  /\ Running /\ reader[c] = "reading"
  /\ closed \/ shut \/ (~Alive /\ (c = 0 => wire = << >>))
  /\ reader' = [reader EXCEPT ![c] = "ended"]
  /\ UNCHANGED <<threads, epoch, fresh, closed, status, error, connected, shut, prompt, machine>>

\* ... or an exception leaves it: a log that cannot be written, a record
\* that never ends.
read_raises(c) ==
  /\ Running /\ reader[c] = "reading"
  /\ error' = IF closed THEN error ELSE "exception"
  /\ reader' = [reader EXCEPT ![c] = "ended"]
  /\ UNCHANGED <<threads, epoch, fresh, closed, status, connected, shut, prompt, machine>>

\* finally: the test of closed and the report are two steps.
read_finally(c) ==
  /\ Running /\ reader[c] = "ended"
  /\ reader' = [reader EXCEPT ![c] = IF closed THEN "done" ELSE "reporting"]
  /\ UNCHANGED <<threads, epoch, fresh, closed, status, error, connected, shut, prompt, machine>>

\* Mutant: the reader leaves no explanation.
ExplainedNot == error

Explained == IF error = "none" THEN "channel closed" ELSE error

read_report(c) ==
  /\ Running /\ reader[c] = "reporting"
  /\ status' = "disconnected" /\ error' = Explained
  /\ reader' = [reader EXCEPT ![c] = "done"]
  /\ UNCHANGED <<threads, epoch, fresh, closed, connected, shut, prompt, machine>>

-----------------------------------------------------------------------------
(* QEMU and the kernel in it, and the end of the bridge.                   *)

\* The kernel boots to a prompt, answers what is typed, or panics.
kernel_writes ==
  /\ Running /\ Alive /\ connected = 2 /\ Len(wire) < WireLimit
  /\ \/ kernel = "booting" /\ kernel' = "up" /\ wire' = Append(wire, "prompt")
     \/ kernel = "up" /\ typed /\ kernel' = "up" /\ wire' = Append(wire, "prompt")
     \/ kernel # "panicked" /\ kernel' = "panicked" /\ wire' = Append(wire, "panic")
  /\ typed' = FALSE
  /\ UNCHANGED <<threads, epoch, fresh, guest, qemu>>

qemu_dies ==
  /\ Running /\ Alive
  /\ qemu' = qemu \ {epoch}
  /\ UNCHANGED <<threads, epoch, fresh, guest, kernel, wire, typed>>

\* Ctrl+C while serving or during the first start, or a failed first start:
\* main leaves its loop and closes the laboratory.  Handlers are daemon
\* threads that nobody waits for.
interrupt ==
  /\ \/ pc["main"] \in {"serving", "failed"} /\ UNCHANGED lock
     \/ op["main"] = "restart" /\ lock = "main" /\ lock' = "nobody"
  /\ Goto("main", "want") /\ op' = [op EXCEPT !["main"] = "exit"]
  /\ UNCHANGED <<epoch, fresh, guest, machine>>

process_exit ==
  /\ pc["main"] = "leaving"
  /\ Goto("main", "exited")
  /\ UNCHANGED <<lock, op, epoch, fresh, guest, machine>>

Gone == ~Running /\ UNCHANGED vars

Work(t) == \/ begin_close(t) \/ close_flag(t) \/ close_sockets(t) \/ close_terminate(t)
           \/ close_join(t) \/ close_status(t)
           \/ start_raises(t) \/ start_spawn(t) \/ start_connect(t) \/ start_threads(t)
           \/ start_prompt(t) \/ start_running(t)
Read(c) == read_end(c) \/ read_finally(c) \/ read_report(c)

Next ==
  \/ \E h \in Handlers :
       \/ \E what \in {"state", "input", "restart", "stop"} : request(h, what)
       \/ api_state(h) \/ api_input(h) \/ guest_send(h)
  \/ \E t \in Threads : Work(t)
  \/ read_chunk \/ \E c \in Channel : Read(c) \/ read_raises(c)
  \/ kernel_writes \/ qemu_dies \/ interrupt \/ process_exit \/ Gone

Spec == Init /\ [][Next]_vars

\* Threads that can run do run.  Nothing is assumed of the guest, of the
\* user, or of who gets the lock next: in particular a QEMU that is alive
\* need not read what is sent to it.
FairSpec == Spec /\ WF_vars(\E t \in Threads : lock = t /\ Work(t))
                 /\ WF_vars(\E h \in Handlers : ~Alive /\ guest_send(h))
                 /\ WF_vars(read_chunk) /\ \A c \in Channel : WF_vars(Read(c))

-----------------------------------------------------------------------------
Places == {"idle", "want", "send", "flag", "sockets", "terminate", "join", "stopped",
           "spawn", "connect", "threads", "prompt", "running", "serving", "failed", "leaving", "exited"}
Requests == {"none", "state", "input", "restart", "stop", "exit"}
ReaderStates == {"none", "reading", "ended", "reporting", "done"}

ThreadTypeOK ==
  /\ lock \in Threads \cup {"nobody"}
  /\ pc \in [Threads -> Places] /\ op \in [Threads -> Requests]
GuestTypeOK ==
  /\ epoch \in 1 .. MaxEpoch /\ fresh \in BOOLEAN
  /\ closed \in BOOLEAN /\ shut \in BOOLEAN /\ prompt \in BOOLEAN
  /\ status \in {"starting", "running", "faulted", "disconnected", "stopped"}
  /\ error \in {"none", "panic", "exception", "channel closed"}
  /\ connected \in 0 .. 2
  /\ reader \in [Channel -> ReaderStates]
MachineTypeOK ==
  /\ qemu \subseteq 1 .. MaxEpoch
  /\ kernel \in {"booting", "up", "panicked"}
  /\ wire \in Seq({"prompt", "panic"}) /\ Len(wire) <= WireLimit
  /\ typed \in BOOLEAN
TypeOK == ThreadTypeOK /\ GuestTypeOK /\ MachineTypeOK

\* The bridge owns one QEMU at a time: a restart has ended the old process
\* before it starts the next, whatever failed on the way, and once a request
\* has left the guest stopped no process is left.
OneGuestAtATime ==
  /\ qemu \subseteq {epoch}
  /\ lock = "nobody" /\ status = "stopped" => qemu = {}

\* Stopped is the last word on a guest: no reader that was still under way
\* when close was called reports a disconnection afterwards.
StoppedIsFinal ==
  [][status = "stopped" /\ lock = "nobody" => status' = "stopped"]_vars

\* A lost guest is noticeable: when a reader has given up although nobody
\* closed the guest, the state served to the page is not "running" or
\* carries an explanation.
LossIsNoticed ==
  lock = "nobody" /\ ~closed /\ (\E c \in Channel : reader[c] = "done")
    => status # "running" \/ error # "none"

\* The one wait under the lock that has no deadline.
Sending == lock # "nobody" /\ pc[lock] = "send" /\ Alive

\* Whoever takes lab.lock to start, stop or restart a guest gives it back,
\* however the guest behaves, and whoever takes it to type does so at the
\* latest when QEMU is gone.  Only a QEMU that lives and does not read its
\* input can keep the other requests waiting.  (The lock always passes
\* through "nobody": a handler takes it only when it is free.)
LockIsReleased ==
  lock # "nobody" ~> (lock = "nobody" \/ Sending \/ ~Running)

\* "Ctrl+C stops the bridge and its guest", as lab-server.py prints: when
\* the bridge's process has ended, no QEMU of its own is left.
ExitLeavesNoGuest == ~Running => qemu = {}
=============================================================================
