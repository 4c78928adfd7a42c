----------------------------- MODULE WebProofs ------------------------------
(***************************************************************************)
(* tools/lab-server.py and tools/lab_guest.py, for every number of handler *)
(* threads and of restarts: which promises of the bridge follow from the   *)
(* lock and from the order of the steps in close and start.                *)
(*                                                                         *)
(* web/app.js, for every number of guests and of events and every size of  *)
(* the window and of the table: what the console shows of the events after *)
(* any order of answers, scrolls and restarts.                             *)
(***************************************************************************)
EXTENDS Bridge, Console, SequenceFacts

\* The places in close and start; only the holder of the lock is in one.
Closing  == {"flag", "sockets", "terminate", "join", "stopped"}
Starting == {"spawn", "connect", "threads", "prompt", "running"}

\* What the holder has done so far.  Each step of close relies on the ones
\* before it: closed is set first, then the process ends, then the readers.
HolderProgress ==
  lock # "nobody" =>
    /\ pc[lock] \in Closing \cup Starting \cup {"send"}
    /\ op[lock] = "restart" /\ ~fresh => epoch < MaxEpoch
    /\ pc[lock] \in Closing \ {"flag"} => closed
    /\ pc[lock] \in {"join", "stopped"} => epoch \notin qemu
    /\ pc[lock] = "stopped" => Joined
    /\ pc[lock] = "spawn" => connected = 0
    /\ pc[lock] \in {"spawn", "send"} => status # "stopped"
    /\ pc[lock] = "connect" => connected \in {0, 1}

\* Until the first start is over main holds the lock, and nothing is stopped.
FirstStart == op["main"] = "restart" => lock = "main" /\ status # "stopped"

\* Between requests a stopped guest is closed, has no process, and no reader
\* is left that could still report something.
StoppedIsClosed ==
  lock = "nobody" /\ status = "stopped" => closed /\ Joined /\ qemu = {}

\* A reader that has finished was told to, or has left an explanation.
ReadersExplain == \A c \in Channel : reader[c] = "done" => closed \/ error # "none"

\* The inductive invariant.
BridgeInv ==
  /\ TypeOK /\ HolderProgress /\ FirstStart /\ StoppedIsClosed /\ ReadersExplain
  /\ qemu \subseteq {epoch}

-----------------------------------------------------------------------------
\* "main" is a thread and "nobody" is not.
LEMMA ThreadNames == "main" \in Threads /\ "nobody" \notin Threads
BY BridgeAssumption DEF Threads

\* The parts of the state that most steps leave alone.
LEMMA SameGuest ==
  ASSUME GuestTypeOK, UNCHANGED <<epoch, fresh, guest>>
  PROVE  GuestTypeOK'
BY DEF GuestTypeOK, guest

\* Likewise the machine.
LEMMA SameMachine ==
  ASSUME MachineTypeOK, UNCHANGED machine
  PROVE  MachineTypeOK'
BY DEF MachineTypeOK, machine

\* Moving a thread keeps the program counters typed.
LEMMA MoveThread ==
  ASSUME ThreadTypeOK, NEW t \in Threads, NEW where \in Places, Goto(t, where),
         lock' \in Threads \cup {"nobody"}, op' \in [Threads -> Requests]
  PROVE  /\ ThreadTypeOK' /\ pc'[t] = where
         /\ \A u \in Threads \ {t} : pc'[u] = pc[u]
BY DEF ThreadTypeOK, Goto

\* At the start main holds the lock and makes the first guest.
LEMMA BridgeInit == Init => BridgeInv
<1> SUFFICES ASSUME Init PROVE BridgeInv
  OBVIOUS
<1> USE DEF Init
<1>1. ThreadTypeOK
  BY ThreadNames DEF ThreadTypeOK, Places, Requests
<1>2. GuestTypeOK
  <2>1. epoch \in 1 .. MaxEpoch /\ connected \in 0 .. 2
    BY BridgeAssumption
  <2>2. reader \in [Channel -> ReaderStates]
    BY DEF ReaderStates
  <2>3. fresh \in BOOLEAN /\ closed \in BOOLEAN /\ shut \in BOOLEAN /\ prompt \in BOOLEAN
    OBVIOUS
  <2>4. QED BY <2>1, <2>2, <2>3 DEF GuestTypeOK
<1>3. MachineTypeOK
  <2>1. wire \in Seq({"prompt", "panic"}) /\ Len(wire) <= WireLimit
    BY BridgeAssumption
  <2>2. typed \in BOOLEAN /\ qemu \subseteq 1 .. MaxEpoch
    OBVIOUS
  <2>3. QED BY <2>1, <2>2 DEF MachineTypeOK
<1>4. HolderProgress
  BY ThreadNames DEF HolderProgress, Closing, Starting
<1>5. FirstStart /\ StoppedIsClosed /\ ReadersExplain /\ qemu \subseteq {epoch}
  BY DEF FirstStart, StoppedIsClosed, ReadersExplain
<1>6. QED BY <1>1, <1>2, <1>3, <1>4, <1>5 DEF BridgeInv, TypeOK

\* A new request moves a thread that does not hold the lock.
LEMMA RequestStep ==
  ASSUME BridgeInv, NEW h \in Handlers,
         NEW what \in {"state", "input", "restart", "stop"}, request(h, what)
  PROVE  BridgeInv'
<1>1. h \in Threads /\ h # "main"
  BY BridgeAssumption DEF Threads
<1>2. pc[h] = "idle" /\ Goto(h, "want") /\ op' = [op EXCEPT ![h] = what]
  BY DEF request
<1>3. UNCHANGED <<lock, epoch, fresh, guest, machine>>
  BY DEF request
<1>4. op' \in [Threads -> Requests] /\ \A u \in Threads \ {h} : op'[u] = op[u]
  BY <1>1, <1>2 DEF BridgeInv, TypeOK, ThreadTypeOK, Requests
<1>5. ThreadTypeOK' /\ \A u \in Threads \ {h} : pc'[u] = pc[u]
  BY <1>1, <1>2, <1>3, <1>4, MoveThread DEF BridgeInv, TypeOK, ThreadTypeOK, Places
<1>6. GuestTypeOK' /\ MachineTypeOK'
  BY <1>3, SameGuest, SameMachine DEF BridgeInv, TypeOK
<1>7. lock # h
  BY <1>1, <1>2, ThreadNames DEF BridgeInv, HolderProgress, Closing, Starting
<1>8. HolderProgress'
  <2>1. lock # "nobody" => pc'[lock] = pc[lock] /\ op'[lock] = op[lock]
    BY <1>4, <1>5, <1>7 DEF BridgeInv, TypeOK, ThreadTypeOK
  <2>2. QED
    BY <1>3, <2>1 DEF BridgeInv, HolderProgress, Joined, guest, machine
<1>9. FirstStart'
  BY <1>1, <1>3, <1>4, ThreadNames DEF BridgeInv, FirstStart, guest
<1>10. StoppedIsClosed' /\ ReadersExplain' /\ qemu' \subseteq {epoch'}
  BY <1>3 DEF BridgeInv, StoppedIsClosed, ReadersExplain, Joined, guest, machine
<1>11. QED
  BY <1>5, <1>6, <1>8, <1>9, <1>10 DEF BridgeInv, TypeOK

\* A request that is over at once, or input that has been sent: the lock is
\* free, and a guest that is closed keeps its status.
LEMMA AnswerStep ==
  ASSUME BridgeInv, NEW h \in Handlers,
         api_state(h) \/ (api_input(h) /\ lock' = "nobody") \/ guest_send(h)
  PROVE  BridgeInv'
<1>1. h \in Threads /\ h # "main"
  BY BridgeAssumption DEF Threads
<1>2. lock' = "nobody" /\ Goto(h, "idle") /\ op' = [op EXCEPT ![h] = "none"]
  BY <1>1, BridgeAssumption DEF api_state, api_input, guest_send, Wants, Done
<1>3. /\ UNCHANGED <<epoch, fresh, closed, error, connected, shut, prompt, reader,
                     qemu, kernel, wire>>
      /\ status' = status \/ (status' = "disconnected" /\ ~closed)
  BY DEF api_state, api_input, guest_send, guest, machine
<1>4. typed' \in BOOLEAN
  BY DEF api_state, api_input, guest_send, Alive, machine, BridgeInv, TypeOK, MachineTypeOK
<1>0. lock = "nobody" \/ (lock = h /\ pc[h] = "send")
  BY DEF api_state, api_input, guest_send, Wants
<1>5. op' \in [Threads -> Requests] /\ op'["main"] = op["main"]
  BY <1>1, <1>2, ThreadNames DEF BridgeInv, TypeOK, ThreadTypeOK, Requests
<1>6. ThreadTypeOK'
  BY <1>1, <1>2, <1>5, MoveThread DEF BridgeInv, TypeOK, ThreadTypeOK, Places
<1>7. GuestTypeOK'
  BY <1>3 DEF BridgeInv, TypeOK, GuestTypeOK
<1>8. MachineTypeOK'
  BY <1>3, <1>4 DEF BridgeInv, TypeOK, MachineTypeOK
<1>9. HolderProgress' /\ ReadersExplain' /\ qemu' \subseteq {epoch'}
  BY <1>2, <1>3 DEF BridgeInv, HolderProgress, ReadersExplain
<1>10. StoppedIsClosed'
  <2>1. lock = h => status # "stopped"
    BY <1>0, <1>1, ThreadNames DEF BridgeInv, HolderProgress
  <2>2. QED BY <1>0, <1>2, <1>3, <2>1 DEF BridgeInv, StoppedIsClosed, Joined
<1>11. FirstStart'
  BY <1>0, <1>1, <1>5, BridgeAssumption DEF BridgeInv, FirstStart
<1>12. QED
  BY <1>6, <1>7, <1>8, <1>9, <1>10, <1>11 DEF BridgeInv, TypeOK

\* A thread takes the free lock to type into a running guest.
LEMMA BeginSendStep ==
  ASSUME BridgeInv, NEW h \in Handlers, api_input(h), lock' # "nobody"
  PROVE  BridgeInv'
<1>1. /\ lock = "nobody" /\ lock' = h /\ Goto(h, "send") /\ op' = op /\ op[h] = "input"
      /\ status = "running" /\ UNCHANGED <<epoch, fresh, guest, machine>>
  BY DEF api_input, Wants
<1>2. h \in Threads /\ h # "main"
  BY BridgeAssumption DEF Threads
<1>3. ThreadTypeOK' /\ pc'[h] = "send"
  BY <1>1, <1>2, MoveThread DEF BridgeInv, TypeOK, ThreadTypeOK, Places
<1>4. GuestTypeOK' /\ MachineTypeOK'
  BY <1>1, SameGuest, SameMachine DEF BridgeInv, TypeOK
<1>5. HolderProgress'
  BY <1>1, <1>3 DEF HolderProgress, Closing, guest
<1>6. FirstStart' /\ StoppedIsClosed'
  BY <1>1 DEF BridgeInv, FirstStart, StoppedIsClosed
<1>7. ReadersExplain' /\ qemu' \subseteq {epoch'}
  BY <1>1 DEF BridgeInv, ReadersExplain, guest, machine
<1>8. QED BY <1>3, <1>4, <1>5, <1>6, <1>7 DEF BridgeInv, TypeOK

\* A thread takes the free lock to close the guest.
LEMMA BeginCloseStep ==
  ASSUME BridgeInv, NEW t \in Threads, begin_close(t)
  PROVE  BridgeInv'
<1>1. /\ lock = "nobody" /\ lock' = t /\ fresh' = FALSE /\ Goto(t, "flag") /\ op' = op
      /\ op[t] = "restart" => epoch < MaxEpoch
  BY DEF begin_close, Wants
<1>2. UNCHANGED <<epoch, closed, status, error, connected, shut, prompt, reader, machine>>
  BY DEF begin_close, guest
<1>3. ThreadTypeOK' /\ pc'[t] = "flag"
  BY <1>1, MoveThread DEF BridgeInv, TypeOK, ThreadTypeOK, Places
<1>4. GuestTypeOK' /\ MachineTypeOK'
  BY <1>1, <1>2, SameMachine DEF BridgeInv, TypeOK, GuestTypeOK
<1>5. HolderProgress'
  BY <1>1, <1>2, <1>3 DEF HolderProgress, Closing
<1>6. FirstStart'
  BY <1>1 DEF BridgeInv, FirstStart
<1>7. StoppedIsClosed' /\ ReadersExplain' /\ qemu' \subseteq {epoch'}
  BY <1>1, <1>2, ThreadNames DEF BridgeInv, StoppedIsClosed, ReadersExplain, machine
<1>8. QED BY <1>3, <1>4, <1>5, <1>6, <1>7 DEF BridgeInv, TypeOK

-----------------------------------------------------------------------------
(* close and start, by the holder of the lock.                             *)

\* The holder moves on and keeps the lock.
LEMMA HolderMoves ==
  ASSUME BridgeInv, NEW t \in Threads, lock = t, NEW where \in Closing \cup Starting,
         Goto(t, where), UNCHANGED <<lock, op>>
  PROVE  ThreadTypeOK' /\ pc'[t] = where
BY MoveThread DEF BridgeInv, TypeOK, ThreadTypeOK, Places, Closing, Starting

\* The first four steps of close, each resting on the ones before it.
LEMMA CloseStep ==
  ASSUME BridgeInv, NEW t \in Threads,
         close_flag(t) \/ close_sockets(t) \/ close_terminate(t) \/ close_join(t)
  PROVE  BridgeInv'
<1>1. lock = t /\ t # "nobody" /\ UNCHANGED <<lock, op, epoch, fresh>>
  BY ThreadNames DEF close_flag, close_sockets, close_terminate, close_join, At
<1>2. /\ qemu' \in {qemu, qemu \ {epoch}} /\ closed' \in {closed, TRUE} /\ shut' \in {shut, TRUE}
      /\ UNCHANGED <<status, error, connected, prompt, reader, kernel, wire, typed>>
  BY DEF close_flag, close_sockets, close_terminate, close_join, guest, machine, Terminated
<1>3. GuestTypeOK'
  BY <1>1, <1>2 DEF BridgeInv, TypeOK, GuestTypeOK
<1>4. MachineTypeOK' /\ qemu' \subseteq {epoch'}
  BY <1>1, <1>2 DEF BridgeInv, TypeOK, MachineTypeOK
<1>5. FirstStart' /\ StoppedIsClosed' /\ ReadersExplain'
  <2>1. closed => closed'
    BY DEF close_flag, close_sockets, close_terminate, close_join, guest
  <2>2. QED
    BY <1>1, <1>2, <2>1 DEF BridgeInv, FirstStart, StoppedIsClosed, ReadersExplain
<1>6. op[t] = "restart" /\ ~fresh => epoch < MaxEpoch
  BY <1>1 DEF BridgeInv, HolderProgress
<1>7. ThreadTypeOK' /\ HolderProgress'
  <2>1. CASE close_flag(t)
    <3>1. ThreadTypeOK' /\ pc'[t] = "sockets" /\ closed'
      BY <1>1, <2>1, HolderMoves DEF close_flag, Closing
    <3>2. QED BY <1>1, <1>6, <3>1 DEF HolderProgress, Closing
  <2>2. CASE close_sockets(t)
    <3>1. ThreadTypeOK' /\ pc'[t] = "terminate" /\ closed' = closed /\ pc[t] = "sockets"
      BY <1>1, <2>2, HolderMoves DEF close_sockets, Closing, At
    <3>2. QED BY <1>1, <1>6, <3>1 DEF BridgeInv, HolderProgress, Closing
  <2>3. CASE close_terminate(t)
    <3>1. ThreadTypeOK' /\ pc'[t] = "join" /\ closed' = closed /\ pc[t] = "terminate"
      BY <1>1, <2>3, HolderMoves DEF close_terminate, Closing, At, guest
    <3>2. epoch \notin qemu'
      BY <2>3 DEF close_terminate, Terminated
    <3>3. QED BY <1>1, <1>6, <3>1, <3>2 DEF BridgeInv, HolderProgress, Closing
  <2>4. CASE close_join(t)
    <3>1. /\ ThreadTypeOK' /\ pc'[t] = "stopped" /\ pc[t] = "join" /\ Joined
          /\ closed' = closed /\ qemu' = qemu /\ reader' = reader
      BY <1>1, <2>4, HolderMoves DEF close_join, Closing, At, guest, machine
    <3>2. QED BY <1>1, <1>6, <3>1 DEF BridgeInv, HolderProgress, Closing, Joined
  <2>5. QED BY <2>1, <2>2, <2>3, <2>4
<1>8. QED
  BY <1>3, <1>4, <1>5, <1>7 DEF BridgeInv, TypeOK

\* The end of close: the guest is closed, its process gone and its readers
\* finished, so stopped may be said, or the next guest made.
LEMMA CloseStatusStep ==
  ASSUME BridgeInv, NEW t \in Threads, close_status(t)
  PROVE  BridgeInv'
<1>1. lock = t /\ t # "nobody" /\ pc[t] = "stopped"
  BY ThreadNames DEF close_status, At
<1>2. closed /\ Joined /\ epoch \notin qemu /\ qemu = {}
  BY <1>1 DEF BridgeInv, HolderProgress, Closing
<1>3. CASE op[t] = "restart" /\ ~fresh
  <2>1. /\ epoch' = epoch + 1 /\ fresh' = TRUE /\ Goto(t, "spawn") /\ UNCHANGED <<lock, op, qemu>>
        /\ closed' = FALSE /\ status' = "starting" /\ error' = "none"
        /\ connected' = 0 /\ shut' = FALSE /\ prompt' = FALSE
        /\ reader' = [c \in Channel |-> "none"]
        /\ kernel' = "booting" /\ wire' = << >> /\ typed' = FALSE
    BY <1>3 DEF close_status, NewGuest
  <2>2. epoch' \in 1 .. MaxEpoch
    <3>1. epoch < MaxEpoch /\ epoch \in 1 .. MaxEpoch
      BY <1>1, <1>3 DEF BridgeInv, HolderProgress, TypeOK, GuestTypeOK
    <3>2. QED BY <2>1, <3>1, BridgeAssumption
  <2>3. ThreadTypeOK' /\ pc'[t] = "spawn"
    BY <1>1, <2>1, HolderMoves DEF Starting
  <2>4. GuestTypeOK'
    <3>1. reader' \in [Channel -> ReaderStates] /\ connected' \in 0 .. 2
      BY <2>1 DEF ReaderStates
    <3>2. /\ fresh' \in BOOLEAN /\ closed' \in BOOLEAN /\ shut' \in BOOLEAN /\ prompt' \in BOOLEAN
      BY <2>1
    <3>3. QED BY <2>1, <2>2, <3>1, <3>2 DEF GuestTypeOK
  <2>5. MachineTypeOK' /\ qemu' = {}
    <3>1. wire' \in Seq({"prompt", "panic"}) /\ Len(wire') <= WireLimit
      BY <2>1, BridgeAssumption
    <3>2. typed' \in BOOLEAN /\ qemu' = {}
      BY <1>2, <2>1
    <3>3. QED BY <2>1, <3>1, <3>2 DEF MachineTypeOK
  <2>6. HolderProgress'
    BY <1>1, <2>1, <2>3 DEF HolderProgress, Closing, Starting
  <2>7. FirstStart' /\ StoppedIsClosed' /\ ReadersExplain'
    BY <1>1, <2>1 DEF BridgeInv, FirstStart, StoppedIsClosed, ReadersExplain
  <2>8. QED
    BY <2>3, <2>4, <2>5, <2>6, <2>7 DEF BridgeInv, TypeOK
<1>4. CASE ~(op[t] = "restart" /\ ~fresh)
  <2>1. /\ status' = "stopped" /\ lock' = "nobody"
        /\ \E where \in {"idle", "leaving", "failed"} : Goto(t, where)
        /\ op' = [op EXCEPT ![t] = "none"]
    BY <1>4 DEF close_status, Leave, Done
  <2>2. UNCHANGED <<epoch, fresh, closed, error, connected, shut, prompt, reader, machine>>
    BY <1>4 DEF close_status
  <2>3. op' \in [Threads -> Requests] /\ op'[t] = "none" /\ \A u \in Threads \ {t} : op'[u] = op[u]
    BY <2>1 DEF BridgeInv, TypeOK, ThreadTypeOK, Requests
  <2>4. ThreadTypeOK'
    BY <2>1, <2>3, MoveThread DEF BridgeInv, TypeOK, Places
  <2>5. GuestTypeOK' /\ MachineTypeOK'
    BY <2>1, <2>2, SameMachine DEF BridgeInv, TypeOK, GuestTypeOK
  <2>6. HolderProgress' /\ StoppedIsClosed' /\ ReadersExplain' /\ qemu' \subseteq {epoch'}
    BY <1>2, <2>1, <2>2
    DEF BridgeInv, HolderProgress, StoppedIsClosed, ReadersExplain, Joined, machine
  <2>7. op'["main"] # "restart"
    BY <1>1, <2>3, ThreadNames DEF BridgeInv, FirstStart
  <2>8. QED
    BY <2>4, <2>5, <2>6, <2>7 DEF BridgeInv, TypeOK, FirstStart
<1>5. QED BY <1>3, <1>4

\* Start up to the wait for the prompt: the lock is kept.
LEMMA StartStep ==
  ASSUME BridgeInv, NEW t \in Threads,
         start_spawn(t) \/ start_connect(t) \/ start_threads(t) \/ start_prompt(t)
  PROVE  BridgeInv'
<1>1. lock = t /\ t # "nobody" /\ UNCHANGED <<lock, op, epoch, fresh>>
  BY ThreadNames DEF start_spawn, start_connect, start_threads, start_prompt, At
<1>2. /\ UNCHANGED <<closed, status, error, shut, prompt, kernel, wire, typed>>
      /\ qemu' \in {qemu, qemu \cup {epoch}}
      /\ reader' \in {reader, [c \in Channel |-> "reading"]}
  BY DEF start_spawn, start_connect, start_threads, start_prompt, guest, machine
<1>3. connected' \in 0 .. 2 /\ \E where \in {"flag"} \cup Starting :
           /\ Goto(t, where) /\ where # "spawn"
           /\ where = "connect" => connected' \in {0, 1}
  <2>1. connected \in 0 .. 2
    BY DEF BridgeInv, TypeOK, GuestTypeOK
  <2>2. CASE start_spawn(t)
    <3>1. connected = 0 /\ connected' = 0
      BY <1>1, <2>2 DEF BridgeInv, HolderProgress, start_spawn, At, guest
    <3>2. QED BY <2>2, <3>1 DEF start_spawn, Starting
  <2>3. CASE start_connect(t)
    <3>1. connected \in {0, 1}
      BY <1>1, <2>3 DEF BridgeInv, HolderProgress, start_connect, At
    <3>2. CASE connected' = connected + 1 /\ Goto(t, AfterConnect)
      BY <3>1, <3>2 DEF AfterConnect, Starting
    <3>3. CASE connected' = connected /\ Goto(t, "flag")
      BY <3>1, <3>3
    <3>4. QED BY <2>3, <3>2, <3>3 DEF start_connect
  <2>4. CASE start_threads(t)
    BY <2>1, <2>4 DEF start_threads, Starting
  <2>5. CASE start_prompt(t)
    BY <2>1, <2>5 DEF start_prompt, Starting, guest
  <2>6. QED BY <2>2, <2>3, <2>4, <2>5
<1>4. PICK where \in {"flag"} \cup Starting :
           /\ Goto(t, where) /\ where # "spawn"
           /\ where = "connect" => connected' \in {0, 1}
  BY <1>3
<1>5. ThreadTypeOK' /\ pc'[t] = where
  BY <1>1, <1>4, HolderMoves DEF Closing
<1>6. GuestTypeOK'
  <2>1. reader' \in [Channel -> ReaderStates]
    BY <1>2 DEF BridgeInv, TypeOK, GuestTypeOK, ReaderStates
  <2>2. QED
    BY <1>1, <1>2, <1>3, <2>1 DEF BridgeInv, TypeOK, GuestTypeOK
<1>7. MachineTypeOK' /\ qemu' \subseteq {epoch'}
  <2>1. epoch \in 1 .. MaxEpoch
    BY DEF BridgeInv, TypeOK, GuestTypeOK
  <2>2. QED
    BY <1>1, <1>2, <2>1 DEF BridgeInv, TypeOK, MachineTypeOK
<1>8. HolderProgress'
  BY <1>1, <1>4, <1>5 DEF BridgeInv, HolderProgress, Closing, Starting
<1>9. FirstStart' /\ StoppedIsClosed'
  BY <1>1, <1>2 DEF BridgeInv, FirstStart, StoppedIsClosed
<1>10. ReadersExplain'
  BY <1>2 DEF BridgeInv, ReadersExplain
<1>11. QED
  BY <1>5, <1>6, <1>7, <1>8, <1>9, <1>10 DEF BridgeInv, TypeOK

\* Start fails before it has done anything: the guest stays as it was made.
LEMMA StartRaisesStep ==
  ASSUME BridgeInv, NEW t \in Threads, start_raises(t)
  PROVE  BridgeInv'
<1>1. /\ lock = t /\ pc[t] = "spawn" /\ lock' = "nobody"
      /\ \E where \in {"idle", "leaving", "failed"} : Goto(t, where)
      /\ op' = [op EXCEPT ![t] = "none"]
      /\ UNCHANGED <<epoch, fresh, guest, machine>>
  BY DEF start_raises, At, Leave, Done
<1>2. op' \in [Threads -> Requests] /\ op'[t] = "none" /\ \A u \in Threads \ {t} : op'[u] = op[u]
  BY <1>1 DEF BridgeInv, TypeOK, ThreadTypeOK, Requests
<1>3. ThreadTypeOK'
  BY <1>1, <1>2, MoveThread DEF BridgeInv, TypeOK, Places
<1>4. GuestTypeOK' /\ MachineTypeOK'
  BY <1>1, SameGuest, SameMachine DEF BridgeInv, TypeOK
<1>5. status # "stopped"
  BY <1>1, ThreadNames DEF BridgeInv, HolderProgress
<1>6. HolderProgress' /\ StoppedIsClosed' /\ ReadersExplain' /\ qemu' \subseteq {epoch'}
  BY <1>1, <1>5 DEF BridgeInv, HolderProgress, StoppedIsClosed, ReadersExplain, guest, machine
<1>7. op'["main"] # "restart"
  BY <1>1, <1>2, ThreadNames DEF BridgeInv, FirstStart
<1>8. QED
  BY <1>3, <1>4, <1>6, <1>7 DEF BridgeInv, TypeOK, FirstStart

\* The start succeeds, and the lock is free again.
LEMMA StartRunningStep ==
  ASSUME BridgeInv, NEW t \in Threads, start_running(t)
  PROVE  BridgeInv'
<1>1. /\ lock = t /\ lock' = "nobody" /\ status' = "running"
      /\ \E where \in {"serving", "idle"} : Goto(t, where)
      /\ op' = [op EXCEPT ![t] = "none"]
  BY DEF start_running, At, Done
<1>2. UNCHANGED <<epoch, fresh, closed, error, connected, shut, prompt, reader, machine>>
  BY DEF start_running
<1>3. op' \in [Threads -> Requests] /\ op'[t] = "none" /\ \A u \in Threads \ {t} : op'[u] = op[u]
  BY <1>1 DEF BridgeInv, TypeOK, ThreadTypeOK, Requests
<1>4. ThreadTypeOK'
  BY <1>1, <1>3, MoveThread DEF BridgeInv, TypeOK, Places
<1>5. GuestTypeOK' /\ MachineTypeOK'
  BY <1>1, <1>2, SameMachine DEF BridgeInv, TypeOK, GuestTypeOK
<1>6. HolderProgress' /\ StoppedIsClosed' /\ ReadersExplain' /\ qemu' \subseteq {epoch'}
  BY <1>1, <1>2 DEF BridgeInv, HolderProgress, StoppedIsClosed, ReadersExplain, machine
<1>7. op'["main"] # "restart"
  BY <1>1, <1>3, ThreadNames DEF BridgeInv, FirstStart
<1>8. QED
  BY <1>4, <1>5, <1>6, <1>7 DEF BridgeInv, TypeOK, FirstStart

-----------------------------------------------------------------------------
(* The readers, the guest's machine, and the end of the bridge.            *)

\* A step that leaves the threads, the epoch and closed alone preserves what
\* the holder has done, if no process appears, no socket is counted, no
\* reader that has finished starts again and no guest is said to be stopped.
LEMMA HolderUndisturbed ==
  ASSUME BridgeInv, UNCHANGED <<lock, pc, op, epoch, fresh, closed, connected>>,
         qemu' \subseteq qemu, Joined => Joined', status # "stopped" => status' # "stopped"
  PROVE  HolderProgress'
BY DEF BridgeInv, HolderProgress

\* A reader moves on, and may report.
LEMMA ReaderStep ==
  ASSUME BridgeInv, NEW c \in Channel, Read(c) \/ read_raises(c)
  PROVE  BridgeInv'
<1>1. UNCHANGED <<lock, pc, op, epoch, fresh, closed, connected, shut, prompt,
                  qemu, kernel, wire, typed>>
  BY DEF Read, read_end, read_raises, read_finally, read_report, threads, machine
<1>2. /\ reader[c] \in {"reading", "ended", "reporting"}
      /\ \E r \in ReaderStates : reader' = [reader EXCEPT ![c] = r]
  BY DEF Read, read_end, read_raises, read_finally, read_report, ReaderStates
<1>3. reader \in [Channel -> ReaderStates] /\ reader' \in [Channel -> ReaderStates]
  BY <1>2 DEF BridgeInv, TypeOK, GuestTypeOK
<1>4. ~Joined
  BY <1>2 DEF Joined
<1>5. status' \in {status, "disconnected"}
  BY DEF Read, read_end, read_raises, read_finally, read_report
<1>6. error' \in {error, "exception", "channel closed"}
  BY DEF Read, read_end, read_raises, read_finally, read_report, Explained
<1>7. ThreadTypeOK' /\ MachineTypeOK'
  BY <1>1, SameMachine DEF BridgeInv, TypeOK, ThreadTypeOK, machine
<1>8. GuestTypeOK'
  BY <1>1, <1>3, <1>5, <1>6 DEF BridgeInv, TypeOK, GuestTypeOK
<1>9. HolderProgress'
  BY <1>1, <1>4, <1>5, HolderUndisturbed
<1>10. FirstStart' /\ StoppedIsClosed' /\ qemu' \subseteq {epoch'}
  BY <1>1, <1>4, <1>5 DEF BridgeInv, FirstStart, StoppedIsClosed
<1>11. ReadersExplain'
  <2>1. error # "none" => error' # "none"
    BY <1>6
  <2>2. \A d \in Channel \ {c} : reader'[d] = reader[d]
    BY <1>2, <1>3
  <2>3. reader'[c] = "done" => closed \/ error' # "none"
    BY <1>2, <1>3 DEF Read, read_end, read_raises, read_finally, read_report, Explained
  <2>4. QED
    BY <1>1, <2>1, <2>2, <2>3 DEF BridgeInv, ReadersExplain
<1>12. QED
  BY <1>7, <1>8, <1>9, <1>10, <1>11 DEF BridgeInv, TypeOK

\* A chunk of the console: a panic line changes the status, but only while a
\* reader is still reading.
LEMMA ChunkStep == BridgeInv /\ read_chunk => BridgeInv'
<1> SUFFICES ASSUME BridgeInv, read_chunk PROVE BridgeInv'
  OBVIOUS
<1>1. UNCHANGED <<lock, pc, op, epoch, fresh, closed, connected, shut, reader,
                  qemu, kernel, typed>>
  BY DEF read_chunk, threads
<1>2. /\ wire # << >> /\ wire' = Tail(wire) /\ prompt' \in BOOLEAN
      /\ status' \in {status, "faulted"} /\ error' \in {error, "panic"}
      /\ reader[0] = "reading"
  BY DEF read_chunk, BridgeInv, TypeOK, GuestTypeOK
<1>3. ~Joined
  BY <1>2 DEF Joined, Channel
<1>4. MachineTypeOK'
  <2>1. wire \in Seq({"prompt", "panic"}) /\ Len(wire) <= WireLimit
    BY DEF BridgeInv, TypeOK, MachineTypeOK
  <2>2. wire' \in Seq({"prompt", "panic"}) /\ Len(wire') <= WireLimit
    BY <1>2, <2>1, BridgeAssumption
  <2>3. QED BY <1>1, <2>2 DEF BridgeInv, TypeOK, MachineTypeOK
<1>5. ThreadTypeOK' /\ GuestTypeOK'
  BY <1>1, <1>2 DEF BridgeInv, TypeOK, ThreadTypeOK, GuestTypeOK
<1>6. HolderProgress'
  BY <1>1, <1>2, <1>3, HolderUndisturbed
<1>7. FirstStart' /\ StoppedIsClosed' /\ ReadersExplain' /\ qemu' \subseteq {epoch'}
  BY <1>1, <1>2, <1>3 DEF BridgeInv, FirstStart, StoppedIsClosed, ReadersExplain
<1>8. QED BY <1>4, <1>5, <1>6, <1>7 DEF BridgeInv, TypeOK

\* The kernel writes to the console, or QEMU dies.
LEMMA MachineStep == BridgeInv /\ (kernel_writes \/ qemu_dies) => BridgeInv'
<1> SUFFICES ASSUME BridgeInv, kernel_writes \/ qemu_dies PROVE BridgeInv'
  OBVIOUS
<1>1. UNCHANGED <<lock, pc, op, epoch, fresh, guest>> /\ qemu' \subseteq qemu
  BY DEF kernel_writes, qemu_dies, threads
<1>2. /\ kernel' \in {"booting", "up", "panicked"} /\ typed' \in BOOLEAN
      /\ wire' = wire \/ (/\ Len(wire) < WireLimit
                          /\ \E m \in {"prompt", "panic"} : wire' = Append(wire, m))
  BY DEF kernel_writes, qemu_dies, BridgeInv, TypeOK, MachineTypeOK
<1>3. MachineTypeOK'
  <2>1. wire \in Seq({"prompt", "panic"}) /\ Len(wire) <= WireLimit
    BY DEF BridgeInv, TypeOK, MachineTypeOK
  <2>2. wire' \in Seq({"prompt", "panic"}) /\ Len(wire') <= WireLimit
    BY <1>2, <2>1, BridgeAssumption
  <2>3. QED BY <1>1, <1>2, <2>2 DEF BridgeInv, TypeOK, MachineTypeOK
<1>4. ThreadTypeOK' /\ GuestTypeOK'
  BY <1>1, SameGuest DEF BridgeInv, TypeOK, ThreadTypeOK
<1>5. HolderProgress'
  BY <1>1, HolderUndisturbed DEF guest, Joined
<1>6. FirstStart' /\ StoppedIsClosed' /\ ReadersExplain' /\ qemu' \subseteq {epoch'}
  BY <1>1 DEF BridgeInv, FirstStart, StoppedIsClosed, ReadersExplain, Joined, guest
<1>7. QED BY <1>3, <1>4, <1>5, <1>6 DEF BridgeInv, TypeOK

\* Ctrl+C, also in the middle of the first start, whose guest is not stopped.
LEMMA InterruptStep == BridgeInv /\ (interrupt \/ process_exit) => BridgeInv'
<1> SUFFICES ASSUME BridgeInv, interrupt \/ process_exit PROVE BridgeInv'
  OBVIOUS
<1>1. UNCHANGED <<epoch, fresh, guest, machine>>
  BY DEF interrupt, process_exit
<1>2. \/ pc["main"] \in {"serving", "failed", "leaving"} /\ lock' = lock
      \/ op["main"] = "restart" /\ lock = "main" /\ lock' = "nobody"
  BY DEF interrupt, process_exit
<1>3. /\ \E where \in {"want", "exited"} : Goto("main", where)
      /\ op' \in {op, [op EXCEPT !["main"] = "exit"]}
  BY DEF interrupt, process_exit
<1>4. /\ op' \in [Threads -> Requests] /\ op'["main"] \in {op["main"], "exit"}
      /\ \A u \in Threads \ {"main"} : op'[u] = op[u]
  BY <1>3, ThreadNames DEF BridgeInv, TypeOK, ThreadTypeOK, Requests
<1>5. lock' \in Threads \cup {"nobody"}
  BY <1>2 DEF BridgeInv, TypeOK, ThreadTypeOK
<1>6. ThreadTypeOK' /\ \A u \in Threads \ {"main"} : pc'[u] = pc[u]
  BY <1>3, <1>4, <1>5, MoveThread, ThreadNames DEF BridgeInv, TypeOK, Places
<1>7. GuestTypeOK' /\ MachineTypeOK'
  BY <1>1, SameGuest, SameMachine DEF BridgeInv, TypeOK
<1>8. CASE pc["main"] \in {"serving", "failed", "leaving"} /\ lock' = lock
  <2>1. lock # "main" /\ op["main"] # "restart"
    BY <1>8, ThreadNames DEF BridgeInv, HolderProgress, FirstStart, Closing, Starting
  <2>2. lock # "nobody" => pc'[lock] = pc[lock] /\ op'[lock] = op[lock]
    BY <1>4, <1>6, <2>1 DEF BridgeInv, TypeOK, ThreadTypeOK
  <2>3. HolderProgress'
    BY <1>1, <1>8, <2>2 DEF BridgeInv, HolderProgress, Joined, guest, machine
  <2>4. FirstStart'
    BY <1>4, <2>1 DEF FirstStart
  <2>5. StoppedIsClosed' /\ ReadersExplain' /\ qemu' \subseteq {epoch'}
    BY <1>1, <1>8 DEF BridgeInv, StoppedIsClosed, ReadersExplain, Joined, guest, machine
  <2>6. QED BY <1>6, <1>7, <2>3, <2>4, <2>5 DEF BridgeInv, TypeOK
<1>9. CASE op["main"] = "restart" /\ lock = "main" /\ lock' = "nobody"
  <2>1. status # "stopped" /\ pc["main"] \in Closing \cup Starting \cup {"send"}
    BY <1>9, ThreadNames DEF BridgeInv, FirstStart, HolderProgress
  <2>2. interrupt
    BY <2>1 DEF process_exit, Closing, Starting
  <2>3. op'["main"] = "exit"
    BY <2>2, ThreadNames DEF interrupt, BridgeInv, TypeOK, ThreadTypeOK
  <2>4. HolderProgress' /\ FirstStart' /\ StoppedIsClosed'
    BY <1>1, <1>9, <2>1, <2>3 DEF HolderProgress, FirstStart, StoppedIsClosed, guest
  <2>5. ReadersExplain' /\ qemu' \subseteq {epoch'}
    BY <1>1 DEF BridgeInv, ReadersExplain, guest, machine
  <2>6. QED BY <1>6, <1>7, <2>4, <2>5 DEF BridgeInv, TypeOK
<1>10. QED BY <1>2, <1>8, <1>9

\* Every step of the bridge preserves the invariant.
LEMMA BridgeNext == BridgeInv /\ [Next]_vars => BridgeInv'
<1> SUFFICES ASSUME BridgeInv, [Next]_vars PROVE BridgeInv'
  OBVIOUS
<1>1. ASSUME NEW h \in Handlers,
             \/ \E what \in {"state", "input", "restart", "stop"} : request(h, what)
             \/ api_state(h) \/ api_input(h) \/ guest_send(h)
      PROVE  BridgeInv'
  BY <1>1, RequestStep, AnswerStep, BeginSendStep
<1>2. ASSUME NEW t \in Threads, Work(t) PROVE BridgeInv'
  BY <1>2, BeginCloseStep, CloseStep, CloseStatusStep, StartRaisesStep, StartStep,
     StartRunningStep DEF Work
<1>3. ASSUME NEW c \in Channel, Read(c) \/ read_raises(c) PROVE BridgeInv'
  BY <1>3, ReaderStep
<1>4. CASE read_chunk
  BY <1>4, ChunkStep
<1>5. CASE kernel_writes \/ qemu_dies
  BY <1>5, MachineStep
<1>6. CASE interrupt \/ process_exit
  BY <1>6, InterruptStep
<1>7. CASE UNCHANGED vars
  <2>1. UNCHANGED <<lock, pc, op, epoch, fresh, guest, machine>>
    BY <1>7 DEF vars, threads
  <2>2. ThreadTypeOK' /\ GuestTypeOK' /\ MachineTypeOK'
    BY <2>1, SameGuest, SameMachine DEF BridgeInv, TypeOK, ThreadTypeOK
  <2>3. HolderProgress'
    BY <2>1, HolderUndisturbed DEF guest, machine, Joined
  <2>4. FirstStart' /\ StoppedIsClosed' /\ ReadersExplain' /\ qemu' \subseteq {epoch'}
    BY <2>1 DEF BridgeInv, FirstStart, StoppedIsClosed, ReadersExplain, Joined, guest, machine
  <2>5. QED BY <2>2, <2>3, <2>4 DEF BridgeInv, TypeOK
<1>8. QED
  BY <1>1, <1>2, <1>3, <1>4, <1>5, <1>6, <1>7 DEF Next, Gone

-----------------------------------------------------------------------------
\* The bridge's state is well typed; in particular no request starts more
\* guests, and no start more connections, than the bounds allow.
THEOREM BridgeTypeCorrect == Spec => []TypeOK
<1>1. BridgeInv => TypeOK
  BY DEF BridgeInv
<1>2. QED BY <1>1, BridgeInit, BridgeNext, PTL DEF Spec

\* At most one QEMU is alive, the current one, and none once it is stopped.
THEOREM OneGuestCorrect == Spec => []OneGuestAtATime
<1>1. BridgeInv => OneGuestAtATime
  BY DEF BridgeInv, OneGuestAtATime, StoppedIsClosed
<1>2. QED BY <1>1, BridgeInit, BridgeNext, PTL DEF Spec

\* A reader that gave up on an open guest has left its explanation.
THEOREM LossCorrect == Spec => []LossIsNoticed
<1>1. BridgeInv => LossIsNoticed
  BY DEF BridgeInv, LossIsNoticed, ReadersExplain
<1>2. QED BY <1>1, BridgeInit, BridgeNext, PTL DEF Spec

\* After stopped, no reader and no snapshot changes the status.
THEOREM StoppedCorrect == Spec => StoppedIsFinal
<1>1. BridgeInv /\ [Next]_vars =>
        [status = "stopped" /\ lock = "nobody" => status' = "stopped"]_vars
  <2> SUFFICES ASSUME BridgeInv, Next, status = "stopped", lock = "nobody"
               PROVE  status' = "stopped"
    OBVIOUS
  <2>1. closed /\ Joined
    BY DEF BridgeInv, StoppedIsClosed
  <2>2. ASSUME status' = status PROVE status' = "stopped"
    BY <2>2
  <2>3. ASSUME NEW h \in Handlers,
               \/ \E what \in {"state", "input", "restart", "stop"} : request(h, what)
               \/ api_state(h) \/ api_input(h) \/ guest_send(h)
        PROVE  status' = status
    BY <2>1, <2>3 DEF request, api_state, api_input, guest_send, guest
  <2>4. ASSUME NEW t \in Threads, Work(t) PROVE status' = status
    BY <2>4, ThreadNames
    DEF Work, At, begin_close, close_flag, close_sockets, close_terminate, close_join, close_status,
        start_raises, start_spawn, start_connect, start_threads, start_prompt, start_running, guest
  <2>5. ASSUME NEW c \in Channel, Read(c) \/ read_raises(c) PROVE FALSE
    BY <2>1, <2>5 DEF Read, read_end, read_raises, read_finally, read_report, Joined
  <2>6. ~read_chunk
    BY <2>1 DEF read_chunk, Joined, Channel
  <2>7. ASSUME kernel_writes \/ qemu_dies \/ interrupt \/ process_exit \/ Gone
        PROVE  status' = status
    BY <2>7 DEF kernel_writes, qemu_dies, interrupt, process_exit, Gone, guest, vars
  <2>8. QED
    BY <2>2, <2>3, <2>4, <2>5, <2>6, <2>7 DEF Next
<1>2. QED
  BY <1>1, BridgeInit, BridgeNext, PTL DEF Spec, StoppedIsFinal

-----------------------------------------------------------------------------
(* Filter, and the order of the events.                                    *)

\* What filter has found in the first elements of s, one by one.
Found(f, X, s, S) ==
  /\ f \in [0 .. Len(s) -> Seq(X)] /\ f[0] = << >> /\ Filter(s, S) = f[Len(s)]
  /\ \A i \in 1 .. Len(s) : f[i] = IF s[i] \in S THEN Append(f[i - 1], s[i]) ELSE f[i - 1]

\* filter goes through the sequence once.
LEMMA FilterSteps ==
  ASSUME NEW X, NEW s \in Seq(X), NEW S
  PROVE  \E f : Found(f, X, s, S)
<1> DEFINE n == Len(s)
           G == [p \in (1 .. n) \X Seq(X) |->
                   IF s[p[1]] \in S THEN Append(p[2], s[p[1]]) ELSE p[2]]
           Def(f) == f = [i \in 0 .. n |->
                            IF i = 0 THEN << >>
                            ELSE IF s[i] \in S THEN Append(f[i - 1], s[i]) ELSE f[i - 1]]
<1>1. n \in Nat /\ << >> \in Seq(X) /\ \A i \in 1 .. n : s[i] \in X
  OBVIOUS
<1>2. G \in [(1 .. n) \X Seq(X) -> Seq(X)]
  BY <1>1
<1>3. \A i \in 1 .. n, t \in Seq(X) : G[<<i, t>>] = IF s[i] \in S THEN Append(t, s[i]) ELSE t
  OBVIOUS
<1>4a. PICK f : ComputedBy(f, Seq(X), << >>, n, G)
  <2> HIDE DEF G, n
  <2>1. QED BY <1>1, <1>2, ComputedExists
<1>4. f \in [0 .. n -> Seq(X)] /\ f[0] = << >> /\ \A i \in 1 .. n : f[i] = G[<<i, f[i - 1]>>]
  <2> HIDE DEF G, n
  <2>1. QED BY <1>4a DEF ComputedBy
<1>5. \A i \in 1 .. n : f[i] = IF s[i] \in S THEN Append(f[i - 1], s[i]) ELSE f[i - 1]
  <2> HIDE DEF G, n
  <2>1. \A i \in 1 .. n : i - 1 \in 0 .. n
    BY <1>1
  <2>2. QED BY <1>3, <1>4, <2>1
<1>6. Def(f)
  <2> HIDE DEF G, n
  <2>1. \A i \in 0 .. n : i # 0 => i \in 1 .. n
    BY <1>1
  <2>2. QED BY <1>4, <1>5, <2>1
<1> DEFINE g == CHOOSE h : Def(h)
<1>7. Def(g)
  BY <1>6
<1>8. Filter(s, S) = g[n]
  BY DEF Filter
<1> HIDE DEF g, G, n
<1>9. /\ g[0] = << >>
      /\ \A i \in 1 .. n : g[i] = IF s[i] \in S THEN Append(g[i - 1], s[i]) ELSE g[i - 1]
  <2>1. \A i \in 0 .. n : g[i] = IF i = 0 THEN << >>
                                 ELSE IF s[i] \in S THEN Append(g[i - 1], s[i]) ELSE g[i - 1]
    <3> DEFINE F(h) == [i \in 0 .. n |->
                         IF i = 0 THEN << >>
                         ELSE IF s[i] \in S THEN Append(h[i - 1], s[i]) ELSE h[i - 1]]
    <3>1. g = F(g)
      BY <1>7
    <3>2. \A i \in 0 .. n : F(g)[i] = IF i = 0 THEN << >>
                                      ELSE IF s[i] \in S THEN Append(g[i - 1], s[i]) ELSE g[i - 1]
      OBVIOUS
    <3> HIDE DEF F
    <3>3. QED BY <3>1, <3>2
  <2>2. 0 \in 0 .. n /\ \A i \in 1 .. n : i \in 0 .. n /\ i # 0
    BY <1>1
  <2>3. QED BY <2>1, <2>2
<1>10. \A i \in Nat : i \in {k \in Nat : k <= n => g[k] = f[k]}
  <2> DEFINE E == {k \in Nat : k <= n => g[k] = f[k]}
  <2>1. 0 \in E
    BY <1>4, <1>9
  <2>2. ASSUME NEW k \in Nat, k \in E, k + 1 <= n PROVE g[k + 1] = f[k + 1]
    <3>1. k + 1 \in 1 .. n /\ (k + 1) - 1 = k /\ k <= n
      BY <1>1, <2>2
    <3>2. QED BY <1>5, <1>9, <2>2, <3>1
  <2>3. \A k \in Nat : k \in E => k + 1 \in E
    BY <2>2
  <2> HIDE DEF E
  <2>4. \A k \in Nat : k \in E
    BY <2>1, <2>3, Induction
  <2>5. QED BY <2>4 DEF E
<1>11. g[n] = f[n]
  BY <1>1, <1>10
<1>12. QED BY <1>4, <1>5, <1>8, <1>11 DEF n, Found

\* So it returns a sequence, and nothing for the empty one.
LEMMA FilterType ==
  ASSUME NEW X, NEW S
  PROVE  /\ \A s \in Seq(X) : Filter(s, S) \in Seq(X)
         /\ Filter(<< >>, S) = << >>
<1>1. ASSUME NEW s \in Seq(X) PROVE Filter(s, S) \in Seq(X)
  <2>1. PICK f : Found(f, X, s, S)
    BY FilterSteps
  <2>2. QED BY <2>1 DEF Found
<1>2. Filter(<< >>, S) = << >>
  <2>1. << >> \in Seq(X) /\ Len(<< >>) = 0
    OBVIOUS
  <2>2. PICK f : Found(f, X, << >>, S)
    BY <2>1, FilterSteps
  <2>3. QED BY <2>1, <2>2 DEF Found
<1>3. QED BY <1>1, <1>2

\* An element that is added at the end stays at the end, or goes.
LEMMA FilterAppend ==
  ASSUME NEW X, NEW S, NEW s \in Seq(X), NEW x \in X
  PROVE  /\ x \in S => Filter(Append(s, x), S) = Append(Filter(s, S), x)
         /\ x \notin S => Filter(Append(s, x), S) = Filter(s, S)
<1> DEFINE n == Len(s)
           t == Append(s, x)
<1>1. /\ n \in Nat /\ t \in Seq(X) /\ Len(t) = n + 1 /\ t[n + 1] = x
      /\ \A i \in 1 .. n : t[i] = s[i]
  OBVIOUS
<1>2a. PICK f : Found(f, X, s, S)
  BY FilterSteps
<1>2. /\ f \in [0 .. n -> Seq(X)] /\ f[0] = << >> /\ Filter(s, S) = f[n]
      /\ \A i \in 1 .. n : f[i] = IF s[i] \in S THEN Append(f[i - 1], s[i]) ELSE f[i - 1]
  BY <1>2a DEF Found
<1> HIDE DEF n, t
<1>3a. PICK g : Found(g, X, t, S)
  BY <1>1, FilterSteps
<1>3. /\ g \in [0 .. Len(t) -> Seq(X)] /\ g[0] = << >> /\ Filter(t, S) = g[Len(t)]
      /\ \A i \in 1 .. Len(t) : g[i] = IF t[i] \in S THEN Append(g[i - 1], t[i]) ELSE g[i - 1]
  BY <1>3a DEF Found
<1> DEFINE E == {k \in Nat : k <= n => g[k] = f[k]}
<1>4. 0 \in E
  BY <1>2, <1>3
<1>5. ASSUME NEW k \in Nat, k \in E, k + 1 <= n PROVE g[k + 1] = f[k + 1]
  <2>1. k + 1 \in 1 .. n /\ k + 1 \in 1 .. Len(t) /\ (k + 1) - 1 = k /\ k <= n
    BY <1>1, <1>5
  <2>2. t[k + 1] = s[k + 1] /\ g[k] = f[k]
    BY <1>1, <1>5, <2>1
  <2>3. QED BY <1>2, <1>3, <2>1, <2>2
<1>6. ASSUME NEW k \in Nat, k \in E PROVE k + 1 \in E
  <2>1. k + 1 <= n => g[k + 1] = f[k + 1]
    BY <1>5, <1>6
  <2>2. QED BY <2>1
<1>7. g[n] = f[n]
  <2> HIDE DEF E
  <2>1. n \in E
    BY <1>1, <1>4, <1>6, Induction
  <2>2. QED BY <1>1, <2>1 DEF E
<1>8. n + 1 \in 1 .. Len(t) /\ (n + 1) - 1 = n
  BY <1>1
<1>9. g[n + 1] = IF t[n + 1] \in S THEN Append(g[n], t[n + 1]) ELSE g[n]
  BY <1>3, <1>8
<1>10. Filter(t, S) = g[n + 1]
  BY <1>1, <1>3
<1>11. QED BY <1>1, <1>2, <1>7, <1>9, <1>10 DEF t

\* The numbers in two sequences put together.
LEMMA NumbersOfConcat ==
  ASSUME NEW s \in Seq(Nat), NEW t \in Seq(Nat)
  PROVE  ToSet(s \o t) = ToSet(s) \cup ToSet(t)
BY ElementsOfConcat, SMT

\* filter keeps the elements of S.
LEMMA FilterElements ==
  ASSUME NEW X, NEW S
  PROVE  \A s \in Seq(X) : ToSet(Filter(s, S)) = ToSet(s) \cap S
<1> DEFINE P == {s \in Seq(X) : ToSet(Filter(s, S)) = ToSet(s) \cap S}
<1>1. << >> \in P
  <2>1. << >> \in Seq(X) /\ ToSet(<< >>) = {}
    BY DEF ToSet
  <2>2. QED BY <2>1, FilterType
<1>2. ASSUME NEW s \in Seq(X), NEW x \in X, s \in P PROVE Append(s, x) \in P
  <2>0. Filter(s, S) \in Seq(X)
    BY FilterType, Zenon
  <2>1. Filter(s, S) \in Seq(X) /\ Append(s, x) \in Seq(X)
    BY <2>0
  <2>2. /\ ToSet(Append(s, x)) = ToSet(s) \cup {x}
        /\ ToSet(Append(Filter(s, S), x)) = ToSet(Filter(s, S)) \cup {x}
    BY <2>1, ElementsOfAppend
  <2>3. /\ x \in S => Filter(Append(s, x), S) = Append(Filter(s, S), x)
        /\ x \notin S => Filter(Append(s, x), S) = Filter(s, S)
    BY FilterAppend, Zenon
  <2>4. ToSet(Filter(s, S)) = ToSet(s) \cap S
    BY <1>2
  <2>5. ToSet(Filter(Append(s, x), S)) = ToSet(Append(s, x)) \cap S
    BY <2>2, <2>3, <2>4
  <2>6. QED BY <2>1, <2>5
<1> HIDE DEF P
<1>3. Seq(X) \subseteq P
  BY <1>1, <1>2, SequenceInduction
<1>4. QED BY <1>3 DEF P

\* What it keeps is as distinct as before.
LEMMA FilterDistinct ==
  ASSUME NEW X, NEW S
  PROVE  \A s \in Seq(X) : Distinct(s) => Distinct(Filter(s, S))
<1> DEFINE P == {s \in Seq(X) : Distinct(s) => Distinct(Filter(s, S))}
<1>1. << >> \in P
  <2>1. << >> \in Seq(X) /\ Distinct(<< >>)
    BY DEF Distinct
  <2>2. QED BY <2>1, FilterType
<1>2. ASSUME NEW s \in Seq(X), NEW x \in X, s \in P PROVE Append(s, x) \in P
  <2>0. Filter(s, S) \in Seq(X)
    BY FilterType, Zenon
  <2>1. Filter(s, S) \in Seq(X) /\ Append(s, x) \in Seq(X)
    BY <2>0
  <2>2. ASSUME Distinct(Append(s, x)) PROVE Distinct(Filter(Append(s, x), S))
    <3>1. Distinct(s) /\ x \notin ToSet(s)
      BY <2>2, DistinctAppend
    <3>2. Distinct(Filter(s, S)) /\ x \notin ToSet(Filter(s, S))
      BY <1>2, <3>1, FilterElements
    <3>3. Distinct(Append(Filter(s, S), x))
      BY <2>1, <3>2, DistinctAppend
    <3>4. /\ x \in S => Filter(Append(s, x), S) = Append(Filter(s, S), x)
          /\ x \notin S => Filter(Append(s, x), S) = Filter(s, S)
      BY FilterAppend, Zenon
    <3>5. QED BY <3>2, <3>3, <3>4
  <2>3. QED BY <2>1, <2>2
<1> HIDE DEF P
<1>3. Seq(X) \subseteq P
  BY <1>1, <1>2, SequenceInduction
<1>4. QED BY <1>3 DEF P

\* And in the same order.
LEMMA FilterIncreasing ==
  ASSUME NEW S
  PROVE  \A s \in Seq(Nat) : Increasing(s) => Increasing(Filter(s, S))
<1> DEFINE P == {s \in Seq(Nat) : Increasing(s) => Increasing(Filter(s, S))}
<1>1. << >> \in P
  <2>1. << >> \in Seq(Nat) /\ Increasing(<< >>)
    BY DEF Increasing
  <2>2. QED BY <2>1, FilterType
<1>2. ASSUME NEW s \in Seq(Nat), NEW x \in Nat, s \in P PROVE Append(s, x) \in P
  <2>0. Filter(s, S) \in Seq(Nat)
    BY FilterType, Zenon
  <2>1. Filter(s, S) \in Seq(Nat) /\ Append(s, x) \in Seq(Nat)
    BY <2>0
  <2>2. ASSUME Increasing(Append(s, x)) PROVE Increasing(Filter(Append(s, x), S))
    <3>1. Increasing(s) /\ \A e \in ToSet(s) : e < x
      BY <2>2, IncreasingAppend
    <3>2. ToSet(Filter(s, S)) = ToSet(s) \cap S
      BY FilterElements
    <3>3. Increasing(Filter(s, S)) /\ \A e \in ToSet(Filter(s, S)) : e < x
      BY <1>2, <3>1, <3>2
    <3>4. Increasing(Append(Filter(s, S), x))
      BY <2>1, <3>3, IncreasingAppend
    <3>5. /\ x \in S => Filter(Append(s, x), S) = Append(Filter(s, S), x)
          /\ x \notin S => Filter(Append(s, x), S) = Filter(s, S)
      BY FilterAppend, Zenon
    <3>6. QED BY <3>3, <3>4, <3>5
  <2>3. QED BY <2>1, <2>2
<1> HIDE DEF P
<1>3. Seq(Nat) \subseteq P
  BY <1>1, <1>2, SequenceInduction
<1>4. QED BY <1>3 DEF P
-----------------------------------------------------------------------------
(* Keep.                                                                   *)

\* How many elements slice(-w) drops.
Dropped(w, s) == IF Len(s) <= w THEN 0 ELSE Len(s) - w

\* What it keeps.
LEMMA KeepType ==
  ASSUME NEW X, NEW s \in Seq(X), NEW w \in Nat
  PROVE  /\ Keep(w, s) \in Seq(X)
         /\ Dropped(w, s) \in Nat /\ Dropped(w, s) <= Len(s)
         /\ Len(Keep(w, s)) = Len(s) - Dropped(w, s)
         /\ \A i \in 1 .. Len(Keep(w, s)) : Keep(w, s)[i] = s[i + Dropped(w, s)]
<1>1. CASE Len(s) <= w
  <2>1. Keep(w, s) = s /\ Dropped(w, s) = 0 /\ Len(s) \in Nat
    BY <1>1 DEF Keep, Dropped
  <2>2. QED BY <2>1
<1>2. CASE ~(Len(s) <= w)
  <2> DEFINE d == Len(s) - w
             t == SubSeq(s, d + 1, Len(s))
  <2>1. Keep(w, s) = t /\ Dropped(w, s) = d
    BY <1>2 DEF Keep, Dropped
  <2>2. d \in Nat /\ d <= Len(s) /\ Len(s) \in Nat /\ Len(s) - (d + 1) + 1 = Len(s) - d
    BY <1>2
  <2>3. PICK m \in Nat : m = d
    BY <2>2
  <2>4. t \in Seq(X) /\ Len(t) = Len(s) - m /\ \A i \in 1 .. (Len(s) - m) : t[i] = s[i + m]
    <3>1. t = SubSeq(s, m + 1, Len(s)) /\ m <= Len(s) /\ Len(s) \in Nat
      BY <2>2, <2>3
    <3> HIDE DEF t, d
    <3>2. QED BY <3>1
  <2> HIDE DEF t, d
  <2>5. QED BY <2>1, <2>2, <2>3, <2>4
<1>3. QED BY <1>1, <1>2

\* What it keeps is in the same order, and was there before.
LEMMA KeepIncreasing ==
  ASSUME NEW s \in Seq(Nat), NEW w \in Nat
  PROVE  ToSet(Keep(w, s)) \subseteq ToSet(s) /\ (Increasing(s) => Increasing(Keep(w, s)))
<1> DEFINE k == Keep(w, s)
           d == Dropped(w, s)
<1>1. /\ k \in Seq(Nat) /\ d \in Nat /\ d <= Len(s) /\ Len(k) = Len(s) - d
      /\ \A i \in 1 .. Len(k) : k[i] = s[i + d]
  BY KeepType
<1>2. /\ Len(s) \in Nat /\ DOMAIN k = 1 .. Len(k) /\ DOMAIN s = 1 .. Len(s)
      /\ \A i \in 1 .. Len(k) : i + d \in 1 .. Len(s)
      /\ \A i, j \in 1 .. Len(k) : i < j => i + d < j + d
  BY <1>1
<1> HIDE DEF k, d
<1>3. ToSet(k) \subseteq ToSet(s)
  BY <1>1, <1>2 DEF ToSet
<1>4. Increasing(s) => Increasing(k)
  BY <1>1, <1>2 DEF Increasing
<1>5. QED BY <1>3, <1>4 DEF k

\* Dropping before or after the sequences are joined is the same.
LEMMA KeepConcat ==
  ASSUME NEW X, NEW a \in Seq(X), NEW b \in Seq(X), NEW w \in Nat
  PROVE  Keep(w, Keep(w, a) \o Keep(w, b)) = Keep(w, a \o b)
<1> DEFINE A == Keep(w, a)
           B == Keep(w, b)
           u == A \o B
           v == a \o b
           da == Dropped(w, a)
           db == Dropped(w, b)
           du == Dropped(w, u)
           dv == Dropped(w, v)
<1>1. /\ A \in Seq(X) /\ Len(A) = Len(a) - da /\ \A i \in 1 .. Len(A) : A[i] = a[i + da]
      /\ B \in Seq(X) /\ Len(B) = Len(b) - db /\ \A i \in 1 .. Len(B) : B[i] = b[i + db]
  BY KeepType
<1> HIDE DEF A, B
<1>2. /\ u \in Seq(X) /\ v \in Seq(X)
      /\ Len(u) = Len(A) + Len(B) /\ Len(v) = Len(a) + Len(b)
      /\ \A i \in 1 .. Len(u) : u[i] = IF i <= Len(A) THEN A[i] ELSE B[i - Len(A)]
      /\ \A i \in 1 .. Len(v) : v[i] = IF i <= Len(a) THEN a[i] ELSE b[i - Len(a)]
  <2>1. A \in Seq(X) /\ B \in Seq(X)
    BY <1>1
  <2>2. QED BY <2>1
<1> HIDE DEF u, v
<1>3. /\ Keep(w, u) \in Seq(X) /\ Len(Keep(w, u)) = Len(u) - du
      /\ \A i \in 1 .. Len(Keep(w, u)) : Keep(w, u)[i] = u[i + du]
      /\ Keep(w, v) \in Seq(X) /\ Len(Keep(w, v)) = Len(v) - dv
      /\ \A i \in 1 .. Len(Keep(w, v)) : Keep(w, v)[i] = v[i + dv]
  BY <1>2, KeepType
<1>4. Len(a) \in Nat /\ Len(b) \in Nat /\ Len(A) \in Nat /\ Len(B) \in Nat /\ Len(u) \in Nat /\ Len(v) \in Nat
  BY <1>1, <1>2
<1>5. /\ da = IF Len(a) <= w THEN 0 ELSE Len(a) - w
      /\ db = IF Len(b) <= w THEN 0 ELSE Len(b) - w
      /\ du = IF Len(u) <= w THEN 0 ELSE Len(u) - w
      /\ dv = IF Len(v) <= w THEN 0 ELSE Len(v) - w
  BY DEF Dropped
<1> HIDE DEF da, db, du, dv
<1>l. /\ Len(A) = Len(a) - da /\ Len(B) = Len(b) - db
      /\ Len(u) = Len(A) + Len(B) /\ Len(v) = Len(a) + Len(b)
  BY <1>1, <1>2
<1>d. /\ da \in Nat /\ db \in Nat /\ du \in Nat /\ dv \in Nat
  BY <1>4, <1>5
<1>6. /\ Len(u) - du = Len(v) - dv /\ dv = du + da + db
      /\ db > 0 => du = Len(a) - da
  <2>1. PICK la \in Nat : la = Len(a)
    BY <1>4
  <2>2. PICK lb \in Nat : lb = Len(b)
    BY <1>4
  <2>3. PICK lu \in Nat : lu = Len(u)
    BY <1>4
  <2>4. PICK lv \in Nat : lv = Len(v)
    BY <1>4
  <2>5. PICK ea \in Nat, eb \in Nat, eu \in Nat, ev \in Nat : ea = da /\ eb = db /\ eu = du /\ ev = dv
    BY <1>d
  <2>6. /\ lu = (la - ea) + (lb - eb) /\ lv = la + lb
        /\ ea = IF la <= w THEN 0 ELSE la - w
        /\ eb = IF lb <= w THEN 0 ELSE lb - w
        /\ eu = IF lu <= w THEN 0 ELSE lu - w
        /\ ev = IF lv <= w THEN 0 ELSE lv - w
    BY <1>5, <1>l, <2>1, <2>2, <2>3, <2>4, <2>5
  <2>7. lu - eu = lv - ev /\ ev = eu + ea + eb /\ (eb > 0 => eu = la - ea)
    BY <2>6
  <2>8. QED BY <2>1, <2>2, <2>3, <2>4, <2>5, <2>7
<1>7. ASSUME NEW i \in 1 .. (Len(u) - du) PROVE u[i + du] = v[i + dv]
  <2>1. i + du \in 1 .. Len(u) /\ i + dv \in 1 .. Len(v)
    BY <1>4, <1>5, <1>6
  <2>2. CASE i + du <= Len(A)
    <3>1. i + dv = i + du + da /\ i + dv <= Len(a) /\ i + du \in 1 .. Len(A)
      BY <1>4, <1>6, <1>l, <1>d, <2>1, <2>2
    <3>2. u[i + du] = A[i + du] /\ v[i + dv] = a[i + dv]
      BY <1>2, <2>1, <2>2, <3>1
    <3>3. A[i + du] = a[(i + du) + da]
      BY <1>1, <3>1
    <3>4. QED BY <3>1, <3>2, <3>3
  <2>3. CASE ~(i + du <= Len(A))
    <3>1. /\ (i + dv) - Len(a) = (i + du) - Len(A) + db /\ ~(i + dv <= Len(a))
          /\ (i + du) - Len(A) \in 1 .. Len(B)
      BY <1>4, <1>6, <1>l, <1>d, <2>1, <2>3
    <3>2. QED BY <1>1, <1>2, <2>1, <2>3, <3>1
  <2>4. QED BY <2>2, <2>3
<1>8. Keep(w, u) = Keep(w, v)
  <2>1. Len(Keep(w, u)) = Len(Keep(w, v))
    BY <1>3, <1>6
  <2>2. \A i \in 1 .. Len(Keep(w, u)) : Keep(w, u)[i] = Keep(w, v)[i]
    BY <1>3, <1>7, <2>1
  <2>3. QED BY <1>3, <2>1, <2>2
<1>9. QED BY <1>8 DEF u, v, A, B

\* The window of a growing sequence grows in the same way.
LEMMA KeepAppend ==
  ASSUME NEW X, NEW s \in Seq(X), NEW x \in X, NEW w \in Nat \ {0}
  PROVE  Keep(w, Append(Keep(w, s), x)) = Keep(w, Append(s, x))
<1>1. <<x>> \in Seq(X) /\ Keep(w, <<x>>) = <<x>>
  BY DEF Keep
<1>2. Keep(w, s) \in Seq(X)
  BY KeepType
<1>3. Append(Keep(w, s), x) = Keep(w, s) \o <<x>> /\ Append(s, x) = s \o <<x>>
  BY <1>2
<1>4. Keep(w, Keep(w, s) \o Keep(w, <<x>>)) = Keep(w, s \o <<x>>)
  BY <1>1, KeepConcat
<1>5. QED BY <1>1, <1>3, <1>4

\* Of what is kept of a sequence, the part after c is what would be kept of
\* the part after c alone.
LEMMA KeepAfter ==
  ASSUME NEW a \in Seq(Nat), NEW b \in Seq(Nat), NEW c \in Nat, Increasing(a), Increasing(b),
         \A e \in ToSet(a) : e <= c, \A e \in ToSet(b) : e > c, NEW w \in Nat
  PROVE  Filter(Keep(w, a \o b), After(c)) = Keep(w, b)
<1> DEFINE v == a \o b
           k == Keep(w, v)
           B == Keep(w, b)
           dv == Dropped(w, v)
           db == Dropped(w, b)
<1>0. v \in Seq(Nat) /\ Increasing(v)
  BY IncreasingConcat
<1>1. /\ Len(a) \in Nat /\ Len(b) \in Nat /\ Len(v) = Len(a) + Len(b)
      /\ \A i \in 1 .. Len(v) : v[i] = IF i <= Len(a) THEN a[i] ELSE b[i - Len(a)]
      /\ DOMAIN v = 1 .. Len(v) /\ DOMAIN a = 1 .. Len(a) /\ DOMAIN b = 1 .. Len(b)
      /\ (\A i \in 1 .. Len(a) : a[i] \in Nat) /\ (\A i \in 1 .. Len(b) : b[i] \in Nat)
  OBVIOUS
<1> HIDE DEF v
<1>2. /\ k \in Seq(Nat) /\ Len(k) = Len(v) - dv /\ \A i \in 1 .. Len(k) : k[i] = v[i + dv]
      /\ B \in Seq(Nat) /\ Len(B) = Len(b) - db /\ \A i \in 1 .. Len(B) : B[i] = b[i + db]
  BY <1>0, KeepType
<1>3. Increasing(k) /\ Increasing(B)
  BY <1>0, KeepIncreasing
<1>4. /\ dv = IF Len(v) <= w THEN 0 ELSE Len(v) - w
      /\ db = IF Len(b) <= w THEN 0 ELSE Len(b) - w
  BY DEF Dropped
<1> HIDE DEF k, B, dv, db
<1>5. Len(k) \in Nat /\ Len(B) \in Nat /\ DOMAIN k = 1 .. Len(k) /\ DOMAIN B = 1 .. Len(B)
  BY <1>2
<1>l. /\ Len(a) \in Nat /\ Len(b) \in Nat /\ Len(v) = Len(a) + Len(b)
      /\ Len(k) = Len(v) - dv /\ Len(B) = Len(b) - db
  BY <1>1, <1>2
<1>6. ASSUME NEW e \in ToSet(B) PROVE e \in ToSet(k) \cap After(c)
  <2>1. PICK i \in 1 .. Len(B) : e = B[i]
    BY <1>5 DEF ToSet
  <2>2. i + db \in 1 .. Len(b) /\ e = b[i + db]
    <3>1. i + db \in 1 .. Len(b)
      BY <1>4, <1>l
    <3>2. QED BY <1>2, <2>1, <3>1
  <2>3. e \in ToSet(b) /\ e \in Nat
    BY <1>1, <2>2 DEF ToSet
  <2> DEFINE j == i + db + Len(a) - dv
  <2>4. j \in 1 .. Len(k) /\ j + dv \in 1 .. Len(v) /\ ~(j + dv <= Len(a)) /\ (j + dv) - Len(a) = i + db
    <3>1. db \in Nat /\ dv \in Nat /\ dv <= Len(a) + db
      BY <1>4, <1>l
    <3>2. QED BY <1>l, <2>2, <3>1
  <2> HIDE DEF j
  <2>5. k[j] = e
    BY <1>1, <1>2, <2>2, <2>4
  <2>6. e \in ToSet(k)
    BY <1>5, <2>4, <2>5 DEF ToSet
  <2>7. QED BY <2>3, <2>6 DEF After
<1>7. ASSUME NEW e \in ToSet(k), e \in After(c) PROVE e \in ToSet(B)
  <2>1. PICK j \in 1 .. Len(k) : e = k[j]
    BY <1>5 DEF ToSet
  <2>2. j + dv \in 1 .. Len(v) /\ e = v[j + dv]
    <3>1. j + dv \in 1 .. Len(v)
      BY <1>4, <1>l
    <3>2. QED BY <1>2, <2>1, <3>1
  <2>3. ~(j + dv <= Len(a))
    <3>1. SUFFICES ASSUME j + dv <= Len(a) PROVE FALSE
      OBVIOUS
    <3>2. j + dv \in 1 .. Len(a) /\ e = a[j + dv]
      BY <1>1, <2>2, <3>1
    <3>3. e \in ToSet(a)
      BY <1>1, <3>2 DEF ToSet
    <3>4. e <= c /\ e \in Nat /\ e > c
      BY <1>1, <1>7, <3>2, <3>3 DEF After
    <3>5. QED BY <3>4
  <2> DEFINE i == j + dv - Len(a) - db
  <2>4. i \in 1 .. Len(B) /\ (j + dv) - Len(a) = i + db
    BY <1>4, <1>l, <2>1, <2>2, <2>3
  <2> HIDE DEF i
  <2>5. e = B[i]
    BY <1>1, <1>2, <2>2, <2>3, <2>4
  <2>6. QED BY <1>5, <2>4, <2>5 DEF ToSet
<1> DEFINE F == Filter(k, After(c))
<1>8. F \in Seq(Nat) /\ Increasing(F) /\ ToSet(F) = ToSet(k) \cap After(c)
  BY <1>2, <1>3, FilterType, FilterIncreasing, FilterElements
<1> HIDE DEF F
<1>9. ToSet(F) = ToSet(B)
  BY <1>6, <1>7, <1>8
<1>10. F = B
  BY <1>2, <1>3, <1>8, <1>9, Determined
<1>11. QED BY <1>10 DEF F, k, B, v

-----------------------------------------------------------------------------
(* The order of the rows.                                                  *)

\* The rows when the first i of them are in their place.
Arranged(r, i) ==
  {t \in Seq(Nat) : /\ Distinct(t) /\ ToSet(t) = ToSet(r)
                    /\ \A j \in 1 .. i : j \in DOMAIN t /\ t[j] = r[j]}

\* One turn of the loop puts the next one there.
LEMMA PlacedOne ==
  ASSUME NEW r \in Seq(Nat), Distinct(r), 0 \notin ToSet(r), NEW i \in 1 .. Len(r),
         NEW t \in Arranged(r, i - 1)
  PROVE  Placed(t, r, i) \in Arranged(r, i)
<1>1. /\ t \in Seq(Nat) /\ Distinct(t) /\ ToSet(t) = ToSet(r)
      /\ \A j \in 1 .. (i - 1) : j \in DOMAIN t /\ t[j] = r[j]
  BY DEF Arranged
<1>2. PICK n \in Nat : n = Len(t) /\ DOMAIN t = 1 .. n
  BY <1>1
<1>3. i \in Nat /\ i > 0 /\ i \in DOMAIN r /\ r[i] \in Nat /\ \A j \in 1 .. (i - 1) : j \in DOMAIN r /\ j # i
  OBVIOUS
<1> DEFINE x == r[i]
<1>4. x \in ToSet(t)
  BY <1>1, <1>3 DEF ToSet
<1>5. PICK p \in 1 .. n : t[p] = x
  BY <1>2, <1>4 DEF ToSet
<1>6. p >= i
  <2>1. SUFFICES ASSUME p < i PROVE FALSE
    BY <1>3
  <2>2. p \in 1 .. (i - 1)
    BY <1>3, <2>1
  <2>3. r[p] = r[i] /\ p \in DOMAIN r /\ p # i
    BY <1>1, <1>3, <1>5, <2>2
  <2>4. QED BY <1>3, <2>3 DEF Distinct
<1>7. i \in 1 .. n
  BY <1>3, <1>6
<1>8. CASE t[i] = x
  <2>1. Placed(t, r, i) = t
    BY <1>2, <1>7, <1>8 DEF Placed
  <2>2. \A j \in 1 .. i : j \in DOMAIN t /\ t[j] = r[j]
    <3>1. \A j \in 1 .. i : j = i \/ j \in 1 .. (i - 1)
      BY <1>3
    <3>2. QED BY <1>1, <1>2, <1>7, <1>8, <3>1
  <2>3. QED BY <1>1, <2>1, <2>2 DEF Arranged
<1>9. CASE t[i] # x
  <2> DEFINE y == t[i]
             rest == RemoveAt(t, p)
             u == InsertAt(rest, i, x)
  <2>1. p > i /\ y \in Nat /\ y # 0
    <3>1. y \in ToSet(t) /\ y \in Nat
      <4>1. i \in DOMAIN t /\ t[i] \in Nat
        BY <1>1, <1>2, <1>7
      <4>2. QED BY <4>1 DEF ToSet
    <3>2. y # 0
      BY <1>1, <3>1
    <3>3. p # i
      BY <1>5, <1>9
    <3>4. QED BY <1>3, <1>6, <3>1, <3>2, <3>3
  <2>2. PlaceOf(t, x) = p
    <3>1. \A k \in DOMAIN t : t[k] = x => k = p
      BY <1>1, <1>2, <1>5 DEF Distinct
    <3> HIDE DEF x
    <3>2. QED BY <1>2, <1>5, <3>1 DEF PlaceOf
  <2>3. /\ rest \in Seq(Nat) /\ Len(rest) = n - 1
        /\ \A j \in 1 .. (n - 1) : rest[j] = IF j < p THEN t[j] ELSE t[j + 1]
    BY <1>1, <1>2, Removed
  <2> HIDE DEF rest
  <2>4. i \in 1 .. (n - 1) /\ DOMAIN rest = 1 .. (n - 1)
    BY <1>2, <1>3, <2>1, <2>3
  <2>5. PlaceOf(rest, y) = i
    <3>1. rest[i] = y
      BY <2>1, <2>3, <2>4
    <3>2. ASSUME NEW k \in 1 .. (n - 1), rest[k] = y PROVE k = i
      <4>1. CASE k < p
        <5>1. k \in 1 .. n /\ t[k] = t[i]
          BY <2>3, <3>2, <4>1
        <5>2. QED BY <1>1, <1>2, <1>7, <5>1 DEF Distinct
      <4>2. CASE ~(k < p)
        <5>1. k + 1 \in 1 .. n /\ t[k + 1] = t[i] /\ k + 1 # i
          BY <1>2, <1>3, <2>1, <2>3, <3>2, <4>2
        <5>2. QED BY <1>1, <1>2, <1>7, <5>1 DEF Distinct
      <4>3. QED BY <4>1, <4>2
    <3> HIDE DEF y
    <3>3. QED BY <2>4, <3>1, <3>2 DEF PlaceOf
  <2>6. Placed(t, r, i) = u
    <3>1. Placed(t, r, i) = InsertBefore(t, x, y)
      BY <1>2, <1>7, <1>9 DEF Placed
    <3>2. InsertBefore(t, x, y) = InsertAt(rest, i, x)
      <4> HIDE DEF x, y
      <4>1. QED BY <2>1, <2>2, <2>5 DEF InsertBefore, rest
    <3>3. QED BY <3>1, <3>2
  <2>7. /\ u \in Seq(Nat) /\ Len(u) = n
        /\ \A j \in 1 .. n : /\ j < i => u[j] = rest[j]
                             /\ j = i => u[j] = x
                             /\ j > i => u[j] = rest[j - 1]
    <3>1. x \in Nat /\ (n - 1) + 1 = n
      BY <1>3
    <3>2. i \in 1 .. Len(rest) /\ Len(rest) + 1 = n
      BY <2>3, <2>4, <3>1
    <3> HIDE DEF x, u
    <3>3. /\ u \in Seq(Nat) /\ Len(u) = Len(rest) + 1
          /\ \A j \in 1 .. (Len(rest) + 1) : /\ j < i => u[j] = rest[j]
                                             /\ j = i => u[j] = x
                                             /\ j > i => u[j] = rest[j - 1]
      <4>1. rest \in Seq(Nat) /\ i \in 1 .. Len(rest) /\ x \in Nat
        BY <2>3, <3>1, <3>2
      <4>2. With(InsertAt(rest, i, x), Nat, rest, i, x)
        BY <4>1, Inserted, Zenon
      <4>3. QED BY <4>2 DEF u, With
    <3>4. QED BY <3>2, <3>3
  <2> HIDE DEF u
  <2>8. \A j \in 1 .. n : u[j] = IF j < i THEN t[j] ELSE IF j = i THEN x
                                 ELSE IF j <= p THEN t[j - 1] ELSE t[j]
    <3>1. ASSUME NEW j \in 1 .. n
          PROVE  u[j] = IF j < i THEN t[j] ELSE IF j = i THEN x
                        ELSE IF j <= p THEN t[j - 1] ELSE t[j]
      <4>1. CASE j < i
        <5>1. j \in 1 .. (n - 1) /\ j < p
          BY <1>3, <2>1, <2>4, <4>1
        <5>2. QED BY <2>3, <2>7, <4>1, <5>1
      <4>2. CASE j = i
        BY <2>7, <4>2
      <4>3. CASE j > i
        <5>1. j - 1 \in 1 .. (n - 1) /\ (j - 1) + 1 = j /\ (j - 1 < p <=> j <= p) /\ ~(j < i) /\ j # i
          BY <1>3, <2>1, <4>3
        <5>2. u[j] = rest[j - 1]
          BY <2>7, <4>3, <5>1
        <5>3. rest[j - 1] = IF j <= p THEN t[j - 1] ELSE t[j]
          BY <2>3, <5>1
        <5>4. QED BY <5>1, <5>2, <5>3
      <4>4. QED BY <1>3, <4>1, <4>2, <4>3
    <3>2. QED BY <3>1
  <2> DEFINE from(j) == IF j < i THEN j ELSE IF j = i THEN p ELSE IF j <= p THEN j - 1 ELSE j
  <2>9. /\ \A j \in 1 .. n : from(j) \in 1 .. n /\ u[j] = t[from(j)]
        /\ \A j, k \in 1 .. n : from(j) = from(k) => j = k
        /\ \A k \in 1 .. n : \E j \in 1 .. n : from(j) = k
    <3>1. \A j \in 1 .. n : from(j) \in 1 .. n
      BY <1>3, <1>7, <2>1
    <3>2. \A j \in 1 .. n : u[j] = t[from(j)]
      BY <1>5, <2>8
    <3>3. \A j, k \in 1 .. n : from(j) = from(k) => j = k
      BY <1>3, <1>7, <2>1
    <3>4. ASSUME NEW k \in 1 .. n PROVE \E j \in 1 .. n : from(j) = k
      <4>1. CASE k < i \/ k > p
        <5>1. from(k) = k
          BY <1>3, <2>1, <4>1
        <5>2. QED BY <5>1
      <4>2. CASE k = p
        <5>1. from(i) = p
          BY <1>3
        <5>2. QED BY <1>7, <4>2, <5>1
      <4>3. CASE i <= k /\ k < p
        <5>1. k + 1 \in 1 .. n /\ from(k + 1) = k
          BY <1>3, <2>1, <4>3
        <5>2. QED BY <5>1
      <4>4. QED BY <1>3, <4>1, <4>2, <4>3
    <3>5. QED BY <3>1, <3>2, <3>3, <3>4
  <2> HIDE DEF from
  <2>10. DOMAIN u = 1 .. n
    BY <2>7
  <2>11. Distinct(u)
    <3>1. ASSUME NEW j \in 1 .. n, NEW k \in 1 .. n, u[j] = u[k] PROVE j = k
      <4>1. t[from(j)] = t[from(k)] /\ from(j) \in DOMAIN t /\ from(k) \in DOMAIN t
        BY <1>2, <2>9, <3>1
      <4>2. from(j) = from(k)
        BY <1>1, <4>1 DEF Distinct
      <4>3. QED BY <2>9, <4>2
    <3>2. QED BY <2>10, <3>1 DEF Distinct
  <2>12. ToSet(u) = ToSet(t)
    <3>1. ASSUME NEW e \in ToSet(u) PROVE e \in ToSet(t)
      BY <1>2, <2>9, <2>10 DEF ToSet
    <3>2. ASSUME NEW e \in ToSet(t) PROVE e \in ToSet(u)
      <4>1. PICK k \in 1 .. n : e = t[k]
        BY <1>2 DEF ToSet
      <4>2. PICK j \in 1 .. n : from(j) = k
        BY <2>9
      <4>3. e = u[j]
        BY <2>9, <4>1, <4>2
      <4>4. QED BY <2>10, <4>3 DEF ToSet
    <3>3. QED BY <3>1, <3>2
  <2>13. ASSUME NEW j \in 1 .. i PROVE j \in DOMAIN u /\ u[j] = r[j]
    <3>1. j \in 1 .. n
      BY <1>3, <1>7
    <3>2. CASE j = i
      BY <2>8, <2>10, <3>1, <3>2
    <3>3. CASE j # i
      <4>1. j < i /\ j \in 1 .. (i - 1)
        BY <1>3, <3>3
      <4>2. u[j] = t[j]
        BY <2>8, <3>1, <4>1
      <4>3. QED BY <1>1, <2>10, <3>1, <4>1, <4>2
    <3>4. QED BY <3>2, <3>3
  <2>14. QED BY <1>1, <2>6, <2>7, <2>11, <2>12, <2>13 DEF Arranged
<1>10. QED BY <1>8, <1>9

\* When all of them are, the rows are the events.
LEMMA AllArranged ==
  ASSUME NEW r \in Seq(Nat), NEW t \in Arranged(r, Len(r))
  PROVE  t = r
<1>1. /\ t \in Seq(Nat) /\ Distinct(t) /\ ToSet(t) = ToSet(r)
      /\ \A j \in 1 .. Len(r) : j \in DOMAIN t /\ t[j] = r[j]
  BY DEF Arranged
<1>2. PICK n \in Nat : n = Len(r) /\ DOMAIN r = 1 .. n
  OBVIOUS
<1>3. PICK m \in Nat : m = Len(t) /\ DOMAIN t = 1 .. m
  BY <1>1
<1>4. n <= m
  <2>1. CASE n = 0
    BY <1>3, <2>1
  <2>2. CASE n # 0
    <3>1. n \in 1 .. n
      BY <1>2, <2>2
    <3>2. n \in 1 .. m
      BY <1>1, <1>2, <1>3, <3>1
    <3>3. QED BY <3>2
  <2>3. QED BY <2>1, <2>2
<1>5. m <= n
  <2>1. SUFFICES ASSUME n + 1 <= m PROVE FALSE
    BY <1>2, <1>3
  <2>2. n + 1 \in 1 .. m /\ \A j \in 1 .. n : j # n + 1
    BY <1>2, <1>3, <2>1
  <2>3. t[n + 1] \in ToSet(r)
    BY <1>1, <1>3, <2>2 DEF ToSet
  <2>4. PICK j \in 1 .. n : t[n + 1] = r[j]
    BY <1>2, <2>3 DEF ToSet
  <2>5. t[j] = t[n + 1] /\ j \in 1 .. m
    BY <1>1, <1>2, <1>3, <2>4
  <2>6. j = n + 1
    BY <1>1, <1>3, <2>2, <2>5 DEF Distinct
  <2>7. QED BY <2>2, <2>6
<1>6. Len(t) = Len(r) /\ \A j \in 1 .. Len(r) : t[j] = r[j]
  BY <1>1, <1>2, <1>3, <1>4, <1>5
<1>7. QED BY <1>1, <1>6

\* The loop of renderEvents puts the rows in the order of the events.
LEMMA InOrderIsIt ==
  ASSUME NEW r \in Seq(Nat), Distinct(r), 0 \notin ToSet(r),
         NEW s \in Seq(Nat), Distinct(s), ToSet(s) = ToSet(r)
  PROVE  InOrder(s, r) = r
<1> DEFINE n == Len(r)
           G == [p \in (1 .. n) \X Seq(Nat) |->
                   IF p[2] \in Arranged(r, p[1] - 1) THEN Placed(p[2], r, p[1]) ELSE p[2]]
           place == [p \in Seq(Nat) \X (1 .. n) |-> Placed(p[1], r, p[2])]
           Def(f) == f = [i \in 0 .. n |-> IF i = 0 THEN s ELSE place[<<f[i - 1], i>>]]
<1>1. n \in Nat /\ s \in Arranged(r, 0)
  BY DEF Arranged
<1>2. \A i \in Nat : \A t \in Arranged(r, i) : t \in Seq(Nat)
  BY DEF Arranged
<1>3. \A i \in 1 .. n, t \in Seq(Nat) :
        G[<<i, t>>] = IF t \in Arranged(r, i - 1) THEN Placed(t, r, i) ELSE t
  OBVIOUS
<1>4. ASSUME NEW i \in 1 .. n, NEW t \in Arranged(r, i - 1)
      PROVE  /\ Placed(t, r, i) \in Arranged(r, i) /\ Placed(t, r, i) \in Seq(Nat)
             /\ place[<<t, i>>] = Placed(t, r, i)
  <2>1. i - 1 \in Nat /\ i \in Nat /\ i \in 1 .. Len(r)
    BY <1>1
  <2>2. t \in Seq(Nat)
    BY <1>2, <2>1
  <2>3. Placed(t, r, i) \in Arranged(r, i)
    BY <2>1, PlacedOne
  <2>4. place[<<t, i>>] = Placed(t, r, i)
    BY <2>2
  <2>5. QED BY <1>2, <2>1, <2>3, <2>4
<1>5. G \in [(1 .. n) \X Seq(Nat) -> Seq(Nat)]
  <2>1. \A i \in 1 .. n, t \in Seq(Nat) :
          (IF t \in Arranged(r, i - 1) THEN Placed(t, r, i) ELSE t) \in Seq(Nat)
    BY <1>4
  <2>2. QED BY <2>1
<1> HIDE DEF G
<1>6. PICK f : ComputedBy(f, Seq(Nat), s, n, G)
  <2> HIDE DEF n
  <2>1. QED BY <1>1, <1>5, ComputedExists
<1> HIDE DEF n
<1>7. \A i \in Nat : i \in {k \in Nat : k <= n => f[k] \in Arranged(r, k)}
  <2> DEFINE E == {k \in Nat : k <= n => f[k] \in Arranged(r, k)}
  <2>1. 0 \in E
    BY <1>1, <1>6 DEF ComputedBy
  <2>2. ASSUME NEW k \in Nat, k \in E, k + 1 <= n PROVE f[k + 1] \in Arranged(r, k + 1)
    <3>1. k + 1 \in 1 .. n /\ (k + 1) - 1 = k /\ k <= n
      BY <1>1, <2>2
    <3>2. f[k] \in Arranged(r, k) /\ f[k] \in Seq(Nat)
      BY <1>2, <2>2, <3>1
    <3>3. f[k + 1] = G[<<k + 1, f[k]>>]
      BY <1>6, <3>1 DEF ComputedBy
    <3>4. f[k + 1] = Placed(f[k], r, k + 1)
      BY <1>3, <3>1, <3>2, <3>3
    <3>5. QED BY <1>4, <3>1, <3>2, <3>4
  <2>3. ASSUME NEW k \in Nat, k \in E PROVE k + 1 \in E
    <3>1. k + 1 <= n => f[k + 1] \in Arranged(r, k + 1)
      BY <2>2, <2>3
    <3>2. QED BY <3>1
  <2> HIDE DEF E
  <2>4. \A k \in Nat : k \in E
    BY <2>1, <2>3, Induction
  <2>5. QED BY <2>4 DEF E
<1>8. \A i \in 1 .. n : f[i] = place[<<f[i - 1], i>>]
  <2>1. ASSUME NEW i \in 1 .. n PROVE f[i] = place[<<f[i - 1], i>>]
    <3>1. i - 1 \in Nat /\ i - 1 <= n
      BY <1>1
    <3>2. f[i - 1] \in Arranged(r, i - 1) /\ f[i - 1] \in Seq(Nat)
      BY <1>2, <1>7, <3>1
    <3>3. f[i] = G[<<i, f[i - 1]>>]
      BY <1>6 DEF ComputedBy
    <3>4. f[i] = Placed(f[i - 1], r, i)
      BY <1>3, <3>2, <3>3
    <3>5. QED BY <1>4, <3>2, <3>4
  <2>2. QED BY <2>1
<1>9. f[0] = s /\ f = [i \in 0 .. n |-> f[i]]
  BY <1>6 DEF ComputedBy
<1> HIDE DEF place
<1>10. Def(f)
  <2>1. \A i \in 0 .. n : f[i] = IF i = 0 THEN s ELSE place[<<f[i - 1], i>>]
    <3>1. \A i \in 0 .. n : i # 0 => i \in 1 .. n
      BY <1>1
    <3>2. QED BY <1>8, <1>9, <3>1
  <2>2. QED BY <1>9, <2>1
<1> DEFINE g == CHOOSE h : Def(h)
<1>11. Def(g)
  BY <1>10
<1>12. InOrder(s, r) = g[n]
  BY DEF InOrder, place, n
<1> HIDE DEF g
<1>13. g[0] = s /\ \A i \in 1 .. n : g[i] = place[<<g[i - 1], i>>]
  <2> DEFINE F(h) == [i \in 0 .. n |-> IF i = 0 THEN s ELSE place[<<h[i - 1], i>>]]
  <2>1. g = F(g)
    BY <1>11
  <2>2. \A i \in 0 .. n : F(g)[i] = IF i = 0 THEN s ELSE place[<<g[i - 1], i>>]
    OBVIOUS
  <2>3. 0 \in 0 .. n /\ \A i \in 1 .. n : i \in 0 .. n /\ i # 0
    BY <1>1
  <2> HIDE DEF F
  <2>4. QED BY <2>1, <2>2, <2>3
<1>14. \A i \in Nat : i \in {k \in Nat : k <= n => g[k] = f[k]}
  <2> DEFINE E == {k \in Nat : k <= n => g[k] = f[k]}
  <2>1. 0 \in E
    BY <1>9, <1>13
  <2>2. ASSUME NEW k \in Nat, k \in E, k + 1 <= n PROVE g[k + 1] = f[k + 1]
    <3>1. k + 1 \in 1 .. n /\ (k + 1) - 1 = k /\ k <= n
      BY <1>1, <2>2
    <3>2. QED BY <1>8, <1>13, <2>2, <3>1
  <2>3. ASSUME NEW k \in Nat, k \in E PROVE k + 1 \in E
    <3>1. k + 1 <= n => g[k + 1] = f[k + 1]
      BY <2>2, <2>3
    <3>2. QED BY <3>1
  <2> HIDE DEF E
  <2>4. \A k \in Nat : k \in E
    BY <2>1, <2>3, Induction
  <2>5. QED BY <2>4 DEF E
<1>15. g[n] \in Arranged(r, n)
  <2>1. n <= n
    BY <1>1
  <2>2. QED BY <1>1, <1>7, <1>14, <2>1
<1>16. QED BY <1>12, <1>15, AllArranged DEF n

\* renderEvents leaves a row for each relevant event, in their order.
LEMMA RowsAreRelevant ==
  ASSUME NEW r \in Seq(Nat), Distinct(r), 0 \notin ToSet(r), NEW s \in Seq(Nat), Distinct(s)
  PROVE  RenderEvents(s, r) = r
<1> DEFINE new == Filter(r, Nat \ ToSet(s))
           all == s \o new
           left == Filter(all, ToSet(r))
<1>1. new \in Seq(Nat) /\ Distinct(new) /\ ToSet(new) = ToSet(r) \cap (Nat \ ToSet(s))
  BY FilterType, FilterDistinct, FilterElements
<1> HIDE DEF new
<1>2. all \in Seq(Nat)
  BY <1>1
<1>3. ToSet(all) = ToSet(s) \cup ToSet(new)
  <2>1. ToSet(s \o new) = ToSet(s) \cup ToSet(new)
    BY <1>1, NumbersOfConcat
  <2>2. QED BY <2>1 DEF all
<1>4. Distinct(all)
  <2>1. ToSet(s) \cap ToSet(new) = {}
    BY <1>1
  <2>2. QED BY <1>1, <2>1, DistinctConcat
<1> HIDE DEF all
<1>5. left \in Seq(Nat) /\ Distinct(left) /\ ToSet(left) = ToSet(all) \cap ToSet(r)
  BY <1>2, <1>4, FilterType, FilterDistinct, FilterElements
<1> HIDE DEF left
<1>6. ToSet(left) = ToSet(r)
  <2>1. \A e \in ToSet(r) : e \in Nat
    BY DEF ToSet
  <2>2. QED BY <1>1, <1>3, <1>5, <2>1
<1>7. InOrder(left, r) = r
  BY <1>5, <1>6, InOrderIsIt
<1>8. QED BY <1>7 DEF RenderEvents, left, all, new

-----------------------------------------------------------------------------
(* The invariant of the web console.                                       *)

\* The interesting records of the guest e up to the n-th.
Seen(e, n) == Filter(history[e], UpTo(n))

\* The records of a guest come in order, none after the last one; the bridge
\* has the last of the present guest's, and there are none of later guests.
HistoryInOrder ==
  /\ history \in [1 .. Guests -> Seq(Nat)]
  /\ \A e \in 1 .. Guests : Increasing(history[e]) /\ 0 \notin ToSet(history[e])
  /\ \A n \in ToSet(history[lab_epoch]) : n <= sequence
  /\ \A e \in 1 .. Guests : e > lab_epoch => history[e] = << >>
  /\ kept = Keep(Window, history[lab_epoch])

\* The page shows no guest of the future, and has not seen its future.
CursorIsSeen ==
  /\ page <= lab_epoch
  /\ page = 0 => cursor = 0
  /\ page = lab_epoch => cursor <= sequence

\* The answer under way is what followed the page's cursor when it was given.
AnswerFollowsCursor ==
  /\ poll = [phase |-> poll.phase, after |-> poll.after, answer |-> poll.answer]
  /\ poll.phase \in {"sent", "answered"} => poll.after = cursor
  /\ poll.phase = "answered" =>
       /\ poll.answer.epoch \in 1 .. Guests /\ poll.answer.sequence \in Nat
       /\ page <= poll.answer.epoch /\ poll.answer.epoch <= lab_epoch
       /\ poll.answer.epoch = page => cursor <= poll.answer.sequence
       /\ poll.answer.epoch = lab_epoch => poll.answer.sequence <= sequence
       /\ poll.answer.events =
            Filter(Keep(Window, Seen(poll.answer.epoch, poll.answer.sequence)), After(poll.after))

\* The inductive invariant of the console.
ConsoleInv ==
  /\ ConsoleTypeOK /\ HistoryInOrder /\ CursorIsSeen /\ AnswerFollowsCursor
  /\ EventsAreTheWindow /\ RowsFollowEvents /\ NothingFromAnOldGuest

-----------------------------------------------------------------------------
(* The order of what is shown.                                             *)

\* Records in the order in which they came.
InSequence(s) == s \in Seq(Nat) /\ Increasing(s) /\ 0 \notin ToSet(s)

\* They are distinct.
LEMMA InSequenceDistinct ==
  ASSUME NEW s, InSequence(s)
  PROVE  Distinct(s)
<1>1. PICK n \in Nat : DOMAIN s = 1 .. n /\ \A i \in 1 .. n : s[i] \in Nat
  BY DEF InSequence
<1>2. ASSUME NEW i \in 1 .. n, NEW j \in 1 .. n, s[i] = s[j] PROVE i = j
  <2>1. ~(i < j) /\ ~(j < i)
    BY <1>1, <1>2 DEF InSequence, Increasing
  <2>2. QED BY <2>1
<1>3. QED BY <1>1, <1>2 DEF Distinct

\* What a filter and a window leave of them is in the same order.
LEMMA StaysInSequence ==
  ASSUME NEW s, InSequence(s), NEW S, NEW w \in Nat
  PROVE  InSequence(Filter(s, S)) /\ InSequence(Keep(w, s))
<1>1. s \in Seq(Nat) /\ Increasing(s) /\ 0 \notin ToSet(s)
  BY DEF InSequence
<1>2. Filter(s, S) \in Seq(Nat) /\ Increasing(Filter(s, S)) /\ ToSet(Filter(s, S)) = ToSet(s) \cap S
  BY <1>1, FilterType, FilterIncreasing, FilterElements
<1>3. Keep(w, s) \in Seq(Nat)
  BY <1>1, KeepType
<1>4. Increasing(Keep(w, s)) /\ ToSet(Keep(w, s)) \subseteq ToSet(s)
  BY <1>1, KeepIncreasing
<1>5. QED BY <1>1, <1>2, <1>3, <1>4 DEF InSequence

\* No record is before the first.
LEMMA NoneSeen ==
  ASSUME NEW s, InSequence(s)
  PROVE  Filter(s, UpTo(0)) = << >>
<1> DEFINE f == Filter(s, UpTo(0))
<1>1. s \in Seq(Nat) /\ Increasing(s) /\ 0 \notin ToSet(s)
  BY DEF InSequence
<1>2. f \in Seq(Nat) /\ Increasing(f) /\ ToSet(f) = ToSet(s) \cap UpTo(0)
  BY <1>1, FilterType, FilterIncreasing, FilterElements
<1> HIDE DEF f
<1>3. UpTo(0) = {0}
  BY DEF UpTo
<1>4. << >> \in Seq(Nat) /\ Increasing(<< >>) /\ ToSet(<< >>) = {}
  BY DEF Increasing, ToSet
<1>5. ToSet(f) = {}
  BY <1>1, <1>2, <1>3
<1>6. f = << >>
  BY <1>2, <1>4, <1>5, Determined
<1>7. QED BY <1>6 DEF f

\* A filter that all of them pass changes nothing.
LEMMA AllSeen ==
  ASSUME NEW s, InSequence(s), NEW S, ToSet(s) \subseteq S
  PROVE  Filter(s, S) = s
<1> DEFINE f == Filter(s, S)
<1>1. s \in Seq(Nat) /\ Increasing(s)
  BY DEF InSequence
<1>2. f \in Seq(Nat) /\ Increasing(f) /\ ToSet(f) = ToSet(s) \cap S
  BY <1>1, FilterType, FilterIncreasing, FilterElements
<1> HIDE DEF f
<1>3. ToSet(f) = ToSet(s)
  BY <1>2
<1>4. f = s
  BY <1>1, <1>2, <1>3, Determined
<1>5. QED BY <1>4 DEF f

\* A page that has the window up to c and adds what an answer up to q gives
\* it after c has the window up to q: the heart of the poll.
LEMMA AnswerCompletes ==
  ASSUME NEW h, InSequence(h), NEW c \in Nat, NEW q \in Nat, c <= q, NEW w \in Nat
  PROVE  Keep(w, Keep(w, Filter(h, UpTo(c))) \o Filter(Keep(w, Filter(h, UpTo(q))), After(c)))
           = Keep(w, Filter(h, UpTo(q)))
<1> DEFINE a == Filter(h, UpTo(c))
           b == Filter(h, UpTo(q) \cap After(c))
           f == Filter(h, UpTo(q))
<1>1. h \in Seq(Nat) /\ Increasing(h)
  BY DEF InSequence
<1>2. /\ a \in Seq(Nat) /\ Increasing(a) /\ ToSet(a) = ToSet(h) \cap UpTo(c)
      /\ b \in Seq(Nat) /\ Increasing(b) /\ ToSet(b) = ToSet(h) \cap (UpTo(q) \cap After(c))
      /\ f \in Seq(Nat) /\ Increasing(f) /\ ToSet(f) = ToSet(h) \cap UpTo(q)
  BY <1>1, FilterType, FilterIncreasing, FilterElements
<1> HIDE DEF a, b, f
<1>3. (\A e \in ToSet(a) : e <= c) /\ (\A e \in ToSet(b) : e > c)
  BY <1>2 DEF UpTo, After
<1>4. a \o b \in Seq(Nat) /\ Increasing(a \o b)
  <2>1. a \o b \in Seq(Nat)
    BY <1>2
  <2>2. Increasing(a \o b)
    BY <1>2, <1>3, IncreasingConcat
  <2>3. QED BY <2>1, <2>2
<1>5. ToSet(a \o b) = ToSet(a) \cup ToSet(b)
  BY <1>2, NumbersOfConcat
<1>6. UpTo(c) \cup (UpTo(q) \cap After(c)) = UpTo(q)
  BY DEF UpTo, After
<1>7. ToSet(a \o b) = ToSet(f)
  BY <1>2, <1>5, <1>6
<1>8. a \o b = f
  BY <1>2, <1>4, <1>7, Determined
<1>9. Filter(Keep(w, f), After(c)) = Keep(w, b)
  <2>1. Filter(Keep(w, a \o b), After(c)) = Keep(w, b)
    <3>1. a \in Seq(Nat) /\ b \in Seq(Nat) /\ Increasing(a) /\ Increasing(b)
      BY <1>2
    <3>2. QED BY <1>3, <3>1, KeepAfter, Zenon
  <2>2. QED BY <1>8, <2>1
<1>10. Keep(w, Keep(w, a) \o Keep(w, b)) = Keep(w, f)
  <2>1. Keep(w, Keep(w, a) \o Keep(w, b)) = Keep(w, a \o b)
    BY <1>2, KeepConcat
  <2>2. QED BY <1>8, <2>1
<1>11. QED BY <1>9, <1>10 DEF a, f

\* The log after renderEvents.
LEMMA Rendered ==
  ASSUME NEW evs, InSequence(evs), evs = events', NEW s, s \in Seq(Nat), Distinct(s),
         NEW start, NEW v, Render(s, start, v)
  PROVE  rows' = Relevant(events', start, v)
<1> DEFINE r == Relevant(evs, start, v)
<1>1. InSequence(r)
  BY StaysInSequence, ConsoleAssumption DEF Relevant
<1> HIDE DEF r
<1>2. Distinct(r) /\ r \in Seq(Nat) /\ 0 \notin ToSet(r)
  BY <1>1, InSequenceDistinct DEF InSequence
<1>3. RenderEvents(s, r) = r
  BY <1>2, RowsAreRelevant
<1>4. rows' = RenderEvents(s, r)
  BY DEF Render, r
<1>5. QED BY <1>3, <1>4 DEF r

-----------------------------------------------------------------------------
(* Every step keeps the invariant.                                         *)

\* What a step that leaves the guest and the page's events alone keeps.
LEMMA SameEvents ==
  ASSUME ConsoleInv, UNCHANGED <<bridge, page, cursor, events>>
  PROVE  HistoryInOrder' /\ CursorIsSeen' /\ EventsAreTheWindow'
<1>1. UNCHANGED <<lab_epoch, sequence, kept, history, page, cursor, events>>
  BY DEF bridge
<1>2. HistoryInOrder /\ CursorIsSeen /\ EventsAreTheWindow
  BY DEF ConsoleInv
<1>3. HistoryInOrder'
  BY <1>1, <1>2 DEF HistoryInOrder
<1>4. CursorIsSeen'
  BY <1>1, <1>2 DEF CursorIsSeen
<1>5. EventsAreTheWindow'
  BY <1>1, <1>2 DEF EventsAreTheWindow
<1>6. QED BY <1>3, <1>4, <1>5

\* What a step that leaves the poll alone, too, keeps.
LEMMA SamePoll ==
  ASSUME ConsoleInv, UNCHANGED <<bridge, page, cursor, poll>>
  PROVE  AnswerFollowsCursor'
<1>1. UNCHANGED <<lab_epoch, sequence, history, page, cursor, poll>>
  BY DEF bridge
<1>2. AnswerFollowsCursor
  BY DEF ConsoleInv
<1>3. QED BY <1>1, <1>2 DEF AnswerFollowsCursor, Seen

\* What a step that leaves the screen alone keeps.
LEMMA SameScreen ==
  ASSUME ConsoleInv, UNCHANGED <<page, cursor, events, screen>>
  PROVE  RowsFollowEvents' /\ NothingFromAnOldGuest'
<1>1. UNCHANGED <<page, cursor, events, view, rows, eventStart, traceStart, selected, counterSnapshot, inspectorSnapshot>>
  BY DEF screen
<1>2. RowsFollowEvents /\ NothingFromAnOldGuest
  BY DEF ConsoleInv
<1>3. RowsFollowEvents'
  BY <1>1, <1>2 DEF RowsFollowEvents
<1>4. NothingFromAnOldGuest'
  BY <1>1, <1>2 DEF NothingFromAnOldGuest
<1>5. QED BY <1>3, <1>4

\* What is known of the events and the rows of a page.
LEMMA PageInSequence ==
  ASSUME ConsoleInv
  PROVE  InSequence(events) /\ InSequence(rows)
<1>1. ConsoleTypeOK /\ HistoryInOrder /\ EventsAreTheWindow /\ RowsFollowEvents
  BY DEF ConsoleInv
<1>2. Window \in Nat /\ RowLimit \in Nat
  BY ConsoleAssumption
<1>3. InSequence(events)
  <2>1. CASE page = 0
    <3>1. events = << >>
      BY <1>1, <2>1 DEF EventsAreTheWindow
    <3>2. QED BY <3>1 DEF InSequence, Increasing, ToSet
  <2>2. CASE page # 0
    <3>1. page \in 1 .. Guests
      BY <1>1, <2>2, ConsoleAssumption DEF ConsoleTypeOK
    <3>2. InSequence(history[page])
      BY <1>1, <3>1 DEF HistoryInOrder, InSequence
    <3>3. InSequence(Keep(Window, Filter(history[page], UpTo(cursor))))
      BY <1>2, <3>2, StaysInSequence
    <3>4. QED BY <1>1, <2>2, <3>3 DEF EventsAreTheWindow
  <2>3. QED BY <2>1, <2>2
<1>4. InSequence(rows)
  BY <1>1, <1>2, <1>3, StaysInSequence DEF RowsFollowEvents, Relevant
<1>5. QED BY <1>3, <1>4

\* The first state.
LEMMA ConsoleStarts == ConsoleInit => ConsoleInv
<1> SUFFICES ASSUME ConsoleInit PROVE ConsoleInv
  OBVIOUS
<1>1. /\ lab_epoch = 1 /\ sequence = 0 /\ kept = << >>
      /\ history = [e \in 1 .. Guests |-> << >>]
      /\ page = 0 /\ cursor = 0 /\ events = << >>
      /\ view = "console" /\ rows = << >>
      /\ eventStart = 0 /\ traceStart = 0 /\ selected = None
      /\ counterSnapshot = Null /\ inspectorSnapshot = Null
      /\ poll = Waiting
  BY DEF ConsoleInit
<1>2. << >> \in Seq(Nat) /\ ToSet(<< >>) = {} /\ Increasing(<< >>)
      /\ \A w \in Nat : Keep(w, << >>) = << >>
  BY DEF ToSet, Increasing, Keep
<1>3. Guests \in Nat \ {0} /\ Window \in Nat /\ RowLimit \in Nat
  BY ConsoleAssumption
<1>4. ConsoleTypeOK
  BY <1>1, <1>2, <1>3 DEF ConsoleTypeOK, Waiting
<1>5. HistoryInOrder
  <2>1. \A e \in 1 .. Guests : history[e] = << >>
    BY <1>1
  <2>2. history \in [1 .. Guests -> Seq(Nat)]
    BY <1>1, <1>2
  <2>3. lab_epoch \in 1 .. Guests
    BY <1>1, <1>3
  <2>4. QED BY <1>1, <1>2, <1>3, <2>1, <2>2, <2>3 DEF HistoryInOrder
<1>6. CursorIsSeen
  BY <1>1 DEF CursorIsSeen
<1>7. AnswerFollowsCursor
  BY <1>1 DEF AnswerFollowsCursor, Waiting
<1>8. EventsAreTheWindow
  BY <1>1 DEF EventsAreTheWindow
<1>9. RowsFollowEvents
  <2>1. Filter(<< >>, After(eventStart)) = << >>
    BY FilterType
  <2>2. QED BY <1>1, <1>2, <1>3, <2>1 DEF RowsFollowEvents, Relevant
<1>10. NothingFromAnOldGuest
  BY <1>1 DEF NothingFromAnOldGuest, None, Null
<1>11. QED BY <1>4, <1>5, <1>6, <1>7, <1>8, <1>9, <1>10 DEF ConsoleInv

\* A record comes after all others, so nothing that was seen changes.
LEMMA RecordKeeps ==
  ASSUME ConsoleInv, NEW interesting \in BOOLEAN, record(interesting)
  PROVE  ConsoleInv'
<1>1. /\ ConsoleTypeOK /\ HistoryInOrder /\ CursorIsSeen /\ AnswerFollowsCursor /\ EventsAreTheWindow
  BY DEF ConsoleInv
<1>2. /\ sequence' = sequence + 1
      /\ kept' = IF interesting THEN Keep(Window, Append(kept, sequence')) ELSE kept
      /\ history' = IF interesting THEN [history EXCEPT ![lab_epoch] = Append(@, sequence')] ELSE history
      /\ UNCHANGED <<lab_epoch, page, cursor, events, screen, poll>>
  BY DEF record
<1>3. /\ lab_epoch \in 1 .. Guests /\ sequence \in Nat /\ sequence + 1 \in Nat
      /\ history \in [1 .. Guests -> Seq(Nat)] /\ Window \in Nat \ {0}
      /\ page \in 0 .. Guests /\ cursor \in Nat
  BY <1>1, ConsoleAssumption DEF ConsoleTypeOK, HistoryInOrder
<1> DEFINE h == history[lab_epoch]
           x == sequence + 1
<1>4. h \in Seq(Nat) /\ Increasing(h) /\ 0 \notin ToSet(h) /\ kept = Keep(Window, h)
      /\ \A n \in ToSet(h) : n <= sequence
  BY <1>1, <1>3 DEF HistoryInOrder
<1>5. \A n \in ToSet(h) : n \in Nat
  BY <1>4 DEF ToSet
<1>6. /\ \A e \in 1 .. Guests : e # lab_epoch => history'[e] = history[e]
      /\ history'[lab_epoch] = IF interesting THEN Append(h, x) ELSE h
      /\ history' \in [1 .. Guests -> Seq(Nat)]
  <2>1. CASE interesting
    <3>1. history' = [history EXCEPT ![lab_epoch] = Append(h, x)]
      BY <1>2, <2>1
    <3>2. Append(h, x) \in Seq(Nat)
      BY <1>3, <1>4
    <3> HIDE DEF h, x
    <3>3. QED BY <1>3, <2>1, <3>1, <3>2
  <2>2. CASE ~interesting
    BY <1>2, <1>3, <2>2
  <2>3. QED BY <2>1, <2>2
<1>7. x \in Nat /\ x > sequence /\ x # 0
  BY <1>3
<1> HIDE DEF h
<1>8. interesting => /\ Increasing(Append(h, x)) /\ ToSet(Append(h, x)) = ToSet(h) \cup {x}
                     /\ kept' = Keep(Window, Append(h, x))
  <2>1. \A e \in ToSet(h) : e < x
    BY <1>3, <1>4, <1>5
  <2> HIDE DEF x
  <2>2. Increasing(Append(h, x))
    BY <1>4, <1>7, <2>1, IncreasingAppend
  <2>3. ToSet(Append(h, x)) = ToSet(h) \cup {x}
    BY <1>4, <1>7, NumbersOfAppend
  <2>4. Keep(Window, Append(Keep(Window, h), x)) = Keep(Window, Append(h, x))
    BY <1>3, <1>4, <1>7, KeepAppend
  <2>5. QED BY <1>2, <1>4, <2>2, <2>3, <2>4 DEF x
<1>9. kept' \in Seq(Nat)
  <2>1. CASE interesting
    <3>1. Append(h, x) \in Seq(Nat)
      BY <1>4, <1>7
    <3>2. Keep(Window, Append(h, x)) \in Seq(Nat)
      BY <1>3, <3>1, KeepType
    <3>3. QED BY <1>8, <2>1, <3>2
  <2>2. CASE ~interesting
    BY <1>1, <1>2, <2>2 DEF ConsoleTypeOK
  <2>3. QED BY <2>1, <2>2
<1>10. \A q \in Nat : q <= sequence => Filter(history'[lab_epoch], UpTo(q)) = Filter(h, UpTo(q))
  <2>1. ASSUME NEW q \in Nat, q <= sequence PROVE Filter(Append(h, x), UpTo(q)) = Filter(h, UpTo(q))
    <3>1. x \notin UpTo(q)
      BY <1>3, <1>7, <2>1 DEF UpTo
    <3>2. QED BY <1>4, <1>7, <3>1, FilterAppend
  <2>2. QED BY <1>6, <2>1
<1> HIDE DEF x
<1>11. ConsoleTypeOK'
  BY <1>1, <1>2, <1>3, <1>9 DEF ConsoleTypeOK, screen
<1>12. HistoryInOrder'
  <2>1. \A n \in ToSet(history'[lab_epoch]) : n <= sequence'
    <3>1. CASE interesting
      <4>1. ToSet(history'[lab_epoch]) = ToSet(h) \cup {x}
        BY <1>6, <1>8, <3>1
      <4>2. x <= sequence'
        BY <1>2, <1>3 DEF x
      <4>3. ASSUME NEW n \in ToSet(h) PROVE n <= sequence'
        BY <1>2, <1>3, <1>4, <1>5
      <4>4. QED BY <4>1, <4>2, <4>3
    <3>2. CASE ~interesting
      BY <1>2, <1>3, <1>4, <1>5, <1>6, <3>2
    <3>3. QED BY <3>1, <3>2
  <2>2. kept' = Keep(Window, history'[lab_epoch])
    BY <1>2, <1>4, <1>6, <1>8
  <2>3. ASSUME NEW e \in 1 .. Guests PROVE Increasing(history'[e]) /\ 0 \notin ToSet(history'[e])
    <3>1. CASE e = lab_epoch
      <4>1. CASE interesting
        BY <1>4, <1>6, <1>7, <1>8, <3>1, <4>1
      <4>2. CASE ~interesting
        BY <1>4, <1>6, <3>1, <4>2
      <4>3. QED BY <4>1, <4>2
    <3>2. CASE e # lab_epoch
      BY <1>1, <1>6, <3>2 DEF HistoryInOrder
    <3>3. QED BY <3>1, <3>2
  <2>4. ASSUME NEW e \in 1 .. Guests, e > lab_epoch PROVE history'[e] = << >>
    BY <1>1, <1>3, <1>6, <2>4 DEF HistoryInOrder
  <2>5. QED BY <1>2, <1>6, <2>1, <2>2, <2>3, <2>4 DEF HistoryInOrder
<1>13. CursorIsSeen'
  BY <1>1, <1>2, <1>3 DEF CursorIsSeen
<1>14. AnswerFollowsCursor'
  <2>1. poll' = poll /\ page' = page /\ cursor' = cursor /\ lab_epoch' = lab_epoch
    BY <1>2
  <2>2. ASSUME poll.phase = "answered"
        PROVE  Seen(poll.answer.epoch, poll.answer.sequence)' = Seen(poll.answer.epoch, poll.answer.sequence)
    <3>1. /\ poll.answer.epoch \in 1 .. Guests /\ poll.answer.sequence \in Nat
          /\ poll.answer.epoch = lab_epoch => poll.answer.sequence <= sequence
      BY <1>1, <2>2 DEF AnswerFollowsCursor
    <3>2. CASE poll.answer.epoch = lab_epoch
      BY <1>10, <2>1, <3>1, <3>2 DEF Seen, h
    <3>3. CASE poll.answer.epoch # lab_epoch
      BY <1>6, <2>1, <3>1, <3>3 DEF Seen
    <3>4. QED BY <3>2, <3>3
  <2>3. ASSUME poll.phase = "answered"
        PROVE  poll.answer.epoch = lab_epoch => poll.answer.sequence <= sequence'
    BY <1>1, <1>2, <1>3, <2>3 DEF AnswerFollowsCursor
  <2>4. QED BY <1>1, <2>1, <2>2, <2>3 DEF AnswerFollowsCursor
<1>15. EventsAreTheWindow'
  <2>1. CASE page = 0
    BY <1>1, <1>2, <2>1 DEF EventsAreTheWindow
  <2>2. CASE page # 0
    <3>1. page \in 1 .. Guests
      BY <1>3, <2>2
    <3>2. Filter(history'[page], UpTo(cursor)) = Filter(history[page], UpTo(cursor))
      <4>1. CASE page = lab_epoch
        <5>1. cursor <= sequence
          BY <1>1, <4>1 DEF CursorIsSeen
        <5>2. QED BY <1>3, <1>10, <4>1, <5>1 DEF h
      <4>2. CASE page # lab_epoch
        BY <1>6, <3>1, <4>2
      <4>3. QED BY <4>1, <4>2
    <3>3. QED BY <1>1, <1>2, <2>2, <3>2 DEF EventsAreTheWindow
  <2>3. QED BY <2>1, <2>2
<1>16. RowsFollowEvents' /\ NothingFromAnOldGuest'
  BY <1>2, SameScreen
<1>17. QED BY <1>11, <1>12, <1>13, <1>14, <1>15, <1>16 DEF ConsoleInv

\* A new guest has no records, and the page has not seen it.
LEMMA RestartKeeps ==
  ASSUME ConsoleInv, restart
  PROVE  ConsoleInv'
<1>1. /\ ConsoleTypeOK /\ HistoryInOrder /\ CursorIsSeen /\ AnswerFollowsCursor /\ EventsAreTheWindow
  BY DEF ConsoleInv
<1>2. /\ lab_epoch < Guests /\ lab_epoch' = lab_epoch + 1 /\ sequence' = 0 /\ kept' = << >>
      /\ UNCHANGED <<history, page, cursor, events, screen, poll>>
  BY DEF restart
<1>3. /\ lab_epoch \in 1 .. Guests /\ lab_epoch + 1 \in 1 .. Guests /\ Guests \in Nat /\ Window \in Nat
      /\ page \in 0 .. Guests
  BY <1>1, <1>2, ConsoleAssumption DEF ConsoleTypeOK
<1>4. ConsoleTypeOK'
  BY <1>1, <1>2, <1>3 DEF ConsoleTypeOK, screen
<1>5. HistoryInOrder'
  <2>1. history[lab_epoch + 1] = << >>
    BY <1>1, <1>3 DEF HistoryInOrder
  <2>2. ToSet(<< >>) = {} /\ Keep(Window, << >>) = << >>
    BY <1>3 DEF ToSet, Keep
  <2>3. \A e \in 1 .. Guests : e > lab_epoch + 1 => history[e] = << >>
    BY <1>1, <1>3 DEF HistoryInOrder
  <2>4. QED BY <1>1, <1>2, <2>1, <2>2, <2>3 DEF HistoryInOrder
<1>6. CursorIsSeen'
  BY <1>1, <1>2, <1>3 DEF CursorIsSeen
<1>7. AnswerFollowsCursor'
  <2>1. poll.phase = "answered" => /\ poll.answer.epoch \in 1 .. Guests
                                   /\ poll.answer.epoch <= lab_epoch + 1 /\ poll.answer.epoch # lab_epoch + 1
    BY <1>1, <1>3 DEF AnswerFollowsCursor
  <2>2. QED BY <1>1, <1>2, <2>1 DEF AnswerFollowsCursor, Seen
<1>8. EventsAreTheWindow'
  BY <1>1, <1>2 DEF EventsAreTheWindow
<1>9. RowsFollowEvents' /\ NothingFromAnOldGuest'
  BY <1>2, SameScreen
<1>10. QED BY <1>4, <1>5, <1>6, <1>7, <1>8, <1>9 DEF ConsoleInv

\* The bridge answers from the window of the guest it has.
LEMMA AnswerKeeps ==
  ASSUME ConsoleInv, answer_state
  PROVE  ConsoleInv'
<1>1. /\ ConsoleTypeOK /\ HistoryInOrder /\ CursorIsSeen /\ AnswerFollowsCursor
  BY DEF ConsoleInv
<1>2. PICK both \in BOOLEAN :
        poll' = [poll EXCEPT !.phase = "answered",
                   !.answer = [epoch |-> lab_epoch, sequence |-> sequence, both |-> both,
                               events |-> Filter(kept, After(poll.after))]]
  BY DEF answer_state
<1>3. poll.phase = "sent" /\ UNCHANGED <<bridge, page, cursor, events, screen>>
  BY DEF answer_state
<1>4. /\ lab_epoch \in 1 .. Guests /\ sequence \in Nat
      /\ poll = [phase |-> poll.phase, after |-> poll.after, answer |-> poll.answer]
  BY <1>1 DEF ConsoleTypeOK, AnswerFollowsCursor
<1>a. PICK a : a = [epoch |-> lab_epoch, sequence |-> sequence, both |-> both,
                    events |-> Filter(kept, After(poll.after))]
  OBVIOUS
<1>5. poll' = [phase |-> "answered", after |-> poll.after, answer |-> a]
  <2>1. poll' = [poll EXCEPT !.phase = "answered", !.answer = a]
    BY <1>2, <1>a
  <2>2. QED BY <1>4, <2>1
<1>6. /\ a.epoch = lab_epoch /\ a.sequence = sequence /\ a.events = Filter(kept, After(poll.after))
  BY <1>a
<1>7. poll'.phase = "answered" /\ poll'.after = poll.after /\ poll'.answer = a
  BY <1>5
<1>8. ConsoleTypeOK'
  BY <1>1, <1>3, <1>7 DEF ConsoleTypeOK, bridge, screen
<1>9. AnswerFollowsCursor'
  <2>1. Seen(lab_epoch, sequence) = history[lab_epoch]
    <3>1. InSequence(history[lab_epoch])
      BY <1>1, <1>4 DEF HistoryInOrder, InSequence
    <3>2. ToSet(history[lab_epoch]) \subseteq UpTo(sequence)
      <4>1. \A n \in ToSet(history[lab_epoch]) : n \in Nat
        BY <3>1 DEF InSequence, ToSet
      <4>2. QED BY <1>1, <4>1 DEF HistoryInOrder, UpTo
    <3>3. QED BY <3>1, <3>2, AllSeen DEF Seen
  <2>2. a.events = Filter(Keep(Window, Seen(a.epoch, a.sequence)), After(poll.after))
    BY <1>1, <1>6, <2>1 DEF HistoryInOrder
  <2>3. UNCHANGED <<lab_epoch, sequence, history, page, cursor>>
    BY <1>3 DEF bridge
  <2>4. Seen(a.epoch, a.sequence)' = Seen(a.epoch, a.sequence)
    BY <1>6, <2>3 DEF Seen
  <2>5. poll.after = cursor /\ page <= lab_epoch /\ (lab_epoch = page => cursor <= sequence)
    BY <1>1, <1>3 DEF AnswerFollowsCursor, CursorIsSeen
  <2>6. lab_epoch <= lab_epoch /\ sequence <= sequence
    BY <1>4
  <2>7. QED BY <1>4, <1>5, <1>6, <1>7, <2>2, <2>3, <2>4, <2>5, <2>6 DEF AnswerFollowsCursor, Seen
<1>10. HistoryInOrder' /\ CursorIsSeen' /\ EventsAreTheWindow'
  BY <1>3, SameEvents
<1>11. RowsFollowEvents' /\ NothingFromAnOldGuest'
  BY <1>3, SameScreen
<1>12. QED BY <1>8, <1>9, <1>10, <1>11 DEF ConsoleInv

\* The request carries the page's cursor.
LEMMA SendKeeps ==
  ASSUME ConsoleInv, poll_send
  PROVE  ConsoleInv'
<1>1. ConsoleTypeOK /\ CursorIsSeen
  BY DEF ConsoleInv
<1>2. poll' = [phase |-> "sent", after |-> cursor, answer |-> << >>]
  BY DEF poll_send, Waiting
<1>3. UNCHANGED <<bridge, page, cursor, events, screen>>
  BY DEF poll_send
<1>4. poll'.phase = "sent" /\ poll'.after = cursor /\ poll'.answer = << >>
  BY <1>2
<1>5. ConsoleTypeOK'
  BY <1>1, <1>3, <1>4 DEF ConsoleTypeOK, bridge, screen
<1>6. AnswerFollowsCursor'
  BY <1>2, <1>3, <1>4 DEF AnswerFollowsCursor
<1>7. HistoryInOrder' /\ CursorIsSeen' /\ EventsAreTheWindow'
  BY <1>3, SameEvents
<1>8. RowsFollowEvents' /\ NothingFromAnOldGuest'
  BY <1>3, SameScreen
<1>9. QED BY <1>5, <1>6, <1>7, <1>8 DEF ConsoleInv

\* A poll that fails changes nothing the page shows.
LEMMA FailKeeps ==
  ASSUME ConsoleInv, poll_fails
  PROVE  ConsoleInv'
<1>1. ConsoleTypeOK
  BY DEF ConsoleInv
<1>2. poll' = [phase |-> "timer", after |-> 0, answer |-> << >>]
  BY DEF poll_fails, AfterError, Waiting
<1>3. UNCHANGED <<bridge, page, cursor, events, screen>>
  BY DEF poll_fails
<1>4. poll'.phase = "timer" /\ poll'.after = 0 /\ poll'.answer = << >>
  BY <1>2
<1>5. ConsoleTypeOK'
  BY <1>1, <1>3, <1>4 DEF ConsoleTypeOK, bridge, screen
<1>6. AnswerFollowsCursor'
  BY <1>2, <1>4 DEF AnswerFollowsCursor
<1>7. HistoryInOrder' /\ CursorIsSeen' /\ EventsAreTheWindow'
  BY <1>3, SameEvents
<1>8. RowsFollowEvents' /\ NothingFromAnOldGuest'
  BY <1>3, SameScreen
<1>9. QED BY <1>5, <1>6, <1>7, <1>8 DEF ConsoleInv

\* The answer arrives: the page shows the window of its guest up to it, or
\* nothing of a new guest, which it asks for again from the start.
LEMMA ReceiveKeeps ==
  ASSUME ConsoleInv, poll_receive
  PROVE  ConsoleInv'
<1>1. /\ ConsoleTypeOK /\ HistoryInOrder /\ CursorIsSeen /\ AnswerFollowsCursor
      /\ EventsAreTheWindow /\ RowsFollowEvents /\ NothingFromAnOldGuest
  BY DEF ConsoleInv
<1>2. PICK a : a = poll.answer
  OBVIOUS
<1>3. PICK again \in BOOLEAN : again = MustAskAgain(a)
  BY DEF MustAskAgain
<1>4. PICK new \in BOOLEAN : new = (a.epoch # page)
  OBVIOUS
<1>5. PICK seen : seen = IF new THEN << >> ELSE events
  OBVIOUS
<1>6. PICK shown : shown = IF new THEN << >> ELSE rows
  OBVIOUS
<1>7. PICK start : start = FreshMark(a, eventStart)
  OBVIOUS
<1>8. /\ poll.phase = "answered"
      /\ page' = a.epoch
      /\ events' = IF again THEN << >> ELSE Keep(Window, seen \o a.events)
      /\ cursor' = IF again THEN 0 ELSE a.sequence
      /\ eventStart' = start /\ traceStart' = FreshMark(a, traceStart)
      /\ IF again THEN rows' = << >> ELSE Render(shown, start, view)
      /\ selected' = IF new THEN None ELSE selected
      /\ inspectorSnapshot' = IF new THEN Null ELSE inspectorSnapshot
      /\ counterSnapshot' =
           IF ~again /\ a.both THEN a.epoch ELSE IF new THEN Null ELSE counterSnapshot
      /\ poll' = Waiting
      /\ UNCHANGED <<bridge, view>>
  BY <1>2, <1>3, <1>4, <1>5, <1>6, <1>7 DEF poll_receive
<1>9. UNCHANGED <<lab_epoch, sequence, kept, history>>
  BY <1>8 DEF bridge
<1>10. /\ a.epoch \in 1 .. Guests /\ a.sequence \in Nat
       /\ page <= a.epoch /\ a.epoch <= lab_epoch
       /\ a.epoch = page => cursor <= a.sequence
       /\ a.epoch = lab_epoch => a.sequence <= sequence
       /\ a.events = Filter(Keep(Window, Seen(a.epoch, a.sequence)), After(cursor))
  BY <1>1, <1>2, <1>8 DEF AnswerFollowsCursor
<1>11. /\ page \in 0 .. Guests /\ cursor \in Nat /\ Window \in Nat /\ RowLimit \in Nat
       /\ sequence \in Nat /\ lab_epoch \in 1 .. Guests
       /\ eventStart \in Nat /\ traceStart \in Nat
  BY <1>1, ConsoleAssumption DEF ConsoleTypeOK
<1>12. again <=> new /\ page # 0
  BY <1>3, <1>4 DEF MustAskAgain
<1>13. PICK h : h = history[a.epoch]
  OBVIOUS
<1>14. InSequence(h)
  BY <1>1, <1>10, <1>13 DEF HistoryInOrder, InSequence
<1>15. << >> \in Seq(Nat) /\ Distinct(<< >>) /\ InSequence(<< >>) /\ Keep(Window, << >>) = << >>
       /\ Keep(RowLimit, << >>) = << >>
  BY <1>11 DEF Distinct, InSequence, Increasing, ToSet, Keep
<1>16. events' = Keep(Window, Filter(h, UpTo(cursor')))
  <2>1. CASE again
    <3>1. events' = << >> /\ cursor' = 0
      BY <1>8, <2>1
    <3>2. Filter(h, UpTo(0)) = << >>
      BY <1>14, NoneSeen
    <3>3. QED BY <1>15, <3>1, <3>2
  <2>2. CASE ~again
    <3>1. cursor' = a.sequence /\ events' = Keep(Window, seen \o a.events)
      BY <1>8, <2>2
    <3>2. seen = Keep(Window, Filter(h, UpTo(cursor))) /\ cursor <= a.sequence
      <4>1. CASE new
        <5>1. cursor = 0 /\ seen = << >>
          BY <1>1, <1>5, <1>12, <2>2, <4>1 DEF CursorIsSeen
        <5>2. Filter(h, UpTo(0)) = << >>
          BY <1>14, NoneSeen
        <5>3. QED BY <1>10, <1>15, <5>1, <5>2
      <4>2. CASE ~new
        <5>1. a.epoch = page /\ page # 0 /\ seen = events
          <6>1. a.epoch = page
            BY <1>4, <4>2
          <6>2. page # 0
            BY <1>10, <6>1
          <6>3. seen = events
            BY <1>5, <4>2
          <6>4. QED BY <6>1, <6>2, <6>3
        <5>2. QED BY <1>1, <1>10, <1>13, <5>1 DEF EventsAreTheWindow
      <4>3. QED BY <4>1, <4>2
    <3>3. a.events = Filter(Keep(Window, Filter(h, UpTo(a.sequence))), After(cursor))
      BY <1>10, <1>13 DEF Seen
    <3>4. QED BY <1>10, <1>11, <1>14, <3>1, <3>2, <3>3, AnswerCompletes
  <2>3. QED BY <2>1, <2>2
<1>17. InSequence(events')
  BY <1>11, <1>14, <1>16, StaysInSequence
<1>18. rows' = Relevant(events', eventStart', view')
  <2>1. CASE again
    <3>1. events' = << >> /\ rows' = << >>
      BY <1>8, <2>1
    <3>2. Filter(<< >>, After(start)) = << >> /\ Filter(<< >>, After(start) \cap FaultEvents) = << >>
      BY FilterType
    <3>3. Relevant(<< >>, start, view) = << >>
      BY <1>15, <3>2 DEF Relevant
    <3>4. QED BY <1>8, <3>1, <3>3
  <2>2. CASE ~again
    <3>1. Render(shown, start, view)
      BY <1>8, <2>2
    <3>2. shown \in Seq(Nat) /\ Distinct(shown)
      <4>1. InSequence(rows)
        BY PageInSequence
      <4>2. rows \in Seq(Nat) /\ Distinct(rows)
        BY <4>1, InSequenceDistinct DEF InSequence
      <4>3. QED BY <1>6, <1>15, <4>2
    <3>3. PICK evs : evs = events'
      OBVIOUS
    <3>4. rows' = Relevant(events', start, view)
      BY <1>17, <3>1, <3>2, <3>3, Rendered
    <3>5. QED BY <1>8, <3>4
  <2>3. QED BY <2>1, <2>2
<1>19. RowsFollowEvents'
  BY <1>18 DEF RowsFollowEvents
<1>20. EventsAreTheWindow'
  <2>1. page' # 0 /\ history'[page'] = h
    BY <1>8, <1>9, <1>10, <1>13
  <2>2. QED BY <1>16, <2>1 DEF EventsAreTheWindow
<1>21. cursor' \in Nat /\ page' \in 0 .. Guests /\ eventStart' \in Nat /\ traceStart' \in Nat
       /\ eventStart' <= cursor' /\ traceStart' <= cursor'
  <2>1. CASE new
    <3>1. start = 0 /\ FreshMark(a, traceStart) = 0
      BY <1>4, <1>7, <2>1 DEF FreshMark
    <3>2. QED BY <1>8, <1>10, <1>11, <3>1
  <2>2. CASE ~new
    <3>1. start = eventStart /\ FreshMark(a, traceStart) = traceStart /\ ~again
      BY <1>4, <1>7, <1>12, <2>2 DEF FreshMark
    <3>2. cursor <= a.sequence
      BY <1>4, <1>10, <2>2
    <3>3. eventStart <= cursor /\ traceStart <= cursor
      BY <1>1 DEF NothingFromAnOldGuest
    <3>4. QED BY <1>8, <1>10, <1>11, <3>1, <3>2, <3>3
  <2>3. QED BY <2>1, <2>2
<1>22. ConsoleTypeOK'
  <2>1. InSequence(rows')
    BY <1>11, <1>17, <1>18, StaysInSequence DEF Relevant
  <2>2. poll'.phase = "timer"
    BY <1>8 DEF Waiting
  <2>3. QED BY <1>1, <1>8, <1>9, <1>17, <1>21, <2>1, <2>2 DEF ConsoleTypeOK, InSequence
<1>23. HistoryInOrder'
  BY <1>1, <1>9 DEF HistoryInOrder
<1>24. CursorIsSeen'
  BY <1>8, <1>9, <1>10, <1>11 DEF CursorIsSeen
<1>25. AnswerFollowsCursor'
  BY <1>8 DEF AnswerFollowsCursor, Waiting
<1>26. NothingFromAnOldGuest'
  <2>1. selected' # None => selected'.epoch = page'
    BY <1>1, <1>4, <1>8 DEF NothingFromAnOldGuest
  <2>2. {counterSnapshot', inspectorSnapshot'} \subseteq {Null, page'}
    BY <1>1, <1>4, <1>8 DEF NothingFromAnOldGuest
  <2>3. QED BY <1>21, <2>1, <2>2 DEF NothingFromAnOldGuest
<1>27. QED BY <1>19, <1>20, <1>22, <1>23, <1>24, <1>25, <1>26 DEF ConsoleInv

\* A new mark or view: the rows are those events that pass it.
LEMMA ShowKeeps ==
  ASSUME ConsoleInv, NEW start, start \in Nat, start <= cursor, NEW v, v \in {"console", "fault"},
         Render(rows, start, v), eventStart' = start, view' = v,
         selected' \in {None, selected},
         UNCHANGED <<bridge, page, cursor, events, traceStart, counterSnapshot, inspectorSnapshot, poll>>
  PROVE  ConsoleInv'
<1>1. /\ ConsoleTypeOK /\ RowsFollowEvents /\ NothingFromAnOldGuest
  BY DEF ConsoleInv
<1>2. InSequence(events) /\ InSequence(rows)
  BY PageInSequence
<1>3. rows \in Seq(Nat) /\ Distinct(rows)
  BY <1>2, InSequenceDistinct DEF InSequence
<1>4. rows' = Relevant(events', start, v)
  <2>1. PICK evs : evs = events'
    OBVIOUS
  <2>2. InSequence(evs)
    BY <1>2, <2>1
  <2>3. QED BY <1>3, <2>1, <2>2, Rendered
<1>5. InSequence(rows')
  BY <1>2, <1>4, StaysInSequence, ConsoleAssumption DEF Relevant
<1>6. ConsoleTypeOK'
  BY <1>1, <1>5 DEF ConsoleTypeOK, InSequence, bridge
<1>7. RowsFollowEvents'
  BY <1>4 DEF RowsFollowEvents
<1>8. NothingFromAnOldGuest'
  BY <1>1 DEF NothingFromAnOldGuest
<1>9. HistoryInOrder' /\ CursorIsSeen' /\ EventsAreTheWindow'
  BY SameEvents
<1>10. AnswerFollowsCursor'
  BY SamePoll
<1>11. QED BY <1>6, <1>7, <1>8, <1>9, <1>10 DEF ConsoleInv

\* The other clicks: they change what is selected and shown beside the log.
LEMMA ClickKeeps ==
  ASSUME ConsoleInv, UNCHANGED <<bridge, page, cursor, events, view, rows, eventStart, poll>>,
         traceStart' \in {traceStart, cursor, 0},
         selected' \in {None, selected} \/ selected'.epoch = page,
         counterSnapshot' = counterSnapshot,
         inspectorSnapshot' \in {Null, counterSnapshot, inspectorSnapshot}
  PROVE  ConsoleInv'
<1>1. /\ ConsoleTypeOK /\ RowsFollowEvents /\ NothingFromAnOldGuest
  BY DEF ConsoleInv
<1>2. ConsoleTypeOK'
  BY <1>1 DEF ConsoleTypeOK, bridge
<1>3. RowsFollowEvents'
  BY <1>1 DEF RowsFollowEvents
<1>4. NothingFromAnOldGuest'
  BY <1>1 DEF NothingFromAnOldGuest, ConsoleTypeOK
<1>5. HistoryInOrder' /\ CursorIsSeen' /\ EventsAreTheWindow'
  BY SameEvents
<1>6. AnswerFollowsCursor'
  BY SamePoll
<1>7. QED BY <1>2, <1>3, <1>4, <1>5, <1>6 DEF ConsoleInv

\* Every step keeps the invariant.
LEMMA ConsoleStep == ConsoleInv /\ [ConsoleNext]_consoleVars => ConsoleInv'
<1> SUFFICES ASSUME ConsoleInv, [ConsoleNext]_consoleVars PROVE ConsoleInv'
  OBVIOUS
<1>1. ASSUME NEW interesting \in BOOLEAN, record(interesting) PROVE ConsoleInv'
  BY <1>1, RecordKeeps
<1>2. CASE restart
  BY <1>2, RestartKeeps
<1>3. CASE answer_state
  BY <1>3, AnswerKeeps
<1>4. CASE poll_send
  BY <1>4, SendKeeps
<1>5. CASE poll_receive
  BY <1>5, ReceiveKeeps
<1>6. CASE poll_fails
  BY <1>6, FailKeeps
<1>7. CASE clear_events
  <2>1. cursor \in Nat /\ cursor <= cursor /\ view \in {"console", "fault"}
    BY DEF ConsoleInv, ConsoleTypeOK
  <2>2. PICK start : start = cursor
    OBVIOUS
  <2>3. PICK v : v = view
    OBVIOUS
  <2>4. /\ Render(rows, start, v) /\ eventStart' = start /\ view' = v /\ selected' \in {None, selected}
        /\ UNCHANGED <<bridge, page, cursor, events, traceStart, counterSnapshot, inspectorSnapshot, poll>>
    BY <1>7, <2>2, <2>3 DEF clear_events
  <2>5. QED BY <2>1, <2>2, <2>3, <2>4, ShowKeeps
<1>8. CASE clear_trace
  BY <1>8, ClickKeeps DEF clear_trace
<1>9. CASE follow_events
  BY <1>9, ClickKeeps DEF follow_events
<1>10. CASE counter_snapshot
  BY <1>10, ClickKeeps DEF counter_snapshot
<1>11. ASSUME NEW v \in {"console", "fault"}, change_view(v) PROVE ConsoleInv'
  <2>1. eventStart \in Nat /\ eventStart <= cursor
    BY DEF ConsoleInv, ConsoleTypeOK, NothingFromAnOldGuest
  <2>2. PICK start : start = eventStart
    OBVIOUS
  <2>3. /\ Render(rows, start, v) /\ eventStart' = start /\ view' = v /\ selected' \in {None, selected}
        /\ UNCHANGED <<bridge, page, cursor, events, traceStart, counterSnapshot, inspectorSnapshot, poll>>
    BY <1>11, <2>2 DEF change_view
  <2>4. QED BY <2>1, <2>2, <2>3, ShowKeeps
<1>12. ASSUME NEW e, select_event(e) PROVE ConsoleInv'
  BY <1>12, ClickKeeps DEF select_event
<1>13. CASE UNCHANGED consoleVars
  <2>1. UNCHANGED <<bridge, page, cursor, events, screen, poll>>
    BY <1>13 DEF consoleVars
  <2>2. ConsoleTypeOK'
    BY <2>1 DEF ConsoleInv, ConsoleTypeOK, bridge, screen
  <2>3. QED BY <2>1, <2>2, SameEvents, SamePoll, SameScreen DEF ConsoleInv
<1>14. QED BY <1>1, <1>2, <1>3, <1>4, <1>5, <1>6, <1>7, <1>8, <1>9, <1>10, <1>11, <1>12, <1>13
            DEF ConsoleNext

\* The variables of the page keep their types through every restart.
THEOREM ConsoleTypeCorrect == ConsoleSpec => []ConsoleTypeOK
<1>1. ConsoleInv => ConsoleTypeOK
  BY DEF ConsoleInv
<1>2. QED BY <1>1, ConsoleStarts, ConsoleStep, PTL DEF ConsoleSpec

\* The page has exactly the last Window events of the guest it shows, up to
\* its cursor, in order, whenever the guest restarts and answers are lost.
THEOREM WindowCorrect == ConsoleSpec => []EventsAreTheWindow
<1>1. ConsoleInv => EventsAreTheWindow
  BY DEF ConsoleInv
<1>2. QED BY <1>1, ConsoleStarts, ConsoleStep, PTL DEF ConsoleSpec

\* The log shows the last of them that pass its filter, in order.
THEOREM RowsCorrect == ConsoleSpec => []RowsFollowEvents
<1>1. ConsoleInv => RowsFollowEvents
  BY DEF ConsoleInv
<1>2. QED BY <1>1, ConsoleStarts, ConsoleStep, PTL DEF ConsoleSpec

\* A restart leaves no selection, snapshot or mark of the old guest.
THEOREM FreshGuestCorrect == ConsoleSpec => []NothingFromAnOldGuest
<1>1. ConsoleInv => NothingFromAnOldGuest
  BY DEF ConsoleInv
<1>2. QED BY <1>1, ConsoleStarts, ConsoleStep, PTL DEF ConsoleSpec
==============================================================================
