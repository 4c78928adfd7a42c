------------------------------- MODULE Console -------------------------------
(***************************************************************************)
(* The page of web/app.js, which polls /api/state of tools/lab-server.py   *)
(* with the number of the last record it has seen and shows the events of  *)
(* the current guest.  The bridge keeps the last Window interesting events *)
(* of its guest (Guest._event) and names the guest by an epoch; a restart  *)
(* (module Bridge) may happen between any two steps of a poll.             *)
(*                                                                         *)
(* An event is its record number.  The page's script runs to completion    *)
(* between awaits, so each handler is one step, and a poll is three: the   *)
(* request leaves, the bridge answers, the answer arrives or is lost.  The *)
(* connection badge, the buttons it disables and the text of the terminal  *)
(* are left out; traceStart stands for consoleStart as well.               *)
(***************************************************************************)
EXTENDS Integers, Sequences, SequencesExt

CONSTANTS
  Guests, MaxRecord,     \* bounds: the guests, and the records of each of them
  Window,                \* 2000 events, at the bridge and in the page
  RowLimit,              \* 80 rows in the event log
  FaultEvents            \* the records that are faults

ASSUME ConsoleAssumption ==
  /\ Guests \in Nat \ {0} /\ MaxRecord \in [1 .. Guests -> Nat]
  /\ Window \in Nat \ {0} /\ RowLimit \in Nat \ {0}
  /\ FaultEvents \subseteq Nat

VARIABLES
  lab_epoch, sequence,   \* lab.epoch, guest.sequence
  kept,               \* guest.events
  history,            \* every interesting event of every guest
  page,               \* the epoch the page shows, 0 before the first answer
  cursor, events,     \* what it has seen
  view, rows,         \* the log: its filter and the rows in it
  eventStart, traceStart, selected,
  counterSnapshot, inspectorSnapshot,
  poll                \* the poll under way

bridge == <<lab_epoch, sequence, kept, history>>
screen == <<view, rows, eventStart, traceStart, selected, counterSnapshot, inspectorSnapshot>>
consoleVars == <<bridge, page, cursor, events, screen, poll>>

Keep(n, s) == IF Len(s) <= n THEN s ELSE SubSeq(s, Len(s) - n + 1, Len(s))     \* slice(-n)

\* filter: the elements of s that are in S, in the order of s.
Filter(s, S) ==
  LET upto[n \in 0 .. Len(s)] == IF n = 0 THEN << >>
                                ELSE IF s[n] \in S THEN Append(upto[n - 1], s[n]) ELSE upto[n - 1]
  IN upto[Len(s)]

After(n)  == {e \in Nat : e > n}
UpTo(n)   == {e \in Nat : e <= n}

Waiting == [phase |-> "timer", after |-> 0, answer |-> << >>]
None == [epoch |-> 0, at |-> 0]      \* no event selected
Null == 0                            \* no snapshot; otherwise the epoch it shows

ConsoleInit ==
  /\ lab_epoch = 1 /\ sequence = 0 /\ kept = << >>
  /\ history = [e \in 1 .. Guests |-> << >>]
  /\ page = 0 /\ cursor = 0 /\ events = << >>
  /\ view = "console" /\ rows = << >>
  /\ eventStart = 0 /\ traceStart = 0 /\ selected = None
  /\ counterSnapshot = Null /\ inspectorSnapshot = Null
  /\ poll = Waiting

-----------------------------------------------------------------------------
(* The bridge.                                                             *)

\* Guest._event: every record is counted, the interesting ones are kept.
record(interesting) ==
  /\ sequence < MaxRecord[lab_epoch]
  /\ sequence' = sequence + 1
  /\ kept' = IF interesting THEN Keep(Window, Append(kept, sequence')) ELSE kept
  /\ history' = IF interesting THEN [history EXCEPT ![lab_epoch] = Append(@, sequence')] ELSE history
  /\ UNCHANGED <<lab_epoch, page, cursor, events, screen, poll>>

\* Laboratory.restart: a new Guest under a new epoch.
restart ==
  /\ lab_epoch < Guests
  /\ lab_epoch' = lab_epoch + 1 /\ sequence' = 0 /\ kept' = << >>
  /\ UNCHANGED <<history, page, cursor, events, screen, poll>>

\* do_GET /api/state?after=
answer_state ==
  /\ poll.phase = "sent"
  /\ \E both \in BOOLEAN :      \* both counters are among the processes
       poll' = [poll EXCEPT !.phase = "answered",
                     !.answer = [epoch |-> lab_epoch, sequence |-> sequence, both |-> both,
                                 events |-> Filter(kept, After(poll.after))]]
  /\ UNCHANGED <<bridge, page, cursor, events, screen>>

-----------------------------------------------------------------------------
(* renderEvents: the rows of the log follow the events.                    *)

Relevant(evs, start, v) ==
  Keep(RowLimit, Filter(evs, IF v = "fault" THEN After(start) \cap FaultEvents ELSE After(start)))

\* log.insertBefore(line, log.children[index]): the line leaves its place.
PlaceOf(s, line) == CHOOSE i \in DOMAIN s : s[i] = line
InsertBefore(s, line, next) ==
  LET rest == RemoveAt(s, PlaceOf(s, line))
  IN IF next = 0 THEN Append(rest, line) ELSE InsertAt(rest, PlaceOf(rest, next), line)
Placed(s, relevant, index) ==
  LET next == IF index \in DOMAIN s THEN s[index] ELSE 0
  IN IF next = relevant[index] THEN s ELSE InsertBefore(s, relevant[index], next)

\* Mutant: rows that come back are left at the end.
InOrderAsIs(s, relevant) == s

InOrder(s, relevant) ==
  LET place[p \in Seq(Nat) \X (1 .. Len(relevant))] == Placed(p[1], relevant, p[2])
      upto[n \in 0 .. Len(relevant)] == IF n = 0 THEN s ELSE place[<<upto[n - 1], n>>]
  IN upto[Len(relevant)]

\* New events get a row at the end, rows without an event go, then order.
RenderEvents(s, relevant) ==
  InOrder(Filter(s \o Filter(relevant, Nat \ ToSet(s)), ToSet(relevant)), relevant)

\* The log, which held the rows s, after a call of renderEvents.
Render(s, start, v) ==
  \E relevant \in {Relevant(events', start, v)} : rows' = RenderEvents(s, relevant)

-----------------------------------------------------------------------------
(* poll.                                                                   *)

poll_send ==
  /\ poll.phase = "timer"
  /\ poll' = [Waiting EXCEPT !.phase = "sent", !.after = cursor]
  /\ UNCHANGED <<bridge, page, cursor, events, screen>>

\* Mutant: a new guest's first answer is used although the cursor was old.
MustAskAgainNever(answer) == FALSE

\* "Any old cursor can hide the new guest's prefix, even if a suffix arrived."
MustAskAgain(answer) == answer.epoch # page /\ page # 0

\* Mutant: the marks of the cleared views survive the guest.
KeptMark(answer, mark) == mark

FreshMark(answer, mark) == IF answer.epoch # page THEN 0 ELSE mark

poll_receive ==
  /\ poll.phase = "answered"
  /\ LET answer == poll.answer
         new    == answer.epoch # page
         again  == MustAskAgain(answer)
         seen   == IF new THEN << >> ELSE events
         shown  == IF new THEN << >> ELSE rows
         start  == FreshMark(answer, eventStart)
     IN /\ page' = answer.epoch
        /\ events' = IF again THEN << >> ELSE Keep(Window, seen \o answer.events)
        /\ cursor' = IF again THEN 0 ELSE answer.sequence
        /\ eventStart' = start /\ traceStart' = FreshMark(answer, traceStart)
        /\ IF again THEN rows' = << >> ELSE Render(shown, start, view)
        /\ selected' = IF new THEN None ELSE selected
        /\ inspectorSnapshot' = IF new THEN Null ELSE inspectorSnapshot
        /\ counterSnapshot' =
             IF ~again /\ answer.both THEN answer.epoch
             ELSE IF new THEN Null ELSE counterSnapshot
  /\ poll' = Waiting
  /\ UNCHANGED <<bridge, view>>

\* Mutant: after an error no further poll is scheduled.
AfterErrorNothing == [Waiting EXCEPT !.phase = "lost"]

AfterError == Waiting

\* The bridge is not reachable or its answer is lost.
poll_fails ==
  /\ poll.phase \in {"sent", "answered"}
  /\ poll' = AfterError
  /\ UNCHANGED <<bridge, page, cursor, events, screen>>

-----------------------------------------------------------------------------
(* What the reader of the page clicks.                                     *)

clear_events ==
  /\ UNCHANGED events
  /\ eventStart' = cursor /\ selected' = None /\ Render(rows, cursor, view)
  /\ UNCHANGED <<bridge, page, cursor, view, traceStart, counterSnapshot, inspectorSnapshot, poll>>

clear_trace ==
  /\ traceStart' = cursor
  /\ UNCHANGED <<bridge, page, cursor, events, view, rows, eventStart, selected, counterSnapshot, inspectorSnapshot, poll>>

change_view(v) ==
  /\ UNCHANGED events
  /\ view' = v /\ Render(rows, eventStart, v)
  /\ selected' = IF v = "fault" /\ selected.at \notin FaultEvents THEN None ELSE selected
  /\ UNCHANGED <<bridge, page, cursor, eventStart, traceStart, counterSnapshot, inspectorSnapshot, poll>>

select_event(e) ==
  /\ selected' = [epoch |-> page, at |-> e]
  /\ UNCHANGED <<bridge, page, cursor, events, view, rows, eventStart, traceStart, counterSnapshot, inspectorSnapshot, poll>>

\* "latest": the log follows the newest event again.
follow_events ==
  /\ selected # None /\ selected' = None
  /\ UNCHANGED <<bridge, page, cursor, events, view, rows, eventStart, traceStart, counterSnapshot, inspectorSnapshot, poll>>

counter_snapshot ==
  /\ counterSnapshot # Null
  /\ inspectorSnapshot' = IF inspectorSnapshot # Null THEN Null ELSE counterSnapshot
  /\ traceStart' = 0
  /\ UNCHANGED <<bridge, page, cursor, events, view, rows, eventStart, selected, counterSnapshot, poll>>

ConsoleNext ==
  \/ \E interesting \in BOOLEAN : record(interesting)
  \/ restart \/ answer_state
  \/ poll_send \/ poll_receive \/ poll_fails
  \/ clear_events \/ clear_trace \/ follow_events \/ counter_snapshot
  \/ \E v \in {"console", "fault"} : change_view(v)
  \/ \E e \in Range(rows) : select_event(e)

ConsoleSpec == ConsoleInit /\ [][ConsoleNext]_consoleVars

\* Timers fire, and a bridge that can be reached again and again answers.
ConsoleFairSpec == /\ ConsoleSpec /\ WF_consoleVars(poll_send)
                   /\ SF_consoleVars(answer_state) /\ SF_consoleVars(poll_receive)

-----------------------------------------------------------------------------
ConsoleTypeOK ==
  /\ lab_epoch \in 1 .. Guests /\ sequence \in Nat
  /\ page \in 0 .. Guests /\ cursor \in Nat
  /\ \A s \in {kept, events, rows} : s \in Seq(Nat)
  /\ view \in {"console", "fault"}
  /\ eventStart \in Nat /\ traceStart \in Nat
  /\ poll.phase \in {"timer", "sent", "answered"}

\* The page has exactly the last Window events of the guest it shows, up to
\* its cursor, in order: none missing, none twice, none of another guest,
\* whenever the guest is restarted and whichever answers are lost.
EventsAreTheWindow ==
  events = IF page = 0 THEN << >>
           ELSE Keep(Window, Filter(history[page], UpTo(cursor)))

\* The log shows the last events that pass its filter, in order of time,
\* however rows have come and gone since.
RowsFollowEvents == rows = Relevant(events, eventStart, view)

\* A restart leaves nothing of the old guest behind: no selected event, no
\* snapshot, and no mark that would hide the new guest's events.
NothingFromAnOldGuest ==
  /\ selected # None => selected.epoch = page
  /\ {counterSnapshot, inspectorSnapshot} \subseteq {Null, page}
  /\ eventStart <= cursor /\ traceStart <= cursor

\* The page catches up: when the guest falls silent, the page comes to show
\* that guest up to its last record, and stays there.
CatchesUp == <>[](page = lab_epoch /\ cursor = sequence)
=============================================================================
