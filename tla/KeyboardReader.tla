---------------------------- MODULE KeyboardReader ----------------------------
(***************************************************************************)
(* The Bluetooth keyboard of keyboard.py: a reader thread drains the event *)
(* device into a bounded queue, the loop of main.py takes the keys, looks  *)
(* every few seconds whether the device is still there and reconnects.     *)
(* The keyboard may drop its connection at any time and come back under    *)
(* the same path or another one.                                           *)
(*                                                                         *)
(* Abstractions.  The two modifier flags are alike: one, alt, stands for   *)
(* both.  A token is a key with the flag as it was; its number counts the  *)
(* tokens.  The reader, which looks at its stop flag every 50 ms, is taken *)
(* to leave before the join for it times out after 1 s.  The kernel gives  *)
(* an open file every event of its connection, and drops those not read    *)
(* when the connection ends.                                               *)
(***************************************************************************)
EXTENDS Naturals, Sequences

CONSTANTS
  Path,      \* the paths /dev/input/eventN
  NoPath,    \* no path
  Code,      \* key codes other than the modifier's
  QueueMax,  \* QUEUE_MAX
  Tries,     \* scans of find_m4 and of reconnect before they give up
  MaxPlug,   \* bound: connections of the keyboard
  MaxEvent   \* bound: events of the keyboard

Alt == "alt"

ASSUME QueueAssumption ==
  /\ QueueMax \in Nat \ {0}
  /\ Tries \in Nat \ {0}
  /\ MaxPlug \in Nat /\ MaxEvent \in Nat
  /\ NoPath \notin Path
  /\ Alt \notin Code

Event == [code : Code \cup {Alt}, down : BOOLEAN, held : BOOLEAN]
Token == [n : Nat \ {0}, alt : BOOLEAN, held : BOOLEAN]
NoToken == [n |-> 0, alt |-> FALSE, held |-> FALSE]

VARIABLES
  where,    \* the path of the connected keyboard
  plug,     \* connections so far; the last one is the present one
  held,     \* the modifier key is held down
  typed,    \* events so far
  events,   \* what the kernel holds for the open file
  fd,       \* the connection self.fd was opened on, 0 for None
  path,     \* self.path
  alt,      \* self.alt
  last,     \* _last_keycode
  queue,    \* _queue
  dropped,  \* _dropped
  stop,     \* _reader_stop
  reader,   \* place of the reader thread
  batch,    \* events read and not yet handled
  token,    \* a token on its way into the queue
  main,     \* place of the main thread
  tries,    \* scans left
  pushed,   \* history: tokens put into the queue
  popped,   \* history: tokens taken from it
  stale     \* history: an event of the modifier never reached the reader

keyboard == <<where, plug, held, typed>>
device == <<fd, path, stop>>
reading == <<alt, last, batch, token>>
keys == <<queue, dropped, pushed, popped>>
vars == <<keyboard, device, reading, keys, events, reader, main, tries, stale>>

\* "gone" is a thread that has ended.
ReaderPlace == {"none", "poll", "handle", "push", "gone"}
MainPlace == {"loop", "closing", "scan"}

TypeOK ==
  /\ where \in Path \cup {NoPath}
  /\ plug \in 0..MaxPlug
  /\ held \in BOOLEAN
  /\ typed \in 0..MaxEvent
  /\ events \in Seq(Event)
  /\ fd \in 0..plug
  /\ path \in Path \cup {NoPath}
  /\ alt \in BOOLEAN
  /\ last \in Code \cup {NoPath}
  /\ queue \in Seq(Token) /\ Len(queue) <= QueueMax
  /\ dropped \in Nat
  /\ stop \in BOOLEAN
  /\ reader \in ReaderPlace
  /\ batch \in Seq(Event)
  /\ token \in Token \cup {NoToken}
  /\ main \in MainPlace
  /\ tries \in 0..Tries
  /\ pushed \in Nat
  /\ popped \in Nat
  /\ stale \in BOOLEAN

\* main() starts with find_m4.
Init ==
  /\ where = NoPath /\ plug = 0 /\ held = FALSE /\ typed = 0
  /\ events = <<>>
  /\ fd = 0 /\ path = NoPath /\ stop = FALSE
  /\ alt = FALSE /\ last = NoPath
  /\ queue = <<>> /\ dropped = 0
  /\ reader = "none" /\ batch = <<>> /\ token = NoToken
  /\ main = "scan" /\ tries = Tries
  /\ pushed = 0 /\ popped = 0
  /\ stale = FALSE

-----------------------------------------------------------------------------
(* The keyboard and the kernel. *)

Connected == where # NoPath
Attached == Connected /\ fd = plug

Appear(p) ==
  /\ ~Connected
  /\ plug < MaxPlug
  /\ where' = p
  /\ plug' = plug + 1
  /\ UNCHANGED <<held, typed, device, reading, keys, events, reader, main, tries,
                 stale>>

Vanish ==
  /\ Connected
  /\ where' = NoPath
  /\ held' = FALSE
  /\ events' = <<>>
  /\ stale' = (stale \/ held \/ \E i \in 1..Len(events) : events[i].code = Alt)
  /\ UNCHANGED <<plug, typed, device, reading, keys, reader, main, tries>>

\* A press, a repeat or a release reaches the open file, if there is one.
Emit(event) ==
  /\ Connected
  /\ typed < MaxEvent
  /\ typed' = typed + 1
  /\ events' = IF fd = plug THEN Append(events, event) ELSE events
  /\ stale' = (stale \/ (event.code = Alt /\ fd # plug))
  /\ UNCHANGED <<where, plug, device, reading, keys, reader, main, tries>>

TypeKey(code, down) ==
  /\ Emit([code |-> code, down |-> down, held |-> held])
  /\ UNCHANGED held

PressAlt(down) ==
  /\ held' = down
  /\ Emit([code |-> Alt, down |-> down, held |-> down])

-----------------------------------------------------------------------------
(* The reader thread. *)

\* _reader_loop: poll() is ready and os.read returns what there is.  The stop flag
\* is looked at before poll() only, and may go up during it.
ReadBatch ==
  /\ reader = "poll"
  /\ Attached /\ events # <<>>
  /\ batch' = events
  /\ events' = <<>>
  /\ reader' = "handle"
  /\ UNCHANGED <<keyboard, device, alt, last, token, keys, main, tries, stale>>

\* The loop is left: the stop flag is up, or the read fails.
ReaderLeaves ==
  /\ reader = "poll"
  /\ stop \/ ~Attached
  /\ reader' = "gone"
  /\ UNCHANGED <<keyboard, device, reading, keys, events, main, tries, stale>>

\* After an event the reader goes on with the batch or back to poll().
NextEvent ==
  /\ batch' = Tail(batch)
  /\ reader' = IF Len(batch) = 1 THEN "poll" ELSE "handle"

Handles == reader = "handle"
event == Head(batch)

\* Mutated form: only presses of the modifier are seen.
HandleModifierPress ==
  /\ Handles /\ event.code = Alt
  /\ alt' = (alt \/ event.down)
  /\ stale' = (stale /\ ~Attached)
  /\ NextEvent
  /\ UNCHANGED <<keyboard, device, last, token, keys, events, main, tries>>

HandleModifier ==
  /\ Handles /\ event.code = Alt
  /\ alt' = event.down
  /\ stale' = (stale /\ ~Attached)
  /\ NextEvent
  /\ UNCHANGED <<keyboard, device, last, token, keys, events, main, tries>>

\* A release, a bounce of the last key, or a code with no token.
HandleIgnored ==
  /\ Handles /\ event.code # Alt
  /\ \/ ~event.down /\ UNCHANGED last
     \/ event.down /\ event.code = last /\ UNCHANGED last
     \/ event.down /\ last' = event.code
  /\ NextEvent
  /\ UNCHANGED <<keyboard, device, alt, token, keys, events, main, tries, stale>>

\* Mutated form: the overflow is counted one key late.
IsFullLate == Len(queue) > QueueMax

IsFull == Len(queue) >= QueueMax

\* _decode, and the count of overflows, which is taken before the append.
HandleKey ==
  /\ Handles /\ event.code # Alt /\ event.down
  /\ token' = [n |-> pushed + 1, alt |-> alt, held |-> event.held]
  /\ last' = event.code
  /\ dropped' = IF IsFull THEN dropped + 1 ELSE dropped
  /\ reader' = "push"
  /\ UNCHANGED <<keyboard, device, alt, batch, queue, pushed, popped, events,
                 main, tries, stale>>

\* Mutated form: a full queue refuses the new key.
AppendedNewest(q, t) == IF Len(q) >= QueueMax THEN q ELSE Append(q, t)

\* Mutated form: a deque without maxlen.
AppendedUnbounded(q, t) == Append(q, t)

\* A deque with maxlen drops at the other end.
Appended(q, t) == IF Len(q) >= QueueMax THEN Append(Tail(q), t) ELSE Append(q, t)

PushKey ==
  /\ reader = "push"
  /\ queue' = Appended(queue, token)
  /\ pushed' = pushed + 1
  /\ token' = NoToken
  /\ NextEvent
  /\ UNCHANGED <<keyboard, device, alt, last, dropped, popped, events, main,
                 tries, stale>>

-----------------------------------------------------------------------------
(* The main thread. *)

\* poll()
TakeKey ==
  /\ main = "loop"
  /\ queue # <<>>
  /\ queue' = Tail(queue)
  /\ popped' = popped + 1
  /\ UNCHANGED <<keyboard, device, reading, dropped, pushed, events, reader,
                 main, tries, stale>>

\* Mutated form: any device will do.
IsAliveAny == fd # 0 /\ path # NoPath /\ Connected

\* is_alive(): does the path exist?
IsAlive == fd # 0 /\ path # NoPath /\ path = where

\* The check in the loop; reconnect() begins with close(), whose _stop_reader
\* waits for the thread.
CheckAlive ==
  /\ main = "loop"
  /\ ~IsAlive
  /\ stop' = TRUE
  /\ main' = "closing"
  /\ UNCHANGED <<keyboard, fd, path, reading, keys, events, reader, tries, stale>>

Closed ==
  /\ main = "closing"
  /\ reader \in {"none", "gone"}
  /\ reader' = "none"
  /\ fd' = 0 /\ path' = NoPath
  /\ main' = "scan"
  /\ tries' = Tries
  /\ UNCHANGED <<keyboard, stop, reading, keys, events, stale>>

\* Mutated form: the stop flag stays up.
ScanFindsStopped ==
  /\ main = "scan"
  /\ Connected
  /\ fd' = plug /\ path' = where
  /\ reader' = "poll"
  /\ main' = "loop"
  /\ tries' = 0
  /\ UNCHANGED <<keyboard, stop, reading, keys, events, stale>>

\* Mutated form: only one path is looked at.
ScanFindsOnePath ==
  /\ main = "scan"
  /\ where = CHOOSE p \in Path : TRUE
  /\ fd' = plug /\ path' = where
  /\ stop' = FALSE
  /\ reader' = "poll"
  /\ main' = "loop"
  /\ tries' = 0
  /\ UNCHANGED <<keyboard, reading, keys, events, stale>>

\* The device is found and opened, and _start_reader starts a thread.
ScanFinds ==
  /\ main = "scan"
  /\ Connected
  /\ fd' = plug /\ path' = where
  /\ stop' = FALSE
  /\ reader' = "poll"
  /\ main' = "loop"
  /\ tries' = 0
  /\ UNCHANGED <<keyboard, reading, keys, events, stale>>

\* There is no keyboard, or it cannot be opened yet.
ScanFails ==
  /\ main = "scan"
  /\ tries' = tries - 1
  /\ main' = IF tries = 1 THEN "loop" ELSE "scan"
  /\ UNCHANGED <<keyboard, device, reading, keys, events, reader, stale>>

Keyboard ==
  \/ \E p \in Path : Appear(p)
  \/ Vanish
  \/ \E code \in Code, down \in BOOLEAN : TypeKey(code, down)
  \/ \E down \in BOOLEAN : PressAlt(down)

Reader ==
  \/ ReadBatch \/ ReaderLeaves
  \/ HandleModifier \/ HandleIgnored \/ HandleKey \/ PushKey

Main == TakeKey \/ CheckAlive \/ Closed \/ ScanFinds \/ ScanFails

Next == Keyboard \/ Reader \/ Main

Spec == Init /\ [][Next]_vars

\* Both threads are scheduled; the check runs every KB_CHECK_INTERVAL; a
\* keyboard that stays can be opened some time.
FairSpec ==
  /\ Spec
  /\ WF_vars(Reader)
  /\ WF_vars(TakeKey) /\ WF_vars(CheckAlive) /\ WF_vars(Closed)
  /\ WF_vars(ScanFails) /\ SF_vars(ScanFinds)

-----------------------------------------------------------------------------
(* Properties. *)

\* The queue holds the newest keys, in the order of their decoding and without
\* a gap: what an overflow costs is older than all that waits, and reconnects
\* do not disturb the order (_handle_raw, poll).
QueueIsNewest ==
  \A i \in 1..Len(queue) : queue[i].n = pushed - Len(queue) + i

\* Every key that was pushed and neither waits nor was taken has been counted,
\* although the length is read before the append and the loop takes keys in
\* between (_handle_raw, dropped).
LossIsCounted == pushed - popped - Len(queue) <= dropped

\* A key is decoded with the modifier as it was held when the key went down,
\* unless an event of the modifier was lost with a connection and none has
\* come since (_handle_raw, _decode).
ModifierIsRight == token # NoToken => token.alt = token.held \/ stale

\* The only readers are those of the present file; a new thread starts with the
\* stop flag down and the old one is gone (_start_reader, _stop_reader, close).
ReaderHasFile ==
  /\ reader \in {"poll", "handle", "push"} => fd # 0
  /\ reader = "poll" /\ stop => main = "closing"

\* Once the program knows that the keyboard is gone it has it again when it
\* stays connected, with a thread that reads it (the check in main.py, reconnect,
\* _start_reader).
FoundAgain ==
  fd = 0 ~> (Attached /\ reader \in {"poll", "handle", "push"}) \/ ~Connected

\* A lost connection is noticed, unless the keyboard is back under its old path
\* at the next check: then is_alive goes on answering True with a reader that
\* has ended, although "if the keyboard disconnects ... this returns False"
\* (is_alive, keyboard.py:341-342; _reader_loop).
LossIsNoticed == fd # 0 /\ ~Attached ~> fd = 0 \/ where = path
=============================================================================
