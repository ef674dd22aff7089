# KidPager in TLA+

KidPager is a LoRa text messenger for children on a Raspberry Pi: a Bluetooth
keyboard, an SX1262 radio, an E-Ink panel and a buzzer. These modules model its
program (Python, `src/`), check it with TLC and prove some of it with TLAPS.
Paths below are relative to `src/`.

## The system

| Part | State | Operations | Talks to |
| --- | --- | --- | --- |
| Main loop, `main.py` | last action of a key burst, `eink_pending`, timers | drain keys, act, debounce, keyboard check, receive, ack timeouts, flush, auto-sleep; shutdown in `finally` | calls every other part, in one thread |
| Screens and history, `ui.py` | screen, input line, scroll, messages, `_dirty` | key handlers, `add_message`, `mark_delivered`, `check_timeouts`, `flush_history`, redraws | config, radio (retries), display |
| Radio, `lora.py` | the chip: mode, IRQ flags, one receive buffer | `send`, `send_ack`, `receive`; they block | other pagers over the air |
| Display, `display_eink.py` | pending frame, pending full refresh, partial counter | draw calls submit a frame, a worker thread renders it; `cleanup`, `sleep` | main thread, worker thread, panel |
| Keyboard, `keyboard.py` | queue, modifiers, reader thread, device | read, decode, queue, reconnect | reader thread, main loop |
| Buzzer, `buzzer.py` | silent flag, tone lock, PWM | beeps as asyncio tasks, `set_silent`, `cleanup` | main loop |
| Wi-Fi, `power.py`, `kidpager-power.sh` | rfkill state, deploy window | toggle, boot policy, window timer | main loop, systemd |
| Configuration, `config.py` | name, channel, silent; `config.json` | load, atomic save | key handlers |

What is hard here:

- *Loss and restarts.* A packet may be lost on the air, overwritten by the next
  one before it is read, or dropped because the pager started to transmit. Any
  pager may stop at any moment, with its last changes unsaved.
- *Retries against late acks.* The ack and the next attempt pass each other; the
  receiver must recognise the copy, the sender must not change its verdict.
- *Bursts.* While the loop blocks (a transmission takes up to 6 s, a Wi-Fi toggle
  up to 10 s) keys pile up. One drain handles them all, and the loop then acts
  on the last action only.
- *Copies of state.* The buzzer's silent flag, the W badge and the picture on a
  slow panel are copies that someone has to refresh.
- *Threads.* The display worker and the keyboard reader run beside the loop.

What makes each part correct: the link recognises the copies of a message it has
shown lately (a copy that comes after `DedupWindow` newer entries is shown again, as in
the code), marks only real deliveries, stops after `MAX_RETRIES`, settles every message and
forgets no change; the screens lose no edit, keep the picture and the copies true and
do what was confirmed; the display shows the latest frame, with the full refresh
it asked for; the keyboard passes keys on in order and survives reconnects; the
buzzer plays one tone at a time and, once told to be silent, starts no more than the
tone each beep has in flight; the radio comes back to reception.

## Modules

| Module | Models | How |
| --- | --- | --- |
| `Delivery` | what the link promises the users | abstract: messages a pager shows as waiting, delivered, failed or received; no packets, buffers or files |
| `PagerLink` | sending, acks, retries, duplicates, history | a set of pagers, each with a program counter through the loop of `main.py`; the air is a receive buffer per pager; implements `Delivery` |
| `PagerUI` | screens, key handlers, dispatch, redraws, sleep, configuration, Wi-Fi and deploy window | one pager; a drain of any length, then one action per phase of the loop |
| `LatestFrame` | what the display promises | abstract: a newest frame, a shown frame |
| `EInkDisplay` | frame slot, worker thread, rendering, cleanup and sleep of the panel; implements `LatestFrame` | main thread and worker, each with a place; one action per step made without a lock |
| `KeyboardReader` | event device, reader thread, key queue, health check, reconnect | kernel, reader and main thread |
| `Buzzer` | beeps as tasks, tone lock, silent mode, cleanup | one action per stretch between two awaits |
| `ReceiveBuffer` | what `receive` promises the loop | abstract: room for one packet |
| `LoRaRadio` | the SPI commands of the radio driver against the chip; implements `ReceiveBuffer` | one action per command |

`MCPagerLink` and `MCPagerUI` add the symmetry for TLC. `PagerLinkProofs`,
`PagerLinkHistoryProofs`, `PagerLinkDeliveryProofs`, `PagerUIProofs`, `EInkDisplayProofs`, `KeyboardReaderProofs`, `BuzzerProofs` and `LoRaRadioProofs`
hold the theorems.

How they fit together. `PagerLink` takes the keys of the user and the screens as
choices; `PagerUI` takes the link as "the history changed". A `Redraw` of
`PagerUI` is a `Draw` of `EInkDisplay`: the picture that `PagerUI` calls drawn is
the newest frame there, on the panel a little later. The queue that `PagerUI`
drains is the queue of `KeyboardReader`. A `receive()` of `PagerLink` is one step,
in `LoRaRadio` four commands, between which packets come in. What the loop sees of
them is `ReceiveBuffer`: a buffer with room for one packet, whose packet may stay
after it was found and be found once more, as it comes in while the flags of another are
cleared. `PagerLink` takes the radio for this buffer (`buffer[p]`, `AfterReading`),
`LoRaRadio` is shown to implement it. A message read again is acknowledged again, and
shown once.

### PagerLink

`pc[p]` is the place in the loop. A handler that blocks in a transmission is two
actions: `SendByRadio` then `AddOutgoing`, `ReceiveMessage` (the ack goes out)
then `StoreIncoming`, and one `Resend` per overdue message in the timeout check,
because the other pagers run on meanwhile and may answer in between. The check
fixes the overdue messages first (`BeginCheck`), as the code reads the clock
once. `Transmit` says what a transmission does: the own unread packet is gone,
any subset of the listeners gets the packet, replacing what they had not read. If
the chip refuses the first command, `_tx` swallows the exception and nothing is
sent. A pager that transmits at the same time simply does not hear.
`AfterReading` leaves the packet in the buffer or not; `_tx` clears the flag, so the
copy of a message only survives an ack that could not be sent.
`FlushHistory` writes the file, `PowerCut` drops the memory, `Shutdown` runs the
`finally` block, `Boot` loads the file and fails what was pending.

Abstractions: a message is its id, taken as fresh (in the code the first 8 digits
of an md5 over sender, text, time and a counter); timers are choices; a
retransmission repeats text and sender unchanged. A write of the file is whole or
not done. `attempts` and `accepted` are history variables: no action reads them.
The channel a stopped pager comes back with is any channel, since edits may or
may not have been saved. A packet with a bad CRC is always dropped (`Garble`); the
race in which `receive` returns such a packet, and its damaged text or id would reach
the link, is in `LoRaRadio` (`raced`) and left out here.

`Delivery` is what the users may rely on: only what was sent arrives, never at
its sender (`Accept`); what is acknowledged is shown next, or lost in a stop
(`Show`, `Stop`); a message turns to delivered only when another pager has it, to
failed only after all attempts (`Confirm`, `GiveUp`); older messages may go, nothing
is made up (`Shows`), also not after a restart (`Credible`). `PagerLink` implements it
with `Sent`, `Received` and `Arriving` read off the histories: a message between its
transmission and its entry counts as waiting, a packet between its ack and its entry
as arriving. Losses, overwritten and repeated packets, acks, the timeout check and
the file are stutters or disappear in these steps.

### PagerUI

`Key` has one action per handler and outcome; `InDrain` is what they share.
`View` is what `eink_refresh` passes to the draw method of the current screen, and
`Redraw` draws it, by a full refresh where the code forces one. The one-shot flag
`_force_next_full` and `_last_rendered_state` have no variables: a step that sets
the flag also draws, and the last rendered screen is the screen of `panel`.
`DoSend` to `DoNothing` are the branches on the last action; `SettleDraws` is the
debounce; `ReceiveNew` and `StatusChange` are what the radio and the timeout
check do to the screen. `DoReboot`, `PowerScript`, `WindowOpens` and
`WindowCloses` are the way from a reboot in the menu through the deploy window, with
`flag` the file that asks for it: written by `DoReboot`, deleted by the next
`PowerScript`, perhaps lost in a power cut. When `systemctl reboot` cannot be started the
program has `ended` with the flag on the disk, and systemd, which restarts a failed
program only, leaves it so.
`Fatal` is an exception that leaves the loop, `Killed` the SIGTERM of
`systemctl restart`, which the program does not catch.

Abstractions: a character is a letter or a space, a name its length, the history
its length, a version that a new message replaces and one that a change of a status
mark replaces. The steps of the link are in
`PagerLink`; here they only change the history. The queue holds anything, so a
drain may handle any keys.

### EInkDisplay

`main` is the place of the main thread: `Draw` is `_submit` under `_lock`,
`SetWake` its end; `SetStop`, `BeginJoin`, `Joined` or `JoinExpires`, `Sleep` and
`Exit` are the shutdown (`cleanup`, then `sleep`). `worker` goes through `_worker`:
`TestStop`, `Wakes`, `ClearWake`, `TakeFrame` or `NothingToTake`, `BeginRender`,
and an end of the render. `slot` is `_pending` with its sticky `_pending_force_full`.
`NeedsFull` is the choice of `_render` between full and partial refresh;
`InitFails`, `FullFails` and `PartialFails` are refreshes that raise. `Killed` stops
the process anywhere, `Start` is the next `__init__`.

Abstractions: a frame is its number. Time only counts during the join: seconds of
finished renders against the timeout. `owed` and `late` are history variables.

`LatestFrame` is what a caller may rely on: frames are skipped, never shown out of
order, and the newest one comes while the display is open. `EInkDisplay`
implements it with `due` as the newest frame that waits, is in the worker's hands
or is shown. A frame is given up only by `Lose`, which counts a failed refresh: the
counter of the promise is the counter of refreshes that raised, so that no step drops
a frame silently.

### KeyboardReader

`Appear`, `Vanish`, `TypeKey` and `PressAlt` are the keyboard and the kernel, which
keeps the events of a connection for the file opened on it. `ReadBatch` to `PushKey`
are the reader: a batch, then event by event, with the count of overflows before
the append. `TakeKey`, `CheckAlive`, `Closed`, `ScanFinds` and `ScanFails` are the
main thread: `poll`, the check every `KB_CHECK_INTERVAL`, `close` with
`_stop_reader`, and the scans of `find_m4` and `reconnect`.

Abstractions: one flag for both modifiers; which character a code stands for is
left out. The reader looks at its flag before each `poll` of 50 ms, not before the read,
and is taken to end before the 1 s join for it times out.

### Buzzer

A task is a number of tones. `TakeLock`, `WaitForLock` and `LockPassedOn` are the
entry into `async with self._tone_lock` (asyncio wakes waiters in their order), and
each sets the PWM or swallows the exception of a daemon that is gone; `EndTone` turns
it off. `SkipTone` is silent mode; `late` counts the tones of a beep that begin in it.
`Cleanup` is the shutdown, `Killed` a stop without it, which leaves the daemon with the
tone on, and `Start` the next start, which turns it off.

### LoRaRadio

`SeesIrq` to `ReadBuffer` are `receive`: the pin, the flags, their clearing, the place
of the packet, the packet. `BeginSend` to `SetRx` are `_tx` and the return to
reception. `Arrive` may happen between any two commands while the chip listens,
`TxEnds` while it sends. `TxRaises` and `Raises` are SPI or BUSY errors in and outside
the `try` of `_tx`; `RetryRaises` is one on the way back to reception that
`check_timeouts` swallows (`ui.py:366-369`), so that the loop runs on with the chip as it
is, which `unheard` remembers until the next `SetRx`. A packet is its number; reception and transmission share one
buffer, so `own` says whether the pager's own bytes lie in it.

`LoRaRadio` implements `ReceiveBuffer` with `Pending`: the newest packet while its flag
is up without an error, or between the flags being read and `GetRxBufferStatus`, which
is the abstract `Fetch`: which packet is returned is decided there, though the next one
may still overwrite its bytes (`raced`).
`ReadBuffer` is `Return`, an exception or a kill in between `Abandon`.

## What TLC checks

| Run | Bounds | Shows |
| --- | --- | --- |
| `link_core` | 2 pagers, 1 channel, 2 messages, 1 retry, history 3, window 1, 1 stop | `DuplicatesFarApart`, `AttemptsBounded`, `ShownRetriesAreReal`, `OkMeansAccepted`, `CleanMeansSaved`, `VerdictsAreFinal`, `FailsOnlyAfterAllAttempts` |
| `link_live` | 2 pagers, 2 channels, radios that may fail, 1 message, 1 retry, history 1, 1 stop | the refinement `KeepsPromise` and `EverySendSettles`, with channels edited between attempts and no radio |
| `ui_core` | 2 channels, history 2, line of 1 character, one name length | `EditsAreSaved`, `ViewInHistory`, `PanelIsCurrent`, `NoGhosts` |
| `ui_reboot`, `ui_silent`, `ui_session`, `ui_typing` | as `ui_core` | each refutes one statement of the documentation, see below |
| `eink_core` | 5 frames and 2 failures per start, every 3rd refresh full, 2 s and 1 s per refresh, join 3 s | `NewerFramesWait`, `ForceSticks`, `NoLostWakeup`, `SleepIsLast`, `LastFrameDrained`, and the refinement `ShowsLatestFrame` |
| `kb_core` | 2 paths, 2 connections, 2 codes and the modifier, 4 events, queue of 2, 2 scans | `QueueIsNewest`, `LossIsCounted`, `ModifierIsRight`, `ReaderHasFile`, `FoundAgain`, `LossIsNoticed` |
| `buzzer_core` | 3 beeps of 1 or 2 tones, 1 fault | `OneTone`, `OneLateTone`, `PlayedInOrder`, `BeepsEnd` |
| `radio_core` | 4 packets | `ReadsAreTrue`, `ListensOrRetryFailed`, `TransmissionsEndListening`, and the refinement `ActsAsBuffer` |
| `radio_retry` | 1 packet | refutes a comment of the code, see below |

Why the bounds are enough. With two messages and a window of one entry a copy can
return after the window has moved on, so the duplicate search is needed at its
edge; in a history of 3 a copy fits beside two other entries. `link_live` has a history
of one entry, which every new entry trims. One retry tells first, repeated and last
attempts apart. One stop puts a restart between any two steps of a retry. No run trims a
message while it waits for its ack, which takes two messages in a history of one; the
theorems are for any number of messages and histories of any length. In `ui_core` two
messages make one scroll step, and a second entry trims the history; edits of the channel
stand for edits of the configuration (with a name of one more character the state space
triples and nothing new happens: the name editor is the same handler shape).

In `eink_core` five frames reach a full refresh by count, one more after it, a
frame that replaces a waiting one and one submitted during a render; two full
refreshes take longer than the join, so it expires with a frame still in the slot.
In `kb_core` four events overflow a queue of two while a key is on its way, and can
lose a modifier release with the first connection; two paths let the keyboard come
back under the same or the other one. In `buzzer_core` three tasks make two waiters,
whose order matters. In `radio_core` three packets suffice for one read, one read
twice and one overwritten; the fourth comes after a restart. Except for liveness
the theorems below hold without any of these bounds.

The bounds on stops, messages, frames, failures, connections, events, beeps and
packets only end the choice of more. No run needs a deadlock exception.

### Fairness

- `PagerLink`: weak fairness of a pager's step, since the loop has no wait but
  `asyncio.sleep(0.01)` and every blocking call has a timeout; strong fairness of a
  check that finds a waiting message overdue, since the clock goes on and the check
  runs every `ACK_CHECK_INTERVAL`. Nothing is assumed of the air, the users, the disk or
  stopped pagers.
- `EInkDisplay`: weak fairness of the worker and of the main thread inside a call:
  both are scheduled, and every wait for the panel's BUSY pin is taken to end.
- `KeyboardReader`: weak fairness of the reader and of each step of the main
  thread; strong fairness of a scan that succeeds, as a keyboard that stays
  connected can be opened at some of the checks.
- `Buzzer`: weak fairness of each task: the event loop goes round.
- `LoRaRadio`: weak fairness of the driver inside a call: every command, and the
  wait for the end of a transmission, has a timeout. Nothing is assumed of the chip.

### Where the documentation is refuted

- `ui_reboot`: with "1" and Alt+W in one burst the confirmed reboot is forgotten,
  and the screen "rebooting" (`ui.py:26-27`) stays, deaf to all keys but Alt+W.
- `ui_silent`: ENTER on Silent and another action in the same burst leaves the
  buzzer as it was, against `CHANGELOG.md:240-243`.
- `ui_session`: after a reboot from the menu the program may read the Wi-Fi state
  before the deploy window opens, and then falls asleep in the session, against
  `README.md:94-95`.
- `ui_typing`: a character typed in the burst that wakes the pager is not drawn
  until something else is, against `main.py:22-24`.
- `radio_retry`: an exception on the way back to reception in a retry is swallowed, and
  the pager is deaf until it transmits again, against `lora.py:413` (the callers of
  `_tx` set the chip back to reception). `ListensOrRetryFailed` shows that this is the
  only way.

Three more disagreements have no run of their own:

- The property `LastFrameDrained` excepts `late`: if `_stop` is set just when the worker
  is about to test it, a waiting frame is lost, against "guaranteed to hit the panel"
  (`main.py:267-270`).
- The property `LossIsNoticed` excepts a keyboard that vanishes and is back under its old
  path by the next check: `is_alive` goes on answering True while the reader has ended,
  against `keyboard.py:341-342`. It shows that this is the only way.
- Alt+W on the sleep screen does not wake the pager, as `handle_key` serves it before it
  looks at the screen (`ui.py:183-185`), against `README.md:90-91`; `PagerUI` models what
  the code does.

## What is proved

For all values of the constants, from the assumptions stated in the modules:
limits are natural numbers, some of them positive; the empty buffer is not a packet,
no path is not a path, no beep is not a beep, a key code is not the modifier;
one refresh takes no longer than the join waits (`OneRenderFits`). Each component
has a `TypesHold`: `Spec => []TypeOK`. Every invariant and action property of the
passing runs is a theorem:

*Link* (`PagerLinkProofs`, `PagerLinkHistoryProofs`, `PagerLinkDeliveryProofs`)

- `TypesHold` needs `DueAreWaiting`: a position the check still visits must be a
  position of the history, or the update of an entry would leave the type of `messages`.
- `DuplicatesHold`: `DuplicatesFarApart`. Each history that replaces another is a
  stretch of the old one (trimming, saving, loading: lemmas `LastNProperties`,
  `ToDiskPart`, `FromDiskPart`), the same with one status changed, or a stretch
  with a new entry that `SeenLately` did not find (`FarApartAdded`).
- `AttemptsHold`, `RetriesHold`: `AttemptsBounded`, `ShownRetriesAreReal`. Not
  inductive alone: two entries waiting for the same id would be counted on one
  `attempts`. `AttemptsInv` adds `OneSender` (no two waiting entries and no message
  on its way into the history share an id) and `IdsGivenOut`.
- `MarksHold`: `OkMeansAccepted`. `MarksInv` follows the ack back through the air to
  the pager that accepted the message.
- `SavedHolds`: `CleanMeansSaved`. `SavedInv` needs that the saved file is a fixed
  point of `ToDisk`, since a boot writes nothing back.
- `VerdictsHold`, `FailuresHold`: `VerdictsAreFinal`, `FailsOnlyAfterAllAttempts`.
  `SentInv`: the ids of a pager's own messages are distinct, in memory and on disk,
  so that an entry can be followed from one history to the next.
- `PromiseHolds`: `KeepsPromise`, the refinement of `Delivery`: `Spec => Promise!Spec`.
  `OwnIn`, `ForeignIn` and `StatusFits` say what each new history shows of the old one,
  for every way a history changes. `LinkInv` adds what the abstract guards ask for:
  no message has two authors (`Mine`), and what a pager shows as received, has
  acknowledged or can still receive was transmitted (`Tried`), and not by itself
  (`LinkOf`). One lemma per action then gives its abstract step.
- `TruthHolds`: `Promise!Truthful`, what the users may conclude from `Delivery`; it
  follows from `LinkInv` and `MarksInv`.

*Screens* (`PagerUIProofs`)

- `EditsHold`, `PictureHolds`: `EditsAreSaved`, `PanelIsCurrent`; inductive as they
  stand.
- `ViewHolds`: `ViewInHistory`. Needs that a stopped program has forgotten its
  scroll position (`ViewInv`), as the history that is loaded may be shorter.
- `GhostsHold`: `NoGhosts`, from `PanelIsCurrent` and the types: a step that draws
  either keeps the screen or forces the full refresh.

*Display* (`EInkDisplayProofs`)

- `FramesHold`, `ForceHolds`, `WakeHolds`: `NewerFramesWait`, `ForceSticks`,
  `NoLostWakeup`.
- `SleepHolds`: `SleepIsLast`. One render fits into the join; when a second one
  outlasts it nothing waits behind it, as nothing is submitted any more (`SleepInv`).
- `LastFrameHolds`: `LastFrameDrained`. A worker that was busy or asleep when `_stop`
  was set drains the slot before it looks at `_stop` again (`DrainInv`).
- `PromiseHolds`: `EInkDisplay` implements the safety part of `LatestFrame`: initial
  states and steps map to initial states and steps or stutters.

*Keyboard* (`KeyboardReaderProofs`): `ReaderHolds`, `QueueHolds`, `LossHolds`,
`ModifierHolds`. The last needs to know, for every event still in the kernel or in
the batch, that the flag after the events before it is the key as it was held.

*Buzzer* (`BuzzerProofs`): `OneToneHolds` from one holder of the lock, who is the one
that sounds; `OrderHolds` from the waiters standing in the order of their tickets;
`OneLateToneHolds` since a task that had its late tone does not wait for the lock again
(`Hushed`).

*Radio* (`LoRaRadioProofs`): `ReadsHold` (no own bytes under an unread flag; a CRC error
is seen or raced), `ListensHold`: `ListensOrRetryFailed`, and `BufferHolds`: `ActsAsBuffer`, the refinement of `ReceiveBuffer`,
for which a packet found a second time must have lost its flag (`BufferInv`).

Only model-checked: liveness, that is `EverySendSettles`,
`FoundAgain`, `LossIsNoticed`, `BeepsEnd`, `TransmissionsEndListening` and the fairness
of `LatestFrame` in `ShowsLatestFrame`. Fairness and `ENABLED` are out of the prover's
reach, as is induction over data.

## Not modelled

- Message texts: two lines typed and sent in one burst go out as one (`main.py`
  keeps one "send"), which a model without texts cannot tell apart.
- The steps inside an atomic write (temporary file, fsync, rename): a write is whole
  or not done, and durable at once. `ui.py` and `config.py` do not sync the
  directory, so a power cut may in truth undo the last write; and they ignore a
  failed fsync, after which it may even leave a file that cannot be read, taken as
  an empty history or the default configuration.
- Single `rfkill` and `nmcli` calls, the CPU governor and the LED: a toggle is done
  or failed as a whole.
- `clear()` of the display, which nobody calls; a driver of the panel that never
  returns; a keyboard reader that outlives its join; a keyboard with both
  modifiers held.
- Layout, wording, logs, register values, calibration, pitch and length of tones.
- `deploy.ps1`, `diagnose.py`, the pairing and Wi-Fi repair scripts and the smoke
  tests, which keep no state of the program.
