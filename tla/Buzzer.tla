-------------------------------- MODULE Buzzer --------------------------------
(***************************************************************************)
(* The buzzer of buzzer.py.  The loop of main.py starts beeps as asyncio   *)
(* tasks, each a few tones with pauses.  A tone sets the PWM of the pin    *)
(* through the daemon pigpiod, sleeps, and turns it off, under a lock.     *)
(*                                                                         *)
(* Abstractions.  A tone is named after the beep it belongs to; pitch and  *)
(* length are left out.  A missing pigpio module is like a daemon that     *)
(* does not answer.  The daemon keeps the PWM of the pin when the program  *)
(* dies, and a connection to it that fails stays failed until the program  *)
(* is started again.                                                       *)
(***************************************************************************)
EXTENDS Naturals, Sequences

CONSTANTS
  Beep,      \* tasks
  NoBeep,    \* no task, and silence on the pin
  Tones,     \* numbers of tones of the beeps
  MaxBeeps,  \* bound: beeps of one run of the program
  MaxFaults  \* bound: crashes and failed connections

ASSUME BeepAssumption ==
  /\ NoBeep \notin Beep
  /\ Tones \subseteq Nat \ {0}
  /\ MaxBeeps \in Nat /\ MaxFaults \in Nat

VARIABLES
  phase,    \* of the program: "up", "clean" after cleanup(), "down"
  pi,       \* self.pi is there, and self.enabled
  works,    \* the connection to the daemon works
  pwm,      \* whose tone is on the pin
  silent,   \* self.silent
  owner,    \* holder of _tone_lock
  waiters,  \* tasks that wait for it
  place,    \* place of each task
  left,     \* tones it has still to play
  made,     \* beeps started by this run
  faults,   \* crashes and failed connections
  calls,    \* history: tones that asked for the lock in this run
  ticket,   \* history: number of each task's latest such tone
  latest,   \* history: number of the latest tone on the pin
  late      \* history: tones of each task that began in this silence

lock == <<owner, waiters>>
tasks == <<place, left, made>>
history == <<calls, ticket, latest, late>>
vars == <<phase, pi, works, pwm, silent, faults, lock, tasks, history>>

Place == {"idle", "call", "wait", "sound", "pause"}

TypeOK ==
  /\ phase \in {"up", "clean", "down"}
  /\ pi \in BOOLEAN
  /\ works \in BOOLEAN
  /\ pwm \in Beep \cup {NoBeep}
  /\ silent \in BOOLEAN
  /\ owner \in Beep \cup {NoBeep}
  /\ waiters \in Seq(Beep)
  /\ place \in [Beep -> Place]
  /\ left \in [Beep -> Nat]
  /\ \A b \in Beep : left[b] = 0 <=> place[b] = "idle"
  /\ made \in 0..MaxBeeps
  /\ faults \in 0..MaxFaults
  /\ calls \in Nat
  /\ ticket \in [Beep -> 0..calls]
  /\ latest \in 0..calls
  /\ late \in [Beep -> Nat]

NoTasks ==
  /\ owner' = NoBeep
  /\ waiters' = <<>>
  /\ place' = [b \in Beep |-> "idle"]
  /\ left' = [b \in Beep |-> 0]

Init ==
  /\ phase = "down"
  /\ pi = FALSE /\ works = FALSE
  /\ pwm = NoBeep
  /\ silent = FALSE
  /\ owner = NoBeep /\ waiters = <<>>
  /\ place = [b \in Beep |-> "idle"] /\ left = [b \in Beep |-> 0]
  /\ made = 0 /\ faults = 0
  /\ calls = 0 /\ ticket = [b \in Beep |-> 0] /\ latest = 0
  /\ late = [b \in Beep |-> 0]

-----------------------------------------------------------------------------
(* The program. *)

\* __init__, with or without a daemon that answers, and set_silent(config.silent).
Start(daemon) ==
  /\ phase = "down"
  /\ phase' = "up"
  /\ pi' = daemon /\ works' = daemon
  /\ pwm' = IF daemon THEN NoBeep ELSE pwm
  /\ silent' \in BOOLEAN
  /\ made' = 0
  /\ calls' = 0 /\ ticket' = [b \in Beep |-> 0] /\ latest' = 0
  /\ late' = [b \in Beep |-> 0]
  /\ NoTasks
  /\ UNCHANGED faults

SetSilent ==
  /\ phase = "up"
  /\ silent' = ~silent
  /\ late' = IF silent THEN late ELSE [b \in Beep |-> 0]
  /\ UNCHANGED <<phase, pi, works, pwm, faults, lock, tasks, calls, ticket, latest>>

\* asyncio.create_task(buzzer.beep_...())
StartBeep(b, tones) ==
  /\ phase = "up"
  /\ place[b] = "idle"
  /\ made < MaxBeeps
  /\ made' = made + 1
  /\ place' = [place EXCEPT ![b] = "call"]
  /\ left' = [left EXCEPT ![b] = tones]
  /\ UNCHANGED <<phase, pi, works, pwm, silent, faults, lock, history>>

\* cleanup(), in the finally of main().  The tasks may still run once.
Cleanup ==
  /\ phase = "up"
  /\ phase' = "clean"
  /\ pi' = FALSE
  /\ pwm' = IF pi /\ works THEN NoBeep ELSE pwm
  /\ UNCHANGED <<works, silent, faults, lock, tasks, history>>

\* asyncio.run() cancels the tasks.
Exit ==
  /\ phase = "clean"
  /\ phase' = "down"
  /\ NoTasks
  /\ UNCHANGED <<pi, works, pwm, silent, made, faults, history>>

\* SIGTERM or SIGKILL: no finally, the pin keeps its tone.
Killed ==
  /\ phase = "up"
  /\ faults < MaxFaults
  /\ faults' = faults + 1
  /\ phase' = "down"
  /\ pi' = FALSE
  /\ NoTasks
  /\ UNCHANGED <<works, pwm, silent, made, history>>

\* The daemon or the connection to it fails; the calls raise from now on.
ConnectionFails ==
  /\ phase = "up" /\ works
  /\ faults < MaxFaults
  /\ faults' = faults + 1
  /\ works' = FALSE
  /\ UNCHANGED <<phase, pi, pwm, silent, lock, tasks, history>>

-----------------------------------------------------------------------------
(* A task.  What it does between two awaits is one step. *)

Running(b) == phase # "down" /\ place[b] # "idle"

\* Mutated form: the last tone is counted one too late.
ToneOverLate(b) ==
  /\ left' = [left EXCEPT ![b] = @ - 1]
  /\ place' = [place EXCEPT ![b] = IF left[b] = 0 THEN "idle" ELSE "pause"]
  /\ UNCHANGED made

\* tone() returns: the beep pauses before its next tone, or ends.
ToneOver(b) ==
  /\ left' = [left EXCEPT ![b] = @ - 1]
  /\ place' = [place EXCEPT ![b] = IF left[b] = 1 THEN "idle" ELSE "pause"]
  /\ UNCHANGED made

PauseOver(b) ==
  /\ Running(b) /\ place[b] = "pause"
  /\ place' = [place EXCEPT ![b] = "call"]
  /\ UNCHANGED <<phase, pi, works, pwm, silent, faults, lock, left, made, history>>

\* tone() in silent mode, or with the buzzer disabled.
SkipTone(b) ==
  /\ Running(b) /\ place[b] = "call"
  /\ silent \/ ~pi
  /\ ToneOver(b)
  /\ UNCHANGED <<phase, pi, works, pwm, silent, faults, lock, history>>

\* Mutated form: silent mode is left to those who start a beep.
AsksForLockAnyway(b) ==
  /\ Running(b) /\ place[b] = "call"
  /\ pi
  /\ calls' = calls + 1
  /\ ticket' = [ticket EXCEPT ![b] = calls + 1]

AsksForLock(b) ==
  /\ Running(b) /\ place[b] = "call"
  /\ ~silent /\ pi
  /\ calls' = calls + 1
  /\ ticket' = [ticket EXCEPT ![b] = calls + 1]

\* With the lock: the PWM is set, or setting it raises, which is printed and
\* ends the tone.
PlayTone(b) ==
  \/ /\ pi /\ works
     /\ pwm' = b
     /\ latest' = ticket'[b]
     /\ late' = IF silent THEN [late EXCEPT ![b] = @ + 1] ELSE late
     /\ place' = [place EXCEPT ![b] = "sound"]
     /\ owner' = b
     /\ UNCHANGED <<left, made>>
  \/ /\ ~pi \/ ~works
     /\ owner' = NoBeep
     /\ ToneOver(b)
     /\ UNCHANGED <<pwm, latest, late>>

\* Mutated form: a free lock goes to whoever asks, also past those who wait.
LockIsFreeToAll == owner = NoBeep

\* Mutated form: tones do not exclude each other.
NoLock == TRUE

LockIsFree == owner = NoBeep /\ waiters = <<>>

TakeLock(b) ==
  /\ AsksForLock(b)
  /\ LockIsFree
  /\ PlayTone(b)
  /\ UNCHANGED <<phase, pi, works, silent, faults, waiters>>

WaitForLock(b) ==
  /\ AsksForLock(b)
  /\ ~LockIsFree
  /\ waiters' = Append(waiters, b)
  /\ place' = [place EXCEPT ![b] = "wait"]
  /\ UNCHANGED <<phase, pi, works, pwm, silent, faults, owner, left, made,
                 latest, late>>

\* The lock wakes those who wait for it in their order.
LockPassedOn(b) ==
  /\ Running(b) /\ place[b] = "wait"
  /\ owner = NoBeep
  /\ waiters # <<>> /\ Head(waiters) = b
  /\ waiters' = Tail(waiters)
  /\ UNCHANGED <<calls, ticket>>
  /\ PlayTone(b)
  /\ UNCHANGED <<phase, pi, works, silent, faults>>

\* Mutated form: an exception keeps the lock.
EndToneKeepsLock(b) ==
  /\ Running(b) /\ place[b] = "sound"
  /\ pwm' = IF pi /\ works THEN NoBeep ELSE pwm
  /\ owner' = IF pi /\ works THEN NoBeep ELSE owner
  /\ ToneOver(b)
  /\ UNCHANGED <<phase, pi, works, silent, faults, waiters, history>>

\* The sleep is over: the PWM is turned off, or that raises; the lock is released.
EndTone(b) ==
  /\ Running(b) /\ place[b] = "sound"
  /\ pwm' = IF pi /\ works THEN NoBeep ELSE pwm
  /\ owner' = NoBeep
  /\ ToneOver(b)
  /\ UNCHANGED <<phase, pi, works, silent, faults, waiters, history>>

Step(b) ==
  \/ PauseOver(b) \/ SkipTone(b)
  \/ TakeLock(b) \/ WaitForLock(b) \/ LockPassedOn(b) \/ EndTone(b)

Next ==
  \/ \E daemon \in BOOLEAN : Start(daemon)
  \/ \E b \in Beep, tones \in Tones : StartBeep(b, tones)
  \/ \E b \in Beep : Step(b)
  \/ SetSilent \/ Cleanup \/ Exit \/ Killed \/ ConnectionFails

Spec == Init /\ [][Next]_vars

\* The event loop goes round: every sleep ends, and a task that was woken runs.
FairSpec == Spec /\ \A b \in Beep : WF_vars(Step(b))

-----------------------------------------------------------------------------
(* Properties. *)

\* While a task sleeps through its tone, the pin plays that tone and no other
\* ("Concurrency", buzzer.py:12-16); and while the program has its daemon the
\* pin is quiet when nobody does, also after a crash with a tone on the pin and a new
\* start, and after cleanup().
OneTone ==
  /\ phase = "up" => \A b \in Beep : place[b] = "sound" => owner = b /\ pwm = b
  /\ works /\ phase # "down" /\ pwm # NoBeep => place[pwm] = "sound"

\* Tones are played in the order in which they were asked for (tone).
PlayedInOrder == [][latest' > latest \/ phase = "down"]_latest

\* A beep comes to its end, whatever raises and whoever waits before it: no
\* exception keeps the lock (tone).
BeepsEnd == \A b \in Beep : place[b] # "idle" ~> place[b] = "idle"

\* Silent mode stops a beep in its middle: of each beep at most the one tone that
\* was in flight, waiting for the lock, still begins after silent mode was turned
\* on, and the tones after it are skipped (set_silent, tone).
OneLateTone == silent => \A b \in Beep : late[b] <= 1
=============================================================================
