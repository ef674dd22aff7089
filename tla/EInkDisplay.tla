----------------------------- MODULE EInkDisplay -----------------------------
(***************************************************************************)
(* The E-Ink display of display_eink.py: the main thread submits frames    *)
(* into a slot for one frame, a worker thread takes and renders them, and  *)
(* the shutdown of main.py stops the worker and puts the panel to sleep.   *)
(*                                                                         *)
(* Every step a thread makes without holding a lock is an action of its    *)
(* own.  What happens under _lock is one step; _hw_lock is held by the     *)
(* worker while it is in "render", and sleep() waits for that to be over.  *)
(*                                                                         *)
(* Abstractions.  A frame is its number in the order of submission, 0 no   *)
(* frame.  Time is counted in seconds of panel work, from the moment the   *)
(* shutdown starts to wait for the worker; between two renders the worker  *)
(* takes none.  A process that is gone leaves its picture on the panel.    *)
(***************************************************************************)
EXTENDS Naturals

CONSTANTS
  FullRefreshEvery,  \* FULL_REFRESH_EVERY
  FullTime,          \* seconds of a full refresh, about 2
  PartialTime,       \* seconds of a partial refresh, about 0.3, rounded up
  JoinTime,          \* timeout of the join in cleanup, 3
  MaxFrame,          \* bound: frames submitted between two starts
  MaxFaults          \* bound: refreshes that fail between two starts

ASSUME TimesAssumption ==
  /\ FullRefreshEvery \in Nat \ {0}
  /\ FullTime \in Nat
  /\ PartialTime \in Nat
  /\ JoinTime \in Nat
  /\ MaxFrame \in Nat
  /\ MaxFaults \in Nat

\* No single refresh takes longer than the join waits.
ASSUME OneRenderFits == FullTime <= JoinTime /\ PartialTime <= JoinTime

\* The main thread is in its loop, inside _submit, inside cleanup, or past
\* sleep(); "off" is the time between two runs of the program.
MainPlace == {"loop", "submitting", "stopping", "join", "sleep", "exit", "off"}
WorkerPlace == {"check", "wait", "clear", "take", "lock", "render", "done"}

Screen == {"chat", "profile", "name_edit", "channel_edit", "reboot_confirm",
           "rebooting", "sleep"}
AlwaysFull == {"reboot_confirm", "rebooting", "sleep"}

Job == [frame : Nat, force : BOOLEAN]
NoJob == [frame |-> 0, force |-> FALSE]

VARIABLES
  main,       \* place of the main thread
  worker,     \* place of the worker
  submitted,  \* frames submitted so far
  slot,       \* _pending and _pending_force_full
  wake,       \* the event _wake
  stop,       \* _stop
  job,        \* img and force_full of the worker
  firstDraw,  \* first_draw
  updates,    \* updates: partial refreshes since the last full one
  asleep,     \* _asleep
  shown,      \* the frame on the panel
  spent,      \* seconds of finished renders since the join began
  faults,     \* failed refreshes
  owed,       \* history: the last forced frame no render has dealt with
  late        \* history: _stop was set with the worker at the head of its loop

slots == <<submitted, slot, owed>>
halt == <<stop, late>>
panel == <<firstDraw, updates, asleep, shown>>
vars == <<main, worker, slots, wake, halt, job, panel, spent, faults>>

Running == main # "off"

TypeOK ==
  /\ main \in MainPlace
  /\ worker \in WorkerPlace
  /\ submitted \in Nat
  /\ slot \in Job
  /\ wake \in BOOLEAN
  /\ stop \in BOOLEAN
  /\ job \in Job
  /\ firstDraw \in BOOLEAN
  /\ updates \in 0..(FullRefreshEvery - 1)
  /\ asleep \in BOOLEAN
  /\ shown \in Nat
  /\ spent \in Nat
  /\ faults \in Nat
  /\ owed \in Nat
  /\ late \in BOOLEAN

Init ==
  /\ main = "loop"
  /\ worker = "check"
  /\ submitted = 0
  /\ slot = NoJob
  /\ wake = FALSE
  /\ stop = FALSE
  /\ job = NoJob
  /\ firstDraw = TRUE
  /\ updates = 0
  /\ asleep = FALSE
  /\ shown = 0
  /\ spent = 0
  /\ faults = 0
  /\ owed = 0
  /\ late = FALSE

-----------------------------------------------------------------------------
(* The main thread. *)

\* What a draw method asks for, given the force_full of its caller.
Forced(screen, force) == force \/ screen \in AlwaysFull

\* Mutated form: a plain frame clears the pending request.
PutNotSticky(force) ==
  slot' = [frame |-> submitted + 1, force |-> force]

\* _submit, under _lock: the newest frame replaces the one that waits, but a
\* request for a full refresh stays.
Put(force) ==
  slot' = [frame |-> submitted + 1, force |-> slot.force \/ force]

Draw(screen, force) ==
  /\ main = "loop"
  /\ submitted < MaxFrame
  /\ Put(Forced(screen, force))
  /\ submitted' = submitted + 1
  /\ owed' = IF Forced(screen, force) THEN submitted + 1 ELSE owed
  /\ main' = "submitting"
  /\ UNCHANGED <<worker, wake, halt, job, panel, spent, faults>>

\* Mutated form: no wake-up for a frame that replaces nothing forced.
SetWakeForForced ==
  /\ main = "submitting"
  /\ wake' = (wake \/ slot.force)
  /\ main' = "loop"
  /\ UNCHANGED <<worker, slots, halt, job, panel, spent, faults>>

\* The end of _submit, after _lock.
SetWake ==
  /\ main = "submitting"
  /\ wake' = TRUE
  /\ main' = "loop"
  /\ UNCHANGED <<worker, slots, halt, job, panel, spent, faults>>

\* The loop is left, by a reboot, ^C or an exception; cleanup begins.
SetStop ==
  /\ main = "loop"
  /\ stop' = TRUE
  /\ late' = (worker = "check")
  /\ main' = "stopping"
  /\ UNCHANGED <<worker, slots, wake, job, panel, spent, faults>>

BeginJoin ==
  /\ main = "stopping"
  /\ wake' = TRUE
  /\ main' = "join"
  /\ UNCHANGED <<worker, slots, halt, job, panel, spent, faults>>

\* Mutated form: cleanup does not wait for the worker.
JoinedAtOnce ==
  /\ main = "join"
  /\ main' = "sleep"
  /\ UNCHANGED <<worker, slots, wake, halt, job, panel, spent, faults>>

Joined ==
  /\ main = "join"
  /\ worker = "done"
  /\ main' = "sleep"
  /\ UNCHANGED <<worker, slots, wake, halt, job, panel, spent, faults>>

\* Mutated form: one partial refresh too many.
NeedsFullLate ==
  firstDraw \/ job.force \/ asleep \/ updates >= FullRefreshEvery

NeedsFull ==
  firstDraw \/ job.force \/ asleep \/ updates + 1 >= FullRefreshEvery

Cost == IF NeedsFull THEN FullTime ELSE PartialTime

\* The render under way ends only after the timeout.
JoinExpires ==
  /\ main = "join"
  /\ worker = "render"
  /\ spent + Cost > JoinTime
  /\ main' = "sleep"
  /\ UNCHANGED <<worker, slots, wake, halt, job, panel, spent, faults>>

\* sleep(), under _hw_lock; an error of the panel is swallowed.
Sleep ==
  /\ main = "sleep"
  /\ worker # "render"
  /\ asleep' \in {asleep, TRUE}
  /\ main' = "exit"
  /\ UNCHANGED <<worker, slots, wake, halt, job, firstDraw, updates, shown,
                 spent, faults>>

\* The process ends and takes its daemon thread along, at the end of the
\* shutdown or, killed, anywhere.
Exit ==
  /\ main = "exit"
  /\ main' = "off"
  /\ UNCHANGED <<worker, slots, wake, halt, job, panel, spent, faults>>

Killed ==
  /\ Running
  /\ main' = "off"
  /\ UNCHANGED <<worker, slots, wake, halt, job, panel, spent, faults>>

\* The next start: __init__ resets and clears the panel.
Start ==
  /\ main = "off"
  /\ main' = "loop"
  /\ worker' = "check"
  /\ submitted' = 0 /\ slot' = NoJob /\ owed' = 0
  /\ wake' = FALSE
  /\ stop' = FALSE /\ late' = FALSE
  /\ job' = NoJob
  /\ firstDraw' = TRUE /\ updates' = 0 /\ asleep' = FALSE /\ shown' = 0
  /\ spent' = 0
  /\ faults' = 0

-----------------------------------------------------------------------------
(* The worker. *)

Goes(from, to) == Running /\ worker = from /\ worker' = to

\* Mutated form: _wake is cleared before the wait, not after it.
TestStopClears ==
  /\ Goes("check", IF stop THEN "done" ELSE "wait")
  /\ wake' = FALSE
  /\ UNCHANGED <<main, slots, halt, job, panel, spent, faults>>

\* while not self._stop
TestStop ==
  /\ Goes("check", IF stop THEN "done" ELSE "wait")
  /\ UNCHANGED <<main, slots, wake, halt, job, panel, spent, faults>>

Wakes ==
  /\ wake
  /\ Goes("wait", "clear")
  /\ UNCHANGED <<main, slots, wake, halt, job, panel, spent, faults>>

ClearWake ==
  /\ Goes("clear", "take")
  /\ wake' = FALSE
  /\ UNCHANGED <<main, slots, halt, job, panel, spent, faults>>

\* Mutated form: _pending is not emptied.
TakeFrameTwice ==
  /\ slot.frame # 0
  /\ Goes("take", "lock")
  /\ job' = slot
  /\ UNCHANGED <<main, slots, wake, halt, panel, spent, faults>>

TakeFrame ==
  /\ slot.frame # 0
  /\ Goes("take", "lock")
  /\ job' = slot
  /\ slot' = NoJob
  /\ UNCHANGED <<main, submitted, owed, wake, halt, panel, spent, faults>>

\* Mutated form: the drain ends when _stop is set.
NothingToTakeOnStop ==
  /\ slot.frame = 0 \/ stop
  /\ Goes("take", "check")
  /\ UNCHANGED <<main, slots, wake, halt, job, panel, spent, faults>>

NothingToTake ==
  /\ slot.frame = 0
  /\ Goes("take", "check")
  /\ UNCHANGED <<main, slots, wake, halt, job, panel, spent, faults>>

BeginRender ==
  /\ Goes("lock", "render")
  /\ UNCHANGED <<main, slots, wake, halt, job, panel, spent, faults>>

\* What every end of a render does: the lock is free again and the next frame
\* is taken.  The request for a full refresh goes with the frame.
EndRender ==
  /\ Goes("render", "take")
  /\ job' = NoJob
  /\ spent' = IF main \in {"join", "sleep"} THEN spent + Cost ELSE spent
  /\ UNCHANGED <<main, submitted, slot, wake, halt>>

RenderFull ==
  /\ NeedsFull
  /\ EndRender
  /\ shown' = job.frame
  /\ firstDraw' = FALSE
  /\ updates' = 0
  /\ asleep' = FALSE
  /\ owed' = IF owed <= job.frame THEN 0 ELSE owed
  /\ UNCHANGED faults

RenderPartial ==
  /\ ~NeedsFull
  /\ EndRender
  /\ shown' = job.frame
  /\ updates' = updates + 1
  /\ UNCHANGED <<firstDraw, asleep, faults, owed>>

\* A render that fails leaves the picture as it was and gives up the frame.
Fails ==
  /\ faults < MaxFaults
  /\ faults' = faults + 1
  /\ EndRender
  /\ owed' = IF owed <= job.frame THEN 0 ELSE owed
  /\ UNCHANGED shown

\* init() raises, on waking or before a full refresh.
InitFails ==
  /\ NeedsFull
  /\ ~firstDraw \/ asleep
  /\ Fails
  /\ asleep' \in {asleep, FALSE}
  /\ UNCHANGED <<firstDraw, updates>>

\* Both ways to refresh raise: _full_refresh swallows that and _render goes on.
FullFails ==
  /\ NeedsFull
  /\ Fails
  /\ firstDraw' = FALSE
  /\ updates' = 0
  /\ asleep' = FALSE

PartialFails ==
  /\ ~NeedsFull
  /\ Fails
  /\ updates' = updates + 1
  /\ UNCHANGED <<firstDraw, asleep>>

Render == RenderFull \/ RenderPartial \/ InitFails \/ FullFails \/ PartialFails

Worker ==
  \/ TestStop \/ Wakes \/ ClearWake \/ TakeFrame \/ NothingToTake
  \/ BeginRender \/ Render

\* What the main thread does without a choice of the user.
Proceed == SetWake \/ BeginJoin \/ Joined \/ JoinExpires \/ Sleep \/ Exit

Next ==
  \/ \E screen \in Screen, force \in BOOLEAN : Draw(screen, force)
  \/ SetStop
  \/ Proceed
  \/ Killed
  \/ Start
  \/ Worker

Spec == Init /\ [][Next]_vars

\* Both threads are scheduled.
FairSpec == Spec /\ WF_vars(Worker) /\ WF_vars(Proceed)

-----------------------------------------------------------------------------
(* Properties. *)

Drawing == worker \in {"lock", "render"}

\* The frames in the worker's hands and in the slot are newer than the picture,
\* in this order: nothing that waits can take the panel back to an older screen
\* (_submit, _worker).
NewerFramesWait ==
  /\ Drawing <=> job.frame # 0
  /\ job.frame # 0 => shown < job.frame
  /\ slot.frame # 0 => shown < slot.frame /\ job.frame < slot.frame
  /\ slot.frame # 0 => slot.frame = submitted
  /\ shown <= submitted /\ job.frame <= submitted

\* A request for a full refresh is not forgotten when a plain frame overtakes
\* it: it waits in the slot or is in the worker's hands, with a frame at least
\* as new, until a full refresh is drawn or fails (the sticky flag of _submit).
ForceSticks ==
  owed # 0 =>
    \/ slot.force /\ slot.frame >= owed
    \/ Drawing /\ job.force /\ job.frame >= owed

\* A frame never waits beside a sleeping worker: _wake is set, or will be by
\* the submission under way (the order of clear and take in _worker).
NoLostWakeup ==
  Running /\ worker = "wait" /\ slot.frame # 0 => wake \/ main = "submitting"

\* Once the main thread has put the panel to sleep the worker draws nothing
\* more, although the join has a timeout (cleanup, sleep).
SleepIsLast == main = "exit" => ~Drawing /\ (slot.frame # 0 => worker = "done")

\* When the panel sleeps, the last frame was drained, also one submitted while
\* the worker rendered ("drain is UNCONDITIONAL", display_eink.py:498-502), unless
\* _stop was set just when the worker was about to look at it again: then the
\* frame is lost, although main.py:267-270 calls it "guaranteed to hit the panel".
LastFrameDrained == main = "exit" /\ slot.frame # 0 => late

\* The newest frame that may still come.
Due == IF slot.frame # 0 THEN slot.frame
       ELSE IF job.frame # 0 THEN job.frame ELSE shown

Open == main \in {"loop", "submitting"}

Promise == INSTANCE LatestFrame
             WITH Frame <- 1..MaxFrame, due <- Due, open <- Open, failed <- faults

\* The display keeps the promise of LatestFrame: frames are skipped, never shown
\* out of order, none is given up but for a refresh that failed, and the newest one
\* comes, unless that happens to it or the program ends (_submit, _worker, _render).
ShowsLatestFrame == Promise!Spec
=============================================================================
