-------------------------- MODULE EInkDisplayProofs --------------------------
(***************************************************************************)
(* Proofs about EInkDisplay, for any number of frames and failures and for *)
(* any times with OneRenderFits.                                           *)
(***************************************************************************)
EXTENDS EInkDisplay, TLAPS

-----------------------------------------------------------------------------
(* Types.  No more frames are submitted than the bound allows. *)

Typing == TypeOK /\ submitted <= MaxFrame

\* TypeOK without updates, in two parts, for the steps that reset updates.
Flags ==
  /\ wake \in BOOLEAN /\ stop \in BOOLEAN /\ late \in BOOLEAN
  /\ firstDraw \in BOOLEAN /\ asleep \in BOOLEAN

OtherTypes ==
  /\ main \in MainPlace
  /\ worker \in WorkerPlace
  /\ slot \in Job
  /\ job \in Job
  /\ submitted \in Nat /\ shown \in Nat /\ spent \in Nat
  /\ faults \in Nat /\ owed \in Nat
  /\ submitted <= MaxFrame

\* No partial refresh is a possible count of partial refreshes.
LEMMA NoPartial == MaxFrame \in Nat /\ 0 \in 0..(FullRefreshEvery - 1)
<1>1. FullRefreshEvery \in Nat /\ FullRefreshEvery # 0
  BY TimesAssumption
<1>2. MaxFrame \in Nat
  BY TimesAssumption
<1>3. QED
  BY <1>1, <1>2

\* Every step keeps the types.
LEMMA TypingNext == Typing /\ [Next]_vars => Typing'
<1>1. SUFFICES ASSUME Typing, [Next]_vars
              PROVE  Typing'
  OBVIOUS
<1> USE TimesAssumption, NoPartial
<1>2. ASSUME NEW screen \in Screen, NEW force \in BOOLEAN, Draw(screen, force)
      PROVE  Typing'
  BY <1>2, <1>1 DEF Draw, Put, Typing, TypeOK, Job, MainPlace, halt, panel
<1>3. CASE SetWake
  BY <1>3, <1>1 DEF SetWake, Typing, TypeOK, MainPlace, slots, halt, panel
<1>4. CASE SetStop
  BY <1>4, <1>1 DEF SetStop, Typing, TypeOK, MainPlace, slots, panel
<1>5. CASE BeginJoin
  BY <1>5, <1>1 DEF BeginJoin, Typing, TypeOK, MainPlace, slots, halt, panel
<1>6. CASE Joined
  BY <1>6, <1>1 DEF Joined, Typing, TypeOK, MainPlace, slots, halt, panel
<1>7. CASE JoinExpires
  BY <1>7, <1>1 DEF JoinExpires, Typing, TypeOK, MainPlace, slots, halt, panel
<1>8. CASE Sleep
  BY <1>8, <1>1 DEF Sleep, Typing, TypeOK, MainPlace, slots, halt
<1>9. CASE Exit
  BY <1>9, <1>1 DEF Exit, Typing, TypeOK, MainPlace, slots, halt, panel
<1>10. CASE Killed
  BY <1>10, <1>1 DEF Killed, Typing, TypeOK, MainPlace, slots, halt, panel
<1>11. CASE Start
  <2>1. updates' \in 0..(FullRefreshEvery - 1)
    BY <1>1, <1>11 DEF Start, Typing, TypeOK
  <2>2. OtherTypes'
    BY <1>1, <1>11 DEF OtherTypes, Start, NoJob, Job, MainPlace, WorkerPlace
  <2>3. Flags'
    BY <1>1, <1>11 DEF Flags, Start
  <2>4. QED
    BY <2>1, <2>2, <2>3 DEF Flags, OtherTypes, Typing, TypeOK
<1>12. CASE TestStop
  BY <1>12, <1>1 DEF TestStop, Goes, Typing, TypeOK, WorkerPlace, slots, halt, panel
<1>13. CASE Wakes
  BY <1>13, <1>1 DEF Wakes, Goes, Typing, TypeOK, WorkerPlace, slots, halt, panel
<1>14. CASE ClearWake
  BY <1>14, <1>1 DEF ClearWake, Goes, Typing, TypeOK, WorkerPlace, slots, halt, panel
<1>15. CASE TakeFrame
  BY <1>15, <1>1 DEF TakeFrame, Goes, NoJob, Typing, TypeOK, Job, WorkerPlace, halt,
    panel
<1>16. CASE NothingToTake
  BY <1>16, <1>1 DEF NothingToTake, Goes, Typing, TypeOK, WorkerPlace, slots, halt,
    panel
<1>17. CASE BeginRender
  BY <1>17, <1>1 DEF BeginRender, Goes, Typing, TypeOK, WorkerPlace, slots, halt,
    panel
<1>18. CASE RenderFull
  <2>1. updates' \in 0..(FullRefreshEvery - 1)
    BY <1>1, <1>18 DEF RenderFull, Typing, TypeOK
  <2>2. OtherTypes'
    BY <1>1, <1>18 DEF OtherTypes, RenderFull, EndRender, Goes, NoJob, Cost, Typing,
      TypeOK, Job, WorkerPlace
  <2>3. Flags'
    BY <1>1, <1>18 DEF Flags, RenderFull, EndRender, Typing, TypeOK, halt
  <2>4. QED
    BY <2>1, <2>2, <2>3 DEF Flags, OtherTypes, Typing, TypeOK
<1>19. CASE RenderPartial
  BY <1>19, <1>1 DEF RenderPartial, EndRender, Goes, NoJob, Cost, NeedsFull, Typing,
    TypeOK, Job, WorkerPlace, halt
<1>20. CASE InitFails
  <2>1. updates' \in 0..(FullRefreshEvery - 1)
    BY <1>1, <1>20 DEF InitFails, Typing, TypeOK
  <2>2. OtherTypes'
    BY <1>1, <1>20 DEF OtherTypes, InitFails, Fails, EndRender, Goes, NoJob, Cost,
      Typing, TypeOK, Job, WorkerPlace
  <2>3. Flags'
    BY <1>1, <1>20 DEF Flags, InitFails, Fails, EndRender, Typing, TypeOK, halt
  <2>4. QED
    BY <2>1, <2>2, <2>3 DEF Flags, OtherTypes, Typing, TypeOK
<1>21. CASE FullFails
  <2>1. updates' \in 0..(FullRefreshEvery - 1)
    BY <1>1, <1>21 DEF FullFails, Typing, TypeOK
  <2>2. OtherTypes'
    BY <1>1, <1>21 DEF OtherTypes, FullFails, Fails, EndRender, Goes, NoJob, Cost,
      Typing, TypeOK, Job, WorkerPlace
  <2>3. Flags'
    BY <1>1, <1>21 DEF Flags, FullFails, Fails, EndRender, Typing, TypeOK, halt
  <2>4. QED
    BY <2>1, <2>2, <2>3 DEF Flags, OtherTypes, Typing, TypeOK
<1>22. CASE PartialFails
  BY <1>22, <1>1 DEF PartialFails, Fails, EndRender, Goes, NoJob, Cost, NeedsFull,
    Typing, TypeOK, Job, WorkerPlace, halt
<1>23. CASE UNCHANGED vars
  BY <1>1, <1>23 DEF vars, Typing, TypeOK, slots, halt, panel
<1>24. QED
  BY <1>1, <1>2, <1>3, <1>4, <1>5, <1>6, <1>7, <1>8, <1>9, <1>10, <1>11, <1>12,
     <1>13, <1>14, <1>15, <1>16, <1>17, <1>18, <1>19, <1>20, <1>21, <1>22,
     <1>23
  DEF Next, Proceed, Worker, Render

\* The initial values have their types.
LEMMA TypingInit == Init => Typing
<1>1. SUFFICES ASSUME Init
              PROVE  Typing
  OBVIOUS
<1>2. updates \in 0..(FullRefreshEvery - 1)
  BY <1>1, NoPartial DEF Init
<1>3. OtherTypes
  BY <1>1, NoPartial
  DEF Init, OtherTypes, Job, NoJob, MainPlace, WorkerPlace
<1>4. Flags
  BY <1>1 DEF Init, Flags
<1>5. QED
  BY <1>2, <1>3, <1>4 DEF Flags, OtherTypes, Typing, TypeOK

\* Every variable keeps its type; in particular the partial refreshes in a row
\* stay below FULL_REFRESH_EVERY, failed ones counted (_render).
THEOREM TypesHold == Spec => []TypeOK
<1>2. Spec => []Typing
  BY TypingInit, TypingNext, PTL DEF Spec
<1>3. Typing => TypeOK
  BY DEF Typing
<1>4. QED
  BY <1>2, <1>3, PTL

-----------------------------------------------------------------------------
(* The order of the frames. *)

\* A frame only enters the slot above all others, and leaves it for the panel in order.
LEMMA NewerNext == Typing /\ NewerFramesWait /\ [Next]_vars => NewerFramesWait'
<1>1. SUFFICES ASSUME Typing, NewerFramesWait, [Next]_vars
              PROVE  NewerFramesWait'
  OBVIOUS
<1> USE TimesAssumption, NoPartial
<1>2. ASSUME NEW screen \in Screen, NEW force \in BOOLEAN, Draw(screen, force)
      PROVE  NewerFramesWait'
  BY <1>2, <1>1 DEF Draw, Put, NewerFramesWait, Drawing, Typing, TypeOK, Job, panel
<1>3. CASE SetWake
  BY <1>3, <1>1 DEF SetWake, NewerFramesWait, Drawing, slots, panel
<1>4. CASE SetStop
  BY <1>4, <1>1 DEF SetStop, NewerFramesWait, Drawing, slots, panel
<1>5. CASE BeginJoin
  BY <1>5, <1>1 DEF BeginJoin, NewerFramesWait, Drawing, slots, panel
<1>6. CASE Joined
  BY <1>6, <1>1 DEF Joined, NewerFramesWait, Drawing, slots, panel
<1>7. CASE JoinExpires
  BY <1>7, <1>1 DEF JoinExpires, NewerFramesWait, Drawing, slots, panel
<1>8. CASE Sleep
  BY <1>8, <1>1 DEF Sleep, NewerFramesWait, Drawing, slots
<1>9. CASE Exit
  BY <1>9, <1>1 DEF Exit, NewerFramesWait, Drawing, slots, panel
<1>10. CASE Killed
  BY <1>10, <1>1 DEF Killed, NewerFramesWait, Drawing, slots, panel
<1>11. CASE Start
  BY <1>11, <1>1 DEF Start, NoJob, NewerFramesWait, Drawing
<1>12. CASE TestStop
  BY <1>12, <1>1 DEF TestStop, Goes, NewerFramesWait, Drawing, slots, panel
<1>13. CASE Wakes
  BY <1>13, <1>1 DEF Wakes, Goes, NewerFramesWait, Drawing, slots, panel
<1>14. CASE ClearWake
  BY <1>14, <1>1 DEF ClearWake, Goes, NewerFramesWait, Drawing, slots, panel
<1>15. CASE TakeFrame
  BY <1>15, <1>1 DEF TakeFrame, Goes, NoJob, NewerFramesWait, Drawing, Typing, TypeOK,
    panel
<1>16. CASE NothingToTake
  BY <1>16, <1>1 DEF NothingToTake, Goes, NewerFramesWait, Drawing, slots, panel
<1>17. CASE BeginRender
  BY <1>17, <1>1 DEF BeginRender, Goes, NewerFramesWait, Drawing, slots, panel
<1>18. CASE RenderFull
  BY <1>18, <1>1 DEF RenderFull, EndRender, Goes, NoJob, NewerFramesWait, Drawing,
    Typing, TypeOK
<1>19. CASE RenderPartial
  BY <1>19, <1>1 DEF RenderPartial, EndRender, Goes, NoJob, NewerFramesWait, Drawing,
    Typing, TypeOK
<1>20. CASE InitFails
  BY <1>20, <1>1 DEF InitFails, Fails, EndRender, Goes, NoJob, NewerFramesWait,
    Drawing, Typing, TypeOK
<1>21. CASE FullFails
  BY <1>21, <1>1 DEF FullFails, Fails, EndRender, Goes, NoJob, NewerFramesWait,
    Drawing, Typing, TypeOK
<1>22. CASE PartialFails
  BY <1>22, <1>1 DEF PartialFails, Fails, EndRender, Goes, NoJob, NewerFramesWait,
    Drawing, Typing, TypeOK
<1>23. CASE UNCHANGED vars
  BY <1>1, <1>23 DEF vars, NewerFramesWait, Drawing, slots, panel
<1>24. QED
  BY <1>1, <1>2, <1>3, <1>4, <1>5, <1>6, <1>7, <1>8, <1>9, <1>10, <1>11, <1>12,
     <1>13, <1>14, <1>15, <1>16, <1>17, <1>18, <1>19, <1>20, <1>21, <1>22,
     <1>23
  DEF Next, Proceed, Worker, Render

\* NewerFramesWait holds throughout: what waits is newer than what is shown.
THEOREM FramesHold == Spec => []NewerFramesWait
<1>1. Init => Typing /\ NewerFramesWait
  BY TypingInit
  DEF Init, NoJob,
      NewerFramesWait, Drawing
<1>2. QED
  BY <1>1, TypingNext, NewerNext, PTL DEF Spec

-----------------------------------------------------------------------------
(* The sticky request for a full refresh. *)

\* The request in the slot is raised by a plain frame that replaces it, never lowered.
LEMMA ForceNext ==
  Typing /\ NewerFramesWait /\ ForceSticks /\ [Next]_vars => ForceSticks'
<1>1. SUFFICES ASSUME Typing, NewerFramesWait, ForceSticks, [Next]_vars
              PROVE  ForceSticks'
  OBVIOUS
<1> USE TimesAssumption, NoPartial
<1>2. ASSUME NEW screen \in Screen, NEW force \in BOOLEAN, Draw(screen, force)
      PROVE  ForceSticks'
  <2>1. /\ slot'.frame = submitted + 1
        /\ slot.force => slot'.force
        /\ job' = job /\ worker' = worker
    BY <1>2 DEF Draw, Put
  <2>2. CASE Forced(screen, force)
    <3>1. owed' = submitted + 1
      BY <1>2, <2>2 DEF Draw
    <3>2. slot'.force
      BY <1>2, <2>2 DEF Draw, Put
    <3>3. QED
      BY <1>1, <2>1, <3>1, <3>2 DEF ForceSticks, Typing, TypeOK
  <2>3. CASE ~Forced(screen, force)
    <3>1. owed' = owed
      BY <1>2, <2>3 DEF Draw
    <3>2. QED
      BY <1>1, <2>1, <3>1 DEF ForceSticks, NewerFramesWait, Drawing, Typing, TypeOK
  <2>4. QED
    BY <2>2, <2>3
<1>3. CASE SetWake
  BY <1>3, <1>1 DEF SetWake, ForceSticks, Drawing, slots
<1>4. CASE SetStop
  BY <1>4, <1>1 DEF SetStop, ForceSticks, Drawing, slots
<1>5. CASE BeginJoin
  BY <1>5, <1>1 DEF BeginJoin, ForceSticks, Drawing, slots
<1>6. CASE Joined
  BY <1>6, <1>1 DEF Joined, ForceSticks, Drawing, slots
<1>7. CASE JoinExpires
  BY <1>7, <1>1 DEF JoinExpires, ForceSticks, Drawing, slots
<1>8. CASE Sleep
  BY <1>8, <1>1 DEF Sleep, ForceSticks, Drawing, slots
<1>9. CASE Exit
  BY <1>9, <1>1 DEF Exit, ForceSticks, Drawing, slots
<1>10. CASE Killed
  BY <1>10, <1>1 DEF Killed, ForceSticks, Drawing, slots
<1>11. CASE Start
  BY <1>11, <1>1 DEF Start, ForceSticks
<1>12. CASE TestStop
  BY <1>12, <1>1 DEF TestStop, Goes, ForceSticks, Drawing, slots
<1>13. CASE Wakes
  BY <1>13, <1>1 DEF Wakes, Goes, ForceSticks, Drawing, slots
<1>14. CASE ClearWake
  BY <1>14, <1>1 DEF ClearWake, Goes, ForceSticks, Drawing, slots
<1>15. CASE TakeFrame
  BY <1>15, <1>1 DEF TakeFrame, Goes, ForceSticks, Drawing
<1>16. CASE NothingToTake
  BY <1>16, <1>1 DEF NothingToTake, Goes, ForceSticks, Drawing, slots
<1>17. CASE BeginRender
  BY <1>17, <1>1 DEF BeginRender, Goes, ForceSticks, Drawing, slots
<1>18. CASE RenderFull
  BY <1>18, <1>1 DEF RenderFull, EndRender, ForceSticks
<1>19. CASE RenderPartial
  BY <1>19, <1>1 DEF RenderPartial, EndRender, NeedsFull, ForceSticks
<1>20. CASE InitFails
  BY <1>20, <1>1 DEF InitFails, Fails, EndRender, ForceSticks
<1>21. CASE FullFails
  BY <1>21, <1>1 DEF FullFails, Fails, EndRender, ForceSticks
<1>22. CASE PartialFails
  BY <1>22, <1>1 DEF PartialFails, Fails, EndRender, ForceSticks
<1>23. CASE UNCHANGED vars
  BY <1>1, <1>23 DEF vars, ForceSticks, Drawing, slots
<1>24. QED
  BY <1>1, <1>2, <1>3, <1>4, <1>5, <1>6, <1>7, <1>8, <1>9, <1>10, <1>11, <1>12,
     <1>13, <1>14, <1>15, <1>16, <1>17, <1>18, <1>19, <1>20, <1>21, <1>22,
     <1>23
  DEF Next, Proceed, Worker, Render

\* ForceSticks holds throughout: however many plain frames overtake a forced
\* one, the request for a full refresh is carried on by the winner.
THEOREM ForceHolds == Spec => []ForceSticks
<1>1. Init => Typing /\ NewerFramesWait /\ ForceSticks
  BY TypingInit
  DEF Init, NoJob,
      NewerFramesWait, Drawing, ForceSticks
<1>2. QED
  BY <1>1, TypingNext, NewerNext, ForceNext, PTL DEF Spec

-----------------------------------------------------------------------------
(* The wake-up.  A frame may also wait behind the back of a worker that has *)
(* seen _wake, or is on its way to the wait with _wake set again.           *)

WakeInv ==
  Running /\ slot.frame # 0 /\ worker \in {"check", "wait"} =>
    wake \/ main = "submitting"

\* The worker clears _wake on its way to the slot, never on its way to the wait.
LEMMA WakeNext == Typing /\ WakeInv /\ [Next]_vars => WakeInv'
<1>1. SUFFICES ASSUME Typing, WakeInv, [Next]_vars
              PROVE  WakeInv'
  OBVIOUS
<1> USE TimesAssumption, NoPartial
<1>2. ASSUME NEW screen \in Screen, NEW force \in BOOLEAN, Draw(screen, force)
      PROVE  WakeInv'
  BY <1>2, <1>1 DEF Draw, WakeInv
<1>3. CASE SetWake
  BY <1>3, <1>1 DEF SetWake, WakeInv
<1>4. CASE SetStop
  BY <1>4, <1>1 DEF SetStop, WakeInv, Running, slots
<1>5. CASE BeginJoin
  BY <1>5, <1>1 DEF BeginJoin, WakeInv
<1>6. CASE Joined
  BY <1>6, <1>1 DEF Joined, WakeInv
<1>7. CASE JoinExpires
  BY <1>7, <1>1 DEF JoinExpires, WakeInv
<1>8. CASE Sleep
  BY <1>8, <1>1 DEF Sleep, WakeInv, Running, slots
<1>9. CASE Exit
  BY <1>9, <1>1 DEF Exit, WakeInv, Running
<1>10. CASE Killed
  BY <1>10, <1>1 DEF Killed, WakeInv, Running
<1>11. CASE Start
  BY <1>11, <1>1 DEF Start, NoJob, WakeInv
<1>12. CASE TestStop
  BY <1>12, <1>1 DEF TestStop, Goes, WakeInv, slots
<1>13. CASE Wakes
  BY <1>13, <1>1 DEF Wakes, WakeInv
<1>14. CASE ClearWake
  BY <1>14, <1>1 DEF ClearWake, Goes, WakeInv
<1>15. CASE TakeFrame
  BY <1>15, <1>1 DEF TakeFrame, Goes, WakeInv
<1>16. CASE NothingToTake
  BY <1>16, <1>1 DEF NothingToTake, WakeInv, slots
<1>17. CASE BeginRender
  BY <1>17, <1>1 DEF BeginRender, Goes, WakeInv
<1>18. CASE RenderFull
  BY <1>18, <1>1 DEF RenderFull, EndRender, Goes, WakeInv
<1>19. CASE RenderPartial
  BY <1>19, <1>1 DEF RenderPartial, EndRender, Goes, WakeInv
<1>20. CASE InitFails
  BY <1>20, <1>1 DEF InitFails, Fails, EndRender, Goes, WakeInv
<1>21. CASE FullFails
  BY <1>21, <1>1 DEF FullFails, Fails, EndRender, Goes, WakeInv
<1>22. CASE PartialFails
  BY <1>22, <1>1 DEF PartialFails, Fails, EndRender, Goes, WakeInv
<1>23. CASE UNCHANGED vars
  BY <1>1, <1>23 DEF vars, WakeInv, Running, slots
<1>24. QED
  BY <1>1, <1>2, <1>3, <1>4, <1>5, <1>6, <1>7, <1>8, <1>9, <1>10, <1>11, <1>12,
     <1>13, <1>14, <1>15, <1>16, <1>17, <1>18, <1>19, <1>20, <1>21, <1>22,
     <1>23
  DEF Next, Proceed, Worker, Render

\* NoLostWakeup holds throughout: the worker cannot sleep over a frame.
THEOREM WakeHolds == Spec => []NoLostWakeup
<1>1. Init => Typing /\ WakeInv
  BY TypingInit
  DEF Init, NoJob, WakeInv
<1>2. WakeInv => NoLostWakeup
  BY DEF WakeInv, NoLostWakeup
<1>3. QED
  BY <1>1, <1>2, TypingNext, WakeNext, PTL DEF Spec

-----------------------------------------------------------------------------
(* The shutdown.  Only a second render can outlast the join, and when it is *)
(* under way nothing waits any more, since nothing is submitted.            *)

SleepInv ==
  /\ main \in {"stopping", "join", "sleep", "exit"} => stop
  /\ spent > 0 => main \in {"join", "sleep", "exit", "off"}
  /\ spent > 0 /\ slot.frame # 0 => worker \in {"take", "done"}
  /\ main \in {"sleep", "exit"} =>
       \/ worker = "done"
       \/ worker \in {"take", "check"} /\ slot.frame = 0
       \/ main = "sleep" /\ worker = "render" /\ slot.frame = 0

\* No step submits a frame after _stop, so behind a render that outlasts the join
\* nothing waits.
LEMMA SleepNext ==
  Typing /\ NewerFramesWait /\ SleepInv /\ [Next]_vars => SleepInv'
<1>1. SUFFICES ASSUME Typing, NewerFramesWait, SleepInv, [Next]_vars
              PROVE  SleepInv'
  OBVIOUS
<1> USE TimesAssumption, OneRenderFits
<1>2. ASSUME NEW screen \in Screen, NEW force \in BOOLEAN, Draw(screen, force)
      PROVE  SleepInv'
  BY <1>2, <1>1 DEF Draw, SleepInv
<1>3. CASE SetWake
  BY <1>3, <1>1 DEF SetWake, SleepInv
<1>4. CASE SetStop
  BY <1>4, <1>1 DEF SetStop, SleepInv
<1>5. CASE BeginJoin
  BY <1>5, <1>1 DEF BeginJoin, SleepInv, halt
<1>6. CASE Joined
  BY <1>6, <1>1 DEF Joined, SleepInv, halt
<1>7. CASE JoinExpires
  BY <1>7, <1>1 DEF JoinExpires, Cost, SleepInv, Typing, TypeOK, slots, halt
<1>8. CASE Sleep
  BY <1>8, <1>1 DEF Sleep, SleepInv, slots, halt
<1>9. CASE Exit
  BY <1>9, <1>1 DEF Exit, SleepInv, slots
<1>10. CASE Killed
  BY <1>10, <1>1 DEF Killed, SleepInv, slots
<1>11. CASE Start
  BY <1>11, <1>1 DEF Start, SleepInv
<1>12. CASE TestStop
  BY <1>12, <1>1 DEF TestStop, Goes, SleepInv, Running, halt
<1>13. CASE Wakes
  BY <1>13, <1>1 DEF Wakes, Goes, SleepInv, slots, halt
<1>14. CASE ClearWake
  BY <1>14, <1>1 DEF ClearWake, Goes, SleepInv, halt
<1>15. CASE TakeFrame
  BY <1>15, <1>1 DEF TakeFrame, Goes, NoJob, SleepInv, halt
<1>16. CASE NothingToTake
  BY <1>16, <1>1 DEF NothingToTake, Goes, SleepInv, slots, halt
<1>17. CASE BeginRender
  BY <1>17, <1>1 DEF BeginRender, Goes, SleepInv, slots, halt
<1>18. CASE RenderFull
  BY <1>18, <1>1 DEF RenderFull, EndRender, Goes, SleepInv, halt
<1>19. CASE RenderPartial
  BY <1>19, <1>1 DEF RenderPartial, EndRender, Goes, SleepInv, halt
<1>20. CASE InitFails
  BY <1>20, <1>1 DEF InitFails, Fails, EndRender, Goes, SleepInv, halt
<1>21. CASE FullFails
  BY <1>21, <1>1 DEF FullFails, Fails, EndRender, Goes, SleepInv, halt
<1>22. CASE PartialFails
  BY <1>22, <1>1 DEF PartialFails, Fails, EndRender, Goes, SleepInv, halt
<1>23. CASE UNCHANGED vars
  BY <1>1, <1>23 DEF vars, SleepInv, slots, halt
<1>24. QED
  BY <1>1, <1>2, <1>3, <1>4, <1>5, <1>6, <1>7, <1>8, <1>9, <1>10, <1>11, <1>12,
     <1>13, <1>14, <1>15, <1>16, <1>17, <1>18, <1>19, <1>20, <1>21, <1>22,
     <1>23
  DEF Next, Proceed, Worker, Render

\* SleepIsLast holds throughout: the timeout of the join never lets the worker
\* draw on a panel that sleeps.
THEOREM SleepHolds == Spec => []SleepIsLast
<1>1. Init => Typing /\ NewerFramesWait /\ SleepInv
  BY TypingInit
  DEF Init, NoJob,
      NewerFramesWait, Drawing, SleepInv
<1>2. SleepInv => SleepIsLast
  BY DEF SleepInv, SleepIsLast, Drawing
<1>3. QED
  BY <1>1, <1>2, TypingNext, NewerNext, SleepNext, PTL DEF Spec
-----------------------------------------------------------------------------
(* The last frame.  A worker that was busy or asleep when _stop was set goes *)
(* through its drain before it looks at _stop again.                         *)

DrainInv ==
  /\ main \in {"loop", "submitting"} => ~stop
  /\ main \in {"stopping", "join", "sleep", "exit"} /\ slot.frame # 0 =>
       late \/ worker \notin {"check", "done"}
  /\ worker = "done" => stop

\* Only the head of the loop looks at _stop, and only there a frame is left behind: late.
LEMMA DrainNext == Typing /\ DrainInv /\ [Next]_vars => DrainInv'
<1>1. SUFFICES ASSUME Typing, DrainInv, [Next]_vars
              PROVE  DrainInv'
  OBVIOUS
<1> USE TimesAssumption, NoPartial
<1>2. ASSUME NEW screen \in Screen, NEW force \in BOOLEAN, Draw(screen, force)
      PROVE  DrainInv'
  BY <1>2, <1>1 DEF Draw, DrainInv, halt
<1>3. CASE SetWake
  BY <1>3, <1>1 DEF SetWake, DrainInv, halt
<1>4. CASE SetStop
  BY <1>4, <1>1 DEF SetStop, DrainInv
<1>5. CASE BeginJoin
  BY <1>5, <1>1 DEF BeginJoin, DrainInv, slots, halt
<1>6. CASE Joined
  BY <1>6, <1>1 DEF Joined, DrainInv, slots, halt
<1>7. CASE JoinExpires
  BY <1>7, <1>1 DEF JoinExpires, DrainInv
<1>8. CASE Sleep
  BY <1>8, <1>1 DEF Sleep, DrainInv, slots, halt
<1>9. CASE Exit
  BY <1>9, <1>1 DEF Exit, DrainInv, halt
<1>10. CASE Killed
  BY <1>10, <1>1 DEF Killed, DrainInv, halt
<1>11. CASE Start
  BY <1>11, <1>1 DEF Start, DrainInv
<1>12. CASE TestStop
  BY <1>12, <1>1 DEF TestStop, Goes, DrainInv, slots, halt
<1>13. CASE Wakes
  BY <1>13, <1>1 DEF Wakes, Goes, DrainInv, halt
<1>14. CASE ClearWake
  BY <1>14, <1>1 DEF ClearWake, Goes, DrainInv, halt
<1>15. CASE TakeFrame
  BY <1>15, <1>1 DEF TakeFrame, Goes, DrainInv, halt
<1>16. CASE NothingToTake
  BY <1>16, <1>1 DEF NothingToTake, Goes, DrainInv, slots, halt
<1>17. CASE BeginRender
  BY <1>17, <1>1 DEF BeginRender, Goes, DrainInv, halt
<1>18. CASE RenderFull
  BY <1>18, <1>1 DEF RenderFull, EndRender, Goes, DrainInv, halt
<1>19. CASE RenderPartial
  BY <1>19, <1>1 DEF RenderPartial, EndRender, Goes, DrainInv, halt
<1>20. CASE InitFails
  BY <1>20, <1>1 DEF InitFails, Fails, EndRender, Goes, DrainInv, halt
<1>21. CASE FullFails
  BY <1>21, <1>1 DEF FullFails, Fails, EndRender, Goes, DrainInv, halt
<1>22. CASE PartialFails
  BY <1>22, <1>1 DEF PartialFails, Fails, EndRender, Goes, DrainInv, halt
<1>23. CASE UNCHANGED vars
  BY <1>1, <1>23 DEF vars, DrainInv, slots, halt
<1>24. QED
  BY <1>1, <1>2, <1>3, <1>4, <1>5, <1>6, <1>7, <1>8, <1>9, <1>10, <1>11, <1>12,
     <1>13, <1>14, <1>15, <1>16, <1>17, <1>18, <1>19, <1>20, <1>21, <1>22,
     <1>23
  DEF Next, Proceed, Worker, Render

\* The last frame is drained unless _stop met the worker at the head of its loop.
THEOREM LastFrameHolds == Spec => []LastFrameDrained
<1>1. Init => Typing /\ NewerFramesWait /\ SleepInv /\ DrainInv
  BY TypingInit
  DEF Init, NoJob, NewerFramesWait, Drawing, SleepInv, DrainInv
<1>2. SleepInv /\ DrainInv => LastFrameDrained
  BY DEF SleepInv, DrainInv, LastFrameDrained
<1>3. QED
  BY <1>1, <1>2, TypingNext, NewerNext, SleepNext, DrainNext, PTL DEF Spec

-----------------------------------------------------------------------------
(* The promise of LatestFrame.  A submission raises what is due, a render   *)
(* shows a frame between the picture and what is due, a failed one gives up *)
(* its frame; all other steps of the threads change nothing of it.          *)

\* Every step of the threads is a step of the promise or changes nothing of it.
LEMMA PromiseNext ==
  ASSUME Typing, Typing', NewerFramesWait, NewerFramesWait', [Next]_vars
  PROVE  [Promise!Next]_(Promise!promise)
<1> DEFINE Stutters == UNCHANGED <<Due, shown, Open, faults>>
<1>1. Stutters => [Promise!Next]_(Promise!promise)
  BY DEF Promise!promise
<1>2. ASSUME NEW screen \in Screen, NEW force \in BOOLEAN, Draw(screen, force)
      PROVE  Promise!Submit
  <2>1. /\ slot'.frame = submitted + 1 /\ submitted + 1 \in 1..MaxFrame
        /\ UNCHANGED <<shown, faults>> /\ Open /\ Open'
    BY <1>2, TimesAssumption DEF Draw, Put, panel, Open, Typing, TypeOK
  <2>2. Due' = submitted + 1 /\ Due < submitted + 1
    BY <2>1 DEF Due, NewerFramesWait, Typing, TypeOK, Job
  <2>3. QED
    BY <2>1, <2>2 DEF Promise!Submit
<1>3. CASE SetWake
  BY <1>3, <1>1 DEF SetWake, slots, panel, Due, Open
<1>4. CASE SetStop
  <2>1. Promise!Close
    BY <1>4 DEF SetStop, slots, panel, Due, Open, Promise!Close
  <2>2. QED
    BY <2>1 DEF Promise!Next
<1>5. CASE BeginJoin \/ Joined \/ JoinExpires \/ Sleep \/ Exit
  <2>1. /\ UNCHANGED <<slot, job, shown, faults>>
        /\ ~Open /\ ~Open'
    <3>1. CASE BeginJoin
      BY <3>1 DEF BeginJoin, slots, panel, Open
    <3>2. CASE Joined
      BY <3>2 DEF Joined, slots, panel, Open
    <3>3. CASE JoinExpires
      BY <3>3 DEF JoinExpires, slots, panel, Open
    <3>4. CASE Sleep
      BY <3>4 DEF Sleep, slots, Open
    <3>5. CASE Exit
      BY <3>5 DEF Exit, slots, panel, Open
    <3>6. QED
      BY <1>5, <3>1, <3>2, <3>3, <3>4, <3>5
  <2>2. QED
    BY <1>1, <2>1 DEF Due, Open
<1>6. CASE Killed
  <2>1. CASE Open
    <3>1. Promise!Close
      BY <1>6, <2>1 DEF Killed, slots, panel, Due, Open, Promise!Close
    <3>2. QED
      BY <3>1 DEF Promise!Next
  <2>2. CASE ~Open
    BY <1>6, <1>1, <2>2 DEF Killed, slots, panel, Due, Open
  <2>3. QED
    BY <2>1, <2>2
<1>7. CASE Start
  <2>1. Promise!Reopen
    BY <1>7 DEF Start, NoJob, Due, Open, Promise!Reopen
  <2>2. QED
    BY <2>1 DEF Promise!Next
<1>8. CASE TestStop \/ Wakes \/ ClearWake \/ NothingToTake \/ BeginRender
  BY <1>8, <1>1 DEF TestStop, Wakes, ClearWake, NothingToTake, BeginRender, slots,
    panel, Due, Open
<1>9. CASE TakeFrame
  <2>1. job.frame = 0
    BY <1>9 DEF TakeFrame, Goes, NewerFramesWait, Drawing
  <2>2. QED
    BY <1>9, <1>1, <2>1 DEF TakeFrame, NoJob, panel, Due, Open
<1>10. CASE RenderFull \/ RenderPartial
  <2>1. /\ shown' = job.frame /\ job'.frame = 0
        /\ UNCHANGED <<slot, main, faults>>
    BY <1>10 DEF RenderFull, RenderPartial, EndRender, NoJob
  <2>2. shown < job.frame /\ job.frame \in 1..MaxFrame
    BY <1>10, TimesAssumption DEF RenderFull, RenderPartial, EndRender, Goes,
      NewerFramesWait, Drawing, Typing, TypeOK
  <2>3. job.frame <= Due /\ Due' = Due
    BY <2>1, <2>2 DEF Due, NewerFramesWait
  <2>4. Promise!Show
    BY <2>1, <2>2, <2>3 DEF Promise!Show, Open
  <2>5. QED
    BY <2>4 DEF Promise!Next
<1>11. CASE InitFails \/ FullFails \/ PartialFails
  <2>1. /\ job'.frame = 0 /\ faults' = faults + 1
        /\ UNCHANGED <<shown, slot, main>>
    <3>1. Fails
      BY <1>11 DEF InitFails, FullFails, PartialFails
    <3>2. QED
      BY <3>1 DEF Fails, EndRender, NoJob
  <2>2. Due' \in {Due, shown} /\ Open' = Open
    BY <2>1 DEF Due, Open
  <2>3. Promise!Lose
    BY <2>1, <2>2 DEF Promise!Lose
  <2>4. QED
    BY <2>3 DEF Promise!Next
<1>12. CASE UNCHANGED vars
  BY <1>12, <1>1 DEF vars, slots, panel, Due, Open
<1>13. QED
  BY <1>2, <1>3, <1>4, <1>5, <1>6, <1>7, <1>8, <1>9, <1>10, <1>11, <1>12
  DEF Next, Proceed, Worker, Render, Promise!Next

\* The safety part of ShowsLatestFrame: whatever the threads, failures and
\* kills do, the panel only moves on to newer frames that were submitted.
THEOREM PromiseHolds == Spec => Promise!SafeSpec
<1>1. Init => Typing /\ NewerFramesWait
  BY TypingInit DEF Init, NoJob, NewerFramesWait, Drawing
<1>2. Init => Promise!Init
  BY DEF Init, NoJob, Due, Open, Promise!Init
<1>3. Spec => [](Typing /\ NewerFramesWait)
  BY <1>1, TypingNext, NewerNext, PTL DEF Spec
<1>4. QED
  BY <1>2, <1>3, PromiseNext, PTL DEF Spec, Promise!SafeSpec
=============================================================================
