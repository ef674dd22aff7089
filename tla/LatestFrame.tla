----------------------------- MODULE LatestFrame -----------------------------
(***************************************************************************)
(* What the display promises its caller, display_eink.py: frames may be    *)
(* skipped, the panel only ever moves on to a newer frame, and while the   *)
(* display is open the newest frame comes to be shown.  A frame is only    *)
(* given up for a refresh that failed, and the failures are counted.       *)
(* Frames are numbered in the order of their submission; 0 is the blank    *)
(* panel.                                                                  *)
(***************************************************************************)
EXTENDS Naturals

CONSTANT Frame   \* the numbers a frame may have

VARIABLES
  due,    \* the newest frame that may still come
  shown,  \* the frame on the panel
  open,   \* frames are accepted
  failed  \* refreshes that failed since the start

promise == <<due, shown, open, failed>>

Init == due = 0 /\ shown = 0 /\ open = TRUE /\ failed = 0

\* A draw call.
Submit ==
  /\ open
  /\ \E frame \in Frame : frame > due /\ due' = frame
  /\ UNCHANGED <<shown, open, failed>>

\* The panel moves on; frames in between are skipped.
Show ==
  /\ \E frame \in Frame : shown < frame /\ frame <= due /\ shown' = frame
  /\ UNCHANGED <<due, open, failed>>

\* A refresh fails: its frame is given up, what is newer remains due.
Lose ==
  /\ failed' = failed + 1
  /\ due' \in {due, shown}
  /\ UNCHANGED <<shown, open>>

Close == open /\ open' = FALSE /\ UNCHANGED <<due, shown, failed>>

\* The program starts anew and blanks the panel.
Reopen == ~open /\ due' = 0 /\ shown' = 0 /\ open' = TRUE /\ failed' = 0

Next == Submit \/ Show \/ Lose \/ Close \/ Reopen

SafeSpec == Init /\ [][Next]_promise
Spec == SafeSpec /\ WF_promise(open /\ Show)
=============================================================================
