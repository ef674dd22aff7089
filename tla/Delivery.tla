------------------------------ MODULE Delivery ------------------------------
(***************************************************************************)
(* What the link promises the users of the pagers (main.py, ui.py), with   *)
(* no word about packets, buffers, positions in a history or files.  A     *)
(* pager shows messages it has sent, each waiting, delivered or failed,    *)
(* and messages it has received.                                           *)
(*                                                                         *)
(* Older messages may leave the screen at any time.  A pager that stops    *)
(* shows nothing; when it is back it shows some of what it had, and what   *)
(* was waiting has failed.                                                 *)
(***************************************************************************)
EXTENDS Naturals

CONSTANTS
  Pager,
  Id,          \* the messages
  MaxAttempts  \* how often a message may be put on the air

VARIABLES
  up,        \* up[p]: the program runs
  attempts,  \* attempts[i]: transmissions of message i
  accepted,  \* accepted[p]: the messages p has acknowledged
  arriving,  \* arriving[p]: acknowledged just now and not yet shown
  sent,      \* sent[p][i]: what p shows of message i as its own
  received   \* received[p]: the messages p shows as received

link == <<up, attempts, accepted, arriving, sent, received>>

Verdict == {"none", "sending", "ok", "fail"}
NoVerdict == [i \in Id |-> "none"]

Init ==
  /\ up = [p \in Pager |-> FALSE]
  /\ attempts = [i \in Id |-> 0]
  /\ accepted = [p \in Pager |-> {}]
  /\ arriving = [p \in Pager |-> {}]
  /\ sent = [p \in Pager |-> NoVerdict]
  /\ received = [p \in Pager |-> {}]

AcceptedElsewhere(p, i) == \E q \in Pager \ {p} : i \in accepted[q]

\* A new message goes on the air.
Send(p, i) ==
  /\ up[p] /\ attempts[i] = 0
  /\ attempts' = [attempts EXCEPT ![i] = 1]
  /\ sent' = [sent EXCEPT ![p][i] = "sending"]
  /\ UNCHANGED <<up, accepted, arriving, received>>

Repeat(p, i) ==
  /\ up[p] /\ sent[p][i] = "sending" /\ attempts[i] < MaxAttempts
  /\ attempts' = [attempts EXCEPT ![i] = @ + 1]
  /\ UNCHANGED <<up, accepted, arriving, sent, received>>

\* Only what was sent arrives, and not where it came from.
Accept(p, i) ==
  /\ up[p] /\ arriving[p] = {}
  /\ attempts[i] > 0 /\ sent[p][i] = "none"
  /\ accepted' = [accepted EXCEPT ![p] = @ \cup {i}]
  /\ arriving' = [arriving EXCEPT ![p] = {i}]
  /\ UNCHANGED <<up, attempts, sent, received>>

\* The screen with only some of the messages, and new received ones.
Shows(p, kept, new) ==
  /\ sent' = [sent EXCEPT ![p] = [i \in Id |-> IF i \in kept THEN @[i] ELSE "none"]]
  /\ received' = [received EXCEPT ![p] = (@ \cap kept) \cup new]

\* What was acknowledged is shown, and older messages may go.
Show(p, i) ==
  /\ up[p] /\ i \in arriving[p]
  /\ arriving' = [arriving EXCEPT ![p] = {}]
  /\ \E kept \in SUBSET Id : Shows(p, kept, {i})
  /\ UNCHANGED <<up, attempts, accepted>>

Confirm(p, i) ==
  /\ up[p] /\ sent[p][i] = "sending" /\ AcceptedElsewhere(p, i)
  /\ sent' = [sent EXCEPT ![p][i] = "ok"]
  /\ UNCHANGED <<up, attempts, accepted, arriving, received>>

GiveUp(p, i) ==
  /\ up[p] /\ sent[p][i] = "sending" /\ attempts[i] = MaxAttempts
  /\ sent' = [sent EXCEPT ![p][i] = "fail"]
  /\ UNCHANGED <<up, attempts, accepted, arriving, received>>

\* Older messages go, for a message that was not put on the air or was just sent.
Forget(p) ==
  /\ up[p] /\ arriving[p] = {}
  /\ \E kept \in SUBSET Id : Shows(p, kept, {})
  /\ UNCHANGED <<up, attempts, accepted, arriving>>

\* A message on its way to the screen is lost here, and only here.
Stop(p) ==
  /\ up[p]
  /\ up' = [up EXCEPT ![p] = FALSE]
  /\ arriving' = [arriving EXCEPT ![p] = {}]
  /\ sent' = [sent EXCEPT ![p] = NoVerdict]
  /\ received' = [received EXCEPT ![p] = {}]
  /\ UNCHANGED <<attempts, accepted>>

\* Nothing shown again is made up: delivered messages were accepted, failed ones
\* were sent, and sent by no one else.
Credible(p, v) ==
  \A i \in Id :
    /\ v[i] \in {"none", "ok", "fail"}
    /\ v[i] = "ok" => AcceptedElsewhere(p, i)
    /\ v[i] # "none" => /\ attempts[i] > 0
                        /\ i \notin accepted[p]
                        /\ \A q \in Pager \ {p} : sent[q][i] = "none"

Return(p) ==
  /\ ~up[p]
  /\ up' = [up EXCEPT ![p] = TRUE]
  /\ \E v \in [Id -> Verdict] : Credible(p, v) /\ sent' = [sent EXCEPT ![p] = v]
  /\ \E kept \in SUBSET accepted[p] : received' = [received EXCEPT ![p] = kept]
  /\ UNCHANGED <<attempts, accepted, arriving>>

Next ==
  \E p \in Pager :
    \/ \E i \in Id : \/ Send(p, i) \/ Repeat(p, i) \/ Accept(p, i) \/ Show(p, i)
                     \/ Confirm(p, i) \/ GiveUp(p, i)
    \/ Forget(p) \/ Stop(p) \/ Return(p)

Spec == Init /\ [][Next]_link

\* What a user may conclude from the screen: a message has one author, and is
\* received nowhere else than it was acknowledged, never by its author; what is
\* delivered was acknowledged by another pager (send, receive, mark_delivered).
Truthful ==
  \A p \in Pager, i \in Id :
    /\ received[p] \cup arriving[p] \subseteq accepted[p]
    /\ i \in accepted[p] => attempts[i] > 0 /\ sent[p][i] = "none"
    /\ sent[p][i] # "none" => attempts[i] > 0 /\ \A q \in Pager \ {p} : sent[q][i] = "none"
    /\ sent[p][i] = "ok" => AcceptedElsewhere(p, i)
=============================================================================
