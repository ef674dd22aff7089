---------------------------- MODULE ReceiveBuffer ----------------------------
(***************************************************************************)
(* What a receive() of lora.py promises the main loop, and what PagerLink  *)
(* takes it for: the radio has room for one packet.  A newer packet takes  *)
(* the place of one that was not fetched, and any packet may be lost.      *)
(* Packets are numbered in the order of their arrival; 0 is no packet.     *)
(***************************************************************************)
EXTENDS Naturals

CONSTANT Packet   \* the numbers a packet may have

VARIABLES
  newest,    \* the latest packet to arrive
  pending,   \* the packet that waits
  fetched,   \* the packet last found waiting
  fetching,  \* it is on its way to the caller
  returned   \* the packet the caller last got

receiver == <<newest, pending, fetched, fetching, returned>>

Init ==
  /\ newest = 0 /\ pending = 0
  /\ fetched = 0 /\ fetching = FALSE /\ returned = 0

Arrive ==
  /\ \E n \in Packet : n > newest /\ newest' = n /\ pending' \in {0, n}
  /\ UNCHANGED <<fetched, fetching, returned>>

Lose ==
  /\ pending' = 0
  /\ UNCHANGED <<newest, fetched, fetching, returned>>

\* A packet found for the first time may stay and be found once more.
Fetch ==
  /\ ~fetching /\ pending # 0
  /\ fetched' = pending /\ fetching' = TRUE
  /\ \/ pending' = 0
     \/ pending' = pending /\ fetched # pending
  /\ UNCHANGED <<newest, returned>>

Return ==
  /\ fetching
  /\ returned' = fetched /\ fetching' = FALSE
  /\ UNCHANGED <<newest, pending, fetched>>

\* An exception, or the end of the program.
Abandon ==
  /\ fetching /\ fetching' = FALSE
  /\ UNCHANGED <<newest, pending, fetched, returned>>

Next == Arrive \/ Lose \/ Fetch \/ Return \/ Abandon

Spec == Init /\ [][Next]_receiver
=============================================================================
