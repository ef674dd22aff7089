----------------------------- MODULE PagerLink -----------------------------
(***************************************************************************)
(* Several pagers exchange messages over one LoRa channel.  Each pager     *)
(* runs the loop of main.py: keys, radio, ack timeouts, history flush, and *)
(* then again.  A handler that blocks in a transmission is split there,    *)
(* because the other pagers go on running while it transmits.              *)
(*                                                                         *)
(* The air: while a pager transmits, its chip leaves RX and drops whatever *)
(* packet it had not yet read (lora.py _tx); each other listening pager    *)
(* may or may not hear the packet, and a packet that is heard replaces the *)
(* one still pending there, since the chip has one receive buffer.         *)
(*                                                                         *)
(* Abstractions.  A message is its id: text and sender name never change   *)
(* after the first transmission, and an id (md5 over time and a counter)   *)
(* is taken to be fresh.  Time is not measured: a timer that may have run  *)
(* out is a choice.  Channel edits that were not saved are forgotten by    *)
(* letting a restarted pager come up on any channel.  A packet with a bad  *)
(* CRC is always ignored: LoRaRadio has the race in which such a packet is *)
(* read under the flags of the one before it.                              *)
(***************************************************************************)
EXTENDS Naturals, Sequences

CONSTANTS
  Pager,        \* the pagers within radio range of each other
  Channel,      \* the channels a user selects, a subset of 1..99
  NoPacket,     \* the value of an empty receive buffer
  MaxRetries,   \* MAX_RETRIES
  MaxHistory,   \* MAX_HISTORY
  DedupWindow,  \* how many of the last messages add_message searches
  LoraInit,     \* bound: the results of lora.init() considered
  MaxId,        \* bound: ids given out over the whole run
  MaxStops      \* bound: process stops over the whole run

NoId == 0
Id == 1..MaxId
Packet == [kind : {"msg", "ack"}, id : Id, ch : Channel]

ASSUME BoundsAssumption ==
  /\ MaxRetries \in Nat
  /\ MaxHistory \in Nat \ {0}
  /\ DedupWindow \in Nat
  /\ LoraInit \subseteq BOOLEAN
  /\ MaxId \in Nat
  /\ MaxStops \in Nat
ASSUME NoPacketAssumption == NoPacket \notin Packet

Status == {"local", "sending", "ok", "fail"}
Message == [id : Id \cup {NoId}, out : BOOLEAN, st : Status, retries : 0..MaxRetries]

\* Where the loop of a pager stands.  "add" and "store" are the second halves
\* of a send and of a receive, after the blocking transmission.
Phase == {"off", "keys", "add", "radio", "store", "acks", "retry", "flush"}

VARIABLES
  pc,         \* pc[p]: phase of the main loop
  lora,       \* lora[p]: lora.init() succeeded at this start
  channel,    \* channel[p]: config.channel
  messages,   \* messages[p]: the history in memory, oldest first
  dirty,      \* dirty[p]: _dirty, the history has unsaved changes
  disk,       \* disk[p]: history.json
  current,    \* current[p]: id between a transmission and its add_message
  due,        \* due[p]: positions check_timeouts has still to visit
  buffer,     \* buffer[p]: the packet in the chip's receive buffer
  nextId,     \* the next fresh id
  stops,      \* process stops so far
  attempts,   \* history: attempts[i] transmissions of message i
  accepted    \* history: accepted[p] ids p has acknowledged

loopVars == <<pc, current, due>>
historyVars == <<messages, dirty, disk>>
setupVars == <<lora, channel>>
ghostVars == <<attempts, accepted>>
vars == <<pc, lora, channel, messages, dirty, disk, current, due, buffer,
          nextId, stops, attempts, accepted>>

(***************************************************************************)
(* Histories                                                               *)
(***************************************************************************)
\* messages[-n:]
LastN(s, n) == IF Len(s) <= n THEN s ELSE SubSeq(s, Len(s) - n + 1, Len(s))

\* Message.__init__: only an outgoing message with an id awaits an ack.
NewMessage(id, out) ==
  [id |-> id, out |-> out, retries |-> 0,
   st |-> IF out /\ id # NoId THEN "sending" ELSE "local"]

\* Mutated form: the window is one message short.
SeenLatelyShortWindow(s, id) ==
  \E i \in 1..Len(s) : i > Len(s) - DedupWindow + 1 /\ ~s[i].out /\ s[i].id = id

\* The search of add_message among the last DedupWindow messages.
SeenLately(s, id) ==
  \E i \in 1..Len(s) : i > Len(s) - DedupWindow /\ ~s[i].out /\ s[i].id = id

\* A full history lets go of its oldest message, also of one that still waits.
Added(s, m) == LastN(Append(s, m), MaxHistory)

\* to_dict leaves the retry counter out.
ToDisk(s) ==
  [i \in 1..Len(LastN(s, MaxHistory)) |-> [LastN(s, MaxHistory)[i] EXCEPT !.retries = 0]]

\* Mutated form: pending messages are loaded as pending.
FromDiskStillSending(s) == LastN(s, MaxHistory)

\* _load_history: a message whose ack never came before the stop has failed.
FromDisk(s) ==
  [i \in 1..Len(LastN(s, MaxHistory)) |->
     LET m == LastN(s, MaxHistory)[i]
     IN  [m EXCEPT !.st = IF m.st = "sending" THEN "fail" ELSE m.st]]

Sending(s) == {i \in 1..Len(s) : s[i].st = "sending"}

Init ==
  /\ pc = [p \in Pager |-> "off"]
  /\ lora = [p \in Pager |-> FALSE]
  /\ channel \in [Pager -> Channel]
  /\ messages = [p \in Pager |-> << >>]
  /\ dirty = [p \in Pager |-> FALSE]
  /\ disk = [p \in Pager |-> << >>]
  /\ current = [p \in Pager |-> NoId]
  /\ due = [p \in Pager |-> {}]
  /\ buffer = [p \in Pager |-> NoPacket]
  /\ nextId = 1
  /\ stops = 0
  /\ attempts = [i \in Id |-> 0]
  /\ accepted = [p \in Pager |-> {}]

(***************************************************************************)
(* The air                                                                 *)
(***************************************************************************)
Listeners(p) == {q \in Pager \ {p} : pc[q] # "off" /\ lora[q]}

\* One _tx: the own pending packet is gone, any subset of the listeners hears
\* the packet.  left is what stays in the own buffer when the chip refuses the
\* first command, an exception _tx swallows.
Transmit(p, packet, left) ==
  \/ \E heard \in SUBSET Listeners(p) :
       buffer' = [q \in Pager |-> IF q = p THEN NoPacket
                                  ELSE IF q \in heard THEN packet ELSE buffer[q]]
  \/ buffer' = [buffer EXCEPT ![p] = left]

\* Both are sent on the channel selected at that moment, a retransmission too.
MessagePacket(p, id) == [kind |-> "msg", id |-> id, ch |-> channel[p]]
AckPacket(p, id) == [kind |-> "ack", id |-> id, ch |-> channel[p]]

\* A packet with a bad CRC overwrites the pending one and is then ignored.
Garble(p) ==
  /\ buffer[p] # NoPacket
  /\ buffer' = [buffer EXCEPT ![p] = NoPacket]
  /\ UNCHANGED <<loopVars, historyVars, setupVars, ghostVars, nextId, stops>>

(***************************************************************************)
(* Keys                                                                    *)
(***************************************************************************)
\* No key, or keys that neither send nor change the channel.
NoSend(p) ==
  /\ pc[p] = "keys"
  /\ pc' = [pc EXCEPT ![p] = "radio"]
  /\ UNCHANGED <<historyVars, setupVars, ghostVars, current, due, buffer, nextId, stops>>

\* _handle_channel_edit: any number of steps up or down in one drain.
EditChannel(p) ==
  /\ pc[p] = "keys"
  /\ \E c \in Channel \ {channel[p]} : channel' = [channel EXCEPT ![p] = c]
  /\ pc' = [pc EXCEPT ![p] = "radio"]
  /\ UNCHANGED <<historyVars, ghostVars, lora, current, due, buffer, nextId, stops>>

\* ENTER on a non-empty line: get_message, then lora.send with a fresh id.
SendByRadio(p) ==
  /\ pc[p] = "keys" /\ lora[p] /\ nextId <= MaxId
  /\ nextId' = nextId + 1
  /\ Transmit(p, MessagePacket(p, nextId), buffer[p])
  /\ attempts' = [attempts EXCEPT ![nextId] = 1]
  /\ current' = [current EXCEPT ![p] = nextId]
  /\ pc' = [pc EXCEPT ![p] = "add"]
  /\ UNCHANGED <<historyVars, setupVars, due, stops, accepted>>

\* The same key with a radio that did not come up: no id.
SendWithoutRadio(p) ==
  /\ pc[p] = "keys" /\ ~lora[p]
  /\ pc' = [pc EXCEPT ![p] = "add"]
  /\ UNCHANGED <<historyVars, setupVars, ghostVars, current, due, buffer, nextId, stops>>

AddOutgoing(p) ==
  /\ pc[p] = "add"
  /\ messages' = [messages EXCEPT ![p] = Added(@, NewMessage(current[p], TRUE))]
  /\ dirty' = [dirty EXCEPT ![p] = TRUE]
  /\ current' = [current EXCEPT ![p] = NoId]
  /\ pc' = [pc EXCEPT ![p] = "radio"]
  /\ UNCHANGED <<setupVars, ghostVars, disk, due, buffer, nextId, stops>>

(***************************************************************************)
(* Radio                                                                   *)
(***************************************************************************)
\* A packet that came in while the flags of the one before it were cleared is
\* read now, in its place, and once more when its own flag is seen: it may stay.
AfterReading(p) == {NoPacket, buffer[p]}

\* Nothing pending, or a packet of another channel: read, cleared, ignored.
ReceiveNothing(p) ==
  /\ pc[p] = "radio"
  /\ buffer[p] # NoPacket => buffer[p].ch # channel[p]
  /\ \E left \in AfterReading(p) : buffer' = [buffer EXCEPT ![p] = left]
  /\ pc' = [pc EXCEPT ![p] = "acks"]
  /\ UNCHANGED <<historyVars, setupVars, ghostVars, current, due, nextId, stops>>

Receives(p, kind) ==
  /\ pc[p] = "radio" /\ buffer[p] # NoPacket
  /\ buffer[p].ch = channel[p] /\ buffer[p].kind = kind

\* A message: the ack goes out before the message is stored.
ReceiveMessage(p) ==
  /\ Receives(p, "msg")
  /\ \E left \in AfterReading(p) : Transmit(p, AckPacket(p, buffer[p].id), left)
  /\ accepted' = [accepted EXCEPT ![p] = @ \cup {buffer[p].id}]
  /\ current' = [current EXCEPT ![p] = buffer[p].id]
  /\ pc' = [pc EXCEPT ![p] = "store"]
  /\ UNCHANGED <<historyVars, setupVars, due, nextId, stops, attempts>>

\* add_message for an incoming message: a repeat seen lately changes nothing.
StoreIncoming(p) ==
  /\ pc[p] = "store"
  /\ IF SeenLately(messages[p], current[p])
       THEN UNCHANGED <<messages, dirty>>
       ELSE /\ messages' = [messages EXCEPT ![p] = Added(@, NewMessage(current[p], FALSE))]
            /\ dirty' = [dirty EXCEPT ![p] = TRUE]
  /\ current' = [current EXCEPT ![p] = NoId]
  /\ pc' = [pc EXCEPT ![p] = "acks"]
  /\ UNCHANGED <<setupVars, ghostVars, disk, due, buffer, nextId, stops>>

\* Mutated forms: any message of that id; any waiting message.
DeliveredWhateverStatus(s, id) == {i \in 1..Len(s) : s[i].out /\ s[i].id = id}
DeliveredWhateverId(s, id) == Sending(s)

\* mark_delivered: the newest message with this id that still awaits its ack.
Delivered(s, id) == {i \in Sending(s) : s[i].id = id}

ReceiveAck(p) ==
  /\ Receives(p, "ack")
  /\ LET hits == Delivered(messages[p], buffer[p].id)
     IN  \/ /\ hits = {}
            /\ UNCHANGED <<messages, dirty>>
         \/ \E i \in hits :
              /\ \A j \in hits : j <= i
              /\ messages' = [messages EXCEPT ![p][i].st = "ok"]
              /\ dirty' = [dirty EXCEPT ![p] = TRUE]
  /\ \E left \in AfterReading(p) : buffer' = [buffer EXCEPT ![p] = left]
  /\ pc' = [pc EXCEPT ![p] = "acks"]
  /\ UNCHANGED <<setupVars, ghostVars, disk, current, due, nextId, stops>>

(***************************************************************************)
(* Ack timeouts                                                            *)
(***************************************************************************)
\* Less than ACK_CHECK_INTERVAL since the last check, or nothing overdue.
NothingDue(p) ==
  /\ pc[p] = "acks"
  /\ pc' = [pc EXCEPT ![p] = "flush"]
  /\ UNCHANGED <<historyVars, setupVars, ghostVars, current, due, buffer, nextId, stops>>

\* check_timeouts reads the clock once and so fixes which messages are overdue.
BeginCheck(p, overdue) ==
  /\ pc[p] = "acks" /\ overdue # {}
  /\ due' = [due EXCEPT ![p] = overdue]
  /\ pc' = [pc EXCEPT ![p] = "retry"]
  /\ UNCHANGED <<historyVars, setupVars, ghostVars, current, buffer, nextId, stops>>

\* The loop over the messages, oldest first.
Visits(p, i) ==
  /\ pc[p] = "retry"
  /\ i \in due[p] /\ \A j \in due[p] : i <= j

\* Mutated forms: one retry too many, one too few.
CanRetryOnceMore(p, m) == m.retries <= MaxRetries /\ lora[p] /\ m.id # NoId
CanRetryOnceLess(p, m) == m.retries + 1 < MaxRetries /\ lora[p] /\ m.id # NoId

CanRetry(p, m) == m.retries < MaxRetries /\ lora[p] /\ m.id # NoId

\* Mutated form: the check forgets the dirty flag.
VisitedStaysClean(p, i) ==
  /\ due' = [due EXCEPT ![p] = @ \ {i}]
  /\ pc' = [pc EXCEPT ![p] = IF due[p] = {i} THEN "flush" ELSE @]
  /\ UNCHANGED dirty

\* The last visit ends the check and sets the dirty flag.
Visited(p, i) ==
  /\ due' = [due EXCEPT ![p] = @ \ {i}]
  /\ IF due[p] = {i}
       THEN /\ dirty' = [dirty EXCEPT ![p] = TRUE]
            /\ pc' = [pc EXCEPT ![p] = "flush"]
       ELSE UNCHANGED <<dirty, pc>>

Resend(p, i) ==
  /\ Visits(p, i)
  /\ CanRetry(p, messages[p][i])
  /\ LET id == messages[p][i].id
     IN  /\ Transmit(p, MessagePacket(p, id), buffer[p])
         /\ attempts' = [attempts EXCEPT ![id] = @ + 1]
  /\ messages' = [messages EXCEPT ![p][i].retries = @ + 1]
  /\ Visited(p, i)
  /\ UNCHANGED <<setupVars, disk, current, nextId, stops, accepted>>

\* Mutated form: a message out of retries is skipped instead of failed.
GiveUpSilently(p, i) ==
  /\ Visits(p, i)
  /\ ~CanRetry(p, messages[p][i])
  /\ Visited(p, i)
  /\ UNCHANGED <<messages, setupVars, ghostVars, disk, current, buffer, nextId, stops>>

GiveUp(p, i) ==
  /\ Visits(p, i)
  /\ ~CanRetry(p, messages[p][i])
  /\ messages' = [messages EXCEPT ![p][i].st = "fail"]
  /\ Visited(p, i)
  /\ UNCHANGED <<setupVars, ghostVars, disk, current, buffer, nextId, stops>>

(***************************************************************************)
(* History flush                                                           *)
(***************************************************************************)
\* Nothing is written: FLUSH_INTERVAL has not passed, or nothing is dirty, or
\* the write raised and was swallowed.
FlushNothing(p) ==
  /\ pc[p] = "flush"
  /\ pc' = [pc EXCEPT ![p] = "keys"]
  /\ UNCHANGED <<historyVars, setupVars, ghostVars, current, due, buffer, nextId, stops>>

\* The periodic flush, and among the keys the one of a confirmed reboot, which
\* a later key of the same burst may still undo.
FlushHistory(p) ==
  /\ pc[p] \in {"flush", "keys"} /\ dirty[p]
  /\ disk' = [disk EXCEPT ![p] = ToDisk(messages[p])]
  /\ dirty' = [dirty EXCEPT ![p] = FALSE]
  /\ pc' = [pc EXCEPT ![p] = "keys"]
  /\ UNCHANGED <<setupVars, ghostVars, messages, current, due, buffer, nextId, stops>>

(***************************************************************************)
(* Stops and starts                                                        *)
(***************************************************************************)
\* Everything in memory and in the chip is lost.
Halt(p) ==
  /\ stops < MaxStops
  /\ stops' = stops + 1
  /\ pc' = [pc EXCEPT ![p] = "off"]
  /\ lora' = [lora EXCEPT ![p] = FALSE]
  /\ messages' = [messages EXCEPT ![p] = << >>]
  /\ dirty' = [dirty EXCEPT ![p] = FALSE]
  /\ current' = [current EXCEPT ![p] = NoId]
  /\ due' = [due EXCEPT ![p] = {}]
  /\ buffer' = [buffer EXCEPT ![p] = NoPacket]
  /\ UNCHANGED <<channel, nextId, ghostVars>>

\* Battery out, SIGKILL or SIGTERM: no handler runs.
PowerCut(p) ==
  /\ pc[p] # "off"
  /\ Halt(p)
  /\ UNCHANGED disk

\* The confirmed reboot, or an exception that leaves the loop: SPI errors of
\* send, send_ack and receive are not caught.  The finally block flushes.
Shutdown(p) ==
  /\ pc[p] \in {"keys", "add", "radio", "store"}
  /\ Halt(p)
  /\ \/ dirty[p] /\ disk' = [disk EXCEPT ![p] = ToDisk(messages[p])]
     \/ UNCHANGED disk

\* systemd starts the program again, or the user powers the pager on.
Boot(p) ==
  /\ pc[p] = "off"
  /\ pc' = [pc EXCEPT ![p] = "keys"]
  /\ \E up \in LoraInit : lora' = [lora EXCEPT ![p] = up]
  /\ \E c \in Channel : channel' = [channel EXCEPT ![p] = c]
  /\ messages' = [messages EXCEPT ![p] = FromDisk(disk[p])]
  /\ dirty' = [dirty EXCEPT ![p] = Sending(LastN(disk[p], MaxHistory)) # {}]
  /\ UNCHANGED <<ghostVars, disk, current, due, buffer, nextId, stops>>

(***************************************************************************)
(* Specification                                                           *)
(***************************************************************************)
CheckTimeouts(p) == \E overdue \in SUBSET Sending(messages[p]) : BeginCheck(p, overdue)
VisitNext(p) == \E i \in due[p] : Resend(p, i) \/ GiveUp(p, i)

Step(p) ==
  \/ NoSend(p) \/ EditChannel(p) \/ SendByRadio(p) \/ SendWithoutRadio(p) \/ AddOutgoing(p)
  \/ ReceiveNothing(p) \/ ReceiveMessage(p) \/ StoreIncoming(p) \/ ReceiveAck(p)
  \/ NothingDue(p) \/ CheckTimeouts(p) \/ VisitNext(p)
  \/ FlushNothing(p) \/ FlushHistory(p)

Next == \E p \in Pager : Step(p) \/ Garble(p) \/ PowerCut(p) \/ Shutdown(p) \/ Boot(p)

Spec == Init /\ [][Next]_vars

\* The loop goes round; a message that goes on waiting is some time found
\* overdue by the clock.  Nothing obliges the air to deliver, the user to send,
\* the disk to be written, or a stopped pager to start again.
Covers(p, i, overdue) == \A k \in Sending(messages[p]) : messages[p][k].id = i => k \in overdue
CheckOf(p, i) ==
  \E overdue \in SUBSET Sending(messages[p]) : Covers(p, i, overdue) /\ BeginCheck(p, overdue)

Fairness ==
  \A p \in Pager : /\ WF_vars(Step(p))
                   /\ \A i \in Id : SF_vars(CheckOf(p, i))

FairSpec == Spec /\ Fairness

(***************************************************************************)
(* Properties                                                              *)
(***************************************************************************)
TypeOK ==
  /\ pc \in [Pager -> Phase]
  /\ lora \in [Pager -> BOOLEAN]
  /\ channel \in [Pager -> Channel]
  /\ messages \in [Pager -> Seq(Message)]
  /\ dirty \in [Pager -> BOOLEAN]
  /\ disk \in [Pager -> Seq(Message)]
  /\ current \in [Pager -> Id \cup {NoId}]
  /\ due \in [Pager -> SUBSET Nat]
  /\ buffer \in [Pager -> Packet \cup {NoPacket}]
  /\ nextId \in 1..(MaxId + 1)
  /\ stops \in 0..MaxStops
  /\ attempts \in [Id -> Nat]
  /\ accepted \in [Pager -> SUBSET Id]

\* The history of a pager, in memory and on disk, shows one received message
\* twice only when at least DedupWindow other entries lie between the copies:
\* retransmissions and restarts do not get past add_message's search.
FarApart(s) ==
  \A i, j \in 1..Len(s) :
    i < j /\ ~s[i].out /\ ~s[j].out /\ s[i].id = s[j].id => j - i > DedupWindow

DuplicatesFarApart == \A p \in Pager : FarApart(messages[p]) /\ FarApart(disk[p])

\* However acks are lost and pagers restarted, a message is put on the air at
\* most once plus MAX_RETRIES times: a restart gives no fresh round of retries.
AttemptsBounded == \A i \in Id : attempts[i] <= MaxRetries + 1

\* The attempt number shown next to a waiting message (~1, ~2) is the number of
\* its retransmissions so far, whatever happened to the pager in between.
ShownRetriesAreReal ==
  \A p \in Pager : \A k \in Sending(messages[p]) :
    /\ messages[p][k].id \in Id
    /\ attempts[messages[p][k].id] = messages[p][k].retries + 1

\* A message marked "+", in memory or on disk, has been acknowledged by another
\* pager: no stray or misread ack and no restart makes up a delivery.
OkMeansAccepted ==
  \A p \in Pager :
    \A m \in {messages[p][k] : k \in 1..Len(messages[p])} \cup
             {disk[p][k] : k \in 1..Len(disk[p])} :
      m.st = "ok" => \E q \in Pager \ {p} : m.id \in accepted[q]

\* While the history counts as clean, the disk holds exactly what is shown, so
\* a power cut then loses nothing: no change forgets to set _dirty.
CleanMeansSaved ==
  \A p \in Pager :
    pc[p] \notin {"off", "retry"} /\ ~dirty[p] => disk[p] = ToDisk(messages[p])

\* No two places wait for the ack of the same message, and the message being
\* sent right now has been on the air once and waits nowhere yet.
Outgoing(p) == pc[p] = "add" /\ current[p] # NoId

OneSender ==
  /\ \A p, q \in Pager : \A k \in Sending(messages[p]), l \in Sending(messages[q]) :
       messages[p][k].id = messages[q][l].id => p = q /\ k = l
  /\ \A p, q \in Pager : Outgoing(p) /\ Outgoing(q) /\ current[p] = current[q] => p = q
  /\ \A p, q \in Pager : \A k \in Sending(messages[q]) :
       Outgoing(p) => messages[q][k].id # current[p]
  /\ \A p \in Pager : Outgoing(p) => attempts[current[p]] = 1

IdsGivenOut ==
  \A p \in Pager : /\ pc[p] \notin {"add", "store"} => current[p] = NoId
                   /\ Outgoing(p) => current[p] < nextId
                   /\ \A k \in Sending(messages[p]) : messages[p][k].id < nextId

\* A verdict is final while the program runs: a late ack does not revive a
\* failed message and a late timeout does not fail a delivered one.
SameSent(m, n) == m.out /\ n.out /\ m.id = n.id /\ m.id # NoId

VerdictsAreFinal ==
  [][\A p \in Pager :
       \A i \in 1..Len(messages[p]), j \in 1..Len(messages'[p]) :
         SameSent(messages[p][i], messages'[p][j]) /\ messages[p][i].st # "sending"
           => messages'[p][j].st = messages[p][i].st]_vars

\* A running pager gives a message up only after all MAX_RETRIES + 1
\* transmissions have been made.
FailsOnlyAfterAllAttempts ==
  [][\A p \in Pager :
       \A i \in 1..Len(messages[p]), j \in 1..Len(messages'[p]) :
         SameSent(messages[p][i], messages'[p][j])
           /\ messages[p][i].st = "sending" /\ messages'[p][j].st = "fail"
           => attempts[messages[p][i].id] = MaxRetries + 1]_vars

\* What Delivery says of a pager: its own messages and their status, the one
\* just transmitted included, and the received ones.
Owns(m, i) == m.out /\ m.id = i

StatusOf(s, i) ==
  IF \E k \in 1..Len(s) : Owns(s[k], i)
    THEN s[CHOOSE k \in 1..Len(s) : Owns(s[k], i)].st
    ELSE "none"

SentBy(p) ==
  [i \in Id |-> IF pc[p] = "add" /\ current[p] = i THEN "sending"
                 ELSE StatusOf(messages[p], i)]

ReceivedBy(p) ==
  {i \in Id : \E k \in 1..Len(messages[p]) : ~messages[p][k].out /\ messages[p][k].id = i}

Up == [p \in Pager |-> pc[p] # "off"]
Arriving == [p \in Pager |-> IF pc[p] = "store" THEN {current[p]} ELSE {}]
Sent == [p \in Pager |-> SentBy(p)]
Received == [p \in Pager |-> ReceivedBy(p)]

Promise ==
  INSTANCE Delivery WITH
    MaxAttempts <- MaxRetries + 1,
    up <- Up, arriving <- Arriving, sent <- Sent, received <- Received

\* The link keeps the promise of Delivery: what is acknowledged was sent by
\* another pager and is shown, unless a stop comes between, and what is said of
\* a sent message is true, over all losses, repetitions and restarts.
KeepsPromise == Promise!Spec

\* Every message that waits for its ack some time stops waiting.
Waiting(p, i) == \E k \in Sending(messages[p]) : messages[p][k].id = i

EverySendSettles == \A p \in Pager, i \in Id : Waiting(p, i) ~> ~Waiting(p, i)
=============================================================================
