----------------------- MODULE PagerLinkHistoryProofs -----------------------
(***************************************************************************)
(* Theorems about the histories of PagerLink: what a delivery mark means,  *)
(* what a clean history has on disk, and what may become of a message that *)
(* a pager has sent.  The types and the effects of the single operations   *)
(* come from PagerLinkProofs.                                              *)
(***************************************************************************)
EXTENDS PagerLinkProofs

(***************************************************************************)
(* Delivery marks                                                          *)
(***************************************************************************)
\* The ids other pagers have acknowledged, and a history that marks only them.
Taken(p) == {i \in Id : \E q \in Pager \ {p} : i \in accepted[q]}
MarksOnly(s, ids) == \A k \in 1..Len(s) : s[k].st = "ok" => s[k].id \in ids

\* A mark is made for an ack that was received, so the acks in the buffers must
\* be real ones too.
MarksInv ==
  /\ \A p \in Pager : MarksOnly(messages[p], Taken(p)) /\ MarksOnly(disk[p], Taken(p))
  /\ \A p \in Pager : buffer[p] # NoPacket /\ buffer[p].kind = "ack" =>
       buffer[p].id \in Taken(p)

\* An empty history marks nothing.
LEMMA EmptyMarks == ASSUME NEW ids PROVE MarksOnly(<< >>, ids)
BY EmptySeq DEF MarksOnly

\* Ids once acknowledged stay so.
LEMMA MoreMarks ==
  ASSUME NEW s, NEW ids, NEW more, ids \subseteq more, MarksOnly(s, ids)
  PROVE  MarksOnly(s, more)
BY DEF MarksOnly

\* A new entry that is not marked, and the trimming, keep the marks.
LEMMA AddedMarks ==
  ASSUME NEW s \in Seq(Message), NEW m \in Message, NEW ids, m.st # "ok",
         MarksOnly(s, ids)
  PROVE  MarksOnly(Added(s, m), ids)
<1> DEFINE t == Added(s, m)
           d == Len(s) + 1 - Len(t)
<1>1. /\ t \in Seq(Message) /\ Len(t) \in 1..(Len(s) + 1) /\ t[Len(t)] = m
      /\ \A k \in 1..(Len(t) - 1) : k + d \in 1..Len(s) /\ t[k] = s[k + d]
      /\ Len(s) \in Nat
  BY AddedProperties, LenProperties
<1> HIDE DEF t, d
<1>2. \A k \in 1..Len(t) : k = Len(t) \/ k \in 1..(Len(t) - 1)
  BY <1>1
<1> QED  BY <1>1, <1>2 DEF MarksOnly, t

\* Saving and loading keep the marks.
LEMMA DiskMarks ==
  ASSUME NEW s \in Seq(Message), NEW ids, MarksOnly(s, ids)
  PROVE  MarksOnly(ToDisk(s), ids) /\ MarksOnly(FromDisk(s), ids)
<1>1. MarksOnly(ToDisk(s), ids)
  <2> SUFFICES ASSUME NEW k \in 1..Len(ToDisk(s)), ToDisk(s)[k].st = "ok"
               PROVE  ToDisk(s)[k].id \in ids
    BY DEF MarksOnly
  <2> DEFINE j == k + (Len(s) - Len(ToDisk(s)))
  <2>1. j \in 1..Len(s) /\ ToDisk(s)[k] = [s[j] EXCEPT !.retries = 0]
    BY ToDiskProperties
  <2> HIDE DEF j
  <2>2. s[j] \in Message
    BY <2>1, ElementOfSeq
  <2>3. ToDisk(s)[k].st = s[j].st /\ ToDisk(s)[k].id = s[j].id
    BY <2>1, <2>2 DEF Message
  <2> QED  BY <2>1, <2>3 DEF MarksOnly
<1>2. MarksOnly(FromDisk(s), ids)
  <2> SUFFICES ASSUME NEW k \in 1..Len(FromDisk(s)), FromDisk(s)[k].st = "ok"
               PROVE  FromDisk(s)[k].id \in ids
    BY DEF MarksOnly
  <2> QED  BY FromDiskProperties DEF MarksOnly
<1> QED  BY <1>1, <1>2

\* A change of one entry keeps the marks if it makes none that is not real.
LEMMA ChangedMarks ==
  ASSUME NEW s \in Seq(Message), NEW t, NEW i \in 1..Len(s), NEW ids, MarksOnly(s, ids),
         Len(t) = Len(s), \A j \in 1..Len(s) : j # i => t[j] = s[j],
         t[i].st = "ok" => t[i].id \in ids
  PROVE  MarksOnly(t, ids)
BY DEF MarksOnly

\* A transmitted packet reaches only the other pagers.
LEMMA TransmitAcks ==
  ASSUME Typing, MarksInv, NEW p \in Pager, NEW packet \in Packet,
         NEW left \in {buffer[p], NoPacket}, Transmit(p, packet, left),
         \A q \in Pager : Taken(q) \subseteq Taken(q)',
         packet.kind = "ack" => \A q \in Pager \ {p} : packet.id \in Taken(q)'
  PROVE  \A q \in Pager : buffer'[q] # NoPacket /\ buffer'[q].kind = "ack" =>
           buffer'[q].id \in Taken(q)'
<1> SUFFICES ASSUME NEW q \in Pager, buffer'[q] # NoPacket, buffer'[q].kind = "ack"
             PROVE  buffer'[q].id \in Taken(q)'
  OBVIOUS
<1>1. buffer'[q] = buffer[q] \/ (q # p /\ buffer'[q] = packet)
  BY DEF Transmit, Typing, TypeOK
<1> QED  BY <1>1 DEF MarksInv

\* What a pager has acknowledged is not forgotten.
LEMMA TakenGrows ==
  ASSUME Typing, [Next]_vars
  PROVE  \A q \in Pager : Taken(q) \subseteq Taken(q)'
<1>1. \A q \in Pager : accepted[q] \subseteq accepted'[q]
  <2>1. UNCHANGED accepted \/ \E p \in Pager : ReceiveMessage(p)
    <3>1. ASSUME NEW p \in Pager, Step(p), ~ReceiveMessage(p) PROVE UNCHANGED accepted
      <4>1. NoSend(p) \/ EditChannel(p) \/ SendByRadio(p) \/ SendWithoutRadio(p)
            \/ AddOutgoing(p) => UNCHANGED accepted
        BY DEF NoSend, EditChannel, SendByRadio, SendWithoutRadio, AddOutgoing, ghostVars
      <4>2. ReceiveNothing(p) \/ StoreIncoming(p) \/ ReceiveAck(p) => UNCHANGED accepted
        BY DEF ReceiveNothing, StoreIncoming, ReceiveAck, ghostVars
      <4>3. NothingDue(p) \/ CheckTimeouts(p) \/ VisitNext(p) => UNCHANGED accepted
        BY DEF NothingDue, CheckTimeouts, BeginCheck, VisitNext, Resend, GiveUp, ghostVars
      <4>4. FlushNothing(p) \/ FlushHistory(p) => UNCHANGED accepted
        BY DEF FlushNothing, FlushHistory, ghostVars
      <4> QED  BY <3>1, <4>1, <4>2, <4>3, <4>4 DEF Step
    <3>2. ASSUME NEW p \in Pager, Garble(p) \/ PowerCut(p) \/ Shutdown(p) \/ Boot(p)
          PROVE  UNCHANGED accepted
      BY <3>2 DEF Garble, PowerCut, Shutdown, Halt, Boot, ghostVars
    <3>3. UNCHANGED vars => UNCHANGED accepted
      BY DEF vars
    <3> QED  BY <3>1, <3>2, <3>3 DEF Next
  <2>2. ASSUME NEW p \in Pager, ReceiveMessage(p)
        PROVE  \A q \in Pager : accepted[q] \subseteq accepted'[q]
    <3>1. /\ accepted \in [Pager -> SUBSET Id]
          /\ accepted' = [accepted EXCEPT ![p] = @ \cup {buffer[p].id}]
      BY <2>2 DEF ReceiveMessage, Typing, TypeOK
    <3> QED  BY <3>1
  <2> QED  BY <2>1, <2>2
<1> SUFFICES ASSUME NEW q \in Pager, NEW i \in Taken(q)
             PROVE  i \in Taken(q)'
  OBVIOUS
<1>2. PICK r \in Pager \ {q} : i \in accepted[r]
  BY DEF Taken
<1>3. i \in Id /\ i \in accepted'[r]
  BY <1>1, <1>2 DEF Taken
<1> QED  BY <1>3 DEF Taken

\* MarksInv is inductive relative to Typing.
LEMMA MarksNext ==
  ASSUME Typing, MarksInv, [Next]_vars
  PROVE  MarksInv'
<1> USE DEF Typing, TypeOK
<1>1. \A q \in Pager : Taken(q) \subseteq Taken(q)'
  BY TakenGrows
<1>2. \A q \in Pager : MarksOnly(messages[q], Taken(q)') /\ MarksOnly(disk[q], Taken(q)')
  BY <1>1, MoreMarks DEF MarksInv
\* Steps that touch the history of one pager, or no history.
<1>3. ASSUME NEW p \in Pager, MarksOnly(messages'[p], Taken(p)'),
             \A q \in Pager \ {p} : messages'[q] = messages[q],
             UNCHANGED disk,
             \A q \in Pager : buffer'[q] # NoPacket /\ buffer'[q].kind = "ack" =>
               buffer'[q].id \in Taken(q)'
      PROVE  MarksInv'
  BY <1>2, <1>3 DEF MarksInv
\* Packets that stay or go.
<1>4. ASSUME \A q \in Pager : buffer'[q] = buffer[q] \/ buffer'[q] = NoPacket
      PROVE  \A q \in Pager : buffer'[q] # NoPacket /\ buffer'[q].kind = "ack" =>
               buffer'[q].id \in Taken(q)'
  BY <1>1, <1>4 DEF MarksInv
<1>5. ASSUME NEW p \in Pager, SendByRadio(p) PROVE MarksInv'
  <2>1. MessagePacket(p, nextId) \in Packet /\ MessagePacket(p, nextId).kind = "msg"
    BY <1>5, BoundsAssumption DEF SendByRadio, MessagePacket, Packet, Id
  <2>2. \A q \in Pager : buffer'[q] # NoPacket /\ buffer'[q].kind = "ack" =>
          buffer'[q].id \in Taken(q)'
    BY <1>1, <1>5, <2>1, TransmitAcks DEF SendByRadio
  <2> QED  BY <1>2, <1>3, <1>5, <2>2 DEF SendByRadio, historyVars
<1>6. ASSUME NEW p \in Pager, AddOutgoing(p) PROVE MarksInv'
  <2>1. NewMessage(current[p], TRUE) \in Message /\ NewMessage(current[p], TRUE).st # "ok"
    BY NewMessageType DEF NewMessage
  <2>2. MarksOnly(Added(messages[p], NewMessage(current[p], TRUE)), Taken(p)')
    BY <1>2, <2>1, AddedMarks
  <2> QED  BY <1>3, <1>4, <1>6, <2>2 DEF AddOutgoing
<1>7. ASSUME NEW p \in Pager, ReceiveMessage(p) PROVE MarksInv'
  <2> DEFINE packet == AckPacket(p, buffer[p].id)
  <2>1. buffer[p].id \in Id /\ packet \in Packet /\ packet.id = buffer[p].id
    BY <1>7 DEF ReceiveMessage, Receives, AckPacket, Packet
  <2>2. \A q \in Pager \ {p} : packet.id \in Taken(q)'
    BY <1>7, <2>1 DEF ReceiveMessage, Taken
  <2>3. PICK left \in {buffer[p], NoPacket} : Transmit(p, packet, left)
    BY <1>7 DEF ReceiveMessage, AfterReading
  <2> HIDE DEF packet
  <2>4. \A q \in Pager : buffer'[q] # NoPacket /\ buffer'[q].kind = "ack" =>
          buffer'[q].id \in Taken(q)'
    BY <1>1, <2>1, <2>2, <2>3, TransmitAcks
  <2> QED  BY <1>2, <1>3, <1>7, <2>4 DEF ReceiveMessage, historyVars
<1>8. ASSUME NEW p \in Pager, StoreIncoming(p) PROVE MarksInv'
  <2>1. NewMessage(current[p], FALSE) \in Message /\ NewMessage(current[p], FALSE).st # "ok"
    BY NewMessageType DEF NewMessage
  <2>2. MarksOnly(Added(messages[p], NewMessage(current[p], FALSE)), Taken(p)')
    BY <1>2, <2>1, AddedMarks
  <2> QED  BY <1>2, <1>3, <1>4, <1>8, <2>2 DEF StoreIncoming
<1>9. ASSUME NEW p \in Pager, ReceiveAck(p) PROVE MarksInv'
  <2>1. /\ UNCHANGED disk /\ buffer[p].id \in Taken(p)'
        /\ \A q \in Pager : buffer'[q] = buffer[q] \/ buffer'[q] = NoPacket
    BY <1>1, <1>9 DEF ReceiveAck, Receives, AfterReading, MarksInv
  <2>2. CASE UNCHANGED messages
    BY <1>2, <1>3, <1>4, <2>1, <2>2
  <2>3. CASE ~UNCHANGED messages
    <3>1. PICK i \in Sending(messages[p]) :
            /\ messages[p][i] \in Message
            /\ messages[p][i].id = buffer[p].id
            /\ messages' \in [Pager -> Seq(Message)]
            /\ \A q \in Pager \ {p} : messages'[q] = messages[q]
            /\ Len(messages'[p]) = Len(messages[p])
            /\ \A j \in 1..Len(messages[p]) : j # i => messages'[p][j] = messages[p][j]
            /\ messages'[p][i] = [messages[p][i] EXCEPT !.st = "ok"]
      BY <1>9, <2>3, AckChange
    <3>2. i \in 1..Len(messages[p]) /\ messages'[p][i].id = buffer[p].id
      BY <3>1 DEF Sending, Message
    <3>3. MarksOnly(messages'[p], Taken(p)')
      <4> DEFINE ids == Taken(p)'
                 t == messages'[p]
      <4>1. MarksOnly(messages[p], ids) /\ messages[p] \in Seq(Message)
        BY <1>2
      <4>2. t[i].st = "ok" => t[i].id \in ids
        BY <2>1, <3>2
      <4>3. Len(t) = Len(messages[p]) /\ \A j \in 1..Len(messages[p]) : j # i => t[j] = messages[p][j]
        BY <3>1
      <4> HIDE DEF ids, t
      <4>4. MarksOnly(t, ids)
        BY <3>2, <4>1, <4>2, <4>3, ChangedMarks
      <4> QED  BY <4>4 DEF ids, t
    <3> QED  BY <1>3, <1>4, <2>1, <3>1, <3>3
  <2> QED  BY <2>2, <2>3
<1>10. ASSUME NEW p \in Pager, NEW i \in due[p], Resend(p, i) \/ GiveUp(p, i)
       PROVE  MarksInv'
  <2>1. /\ i \in Sending(messages[p]) /\ messages[p][i] \in Message
        /\ \A q \in Pager \ {p} : messages'[q] = messages[q]
        /\ Len(messages'[p]) = Len(messages[p])
        /\ \A j \in 1..Len(messages[p]) : j # i => messages'[p][j] = messages[p][j]
        /\ Resend(p, i) => /\ messages'[p][i] = [messages[p][i] EXCEPT !.retries = @ + 1]
                           /\ messages[p][i].id \in Id
        /\ GiveUp(p, i) => messages'[p][i] = [messages[p][i] EXCEPT !.st = "fail"]
    BY <1>10, VisitTyping
  <2>2. i \in 1..Len(messages[p]) /\ messages[p][i].st = "sending"
    BY <2>1 DEF Sending
  <2>3. messages'[p][i].st # "ok"
    BY <1>10, <2>1, <2>2 DEF Message
  <2>4. MarksOnly(messages'[p], Taken(p)')
    <3> DEFINE ids == Taken(p)'
               t == messages'[p]
    <3>1. MarksOnly(messages[p], ids) /\ messages[p] \in Seq(Message)
      BY <1>2
    <3>2. /\ t[i].st = "ok" => t[i].id \in ids
          /\ Len(t) = Len(messages[p])
          /\ \A j \in 1..Len(messages[p]) : j # i => t[j] = messages[p][j]
      BY <2>1, <2>3
    <3> HIDE DEF ids, t
    <3>3. MarksOnly(t, ids)
      BY <2>2, <3>1, <3>2, ChangedMarks
    <3> QED  BY <3>3 DEF ids, t
  <2>5. \A q \in Pager : buffer'[q] # NoPacket /\ buffer'[q].kind = "ack" =>
          buffer'[q].id \in Taken(q)'
    <3>1. CASE Resend(p, i)
      <4>1. MessagePacket(p, messages[p][i].id) \in Packet
            /\ MessagePacket(p, messages[p][i].id).kind = "msg"
        BY <2>1, <3>1 DEF MessagePacket, Packet
      <4>2. Transmit(p, MessagePacket(p, messages[p][i].id), buffer[p])
        BY <3>1 DEF Resend
      <4> QED  BY <1>1, <4>1, <4>2, TransmitAcks
    <3>2. CASE GiveUp(p, i)
      BY <1>4, <3>2 DEF GiveUp
    <3> QED  BY <1>10, <3>1, <3>2
  <2>6. UNCHANGED disk
    BY <1>10 DEF Resend, GiveUp
  <2> QED  BY <1>3, <2>1, <2>4, <2>5, <2>6
<1>11. ASSUME NEW p \in Pager, FlushHistory(p) \/ PowerCut(p) \/ Shutdown(p)
       PROVE  MarksInv'
  <2>1. MarksOnly(ToDisk(messages[p]), Taken(p)') /\ MarksOnly(<< >>, Taken(p)')
    BY <1>2, DiskMarks, EmptyMarks
  <2>2. /\ UNCHANGED messages \/ messages' = [messages EXCEPT ![p] = << >>]
        /\ UNCHANGED disk \/ disk' = [disk EXCEPT ![p] = ToDisk(messages[p])]
        /\ \A q \in Pager : buffer'[q] = buffer[q] \/ buffer'[q] = NoPacket
    BY <1>11 DEF FlushHistory, PowerCut, Shutdown, Halt
  <2>3. \A q \in Pager : MarksOnly(messages'[q], Taken(q)') /\ MarksOnly(disk'[q], Taken(q)')
    BY <1>2, <2>1, <2>2
  <2> QED  BY <1>4, <2>2, <2>3 DEF MarksInv
<1>12. ASSUME NEW p \in Pager, Boot(p) PROVE MarksInv'
  <2>1. MarksOnly(FromDisk(disk[p]), Taken(p)')
    BY <1>2, DiskMarks
  <2> QED  BY <1>3, <1>4, <1>12, <2>1 DEF Boot
<1>13. ASSUME UNCHANGED <<messages, disk>>,
              \A q \in Pager : buffer'[q] = buffer[q] \/ buffer'[q] = NoPacket
       PROVE  MarksInv'
  BY <1>2, <1>4, <1>13 DEF MarksInv
<1>14. ASSUME NEW p \in Pager,
              NoSend(p) \/ EditChannel(p) \/ SendWithoutRadio(p) \/ ReceiveNothing(p)
              \/ NothingDue(p) \/ CheckTimeouts(p) \/ FlushNothing(p) \/ Garble(p)
       PROVE  /\ UNCHANGED <<messages, disk>>
              /\ \A q \in Pager : buffer'[q] = buffer[q] \/ buffer'[q] = NoPacket
  BY <1>14 DEF NoSend, EditChannel, SendWithoutRadio, ReceiveNothing, AfterReading,
               NothingDue, CheckTimeouts, BeginCheck, FlushNothing, Garble, historyVars
<1>15. CASE UNCHANGED vars
  BY <1>13, <1>15 DEF vars
<1> QED
  BY <1>5, <1>6, <1>7, <1>8, <1>9, <1>10, <1>11, <1>12, <1>13, <1>14, <1>15
  DEF Next, Step, VisitNext

\* A message marked as delivered was acknowledged by another pager.
THEOREM MarksHold == Spec => []OkMeansAccepted
<1>1. Init => MarksInv
  BY EmptyMarks DEF Init, MarksInv
<1>2. Typing /\ MarksInv /\ [Next]_vars => MarksInv'
  BY MarksNext
<1>3. MarksInv => OkMeansAccepted
  BY DEF MarksInv, MarksOnly, Taken, OkMeansAccepted
<1> QED  BY <1>1, <1>2, <1>3, TypingInit, TypingNext, PTL DEF Spec

(***************************************************************************)
(* What is on disk                                                         *)
(***************************************************************************)
\* A restarted pager counts its history as clean without having written it, so
\* the file must be what writing it again would give.
Saved(p) ==
  /\ disk[p] = ToDisk(disk[p])
  /\ pc[p] \notin {"off", "retry"} /\ ~dirty[p] => disk[p] = ToDisk(messages[p])

SavedInv == \A p \in Pager : Saved(p)

\* A history that was trimmed once needs no more trimming.
LEMMA LastNTwice ==
  ASSUME NEW s \in Seq(Message)
  PROVE  LastN(LastN(s, MaxHistory), MaxHistory) = LastN(s, MaxHistory)
<1>1. Len(LastN(s, MaxHistory)) <= MaxHistory
  BY LastNProperties, LenProperties, BoundsAssumption
<1> QED  BY <1>1 DEF LastN

\* Writing what was read from the file changes nothing.
LEMMA ToDiskTwice ==
  ASSUME NEW s \in Seq(Message)
  PROVE  ToDisk(ToDisk(s)) = ToDisk(s)
<1> DEFINE l == LastN(s, MaxHistory)
           d == ToDisk(s)
<1>1. /\ l \in Seq(Message) /\ Len(l) \in Nat /\ Len(l) <= MaxHistory
  BY LastNProperties, LenProperties, BoundsAssumption
<1>2. d \in Seq(Message) /\ Len(d) = Len(l)
  BY ToDiskProperties
<1>3. d = [i \in 1..Len(l) |-> [l[i] EXCEPT !.retries = 0]]
  BY DEF ToDisk
<1> HIDE DEF l, d
<1>4. LastN(d, MaxHistory) = d
  BY <1>1, <1>2 DEF LastN
<1>5. ToDisk(d) = [i \in 1..Len(d) |-> [d[i] EXCEPT !.retries = 0]]
  BY <1>4 DEF ToDisk
<1>6. \A i \in 1..Len(l) : l[i] \in Message
  BY <1>1, ElementOfSeq
<1>7. \A m \in Message :
        [[m EXCEPT !.retries = 0] EXCEPT !.retries = 0] = [m EXCEPT !.retries = 0]
  BY DEF Message
<1>8. \A i \in 1..Len(l) : [d[i] EXCEPT !.retries = 0] = d[i]
  BY <1>3, <1>6, <1>7
<1>9. ToDisk(d) = d
  BY <1>2, <1>3, <1>5, <1>8
<1> QED  BY <1>9 DEF d

\* Loading a history in which nothing waits changes nothing in it.
LEMMA LoadedClean ==
  ASSUME NEW s \in Seq(Message), Sending(LastN(s, MaxHistory)) = {}
  PROVE  ToDisk(FromDisk(s)) = ToDisk(s)
<1> DEFINE l == LastN(s, MaxHistory)
           Verdict(m) == [m EXCEPT !.st = IF m.st = "sending" THEN "fail" ELSE m.st]
<1>1. l \in Seq(Message) /\ Len(l) \in Nat
  BY LastNProperties, LenProperties, BoundsAssumption
<1>2. FromDisk(s) = [k \in 1..Len(l) |-> Verdict(l[k])]
  BY DEF FromDisk
<1>3. \A k \in 1..Len(l) : l[k].st # "sending"
  BY DEF Sending
<1> HIDE DEF l
<1>4. \A k \in 1..Len(l) : l[k] \in Message
  BY <1>1, ElementOfSeq
<1>5. \A m \in Message : m.st # "sending" => Verdict(m) = m
  BY DEF Message
<1> HIDE DEF Verdict
<1>6. FromDisk(s) = [k \in 1..Len(l) |-> l[k]]
  BY <1>2, <1>3, <1>4, <1>5
<1>7. FromDisk(s) = l
  BY <1>1, <1>6
<1>8. LastN(l, MaxHistory) = l
  BY LastNTwice DEF l
<1> QED  BY <1>7, <1>8 DEF ToDisk, l

\* SavedInv is inductive relative to Typing.  A step changes at most what one
\* pager keeps.
LEMMA SavedNext ==
  ASSUME Typing, SavedInv, [Next]_vars
  PROVE  SavedInv'
<1> USE DEF Typing, TypeOK
<1> DEFINE Same(q) == /\ pc'[q] = pc[q] /\ dirty'[q] = dirty[q]
                      /\ messages'[q] = messages[q] /\ disk'[q] = disk[q]
<1>1. ASSUME NEW q \in Pager, Same(q) PROVE Saved(q)'
  BY <1>1 DEF SavedInv, Saved
<1>2. ASSUME NEW p \in Pager, Saved(p)', \A q \in Pager \ {p} : Same(q)
      PROVE  SavedInv'
  BY <1>1, <1>2 DEF SavedInv
<1> HIDE DEF Same
\* Steps of the loop that leave the histories alone.
<1>3. ASSUME NEW p \in Pager,
             \/ NoSend(p) \/ EditChannel(p) \/ SendByRadio(p) \/ SendWithoutRadio(p)
             \/ ReceiveNothing(p) \/ ReceiveMessage(p) \/ NothingDue(p)
             \/ CheckTimeouts(p) \/ FlushNothing(p) \/ Garble(p)
      PROVE  SavedInv'
  <2>1. /\ UNCHANGED historyVars
        /\ UNCHANGED pc \/ \E new \in Phase \ {"off"} : pc' = [pc EXCEPT ![p] = new]
        /\ pc[p] \in {"off", "retry"} => UNCHANGED pc
    BY <1>3 DEF NoSend, EditChannel, SendByRadio, SendWithoutRadio, ReceiveNothing,
                ReceiveMessage, Receives, NothingDue, CheckTimeouts, BeginCheck,
                FlushNothing, Garble, loopVars, Phase
  <2>2. /\ UNCHANGED historyVars
        /\ pc[p] \in {"off", "retry"} => pc'[p] = pc[p]
        /\ \A q \in Pager \ {p} : pc'[q] = pc[q]
    BY <2>1
  <2>3. Saved(p)'
    BY <2>2 DEF SavedInv, Saved, historyVars
  <2>4. \A q \in Pager \ {p} : Same(q)
    BY <2>2 DEF Same, historyVars
  <2> QED  BY <1>2, <2>3, <2>4
\* Steps that change a history and set the flag, or change nothing.
<1>4. ASSUME NEW p \in Pager, AddOutgoing(p) \/ StoreIncoming(p) \/ ReceiveAck(p)
      PROVE  SavedInv'
  <2>1. /\ pc[p] \in {"add", "store", "radio"}
        /\ disk' = disk
        /\ \A q \in Pager \ {p} : pc'[q] = pc[q]
    BY <1>4 DEF AddOutgoing, StoreIncoming, ReceiveAck, Receives
  <2>2. \/ UNCHANGED <<messages, dirty>>
        \/ /\ dirty' = [dirty EXCEPT ![p] = TRUE]
           /\ \A q \in Pager \ {p} : messages'[q] = messages[q]
    <3>1. CASE AddOutgoing(p)
      BY <3>1 DEF AddOutgoing
    <3>2. CASE StoreIncoming(p)
      BY <3>2 DEF StoreIncoming
    <3>3. CASE ReceiveAck(p)
      BY <3>3 DEF ReceiveAck
    <3> QED  BY <1>4, <3>1, <3>2, <3>3
  <2>3. CASE UNCHANGED <<messages, dirty>>
    <3>1. Saved(p)'
      BY <2>1, <2>3 DEF SavedInv, Saved
    <3>2. \A q \in Pager \ {p} : Same(q)
      BY <2>1, <2>3 DEF Same
    <3> QED  BY <1>2, <3>1, <3>2
  <2>4. CASE /\ dirty' = [dirty EXCEPT ![p] = TRUE]
             /\ \A q \in Pager \ {p} : messages'[q] = messages[q]
    <3>1. dirty'[p]
      BY <2>4
    <3>2. Saved(p)'
      BY <2>1, <3>1 DEF SavedInv, Saved
    <3>3. \A q \in Pager \ {p} : Same(q)
      BY <2>1, <2>4 DEF Same
    <3> QED  BY <1>2, <3>2, <3>3
  <2> QED  BY <2>2, <2>3, <2>4
\* A check sets the flag on its last visit, and is not judged before.
<1>5. ASSUME NEW p \in Pager, NEW i \in due[p], Resend(p, i) \/ GiveUp(p, i)
      PROVE  SavedInv'
  <2>1. /\ pc[p] = "retry" /\ disk' = disk
        /\ \A q \in Pager \ {p} : messages'[q] = messages[q]
        /\ Visited(p, i)
    BY <1>5, VisitTyping DEF Resend, GiveUp, Visits
  <2>2. /\ dirty'[p] \/ pc'[p] = "retry"
        /\ \A q \in Pager \ {p} : pc'[q] = pc[q] /\ dirty'[q] = dirty[q]
    BY <2>1 DEF Visited
  <2>3. Saved(p)'
    BY <2>1, <2>2 DEF SavedInv, Saved
  <2>4. \A q \in Pager \ {p} : Same(q)
    BY <2>1, <2>2 DEF Same
  <2> QED  BY <1>2, <2>3, <2>4
<1>6. ASSUME NEW p \in Pager, FlushHistory(p) PROVE SavedInv'
  <2>1. /\ disk'[p] = ToDisk(messages[p]) /\ messages'[p] = messages[p]
    BY <1>6 DEF FlushHistory
  <2>2. ToDisk(disk'[p]) = disk'[p]
    BY <2>1, ToDiskTwice
  <2>3. Saved(p)'
    BY <2>1, <2>2 DEF Saved
  <2>4. \A q \in Pager \ {p} : Same(q)
    BY <1>6 DEF FlushHistory, Same
  <2> QED  BY <1>2, <2>3, <2>4
<1>7. ASSUME NEW p \in Pager, PowerCut(p) \/ Shutdown(p) PROVE SavedInv'
  <2>1. /\ pc'[p] = "off"
        /\ disk'[p] = disk[p] \/ disk'[p] = ToDisk(messages[p])
        /\ \A q \in Pager \ {p} : disk'[q] = disk[q]
    BY <1>7 DEF PowerCut, Shutdown, Halt
  <2>2. ToDisk(disk'[p]) = disk'[p]
    BY <2>1, ToDiskTwice DEF SavedInv, Saved
  <2>3. Saved(p)'
    BY <2>1, <2>2 DEF Saved
  <2>4. \A q \in Pager \ {p} : Same(q)
    BY <1>7, <2>1 DEF PowerCut, Shutdown, Halt, Same
  <2> QED  BY <1>2, <2>3, <2>4
\* A start counts the history as clean only when nothing in it had to change.
<1>8. ASSUME NEW p \in Pager, Boot(p) PROVE SavedInv'
  <2>1. /\ disk' = disk /\ messages'[p] = FromDisk(disk[p])
        /\ dirty'[p] = (Sending(LastN(disk[p], MaxHistory)) # {})
    BY <1>8 DEF Boot
  <2>2. ~dirty'[p] => ToDisk(messages'[p]) = ToDisk(disk[p])
    BY <2>1, LoadedClean
  <2>3. Saved(p)'
    BY <2>1, <2>2 DEF SavedInv, Saved
  <2>4. \A q \in Pager \ {p} : Same(q)
    BY <1>8 DEF Boot, Same
  <2> QED  BY <1>2, <2>3, <2>4
<1>9. CASE UNCHANGED vars
  BY <1>1, <1>9 DEF SavedInv, Same, vars
<1> QED
  BY <1>3, <1>4, <1>5, <1>6, <1>7, <1>8, <1>9 DEF Next, Step, VisitNext

\* While the history counts as clean the disk holds exactly what is shown, so a
\* power cut then loses nothing.
THEOREM SavedHolds == Spec => []CleanMeansSaved
<1>1. Init => SavedInv
  <2>1. ToDisk(<< >>) = << >>
    BY ToDiskProperties, EmptySeq, BoundsAssumption DEF ToDisk, LastN
  <2> SUFFICES ASSUME Init, NEW p \in Pager PROVE Saved(p)
    BY DEF SavedInv
  <2>2. disk[p] = << >> /\ pc[p] = "off"
    BY DEF Init
  <2> QED  BY <2>1, <2>2 DEF Saved
<1>2. Typing /\ SavedInv /\ [Next]_vars => SavedInv'
  BY SavedNext
<1>3. SavedInv => CleanMeansSaved
  BY DEF SavedInv, Saved, CleanMeansSaved
<1> QED  BY <1>1, <1>2, <1>3, TypingInit, TypingNext, PTL DEF Spec

(***************************************************************************)
(* Own ids                                                                 *)
(***************************************************************************)
\* In single steps an entry is recognised by its id, so the ids of a pager's
\* own messages must be different, in memory and on disk.
\*
\* The own messages of a history have different ids, all given out before n.
NotSent(s, id) == \A k \in 1..Len(s) : s[k].out => s[k].id # id
SentOnce(s) == \A i, j \in 1..Len(s) : SameSent(s[i], s[j]) => i = j
SentBelow(s, n) == \A k \in 1..Len(s) : s[k].out /\ s[k].id # NoId => s[k].id < n
OwnIds(s, n) == SentOnce(s) /\ SentBelow(s, n)

\* What makes the step properties true: own ids, the id being sent is in no
\* entry yet, a pager that is off shows nothing, and a radio that is down has
\* sent nothing that waits.
SentInv ==
  \A p \in Pager :
    /\ OwnIds(messages[p], nextId) /\ OwnIds(disk[p], nextId)
    /\ Outgoing(p) => NotSent(messages[p], current[p])
    /\ pc[p] = "off" => messages[p] = << >>
    /\ Outgoing(p) \/ Sending(messages[p]) # {} => lora[p]

\* An empty history has no own messages.
LEMMA EmptyOwnIds == ASSUME NEW n PROVE OwnIds(<< >>, n)
BY EmptySeq DEF OwnIds, SentOnce, SentBelow

\* More ids given out change nothing.
LEMMA MoreOwnIds ==
  ASSUME NEW s \in Seq(Message), NEW n \in Nat, OwnIds(s, n)
  PROVE  OwnIds(s, n + 1)
<1>1. \A k \in 1..Len(s) : s[k].id \in Nat
  <2>1. \A k \in 1..Len(s) : s[k] \in Message
    BY ElementOfSeq
  <2> QED  BY <2>1, BoundsAssumption DEF Message, Id, NoId
<1> QED  BY <1>1 DEF OwnIds, SentBelow

\* A stretch of a history has no more own messages than the history.
LEMMA OwnIdsPart ==
  ASSUME NEW s \in Seq(Message), NEW t \in Seq(Message), NEW n, OwnIds(s, n), PartOf(t, s)
  PROVE  OwnIds(t, n)
<1> PICK d \in Nat : \A k \in 1..Len(t) : /\ k + d \in 1..Len(s)
                                          /\ t[k].id = s[k + d].id
                                          /\ t[k].out = s[k + d].out
  BY DEF PartOf
<1>1. SentBelow(t, n)
  BY DEF SentBelow, OwnIds
<1>2. SentOnce(t)
  <2> SUFFICES ASSUME NEW i \in 1..Len(t), NEW j \in 1..Len(t), SameSent(t[i], t[j])
               PROVE  i = j
    BY DEF SentOnce
  <2>1. SameSent(s[i + d], s[j + d]) /\ i + d \in 1..Len(s) /\ j + d \in 1..Len(s)
    BY DEF SameSent
  <2>2. i + d = j + d
    BY <2>1 DEF OwnIds, SentOnce
  <2> QED  BY <2>2, LenProperties
<1> QED  BY <1>1, <1>2 DEF OwnIds

\* A new entry with an id of its own joins the own messages.
LEMMA OwnIdsAdded ==
  ASSUME NEW s \in Seq(Message), NEW m \in Message, NEW n, OwnIds(s, n),
         m.out /\ m.id # NoId => m.id < n /\ NotSent(s, m.id)
  PROVE  OwnIds(Added(s, m), n)
<1> DEFINE t == Added(s, m)
           d == Len(s) + 1 - Len(t)
<1>1. /\ t \in Seq(Message) /\ Len(t) \in 1..(Len(s) + 1) /\ t[Len(t)] = m
      /\ \A k \in 1..(Len(t) - 1) : k + d \in 1..Len(s) /\ t[k] = s[k + d]
      /\ Len(s) \in Nat
  BY AddedProperties, LenProperties
<1> HIDE DEF t
<1>2. \A k \in 1..Len(t) : k = Len(t) \/ k \in 1..(Len(t) - 1)
  BY <1>1
<1>3. SentBelow(t, n)
  BY <1>1, <1>2 DEF OwnIds, SentBelow
<1>4. ASSUME NEW k \in 1..(Len(t) - 1), SameSent(t[k], m) \/ SameSent(m, t[k]) PROVE FALSE
  <2>1. s[k + d].out /\ s[k + d].id = m.id /\ k + d \in 1..Len(s) /\ m.out /\ m.id # NoId
    BY <1>1, <1>4 DEF SameSent
  <2> QED  BY <2>1 DEF NotSent
<1>5. SentOnce(t)
  <2> SUFFICES ASSUME NEW i \in 1..Len(t), NEW j \in 1..Len(t), SameSent(t[i], t[j])
               PROVE  i = j
    BY DEF SentOnce
  <2>1. CASE i = Len(t) \/ j = Len(t)
    BY <1>1, <1>2, <1>4, <2>1
  <2>2. CASE i # Len(t) /\ j # Len(t)
    <3>1. i \in 1..(Len(t) - 1) /\ j \in 1..(Len(t) - 1)
      BY <1>2, <2>2
    <3>2. i + d \in 1..Len(s) /\ j + d \in 1..Len(s) /\ SameSent(s[i + d], s[j + d])
      BY <1>1, <3>1
    <3>3. i + d = j + d
      BY <3>2 DEF OwnIds, SentOnce
    <3> QED  BY <1>1, <3>3
  <2> QED  BY <2>1, <2>2
<1> QED  BY <1>3, <1>5 DEF OwnIds, t

(***************************************************************************)
(* What a step does to a history                                           *)
(***************************************************************************)
\* A step adds an entry, changes one that waits, loads or drops the history of
\* a pager, or leaves it alone.
Grows(q) ==
  \E m \in Message :
    /\ messages'[q] = Added(messages[q], m)
    /\ m = NewMessage(current[q], m.out)
    /\ pc[q] = IF m.out THEN "add" ELSE "store"
    /\ m.out /\ m.id # NoId => m.id < nextId /\ NotSent(messages[q], m.id)
    /\ m.st = "sending" => Outgoing(q)

Changes(q) ==
  \E k \in Sending(messages[q]) :
    /\ messages'[q] \in Seq(Message) /\ Len(messages'[q]) = Len(messages[q])
    /\ \A j \in 1..Len(messages[q]) : j # k => messages'[q][j] = messages[q][j]
    /\ messages'[q][k].id = messages[q][k].id /\ messages'[q][k].out = messages[q][k].out
    /\ messages'[q][k].st \in {"sending", "ok"} \/ (messages'[q][k].st = "fail" /\ GiveUp(q, k))

Loads(q) == messages[q] = << >> /\ messages'[q] = FromDisk(disk[q])

\* There is no other way for a history to change.
LEMMA HistorySteps ==
  ASSUME Typing, AttemptsInv, SentInv, [Next]_vars, NEW q \in Pager
  PROVE  \/ messages'[q] = messages[q]
         \/ Grows(q) \/ Changes(q) \/ Loads(q)
         \/ messages'[q] = << >> /\ pc'[q] = "off"
<1> USE DEF Typing, TypeOK
<1>1. ASSUME NEW p \in Pager, AddOutgoing(p) PROVE messages'[q] = messages[q] \/ Grows(q)
  <2> DEFINE m == NewMessage(current[p], TRUE)
  <2>1. /\ m \in Message /\ m.id = current[p] /\ m.out /\ m = NewMessage(current[p], m.out)
        /\ m.st = "sending" => current[p] # NoId
    BY NewMessageType DEF NewMessage
  <2>2. pc[p] = "add" /\ messages' = [messages EXCEPT ![p] = Added(messages[p], m)]
    BY <1>1 DEF AddOutgoing
  <2>3. current[p] # NoId => /\ current[p] < nextId /\ NotSent(messages[p], current[p])
                             /\ Outgoing(p)
    BY <2>2 DEF Outgoing, SentInv, AttemptsInv, IdsGivenOut
  <2> HIDE DEF m
  <2> QED  BY <2>1, <2>2, <2>3 DEF Grows
<1>2. ASSUME NEW p \in Pager, StoreIncoming(p) PROVE messages'[q] = messages[q] \/ Grows(q)
  <2> DEFINE m == NewMessage(current[p], FALSE)
  <2>1. /\ m \in Message /\ ~m.out /\ m.st # "sending"
        /\ m = NewMessage(current[p], m.out) /\ pc[p] = "store"
    BY <1>2, NewMessageType DEF NewMessage, StoreIncoming
  <2>2. UNCHANGED messages \/ messages' = [messages EXCEPT ![p] = Added(messages[p], m)]
    BY <1>2 DEF StoreIncoming
  <2> HIDE DEF m
  <2> QED  BY <2>1, <2>2 DEF Grows
<1>3. ASSUME NEW p \in Pager, ReceiveAck(p) PROVE messages'[q] = messages[q] \/ Changes(q)
  <2>1. CASE UNCHANGED messages
    BY <2>1
  <2>3. CASE ~UNCHANGED messages /\ q # p
    BY <1>3, <2>3, AckChange
  <2>2. CASE ~UNCHANGED messages /\ q = p
    <3>1. PICK i \in Sending(messages[p]) :
            /\ messages[p][i] \in Message
            /\ messages' \in [Pager -> Seq(Message)]
            /\ Len(messages'[p]) = Len(messages[p])
            /\ \A j \in 1..Len(messages[p]) : j # i => messages'[p][j] = messages[p][j]
            /\ messages'[p][i] = [messages[p][i] EXCEPT !.st = "ok"]
      BY <1>3, <2>2, AckChange
    <3>2. /\ messages'[p][i].id = messages[p][i].id /\ messages'[p][i].out = messages[p][i].out
          /\ messages'[p][i].st = "ok"
      BY <3>1 DEF Message
    <3> QED  BY <2>2, <3>1, <3>2 DEF Changes
  <2> QED  BY <2>1, <2>2, <2>3
<1>4. ASSUME NEW p \in Pager, NEW i \in due[p], Resend(p, i) \/ GiveUp(p, i)
      PROVE  messages'[q] = messages[q] \/ Changes(q)
  <2>1. /\ i \in Sending(messages[p]) /\ messages[p][i] \in Message
        /\ messages' \in [Pager -> Seq(Message)]
        /\ \A r \in Pager \ {p} : messages'[r] = messages[r]
        /\ Len(messages'[p]) = Len(messages[p])
        /\ \A j \in 1..Len(messages[p]) : j # i => messages'[p][j] = messages[p][j]
        /\ Resend(p, i) => messages'[p][i] = [messages[p][i] EXCEPT !.retries = @ + 1]
        /\ GiveUp(p, i) => messages'[p][i] = [messages[p][i] EXCEPT !.st = "fail"]
    BY <1>4, VisitTyping
  <2>2. /\ messages'[p][i].id = messages[p][i].id /\ messages'[p][i].out = messages[p][i].out
        /\ Resend(p, i) => messages'[p][i].st = messages[p][i].st
        /\ GiveUp(p, i) => messages'[p][i].st = "fail"
    BY <1>4, <2>1 DEF Message
  <2>3. \/ messages'[p][i].st \in {"sending", "ok"}
        \/ messages'[p][i].st = "fail" /\ GiveUp(p, i)
    BY <1>4, <2>1, <2>2 DEF Sending
  <2>4. CASE q = p
    BY <2>1, <2>2, <2>3, <2>4 DEF Changes
  <2>5. CASE q # p
    BY <2>1, <2>5
  <2> QED  BY <2>4, <2>5
<1>5. ASSUME NEW p \in Pager, PowerCut(p) \/ Shutdown(p)
      PROVE  messages'[q] = messages[q] \/ (messages'[q] = << >> /\ pc'[q] = "off")
  BY <1>5 DEF PowerCut, Shutdown, Halt
<1>6. ASSUME NEW p \in Pager, Boot(p) PROVE messages'[q] = messages[q] \/ Loads(q)
  BY <1>6 DEF Boot, Loads, SentInv
<1>7. ASSUME NEW p \in Pager,
             \/ NoSend(p) \/ EditChannel(p) \/ SendByRadio(p) \/ SendWithoutRadio(p)
             \/ ReceiveNothing(p) \/ ReceiveMessage(p) \/ NothingDue(p) \/ CheckTimeouts(p)
             \/ FlushNothing(p) \/ FlushHistory(p) \/ Garble(p)
      PROVE  UNCHANGED messages
  BY <1>7 DEF NoSend, EditChannel, SendByRadio, SendWithoutRadio, ReceiveNothing,
              ReceiveMessage, NothingDue, CheckTimeouts, BeginCheck, FlushNothing,
              FlushHistory, Garble, historyVars
<1>8. CASE UNCHANGED vars
  BY <1>8 DEF vars
<1> QED
  BY <1>1, <1>2, <1>3, <1>4, <1>5, <1>6, <1>7, <1>8 DEF Next, Step, VisitNext

\* A step writes at most the history of memory to disk, gives out at most one
\* id, puts a message on its way only with a fresh id and a working radio, and
\* switches a pager off only by dropping its history.
Beside(q) ==
  /\ disk'[q] = disk[q] \/ disk'[q] = ToDisk(messages[q])
  /\ nextId' = nextId \/ nextId' = nextId + 1
  /\ Outgoing(q)' => /\ messages'[q] = messages[q] /\ lora'[q] = lora[q]
                     /\ \/ Outgoing(q) /\ current'[q] = current[q]
                        \/ lora[q] /\ current'[q] = nextId
  /\ pc'[q] = "off" => \/ messages'[q] = << >>
                       \/ pc[q] = "off" /\ messages'[q] = messages[q]
  /\ lora'[q] = lora[q] \/ messages'[q] = << >> \/ Loads(q)

\* What a step does beside its change of a history.
LEMMA OtherSteps ==
  ASSUME Typing, AttemptsInv, SentInv, [Next]_vars, NEW q \in Pager
  PROVE  Beside(q)
<1> USE DEF Typing, TypeOK
<1>0. \A p \in Pager : pc[p] \notin {"add", "store"} => current[p] = NoId
  BY DEF AttemptsInv, IdsGivenOut
<1>1. ASSUME NEW p \in Pager, SendByRadio(p) PROVE Beside(q)
  <2>1. /\ UNCHANGED <<messages, disk, lora>> /\ nextId' = nextId + 1 /\ lora[p]
        /\ pc'[p] = "add" /\ current'[p] = nextId
        /\ \A r \in Pager \ {p} : pc'[r] = pc[r] /\ current'[r] = current[r]
    BY <1>1 DEF SendByRadio, historyVars, setupVars
  <2> QED  BY <2>1 DEF Beside, Outgoing
<1>2. ASSUME NEW p \in Pager,
             \/ NoSend(p) \/ EditChannel(p) \/ SendWithoutRadio(p)
             \/ ReceiveNothing(p) \/ ReceiveMessage(p) \/ NothingDue(p) \/ CheckTimeouts(p)
             \/ FlushNothing(p) \/ FlushHistory(p) \/ Garble(p)
      PROVE  Beside(q)
  <2>1. /\ UNCHANGED <<messages, nextId, lora>>
        /\ disk'[q] = disk[q] \/ disk'[q] = ToDisk(messages[q])
        /\ \A r \in Pager \ {p} : pc'[r] = pc[r] /\ current'[r] = current[r]
    BY <1>2 DEF NoSend, EditChannel, SendWithoutRadio, ReceiveNothing, ReceiveMessage,
                NothingDue, CheckTimeouts, BeginCheck, FlushNothing, FlushHistory, Garble,
                historyVars, setupVars, loopVars
  <2>2. UNCHANGED <<pc, current>> \/ (pc'[p] # "off" /\ ~Outgoing(p)')
    BY <1>0, <1>2 DEF NoSend, EditChannel, SendWithoutRadio, ReceiveNothing, ReceiveMessage,
                Receives, NothingDue, CheckTimeouts, BeginCheck, FlushNothing, FlushHistory,
                Garble, loopVars, Outgoing
  <2> QED  BY <2>1, <2>2 DEF Beside, Outgoing
<1>3. ASSUME NEW p \in Pager,
             \/ AddOutgoing(p) \/ StoreIncoming(p) \/ ReceiveAck(p)
             \/ \E i \in due[p] : Resend(p, i) \/ GiveUp(p, i)
      PROVE  Beside(q)
  <2>1. /\ UNCHANGED <<disk, nextId, lora>>
        /\ \A r \in Pager \ {p} : pc'[r] = pc[r] /\ current'[r] = current[r]
        /\ pc'[p] \notin {"off", "add"}
    <3>1. CASE AddOutgoing(p) \/ StoreIncoming(p)
      BY <3>1 DEF AddOutgoing, StoreIncoming, setupVars
    <3>2. CASE ReceiveAck(p)
      BY <3>2 DEF ReceiveAck, Receives, setupVars
    <3>3. CASE \E i \in due[p] : Resend(p, i) \/ GiveUp(p, i)
      BY <3>3 DEF Resend, GiveUp, Visits, Visited, setupVars
    <3> QED  BY <1>3, <3>1, <3>2, <3>3
  <2>2. \A r \in Pager \ {p} : messages'[r] = messages[r]
    <3>1. CASE AddOutgoing(p)
      BY <3>1 DEF AddOutgoing
    <3>2. CASE StoreIncoming(p)
      BY <3>2 DEF StoreIncoming
    <3>3. CASE ReceiveAck(p)
      BY <3>3, AckChange
    <3>4. CASE \E i \in due[p] : Resend(p, i) \/ GiveUp(p, i)
      BY <3>4, VisitTyping
    <3> QED  BY <1>3, <3>1, <3>2, <3>3, <3>4
  <2> QED  BY <2>1, <2>2 DEF Beside, Outgoing
<1>4. ASSUME NEW p \in Pager, PowerCut(p) \/ Shutdown(p) PROVE Beside(q)
  <2>1. /\ messages'[p] = << >> /\ pc'[p] = "off"
        /\ \A r \in Pager \ {p} : /\ pc'[r] = pc[r] /\ current'[r] = current[r]
                                  /\ lora'[r] = lora[r] /\ messages'[r] = messages[r]
    BY <1>4 DEF PowerCut, Shutdown, Halt
  <2>2. UNCHANGED nextId /\ (disk'[q] = disk[q] \/ disk'[q] = ToDisk(messages[q]))
    BY <1>4 DEF PowerCut, Shutdown, Halt
  <2> QED  BY <2>1, <2>2 DEF Beside, Outgoing
<1>5. ASSUME NEW p \in Pager, Boot(p) PROVE Beside(q)
  <2>1. /\ UNCHANGED <<nextId, disk, current>> /\ pc'[p] = "keys" /\ Loads(p)
        /\ \A r \in Pager \ {p} : /\ pc'[r] = pc[r] /\ lora'[r] = lora[r]
                                  /\ messages'[r] = messages[r]
    BY <1>5 DEF Boot, Loads, SentInv
  <2> QED  BY <2>1 DEF Beside, Outgoing
<1>6. CASE UNCHANGED vars
  BY <1>6 DEF vars, Beside, Outgoing
<1> QED  BY <1>1, <1>2, <1>3, <1>4, <1>5, <1>6 DEF Next, Step, VisitNext

\* SentInv is inductive relative to Typing and AttemptsInv.
LEMMA SentNext ==
  ASSUME Typing, AttemptsInv, SentInv, [Next]_vars
  PROVE  SentInv'
<1> USE DEF Typing, TypeOK
<1> SUFFICES ASSUME NEW q \in Pager
             PROVE  /\ OwnIds(messages[q], nextId)' /\ OwnIds(disk[q], nextId)'
                    /\ Outgoing(q)' => NotSent(messages'[q], current'[q])
                    /\ pc'[q] = "off" => messages'[q] = << >>
                    /\ Outgoing(q)' \/ Sending(messages'[q]) # {} => lora'[q]
  BY DEF SentInv
<1>1. /\ OwnIds(messages[q], nextId) /\ OwnIds(disk[q], nextId)
      /\ Outgoing(q) => NotSent(messages[q], current[q])
      /\ pc[q] = "off" => messages[q] = << >>
      /\ Outgoing(q) \/ Sending(messages[q]) # {} => lora[q]
  BY DEF SentInv
<1>2. Beside(q)
  BY OtherSteps
<1>3. \/ messages'[q] = messages[q]
      \/ Grows(q) \/ Changes(q) \/ Loads(q)
      \/ messages'[q] = << >> /\ pc'[q] = "off"
  BY HistorySteps
<1>4. messages'[q] \in Seq(Message) /\ disk'[q] \in Seq(Message)
  <2>1. Typing'
    BY TypingNext
  <2> QED  BY <2>1
<1>5. ASSUME NEW s \in Seq(Message), OwnIds(s, nextId) PROVE OwnIds(s, nextId')
  <2>1. nextId \in Nat
    BY BoundsAssumption
  <2> QED  BY <1>2, <1>5, <2>1, MoreOwnIds DEF Beside
<1>6. OwnIds(messages'[q], nextId)
  <2>1. CASE Grows(q)
    BY <1>1, <2>1, OwnIdsAdded DEF Grows
  <2>2. CASE Changes(q)
    <3> PICK c \in Sending(messages[q]) :
          /\ Len(messages'[q]) = Len(messages[q])
          /\ \A j \in 1..Len(messages[q]) : j # c => messages'[q][j] = messages[q][j]
          /\ messages'[q][c].id = messages[q][c].id /\ messages'[q][c].out = messages[q][c].out
      BY <2>2 DEF Changes
    <3>1. ASSUME NEW k \in 1..Len(messages'[q])
          PROVE  /\ k + 0 \in 1..Len(messages[q])
                 /\ messages'[q][k].id = messages[q][k + 0].id
                 /\ messages'[q][k].out = messages[q][k + 0].out
      <4>1. k + 0 = k /\ k \in 1..Len(messages[q])
        OBVIOUS
      <4> QED  BY <4>1
    <3>2. PartOf(messages'[q], messages[q])
      BY <3>1 DEF PartOf
    <3> QED  BY <1>1, <1>4, <3>2, OwnIdsPart
  <2>3. CASE Loads(q)
    BY <1>1, <2>3, FromDiskPart, OwnIdsPart DEF Loads
  <2> QED  BY <1>1, <1>3, <2>1, <2>2, <2>3, EmptyOwnIds
<1>7. OwnIds(disk'[q], nextId)
  BY <1>1, <1>2, ToDiskPart, OwnIdsPart DEF Beside
<1>8. Outgoing(q)' => NotSent(messages'[q], current'[q])
  <2> SUFFICES ASSUME Outgoing(q)', ~(Outgoing(q) /\ current'[q] = current[q])
               PROVE  NotSent(messages'[q], current'[q])
    BY <1>1, <1>2 DEF Beside
  <2>1. messages'[q] = messages[q] /\ current'[q] = nextId /\ nextId \in Nat \ {NoId}
    BY <1>2, BoundsAssumption DEF Beside, NoId
  <2>2. \A k \in 1..Len(messages[q]) : messages[q][k].out => messages[q][k].id # nextId
    BY <1>1, <2>1 DEF OwnIds, SentBelow
  <2> QED  BY <2>1, <2>2 DEF NotSent
<1>9. pc'[q] = "off" => messages'[q] = << >>
  BY <1>1, <1>2 DEF Beside
<1>10. Outgoing(q)' => lora'[q]
  BY <1>1, <1>2 DEF Beside
<1>11. ASSUME Sending(messages'[q]) # {} PROVE lora'[q]
  <2>1. messages'[q] # << >> /\ ~Loads(q)
    <3>1. \A s \in {<< >>} : Sending(s) = {}
      BY EmptySeq DEF Sending
    <3>2. disk[q] \in Seq(Message)
      BY DEF Typing, TypeOK
    <3>3. Sending(FromDisk(disk[q])) = {}
      BY <3>2, FromDiskProperties DEF Sending
    <3> QED  BY <1>11, <3>1, <3>3 DEF Loads
  <2>2. lora'[q] = lora[q]
    BY <1>2, <2>1 DEF Beside
  <2>3. CASE Grows(q)
    <3> PICK m \in Message : /\ messages'[q] = Added(messages[q], m)
                             /\ m.st = "sending" => Outgoing(q)
      BY <2>3 DEF Grows
    <3>1. PICK k \in 1..Len(messages'[q]) : messages'[q][k].st = "sending"
      BY <1>11 DEF Sending
    <3> DEFINE t == Added(messages[q], m)
               d == Len(messages[q]) + 1 - Len(t)
    <3>2. /\ Len(t) \in 1..(Len(messages[q]) + 1) /\ t[Len(t)] = m
          /\ \A j \in 1..(Len(t) - 1) : j + d \in 1..Len(messages[q]) /\ t[j] = messages[q][j + d]
          /\ Len(messages[q]) \in Nat
      BY AddedProperties, LenProperties
    <3>3. messages'[q] = t
      OBVIOUS
    <3> HIDE DEF t, d
    <3>4. CASE k = Len(t)
      BY <1>1, <2>2, <3>1, <3>2, <3>3, <3>4
    <3>5. CASE k # Len(t)
      <4>1. k \in 1..(Len(t) - 1)
        BY <3>1, <3>2, <3>3, <3>5
      <4>2. k + d \in Sending(messages[q])
        BY <3>1, <3>2, <3>3, <4>1 DEF Sending
      <4> QED  BY <1>1, <2>2, <4>2
    <3> QED  BY <3>4, <3>5
  <2>4. CASE Changes(q)
    BY <1>1, <2>2, <2>4 DEF Changes
  <2> QED  BY <1>1, <1>3, <1>11, <2>1, <2>2, <2>3, <2>4
<1> QED  BY <1>4, <1>5, <1>6, <1>7, <1>8, <1>9, <1>10, <1>11

(***************************************************************************)
(* Verdicts                                                                *)
(***************************************************************************)
\* An entry of an own message keeps its status in a step, unless it waits; and
\* it fails in a step only by being given up.
LEMMA VerdictSteps ==
  ASSUME Typing, AttemptsInv, SentInv, [Next]_vars, NEW q \in Pager,
         NEW i \in 1..Len(messages[q]), NEW j \in 1..Len(messages'[q]),
         SameSent(messages[q][i], messages'[q][j])
  PROVE  \/ messages'[q][j].st = messages[q][i].st
         \/ /\ messages[q][i].st = "sending"
            /\ messages'[q][j].st \in {"sending", "ok"} \/ GiveUp(q, i)
<1> USE DEF Typing, TypeOK
<1>1. SentOnce(messages[q]) /\ messages[q] \in Seq(Message)
  BY DEF SentInv, OwnIds
<1>2. CASE messages'[q] = messages[q]
  BY <1>1, <1>2 DEF SentOnce
<1>3. CASE Grows(q)
  <2> PICK m \in Message :
        /\ messages'[q] = Added(messages[q], m)
        /\ m.out /\ m.id # NoId => NotSent(messages[q], m.id)
    BY <1>3 DEF Grows
  <2> DEFINE t == Added(messages[q], m)
             d == Len(messages[q]) + 1 - Len(t)
  <2>1. /\ Len(t) \in 1..(Len(messages[q]) + 1) /\ t[Len(t)] = m
        /\ \A k \in 1..(Len(t) - 1) : k + d \in 1..Len(messages[q]) /\ t[k] = messages[q][k + d]
        /\ Len(messages[q]) \in Nat
    BY <1>1, AddedProperties, LenProperties
  <2>2. messages'[q] = t
    OBVIOUS
  <2> HIDE DEF t, d
  <2>3. CASE j = Len(t)
    BY <2>1, <2>2, <2>3 DEF SameSent, NotSent
  <2>4. CASE j # Len(t)
    <3>1. j \in 1..(Len(t) - 1)
      BY <2>1, <2>2, <2>4
    <3>2. j + d \in 1..Len(messages[q]) /\ messages'[q][j] = messages[q][j + d]
      BY <2>1, <2>2, <3>1
    <3>3. i = j + d
      BY <1>1, <3>2 DEF SentOnce
    <3> QED  BY <3>2, <3>3
  <2> QED  BY <2>3, <2>4
<1>4. CASE Changes(q)
  <2> PICK k \in Sending(messages[q]) :
        /\ Len(messages'[q]) = Len(messages[q])
        /\ \A l \in 1..Len(messages[q]) : l # k => messages'[q][l] = messages[q][l]
        /\ messages'[q][k].id = messages[q][k].id /\ messages'[q][k].out = messages[q][k].out
        /\ messages'[q][k].st \in {"sending", "ok"} \/ GiveUp(q, k)
    BY <1>4 DEF Changes
  <2>1. j \in 1..Len(messages[q]) /\ SameSent(messages[q][i], messages[q][j])
    BY DEF SameSent
  <2>2. i = j
    BY <1>1, <2>1 DEF SentOnce
  <2> QED  BY <2>2 DEF Sending
<1>5. CASE Loads(q)
  BY <1>5, EmptySeq DEF Loads
<1>6. CASE messages'[q] = << >>
  BY <1>6, EmptySeq
<1> QED  BY <1>2, <1>3, <1>4, <1>5, <1>6, HistorySteps

\* Everything these theorems rest on holds in every reachable state.
LEMMA SentHolds == Spec => [](Typing /\ AttemptsInv /\ SentInv)
<1>1. Init => SentInv
  <2>1. Sending(<< >>) = {}
    BY EmptySeq DEF Sending
  <2> SUFFICES ASSUME Init, NEW p \in Pager
               PROVE  /\ OwnIds(messages[p], nextId) /\ OwnIds(disk[p], nextId)
                      /\ ~Outgoing(p) /\ messages[p] = << >> /\ Sending(messages[p]) = {}
    BY DEF SentInv
  <2>2. messages[p] = << >> /\ disk[p] = << >> /\ pc[p] = "off"
    BY DEF Init
  <2> QED  BY <2>1, <2>2, EmptyOwnIds DEF Outgoing
<1>2. Typing /\ AttemptsInv /\ SentInv /\ [Next]_vars => SentInv'
  BY SentNext
<1> QED  BY <1>1, <1>2, TypingInit, TypingNext, AttemptsInit, AttemptsNext, PTL DEF Spec

\* A verdict is final while the program runs: no late ack revives a failed
\* message, no late timeout fails a delivered one, for any losses and restarts.
THEOREM VerdictsHold == Spec => VerdictsAreFinal
<1> DEFINE Final ==
      \A p \in Pager :
        \A i \in 1..Len(messages[p]), j \in 1..Len(messages'[p]) :
          SameSent(messages[p][i], messages'[p][j]) /\ messages[p][i].st # "sending"
            => messages'[p][j].st = messages[p][i].st
<1>1. Typing /\ AttemptsInv /\ SentInv /\ [Next]_vars => [Final]_vars
  <2> SUFFICES ASSUME Typing, AttemptsInv, SentInv, [Next]_vars PROVE Final
    OBVIOUS
  <2> QED  BY VerdictSteps
<1>2. Spec => [][Final]_vars
  BY <1>1, SentHolds, PTL DEF Spec
<1> QED  BY <1>2 DEF VerdictsAreFinal

\* A running pager gives a message up only after all MAX_RETRIES + 1 attempts,
\* whatever is lost and however often it was restarted.
THEOREM FailuresHold == Spec => FailsOnlyAfterAllAttempts
<1> DEFINE LastResort ==
      \A p \in Pager :
        \A i \in 1..Len(messages[p]), j \in 1..Len(messages'[p]) :
          SameSent(messages[p][i], messages'[p][j])
            /\ messages[p][i].st = "sending" /\ messages'[p][j].st = "fail"
            => attempts[messages[p][i].id] = MaxRetries + 1
<1>1. Typing /\ AttemptsInv /\ SentInv /\ [Next]_vars => [LastResort]_vars
  <2> SUFFICES ASSUME Typing, AttemptsInv, SentInv, [Next]_vars,
                      NEW p \in Pager,
                      NEW i \in 1..Len(messages[p]), NEW j \in 1..Len(messages'[p]),
                      SameSent(messages[p][i], messages'[p][j]),
                      messages[p][i].st = "sending", messages'[p][j].st = "fail"
               PROVE  attempts[messages[p][i].id] = MaxRetries + 1
    OBVIOUS
  <2>1. GiveUp(p, i)
    BY VerdictSteps
  <2>2. i \in Sending(messages[p])
    BY DEF Sending
  <2>3. lora[p] /\ messages[p][i].id # NoId
    BY <2>2 DEF SentInv, SameSent
  <2>4. messages[p][i].retries \in 0..MaxRetries
    <3>1. messages[p][i] \in Message
      BY ElementOfSeq DEF Typing, TypeOK
    <3> QED  BY <3>1 DEF Message
  <2>5. messages[p][i].retries = MaxRetries
    BY <2>1, <2>3, <2>4, BoundsAssumption DEF GiveUp, CanRetry
  <2> QED  BY <2>2, <2>5 DEF AttemptsInv, ShownRetriesAreReal
<1>2. Spec => [][LastResort]_vars
  BY <1>1, SentHolds, PTL DEF Spec
<1> QED  BY <1>2 DEF FailsOnlyAfterAllAttempts
=============================================================================
