---------------------- MODULE PagerLinkDeliveryProofs ----------------------
(***************************************************************************)
(* The link implements Delivery: however packets are lost, garbled, read   *)
(* twice or repeated and pagers stopped, every step of PagerLink is a step *)
(* of the promise or leaves alone what the promise speaks of.              *)
(***************************************************************************)
EXTENDS PagerLinkHistoryProofs

(***************************************************************************)
(* Who wrote what                                                          *)
(***************************************************************************)
\* The own and the received messages of a history.
OwnIn(s) == {i \in Id : \E k \in 1..Len(s) : Owns(s[k], i)}
ForeignIn(s) == {i \in Id : \E k \in 1..Len(s) : ~s[k].out /\ s[k].id = i}

\* An entry has a status of its own exactly when it is of a message that was
\* transmitted from here.
StatusFits(m) == m.st = "local" <=> ~m.out \/ m.id = NoId
StatusesFit(s) == \A k \in 1..Len(s) : StatusFits(s[k])

\* A stretch of a history has no more messages than the history.
LEMMA PartContents ==
  ASSUME NEW s, NEW t, PartOf(t, s)
  PROVE  OwnIn(t) \subseteq OwnIn(s) /\ ForeignIn(t) \subseteq ForeignIn(s)
<1> PICK d \in Nat : \A k \in 1..Len(t) : /\ k + d \in 1..Len(s)
                                          /\ t[k].id = s[k + d].id
                                          /\ t[k].out = s[k + d].out
  BY DEF PartOf
<1>1. ASSUME NEW i \in OwnIn(t) PROVE i \in OwnIn(s)
  <2>1. PICK k \in 1..Len(t) : Owns(t[k], i)
    BY DEF OwnIn
  <2>2. k + d \in 1..Len(s) /\ Owns(s[k + d], i) /\ i \in Id
    BY <2>1 DEF Owns, OwnIn
  <2> QED  BY <2>2 DEF OwnIn
<1>2. ASSUME NEW i \in ForeignIn(t) PROVE i \in ForeignIn(s)
  <2>1. PICK k \in 1..Len(t) : ~t[k].out /\ t[k].id = i
    BY DEF ForeignIn
  <2>2. k + d \in 1..Len(s) /\ ~s[k + d].out /\ s[k + d].id = i /\ i \in Id
    BY <2>1 DEF ForeignIn
  <2> QED  BY <2>2 DEF ForeignIn
<1> QED  BY <1>1, <1>2

\* An empty history has no message.
LEMMA EmptyContents ==
  OwnIn(<< >>) = {} /\ ForeignIn(<< >>) = {} /\ StatusesFit(<< >>)
BY EmptySeq DEF OwnIn, ForeignIn, StatusesFit

\* What add_message leaves: the new entry and some of the old ones.
LEMMA AddedContents ==
  ASSUME NEW s \in Seq(Message), NEW m \in Message
  PROVE  /\ \A i \in OwnIn(Added(s, m)) : i \in OwnIn(s) \/ Owns(m, i)
         /\ \A i \in ForeignIn(Added(s, m)) : i \in ForeignIn(s) \/ (~m.out /\ m.id = i)
         /\ \A i \in Id : Owns(m, i) => i \in OwnIn(Added(s, m))
         /\ \A i \in Id : ~m.out /\ m.id = i => i \in ForeignIn(Added(s, m))
         /\ StatusesFit(s) /\ StatusFits(m) => StatusesFit(Added(s, m))
<1> DEFINE t == Added(s, m)
           d == Len(s) + 1 - Len(t)
<1>1. /\ t \in Seq(Message) /\ Len(t) \in 1..(Len(s) + 1) /\ t[Len(t)] = m
      /\ \A k \in 1..(Len(t) - 1) : k + d \in 1..Len(s) /\ t[k] = s[k + d]
      /\ Len(s) \in Nat
  BY AddedProperties, LenProperties
<1> HIDE DEF t, d
<1>2. \A k \in 1..Len(t) : k = Len(t) \/ k \in 1..(Len(t) - 1)
  BY <1>1
<1>3. \A k \in 1..Len(t) : t[k] = m \/ \E j \in 1..Len(s) : t[k] = s[j]
  BY <1>1, <1>2
<1>4. Len(t) \in 1..Len(t)
  BY <1>1
<1>5. \A i \in OwnIn(t) : i \in OwnIn(s) \/ Owns(m, i)
  BY <1>3 DEF OwnIn
<1>6. \A i \in ForeignIn(t) : i \in ForeignIn(s) \/ (~m.out /\ m.id = i)
  BY <1>3 DEF ForeignIn
<1>7. \A i \in Id : Owns(m, i) => i \in OwnIn(t)
  BY <1>1, <1>4 DEF OwnIn
<1>8. \A i \in Id : ~m.out /\ m.id = i => i \in ForeignIn(t)
  BY <1>1, <1>4 DEF ForeignIn
<1>9. StatusesFit(s) /\ StatusFits(m) => StatusesFit(t)
  BY <1>3 DEF StatusesFit
<1> QED  BY <1>5, <1>6, <1>7, <1>8, <1>9 DEF t

\* Saving and loading bring no message in and change no kind of status.
LEMMA DiskContents ==
  ASSUME NEW s \in Seq(Message)
  PROVE  /\ OwnIn(ToDisk(s)) \subseteq OwnIn(s) /\ ForeignIn(ToDisk(s)) \subseteq ForeignIn(s)
         /\ OwnIn(FromDisk(s)) \subseteq OwnIn(s) /\ ForeignIn(FromDisk(s)) \subseteq ForeignIn(s)
         /\ StatusesFit(s) => StatusesFit(ToDisk(s)) /\ StatusesFit(FromDisk(s))
<1>1. ASSUME StatusesFit(s), NEW k \in 1..Len(ToDisk(s)) PROVE StatusFits(ToDisk(s)[k])
  <2> DEFINE j == k + (Len(s) - Len(ToDisk(s)))
  <2>1. j \in 1..Len(s) /\ ToDisk(s)[k] = [s[j] EXCEPT !.retries = 0]
    BY ToDiskProperties
  <2> HIDE DEF j
  <2>2. s[j] \in Message /\ StatusFits(s[j])
    BY <1>1, <2>1, ElementOfSeq DEF StatusesFit
  <2> QED  BY <2>1, <2>2 DEF StatusFits, Message
<1>2. ASSUME StatusesFit(s), NEW k \in 1..Len(FromDisk(s)) PROVE StatusFits(FromDisk(s)[k])
  <2> DEFINE j == k + (Len(s) - Len(FromDisk(s)))
  <2>1. /\ j \in 1..Len(s) /\ FromDisk(s)[k].id = s[j].id /\ FromDisk(s)[k].out = s[j].out
        /\ FromDisk(s)[k].st = IF s[j].st = "sending" THEN "fail" ELSE s[j].st
    BY FromDiskProperties
  <2> HIDE DEF j
  <2> QED  BY <1>1, <1>2, <2>1 DEF StatusesFit, StatusFits
<1>3. PartOf(ToDisk(s), s) /\ PartOf(FromDisk(s), s)
  BY ToDiskPart, FromDiskPart
<1> QED  BY <1>1, <1>2, <1>3, PartContents DEF StatusesFit

\* A history in which one entry got another status or counter.
LEMMA ChangedContents ==
  ASSUME NEW q \in Pager, Changes(q), StatusesFit(messages[q])
  PROVE  /\ OwnIn(messages'[q]) = OwnIn(messages[q])
         /\ ForeignIn(messages'[q]) = ForeignIn(messages[q])
         /\ StatusesFit(messages'[q])
<1> DEFINE s == messages[q]
           t == messages'[q]
<1>1. PICK k \in Sending(s) :
        /\ Len(t) = Len(s)
        /\ \A j \in 1..Len(s) : j # k => t[j] = s[j]
        /\ t[k].id = s[k].id /\ t[k].out = s[k].out
        /\ t[k].st \in {"sending", "ok", "fail"}
  BY DEF Changes
<1>2. \A j \in 1..Len(s) : t[j].id = s[j].id /\ t[j].out = s[j].out
  BY <1>1
<1>3. ASSUME NEW j \in 1..Len(s) PROVE StatusFits(t[j])
  <2>1. StatusFits(s[j]) /\ s[k].st = "sending"
    BY <1>1 DEF StatusesFit, Sending
  <2>2. t[j] = s[j] \/ (t[j].st # "local" /\ s[j].st # "local")
    BY <1>1, <2>1
  <2> QED  BY <1>2, <2>1, <2>2 DEF StatusFits
<1> QED  BY <1>1, <1>2, <1>3 DEF OwnIn, ForeignIn, Owns, StatusesFit

(***************************************************************************)
(* Authors                                                                 *)
(***************************************************************************)
\* The messages that were transmitted, and those a pager has sent and still has
\* in memory, on disk or between the transmission and its history.
Tried == {i \in Id : attempts[i] > 0}
Mine(p) ==
  OwnIn(messages[p]) \cup OwnIn(disk[p]) \cup (IF Outgoing(p) THEN {current[p]} ELSE {})

\* What a pager has acknowledged, shows as received or can still receive was
\* transmitted, and not by itself.
LinkOf(p) ==
  /\ Mine(p) \subseteq Tried
  /\ accepted[p] \subseteq Tried \ Mine(p)
  /\ ForeignIn(messages[p]) \cup ForeignIn(disk[p]) \subseteq accepted[p]
  /\ pc[p] = "store" => current[p] \in accepted[p]
  /\ buffer[p] # NoPacket /\ buffer[p].kind = "msg" => buffer[p].id \in Tried \ Mine(p)
  /\ StatusesFit(messages[p]) /\ StatusesFit(disk[p])

\* No message has two authors, and the next one is new to everybody.
LinkInv ==
  /\ \A i \in Tried : i < nextId
  /\ \A p, q \in Pager : p # q => Mine(p) \cap Mine(q) = {}
  /\ \A p \in Pager : LinkOf(p)

\* The histories after a step hold nothing that the pager had not written or
\* acknowledged before it.
LEMMA ContentsKept ==
  ASSUME Typing, AttemptsInv, SentInv, [Next]_vars, NEW q \in Pager, LinkOf(q)
  PROVE  /\ OwnIn(messages'[q]) \subseteq Mine(q) /\ OwnIn(disk'[q]) \subseteq Mine(q)
         /\ ForeignIn(messages'[q]) \cup ForeignIn(disk'[q]) \subseteq accepted[q]
         /\ StatusesFit(messages'[q]) /\ StatusesFit(disk'[q])
<1> USE DEF Typing, TypeOK
<1>1. /\ OwnIn(messages[q]) \subseteq Mine(q) /\ OwnIn(disk[q]) \subseteq Mine(q)
      /\ ForeignIn(messages[q]) \subseteq accepted[q] /\ ForeignIn(disk[q]) \subseteq accepted[q]
      /\ StatusesFit(messages[q]) /\ StatusesFit(disk[q])
      /\ messages[q] \in Seq(Message) /\ disk[q] \in Seq(Message)
  BY DEF LinkOf, Mine
<1>2. disk'[q] = disk[q] \/ disk'[q] = ToDisk(messages[q])
  BY OtherSteps DEF Beside
<1>3. /\ OwnIn(disk'[q]) \subseteq Mine(q) /\ ForeignIn(disk'[q]) \subseteq accepted[q]
      /\ StatusesFit(disk'[q])
  BY <1>1, <1>2, DiskContents
<1>4. ASSUME Grows(q)
      PROVE  /\ OwnIn(messages'[q]) \subseteq Mine(q)
             /\ ForeignIn(messages'[q]) \subseteq accepted[q]
             /\ StatusesFit(messages'[q])
  <2>1. PICK m \in Message : /\ messages'[q] = Added(messages[q], m)
                             /\ m = NewMessage(current[q], m.out)
                             /\ pc[q] = IF m.out THEN "add" ELSE "store"
    BY <1>4 DEF Grows
  <2>2. m.id = current[q] /\ StatusFits(m)
    BY <2>1 DEF NewMessage, StatusFits
  <2>3. \A i \in Id : Owns(m, i) => i \in Mine(q)
    BY <2>1, <2>2 DEF Owns, Mine, Outgoing, Id, NoId
  <2>4. \A i \in Id : ~m.out /\ m.id = i => i \in accepted[q]
    BY <2>1, <2>2 DEF LinkOf
  <2>5. /\ \A i \in OwnIn(messages'[q]) : i \in OwnIn(messages[q]) \/ Owns(m, i)
        /\ \A i \in ForeignIn(messages'[q]) :
             i \in ForeignIn(messages[q]) \/ (~m.out /\ m.id = i)
        /\ StatusesFit(messages'[q])
    BY <1>1, <2>1, <2>2, AddedContents
  <2>6. OwnIn(messages'[q]) \subseteq Id /\ ForeignIn(messages'[q]) \subseteq Id
    BY DEF OwnIn, ForeignIn
  <2> QED  BY <1>1, <2>3, <2>4, <2>5, <2>6
<1>5. CASE messages'[q] = messages[q] \/ messages'[q] = << >>
  BY <1>1, <1>3, <1>5, EmptyContents
<1>6. CASE Changes(q)
  BY <1>1, <1>3, <1>6, ChangedContents
<1>7. CASE Loads(q)
  BY <1>1, <1>3, <1>7, DiskContents DEF Loads
<1> QED  BY <1>3, <1>4, <1>5, <1>6, <1>7, HistorySteps

\* A pager becomes the author of no message but the one it sends.
LEMMA MineKept ==
  ASSUME Typing, AttemptsInv, AttemptsInv', SentInv, [Next]_vars, NEW q \in Pager, LinkOf(q)
  PROVE  /\ Mine(q)' \subseteq Mine(q) \cup {nextId}
         /\ nextId' = nextId => Mine(q)' \subseteq Mine(q)
<1>1. OwnIn(messages'[q]) \subseteq Mine(q) /\ OwnIn(disk'[q]) \subseteq Mine(q)
  BY ContentsKept
<1>2. Outgoing(q)' => (Outgoing(q) /\ current'[q] = current[q]) \/ current'[q] = nextId
  BY OtherSteps DEF Beside
<1>3. Outgoing(q)' /\ nextId' = nextId => current'[q] # nextId
  <2>1. Outgoing(q)' => current'[q] < nextId'
    BY DEF AttemptsInv, IdsGivenOut
  <2> QED  BY <2>1, BoundsAssumption DEF Typing, TypeOK
<1>4. Outgoing(q) => current[q] \in Mine(q)
  BY DEF Mine
<1> QED  BY <1>1, <1>2, <1>3, <1>4 DEF Mine
\* Steps that give out no id: what is acknowledged, on its way to the screen or
\* in a receive buffer must go on being someone else's.
LEMMA LinkKept ==
  ASSUME Typing, AttemptsInv, AttemptsInv', SentInv, LinkInv, [Next]_vars,
         nextId' = nextId, Tried' = Tried,
         \A q \in Pager : /\ accepted[q] \subseteq accepted'[q]
                          /\ accepted'[q] \subseteq Tried \ Mine(q)
                          /\ pc'[q] = "store" => current'[q] \in accepted'[q]
                          /\ buffer'[q] # NoPacket /\ buffer'[q].kind = "msg" =>
                               buffer'[q].id \in Tried \ Mine(q)
  PROVE  LinkInv'
<1>1. ASSUME NEW q \in Pager
      PROVE  /\ LinkOf(q) /\ Mine(q)' \subseteq Mine(q)
             /\ ForeignIn(messages'[q]) \cup ForeignIn(disk'[q]) \subseteq accepted[q]
             /\ StatusesFit(messages'[q]) /\ StatusesFit(disk'[q])
  <2>1. LinkOf(q)
    BY DEF LinkInv
  <2> QED  BY <2>1, ContentsKept, MineKept
<1>2. \A i \in Tried' : i < nextId'
  BY DEF LinkInv
<1>3. \A p, q \in Pager : p # q => Mine(p)' \cap Mine(q)' = {}
  BY <1>1 DEF LinkInv
<1>4. ASSUME NEW q \in Pager PROVE LinkOf(q)'
  <2>1. Mine(q)' \subseteq Tried'
    BY <1>1 DEF LinkOf
  <2>2. accepted'[q] \subseteq Tried' \ Mine(q)'
    BY <1>1
  <2>3. /\ ForeignIn(messages'[q]) \cup ForeignIn(disk'[q]) \subseteq accepted'[q]
        /\ buffer'[q] # NoPacket /\ buffer'[q].kind = "msg" =>
             buffer'[q].id \in Tried' \ Mine(q)'
    BY <1>1
  <2> QED  BY <1>1, <2>1, <2>2, <2>3 DEF LinkOf
<1> QED  BY <1>2, <1>3, <1>4 DEF LinkInv

\* A new id on the air: no pager has anything of that id.
LEMMA LinkSend ==
  ASSUME Typing, AttemptsInv, AttemptsInv', SentInv, LinkInv, NEW p \in Pager, SendByRadio(p)
  PROVE  LinkInv'
<1>1. /\ nextId \in Id /\ nextId' = nextId + 1 /\ nextId \in Nat
      /\ attempts' = [attempts EXCEPT ![nextId] = 1]
      /\ UNCHANGED <<messages, disk, accepted>>
      /\ pc'[p] = "add" /\ current'[p] = nextId
      /\ \A q \in Pager \ {p} : pc'[q] = pc[q] /\ current'[q] = current[q]
      /\ buffer \in [Pager -> Packet \cup {NoPacket}]
  BY BoundsAssumption DEF SendByRadio, historyVars, Id, Typing, TypeOK
<1>2. Tried' = Tried \cup {nextId} /\ nextId \notin Tried
  <2>1. nextId \notin Tried
    BY <1>1 DEF LinkInv
  <2>2. attempts \in [Id -> Nat]
    BY DEF Typing, TypeOK
  <2> QED  BY <1>1, <2>1, <2>2 DEF Tried
<1>3. \A i \in Tried' : i < nextId'
  <2>1. \A i \in Tried : i \in Nat /\ i < nextId
    BY BoundsAssumption DEF Tried, Id, LinkInv
  <2>2. \A i \in Nat : i < nextId => i < nextId'
    BY <1>1
  <2>3. nextId < nextId'
    BY <1>1
  <2> QED  BY <1>2, <2>1, <2>2, <2>3
<1>4. /\ Mine(p)' \subseteq Mine(p) \cup {nextId}
      /\ \A q \in Pager \ {p} : Mine(q)' = Mine(q)
  <2>1. \A q \in Pager \ {p} : Outgoing(q)' = Outgoing(q)
    BY <1>1 DEF Outgoing
  <2> QED  BY <1>1, <2>1 DEF Mine
<1>5. \A q \in Pager : LinkOf(q)
  BY DEF LinkInv
<1>6. \A q \in Pager : Mine(q) \subseteq Tried /\ accepted[q] \subseteq Tried \ Mine(q)
  BY <1>5 DEF LinkOf
<1>7. ASSUME NEW q \in Pager, NEW r \in Pager, q # r PROVE Mine(q)' \cap Mine(r)' = {}
  <2>1. Mine(q) \cap Mine(r) = {} /\ nextId \notin Mine(q) /\ nextId \notin Mine(r)
    BY <1>2, <1>6, <1>7 DEF LinkInv
  <2>2. CASE q = p
    BY <1>4, <1>7, <2>1, <2>2
  <2>3. CASE q # p
    BY <1>4, <1>7, <2>1, <2>3
  <2> QED  BY <2>2, <2>3
<1>8. ASSUME NEW q \in Pager, buffer'[q] # NoPacket, buffer'[q].kind = "msg"
      PROVE  buffer'[q].id \in Tried' \ Mine(q)'
  <2>1. buffer'[q] = buffer[q] \/ (q # p /\ buffer'[q] = MessagePacket(p, nextId))
    BY <1>1, <1>8 DEF SendByRadio, Transmit
  <2>2. CASE buffer'[q] = buffer[q]
    <3>1. buffer[q].id \in Tried \ Mine(q)
      BY <1>5, <1>8, <2>2 DEF LinkOf
    <3> QED  BY <1>2, <1>4, <2>2, <3>1
  <2>3. CASE q # p /\ buffer'[q] = MessagePacket(p, nextId)
    <3>1. buffer'[q].id = nextId /\ nextId \notin Mine(q)
      BY <1>2, <1>6, <2>3 DEF MessagePacket
    <3> QED  BY <1>2, <1>4, <2>3, <3>1
  <2> QED  BY <2>1, <2>2, <2>3
<1>9. ASSUME NEW q \in Pager PROVE LinkOf(q)'
  <2>1. Mine(q)' \subseteq Tried' /\ accepted'[q] \subseteq Tried' \ Mine(q)'
    BY <1>1, <1>2, <1>4, <1>6
  <2>2. pc'[q] = "store" => current'[q] \in accepted'[q]
    BY <1>1, <1>5 DEF LinkOf
  <2> QED  BY <1>1, <1>5, <1>8, <2>1, <2>2 DEF LinkOf
<1> QED  BY <1>3, <1>7, <1>9 DEF LinkInv

\* LinkInv is inductive relative to the invariants of the histories.
LEMMA LinkNext ==
  ASSUME Typing, AttemptsInv, AttemptsInv', SentInv, LinkInv, [Next]_vars
  PROVE  LinkInv'
<1> USE DEF Typing, TypeOK
<1>1. \A q \in Pager : LinkOf(q)
  BY DEF LinkInv
<1>2. \A q \in Pager : accepted[q] \subseteq Tried \ Mine(q)
  BY <1>1 DEF LinkOf
<1>3. \A q \in Pager : buffer[q] # NoPacket /\ buffer[q].kind = "msg" =>
        buffer[q].id \in Tried \ Mine(q)
  BY <1>1 DEF LinkOf
<1>4. \A q \in Pager : pc[q] = "store" => current[q] \in accepted[q]
  BY <1>1 DEF LinkOf
<1>5. ASSUME NEW p \in Pager, ReceiveMessage(p) PROVE LinkInv'
  <2> DEFINE packet == AckPacket(p, buffer[p].id)
  <2>1. /\ UNCHANGED <<nextId, attempts>>
        /\ buffer[p].id \in Tried \ Mine(p) /\ packet.kind = "ack"
        /\ accepted'[p] = accepted[p] \cup {buffer[p].id} /\ current'[p] = buffer[p].id
        /\ \A q \in Pager \ {p} : /\ accepted'[q] = accepted[q]
                                  /\ pc'[q] = pc[q] /\ current'[q] = current[q]
    BY <1>3, <1>5 DEF ReceiveMessage, Receives, AckPacket
  <2>2. \A q \in Pager : buffer'[q] \in {buffer[q], NoPacket, packet}
    BY <1>5 DEF ReceiveMessage, Transmit, AfterReading
  <2> HIDE DEF packet
  <2>3. Tried' = Tried
    BY <2>1 DEF Tried
  <2>4. \A q \in Pager : /\ accepted[q] \subseteq accepted'[q]
                         /\ accepted'[q] \subseteq Tried \ Mine(q)
                         /\ pc'[q] = "store" => current'[q] \in accepted'[q]
    BY <1>2, <1>4, <2>1
  <2>5. \A q \in Pager : buffer'[q] # NoPacket /\ buffer'[q].kind = "msg" =>
          buffer'[q].id \in Tried \ Mine(q)
    BY <1>3, <2>1, <2>2
  <2> QED  BY <2>1, <2>3, <2>4, <2>5, LinkKept
<1>6. ASSUME NEW p \in Pager, NEW i \in due[p], Resend(p, i) PROVE LinkInv'
  <2> DEFINE id == messages[p][i].id
             packet == MessagePacket(p, id)
  <2>1. i \in Sending(messages[p]) /\ id \in Id
    BY <1>6, VisitTyping
  <2>2. i \in 1..Len(messages[p]) /\ StatusFits(messages[p][i]) /\ messages[p][i].st = "sending"
    BY <1>1, <2>1 DEF Sending, LinkOf, StatusesFit
  <2>3. id \in Mine(p)
    <3>1. Owns(messages[p][i], id)
      BY <2>2 DEF StatusFits, Owns
    <3> QED  BY <2>1, <2>2, <3>1 DEF Mine, OwnIn
  <2>4. /\ UNCHANGED <<nextId, accepted, current>>
        /\ \A q \in Pager : pc'[q] = "store" => pc[q] = "store"
    BY <1>6 DEF Resend, Visited
  <2>5. Tried' = Tried
    <3>1. id \in Tried
      BY <1>1, <2>3 DEF LinkOf
    <3>2. attempts' = [attempts EXCEPT ![id] = @ + 1]
      BY <1>6 DEF Resend
    <3> QED  BY <2>1, <3>1, <3>2 DEF Tried
  <2>6. \A q \in Pager : buffer'[q] \in {buffer[q], NoPacket} \/ (q # p /\ buffer'[q] = packet)
    BY <1>6 DEF Resend, Transmit
  <2>7. packet.id = id
    BY DEF MessagePacket
  <2> HIDE DEF packet, id
  <2>8. \A q \in Pager : q # p => id \in Tried \ Mine(q)
    BY <1>1, <2>3 DEF LinkInv, LinkOf
  <2>9. \A q \in Pager : buffer'[q] # NoPacket /\ buffer'[q].kind = "msg" =>
          buffer'[q].id \in Tried \ Mine(q)
    BY <1>3, <2>6, <2>7, <2>8
  <2> QED  BY <1>2, <1>4, <2>4, <2>5, <2>9, LinkKept
\* Steps that at most empty a receive buffer.
<1>7. ASSUME UNCHANGED <<nextId, attempts, accepted>>,
             \A q \in Pager : /\ pc'[q] = "store" => pc[q] = "store" /\ current'[q] = current[q]
                              /\ buffer'[q] \in {buffer[q], NoPacket}
      PROVE  LinkInv'
  <2>1. Tried' = Tried
    BY <1>7 DEF Tried
  <2> QED  BY <1>2, <1>3, <1>4, <1>7, <2>1, LinkKept
<1>8. ASSUME NEW p \in Pager,
             \/ NoSend(p) \/ EditChannel(p) \/ SendWithoutRadio(p) \/ AddOutgoing(p)
             \/ ReceiveNothing(p) \/ StoreIncoming(p) \/ ReceiveAck(p)
      PROVE  LinkInv'
  <2>1. UNCHANGED <<nextId, attempts, accepted>>
    BY <1>8 DEF NoSend, EditChannel, SendWithoutRadio, AddOutgoing, ReceiveNothing,
                StoreIncoming, ReceiveAck, ghostVars
  <2>2. \A q \in Pager : buffer'[q] \in {buffer[q], NoPacket}
    BY <1>8 DEF NoSend, EditChannel, SendWithoutRadio, AddOutgoing, ReceiveNothing,
                StoreIncoming, ReceiveAck, AfterReading
  <2>3. \A q \in Pager : pc'[q] = "store" => pc[q] = "store" /\ current'[q] = current[q]
    BY <1>8 DEF NoSend, EditChannel, SendWithoutRadio, AddOutgoing, ReceiveNothing,
                StoreIncoming, ReceiveAck
  <2> QED  BY <1>7, <2>1, <2>2, <2>3
<1>9. ASSUME NEW p \in Pager,
             \/ NothingDue(p) \/ CheckTimeouts(p) \/ FlushNothing(p) \/ FlushHistory(p)
             \/ Garble(p) \/ \E i \in due[p] : GiveUp(p, i)
      PROVE  LinkInv'
  <2>1. UNCHANGED <<nextId, attempts, accepted, current>>
    BY <1>9 DEF NothingDue, CheckTimeouts, BeginCheck, FlushNothing, FlushHistory, Garble,
                GiveUp, ghostVars, loopVars
  <2>2. \A q \in Pager : buffer'[q] \in {buffer[q], NoPacket}
    BY <1>9 DEF NothingDue, CheckTimeouts, BeginCheck, FlushNothing, FlushHistory, Garble,
                GiveUp
  <2>3. \A q \in Pager : pc'[q] = "store" => pc[q] = "store"
    BY <1>9 DEF NothingDue, CheckTimeouts, BeginCheck, FlushNothing, FlushHistory, Garble,
                GiveUp, Visited, loopVars
  <2> QED  BY <1>7, <2>1, <2>2, <2>3
<1>10. ASSUME NEW p \in Pager, PowerCut(p) \/ Shutdown(p) \/ Boot(p) PROVE LinkInv'
  BY <1>7, <1>10 DEF PowerCut, Shutdown, Halt, Boot, ghostVars
<1>11. CASE UNCHANGED vars
  BY <1>7, <1>11 DEF vars
<1> QED
  BY <1>5, <1>6, <1>8, <1>9, <1>10, <1>11, LinkSend DEF Next, Step, VisitNext
(***************************************************************************)
(* What a pager shows                                                      *)
(***************************************************************************)
\* Own ids are different, so the status of a message is that of its one entry.
LEMMA StatusOfEntry ==
  ASSUME NEW s, SentOnce(s), NEW i \in Id, NEW k \in 1..Len(s), Owns(s[k], i)
  PROVE  StatusOf(s, i) = s[k].st
<1> DEFINE c == CHOOSE j \in 1..Len(s) : Owns(s[j], i)
<1>1. c \in 1..Len(s) /\ Owns(s[c], i)
  OBVIOUS
<1>2. StatusOf(s, i) = s[c].st
  BY DEF StatusOf
<1> HIDE DEF c
<1>3. i # NoId
  BY DEF Id, NoId
<1>4. SameSent(s[c], s[k])
  BY <1>1, <1>3 DEF Owns, SameSent
<1>5. c = k
  BY <1>1, <1>4 DEF SentOnce
<1> QED  BY <1>2, <1>5

\* A message that is in no entry has no status.
LEMMA StatusOfNone ==
  ASSUME NEW s, NEW i \in Id, i \notin OwnIn(s)
  PROVE  StatusOf(s, i) = "none"
BY DEF StatusOf, OwnIn

\* Another status of one entry is another status of its message alone.
LEMMA StatusOfChanged ==
  ASSUME NEW s, NEW t, SentOnce(s), NEW k \in 1..Len(s), NEW i \in Id, Owns(s[k], i),
         Len(t) = Len(s), \A j \in 1..Len(s) : j # k => t[j] = s[j],
         t[k].id = s[k].id, t[k].out = s[k].out
  PROVE  \A j \in Id : StatusOf(t, j) = IF j = i THEN t[k].st ELSE StatusOf(s, j)
<1>1. \A j \in 1..Len(s) : t[j].id = s[j].id /\ t[j].out = s[j].out
  OBVIOUS
<1>2. SentOnce(t)
  BY <1>1 DEF SentOnce, SameSent
<1>3. Owns(t[k], i)
  BY <1>1 DEF Owns
<1>4. StatusOf(t, i) = t[k].st
  BY <1>2, <1>3, StatusOfEntry
<1>5. ASSUME NEW j \in Id, j # i PROVE StatusOf(t, j) = StatusOf(s, j)
  <2>1. CASE j \notin OwnIn(s)
    <3>1. j \notin OwnIn(t)
      BY <1>1, <2>1 DEF OwnIn, Owns
    <3> QED  BY <2>1, <3>1, StatusOfNone
  <2>2. CASE j \in OwnIn(s)
    <3>1. PICK l \in 1..Len(s) : Owns(s[l], j)
      BY <2>2 DEF OwnIn
    <3>2. l # k /\ t[l] = s[l] /\ l \in 1..Len(t)
      BY <1>5, <3>1 DEF Owns
    <3>3. StatusOf(s, j) = s[l].st
      BY <3>1, StatusOfEntry
    <3>4. StatusOf(t, j) = t[l].st
      BY <1>2, <3>1, <3>2, StatusOfEntry
    <3> QED  BY <3>2, <3>3, <3>4
  <2> QED  BY <2>1, <2>2
<1> QED  BY <1>4, <1>5

\* What add_message leaves keeps its status; the new entry has its own.
LEMMA StatusOfAdded ==
  ASSUME NEW s \in Seq(Message), NEW m \in Message, SentOnce(s), SentOnce(Added(s, m)),
         NEW i \in Id
  PROVE  StatusOf(Added(s, m), i) =
           IF Owns(m, i) THEN m.st
           ELSE IF i \in OwnIn(Added(s, m)) THEN StatusOf(s, i) ELSE "none"
<1> DEFINE t == Added(s, m)
           d == Len(s) + 1 - Len(t)
<1>1. /\ t \in Seq(Message) /\ Len(t) \in 1..(Len(s) + 1) /\ t[Len(t)] = m
      /\ \A k \in 1..(Len(t) - 1) : k + d \in 1..Len(s) /\ t[k] = s[k + d]
      /\ Len(s) \in Nat
  BY AddedProperties, LenProperties
<1>2. SentOnce(t)
  OBVIOUS
<1> HIDE DEF t, d
<1>3. CASE Owns(m, i)
  <2>1. Len(t) \in 1..Len(t)
    BY <1>1
  <2>2. StatusOf(t, i) = m.st
    BY <1>1, <1>2, <1>3, <2>1, StatusOfEntry
  <2> QED  BY <1>3, <2>2 DEF t
<1>4. CASE ~Owns(m, i) /\ i \in OwnIn(t)
  <2>1. PICK k \in 1..Len(t) : Owns(t[k], i)
    BY <1>4 DEF OwnIn
  <2>2. k \in 1..(Len(t) - 1)
    BY <1>1, <1>4, <2>1
  <2>3. k + d \in 1..Len(s) /\ t[k] = s[k + d]
    BY <1>1, <2>2
  <2>4. StatusOf(t, i) = t[k].st /\ StatusOf(s, i) = s[k + d].st
    BY <1>2, <2>1, <2>3, StatusOfEntry
  <2> QED  BY <1>4, <2>3, <2>4 DEF t
<1>5. CASE ~Owns(m, i) /\ i \notin OwnIn(t)
  BY <1>5, StatusOfNone DEF t
<1> QED  BY <1>3, <1>4, <1>5 DEF t

\* A pager shows nothing of a message it is not the author of.
LEMMA NotMine ==
  ASSUME NEW p \in Pager, NEW i \in Id, i \notin Mine(p)
  PROVE  SentBy(p)[i] = "none"
<1>1. i \notin OwnIn(messages[p]) /\ ~(pc[p] = "add" /\ current[p] = i)
  BY DEF Mine, Outgoing, Id, NoId
<1> QED  BY <1>1, StatusOfNone DEF SentBy

\* A step of one pager changes only what that pager shows.
LEMMA OnePager ==
  ASSUME NEW p \in Pager,
         \A q \in Pager \ {p} : /\ pc'[q] = pc[q] /\ current'[q] = current[q]
                                /\ messages'[q] = messages[q]
  PROVE  /\ Up' = [Up EXCEPT ![p] = (pc'[p] # "off")]
         /\ Arriving' = [Arriving EXCEPT ![p] = IF pc'[p] = "store" THEN {current'[p]} ELSE {}]
         /\ Sent' = [Sent EXCEPT ![p] = SentBy(p)']
         /\ Received' = [Received EXCEPT ![p] = ReceivedBy(p)']
<1>1. Up' = [Up EXCEPT ![p] = (pc'[p] # "off")]
  BY DEF Up
<1>2. Arriving' = [Arriving EXCEPT ![p] = IF pc'[p] = "store" THEN {current'[p]} ELSE {}]
  BY DEF Arriving
<1>3. \A q \in Pager \ {p} : SentBy(q)' = SentBy(q) /\ ReceivedBy(q)' = ReceivedBy(q)
  BY DEF SentBy, ReceivedBy
<1>4. Sent' = [Sent EXCEPT ![p] = SentBy(p)']
  BY <1>3 DEF Sent
<1>5. Received' = [Received EXCEPT ![p] = ReceivedBy(p)']
  BY <1>3 DEF Received
<1> QED  BY <1>1, <1>2, <1>4, <1>5
(***************************************************************************)
(* Steps                                                                   *)
(***************************************************************************)
\* Everything the refinement rests on.
DeliveryInv == Typing /\ AttemptsInv /\ SentInv /\ MarksInv /\ LinkInv

\* Steps of the loop that move no message: the promise does not see them.
Unseen == UNCHANGED <<Up, Arriving, Sent, Received, attempts, accepted>>

\* They leave all that the promise speaks of alone.
LEMMA UnseenSteps ==
  ASSUME DeliveryInv, NEW p \in Pager,
         \/ NoSend(p) \/ EditChannel(p) \/ SendWithoutRadio(p) \/ ReceiveNothing(p)
         \/ NothingDue(p) \/ CheckTimeouts(p) \/ FlushNothing(p) \/ FlushHistory(p) \/ Garble(p)
  PROVE  Unseen
<1>1. /\ UNCHANGED <<messages, current, attempts, accepted>>
      /\ \A q \in Pager \ {p} : pc'[q] = pc[q]
      /\ \/ pc'[p] = pc[p]
         \/ /\ pc[p] \notin {"off", "add", "store"} /\ pc'[p] \notin {"off", "add", "store"}
         \/ /\ pc[p] = "keys" /\ pc'[p] = "add" /\ current[p] = NoId
  BY DEF NoSend, EditChannel, SendWithoutRadio, ReceiveNothing, NothingDue, CheckTimeouts,
         BeginCheck, FlushNothing, FlushHistory, Garble, historyVars, ghostVars, loopVars,
         DeliveryInv, AttemptsInv, IdsGivenOut, Typing, TypeOK
<1>2. ASSUME NEW q \in Pager
      PROVE  /\ (pc'[q] = "off") = (pc[q] = "off") /\ (pc'[q] = "store") = (pc[q] = "store")
             /\ \A i \in Id : (pc'[q] = "add" /\ current'[q] = i) = (pc[q] = "add" /\ current[q] = i)
  BY <1>1 DEF Id, NoId
<1>3. Up' = Up /\ Arriving' = Arriving
  BY <1>1, <1>2 DEF Up, Arriving
<1>4. Sent' = Sent
  BY <1>1, <1>2 DEF Sent, SentBy
<1>5. Received' = Received
  BY <1>1 DEF Received, ReceivedBy
<1> QED  BY <1>1, <1>3, <1>4, <1>5 DEF Unseen

\* Sending: the message is new and is on the screen as waiting, though its entry
\* is only made after the transmission.
LEMMA SendSteps ==
  ASSUME DeliveryInv, NEW p \in Pager, SendByRadio(p)
  PROVE  nextId \in Id /\ Promise!Send(p, nextId)
<1>1. /\ nextId \in Id /\ pc[p] = "keys" /\ pc'[p] = "add" /\ current'[p] = nextId
      /\ UNCHANGED <<messages, accepted>> /\ attempts' = [attempts EXCEPT ![nextId] = 1]
      /\ \A q \in Pager \ {p} : pc'[q] = pc[q] /\ current'[q] = current[q]
  BY BoundsAssumption DEF SendByRadio, historyVars, Id, DeliveryInv, Typing, TypeOK
<1>2. attempts[nextId] = 0
  <2>1. nextId \notin Tried /\ attempts[nextId] \in Nat
    BY <1>1 DEF DeliveryInv, LinkInv, Typing, TypeOK
  <2> QED  BY <1>1, <2>1 DEF Tried
<1>3. SentBy(p)' = [SentBy(p) EXCEPT ![nextId] = "sending"] /\ ReceivedBy(p)' = ReceivedBy(p)
  BY <1>1 DEF SentBy, ReceivedBy
<1>4. Sent[p] = SentBy(p) /\ Received[p] = ReceivedBy(p) /\ Up[p] /\ Up'[p]
      /\ Arriving[p] = {} /\ Arriving'[p] = {}
  BY <1>1 DEF Sent, Received, Up, Arriving
<1>5. /\ Up' = [Up EXCEPT ![p] = (pc'[p] # "off")]
      /\ Arriving' = [Arriving EXCEPT ![p] = IF pc'[p] = "store" THEN {current'[p]} ELSE {}]
      /\ Sent' = [Sent EXCEPT ![p] = SentBy(p)']
      /\ Received' = [Received EXCEPT ![p] = ReceivedBy(p)']
  BY <1>1, OnePager
<1>6. UNCHANGED <<Up, Arriving, Received>>
  <2>1. UNCHANGED Up
    BY <1>1, <1>4, <1>5 DEF Up
  <2>2. UNCHANGED Arriving
    BY <1>1, <1>4, <1>5 DEF Arriving
  <2>3. UNCHANGED Received
    BY <1>3, <1>4, <1>5 DEF Received
  <2> QED  BY <2>1, <2>2, <2>3
<1>7. Sent' = [Sent EXCEPT ![p][nextId] = "sending"]
  BY <1>3, <1>4, <1>5
<1> QED  BY <1>1, <1>2, <1>4, <1>6, <1>7 DEF Promise!Send
\* add_message puts the new entry on the screen and keeps some of the others.
Kept(s) == OwnIn(s) \cup ForeignIn(s)

\* An entry of the loop shows its message, and of the others what is still in the history.
LEMMA AddSteps ==
  ASSUME DeliveryInv, SentInv', NEW p \in Pager, NEW out \in BOOLEAN,
         pc[p] = IF out THEN "add" ELSE "store", pc'[p] \notin {"add", "store", "off"},
         messages'[p] = Added(messages[p], NewMessage(current[p], out)),
         \A q \in Pager \ {p} : /\ pc'[q] = pc[q] /\ current'[q] = current[q]
                                /\ messages'[q] = messages[q]
  PROVE  /\ UNCHANGED Up /\ Up[p]
         /\ Arriving' = [Arriving EXCEPT ![p] = {}]
         /\ Promise!Shows(p, Kept(messages'[p]), IF out THEN {} ELSE {current[p]})
<1> DEFINE m == NewMessage(current[p], out)
           s == messages[p]
           t == Added(s, m)
           kept == Kept(messages'[p])
<1>1. /\ s \in Seq(Message) /\ m \in Message /\ messages'[p] = t
      /\ m.out = out /\ m.id = current[p] /\ current[p] \in Id \cup {NoId}
      /\ out /\ current[p] # NoId => m.st = "sending"
  BY NewMessageType DEF NewMessage, DeliveryInv, Typing, TypeOK
<1>2. SentOnce(s) /\ SentOnce(messages'[p])
  BY DEF DeliveryInv, SentInv, OwnIds
<1>3. LinkOf(p)
  BY DEF DeliveryInv, LinkInv
<1>4. kept = OwnIn(t) \cup ForeignIn(t)
  BY <1>1 DEF Kept
<1> HIDE DEF t, kept
<1>5. /\ \A i \in OwnIn(t) : i \in OwnIn(s) \/ Owns(m, i)
      /\ \A i \in ForeignIn(t) : i \in ForeignIn(s) \/ (~m.out /\ m.id = i)
      /\ \A i \in Id : Owns(m, i) => i \in OwnIn(t)
      /\ \A i \in Id : ~m.out /\ m.id = i => i \in ForeignIn(t)
  BY <1>1, AddedContents DEF t
<1>6. \A i \in Id : StatusOf(t, i) = IF Owns(m, i) THEN m.st
                                     ELSE IF i \in OwnIn(t) THEN StatusOf(s, i) ELSE "none"
  BY <1>1, <1>2, StatusOfAdded DEF t
<1> HIDE DEF m, s
<1>7. \A i \in Id : Owns(m, i) => out /\ current[p] = i /\ i # NoId
  BY <1>1 DEF Owns, Id, NoId
<1>8. \A i \in Id : Owns(m, i) => i \in Mine(p)
  BY <1>7 DEF Mine, Outgoing
<1>9. OwnIn(s) \subseteq Mine(p) /\ ForeignIn(s) \subseteq accepted[p]
      /\ (~out => current[p] \in accepted[p])
      /\ accepted[p] \cap Mine(p) = {} /\ accepted[p] \subseteq Id
  BY <1>3 DEF LinkOf, Mine, s, DeliveryInv, Typing, TypeOK
<1>10. OwnIn(t) \subseteq Mine(p) /\ ForeignIn(t) \subseteq accepted[p]
       /\ OwnIn(t) \subseteq Id
  <2>1. OwnIn(t) \subseteq Id /\ ForeignIn(t) \subseteq Id
    BY DEF OwnIn, ForeignIn
  <2>2. ASSUME NEW i \in OwnIn(t) PROVE i \in Mine(p)
    BY <1>5, <1>8, <1>9, <2>1
  <2>3. ASSUME NEW i \in ForeignIn(t) PROVE i \in accepted[p]
    BY <1>1, <1>5, <1>9, <2>1
  <2> QED  BY <2>1, <2>2, <2>3
<1>11. SentBy(p)' = [i \in Id |-> IF i \in kept THEN SentBy(p)[i] ELSE "none"]
  <2>1. SentBy(p)' = [i \in Id |-> StatusOf(t, i)]
    BY <1>1 DEF SentBy
  <2>2. ASSUME NEW i \in Id
        PROVE  StatusOf(t, i) = IF i \in kept THEN SentBy(p)[i] ELSE "none"
    <3>1. CASE Owns(m, i)
      <4>1. SentBy(p)[i] = "sending" /\ m.st = "sending" /\ i \in kept
        BY <1>1, <1>4, <1>5, <1>7, <3>1 DEF SentBy
      <4> QED  BY <1>6, <3>1, <4>1
    <3>2. CASE ~Owns(m, i) /\ i \in OwnIn(t)
      <4>1. ~(pc[p] = "add" /\ current[p] = i)
        BY <1>1, <3>2 DEF Owns
      <4>2. SentBy(p)[i] = StatusOf(s, i)
        BY <4>1 DEF SentBy, s
      <4> QED  BY <1>4, <1>6, <3>2, <4>2
    <3>3. CASE ~Owns(m, i) /\ i \notin OwnIn(t)
      <4>1. i \in kept => SentBy(p)[i] = "none"
        BY <1>4, <1>9, <1>10, <3>3, NotMine
      <4> QED  BY <1>6, <3>3, <4>1
    <3> QED  BY <3>1, <3>2, <3>3
  <2> QED  BY <2>1, <2>2
<1>12. ReceivedBy(p)' = (ReceivedBy(p) \cap kept) \cup (IF out THEN {} ELSE {current[p]})
  <2>1. ReceivedBy(p) = ForeignIn(s) /\ ReceivedBy(p)' = ForeignIn(t)
    BY <1>1 DEF ReceivedBy, ForeignIn, s
  <2>2. \A i \in ForeignIn(s) : i \in kept => i \in ForeignIn(t)
    BY <1>4, <1>9, <1>10
  <2>3. \A i \in ForeignIn(t) : i \in ForeignIn(s) \/ (~out /\ i = current[p])
    BY <1>1, <1>5
  <2>4. ~out => current[p] \in ForeignIn(t)
    BY <1>1, <1>5, <1>9
  <2> QED  BY <1>4, <2>1, <2>2, <2>3, <2>4
<1>13. /\ Up' = [Up EXCEPT ![p] = (pc'[p] # "off")]
       /\ Arriving' = [Arriving EXCEPT ![p] = IF pc'[p] = "store" THEN {current'[p]} ELSE {}]
       /\ Sent' = [Sent EXCEPT ![p] = SentBy(p)']
       /\ Received' = [Received EXCEPT ![p] = ReceivedBy(p)']
       /\ Sent[p] = SentBy(p) /\ Received[p] = ReceivedBy(p) /\ Up[p]
  <2>1. Sent[p] = SentBy(p) /\ Received[p] = ReceivedBy(p) /\ Up[p]
    BY DEF Sent, Received, Up
  <2> QED  BY <2>1, OnePager
<1>14. UNCHANGED Up
  BY <1>13 DEF Up
<1>15. Promise!Shows(p, kept, IF out THEN {} ELSE {current[p]})
  BY <1>11, <1>12, <1>13 DEF Promise!Shows
<1> QED  BY <1>13, <1>14, <1>15 DEF kept

\* The kept messages are messages.
LEMMA KeptIds == ASSUME NEW s PROVE Kept(s) \in SUBSET Id
BY DEF Kept, OwnIn, ForeignIn

\* The entry of a message just sent: the screen shows what it showed, but for
\* the entries that were trimmed.
LEMMA ForgetSteps ==
  ASSUME DeliveryInv, SentInv', NEW p \in Pager, AddOutgoing(p)
  PROVE  Promise!Forget(p)
<1>1. /\ pc[p] = "add" /\ pc'[p] = "radio" /\ UNCHANGED <<attempts, accepted>>
      /\ messages'[p] = Added(messages[p], NewMessage(current[p], TRUE))
      /\ \A q \in Pager \ {p} : /\ pc'[q] = pc[q] /\ current'[q] = current[q]
                                /\ messages'[q] = messages[q]
  BY DEF AddOutgoing, ghostVars, DeliveryInv, Typing, TypeOK
<1>2. /\ UNCHANGED Up /\ Up[p]
      /\ Arriving' = [Arriving EXCEPT ![p] = {}]
      /\ Promise!Shows(p, Kept(messages'[p]), {})
  BY <1>1, AddSteps
<1>3. Arriving[p] = {} /\ UNCHANGED Arriving
  BY <1>1, <1>2 DEF Arriving
<1> QED  BY <1>1, <1>2, <1>3, KeptIds DEF Promise!Forget

\* The entry of a received message, or the old one when it is a repeat.
LEMMA ShowSteps ==
  ASSUME DeliveryInv, SentInv', NEW p \in Pager, StoreIncoming(p)
  PROVE  current[p] \in Id /\ Promise!Show(p, current[p])
<1>1. /\ pc[p] = "store" /\ pc'[p] = "acks" /\ UNCHANGED <<attempts, accepted>>
      /\ \A q \in Pager \ {p} : /\ pc'[q] = pc[q] /\ current'[q] = current[q]
                                /\ messages'[q] = messages[q]
  BY DEF StoreIncoming, ghostVars, DeliveryInv, Typing, TypeOK
<1>2. current[p] \in Id
  BY <1>1 DEF DeliveryInv, LinkInv, LinkOf, Typing, TypeOK
<1>3. current[p] \in Arriving[p]
  BY <1>1 DEF Arriving
<1>4. CASE ~SeenLately(messages[p], current[p])
  <2>1. messages'[p] = Added(messages[p], NewMessage(current[p], FALSE))
    BY <1>4 DEF StoreIncoming, DeliveryInv, Typing, TypeOK
  <2>2. /\ UNCHANGED Up /\ Up[p]
        /\ Arriving' = [Arriving EXCEPT ![p] = {}]
        /\ Promise!Shows(p, Kept(messages'[p]), {current[p]})
    BY <1>1, <2>1, AddSteps
  <2> QED  BY <1>1, <1>2, <1>3, <2>2, KeptIds DEF Promise!Show
<1>5. CASE SeenLately(messages[p], current[p])
  <2>1. UNCHANGED messages
    BY <1>5 DEF StoreIncoming
  <2>2. current[p] \in ReceivedBy(p)
    BY <1>2, <1>5 DEF SeenLately, ReceivedBy
  <2>3. SentBy(p)' = SentBy(p) /\ ReceivedBy(p)' = ReceivedBy(p)
    BY <1>1, <2>1 DEF SentBy, ReceivedBy
  <2>4. /\ Up' = [Up EXCEPT ![p] = (pc'[p] # "off")]
        /\ Arriving' = [Arriving EXCEPT ![p] = IF pc'[p] = "store" THEN {current'[p]} ELSE {}]
        /\ Sent' = [Sent EXCEPT ![p] = SentBy(p)']
        /\ Received' = [Received EXCEPT ![p] = ReceivedBy(p)']
    BY <1>1, OnePager
  <2>5. Up[p] /\ Sent[p] = SentBy(p) /\ Received[p] = ReceivedBy(p)
    BY <1>1 DEF Up, Sent, Received
  <2>6. UNCHANGED Up /\ Arriving' = [Arriving EXCEPT ![p] = {}]
    BY <1>1, <2>4, <2>5 DEF Up
  <2>7. SentBy(p) = [i \in Id |-> IF i \in Id THEN SentBy(p)[i] ELSE "none"]
    BY DEF SentBy
  <2>8. ReceivedBy(p) = (ReceivedBy(p) \cap Id) \cup {current[p]}
    BY <2>2 DEF ReceivedBy
  <2>9. Promise!Shows(p, Id, {current[p]})
    BY <2>3, <2>4, <2>5, <2>7, <2>8 DEF Promise!Shows
  <2> QED  BY <1>1, <1>2, <1>3, <2>5, <2>6, <2>9 DEF Promise!Show
<1> QED  BY <1>2, <1>4, <1>5
\* An acknowledgement that goes out: what it acknowledges was transmitted, and
\* this pager shows nothing of it as its own.
LEMMA AcceptSteps ==
  ASSUME DeliveryInv, NEW p \in Pager, ReceiveMessage(p)
  PROVE  buffer[p].id \in Id /\ Promise!Accept(p, buffer[p].id)
<1> DEFINE id == buffer[p].id
<1>1. /\ pc[p] = "radio" /\ pc'[p] = "store" /\ current'[p] = id
      /\ UNCHANGED <<messages, attempts>>
      /\ accepted' = [accepted EXCEPT ![p] = @ \cup {id}]
      /\ \A q \in Pager \ {p} : pc'[q] = pc[q] /\ current'[q] = current[q]
  BY DEF ReceiveMessage, Receives, historyVars, DeliveryInv, Typing, TypeOK
<1>2. id \in Tried \ Mine(p)
  BY DEF ReceiveMessage, Receives, DeliveryInv, LinkInv, LinkOf
<1> HIDE DEF id
<1>3. id \in Id /\ attempts[id] > 0 /\ SentBy(p)[id] = "none"
  BY <1>2, NotMine DEF Tried
<1>4. SentBy(p)' = SentBy(p) /\ ReceivedBy(p)' = ReceivedBy(p)
  BY <1>1 DEF SentBy, ReceivedBy
<1>5. /\ Up' = [Up EXCEPT ![p] = (pc'[p] # "off")]
      /\ Arriving' = [Arriving EXCEPT ![p] = IF pc'[p] = "store" THEN {current'[p]} ELSE {}]
      /\ Sent' = [Sent EXCEPT ![p] = SentBy(p)']
      /\ Received' = [Received EXCEPT ![p] = ReceivedBy(p)']
  BY <1>1, OnePager
<1>6. Up[p] /\ Arriving[p] = {} /\ Sent[p] = SentBy(p) /\ Received[p] = ReceivedBy(p)
  BY <1>1 DEF Up, Arriving, Sent, Received
<1>7. UNCHANGED <<Up, Sent, Received>> /\ Arriving' = [Arriving EXCEPT ![p] = {id}]
  <2>1. UNCHANGED Up
    BY <1>1, <1>5, <1>6 DEF Up
  <2>2. UNCHANGED Sent
    BY <1>4, <1>5, <1>6 DEF Sent
  <2>3. UNCHANGED Received
    BY <1>4, <1>5, <1>6 DEF Received
  <2>4. Arriving' = [Arriving EXCEPT ![p] = {id}]
    BY <1>1, <1>5
  <2> QED  BY <2>1, <2>2, <2>3, <2>4
<1> QED  BY <1>1, <1>3, <1>6, <1>7 DEF Promise!Accept, id

\* A status that changes in one entry, seen on the screen.
LEMMA EntrySteps ==
  ASSUME DeliveryInv, NEW p \in Pager, NEW k \in Sending(messages[p]),
         pc[p] \notin {"off", "add", "store"}, pc'[p] \notin {"off", "add", "store"},
         \A q \in Pager \ {p} : pc'[q] = pc[q] /\ messages'[q] = messages[q],
         current' = current,
         Len(messages'[p]) = Len(messages[p]),
         \A j \in 1..Len(messages[p]) : j # k => messages'[p][j] = messages[p][j],
         messages'[p][k].id = messages[p][k].id, messages'[p][k].out = messages[p][k].out
  PROVE  /\ UNCHANGED <<Up, Arriving, Received>> /\ Up[p]
         /\ messages[p][k].id \in Id /\ Sent[p][messages[p][k].id] = "sending"
         /\ Sent' = [Sent EXCEPT ![p][messages[p][k].id] = messages'[p][k].st]
<1> DEFINE s == messages[p]
           t == messages'[p]
           id == messages[p][k].id
<1>1. k \in 1..Len(s) /\ s[k].st = "sending" /\ SentOnce(s) /\ id \in Id
  BY DEF Sending, DeliveryInv, SentInv, OwnIds, AttemptsInv, ShownRetriesAreReal
<1>2. Owns(s[k], id)
  <2>1. StatusFits(s[k])
    BY <1>1 DEF DeliveryInv, LinkInv, LinkOf, StatusesFit
  <2> QED  BY <1>1, <2>1 DEF StatusFits, Owns
<1>3. \A j \in Id : StatusOf(t, j) = IF j = id THEN t[k].st ELSE StatusOf(s, j)
  <2>1. /\ Len(t) = Len(s) /\ \A j \in 1..Len(s) : j # k => t[j] = s[j]
        /\ t[k].id = s[k].id /\ t[k].out = s[k].out
    OBVIOUS
  <2> HIDE DEF s, t, id
  <2> QED  BY <1>1, <1>2, <2>1, StatusOfChanged
<1>4. StatusOf(s, id) = "sending"
  BY <1>1, <1>2, StatusOfEntry
<1>5. SentBy(p) = [i \in Id |-> StatusOf(s, i)] /\ SentBy(p)' = [i \in Id |-> StatusOf(t, i)]
  BY DEF SentBy
<1>6. SentBy(p)' = [SentBy(p) EXCEPT ![id] = t[k].st]
  BY <1>1, <1>3, <1>5
<1>7. ReceivedBy(p)' = ReceivedBy(p)
  <2>1. \A j \in 1..Len(s) : t[j].id = s[j].id /\ t[j].out = s[j].out
    OBVIOUS
  <2> QED  BY <2>1 DEF ReceivedBy
<1>8. /\ Up' = [Up EXCEPT ![p] = (pc'[p] # "off")]
      /\ Arriving' = [Arriving EXCEPT ![p] = IF pc'[p] = "store" THEN {current'[p]} ELSE {}]
      /\ Sent' = [Sent EXCEPT ![p] = SentBy(p)']
      /\ Received' = [Received EXCEPT ![p] = ReceivedBy(p)']
  BY OnePager
<1>9. Up[p] /\ Arriving[p] = {} /\ Sent[p] = SentBy(p) /\ Received[p] = ReceivedBy(p)
  BY DEF Up, Arriving, Sent, Received
<1>10. UNCHANGED <<Up, Arriving, Received>>
  <2>1. UNCHANGED Up
    BY <1>8, <1>9 DEF Up
  <2>2. UNCHANGED Arriving
    BY <1>8, <1>9 DEF Arriving
  <2>3. UNCHANGED Received
    BY <1>7, <1>8, <1>9 DEF Received
  <2> QED  BY <2>1, <2>2, <2>3
<1>11. Sent[p][id] = "sending"
  BY <1>1, <1>4, <1>5, <1>9
<1>12. Sent' = [Sent EXCEPT ![p][id] = t[k].st]
  <2> HIDE DEF s, t, id
  <2> QED  BY <1>6, <1>8, <1>9
<1> QED  BY <1>1, <1>9, <1>10, <1>11, <1>12

\* An ack marks a message that another pager acknowledged, or nothing.
LEMMA ConfirmSteps ==
  ASSUME DeliveryInv, NEW p \in Pager, ReceiveAck(p)
  PROVE  Unseen \/ \E i \in Id : Promise!Confirm(p, i)
<1>1. /\ pc[p] = "radio" /\ pc'[p] = "acks"
      /\ UNCHANGED <<current, attempts, accepted>>
      /\ \A q \in Pager \ {p} : pc'[q] = pc[q]
      /\ buffer[p].id \in Taken(p)
  BY DEF ReceiveAck, Receives, ghostVars, DeliveryInv, MarksInv, Typing, TypeOK
<1>2. CASE UNCHANGED messages
  <2>1. Up' = Up /\ Arriving' = Arriving
    BY <1>1 DEF Up, Arriving
  <2>2. Sent' = Sent /\ Received' = Received
    <3>1. \A q \in Pager : SentBy(q)' = SentBy(q)
      BY <1>1, <1>2 DEF SentBy
    <3> QED  BY <1>2, <3>1 DEF Sent, Received, ReceivedBy
  <2> QED  BY <1>1, <2>1, <2>2 DEF Unseen
<1>3. CASE ~UNCHANGED messages
  <2>1. PICK k \in Sending(messages[p]) :
          /\ messages[p][k] \in Message
          /\ messages[p][k].id = buffer[p].id
          /\ \A q \in Pager \ {p} : messages'[q] = messages[q]
          /\ Len(messages'[p]) = Len(messages[p])
          /\ \A j \in 1..Len(messages[p]) : j # k => messages'[p][j] = messages[p][j]
          /\ messages'[p][k] = [messages[p][k] EXCEPT !.st = "ok"]
    BY <1>3, AckChange DEF DeliveryInv
  <2>2. /\ messages'[p][k].id = messages[p][k].id /\ messages'[p][k].out = messages[p][k].out
        /\ messages'[p][k].st = "ok"
    BY <2>1 DEF Message
  <2> DEFINE id == messages[p][k].id
  <2>3. /\ UNCHANGED <<Up, Arriving, Received>> /\ Up[p]
        /\ id \in Id /\ Sent[p][id] = "sending"
        /\ Sent' = [Sent EXCEPT ![p][id] = messages'[p][k].st]
    <3>1. /\ pc[p] \notin {"off", "add", "store"} /\ pc'[p] \notin {"off", "add", "store"}
          /\ \A q \in Pager \ {p} : pc'[q] = pc[q] /\ messages'[q] = messages[q]
          /\ current' = current
      BY <1>1, <2>1
    <3> QED  BY <2>1, <2>2, <3>1, EntrySteps
  <2>4. Promise!AcceptedElsewhere(p, id)
    <3>1. id \in Taken(p)
      BY <1>1, <2>1
    <3> HIDE DEF id
    <3> QED  BY <3>1 DEF Taken, Promise!AcceptedElsewhere
  <2>5. Promise!Confirm(p, id)
    BY <1>1, <2>2, <2>3, <2>4 DEF Promise!Confirm
  <2> QED  BY <2>3, <2>5
<1> QED  BY <1>2, <1>3

\* A visit of the timeout check: one more attempt of those allowed, or the
\* verdict after the last of them.
LEMMA VisitSteps ==
  ASSUME DeliveryInv, NEW p \in Pager, NEW k \in due[p], Resend(p, k) \/ GiveUp(p, k)
  PROVE  \E i \in Id : Promise!Repeat(p, i) \/ Promise!GiveUp(p, i)
<1> DEFINE id == messages[p][k].id
           retries == messages[p][k].retries
<1>1. /\ pc[p] = "retry" /\ pc'[p] \in {"retry", "flush"}
      /\ UNCHANGED <<current, accepted>>
      /\ \A q \in Pager \ {p} : pc'[q] = pc[q]
  BY DEF Resend, GiveUp, Visits, Visited, ghostVars, DeliveryInv, Typing, TypeOK
<1>2. /\ k \in Sending(messages[p]) /\ messages[p][k] \in Message
      /\ \A q \in Pager \ {p} : messages'[q] = messages[q]
      /\ Len(messages'[p]) = Len(messages[p])
      /\ \A j \in 1..Len(messages[p]) : j # k => messages'[p][j] = messages[p][j]
      /\ Resend(p, k) => /\ messages'[p][k] = [messages[p][k] EXCEPT !.retries = @ + 1]
                         /\ retries + 1 <= MaxRetries
      /\ GiveUp(p, k) => messages'[p][k] = [messages[p][k] EXCEPT !.st = "fail"]
  BY VisitTyping DEF DeliveryInv
<1>3. /\ messages'[p][k].id = id /\ messages'[p][k].out = messages[p][k].out
      /\ Resend(p, k) => messages'[p][k].st = "sending"
      /\ GiveUp(p, k) => messages'[p][k].st = "fail"
  BY <1>2 DEF Message, Sending
<1>4. retries \in 0..MaxRetries /\ attempts[id] = retries + 1
  BY <1>2 DEF Message, DeliveryInv, AttemptsInv, ShownRetriesAreReal
<1>5. /\ UNCHANGED <<Up, Arriving, Received>> /\ Up[p]
      /\ id \in Id /\ Sent[p][id] = "sending"
      /\ Sent' = [Sent EXCEPT ![p][id] = messages'[p][k].st]
  BY <1>1, <1>2, <1>3, EntrySteps
<1>6. CASE Resend(p, k)
  <2>1. attempts' = [attempts EXCEPT ![id] = @ + 1]
    BY <1>6 DEF Resend
  <2>2. attempts[id] < MaxRetries + 1
    <3>1. retries + 1 <= MaxRetries
      BY <1>2, <1>6
    <3> HIDE DEF id, retries
    <3> QED  BY <1>4, <3>1, BoundsAssumption
  <2>3. UNCHANGED Sent
    <3>1. Sent' = [Sent EXCEPT ![p][id] = "sending"] /\ Sent[p][id] = "sending"
      BY <1>3, <1>5, <1>6
    <3> HIDE DEF id
    <3>2. [Sent[p] EXCEPT ![id] = "sending"] = Sent[p]
      BY <3>1 DEF Sent, SentBy
    <3> QED  BY <3>1, <3>2 DEF Sent
  <2>4. Promise!Repeat(p, id)
    BY <1>1, <1>5, <2>1, <2>2, <2>3 DEF Promise!Repeat
  <2> QED  BY <1>5, <2>4
<1>7. CASE GiveUp(p, k)
  <2>1. lora[p] /\ id # NoId
    <3>1. lora[p]
      BY <1>2 DEF DeliveryInv, SentInv
    <3> HIDE DEF id
    <3> QED  BY <1>5, <3>1 DEF Id, NoId
  <2>2. retries = MaxRetries
    BY <1>4, <1>7, <2>1, BoundsAssumption DEF GiveUp, CanRetry
  <2>3. UNCHANGED attempts
    BY <1>7 DEF GiveUp, ghostVars
  <2>4. Promise!GiveUp(p, id)
    BY <1>1, <1>3, <1>4, <1>5, <1>7, <2>2, <2>3 DEF Promise!GiveUp
  <2> QED  BY <1>5, <2>4
<1> QED  BY <1>6, <1>7
\* A stop, planned or not: the pager shows nothing, and a message it has
\* acknowledged but not stored is lost.
LEMMA StopSteps ==
  ASSUME DeliveryInv, NEW p \in Pager, PowerCut(p) \/ Shutdown(p)
  PROVE  Promise!Stop(p)
<1>1. /\ pc[p] # "off" /\ pc'[p] = "off" /\ messages'[p] = << >>
      /\ UNCHANGED <<attempts, accepted>>
      /\ \A q \in Pager \ {p} : /\ pc'[q] = pc[q] /\ current'[q] = current[q]
                                /\ messages'[q] = messages[q]
  BY DEF PowerCut, Shutdown, Halt, ghostVars, DeliveryInv, Typing, TypeOK
<1>2. SentBy(p)' = Promise!NoVerdict
  <2>1. \A i \in Id : StatusOf(<< >>, i) = "none"
    BY EmptyContents, StatusOfNone
  <2> QED  BY <1>1, <2>1 DEF SentBy, Promise!NoVerdict
<1>3. ReceivedBy(p)' = {}
  BY <1>1, EmptySeq DEF ReceivedBy
<1>4. /\ Up' = [Up EXCEPT ![p] = (pc'[p] # "off")]
      /\ Arriving' = [Arriving EXCEPT ![p] = IF pc'[p] = "store" THEN {current'[p]} ELSE {}]
      /\ Sent' = [Sent EXCEPT ![p] = SentBy(p)']
      /\ Received' = [Received EXCEPT ![p] = ReceivedBy(p)']
  BY <1>1, OnePager
<1>5. Up[p]
  BY <1>1 DEF Up
<1>6. Up' = [Up EXCEPT ![p] = FALSE] /\ Arriving' = [Arriving EXCEPT ![p] = {}]
  BY <1>1, <1>4
<1> QED  BY <1>1, <1>2, <1>3, <1>4, <1>5, <1>6 DEF Promise!Stop

\* A start: the file holds only own messages that were transmitted, marked as
\* delivered only if they were, and messages that were acknowledged.
LEMMA ReturnSteps ==
  ASSUME DeliveryInv, SentInv', NEW p \in Pager, Boot(p)
  PROVE  Promise!Return(p)
<1> DEFINE t == FromDisk(disk[p])
<1>1. /\ pc[p] = "off" /\ pc'[p] = "keys" /\ messages'[p] = t /\ disk[p] \in Seq(Message)
      /\ UNCHANGED <<current, attempts, accepted>>
      /\ \A q \in Pager \ {p} : pc'[q] = pc[q] /\ messages'[q] = messages[q]
  BY DEF Boot, ghostVars, DeliveryInv, Typing, TypeOK
<1>2. /\ Mine(p) \subseteq Tried \ accepted[p] /\ ForeignIn(disk[p]) \subseteq accepted[p]
      /\ StatusesFit(disk[p]) /\ MarksOnly(disk[p], Taken(p))
  BY DEF DeliveryInv, LinkInv, LinkOf, MarksInv
<1>3. /\ OwnIn(t) \subseteq Mine(p) /\ ForeignIn(t) \subseteq accepted[p] /\ StatusesFit(t)
      /\ MarksOnly(t, Taken(p)) /\ Sending(t) = {}
  <2>1. OwnIn(disk[p]) \subseteq Mine(p)
    BY DEF Mine
  <2> QED  BY <1>1, <1>2, <2>1, DiskContents, DiskMarks, FromDiskProperties
<1>4. SentOnce(t) /\ t \in Seq(Message)
  <2>1. SentOnce(messages'[p])
    BY DEF SentInv, OwnIds
  <2> QED  BY <1>1, <2>1, FromDiskProperties
<1> HIDE DEF t
<1>5. SentBy(p)' = [i \in Id |-> StatusOf(t, i)] /\ ReceivedBy(p)' = ForeignIn(t)
  BY <1>1 DEF SentBy, ReceivedBy, ForeignIn
<1>6. ASSUME NEW i \in Id, i \in OwnIn(t)
      PROVE  /\ StatusOf(t, i) \in {"ok", "fail"}
             /\ StatusOf(t, i) = "ok" => Promise!AcceptedElsewhere(p, i)
  <2>1. PICK k \in 1..Len(t) : Owns(t[k], i)
    BY <1>6 DEF OwnIn
  <2>2. StatusOf(t, i) = t[k].st
    BY <1>4, <2>1, StatusOfEntry
  <2>3. t[k].st # "local"
    BY <1>3, <2>1 DEF StatusesFit, StatusFits, Owns, Id, NoId
  <2>4. t[k].st # "sending"
    BY <1>3 DEF Sending
  <2>5. t[k].st \in Status
    <3>1. t[k] \in Message
      BY <1>4, ElementOfSeq
    <3> QED  BY <3>1 DEF Message
  <2>6. t[k].st = "ok" => i \in Taken(p)
    BY <1>3, <2>1 DEF MarksOnly, Owns
  <2> QED  BY <2>2, <2>3, <2>4, <2>5, <2>6 DEF Status, Taken, Promise!AcceptedElsewhere
<1>7. ASSUME NEW i \in Id, i \notin OwnIn(t) PROVE StatusOf(t, i) = "none"
  BY <1>7, StatusOfNone
<1>8. ASSUME NEW i \in OwnIn(t)
      PROVE  /\ i \in Id /\ attempts[i] > 0 /\ i \notin accepted[p]
             /\ \A q \in Pager \ {p} : Sent[q][i] = "none"
  <2>1. i \in Mine(p) /\ i \in Tried /\ i \notin accepted[p]
    BY <1>2, <1>3
  <2>2. ASSUME NEW q \in Pager \ {p} PROVE Sent[q][i] = "none"
    <3>1. i \notin Mine(q) /\ i \in Id
      BY <2>1 DEF DeliveryInv, LinkInv, Tried
    <3> QED  BY <3>1, NotMine DEF Sent
  <2> QED  BY <2>1, <2>2 DEF Tried
<1> DEFINE v == [i \in Id |-> StatusOf(t, i)]
<1>9. v \in [Id -> Promise!Verdict] /\ Promise!Credible(p, v)
  <2>1. \A i \in Id : v[i] \in {"none", "ok", "fail"} /\ (v[i] # "none" => i \in OwnIn(t))
    BY <1>6, <1>7
  <2>2. \A i \in Id : v[i] = "ok" => Promise!AcceptedElsewhere(p, i)
    BY <1>6, <1>7
  <2>3. v \in [Id -> Promise!Verdict]
    BY <2>1 DEF Promise!Verdict
  <2> HIDE DEF v
  <2>4. Promise!Credible(p, v)
    BY <1>8, <2>1, <2>2 DEF Promise!Credible
  <2> QED  BY <2>3, <2>4
<1>10. /\ Up' = [Up EXCEPT ![p] = (pc'[p] # "off")]
       /\ Arriving' = [Arriving EXCEPT ![p] = IF pc'[p] = "store" THEN {current'[p]} ELSE {}]
       /\ Sent' = [Sent EXCEPT ![p] = SentBy(p)']
       /\ Received' = [Received EXCEPT ![p] = ReceivedBy(p)']
  BY <1>1, OnePager
<1>11. ~Up[p] /\ Up' = [Up EXCEPT ![p] = TRUE] /\ UNCHANGED Arriving
  BY <1>1, <1>10 DEF Up, Arriving
<1>12. Sent' = [Sent EXCEPT ![p] = v]
  BY <1>5, <1>10
<1>13. Received' = [Received EXCEPT ![p] = ForeignIn(t)] /\ ForeignIn(t) \in SUBSET accepted[p]
  BY <1>3, <1>5, <1>10
<1> HIDE DEF v
<1> QED  BY <1>1, <1>9, <1>11, <1>12, <1>13 DEF Promise!Return

(***************************************************************************)
(* The promise                                                             *)
(***************************************************************************)
\* Every step of the pagers is a step of the promise or one it does not see.
LEMMA PromiseNext ==
  ASSUME DeliveryInv, SentInv', [Next]_vars
  PROVE  [Promise!Next]_(Promise!link)
<1>1. Unseen => [Promise!Next]_(Promise!link)
  BY DEF Unseen, Promise!link
<1>2. ASSUME NEW p \in Pager, NEW i \in Id,
             \/ Promise!Send(p, i) \/ Promise!Repeat(p, i) \/ Promise!Accept(p, i)
             \/ Promise!Show(p, i) \/ Promise!Confirm(p, i) \/ Promise!GiveUp(p, i)
      PROVE  [Promise!Next]_(Promise!link)
  BY <1>2 DEF Promise!Next
<1>3. ASSUME NEW p \in Pager, Promise!Forget(p) \/ Promise!Stop(p) \/ Promise!Return(p)
      PROVE  [Promise!Next]_(Promise!link)
  BY <1>3 DEF Promise!Next
<1>4. ASSUME NEW p \in Pager,
             \/ NoSend(p) \/ EditChannel(p) \/ SendWithoutRadio(p) \/ ReceiveNothing(p)
             \/ NothingDue(p) \/ CheckTimeouts(p) \/ FlushNothing(p) \/ FlushHistory(p)
             \/ Garble(p)
      PROVE  [Promise!Next]_(Promise!link)
  BY <1>1, <1>4, UnseenSteps
<1>5. ASSUME NEW p \in Pager, SendByRadio(p) \/ ReceiveMessage(p) \/ StoreIncoming(p)
      PROVE  [Promise!Next]_(Promise!link)
  BY <1>2, <1>5, SendSteps, AcceptSteps, ShowSteps
<1>6. ASSUME NEW p \in Pager, AddOutgoing(p) \/ PowerCut(p) \/ Shutdown(p) \/ Boot(p)
      PROVE  [Promise!Next]_(Promise!link)
  BY <1>3, <1>6, ForgetSteps, StopSteps, ReturnSteps
<1>7. ASSUME NEW p \in Pager, ReceiveAck(p) PROVE [Promise!Next]_(Promise!link)
  BY <1>1, <1>2, <1>7, ConfirmSteps
<1>8. ASSUME NEW p \in Pager, NEW k \in due[p], Resend(p, k) \/ GiveUp(p, k)
      PROVE  [Promise!Next]_(Promise!link)
  BY <1>2, <1>8, VisitSteps
<1>9. CASE UNCHANGED vars
  <2>1. Unseen
    BY <1>9 DEF vars, Unseen, Up, Arriving, Sent, SentBy, Received, ReceivedBy
  <2> QED  BY <1>1, <2>1
<1> QED  BY <1>4, <1>5, <1>6, <1>7, <1>8, <1>9 DEF Next, Step, VisitNext

\* Everything the refinement rests on holds in every reachable state.
LEMMA DeliveryHolds == Spec => []DeliveryInv
<1>1. Init => MarksInv /\ LinkInv
  <2> SUFFICES ASSUME Init PROVE MarksInv /\ LinkInv
    OBVIOUS
  <2>1. MarksInv
    BY EmptyMarks DEF Init, MarksInv
  <2>2. Tried = {}
    BY DEF Init, Tried
  <2>3. \A p \in Pager : Mine(p) = {}
    BY EmptyContents DEF Init, Mine, Outgoing
  <2>4. \A p \in Pager : LinkOf(p)
    BY <2>2, <2>3, EmptyContents DEF Init, LinkOf
  <2> QED  BY <2>1, <2>2, <2>3, <2>4 DEF LinkInv
<1>2. Typing /\ MarksInv /\ [Next]_vars => MarksInv'
  BY MarksNext
<1>3. Typing /\ AttemptsInv /\ AttemptsInv' /\ SentInv /\ LinkInv /\ [Next]_vars => LinkInv'
  BY LinkNext
<1>4. Spec => []MarksInv
  BY <1>1, <1>2, TypingInit, TypingNext, PTL DEF Spec
<1>5. Spec => []LinkInv
  BY <1>1, <1>3, SentHolds, PTL DEF Spec
<1>6. Typing /\ AttemptsInv /\ SentInv /\ MarksInv /\ LinkInv => DeliveryInv
  BY DEF DeliveryInv
<1> QED  BY <1>4, <1>5, <1>6, SentHolds, PTL

\* For any losses, repetitions and restarts the link keeps the promise: what is
\* acknowledged was sent by another pager and is shown unless a stop comes in
\* between, and what a pager says of a message it sent is true.
THEOREM PromiseHolds == Spec => KeepsPromise
<1>1. Init => Promise!Init
  <2> SUFFICES ASSUME Init PROVE Promise!Init
    OBVIOUS
  <2>1. \A p \in Pager : SentBy(p) = Promise!NoVerdict /\ ReceivedBy(p) = {}
    <3>1. \A i \in Id : StatusOf(<< >>, i) = "none"
      BY EmptyContents, StatusOfNone
    <3>2. \A p \in Pager : messages[p] = << >> /\ pc[p] = "off"
      BY DEF Init
    <3>3. ASSUME NEW p \in Pager PROVE SentBy(p) = Promise!NoVerdict
      BY <3>1, <3>2 DEF SentBy, Promise!NoVerdict
    <3>4. ASSUME NEW p \in Pager PROVE ReceivedBy(p) = {}
      BY <3>2, EmptySeq DEF ReceivedBy
    <3> QED  BY <3>3, <3>4
  <2> QED  BY <2>1 DEF Init, Up, Arriving, Sent, Received, Promise!Init
<1>2. DeliveryInv /\ DeliveryInv' /\ [Next]_vars => [Promise!Next]_(Promise!link)
  <2>1. DeliveryInv' => SentInv'
    BY DEF DeliveryInv
  <2> QED  BY <2>1, PromiseNext
<1> QED  BY <1>1, <1>2, DeliveryHolds, PTL DEF Spec, KeepsPromise, Promise!Spec

\* Whatever is lost, repeated or restarted, the screens tell the truth: a message
\* has one author, is received only where it was acknowledged and never by its
\* author, and is delivered only when another pager acknowledged it.
THEOREM TruthHolds == Spec => []Promise!Truthful
<1>1. DeliveryInv => Promise!Truthful
  <2> SUFFICES ASSUME DeliveryInv, NEW p \in Pager, NEW i \in Id
               PROVE  /\ Received[p] \cup Arriving[p] \subseteq accepted[p]
                      /\ i \in accepted[p] => attempts[i] > 0 /\ Sent[p][i] = "none"
                      /\ Sent[p][i] # "none" =>
                           attempts[i] > 0 /\ \A q \in Pager \ {p} : Sent[q][i] = "none"
                      /\ Sent[p][i] = "ok" => Promise!AcceptedElsewhere(p, i)
    BY DEF Promise!Truthful
  <2>1. /\ Mine(p) \subseteq Tried /\ accepted[p] \subseteq Tried \ Mine(p)
        /\ ForeignIn(messages[p]) \subseteq accepted[p]
        /\ pc[p] = "store" => current[p] \in accepted[p]
        /\ \A q \in Pager \ {p} : Mine(p) \cap Mine(q) = {}
    BY DEF DeliveryInv, LinkInv, LinkOf
  <2>2. Received[p] \cup Arriving[p] \subseteq accepted[p]
    BY <2>1 DEF Received, ReceivedBy, Arriving, ForeignIn
  <2>3. ASSUME i \in accepted[p] PROVE attempts[i] > 0 /\ Sent[p][i] = "none"
    BY <2>1, <2>3, NotMine DEF Sent, Tried
  <2>4. ASSUME Sent[p][i] # "none"
        PROVE  attempts[i] > 0 /\ \A q \in Pager \ {p} : Sent[q][i] = "none"
    <3>1. i \in Mine(p)
      BY <2>4, NotMine DEF Sent
    <3>2. \A q \in Pager \ {p} : i \notin Mine(q)
      BY <2>1, <3>1
    <3> QED  BY <2>1, <3>1, <3>2, NotMine DEF Sent, Tried
  <2>5. ASSUME Sent[p][i] = "ok" PROVE Promise!AcceptedElsewhere(p, i)
    <3>1. StatusOf(messages[p], i) = "ok"
      BY <2>5 DEF Sent, SentBy
    <3>2. i \in OwnIn(messages[p])
      BY <3>1, StatusOfNone
    <3>3. PICK k \in 1..Len(messages[p]) : Owns(messages[p][k], i)
      BY <3>2 DEF OwnIn
    <3>4. messages[p][k].st = "ok"
      BY <3>1, <3>3, StatusOfEntry DEF DeliveryInv, SentInv, OwnIds
    <3>5. i \in Taken(p)
      BY <3>3, <3>4 DEF DeliveryInv, MarksInv, MarksOnly, Owns
    <3> QED  BY <3>5 DEF Taken, Promise!AcceptedElsewhere
  <2> QED  BY <2>2, <2>3, <2>4, <2>5
<1> QED  BY <1>1, DeliveryHolds, PTL
=============================================================================
