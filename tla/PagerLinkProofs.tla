-------------------------- MODULE PagerLinkProofs --------------------------
(***************************************************************************)
(* Theorems about PagerLink for every set of pagers and every value of the *)
(* constants.                                                              *)
(***************************************************************************)
EXTENDS PagerLink, SequenceTheorems, TLAPS

(***************************************************************************)
(* Histories                                                               *)
(***************************************************************************)
\* What messages[-n:] returns: the last n entries, in their order.
LEMMA LastNProperties ==
  ASSUME NEW S, NEW s \in Seq(S), NEW n \in Nat
  PROVE  /\ LastN(s, n) \in Seq(S)
         /\ Len(LastN(s, n)) = IF Len(s) <= n THEN Len(s) ELSE n
         /\ \A i \in 1..Len(LastN(s, n)) :
              LastN(s, n)[i] = s[i + (Len(s) - Len(LastN(s, n)))]
<1>1. CASE Len(s) <= n
  BY <1>1, LenProperties DEF LastN
<1>2. CASE ~(Len(s) <= n)
  <2>1. Len(s) \in Nat /\ Len(s) - n + 1 \in 1..(Len(s) + 1)
    BY <1>2, LenProperties
  <2>2. LastN(s, n) = SubSeq(s, Len(s) - n + 1, Len(s))
    BY <1>2 DEF LastN
  <2>3. \A i \in (Len(s) - n + 1)..Len(s) : s[i] \in S
    BY <2>1, ElementOfSeq
  <2>4. /\ SubSeq(s, Len(s) - n + 1, Len(s)) \in Seq(S)
        /\ Len(SubSeq(s, Len(s) - n + 1, Len(s))) = n
        /\ \A i \in 1..n : SubSeq(s, Len(s) - n + 1, Len(s))[i] = s[i + (Len(s) - n)]
    BY <2>1, <2>3, <1>2, SubSeqProperties
  <2> QED  BY <1>2, <2>2, <2>4
<1> QED  BY <1>1, <1>2

\* add_message keeps the new entry last and the kept ones in order.
LEMMA AddedProperties ==
  ASSUME NEW s \in Seq(Message), NEW m \in Message
  PROVE  /\ Added(s, m) \in Seq(Message)
         /\ Len(Added(s, m)) \in 1..(Len(s) + 1)
         /\ Added(s, m)[Len(Added(s, m))] = m
         /\ \A k \in 1..(Len(Added(s, m)) - 1) :
              /\ k + (Len(s) + 1 - Len(Added(s, m))) \in 1..Len(s)
              /\ Added(s, m)[k] = s[k + (Len(s) + 1 - Len(Added(s, m)))]
<1> DEFINE a == Append(s, m)
<1>1. /\ a \in Seq(Message) /\ Len(a) = Len(s) + 1 /\ Len(s) \in Nat
      /\ \A k \in 1..Len(s) : a[k] = s[k]
      /\ a[Len(s) + 1] = m
  BY AppendProperties, LenProperties
<1>2. MaxHistory \in Nat \ {0}
  BY BoundsAssumption
<1> HIDE DEF a
<1>3. /\ LastN(a, MaxHistory) \in Seq(Message)
      /\ Len(LastN(a, MaxHistory)) = IF Len(a) <= MaxHistory THEN Len(a) ELSE MaxHistory
      /\ \A k \in 1..Len(LastN(a, MaxHistory)) :
           LastN(a, MaxHistory)[k] = a[k + (Len(a) - Len(LastN(a, MaxHistory)))]
  BY <1>1, <1>2, LastNProperties
<1>4. Added(s, m) = LastN(a, MaxHistory)
  BY DEF Added, a
<1>5. Len(Added(s, m)) \in 1..(Len(s) + 1)
  BY <1>1, <1>2, <1>3, <1>4
<1>6. Added(s, m)[Len(Added(s, m))] = m
  <2> DEFINE n == Len(Added(s, m))
  <2>1. n \in 1..n /\ n + (Len(a) - n) = Len(a)
    BY <1>1, <1>5
  <2>2. Added(s, m)[n] = a[n + (Len(a) - n)]
    BY <1>3, <1>4, <2>1
  <2> QED  BY <1>1, <2>1, <2>2
<1>7. ASSUME NEW k \in 1..(Len(Added(s, m)) - 1)
      PROVE  /\ k + (Len(s) + 1 - Len(Added(s, m))) \in 1..Len(s)
             /\ Added(s, m)[k] = s[k + (Len(s) + 1 - Len(Added(s, m)))]
  <2> DEFINE n == Len(Added(s, m))
  <2>1. n \in 1..(Len(s) + 1)
    BY <1>5
  <2>2. Added(s, m)[k] = a[k + (Len(a) - n)]
    <3>1. k \in 1..n
      BY <2>1
    <3> QED  BY <1>3, <1>4, <3>1
  <2> HIDE DEF n
  <2>3. k \in 1..n /\ k + (Len(s) + 1 - n) \in 1..Len(s)
    BY <1>1, <2>1 DEF n
  <2> QED  BY <1>1, <2>2, <2>3 DEF n
<1> QED  BY <1>3, <1>4, <1>5, <1>6, <1>7

\* A new entry is a message.
LEMMA NewMessageType ==
  ASSUME NEW id \in Id \cup {NoId}, NEW out \in BOOLEAN
  PROVE  NewMessage(id, out) \in Message
BY BoundsAssumption DEF NewMessage, Message, Status

\* What is written and what is read back: the same messages in the same order,
\* with no retry counter, and after reading with no message still waiting.
LEMMA ToDiskProperties ==
  ASSUME NEW s \in Seq(Message)
  PROVE  /\ ToDisk(s) \in Seq(Message)
         /\ Len(ToDisk(s)) = Len(LastN(s, MaxHistory))
         /\ \A k \in 1..Len(ToDisk(s)) :
              LET old == s[k + (Len(s) - Len(ToDisk(s)))]
              IN  /\ k + (Len(s) - Len(ToDisk(s))) \in 1..Len(s)
                  /\ ToDisk(s)[k] = [old EXCEPT !.retries = 0]
<1> DEFINE l == LastN(s, MaxHistory)
<1>1. /\ l \in Seq(Message) /\ Len(l) \in Nat /\ Len(s) \in Nat /\ Len(l) <= Len(s)
      /\ \A k \in 1..Len(l) : l[k] = s[k + (Len(s) - Len(l))]
  BY LastNProperties, LenProperties, BoundsAssumption
<1> HIDE DEF l
<1>2. \A k \in 1..Len(l) : l[k] \in Message
  BY <1>1, ElementOfSeq
<1>3. ASSUME NEW m \in Message PROVE [m EXCEPT !.retries = 0] \in Message
  <2>1. 0 \in 0..MaxRetries
    BY BoundsAssumption
  <2> QED  BY <2>1 DEF Message
<1>4. ToDisk(s) = [k \in 1..Len(l) |-> [l[k] EXCEPT !.retries = 0]]
  BY DEF ToDisk, l
<1>5. ToDisk(s) \in Seq(Message) /\ Len(ToDisk(s)) = Len(l)
  BY <1>1, <1>2, <1>3, <1>4
<1>6. Len(ToDisk(s)) = Len(LastN(s, MaxHistory))
  BY <1>5 DEF l
<1>7. ASSUME NEW k \in 1..Len(ToDisk(s))
      PROVE  /\ k + (Len(s) - Len(ToDisk(s))) \in 1..Len(s)
             /\ ToDisk(s)[k] = [s[k + (Len(s) - Len(ToDisk(s)))] EXCEPT !.retries = 0]
  <2>1. k \in 1..Len(l) /\ k + (Len(s) - Len(l)) \in 1..Len(s)
    BY <1>1, <1>5
  <2>2. ToDisk(s)[k] = [l[k] EXCEPT !.retries = 0]
    BY <1>4, <2>1
  <2> QED  BY <1>1, <1>5, <2>1, <2>2
<1> QED  BY <1>5, <1>6, <1>7

\* What _load_history makes of a saved history.
LEMMA FromDiskProperties ==
  ASSUME NEW s \in Seq(Message)
  PROVE  /\ FromDisk(s) \in Seq(Message)
         /\ Sending(FromDisk(s)) = {}
         /\ \A k \in 1..Len(FromDisk(s)) :
              LET old == s[k + (Len(s) - Len(FromDisk(s)))]
              IN  /\ k + (Len(s) - Len(FromDisk(s))) \in 1..Len(s)
                  /\ FromDisk(s)[k].id = old.id
                  /\ FromDisk(s)[k].out = old.out
                  /\ FromDisk(s)[k].st = IF old.st = "sending" THEN "fail" ELSE old.st
<1> DEFINE l == LastN(s, MaxHistory)
           Verdict(m) == [m EXCEPT !.st = IF m.st = "sending" THEN "fail" ELSE m.st]
<1>1. /\ l \in Seq(Message) /\ Len(l) \in Nat /\ Len(s) \in Nat /\ Len(l) <= Len(s)
      /\ \A k \in 1..Len(l) : l[k] = s[k + (Len(s) - Len(l))]
  BY LastNProperties, LenProperties, BoundsAssumption
<1>2. FromDisk(s) = [k \in 1..Len(l) |-> Verdict(l[k])]
  BY DEF FromDisk
<1> HIDE DEF l
<1>3. \A m \in Message : /\ Verdict(m) \in Message /\ Verdict(m).st # "sending"
                         /\ Verdict(m).id = m.id /\ Verdict(m).out = m.out
                         /\ Verdict(m).st = IF m.st = "sending" THEN "fail" ELSE m.st
  BY DEF Message, Status
<1> HIDE DEF Verdict
<1>4. \A k \in 1..Len(l) : l[k] \in Message
  BY <1>1, ElementOfSeq
<1>5. \A k \in 1..Len(l) : Verdict(l[k]) \in Message
  BY <1>3, <1>4
<1>6. FromDisk(s) \in Seq(Message) /\ Len(FromDisk(s)) = Len(l)
  BY <1>1, <1>2, <1>5
<1>7. Sending(FromDisk(s)) = {}
  BY <1>2, <1>3, <1>4, <1>6 DEF Sending
<1> QED  BY <1>1, <1>2, <1>3, <1>4, <1>6, <1>7

\* Changing the status or the retry counter of one entry.
LEMMA EntryChange ==
  ASSUME NEW s \in Seq(Message), NEW k \in 1..Len(s)
  PROVE  /\ \A v \in Status : /\ [s EXCEPT ![k].st = v] \in Seq(Message)
                              /\ Len([s EXCEPT ![k].st = v]) = Len(s)
                              /\ \A j \in 1..Len(s) :
                                   [s EXCEPT ![k].st = v][j] =
                                     IF j = k THEN [s[k] EXCEPT !.st = v] ELSE s[j]
         /\ \A n \in 0..MaxRetries :
              /\ [s EXCEPT ![k].retries = n] \in Seq(Message)
              /\ Len([s EXCEPT ![k].retries = n]) = Len(s)
              /\ \A j \in 1..Len(s) :
                   [s EXCEPT ![k].retries = n][j] =
                     IF j = k THEN [s[k] EXCEPT !.retries = n] ELSE s[j]
<1>1. s[k] \in Message
  BY ElementOfSeq
<1>2. \A v \in Status : [s[k] EXCEPT !.st = v] \in Message
  BY <1>1 DEF Message
<1>3. \A n \in 0..MaxRetries : [s[k] EXCEPT !.retries = n] \in Message
  BY <1>1 DEF Message
<1>4. \A v \in Status : [s EXCEPT ![k].st = v] = [s EXCEPT ![k] = [s[k] EXCEPT !.st = v]]
  OBVIOUS
<1>5. \A n \in 0..MaxRetries :
        [s EXCEPT ![k].retries = n] = [s EXCEPT ![k] = [s[k] EXCEPT !.retries = n]]
  OBVIOUS
<1> QED  BY <1>2, <1>3, <1>4, <1>5, ExceptSeq

(***************************************************************************)
(* Types                                                                   *)
(***************************************************************************)
\* What a transmission leaves in the receive buffers.
LEMMA TransmitType ==
  ASSUME TypeOK, NEW p \in Pager, NEW k \in Packet, NEW left \in Packet \cup {NoPacket},
         Transmit(p, k, left)
  PROVE  buffer' \in [Pager -> Packet \cup {NoPacket}]
BY DEF TypeOK, Transmit

\* The positions check_timeouts has still to visit are positions of the
\* history: without this its steps do not keep the types.
DueAreWaiting ==
  \A p \in Pager : /\ due[p] \subseteq Sending(messages[p])
                   /\ pc[p] # "retry" => due[p] = {}

Typing == TypeOK /\ DueAreWaiting

\* Before the first start there is no history and nothing to visit.
LEMMA TypingInit == Init => Typing
<1> SUFFICES ASSUME Init PROVE Typing
  OBVIOUS
<1>1. TypeOK
  BY BoundsAssumption, EmptySeq DEF Init, TypeOK, Phase, Id, NoId
<1>2. DueAreWaiting
  BY DEF Init, DueAreWaiting
<1> QED  BY <1>1, <1>2 DEF Typing

\* Sending and channel editing keep the types.
LEMMA TypingKeys ==
  ASSUME Typing, NEW p \in Pager,
         NoSend(p) \/ EditChannel(p) \/ SendByRadio(p) \/ SendWithoutRadio(p) \/ AddOutgoing(p)
  PROVE  Typing'
<1>1. CASE NoSend(p) \/ SendWithoutRadio(p)
  BY <1>1 DEF NoSend, SendWithoutRadio, Typing, TypeOK, DueAreWaiting, Phase,
              historyVars, setupVars, ghostVars, Sending
<1>2. CASE EditChannel(p)
  BY <1>2 DEF EditChannel, Typing, TypeOK, DueAreWaiting, Phase, historyVars, ghostVars, Sending
<1>3. CASE SendByRadio(p)
  <2>1. nextId \in Id /\ nextId + 1 \in 1..(MaxId + 1)
    BY <1>3, BoundsAssumption DEF SendByRadio, Typing, TypeOK, Id
  <2>2. MessagePacket(p, nextId) \in Packet
    BY <2>1 DEF MessagePacket, Packet, Typing, TypeOK
  <2>3. buffer' \in [Pager -> Packet \cup {NoPacket}]
    BY <1>3, <2>2, TransmitType DEF SendByRadio, Typing, TypeOK
  <2> QED
    BY <1>3, <2>1, <2>3 DEF SendByRadio, Typing, TypeOK, DueAreWaiting, Phase,
                            historyVars, setupVars, Sending
<1>4. CASE AddOutgoing(p)
  <2>1. Added(messages[p], NewMessage(current[p], TRUE)) \in Seq(Message)
    BY AddedProperties, NewMessageType DEF Typing, TypeOK
  <2>2. TypeOK'
    BY <1>4, <2>1 DEF AddOutgoing, Typing, TypeOK, Phase, setupVars, ghostVars, NoId
  <2>3. DueAreWaiting'
    BY <1>4 DEF AddOutgoing, Typing, TypeOK, DueAreWaiting, Sending
  <2> QED  BY <2>2, <2>3 DEF Typing
<1> QED  BY <1>1, <1>2, <1>3, <1>4

\* Receiving, storing and marking as delivered keep the types.
LEMMA TypingRadio ==
  ASSUME Typing, NEW p \in Pager,
         ReceiveNothing(p) \/ ReceiveMessage(p) \/ StoreIncoming(p) \/ ReceiveAck(p)
  PROVE  Typing'
<1>1. CASE ReceiveNothing(p)
  BY <1>1 DEF ReceiveNothing, AfterReading, Typing, TypeOK, DueAreWaiting, Phase,
              historyVars, setupVars, ghostVars, Sending
<1>2. CASE ReceiveMessage(p)
  <2>1. buffer[p] \in Packet
    BY <1>2 DEF ReceiveMessage, Receives, Typing, TypeOK
  <2>2. AckPacket(p, buffer[p].id) \in Packet /\ buffer[p].id \in Id
    BY <2>1 DEF AckPacket, Packet, Typing, TypeOK
  <2>3. buffer' \in [Pager -> Packet \cup {NoPacket}]
    BY <1>2, <2>1, <2>2, TransmitType DEF ReceiveMessage, AfterReading, Typing
  <2> QED
    BY <1>2, <2>2, <2>3 DEF ReceiveMessage, Receives, Typing, TypeOK, DueAreWaiting, Phase,
                            historyVars, setupVars, Sending
<1>3. CASE StoreIncoming(p)
  <2>1. Added(messages[p], NewMessage(current[p], FALSE)) \in Seq(Message)
    BY AddedProperties, NewMessageType DEF Typing, TypeOK
  <2>2. TypeOK'
    BY <1>3, <2>1 DEF StoreIncoming, Typing, TypeOK, Phase, setupVars, ghostVars, NoId
  <2>3. DueAreWaiting'
    BY <1>3 DEF StoreIncoming, Typing, TypeOK, DueAreWaiting, Sending
  <2> QED  BY <2>2, <2>3 DEF Typing
<1>4. CASE ReceiveAck(p)
  <2>1. messages' \in [Pager -> Seq(Message)] /\ \A q \in Pager \ {p} : messages'[q] = messages[q]
    <3>1. CASE UNCHANGED messages
      BY <3>1 DEF Typing, TypeOK
    <3>2. ASSUME NEW i \in Delivered(messages[p], buffer[p].id),
                 messages' = [messages EXCEPT ![p][i].st = "ok"]
          PROVE  messages' \in [Pager -> Seq(Message)]
                 /\ \A q \in Pager \ {p} : messages'[q] = messages[q]
      <4>1. i \in 1..Len(messages[p]) /\ messages[p] \in Seq(Message)
        BY DEF Delivered, Sending, Typing, TypeOK
      <4>2. [messages[p] EXCEPT ![i].st = "ok"] \in Seq(Message)
        BY <4>1, EntryChange DEF Status
      <4>3. messages' = [messages EXCEPT ![p] = [messages[p] EXCEPT ![i].st = "ok"]]
        BY <3>2
      <4> QED  BY <4>2, <4>3 DEF Typing, TypeOK
    <3> QED  BY <1>4, <3>1, <3>2 DEF ReceiveAck
  <2>2. TypeOK'
    BY <1>4, <2>1 DEF ReceiveAck, AfterReading, Typing, TypeOK, Phase, setupVars, ghostVars
  <2>3. DueAreWaiting'
    BY <1>4, <2>1 DEF ReceiveAck, Receives, Typing, TypeOK, DueAreWaiting, Sending
  <2> QED  BY <2>2, <2>3 DEF Typing
<1> QED  BY <1>1, <1>2, <1>3, <1>4

\* A visit leaves the status of every entry it does not visit alone.
LEMMA VisitTyping ==
  ASSUME Typing, NEW p \in Pager, NEW i \in due[p], Resend(p, i) \/ GiveUp(p, i)
  PROVE  /\ i \in Sending(messages[p])
         /\ messages[p][i] \in Message
         /\ messages' \in [Pager -> Seq(Message)]
         /\ \A q \in Pager \ {p} : messages'[q] = messages[q]
         /\ Len(messages'[p]) = Len(messages[p])
         /\ \A j \in 1..Len(messages[p]) : j # i => messages'[p][j] = messages[p][j]
         /\ Resend(p, i) => /\ messages'[p][i] = [messages[p][i] EXCEPT !.retries = @ + 1]
                            /\ messages[p][i].retries + 1 <= MaxRetries
                            /\ messages[p][i].id \in Id
         /\ GiveUp(p, i) => messages'[p][i] = [messages[p][i] EXCEPT !.st = "fail"]
<1>1. i \in 1..Len(messages[p]) /\ i \in Sending(messages[p]) /\ messages[p] \in Seq(Message)
  BY DEF Typing, TypeOK, DueAreWaiting, Sending
<1>2. messages[p][i] \in Message
  BY <1>1, ElementOfSeq
<1>3. CASE Resend(p, i)
  <2> DEFINE n == messages[p][i].retries + 1
  <2>1. n \in 0..MaxRetries /\ messages[p][i].id \in Id
    BY <1>2, <1>3, BoundsAssumption DEF Resend, CanRetry, Message
  <2>2. messages' = [messages EXCEPT ![p] = [messages[p] EXCEPT ![i].retries = n]]
    BY <1>3 DEF Resend
  <2>3. /\ [messages[p] EXCEPT ![i].retries = n] \in Seq(Message)
        /\ Len([messages[p] EXCEPT ![i].retries = n]) = Len(messages[p])
        /\ \A j \in 1..Len(messages[p]) :
             [messages[p] EXCEPT ![i].retries = n][j] =
               IF j = i THEN [messages[p][i] EXCEPT !.retries = n] ELSE messages[p][j]
    BY <1>1, <2>1, EntryChange
  <2>4. messages'[p] = [messages[p] EXCEPT ![i].retries = n]
    BY <2>2 DEF Typing, TypeOK
  <2>5. ~GiveUp(p, i)
    BY <1>3 DEF Resend, GiveUp
  <2>6. messages'[p][i] = [messages[p][i] EXCEPT !.retries = @ + 1] /\ n <= MaxRetries
    BY <1>1, <2>1, <2>3, <2>4
  <2> QED  BY <1>1, <1>2, <2>1, <2>2, <2>3, <2>4, <2>5, <2>6 DEF Typing, TypeOK
<1>4. CASE GiveUp(p, i)
  <2>1. messages' = [messages EXCEPT ![p] = [messages[p] EXCEPT ![i].st = "fail"]]
    BY <1>4 DEF GiveUp
  <2>2. /\ [messages[p] EXCEPT ![i].st = "fail"] \in Seq(Message)
        /\ Len([messages[p] EXCEPT ![i].st = "fail"]) = Len(messages[p])
        /\ \A j \in 1..Len(messages[p]) :
             [messages[p] EXCEPT ![i].st = "fail"][j] =
               IF j = i THEN [messages[p][i] EXCEPT !.st = "fail"] ELSE messages[p][j]
    BY <1>1, EntryChange DEF Status
  <2>3. messages'[p] = [messages[p] EXCEPT ![i].st = "fail"]
    BY <2>1 DEF Typing, TypeOK
  <2>4. ~Resend(p, i)
    BY <1>4 DEF Resend, GiveUp
  <2> QED  BY <1>1, <1>2, <2>1, <2>2, <2>3, <2>4 DEF Typing, TypeOK
<1> QED  BY <1>3, <1>4

\* The timeout check keeps the types.
LEMMA TypingChecks ==
  ASSUME Typing, NEW p \in Pager, NothingDue(p) \/ CheckTimeouts(p) \/ VisitNext(p)
  PROVE  Typing'
<1>1. CASE NothingDue(p)
  BY <1>1 DEF NothingDue, Typing, TypeOK, DueAreWaiting, Phase,
              historyVars, setupVars, ghostVars, Sending
<1>2. CASE CheckTimeouts(p)
  <2>1. PICK overdue \in SUBSET Sending(messages[p]) : BeginCheck(p, overdue)
    BY <1>2 DEF CheckTimeouts
  <2>2. overdue \subseteq Nat
    BY LenProperties DEF Sending, Typing, TypeOK
  <2> QED
    BY <2>1, <2>2 DEF BeginCheck, Typing, TypeOK, DueAreWaiting, Phase,
                      historyVars, setupVars, ghostVars, Sending
<1>3. ASSUME NEW i \in due[p], Resend(p, i) \/ GiveUp(p, i) PROVE Typing'
  <2>1. /\ i \in Sending(messages[p]) /\ messages[p][i] \in Message
        /\ messages' \in [Pager -> Seq(Message)]
        /\ \A q \in Pager \ {p} : messages'[q] = messages[q]
        /\ Len(messages'[p]) = Len(messages[p])
        /\ \A j \in 1..Len(messages[p]) : j # i => messages'[p][j] = messages[p][j]
        /\ Resend(p, i) => messages[p][i].id \in Id
    BY <1>3, VisitTyping
  <2>2. Visited(p, i)
    BY <1>3 DEF Resend, GiveUp
  <2>3. buffer' \in [Pager -> Packet \cup {NoPacket}] /\ attempts' \in [Id -> Nat]
    <3>1. CASE Resend(p, i)
      <4>1. MessagePacket(p, messages[p][i].id) \in Packet
        BY <2>1, <3>1 DEF MessagePacket, Packet, Typing, TypeOK
      <4>2. buffer[p] \in Packet \cup {NoPacket}
        BY DEF Typing, TypeOK
      <4>3. Transmit(p, MessagePacket(p, messages[p][i].id), buffer[p])
            /\ attempts' = [attempts EXCEPT ![messages[p][i].id] = @ + 1]
        BY <3>1 DEF Resend
      <4>4. buffer' \in [Pager -> Packet \cup {NoPacket}]
        BY <4>1, <4>2, <4>3, TransmitType DEF Typing
      <4>5. attempts' \in [Id -> Nat]
        BY <2>1, <3>1, <4>3 DEF Typing, TypeOK
      <4> QED  BY <4>4, <4>5
    <3>2. CASE GiveUp(p, i)
      BY <3>2 DEF GiveUp, ghostVars, Typing, TypeOK
    <3> QED  BY <1>3, <3>1, <3>2
  <2>4. /\ pc' \in [Pager -> Phase] /\ dirty' \in [Pager -> BOOLEAN]
        /\ due' \in [Pager -> SUBSET Nat]
    BY <2>2 DEF Visited, Typing, TypeOK, Phase
  <2>5. UNCHANGED <<lora, channel, disk, current, nextId, stops, accepted>>
    BY <1>3 DEF Resend, GiveUp, setupVars, ghostVars
  <2>6. TypeOK'
    BY <2>1, <2>3, <2>4, <2>5 DEF Typing, TypeOK
  <2>7. DueAreWaiting'
    <3> SUFFICES ASSUME NEW q \in Pager
                 PROVE  due'[q] \subseteq Sending(messages'[q])
                        /\ (pc'[q] # "retry" => due'[q] = {})
      BY DEF DueAreWaiting
    <3>1. CASE q # p
      BY <2>1, <2>2, <3>1 DEF Visited, Typing, TypeOK, DueAreWaiting
    <3>2. CASE q = p
      <4>1. due'[p] = due[p] \ {i} /\ due[p] \subseteq Sending(messages[p])
        BY <2>2 DEF Visited, Typing, TypeOK, DueAreWaiting
      <4>2. due'[p] \subseteq Sending(messages'[p])
        BY <2>1, <4>1 DEF Sending
      <4>3. pc'[p] # "retry" => due'[p] = {}
        BY <1>3, <2>2, <4>1 DEF Visited, Visits, Resend, GiveUp, Typing, TypeOK
      <4> QED  BY <3>2, <4>2, <4>3
    <3> QED  BY <3>1, <3>2
  <2> QED  BY <2>6, <2>7 DEF Typing
<1> QED  BY <1>1, <1>2, <1>3 DEF VisitNext

\* Saving, stopping and starting keep the types.
LEMMA TypingFlushAndStops ==
  ASSUME Typing, NEW p \in Pager,
         FlushNothing(p) \/ FlushHistory(p) \/ Garble(p) \/ PowerCut(p) \/ Shutdown(p) \/ Boot(p)
  PROVE  Typing'
<1>1. CASE FlushNothing(p)
  BY <1>1 DEF FlushNothing, Typing, TypeOK, DueAreWaiting, Phase,
              historyVars, setupVars, ghostVars, Sending
<1>2. CASE FlushHistory(p)
  <2>1. ToDisk(messages[p]) \in Seq(Message)
    BY ToDiskProperties DEF Typing, TypeOK
  <2> QED
    BY <1>2, <2>1 DEF FlushHistory, Typing, TypeOK, DueAreWaiting, Phase, setupVars, ghostVars
<1>3. CASE Garble(p)
  BY <1>3 DEF Garble, Typing, TypeOK, DueAreWaiting,
              loopVars, historyVars, setupVars, ghostVars, Sending
<1>4. CASE Halt(p) /\ (UNCHANGED disk \/ disk' = [disk EXCEPT ![p] = ToDisk(messages[p])])
  <2>1. ToDisk(messages[p]) \in Seq(Message) /\ << >> \in Seq(Message)
    BY ToDiskProperties, EmptySeq DEF Typing, TypeOK
  <2>2. stops' \in 0..MaxStops
    BY <1>4, BoundsAssumption DEF Halt, Typing, TypeOK
  <2>3. TypeOK'
    BY <1>4, <2>1, <2>2 DEF Halt, Typing, TypeOK, Phase, ghostVars, NoId
  <2>4. DueAreWaiting'
    BY <1>4 DEF Halt, Typing, TypeOK, DueAreWaiting, Sending
  <2> QED  BY <2>3, <2>4 DEF Typing
<1>5. CASE Boot(p)
  <2>1. FromDisk(disk[p]) \in Seq(Message)
    BY FromDiskProperties DEF Typing, TypeOK
  <2>2. TypeOK'
    BY <1>5, <2>1, BoundsAssumption DEF Boot, Typing, TypeOK, Phase, ghostVars
  <2>3. DueAreWaiting'
    BY <1>5 DEF Boot, Typing, TypeOK, DueAreWaiting, Sending
  <2> QED  BY <2>2, <2>3 DEF Typing
<1> QED  BY <1>1, <1>2, <1>3, <1>4, <1>5 DEF PowerCut, Shutdown

\* Typing is inductive.
LEMMA TypingNext == Typing /\ [Next]_vars => Typing'
<1> SUFFICES ASSUME Typing, [Next]_vars PROVE Typing'
  OBVIOUS
<1>1. ASSUME NEW p \in Pager,
             Step(p) \/ Garble(p) \/ PowerCut(p) \/ Shutdown(p) \/ Boot(p)
      PROVE  Typing'
  BY <1>1, TypingKeys, TypingRadio, TypingChecks, TypingFlushAndStops DEF Step
<1>2. CASE UNCHANGED vars
  BY <1>2 DEF vars, Typing, TypeOK, DueAreWaiting, Sending
<1> QED  BY <1>1, <1>2 DEF Next

\* In every reachable state every variable has its type.
THEOREM TypesHold == Spec => []TypeOK
<1>1. Typing => TypeOK
  BY DEF Typing
<1> QED  BY <1>1, TypingInit, TypingNext, PTL DEF Spec

(***************************************************************************)
(* Duplicates                                                              *)
(***************************************************************************)
\* t shows a stretch of s, up to the status and the retry counters.
PartOf(t, s) ==
  \E d \in Nat : \A k \in 1..Len(t) : /\ k + d \in 1..Len(s)
                                      /\ t[k].id = s[k + d].id
                                      /\ t[k].out = s[k + d].out

\* Far apart stays far apart in a stretch of the history.
LEMMA FarApartPart ==
  ASSUME NEW s \in Seq(Message), NEW t \in Seq(Message), FarApart(s), PartOf(t, s)
  PROVE  FarApart(t)
<1> PICK d \in Nat : \A k \in 1..Len(t) : /\ k + d \in 1..Len(s)
                                          /\ t[k].id = s[k + d].id
                                          /\ t[k].out = s[k + d].out
  BY DEF PartOf
<1> SUFFICES ASSUME NEW i \in 1..Len(t), NEW j \in 1..Len(t),
                    i < j, ~t[i].out, ~t[j].out, t[i].id = t[j].id
             PROVE  j - i > DedupWindow
  BY DEF FarApart
<1>1. i + d \in 1..Len(s) /\ j + d \in 1..Len(s) /\ i + d < j + d
  BY LenProperties
<1>2. (j + d) - (i + d) > DedupWindow
  BY <1>1 DEF FarApart
<1> QED  BY <1>2, BoundsAssumption, LenProperties

\* What is saved is a stretch of the history.
LEMMA ToDiskPart ==
  ASSUME NEW s \in Seq(Message)
  PROVE  ToDisk(s) \in Seq(Message) /\ PartOf(ToDisk(s), s)
<1> DEFINE t == ToDisk(s)
           d == Len(s) - Len(t)
<1>1. t \in Seq(Message) /\ d \in Nat
  BY ToDiskProperties, LastNProperties, LenProperties, BoundsAssumption
<1>2. \A k \in 1..Len(t) : k + d \in 1..Len(s) /\ t[k] = [s[k + d] EXCEPT !.retries = 0]
  BY ToDiskProperties
<1>3. \A m \in Message : /\ [m EXCEPT !.retries = 0].id = m.id
                         /\ [m EXCEPT !.retries = 0].out = m.out
  BY DEF Message
<1> HIDE DEF t, d
<1>4. \A k \in 1..Len(t) : /\ k + d \in 1..Len(s)
                           /\ t[k].id = s[k + d].id /\ t[k].out = s[k + d].out
  BY <1>2, <1>3, ElementOfSeq
<1> QED  BY <1>1, <1>4 DEF PartOf, t

\* What is loaded is a stretch of what was saved.
LEMMA FromDiskPart ==
  ASSUME NEW s \in Seq(Message)
  PROVE  FromDisk(s) \in Seq(Message) /\ PartOf(FromDisk(s), s)
<1> DEFINE t == FromDisk(s)
           d == Len(s) - Len(t)
<1>1. t \in Seq(Message) /\ d \in Nat
  BY FromDiskProperties, LenProperties
<1>2. \A k \in 1..Len(t) : /\ k + d \in 1..Len(s)
                           /\ t[k].id = s[k + d].id /\ t[k].out = s[k + d].out
  BY FromDiskProperties
<1> QED  BY <1>1, <1>2 DEF PartOf

\* What add_message keeps is far apart if the new entry was not seen lately.
LEMMA FarApartAdded ==
  ASSUME NEW s \in Seq(Message), NEW m \in Message, FarApart(s),
         m.out \/ ~SeenLately(s, m.id)
  PROVE  FarApart(Added(s, m))
<1> DEFINE t == Added(s, m)
           d == Len(s) + 1 - Len(t)
<1>1. /\ t \in Seq(Message) /\ Len(t) \in 1..(Len(s) + 1) /\ t[Len(t)] = m
      /\ \A k \in 1..(Len(t) - 1) : k + d \in 1..Len(s) /\ t[k] = s[k + d]
      /\ Len(s) \in Nat
  BY AddedProperties, LenProperties
<1> SUFFICES ASSUME NEW i \in 1..Len(t), NEW j \in 1..Len(t),
                    i < j, ~t[i].out, ~t[j].out, t[i].id = t[j].id
             PROVE  j - i > DedupWindow
  BY DEF FarApart
<1> HIDE DEF t
<1>2. i \in 1..(Len(t) - 1)
  BY <1>1
<1>3. CASE j = Len(t)
  <2>1. ~SeenLately(s, m.id) /\ ~s[i + d].out /\ s[i + d].id = m.id
    BY <1>1, <1>2, <1>3
  <2>2. ~(i + d > Len(s) - DedupWindow)
    BY <1>1, <1>2, <2>1 DEF SeenLately
  <2> QED  BY <1>1, <1>3, <2>2, BoundsAssumption
<1>4. CASE j # Len(t)
  <2>1. j \in 1..(Len(t) - 1)
    BY <1>1, <1>4
  <2>2. i + d \in 1..Len(s) /\ j + d \in 1..Len(s) /\ i + d < j + d
    BY <1>1, <1>2, <2>1
  <2>3. (j + d) - (i + d) > DedupWindow
    BY <1>1, <1>2, <2>1, <2>2 DEF FarApart
  <2> QED  BY <1>1, <2>3, BoundsAssumption
<1> QED  BY <1>3, <1>4

\* An ack changes at most the status of one waiting entry.
LEMMA AckChange ==
  ASSUME Typing, NEW p \in Pager, ReceiveAck(p)
  PROVE  \/ UNCHANGED messages
         \/ \E i \in Sending(messages[p]) :
              /\ messages[p][i] \in Message
              /\ messages[p][i].id = buffer[p].id
              /\ messages' \in [Pager -> Seq(Message)]
              /\ \A q \in Pager \ {p} : messages'[q] = messages[q]
              /\ Len(messages'[p]) = Len(messages[p])
              /\ \A j \in 1..Len(messages[p]) : j # i => messages'[p][j] = messages[p][j]
              /\ messages'[p][i] = [messages[p][i] EXCEPT !.st = "ok"]
<1>1. ASSUME NEW i \in Delivered(messages[p], buffer[p].id),
             messages' = [messages EXCEPT ![p][i].st = "ok"]
      PROVE  /\ messages[p][i] \in Message
             /\ messages' \in [Pager -> Seq(Message)]
             /\ \A q \in Pager \ {p} : messages'[q] = messages[q]
             /\ Len(messages'[p]) = Len(messages[p])
             /\ \A j \in 1..Len(messages[p]) : j # i => messages'[p][j] = messages[p][j]
             /\ messages'[p][i] = [messages[p][i] EXCEPT !.st = "ok"]
  <2>1. i \in 1..Len(messages[p]) /\ messages[p] \in Seq(Message)
    BY DEF Delivered, Sending, Typing, TypeOK
  <2> DEFINE s == [messages[p] EXCEPT ![i].st = "ok"]
  <2>2. /\ s \in Seq(Message) /\ Len(s) = Len(messages[p])
        /\ \A j \in 1..Len(messages[p]) :
             s[j] = IF j = i THEN [messages[p][i] EXCEPT !.st = "ok"] ELSE messages[p][j]
    BY <2>1, EntryChange DEF Status
  <2>3. messages' = [messages EXCEPT ![p] = s]
    BY <1>1
  <2> HIDE DEF s
  <2> QED  BY <2>1, <2>2, <2>3, ElementOfSeq DEF Typing, TypeOK
<1> QED  BY <1>1 DEF ReceiveAck, Delivered

\* Changing one entry's status or counter keeps the histories far apart.
LEMMA OneEntryChanged ==
  ASSUME Typing, DuplicatesFarApart, UNCHANGED disk,
         NEW p \in Pager, NEW i \in 1..Len(messages[p]),
         messages' \in [Pager -> Seq(Message)],
         \A q \in Pager \ {p} : messages'[q] = messages[q],
         Len(messages'[p]) = Len(messages[p]),
         \A j \in 1..Len(messages[p]) : j # i => messages'[p][j] = messages[p][j],
         messages'[p][i].id = messages[p][i].id,
         messages'[p][i].out = messages[p][i].out
  PROVE  DuplicatesFarApart'
<1>1. \A k \in 1..Len(messages'[p]) :
        /\ k + 0 \in 1..Len(messages[p])
        /\ messages'[p][k].id = messages[p][k + 0].id
        /\ messages'[p][k].out = messages[p][k + 0].out
  OBVIOUS
<1>2. PartOf(messages'[p], messages[p])
  BY <1>1 DEF PartOf
<1>3. FarApart(messages'[p])
  BY <1>2, FarApartPart DEF DuplicatesFarApart, Typing, TypeOK
<1> QED  BY <1>3 DEF DuplicatesFarApart

\* An empty history has no duplicate.
LEMMA EmptyFarApart == FarApart(<< >>)
BY EmptySeq DEF FarApart

\* Only add_message, a visit of check_timeouts, an ack, a stop and a start touch
\* a history; only the first can bring a duplicate in.
LEMMA DuplicatesNext ==
  ASSUME Typing, DuplicatesFarApart, [Next]_vars
  PROVE  DuplicatesFarApart'
<1> USE DEF Typing, TypeOK
<1>1. ASSUME NEW p \in Pager,
             messages' = [messages EXCEPT ![p] = messages'[p]], FarApart(messages'[p]),
             UNCHANGED disk
      PROVE  DuplicatesFarApart'
  BY <1>1 DEF DuplicatesFarApart
<1>2. ASSUME NEW p \in Pager, AddOutgoing(p) PROVE DuplicatesFarApart'
  <2> DEFINE m == NewMessage(current[p], TRUE)
  <2>1. m \in Message /\ m.out
    BY NewMessageType DEF NewMessage
  <2>2. FarApart(Added(messages[p], m))
    BY <2>1, FarApartAdded DEF DuplicatesFarApart
  <2> QED  BY <1>1, <1>2, <2>2 DEF AddOutgoing
<1>3. ASSUME NEW p \in Pager, StoreIncoming(p) PROVE DuplicatesFarApart'
  <2>1. CASE SeenLately(messages[p], current[p])
    BY <1>3, <2>1 DEF StoreIncoming, DuplicatesFarApart
  <2>2. CASE ~SeenLately(messages[p], current[p])
    <3> DEFINE m == NewMessage(current[p], FALSE)
    <3>1. m \in Message /\ m.id = current[p]
      BY NewMessageType DEF NewMessage
    <3>2. FarApart(Added(messages[p], m))
      BY <2>2, <3>1, FarApartAdded DEF DuplicatesFarApart
    <3> QED  BY <1>1, <1>3, <2>2, <3>2 DEF StoreIncoming
  <2> QED  BY <2>1, <2>2
<1>4. ASSUME NEW p \in Pager, ReceiveAck(p) PROVE DuplicatesFarApart'
  <2>1. UNCHANGED disk
    BY <1>4 DEF ReceiveAck
  <2>2. CASE UNCHANGED messages
    BY <2>1, <2>2 DEF DuplicatesFarApart
  <2>3. CASE ~UNCHANGED messages
    <3>1. PICK i \in Sending(messages[p]) :
            /\ messages[p][i] \in Message
            /\ messages' \in [Pager -> Seq(Message)]
            /\ \A q \in Pager \ {p} : messages'[q] = messages[q]
            /\ Len(messages'[p]) = Len(messages[p])
            /\ \A j \in 1..Len(messages[p]) : j # i => messages'[p][j] = messages[p][j]
            /\ messages'[p][i] = [messages[p][i] EXCEPT !.st = "ok"]
      BY <1>4, <2>3, AckChange
    <3>2. i \in 1..Len(messages[p])
      BY DEF Sending
    <3>3. messages'[p][i].id = messages[p][i].id /\ messages'[p][i].out = messages[p][i].out
      BY <3>1 DEF Message
    <3> QED  BY <2>1, <3>1, <3>2, <3>3, OneEntryChanged
  <2> QED  BY <2>2, <2>3
<1>5. ASSUME NEW p \in Pager, NEW i \in due[p], Resend(p, i) \/ GiveUp(p, i)
      PROVE  DuplicatesFarApart'
  <2>1. /\ i \in 1..Len(messages[p]) /\ messages[p][i] \in Message
        /\ messages' \in [Pager -> Seq(Message)]
        /\ \A q \in Pager \ {p} : messages'[q] = messages[q]
        /\ Len(messages'[p]) = Len(messages[p])
        /\ \A j \in 1..Len(messages[p]) : j # i => messages'[p][j] = messages[p][j]
        /\ Resend(p, i) => messages'[p][i] = [messages[p][i] EXCEPT !.retries = @ + 1]
        /\ GiveUp(p, i) => messages'[p][i] = [messages[p][i] EXCEPT !.st = "fail"]
    BY <1>5, VisitTyping DEF Sending
  <2>2. messages'[p][i].id = messages[p][i].id /\ messages'[p][i].out = messages[p][i].out
    BY <1>5, <2>1 DEF Message
  <2>3. UNCHANGED disk
    BY <1>5 DEF Resend, GiveUp
  <2> QED  BY <2>1, <2>2, <2>3, OneEntryChanged
<1>6. FarApart(<< >>)
  BY EmptyFarApart
<1>7. \A p \in Pager : FarApart(ToDisk(messages[p])) /\ FarApart(FromDisk(disk[p]))
  BY ToDiskPart, FromDiskPart, FarApartPart DEF DuplicatesFarApart
<1>8. ASSUME NEW p \in Pager, FlushHistory(p) \/ PowerCut(p) \/ Shutdown(p)
      PROVE  DuplicatesFarApart'
  BY <1>6, <1>7, <1>8 DEF FlushHistory, PowerCut, Shutdown, Halt, DuplicatesFarApart
<1>9. ASSUME NEW p \in Pager, Boot(p) PROVE DuplicatesFarApart'
  BY <1>1, <1>7, <1>9 DEF Boot
<1>10. CASE UNCHANGED <<messages, disk>>
  BY <1>10 DEF DuplicatesFarApart
<1>11. ASSUME NEW p \in Pager,
              NoSend(p) \/ EditChannel(p) \/ SendByRadio(p) \/ SendWithoutRadio(p)
              \/ ReceiveNothing(p) \/ ReceiveMessage(p) \/ NothingDue(p) \/ CheckTimeouts(p)
              \/ FlushNothing(p) \/ Garble(p)
       PROVE  UNCHANGED <<messages, disk>>
  BY <1>11 DEF NoSend, EditChannel, SendByRadio, SendWithoutRadio, ReceiveNothing,
               ReceiveMessage, NothingDue, CheckTimeouts, BeginCheck, FlushNothing, Garble,
               historyVars
<1> QED
  BY <1>2, <1>3, <1>4, <1>5, <1>8, <1>9, <1>10, <1>11 DEF Next, Step, VisitNext, vars

\* In memory and on disk, copies of one received message are always more than
\* DedupWindow entries apart.
THEOREM DuplicatesHold == Spec => []DuplicatesFarApart
<1>1. Init => DuplicatesFarApart
  BY EmptyFarApart DEF Init, DuplicatesFarApart
<1>2. Typing /\ DuplicatesFarApart /\ [Next]_vars => DuplicatesFarApart'
  BY DuplicatesNext
<1> QED  BY <1>1, <1>2, TypingInit, TypingNext, PTL DEF Spec

(***************************************************************************)
(* Transmissions                                                           *)
(***************************************************************************)
\* A waiting message has been on the air once more than its retry counter
\* says.  For a retransmission to keep this, no second entry may wait for the
\* same id, which in turn needs fresh ids to be new to every history.
AttemptsInv == AttemptsBounded /\ ShownRetriesAreReal /\ OneSender /\ IdsGivenOut

\* The invariant looks only at the waiting entries.  It is kept when each of
\* them was there before, possibly elsewhere, with the same id and counter.
LEMMA FewerWaiting ==
  ASSUME Typing, AttemptsInv, UNCHANGED attempts,
         nextId' \in Nat, nextId' >= nextId,
         current' \in [Pager -> Id \cup {NoId}],
         \A p \in Pager : Outgoing(p)' => Outgoing(p) /\ current'[p] = current[p],
         \A p \in Pager : pc'[p] \notin {"add", "store"} => current'[p] = NoId,
         NEW f \in [Pager -> [Nat -> Nat]],
         \A p \in Pager : \A k \in Sending(messages'[p]) :
           /\ k \in Nat
           /\ f[p][k] \in Sending(messages[p])
           /\ messages'[p][k].id = messages[p][f[p][k]].id
           /\ messages'[p][k].retries = messages[p][f[p][k]].retries,
         \A p \in Pager : \A k, l \in Nat : f[p][k] = f[p][l] => k = l
  PROVE  AttemptsInv'
<1>1. AttemptsBounded'
  BY DEF AttemptsInv, AttemptsBounded
<1>2. ShownRetriesAreReal'
  <2> SUFFICES ASSUME NEW p \in Pager, NEW k \in Sending(messages'[p])
               PROVE  /\ messages'[p][k].id \in Id
                      /\ attempts'[messages'[p][k].id] = messages'[p][k].retries + 1
    BY DEF ShownRetriesAreReal
  <2>1. f[p][k] \in Sending(messages[p])
    OBVIOUS
  <2>2. /\ messages[p][f[p][k]].id \in Id
        /\ attempts[messages[p][f[p][k]].id] = messages[p][f[p][k]].retries + 1
    BY <2>1 DEF AttemptsInv, ShownRetriesAreReal
  <2> QED  BY <2>1, <2>2
<1>3. IdsGivenOut'
  <2>1. nextId \in Nat /\ \A x \in Id : x \in Nat
    BY BoundsAssumption DEF Id, Typing, TypeOK
  <2>2. \A x \in Nat : x < nextId => x < nextId'
    BY <2>1
  <2>3. ASSUME NEW p \in Pager, NEW k \in Sending(messages'[p])
        PROVE  messages'[p][k].id < nextId'
    <3>1. f[p][k] \in Sending(messages[p])
      OBVIOUS
    <3>2. messages[p][f[p][k]].id \in Id /\ messages[p][f[p][k]].id < nextId
      BY <3>1 DEF AttemptsInv, IdsGivenOut, ShownRetriesAreReal
    <3> QED  BY <2>1, <2>2, <3>2
  <2>4. ASSUME NEW p \in Pager, Outgoing(p)' PROVE current'[p] < nextId'
    <3>1. Outgoing(p) /\ current'[p] = current[p] /\ current[p] \in Id
      BY <2>4 DEF Outgoing, Typing, TypeOK
    <3> QED  BY <2>1, <2>2, <3>1 DEF AttemptsInv, IdsGivenOut
  <2> QED  BY <2>3, <2>4 DEF IdsGivenOut
<1>4. OneSender'
  <2>1. ASSUME NEW p \in Pager, NEW q \in Pager,
               NEW k \in Sending(messages'[p]), NEW l \in Sending(messages'[q]),
               messages'[p][k].id = messages'[q][l].id
        PROVE  p = q /\ k = l
    <3>1. /\ f[p][k] \in Sending(messages[p]) /\ f[q][l] \in Sending(messages[q])
          /\ messages[p][f[p][k]].id = messages[q][f[q][l]].id
          /\ k \in Nat /\ l \in Nat
      BY <2>1
    <3>2. p = q /\ f[p][k] = f[q][l]
      BY <3>1 DEF AttemptsInv, OneSender
    <3> QED  BY <3>1, <3>2
  <2>2. ASSUME NEW p \in Pager, NEW q \in Pager, Outgoing(p)', Outgoing(q)',
               current'[p] = current'[q]
        PROVE  p = q
    <3>1. Outgoing(p) /\ Outgoing(q) /\ current[p] = current[q]
      BY <2>2
    <3> QED  BY <3>1 DEF AttemptsInv, OneSender
  <2>3. ASSUME NEW p \in Pager, NEW q \in Pager, NEW k \in Sending(messages'[q]), Outgoing(p)'
        PROVE  messages'[q][k].id # current'[p]
    <3>1. /\ Outgoing(p) /\ current'[p] = current[p]
          /\ f[q][k] \in Sending(messages[q])
          /\ messages'[q][k].id = messages[q][f[q][k]].id
      BY <2>3
    <3> QED  BY <3>1 DEF AttemptsInv, OneSender
  <2>4. ASSUME NEW p \in Pager, Outgoing(p)' PROVE attempts'[current'[p]] = 1
    <3>1. Outgoing(p) /\ current'[p] = current[p]
      BY <2>4
    <3> QED  BY <3>1 DEF AttemptsInv, OneSender
  <2> QED  BY <2>1, <2>2, <2>3, <2>4 DEF OneSender
<1> QED  BY <1>1, <1>2, <1>3, <1>4 DEF AttemptsInv

\* The common case: the waiting entries stay where they are, or stop waiting.
LEMMA SameWaiting ==
  ASSUME Typing, AttemptsInv, UNCHANGED <<attempts, nextId>>,
         current' \in [Pager -> Id \cup {NoId}],
         \A p \in Pager : Outgoing(p)' => Outgoing(p) /\ current'[p] = current[p],
         \A p \in Pager : pc'[p] \notin {"add", "store"} => current'[p] = NoId,
         \A p \in Pager : \A k \in Sending(messages'[p]) :
           /\ k \in Sending(messages[p])
           /\ messages'[p][k].id = messages[p][k].id
           /\ messages'[p][k].retries = messages[p][k].retries
  PROVE  AttemptsInv'
<1> DEFINE f == [p \in Pager |-> [k \in Nat |-> k]]
<1>1. f \in [Pager -> [Nat -> Nat]] /\ \A p \in Pager, k \in Nat : f[p][k] = k
  OBVIOUS
<1>2. \A p \in Pager : Sending(messages[p]) \subseteq Nat
  BY LenProperties DEF Sending, Typing, TypeOK
<1> HIDE DEF f
<1>3. \A p \in Pager : \A k \in Sending(messages'[p]) :
        /\ k \in Nat
        /\ f[p][k] \in Sending(messages[p])
        /\ messages'[p][k].id = messages[p][f[p][k]].id
        /\ messages'[p][k].retries = messages[p][f[p][k]].retries
  BY <1>1, <1>2
<1>4. \A p \in Pager : \A k, l \in Nat : f[p][k] = f[p][l] => k = l
  BY <1>1
<1>5. nextId' \in Nat /\ nextId' >= nextId
  BY BoundsAssumption DEF Typing, TypeOK
<1> QED  BY <1>1, <1>3, <1>4, <1>5, FewerWaiting

\* A new entry that awaits no ack pushes the others to earlier positions.
LEMMA ShiftedWaiting ==
  ASSUME Typing, AttemptsInv, UNCHANGED <<attempts, nextId>>,
         current' \in [Pager -> Id \cup {NoId}],
         \A p \in Pager : Outgoing(p)' => Outgoing(p) /\ current'[p] = current[p],
         \A p \in Pager : pc'[p] \notin {"add", "store"} => current'[p] = NoId,
         NEW q \in Pager, NEW m \in Message, m.st # "sending",
         messages' = [messages EXCEPT ![q] = Added(@, m)]
  PROVE  AttemptsInv'
<1> DEFINE s == messages[q]
           t == Added(s, m)
           d == Len(s) + 1 - Len(t)
           f == [p \in Pager |-> IF p = q THEN [k \in Nat |-> k + d] ELSE [k \in Nat |-> k]]
<1>1. /\ t \in Seq(Message) /\ Len(t) \in 1..(Len(s) + 1) /\ t[Len(t)] = m
      /\ \A k \in 1..(Len(t) - 1) : k + d \in 1..Len(s) /\ t[k] = s[k + d]
      /\ Len(s) \in Nat
  BY AddedProperties, LenProperties DEF Typing, TypeOK
<1>2. messages'[q] = t /\ \A p \in Pager \ {q} : messages'[p] = messages[p]
  BY DEF Typing, TypeOK
<1> HIDE DEF t
<1>3. d \in Nat
  BY <1>1
<1> HIDE DEF d
<1>4. /\ f \in [Pager -> [Nat -> Nat]]
      /\ \A p \in Pager, k \in Nat : f[p][k] = IF p = q THEN k + d ELSE k
  BY <1>3
<1>5. \A p \in Pager : Sending(messages[p]) \subseteq Nat
  BY LenProperties DEF Sending, Typing, TypeOK
<1> HIDE DEF f
<1>6. ASSUME NEW k \in Sending(t)
      PROVE  k \in Nat /\ k + d \in Sending(s) /\ t[k] = s[k + d]
  <2>1. k \in 1..Len(t) /\ t[k].st = "sending"
    BY DEF Sending
  <2>2. k \in 1..(Len(t) - 1)
    BY <1>1, <2>1
  <2> QED  BY <1>1, <2>1, <2>2 DEF Sending
<1>7. ASSUME NEW p \in Pager, NEW k \in Sending(messages'[p])
      PROVE  /\ k \in Nat
             /\ f[p][k] \in Sending(messages[p])
             /\ messages'[p][k].id = messages[p][f[p][k]].id
             /\ messages'[p][k].retries = messages[p][f[p][k]].retries
  <2>1. CASE p = q
    BY <1>2, <1>4, <1>6, <2>1
  <2>2. CASE p # q
    <3>1. messages'[p] = messages[p]
      BY <1>2, <2>2
    <3>2. k \in Nat
      BY <1>5, <3>1
    <3>3. f[p][k] = k
      BY <1>4, <2>2, <3>2
    <3> QED  BY <3>1, <3>2, <3>3
  <2> QED  BY <2>1, <2>2
<1>8. \A p \in Pager : \A k, l \in Nat : f[p][k] = f[p][l] => k = l
  BY <1>3, <1>4
<1>9. nextId' \in Nat /\ nextId' >= nextId
  BY BoundsAssumption DEF Typing, TypeOK
<1> QED  BY <1>4, <1>7, <1>8, <1>9, FewerWaiting

\* A first transmission: attempt one of a fresh id that waits nowhere.
LEMMA AttemptsSend ==
  ASSUME Typing, AttemptsInv, NEW p \in Pager, SendByRadio(p)
  PROVE  AttemptsInv'
<1>1. /\ nextId \in Id /\ nextId' = nextId + 1 /\ UNCHANGED messages
      /\ \A x \in Id : x \in Nat
      /\ \A x \in Nat : x < nextId => x < nextId'
      /\ nextId < nextId'
  BY BoundsAssumption DEF SendByRadio, historyVars, Typing, TypeOK, Id
<1>2. /\ pc' = [pc EXCEPT ![p] = "add"] /\ current' = [current EXCEPT ![p] = nextId]
      /\ attempts' = [attempts EXCEPT ![nextId] = 1]
      /\ pc[p] = "keys"
  BY DEF SendByRadio
<1>3. \A q \in Pager : \A k \in Sending(messages[q]) :
        messages[q][k].id \in Id /\ messages[q][k].id # nextId /\ messages[q][k].id < nextId
  BY <1>1 DEF AttemptsInv, ShownRetriesAreReal, IdsGivenOut
<1>4. \A q \in Pager \ {p} : /\ Outgoing(q)' <=> Outgoing(q)
                             /\ current'[q] = current[q] /\ pc'[q] = pc[q]
  BY <1>2 DEF Outgoing, Typing, TypeOK
<1>5. \A q \in Pager : Outgoing(q) => /\ current[q] \in Id /\ current[q] # nextId
                                      /\ current[q] < nextId /\ attempts[current[q]] = 1
  BY <1>1 DEF AttemptsInv, IdsGivenOut, OneSender, Outgoing, Typing, TypeOK
<1>6. current'[p] = nextId /\ pc'[p] = "add"
  BY <1>2 DEF Typing, TypeOK
<1>7. \A x \in Id : attempts'[x] = IF x = nextId THEN 1 ELSE attempts[x]
  BY <1>2 DEF Typing, TypeOK
<1>8. AttemptsBounded'
  BY <1>7, BoundsAssumption DEF AttemptsInv, AttemptsBounded
<1>9. ShownRetriesAreReal'
  BY <1>1, <1>3, <1>7 DEF AttemptsInv, ShownRetriesAreReal
<1>10. IdsGivenOut'
  BY <1>1, <1>3, <1>4, <1>5, <1>6 DEF AttemptsInv, IdsGivenOut
<1>11. OneSender'
  <2>1. \A q, r \in Pager : \A k \in Sending(messages'[q]), l \in Sending(messages'[r]) :
          messages'[q][k].id = messages'[r][l].id => q = r /\ k = l
    BY <1>1 DEF AttemptsInv, OneSender
  <2>2. \A q, r \in Pager : Outgoing(q)' /\ Outgoing(r)' /\ current'[q] = current'[r] => q = r
    BY <1>4, <1>5, <1>6 DEF AttemptsInv, OneSender
  <2>3. \A q, r \in Pager : \A k \in Sending(messages'[r]) :
          Outgoing(q)' => messages'[r][k].id # current'[q]
    BY <1>1, <1>3, <1>4, <1>6 DEF AttemptsInv, OneSender
  <2>4. \A q \in Pager : Outgoing(q)' => attempts'[current'[q]] = 1
    BY <1>1, <1>4, <1>5, <1>6, <1>7
  <2> QED  BY <2>1, <2>2, <2>3, <2>4 DEF OneSender
<1> QED  BY <1>8, <1>9, <1>10, <1>11 DEF AttemptsInv

\* The message just sent becomes a waiting entry with retry counter 0.
LEMMA AttemptsAdd ==
  ASSUME Typing, AttemptsInv, NEW p \in Pager, AddOutgoing(p)
  PROVE  AttemptsInv'
<1> DEFINE m == NewMessage(current[p], TRUE)
           s == messages[p]
           t == Added(s, m)
<1>1. m \in Message /\ m.id = current[p] /\ m.retries = 0
  BY NewMessageType DEF NewMessage, Typing, TypeOK
<1>2. m.st = IF current[p] # NoId THEN "sending" ELSE "local"
  BY DEF NewMessage
<1>3. /\ pc[p] = "add" /\ pc' = [pc EXCEPT ![p] = "radio"]
      /\ current' = [current EXCEPT ![p] = NoId] /\ current[p] \in Id \cup {NoId}
      /\ messages' = [messages EXCEPT ![p] = t]
      /\ UNCHANGED <<attempts, nextId>>
  BY DEF AddOutgoing, ghostVars, Typing, TypeOK
<1>4. /\ ~Outgoing(p)' /\ current'[p] = NoId
      /\ \A q \in Pager \ {p} : /\ Outgoing(q)' <=> Outgoing(q)
                                /\ current'[q] = current[q] /\ pc'[q] = pc[q]
  BY <1>3 DEF Outgoing, Typing, TypeOK
<1>5. current' \in [Pager -> Id \cup {NoId}]
  BY <1>3 DEF Typing, TypeOK
<1>6. CASE current[p] = NoId
  BY <1>1, <1>2, <1>3, <1>4, <1>5, <1>6, ShiftedWaiting DEF AttemptsInv, IdsGivenOut
<1>7. CASE current[p] # NoId
  <2> DEFINE d == Len(s) + 1 - Len(t)
             \* where a waiting entry of the new history was before
             Was(q, k) == IF q = p THEN k + d ELSE k
  <2>0. s \in Seq(Message)
    BY DEF Typing, TypeOK
  <2>1. /\ t \in Seq(Message) /\ Len(t) \in 1..(Len(s) + 1) /\ t[Len(t)] = m
        /\ \A k \in 1..(Len(t) - 1) : k + d \in 1..Len(s) /\ t[k] = s[k + d]
        /\ Len(s) \in Nat
    BY <1>1, <2>0, AddedProperties, LenProperties
  <2>2. messages'[p] = t /\ \A q \in Pager \ {p} : messages'[q] = messages[q]
    BY <1>3 DEF Typing, TypeOK
  <2>3. Outgoing(p) /\ current[p] \in Id
    BY <1>3, <1>7 DEF Outgoing
  <2>4. attempts[current[p]] = 1 /\ current[p] < nextId
        /\ \A q \in Pager : \A k \in Sending(messages[q]) : messages[q][k].id # current[p]
    BY <2>3 DEF AttemptsInv, OneSender, IdsGivenOut
  <2> HIDE DEF t, m
  <2>5. d \in Nat
    BY <2>1
  <2>6. \A q \in Pager : Sending(messages[q]) \subseteq Nat
    BY LenProperties DEF Sending, Typing, TypeOK
  <2> HIDE DEF d
  <2>7. ASSUME NEW q \in Pager, NEW k \in Sending(messages'[q])
        PROVE  \/ q = p /\ k = Len(t) /\ messages'[q][k] = m
               \/ /\ k \in Nat /\ (q = p => k # Len(t))
                  /\ Was(q, k) \in Sending(messages[q])
                  /\ messages'[q][k] = messages[q][Was(q, k)]
    <3>1. CASE q # p
      BY <2>2, <2>6, <3>1
    <3>2. CASE q = p /\ k = Len(t)
      BY <2>1, <2>2, <3>2
    <3>3. CASE q = p /\ k # Len(t)
      <4>1. k \in 1..Len(t) /\ t[k].st = "sending" /\ messages'[q] = t
        BY <2>2, <3>3 DEF Sending
      <4>2. k \in 1..(Len(t) - 1)
        BY <2>1, <3>3, <4>1
      <4>3. k \in Nat /\ k + d \in 1..Len(s) /\ t[k] = s[k + d]
        BY <2>1, <4>2
      <4>4. k + d \in Sending(s)
        BY <4>1, <4>3 DEF Sending
      <4> QED  BY <3>3, <4>1, <4>3, <4>4
    <3> QED  BY <3>1, <3>2, <3>3
  <2>8. \A q \in Pager : \A k, l \in Nat : Was(q, k) = Was(q, l) => k = l
    BY <2>5
  <2> HIDE DEF Was
  <2>9. AttemptsBounded'
    BY <1>3 DEF AttemptsInv, AttemptsBounded
  <2>10. ShownRetriesAreReal'
    <3> SUFFICES ASSUME NEW q \in Pager, NEW k \in Sending(messages'[q])
                 PROVE  /\ messages'[q][k].id \in Id
                        /\ attempts'[messages'[q][k].id] = messages'[q][k].retries + 1
      BY DEF ShownRetriesAreReal
    <3>1. CASE messages'[q][k] = m
      BY <1>1, <1>3, <2>3, <2>4, <3>1
    <3>2. CASE Was(q, k) \in Sending(messages[q]) /\ messages'[q][k] = messages[q][Was(q, k)]
      BY <1>3, <3>2 DEF AttemptsInv, ShownRetriesAreReal
    <3> QED  BY <2>7, <3>1, <3>2
  <2>11. IdsGivenOut'
    <3>1. ASSUME NEW q \in Pager, NEW k \in Sending(messages'[q])
          PROVE  messages'[q][k].id < nextId'
      <4>1. CASE messages'[q][k] = m
        BY <1>1, <1>3, <2>4, <4>1
      <4>2. CASE Was(q, k) \in Sending(messages[q]) /\ messages'[q][k] = messages[q][Was(q, k)]
        BY <1>3, <4>2 DEF AttemptsInv, IdsGivenOut
      <4> QED  BY <2>7, <4>1, <4>2
    <3>2. ASSUME NEW q \in Pager, Outgoing(q)' PROVE current'[q] < nextId'
      BY <1>3, <1>4, <3>2 DEF AttemptsInv, IdsGivenOut
    <3>3. ASSUME NEW q \in Pager, pc'[q] \notin {"add", "store"} PROVE current'[q] = NoId
      BY <1>4, <3>3 DEF AttemptsInv, IdsGivenOut
    <3> QED  BY <3>1, <3>2, <3>3 DEF IdsGivenOut
  <2>12. OneSender'
    <3>1. ASSUME NEW q \in Pager, NEW r \in Pager,
                 NEW k \in Sending(messages'[q]), NEW l \in Sending(messages'[r]),
                 messages'[q][k].id = messages'[r][l].id
          PROVE  q = r /\ k = l
      <4>1. CASE messages'[q][k] = m \/ messages'[r][l] = m
        BY <1>1, <2>4, <2>7, <3>1, <4>1
      <4>2. CASE messages'[q][k] # m /\ messages'[r][l] # m
        <5>1. /\ k \in Nat /\ l \in Nat
              /\ Was(q, k) \in Sending(messages[q]) /\ Was(r, l) \in Sending(messages[r])
              /\ messages[q][Was(q, k)].id = messages[r][Was(r, l)].id
          BY <2>7, <3>1, <4>2
        <5>2. \A a \in Sending(messages[q]), b \in Sending(messages[r]) :
                messages[q][a].id = messages[r][b].id => q = r /\ a = b
          BY DEF AttemptsInv, OneSender
        <5>3. q = r /\ Was(q, k) = Was(r, l)
          BY <5>1, <5>2
        <5> QED  BY <2>8, <5>1, <5>3
      <4> QED  BY <4>1, <4>2
    <3>2. \A q, r \in Pager : Outgoing(q)' /\ Outgoing(r)' /\ current'[q] = current'[r] => q = r
      BY <1>4 DEF AttemptsInv, OneSender
    <3>3. ASSUME NEW q \in Pager, NEW r \in Pager, NEW k \in Sending(messages'[r]), Outgoing(q)'
          PROVE  messages'[r][k].id # current'[q]
      <4>1. q # p /\ Outgoing(q) /\ current'[q] = current[q]
        BY <1>4, <3>3
      <4>2. CASE messages'[r][k] = m
        BY <1>1, <2>3, <4>1, <4>2 DEF AttemptsInv, OneSender
      <4>3. CASE Was(r, k) \in Sending(messages[r]) /\ messages'[r][k] = messages[r][Was(r, k)]
        BY <4>1, <4>3 DEF AttemptsInv, OneSender
      <4> QED  BY <2>7, <4>2, <4>3
    <3>4. \A q \in Pager : Outgoing(q)' => attempts'[current'[q]] = 1
      BY <1>3, <1>4 DEF AttemptsInv, OneSender
    <3> QED  BY <3>1, <3>2, <3>3, <3>4 DEF OneSender
  <2> QED  BY <2>9, <2>10, <2>11, <2>12 DEF AttemptsInv
<1> QED  BY <1>6, <1>7

\* A retransmission counts once on the air and once in its entry.
LEMMA AttemptsResend ==
  ASSUME Typing, AttemptsInv, NEW p \in Pager, NEW i \in due[p], Resend(p, i)
  PROVE  AttemptsInv'
<1> DEFINE id == messages[p][i].id
<1>1. /\ i \in Sending(messages[p]) /\ messages[p][i] \in Message
      /\ messages' \in [Pager -> Seq(Message)]
      /\ \A q \in Pager \ {p} : messages'[q] = messages[q]
      /\ Len(messages'[p]) = Len(messages[p])
      /\ \A j \in 1..Len(messages[p]) : j # i => messages'[p][j] = messages[p][j]
      /\ messages'[p][i] = [messages[p][i] EXCEPT !.retries = @ + 1]
      /\ messages[p][i].retries + 1 <= MaxRetries
      /\ id \in Id
  BY VisitTyping
<1>2. /\ pc[p] = "retry" /\ pc' \in [Pager -> Phase] /\ pc'[p] \in {"retry", "flush"}
      /\ \A q \in Pager \ {p} : pc'[q] = pc[q]
      /\ attempts' = [attempts EXCEPT ![id] = @ + 1]
      /\ UNCHANGED <<current, nextId>>
  BY DEF Resend, Visits, Visited, Typing, TypeOK, Phase
<1>3. /\ messages'[p][i].id = id /\ messages'[p][i].st = "sending"
      /\ messages'[p][i].retries = messages[p][i].retries + 1
      /\ messages[p][i].retries \in Nat
  BY <1>1, BoundsAssumption DEF Message, Sending
<1>4. \A x \in Id : attempts'[x] = IF x = id THEN attempts[x] + 1 ELSE attempts[x]
  BY <1>2 DEF Typing, TypeOK
<1>5. attempts[id] = messages[p][i].retries + 1
  BY <1>1 DEF AttemptsInv, ShownRetriesAreReal
<1>6. attempts'[id] = (messages[p][i].retries + 1) + 1
  BY <1>1, <1>4, <1>5
<1>7. \A n \in Nat : n + 1 <= MaxRetries => (n + 1) + 1 <= MaxRetries + 1
  BY BoundsAssumption
<1>8. ASSUME NEW q \in Pager, NEW k \in Sending(messages'[q])
      PROVE  /\ k \in Sending(messages[q]) /\ messages'[q][k].id = messages[q][k].id
             /\ messages[q][k].id \in Id
             /\ (q # p \/ k # i) => /\ messages'[q][k] = messages[q][k]
                                    /\ messages[q][k].id # id
  <2>1. k \in Sending(messages[q]) /\ ((q # p \/ k # i) => messages'[q][k] = messages[q][k])
    BY <1>1 DEF Sending
  <2>2. messages'[q][k].id = messages[q][k].id
    BY <1>3, <2>1
  <2>3. (q # p \/ k # i) => messages[q][k].id # id
    BY <1>1, <2>1 DEF AttemptsInv, OneSender
  <2>4. messages[q][k].id \in Id
    BY <2>1 DEF AttemptsInv, ShownRetriesAreReal
  <2> QED  BY <2>1, <2>2, <2>3, <2>4
<1>9. ~Outgoing(p) /\ ~Outgoing(p)'
      /\ \A q \in Pager : Outgoing(q)' => Outgoing(q) /\ q # p
  BY <1>2 DEF Outgoing
<1>10. AttemptsBounded'
  <2> SUFFICES ASSUME NEW x \in Id PROVE attempts'[x] <= MaxRetries + 1
    BY DEF AttemptsBounded
  <2>1. CASE x = id
    BY <1>1, <1>3, <1>6, <1>7, <2>1
  <2>2. CASE x # id
    BY <1>4, <2>2 DEF AttemptsInv, AttemptsBounded
  <2> QED  BY <2>1, <2>2
<1>11. ShownRetriesAreReal'
  <2> SUFFICES ASSUME NEW q \in Pager, NEW k \in Sending(messages'[q])
               PROVE  /\ messages'[q][k].id \in Id
                      /\ attempts'[messages'[q][k].id] = messages'[q][k].retries + 1
    BY DEF ShownRetriesAreReal
  <2>1. CASE q = p /\ k = i
    BY <1>1, <1>3, <1>6, <2>1
  <2>2. CASE q # p \/ k # i
    <3>1. attempts[messages[q][k].id] = messages[q][k].retries + 1
      BY <1>8 DEF AttemptsInv, ShownRetriesAreReal
    <3> QED  BY <1>4, <1>8, <2>2, <3>1
  <2> QED  BY <2>1, <2>2
<1>12. IdsGivenOut'
  <2>1. ASSUME NEW q \in Pager, NEW k \in Sending(messages'[q])
        PROVE  messages'[q][k].id < nextId'
    BY <1>2, <1>8 DEF AttemptsInv, IdsGivenOut
  <2>2. ASSUME NEW q \in Pager
        PROVE  /\ Outgoing(q)' => current'[q] < nextId'
               /\ pc'[q] \notin {"add", "store"} => current'[q] = NoId
    BY <1>2, <1>9 DEF AttemptsInv, IdsGivenOut
  <2> QED  BY <2>1, <2>2 DEF IdsGivenOut
<1>13. OneSender'
  <2>1. ASSUME NEW q \in Pager, NEW r \in Pager,
               NEW k \in Sending(messages'[q]), NEW l \in Sending(messages'[r]),
               messages'[q][k].id = messages'[r][l].id
        PROVE  q = r /\ k = l
    <3>1. /\ k \in Sending(messages[q]) /\ l \in Sending(messages[r])
          /\ messages[q][k].id = messages[r][l].id
      BY <1>8, <2>1
    <3> QED  BY <3>1 DEF AttemptsInv, OneSender
  <2>2. \A q, r \in Pager : Outgoing(q)' /\ Outgoing(r)' /\ current'[q] = current'[r] => q = r
    BY <1>2, <1>9 DEF AttemptsInv, OneSender
  <2>3. ASSUME NEW q \in Pager, NEW r \in Pager, NEW k \in Sending(messages'[r]), Outgoing(q)'
        PROVE  messages'[r][k].id # current'[q]
    BY <1>2, <1>8, <1>9, <2>3 DEF AttemptsInv, OneSender
  <2>4. ASSUME NEW q \in Pager, Outgoing(q)' PROVE attempts'[current'[q]] = 1
    <3>1. Outgoing(q) /\ current'[q] = current[q] /\ current[q] \in Id
      BY <1>2, <1>9, <2>4 DEF Outgoing, Typing, TypeOK
    <3>2. current[q] # id /\ attempts[current[q]] = 1
      BY <1>1, <3>1 DEF AttemptsInv, OneSender
    <3> QED  BY <1>4, <3>1, <3>2
  <2> QED  BY <2>1, <2>2, <2>3, <2>4 DEF OneSender
<1> QED  BY <1>10, <1>11, <1>12, <1>13 DEF AttemptsInv

\* AttemptsInv is inductive relative to Typing.
LEMMA AttemptsNext ==
  ASSUME Typing, AttemptsInv, [Next]_vars
  PROVE  AttemptsInv'
<1>1. Typing'
  BY TypingNext
<1>2. current' \in [Pager -> Id \cup {NoId}] /\ \A p \in Pager : messages[p] \in Seq(Message)
  BY <1>1 DEF Typing, TypeOK
<1>3. \A p \in Pager : pc[p] \notin {"add", "store"} => current[p] = NoId
  BY DEF AttemptsInv, IdsGivenOut
\* Steps that touch neither a history nor a phase in which an id is held.
<1>4. ASSUME NEW p \in Pager, UNCHANGED <<messages, attempts, nextId>>,
             \A q \in Pager \ {p} : pc'[q] = pc[q] /\ current'[q] = current[q],
             pc'[p] # "add" \/ current'[p] = NoId,
             pc'[p] \notin {"add", "store"} => current'[p] = NoId
      PROVE  AttemptsInv'
  BY <1>2, <1>3, <1>4, SameWaiting DEF Outgoing
<1>5. ASSUME NEW p \in Pager,
             \/ NoSend(p) \/ EditChannel(p) \/ SendWithoutRadio(p) \/ ReceiveNothing(p)
             \/ ReceiveMessage(p) \/ NothingDue(p) \/ CheckTimeouts(p)
             \/ FlushNothing(p) \/ FlushHistory(p)
      PROVE  AttemptsInv'
  <2>1. /\ UNCHANGED <<messages, attempts, nextId>>
        /\ \A q \in Pager \ {p} : pc'[q] = pc[q] /\ current'[q] = current[q]
        /\ pc'[p] # "add" \/ current'[p] = NoId
        /\ pc'[p] \notin {"add", "store"} => current'[p] = NoId
    BY <1>3, <1>5
       DEF NoSend, EditChannel, SendWithoutRadio, ReceiveNothing, ReceiveMessage, Receives,
           NothingDue, CheckTimeouts, BeginCheck, FlushNothing, FlushHistory,
           historyVars, setupVars, ghostVars, Typing, TypeOK
  <2> QED  BY <1>4, <2>1
<1>6. ASSUME NEW p \in Pager, StoreIncoming(p) PROVE AttemptsInv'
  <2>1. /\ UNCHANGED <<attempts, nextId>> /\ pc'[p] = "acks" /\ current'[p] = NoId
        /\ \A q \in Pager \ {p} : pc'[q] = pc[q] /\ current'[q] = current[q]
    BY <1>6 DEF StoreIncoming, ghostVars, Typing, TypeOK
  <2>2. CASE UNCHANGED messages
    BY <1>4, <2>1, <2>2
  <2>3. CASE messages' = [messages EXCEPT ![p] = Added(@, NewMessage(current[p], FALSE))]
    <3>1. NewMessage(current[p], FALSE) \in Message
          /\ NewMessage(current[p], FALSE).st # "sending"
      BY NewMessageType DEF NewMessage, Typing, TypeOK
    <3>2. /\ \A q \in Pager : Outgoing(q)' => Outgoing(q) /\ current'[q] = current[q]
          /\ \A q \in Pager : pc'[q] \notin {"add", "store"} => current'[q] = NoId
      BY <1>3, <2>1 DEF Outgoing
    <3> QED  BY <1>2, <2>1, <2>3, <3>1, <3>2, ShiftedWaiting
  <2> QED  BY <1>6, <2>2, <2>3 DEF StoreIncoming
\* Steps after which fewer entries wait, where they waited before.
<1>7. ASSUME NEW p \in Pager, UNCHANGED <<attempts, nextId>>,
             \A q \in Pager \ {p} : /\ pc'[q] = pc[q] /\ current'[q] = current[q]
                                    /\ messages'[q] = messages[q],
             pc'[p] \notin {"add", "store"}, current'[p] = NoId,
             \A k \in Sending(messages'[p]) : /\ k \in Sending(messages[p])
                                              /\ messages'[p][k] = messages[p][k]
      PROVE  AttemptsInv'
  BY <1>2, <1>3, <1>7, SameWaiting DEF Outgoing
<1>8. ASSUME NEW p \in Pager, ReceiveAck(p) PROVE AttemptsInv'
  <2>1. /\ UNCHANGED <<attempts, nextId, current>> /\ pc'[p] = "acks" /\ current[p] = NoId
        /\ \A q \in Pager \ {p} : pc'[q] = pc[q]
    BY <1>3, <1>8 DEF ReceiveAck, Receives, ghostVars, Typing, TypeOK
  <2>2. CASE UNCHANGED messages
    BY <1>4, <2>1, <2>2
  <2>3. CASE ~UNCHANGED messages
    <3>1. PICK i \in Sending(messages[p]) :
            /\ messages[p][i] \in Message
            /\ \A q \in Pager \ {p} : messages'[q] = messages[q]
            /\ Len(messages'[p]) = Len(messages[p])
            /\ \A j \in 1..Len(messages[p]) : j # i => messages'[p][j] = messages[p][j]
            /\ messages'[p][i] = [messages[p][i] EXCEPT !.st = "ok"]
      BY <1>8, <2>3, AckChange
    <3>2. messages'[p][i].st = "ok"
      BY <3>1 DEF Message
    <3>3. \A k \in Sending(messages'[p]) : /\ k \in Sending(messages[p])
                                           /\ messages'[p][k] = messages[p][k]
      BY <3>1, <3>2 DEF Sending
    <3> QED  BY <1>7, <2>1, <3>1, <3>3
  <2> QED  BY <2>2, <2>3
<1>9. ASSUME NEW p \in Pager, NEW i \in due[p], GiveUp(p, i) PROVE AttemptsInv'
  <2>1. /\ UNCHANGED <<attempts, nextId, current>> /\ pc'[p] \in {"retry", "flush"}
        /\ current[p] = NoId /\ \A q \in Pager \ {p} : pc'[q] = pc[q]
    BY <1>3, <1>9 DEF GiveUp, Visits, Visited, ghostVars, Typing, TypeOK
  <2>2. /\ messages[p][i] \in Message
        /\ \A q \in Pager \ {p} : messages'[q] = messages[q]
        /\ Len(messages'[p]) = Len(messages[p])
        /\ \A j \in 1..Len(messages[p]) : j # i => messages'[p][j] = messages[p][j]
        /\ messages'[p][i] = [messages[p][i] EXCEPT !.st = "fail"]
    BY <1>9, VisitTyping
  <2>3. messages'[p][i].st = "fail"
    BY <2>2 DEF Message
  <2>4. \A k \in Sending(messages'[p]) : /\ k \in Sending(messages[p])
                                         /\ messages'[p][k] = messages[p][k]
    BY <2>2, <2>3 DEF Sending
  <2> QED  BY <1>7, <2>1, <2>2, <2>4
<1>10. ASSUME NEW p \in Pager, PowerCut(p) \/ Shutdown(p) PROVE AttemptsInv'
  <2>1. /\ UNCHANGED <<attempts, nextId>> /\ pc'[p] = "off" /\ current'[p] = NoId
        /\ messages'[p] = << >>
        /\ \A q \in Pager \ {p} : /\ pc'[q] = pc[q] /\ current'[q] = current[q]
                                  /\ messages'[q] = messages[q]
    BY <1>10 DEF PowerCut, Shutdown, Halt, ghostVars, Typing, TypeOK
  <2>2. Sending(<< >>) = {}
    BY EmptySeq DEF Sending
  <2> QED  BY <1>7, <2>1, <2>2
<1>11. ASSUME NEW p \in Pager, Boot(p) PROVE AttemptsInv'
  <2>1. /\ UNCHANGED <<attempts, nextId, current>> /\ pc'[p] = "keys" /\ current[p] = NoId
        /\ messages'[p] = FromDisk(disk[p])
        /\ \A q \in Pager \ {p} : pc'[q] = pc[q] /\ messages'[q] = messages[q]
    BY <1>3, <1>11 DEF Boot, ghostVars, Typing, TypeOK
  <2>2. Sending(messages'[p]) = {}
    BY <2>1, FromDiskProperties DEF Typing, TypeOK
  <2> QED  BY <1>7, <2>1, <2>2
<1>12. CASE UNCHANGED <<messages, attempts, nextId, current, pc>>
  BY <1>2, <1>3, <1>12, SameWaiting DEF Outgoing
<1>13. ASSUME NEW p \in Pager, Garble(p)
       PROVE  UNCHANGED <<messages, attempts, nextId, current, pc>>
  BY <1>13 DEF Garble, loopVars, historyVars, ghostVars
<1> QED
  BY <1>5, <1>6, <1>8, <1>9, <1>10, <1>11, <1>12, <1>13,
     AttemptsSend, AttemptsAdd, AttemptsResend
  DEF Next, Step, VisitNext, vars

\* Before the first start nothing was sent.
LEMMA AttemptsInit == Init => AttemptsInv
<1> SUFFICES ASSUME Init PROVE AttemptsInv
  OBVIOUS
<1>1. \A p \in Pager : Sending(messages[p]) = {} /\ ~Outgoing(p) /\ current[p] = NoId
  <2>1. Sending(<< >>) = {}
    BY EmptySeq DEF Sending
  <2> QED  BY <2>1 DEF Init, Outgoing
<1>2. AttemptsBounded
  BY BoundsAssumption DEF Init, AttemptsBounded
<1> QED  BY <1>1, <1>2 DEF AttemptsInv, ShownRetriesAreReal, OneSender, IdsGivenOut

\* No message is transmitted more than MaxRetries + 1 times, whatever is lost
\* and whoever restarts.
THEOREM AttemptsHold == Spec => []AttemptsBounded
<1>1. Typing /\ AttemptsInv /\ [Next]_vars => AttemptsInv'
  BY AttemptsNext
<1>2. AttemptsInv => AttemptsBounded
  BY DEF AttemptsInv
<1> QED  BY <1>1, <1>2, AttemptsInit, TypingInit, TypingNext, PTL DEF Spec

\* The attempt number on the screen is the true one: the counter that is lost
\* with the memory is never needed again, as loading fails what waited.
THEOREM RetriesHold == Spec => []ShownRetriesAreReal
<1>1. Typing /\ AttemptsInv /\ [Next]_vars => AttemptsInv'
  BY AttemptsNext
<1>2. AttemptsInv => ShownRetriesAreReal
  BY DEF AttemptsInv
<1> QED  BY <1>1, <1>2, AttemptsInit, TypingInit, TypingNext, PTL DEF Spec
=============================================================================
