------------------------- MODULE KeyboardReaderProofs -------------------------
(***************************************************************************)
(* Proofs about KeyboardReader, for any number of paths, keys, events and  *)
(* connections and any length of the queue.                                *)
(***************************************************************************)
EXTENDS KeyboardReader, TLAPS

-----------------------------------------------------------------------------
(* Types, with what the places of the threads say about their data. *)

Typing ==
  /\ TypeOK
  /\ reader \in {"handle", "push"} <=> batch # <<>>
  /\ reader # "push" => token = NoToken
  /\ reader = "push" => token \in Token
  /\ main = "scan" => reader = "none" /\ tries # 0

\* What the sequences hold, and the rest of the types.
Sequenced ==
  /\ events \in Seq(Event)
  /\ batch \in Seq(Event)
  /\ queue \in Seq(Token) /\ Len(queue) <= QueueMax

Scalars ==
  /\ where \in Path \cup {NoPath} /\ path \in Path \cup {NoPath}
  /\ plug \in 0..MaxPlug /\ typed \in 0..MaxEvent /\ fd \in 0..plug
  /\ last \in Code \cup {NoPath}
  /\ dropped \in Nat /\ pushed \in Nat /\ popped \in Nat
  /\ reader \in ReaderPlace /\ main \in MainPlace
  /\ tries \in 0..Tries
  /\ token \in Token \cup {NoToken}

Flags == held \in BOOLEAN /\ alt \in BOOLEAN /\ stop \in BOOLEAN /\ stale \in BOOLEAN

Placed ==
  /\ reader \in {"handle", "push"} <=> batch # <<>>
  /\ reader # "push" => token = NoToken
  /\ reader = "push" => token \in Token
  /\ main = "scan" => reader = "none" /\ tries # 0

\* The types, taken apart for the proofs below.
LEMMA TypingParts == Typing <=> Sequenced /\ Scalars /\ Flags /\ Placed
  BY DEF Typing, TypeOK, Sequenced, Scalars, Flags, Placed

\* What the operators on sequences return.
LEMMA EmptyType == ASSUME NEW S PROVE <<>> \in Seq(S) /\ Len(<<>>) = 0
  OBVIOUS

\* One element more at the end.
LEMMA AppendType ==
  ASSUME NEW S, NEW s \in Seq(S), NEW e \in S
  PROVE  /\ Append(s, e) \in Seq(S)
         /\ Append(s, e) # <<>>
         /\ Len(Append(s, e)) = Len(s) + 1
         /\ \A i \in 1..Len(s) : Append(s, e)[i] = s[i]
         /\ Append(s, e)[Len(s) + 1] = e
  OBVIOUS

\* One element less at the front.
LEMMA TailType ==
  ASSUME NEW S, NEW s \in Seq(S), s # <<>>
  PROVE  /\ Head(s) \in S /\ Head(s) = s[1]
         /\ Tail(s) \in Seq(S)
         /\ Len(s) \in Nat /\ Len(s) # 0
         /\ Len(Tail(s)) = Len(s) - 1
         /\ \A i \in 1..Len(Tail(s)) : Tail(s)[i] = s[i + 1]
         /\ Tail(s) = <<>> <=> Len(s) = 1
<1>1. /\ Head(s) \in S /\ Head(s) = s[1]
      /\ Tail(s) \in Seq(S)
      /\ Len(s) \in Nat /\ Len(s) # 0
      /\ Len(Tail(s)) = Len(s) - 1
  OBVIOUS
<1>2. \A i \in 1..Len(Tail(s)) : Tail(s)[i] = s[i + 1]
  BY <1>1
<1>3. \A t \in Seq(S) : t = <<>> <=> Len(t) = 0
  OBVIOUS
<1>4. Tail(s) = <<>> <=> Len(Tail(s)) = 0
  BY <1>1, <1>3
<1>5. Len(s) - 1 = 0 <=> Len(s) = 1
  BY <1>1
<1>6. QED
  BY <1>1, <1>2, <1>4, <1>5

\* The events of the keyboard, field by field.
LEMMA EventType ==
  ASSUME NEW c \in Code \cup {Alt}, NEW d \in BOOLEAN, NEW h \in BOOLEAN
  PROVE  [code |-> c, down |-> d, held |-> h] \in Event
  BY DEF Event

\* The keys in the queue, field by field.
LEMMA TokenType ==
  ASSUME NEW k \in Nat \ {0}, NEW d \in BOOLEAN, NEW h \in BOOLEAN
  PROVE  [n |-> k, alt |-> d, held |-> h] \in Token
  BY DEF Token

\* One event less to handle.
LEMMA NextEventTypes ==
  ASSUME Typing, batch # <<>>, NextEvent
  PROVE  /\ batch' \in Seq(Event)
         /\ reader' \in {"handle", "poll"}
         /\ reader' = "handle" <=> batch' # <<>>
<1>1. batch \in Seq(Event)
  BY DEF Typing, TypeOK
<1>2. /\ Tail(batch) \in Seq(Event)
      /\ Tail(batch) = <<>> <=> Len(batch) = 1
  BY <1>1, TailType
<1>3. QED
  BY <1>2 DEF NextEvent

\* Every step keeps the types.
LEMMA TypingNext ==
  Typing /\ [Next]_vars => Typing'
<1>1. SUFFICES ASSUME Typing, [Next]_vars
              PROVE  Typing'
  OBVIOUS
<1> USE QueueAssumption
<1>2. ASSUME NEW p \in Path, Appear(p)
      PROVE  Typing'
  BY <1>2, <1>1 DEF Appear, Typing, TypeOK, device, reading, keys
<1>3. CASE Vanish
  <2>1. Sequenced'
    BY <1>1, <1>3, EmptyType DEF Sequenced, Typing, TypeOK, Vanish, reading, keys
  <2>2. Scalars'
    BY <1>1, <1>3 DEF Scalars, Typing, TypeOK, Vanish, device, reading, keys
  <2>3. Flags'
    BY <1>1, <1>3 DEF Flags, Typing, TypeOK, Vanish, device, reading
  <2>4. Placed'
    BY <1>1, <1>3, EmptyType DEF Placed, Typing, Vanish, reading
  <2>5. QED
    BY <2>1, <2>2, <2>3, <2>4
    DEF Typing, TypeOK, Sequenced, Scalars, Flags, Placed
<1>4. ASSUME NEW code \in Code, NEW down \in BOOLEAN, TypeKey(code, down)
      PROVE  Typing'
  <2>0. [code |-> code, down |-> down, held |-> held] \in Event
    BY <1>1, <1>4, EventType DEF Typing, TypeOK
  <2>1. Sequenced'
    BY <1>1, <1>4, <2>0, AppendType DEF Sequenced, Typing, TypeOK, TypeKey, Emit,
      reading, keys
  <2>2. Scalars'
    BY <1>1, <1>4 DEF Scalars, Typing, TypeOK, TypeKey, Emit, device, reading, keys
  <2>3. Flags'
    BY <1>1, <1>4 DEF Flags, Typing, TypeOK, TypeKey, Emit, device, reading
  <2>4. Placed'
    BY <1>1, <1>4, <2>0, AppendType DEF Placed, Typing, TypeKey, Emit, reading
  <2>5. QED
    BY <2>1, <2>2, <2>3, <2>4
    DEF Typing, TypeOK, Sequenced, Scalars, Flags, Placed
<1>5. ASSUME NEW down \in BOOLEAN, PressAlt(down)
      PROVE  Typing'
  <2>0. [code |-> Alt, down |-> down, held |-> down] \in Event
    BY <1>1, <1>5, EventType DEF Typing, TypeOK
  <2>1. Sequenced'
    BY <1>1, <1>5, <2>0, AppendType DEF Sequenced, Typing, TypeOK, PressAlt, Emit,
      reading, keys
  <2>2. Scalars'
    BY <1>1, <1>5 DEF Scalars, Typing, TypeOK, PressAlt, Emit, device, reading, keys
  <2>3. Flags'
    BY <1>1, <1>5 DEF Flags, Typing, TypeOK, PressAlt, Emit, device, reading
  <2>4. Placed'
    BY <1>1, <1>5, <2>0, AppendType DEF Placed, Typing, PressAlt, Emit, reading
  <2>5. QED
    BY <2>1, <2>2, <2>3, <2>4
    DEF Typing, TypeOK, Sequenced, Scalars, Flags, Placed
<1>6. CASE ReadBatch
  BY <1>6, <1>1 DEF ReadBatch, Typing, TypeOK, ReaderPlace, keyboard, device, keys
<1>7. CASE ReaderLeaves
  BY <1>7, <1>1 DEF ReaderLeaves, Typing, TypeOK, ReaderPlace, keyboard, device,
    reading, keys
<1>8. CASE HandleModifier
  <2>a. batch \in Seq(Event) /\ batch # <<>>
    BY <1>1, <1>8 DEF Typing, TypeOK, Handles, HandleModifier
  <2>0. batch # <<>> /\ Head(batch) \in Event
    BY <2>a, TailType
  <2>1. Sequenced'
    BY <1>1, <1>8, <2>0, NextEventTypes DEF Sequenced, Typing, TypeOK, HandleModifier,
      keys
  <2>2. Scalars'
    BY <1>1, <1>8, <2>0, NextEventTypes DEF Scalars, Typing, TypeOK, HandleModifier,
      ReaderPlace, keyboard, device, keys
  <2>3. Flags'
    BY <1>1, <1>8, <2>0 DEF Flags, Typing, TypeOK, HandleModifier, event, Event,
      keyboard, device
  <2>4. Placed'
    BY <1>1, <1>8, <2>0, NextEventTypes DEF Placed, Typing, HandleModifier, Handles
  <2>5. QED
    BY <2>1, <2>2, <2>3, <2>4
    DEF Typing, TypeOK, Sequenced, Scalars, Flags, Placed
<1>9. CASE HandleIgnored
  <2>a. batch \in Seq(Event) /\ batch # <<>>
    BY <1>1, <1>9 DEF Typing, TypeOK, Handles, HandleIgnored
  <2>0. batch # <<>> /\ Head(batch) \in Event
    BY <2>a, TailType
  <2>1. Sequenced'
    BY <1>1, <1>9, <2>0, NextEventTypes DEF Sequenced, Typing, TypeOK, HandleIgnored,
      keys
  <2>2. Scalars'
    BY <1>1, <1>9, <2>0, NextEventTypes DEF Scalars, Typing, TypeOK, HandleIgnored,
      event, Event, ReaderPlace, keyboard, device, keys
  <2>3. Flags'
    BY <1>1, <1>9, <2>0 DEF Flags, Typing, TypeOK, HandleIgnored, keyboard, device
  <2>4. Placed'
    BY <1>1, <1>9, <2>0, NextEventTypes DEF Placed, Typing, HandleIgnored, Handles
  <2>5. QED
    BY <2>1, <2>2, <2>3, <2>4
    DEF Typing, TypeOK, Sequenced, Scalars, Flags, Placed
<1>10. CASE HandleKey
  <2>a. batch \in Seq(Event) /\ batch # <<>>
    BY <1>1, <1>10 DEF Typing, TypeOK, Handles, HandleKey
  <2>0. batch # <<>> /\ Head(batch) \in Event
    BY <2>a, TailType
  <2>b. /\ Head(batch).held \in BOOLEAN
        /\ Head(batch).code # Alt => Head(batch).code \in Code
        /\ token' \in Token
    <3>1. /\ Head(batch).held \in BOOLEAN
          /\ Head(batch).code # Alt => Head(batch).code \in Code
      BY <2>0 DEF Event
    <3>2. pushed + 1 \in Nat \ {0} /\ alt \in BOOLEAN
      BY <1>1 DEF Typing, TypeOK
    <3>3. token' \in Token
      BY <3>1, <3>2, <1>10, TokenType DEF HandleKey, event
    <3>4. QED
      BY <3>1, <3>3
  <2>1. Sequenced'
    BY <1>1, <1>10, <2>0, <2>b DEF Sequenced, Typing, TypeOK, HandleKey
  <2>2. Scalars'
    BY <1>1, <1>10, <2>0, <2>b DEF Scalars, Typing, TypeOK, HandleKey, event,
      ReaderPlace, keyboard, device
  <2>3. Flags'
    BY <1>1, <1>10, <2>0, <2>b DEF Flags, Typing, TypeOK, HandleKey, keyboard, device
  <2>4. Placed'
    BY <1>1, <1>10, <2>0, <2>b DEF Placed, Typing, HandleKey
  <2>5. QED
    BY <2>1, <2>2, <2>3, <2>4
    DEF Typing, TypeOK, Sequenced, Scalars, Flags, Placed
<1>11. CASE PushKey
  <2>0. batch # <<>> /\ token \in Token
    BY <1>1, <1>11 DEF Typing, PushKey
  <2>1. Sequenced'
    BY <1>1, <1>11, <2>0, NextEventTypes, AppendType, TailType, QueueAssumption DEF
      Sequenced, Typing, TypeOK, PushKey, Appended
  <2>2. Scalars'
    BY <1>1, <1>11, <2>0, NextEventTypes DEF Scalars, Typing, TypeOK, PushKey,
      ReaderPlace, keyboard, device
  <2>3. Flags'
    BY <1>1, <1>11, <2>0 DEF Flags, Typing, TypeOK, PushKey, keyboard, device
  <2>4. Placed'
    BY <1>1, <1>11, <2>0, NextEventTypes, AppendType, TailType, QueueAssumption DEF
      Placed, Typing, PushKey
  <2>5. QED
    BY <2>1, <2>2, <2>3, <2>4
    DEF Typing, TypeOK, Sequenced, Scalars, Flags, Placed
<1>12. CASE TakeKey
  BY <1>12, <1>1 DEF TakeKey, Typing, TypeOK, keyboard, device, reading
<1>13. CASE CheckAlive
  BY <1>13, <1>1 DEF CheckAlive, Typing, TypeOK, MainPlace, keyboard, reading, keys
<1>14. CASE Closed
  BY <1>14, <1>1 DEF Closed, Typing, TypeOK, ReaderPlace, MainPlace, keyboard,
    reading, keys
<1>15. CASE ScanFinds
  <2>1. Sequenced'
    BY <1>1, <1>15 DEF Sequenced, Typing, TypeOK, ScanFinds, reading, keys
  <2>2. Scalars'
    BY <1>1, <1>15 DEF Scalars, Typing, TypeOK, ScanFinds, ReaderPlace, MainPlace,
      keyboard, reading, keys
  <2>3. Flags'
    BY <1>1, <1>15 DEF Flags, Typing, TypeOK, ScanFinds, keyboard, reading
  <2>4. Placed'
    BY <1>1, <1>15 DEF Placed, Typing, ScanFinds, reading
  <2>5. QED
    BY <2>1, <2>2, <2>3, <2>4
    DEF Typing, TypeOK, Sequenced, Scalars, Flags, Placed
<1>16. CASE ScanFails
  BY <1>16, <1>1 DEF ScanFails, Typing, TypeOK, MainPlace, keyboard, device, reading,
    keys
<1>17. CASE UNCHANGED vars
  BY <1>17, <1>1 DEF vars, Typing, TypeOK, keyboard, device, reading, keys
<1>18. QED
  BY <1>1, <1>2, <1>3, <1>4, <1>5, <1>6, <1>7, <1>8, <1>9, <1>10, <1>11,
     <1>12, <1>13, <1>14, <1>15, <1>16, <1>17
  DEF Next, Keyboard, Reader, Main

\* The initial values have their types.
LEMMA TypingInit == Init => Typing
<1>1. Init => Sequenced
  BY QueueAssumption, EmptyType DEF Init, Sequenced
<1>2. Init => Scalars
  BY QueueAssumption DEF Init, Scalars, ReaderPlace, MainPlace
<1>3. Init => Flags
  BY DEF Init, Flags
<1>4. Init => Placed
  BY QueueAssumption DEF Init, Placed
<1>5. QED
  BY <1>1, <1>2, <1>3, <1>4, TypingParts

\* Every variable keeps its type; the queue never outgrows QUEUE_MAX and the
\* scans end (find_m4, _handle_raw, reconnect).
THEOREM TypesHold == Spec => []TypeOK
<1>1. Init => Typing
  BY TypingInit
<1>2. Typing => TypeOK
  BY DEF Typing
<1>3. QED
  BY <1>1, <1>2, TypingNext, PTL DEF Spec

-----------------------------------------------------------------------------
(* One reader for one open file. *)

\* ReaderHasFile with what makes it inductive: a scan begins with no reader and
\* no file, only close() raises the stop flag of a reader at work, and it is called
\* only when the file is no longer the keyboard's.
OneReader ==
  /\ ReaderHasFile
  /\ main = "scan" => fd = 0
  /\ main = "loop" /\ reader # "none" => ~stop
  /\ Connected => plug # 0
  /\ Attached => path = where
  /\ main = "closing" => ~Attached

\* A reader is started after the scan has opened the file, and joined before it is closed.
LEMMA OneReaderNext ==
  Typing /\ OneReader /\ [Next]_vars => OneReader'
<1>1. SUFFICES ASSUME Typing, OneReader, [Next]_vars
              PROVE  OneReader'
  OBVIOUS
<1> USE QueueAssumption
<1>2. ASSUME NEW p \in Path, Appear(p)
      PROVE  OneReader'
  BY <1>2, <1>1 DEF Appear, OneReader, ReaderHasFile, Attached, Typing, TypeOK, device
<1>3. CASE Vanish
  BY <1>3, <1>1 DEF Vanish, Connected, OneReader, ReaderHasFile, Attached, device
<1>4. ASSUME NEW code \in Code, NEW down \in BOOLEAN, TypeKey(code, down)
      PROVE  OneReader'
  BY <1>4, <1>1 DEF TypeKey, Emit, OneReader, ReaderHasFile, Attached, device
<1>5. ASSUME NEW down \in BOOLEAN, PressAlt(down)
      PROVE  OneReader'
  BY <1>5, <1>1 DEF PressAlt, Emit, OneReader, ReaderHasFile, Attached, device
<1>6. CASE ReadBatch
  BY <1>6, <1>1 DEF ReadBatch, Attached, OneReader, ReaderHasFile, keyboard, device
<1>7. CASE ReaderLeaves
  BY <1>7, <1>1 DEF ReaderLeaves, Attached, Connected, OneReader, ReaderHasFile,
    keyboard, device
<1>8. CASE HandleModifier
  BY <1>8, <1>1 DEF HandleModifier, Handles, Attached, Connected, OneReader,
    ReaderHasFile, Typing, TypeOK, MainPlace, keyboard, device
<1>9. CASE HandleIgnored
  BY <1>9, <1>1 DEF HandleIgnored, Handles, OneReader, ReaderHasFile, Connected,
    Attached, Typing, TypeOK, MainPlace, keyboard, device
<1>10. CASE HandleKey
  BY <1>10, <1>1 DEF HandleKey, Handles, OneReader, ReaderHasFile, Connected,
    Attached, keyboard, device
<1>11. CASE PushKey
  BY <1>11, <1>1 DEF PushKey, OneReader, ReaderHasFile, Connected, Attached, Typing,
    TypeOK, MainPlace, keyboard, device
<1>12. CASE TakeKey
  BY <1>12, <1>1 DEF TakeKey, OneReader, ReaderHasFile, Connected, Attached, keyboard,
    device
<1>13. CASE CheckAlive
  BY <1>13, <1>1 DEF CheckAlive, IsAlive, OneReader, ReaderHasFile, Connected,
    Attached, keyboard
<1>14. CASE Closed
  BY <1>14, <1>1 DEF Closed, OneReader, ReaderHasFile, Connected, Attached, keyboard
<1>15. CASE ScanFinds
  BY <1>15, <1>1 DEF ScanFinds, OneReader, ReaderHasFile, keyboard
<1>16. CASE ScanFails
  BY <1>16, <1>1 DEF ScanFails, OneReader, ReaderHasFile, Connected, Attached, Typing,
    keyboard, device
<1>17. CASE UNCHANGED vars
  BY <1>17, <1>1 DEF vars, OneReader, ReaderHasFile, Connected, Attached, keyboard,
    device
<1>18. QED
  BY <1>1, <1>2, <1>3, <1>4, <1>5, <1>6, <1>7, <1>8, <1>9, <1>10, <1>11,
     <1>12, <1>13, <1>14, <1>15, <1>16, <1>17
  DEF Next, Keyboard, Reader, Main

\* ReaderHasFile holds throughout: there is never a reader without its file, and
\* a reader is told to stop only by a close() that waits for it.
THEOREM ReaderHolds == Spec => []ReaderHasFile
<1>1. Init => Typing /\ OneReader
  BY TypingInit, QueueAssumption DEF Init, OneReader, ReaderHasFile, Connected
<1>2. OneReader => ReaderHasFile
  BY DEF OneReader
<1>3. QED
  BY <1>1, <1>2, TypingNext, OneReaderNext, PTL DEF Spec

-----------------------------------------------------------------------------
(* The order of the keys. *)

\* A key on its way is the next one; poll() never takes more than was pushed.
InOrder ==
  /\ QueueIsNewest
  /\ reader = "push" => token.n = pushed + 1

\* An append puts the next number at the end; an overflow and a poll take from the front.
LEMMA InOrderNext ==
  Typing /\ InOrder /\ [Next]_vars => InOrder'
<1>1. SUFFICES ASSUME Typing, InOrder, [Next]_vars
              PROVE  InOrder'
  OBVIOUS
<1> USE QueueAssumption
<1>2. ASSUME NEW p \in Path, Appear(p)
      PROVE  InOrder'
  BY <1>2, <1>1 DEF Appear, InOrder, QueueIsNewest, reading, keys
<1>3. CASE Vanish
  BY <1>3, <1>1 DEF Vanish, InOrder, QueueIsNewest, reading, keys
<1>4. ASSUME NEW code \in Code, NEW down \in BOOLEAN, TypeKey(code, down)
      PROVE  InOrder'
  BY <1>4, <1>1 DEF TypeKey, Emit, InOrder, QueueIsNewest, reading, keys
<1>5. ASSUME NEW down \in BOOLEAN, PressAlt(down)
      PROVE  InOrder'
  BY <1>5, <1>1 DEF PressAlt, Emit, InOrder, QueueIsNewest, reading, keys
<1>6. CASE ReadBatch
  BY <1>6, <1>1 DEF ReadBatch, InOrder, QueueIsNewest, keys
<1>7. CASE ReaderLeaves
  BY <1>7, <1>1 DEF ReaderLeaves, InOrder, QueueIsNewest, keys
<1>8. CASE HandleModifier
  BY <1>8, <1>1 DEF HandleModifier, NextEvent, InOrder, QueueIsNewest, keys
<1>9. CASE HandleIgnored
  BY <1>9, <1>1 DEF HandleIgnored, NextEvent, InOrder, QueueIsNewest, keys
<1>10. CASE HandleKey
  BY <1>10, <1>1 DEF HandleKey, InOrder, QueueIsNewest
<1>11. CASE PushKey
  <2>1. /\ queue \in Seq(Token) /\ Len(queue) \in Nat /\ Len(queue) <= QueueMax
        /\ pushed \in Nat /\ token \in Token
        /\ reader = "push" /\ token.n = pushed + 1 /\ pushed' = pushed + 1
        /\ queue' = Appended(queue, token)
    BY <1>1, <1>11 DEF PushKey, InOrder, Typing, TypeOK
  <2>2. reader' # "push"
    BY <1>1, <1>11 DEF PushKey, NextEvent
  <2>3. CASE Len(queue) < QueueMax
    <3>1. queue' = Append(queue, token)
      BY <2>1, <2>3 DEF Appended
    <3>2. QED
      BY <1>1, <2>1, <2>2, <3>1, AppendType DEF InOrder, QueueIsNewest
  <2>4. CASE Len(queue) >= QueueMax
    <3>1. queue' = Append(Tail(queue), token) /\ queue # <<>>
      BY <2>1, <2>4 DEF Appended
    <3>2. Tail(queue) \in Seq(Token)
      BY <2>1, <3>1, TailType
    <3>3. \A i \in 1..Len(Tail(queue)) : Tail(queue)[i].n = pushed - Len(queue) + i + 1
      BY <1>1, <2>1, <3>1, TailType DEF InOrder, QueueIsNewest
    <3>4. /\ Len(queue') = Len(queue)
          /\ \A i \in 1..Len(Tail(queue)) : queue'[i] = Tail(queue)[i]
          /\ queue'[Len(queue)] = token
          /\ Len(Tail(queue)) = Len(queue) - 1
      BY <2>1, <3>1, <3>2, AppendType, TailType
    <3>5. \A i \in 1..Len(queue') : queue'[i].n = pushed' - Len(queue') + i
      <4>1. TAKE i \in 1..Len(queue')
      <4>2. CASE i = Len(queue)
        BY <2>1, <3>4, <4>2
      <4>3. CASE i # Len(queue)
        BY <2>1, <3>3, <3>4, <4>1, <4>3
      <4>4. QED
        BY <4>2, <4>3
    <3>6. QED
      BY <2>2, <3>5 DEF InOrder, QueueIsNewest
  <2>5. QED
    BY <2>1, <2>3, <2>4, QueueAssumption
<1>12. CASE TakeKey
  BY <1>12, <1>1 DEF TakeKey, InOrder, QueueIsNewest, Typing, TypeOK, keyboard,
    device, reading
<1>13. CASE CheckAlive
  BY <1>13, <1>1 DEF CheckAlive, InOrder, QueueIsNewest, reading, keys
<1>14. CASE Closed
  BY <1>14, <1>1 DEF Closed, InOrder, QueueIsNewest, keys
<1>15. CASE ScanFinds
  BY <1>15, <1>1 DEF ScanFinds, InOrder, QueueIsNewest, keys
<1>16. CASE ScanFails
  BY <1>16, <1>1 DEF ScanFails, InOrder, QueueIsNewest, Typing, keys
<1>17. CASE UNCHANGED vars
  BY <1>17, <1>1 DEF vars, InOrder, QueueIsNewest, reading, keys
<1>18. QED
  BY <1>1, <1>2, <1>3, <1>4, <1>5, <1>6, <1>7, <1>8, <1>9, <1>10, <1>11,
     <1>12, <1>13, <1>14, <1>15, <1>16, <1>17
  DEF Next, Keyboard, Reader, Main

\* QueueIsNewest holds throughout: what an overflow drops is the oldest key.
THEOREM QueueHolds == Spec => []QueueIsNewest
<1>1. Init => Typing /\ InOrder
  BY TypingInit, QueueAssumption
  DEF Init, InOrder, QueueIsNewest
<1>2. InOrder => QueueIsNewest
  BY DEF InOrder
<1>3. QED
  BY <1>1, <1>2, TypingNext, InOrderNext, PTL DEF Spec

-----------------------------------------------------------------------------
(* The count of overflows. *)

\* While a key is on its way into a queue that is still full, the key it will
\* cost has been counted already; poll() can only make room.
Tally ==
  /\ LossIsCounted
  /\ reader = "push" /\ IsFull => pushed - popped - Len(queue) < dropped

\* The overflow is counted before the append; what poll() takes in between only makes room.
LEMMA TallyNext ==
  Typing /\ Tally /\ [Next]_vars => Tally'
<1>1. SUFFICES ASSUME Typing, Tally, [Next]_vars
              PROVE  Tally'
  OBVIOUS
<1> USE QueueAssumption
<1>2. ASSUME NEW p \in Path, Appear(p)
      PROVE  Tally'
  BY <1>2, <1>1 DEF Appear, Tally, LossIsCounted, IsFull, keys
<1>3. CASE Vanish
  BY <1>3, <1>1 DEF Vanish, Tally, LossIsCounted, IsFull, keys
<1>4. ASSUME NEW code \in Code, NEW down \in BOOLEAN, TypeKey(code, down)
      PROVE  Tally'
  BY <1>4, <1>1 DEF TypeKey, Emit, Tally, LossIsCounted, IsFull, keys
<1>5. ASSUME NEW down \in BOOLEAN, PressAlt(down)
      PROVE  Tally'
  BY <1>5, <1>1 DEF PressAlt, Emit, Tally, LossIsCounted, IsFull, keys
<1>6. CASE ReadBatch
  BY <1>6, <1>1 DEF ReadBatch, Tally, LossIsCounted, keys
<1>7. CASE ReaderLeaves
  BY <1>7, <1>1 DEF ReaderLeaves, Tally, LossIsCounted, keys
<1>8. CASE HandleModifier
  BY <1>8, <1>1 DEF HandleModifier, NextEvent, Tally, LossIsCounted, keys
<1>9. CASE HandleIgnored
  BY <1>9, <1>1 DEF HandleIgnored, NextEvent, Tally, LossIsCounted, keys
<1>10. CASE HandleKey
  BY <1>10, <1>1 DEF HandleKey, IsFull, Tally, LossIsCounted, Typing, TypeOK
<1>11. CASE PushKey
  BY <1>11, <1>1 DEF PushKey, NextEvent, Appended, Tally, LossIsCounted, IsFull,
    Typing, TypeOK
<1>12. CASE TakeKey
  BY <1>12, <1>1 DEF TakeKey, Tally, LossIsCounted, IsFull, Typing, TypeOK
<1>13. CASE CheckAlive
  BY <1>13, <1>1 DEF CheckAlive, Tally, LossIsCounted, IsFull, keys
<1>14. CASE Closed
  BY <1>14, <1>1 DEF Closed, Tally, LossIsCounted, keys
<1>15. CASE ScanFinds
  BY <1>15, <1>1 DEF ScanFinds, Tally, LossIsCounted, keys
<1>16. CASE ScanFails
  BY <1>16, <1>1 DEF ScanFails, Tally, LossIsCounted, IsFull, keys
<1>17. CASE UNCHANGED vars
  BY <1>17, <1>1 DEF vars, Tally, LossIsCounted, IsFull, keys
<1>18. QED
  BY <1>1, <1>2, <1>3, <1>4, <1>5, <1>6, <1>7, <1>8, <1>9, <1>10, <1>11,
     <1>12, <1>13, <1>14, <1>15, <1>16, <1>17
  DEF Next, Keyboard, Reader, Main

\* LossIsCounted holds throughout: no key is lost that dropped() does not know.
THEOREM LossHolds == Spec => []LossIsCounted
<1>1. Init => Typing /\ Tally
  BY TypingInit, QueueAssumption
  DEF Init, Tally, LossIsCounted
<1>2. Tally => LossIsCounted
  BY DEF Tally
<1>3. QED
  BY <1>1, <1>2, TypingNext, TallyNext, PTL DEF Spec

-----------------------------------------------------------------------------
(* The modifier.  Every event tells what was held when it happened, so each *)
(* one fits the event before it; what was read fits the flag, what the      *)
(* kernel holds fits what was read, and the keyboard fits what it holds.    *)

Chained(s) ==
  /\ \A i \in 1..Len(s) : s[i].code = Alt => s[i].held = s[i].down
  /\ \A i \in 1..(Len(s) - 1) : s[i + 1].code # Alt => s[i + 1].held = s[i].held

\* What was held after all that was read, and after all that happened.
AfterBatch == IF batch # <<>> THEN batch[Len(batch)].held ELSE alt
AfterEvents == IF events # <<>> THEN events[Len(events)].held ELSE AfterBatch

AltFollows == ~stale /\ batch # <<>> /\ batch[1].code # Alt => batch[1].held = alt

TokenFollows ==
  reader = "push" =>
    /\ token.alt = alt
    /\ token.held = batch[1].held
    /\ batch[1].code # Alt

EventsFollow ==
  ~stale \/ (Attached /\ batch # <<>>) =>
    \A i \in 1..Len(events) :
      (\A j \in 1..i : events[j].code # Alt) => events[i].held = AfterBatch

HeldFollows ==
  ~stale \/ (Attached /\ (batch # <<>> \/ events # <<>>)) => held = AfterEvents

Followed ==
  /\ Chained(batch) /\ Chained(events)
  /\ events # <<>> => Attached
  /\ AltFollows /\ TokenFollows /\ EventsFollow /\ HeldFollows

\* One more event at the end of a chain.
LEMMA ChainedAppend ==
  ASSUME NEW s \in Seq(Event), Chained(s), NEW e \in Event,
         e.code = Alt => e.held = e.down,
         s # <<>> /\ e.code # Alt => e.held = s[Len(s)].held
  PROVE  Chained(Append(s, e))
<1>1. /\ Len(Append(s, e)) = Len(s) + 1
      /\ \A i \in 1..Len(s) : Append(s, e)[i] = s[i]
      /\ Append(s, e)[Len(s) + 1] = e
      /\ Len(s) \in Nat
  BY AppendType
<1>2. \A i \in 1..(Len(s) + 1) :
         Append(s, e)[i].code = Alt => Append(s, e)[i].held = Append(s, e)[i].down
  BY <1>1 DEF Chained
<1>3. \A i \in 1..Len(s) :
         Append(s, e)[i + 1].code # Alt
           => Append(s, e)[i + 1].held = Append(s, e)[i].held
  <2>1. TAKE i \in 1..Len(s)
  <2>2. CASE i = Len(s)
    BY <1>1, <2>2
  <2>3. CASE i # Len(s)
    BY <1>1, <2>1, <2>3 DEF Chained
  <2>4. QED
    BY <2>2, <2>3
<1>4. QED
  BY <1>1, <1>2, <1>3 DEF Chained

\* A chain without its first event.
LEMMA ChainedTail ==
  ASSUME NEW s \in Seq(Event), Chained(s), s # <<>>
  PROVE  /\ Chained(Tail(s))
         /\ Tail(s) # <<>> /\ Tail(s)[1].code # Alt => Tail(s)[1].held = s[1].held
         /\ Tail(s) # <<>> => Tail(s)[Len(Tail(s))] = s[Len(s)]
         /\ Tail(s) = <<>> => s[Len(s)] = s[1]
<1>1. /\ Tail(s) \in Seq(Event) /\ Len(s) \in Nat /\ Len(s) # 0
      /\ Len(Tail(s)) = Len(s) - 1
      /\ \A i \in 1..Len(Tail(s)) : Tail(s)[i] = s[i + 1]
      /\ Tail(s) = <<>> <=> Len(s) = 1
  BY TailType
<1>2. Chained(Tail(s))
  BY <1>1 DEF Chained
<1>3. Tail(s) # <<>> /\ Tail(s)[1].code # Alt => Tail(s)[1].held = s[1].held
  BY <1>1 DEF Chained
<1>4. QED
  BY <1>1, <1>2, <1>3

\* The reader is through with an event, and the flag is what the event tells
\* unless an event of the modifier was lost.
LEMMA HandledFollows ==
  ASSUME Typing, Followed, batch # <<>>,
         batch' = Tail(batch), events' = events, held' = held,
         Attached' = Attached, reader' # "push",
         ~stale' => (~stale \/ Attached) /\ alt' = batch[1].held
  PROVE  Followed'
<1>1. batch \in Seq(Event) /\ Chained(batch) /\ batch # <<>>
  BY DEF Typing, TypeOK, Followed
<1>2. /\ Chained(batch')
      /\ batch' # <<>> /\ batch'[1].code # Alt => batch'[1].held = batch[1].held
      /\ batch' # <<>> => batch'[Len(batch')] = batch[Len(batch)]
      /\ batch' = <<>> => batch[Len(batch)] = batch[1]
  BY <1>1, ChainedTail
<1>3. Chained(events') /\ (events' # <<>> => Attached')
  BY DEF Followed
<1>4. AltFollows' /\ TokenFollows'
  BY <1>2 DEF AltFollows, TokenFollows
<1>5. ~stale' \/ batch' # <<>> => AfterBatch' = AfterBatch
  BY <1>1, <1>2 DEF AfterBatch
<1>6. EventsFollow'
  <2>1. SUFFICES ASSUME ~stale' \/ (Attached /\ batch' # <<>>)
                 PROVE  \A i \in 1..Len(events) :
                          (\A j \in 1..i : events[j].code # Alt)
                            => events[i].held = AfterBatch'
    BY DEF EventsFollow
  <2>2. ~stale \/ (Attached /\ batch # <<>>)
    BY <1>1, <2>1
  <2>3. AfterBatch' = AfterBatch
    BY <1>5, <2>1
  <2>4. QED
    BY <2>2, <2>3 DEF Followed, EventsFollow
<1>7. HeldFollows'
  <2>1. SUFFICES ASSUME ~stale' \/ (Attached /\ (batch' # <<>> \/ events # <<>>))
                 PROVE  held = AfterEvents'
    BY DEF HeldFollows
  <2>2. ~stale \/ (Attached /\ batch # <<>>)
    BY <1>1, <2>1
  <2>3. held = AfterEvents
    BY <1>1, <2>2 DEF Followed, HeldFollows
  <2>4. AfterEvents' = AfterEvents
    BY <1>5, <2>1 DEF AfterEvents
  <2>5. QED
    BY <2>3, <2>4
<1>8. QED
  BY <1>2, <1>3, <1>4, <1>6, <1>7 DEF Followed

\* The keyboard does something.  The event fits what was held so far.
LEMMA EmitFollows ==
  ASSUME Typing, Followed, NEW e \in Event, Emit(e), held' = e.held,
         e.code = Alt => e.held = e.down, e.code # Alt => e.held = held
  PROVE  Followed'
<1>1. /\ batch' = batch /\ alt' = alt /\ token' = token /\ reader' = reader
      /\ Attached' = Attached /\ stale' = (stale \/ (e.code = Alt /\ fd # plug))
      /\ events' = IF Attached THEN Append(events, e) ELSE events
  BY DEF Emit, keyboard, device, reading, Attached, Connected
<1>2. events \in Seq(Event) /\ Chained(events) /\ AfterBatch' = AfterBatch
  BY <1>1 DEF Typing, TypeOK, Followed, AfterBatch
<1>3. Chained(batch') /\ AltFollows' /\ TokenFollows'
  BY <1>1 DEF Followed, AltFollows, TokenFollows
<1>4. CASE Attached
  <2>1. /\ events' = Append(events, e) /\ events' # <<>>
        /\ Len(events) \in Nat /\ Len(events') = Len(events) + 1
        /\ \A i \in 1..Len(events) : events'[i] = events[i]
        /\ events'[Len(events) + 1] = e
    BY <1>1, <1>2, <1>4, AppendType
  <2>0. stale' <=> stale
    BY <1>1, <1>4 DEF Attached
  <2>2. events # <<>> => held = events[Len(events)].held
    BY <1>4 DEF Followed, HeldFollows, AfterEvents
  <2>3. Chained(events')
    BY <1>2, <2>1, <2>2, ChainedAppend
  <2>4. HeldFollows'
    BY <2>1 DEF HeldFollows, AfterEvents
  <2>5. EventsFollow'
    <3>1. SUFFICES ASSUME ~stale \/ (Attached /\ batch # <<>>),
                          NEW i \in 1..Len(events'),
                          \A j \in 1..i : events'[j].code # Alt
                   PROVE  events'[i].held = AfterBatch
      BY <1>1, <1>2, <2>0, <2>1 DEF EventsFollow
    <3>2. CASE i \in 1..Len(events)
      BY <2>1, <3>1, <3>2 DEF Followed, EventsFollow
    <3>3. CASE i = Len(events) + 1
      <4>1. events'[i] = e /\ e.code # Alt /\ e.held = held
        BY <2>1, <3>1, <3>3
      <4>2. held = AfterEvents
        BY <3>1 DEF Followed, HeldFollows
      <4>3. CASE events = <<>>
        BY <4>1, <4>2, <4>3 DEF AfterEvents
      <4>4. CASE events # <<>>
        <5>1. Len(events) \in 1..Len(events)
          BY <1>2, <4>4
        <5>2. \A j \in 1..Len(events) : events[j].code # Alt
          BY <2>1, <3>1, <3>3
        <5>3. events[Len(events)].held = AfterBatch
          BY <3>1, <5>1, <5>2 DEF Followed, EventsFollow
        <5>4. QED
          BY <4>1, <4>2, <4>4, <5>3 DEF AfterEvents
      <4>5. QED
        BY <4>3, <4>4
    <3>4. QED
      BY <2>1, <3>2, <3>3
  <2>6. QED
    BY <1>1, <1>3, <1>4, <2>3, <2>4, <2>5 DEF Followed
<1>5. CASE ~Attached
  <2>1. events = <<>> /\ events' = <<>>
    BY <1>1, <1>5 DEF Followed
  <2>2. Chained(events') /\ EventsFollow'
    BY <1>2, <2>1 DEF EventsFollow
  <2>3. ~stale' => ~stale /\ e.code # Alt
    BY <1>1, <1>5 DEF Emit, Attached, Connected
  <2>4. HeldFollows'
    BY <1>1, <1>2, <1>5, <2>1, <2>3 DEF Followed, HeldFollows, AfterEvents
  <2>5. QED
    BY <1>1, <1>3, <1>5, <2>1, <2>2, <2>4 DEF Followed
<1>6. QED
  BY <1>4, <1>5

\* Every step hands the state of the modifier on, from the keyboard to the flag.
LEMMA FollowedNext ==
  Typing /\ OneReader /\ Followed /\ [Next]_vars => Followed'
<1>1. SUFFICES ASSUME Typing, OneReader, Followed, [Next]_vars
              PROVE  Followed'
  OBVIOUS
<1> USE QueueAssumption
<1>a. batch \in Seq(Event) /\ events \in Seq(Event)
  BY <1>1 DEF Typing, TypeOK
<1>2. ASSUME NEW p \in Path, Appear(p)
      PROVE  Followed'
  <2>1. ~Attached /\ ~Attached' /\ events = <<>>
    BY <1>1, <1>2 DEF Appear, Attached, Followed, Typing, TypeOK, device
  <2>2. QED
    BY <1>1, <1>2, <2>1
    DEF Appear, Followed, AltFollows, TokenFollows, EventsFollow, HeldFollows,
        AfterBatch, AfterEvents, reading
<1>3. CASE Vanish
  <2>1. /\ ~Attached' /\ events' = <<>> /\ held' = FALSE
        /\ batch' = batch /\ alt' = alt /\ token' = token /\ reader' = reader
    BY <1>3 DEF Vanish, Attached, Connected, reading
  <2>2. Chained(batch') /\ Chained(events')
    <3>1. Chained(batch')
      BY <1>1, <2>1 DEF Followed
    <3>2. Chained(<<>>)
      BY DEF Chained
    <3> QED  BY <2>1, <3>1, <3>2
  <2>3. ~stale' => /\ ~stale /\ ~held
                   /\ \A i \in 1..Len(events) : events[i].code # Alt
    BY <1>3 DEF Vanish
  <2>4. AltFollows' /\ TokenFollows' /\ EventsFollow'
    BY <1>1, <2>1, <2>3 DEF Followed, AltFollows, TokenFollows, EventsFollow
  <2>5. ASSUME ~stale'
        PROVE  ~AfterBatch
    <3>1. ~AfterEvents
      BY <1>1, <2>3, <2>5 DEF Followed, HeldFollows
    <3>2. CASE events = <<>>
      BY <3>1, <3>2 DEF AfterEvents
    <3>3. CASE events # <<>>
      <4>1. Len(events) \in 1..Len(events)
        BY <1>a, <3>3
      <4>2. events[Len(events)].held = AfterBatch
        BY <1>1, <2>3, <2>5, <4>1 DEF Followed, EventsFollow
      <4>3. QED
        BY <3>1, <3>3, <4>2 DEF AfterEvents
    <3>4. QED
      BY <3>2, <3>3
  <2>6. AfterEvents' = AfterBatch /\ AfterBatch \in BOOLEAN
    <3>1. AfterEvents' = AfterBatch
      BY <2>1 DEF AfterEvents, AfterBatch
    <3>2. batch # <<>> => batch[Len(batch)] \in Event
      BY <1>a
    <3>3. alt \in BOOLEAN
      BY <1>1 DEF Typing, TypeOK
    <3>4. AfterBatch \in BOOLEAN
      BY <3>2, <3>3 DEF AfterBatch, Event
    <3>5. QED
      BY <3>1, <3>4
  <2>7. HeldFollows'
    BY <2>1, <2>5, <2>6 DEF HeldFollows
  <2>8. QED
    BY <2>1, <2>2, <2>4, <2>7 DEF Followed
<1>4. ASSUME NEW code \in Code, NEW down \in BOOLEAN, TypeKey(code, down)
      PROVE  Followed'
  <2>1. held \in BOOLEAN
    BY <1>1 DEF Typing, TypeOK
  <2> DEFINE e == [code |-> code, down |-> down, held |-> held]
  <2>2. e \in Event
    BY <2>1, EventType
  <2>3. Emit(e) /\ held' = e.held /\ e.code # Alt /\ e.held = held
    BY <1>4 DEF TypeKey
  <2> HIDE DEF e
  <2>4. QED
    BY <1>1, <2>2, <2>3, EmitFollows
<1>5. ASSUME NEW down \in BOOLEAN, PressAlt(down)
      PROVE  Followed'
  <2> DEFINE e == [code |-> Alt, down |-> down, held |-> down]
  <2>1. e \in Event
    BY EventType
  <2>2. Emit(e) /\ held' = e.held /\ e.code = Alt /\ e.held = e.down
    BY <1>5 DEF PressAlt
  <2> HIDE DEF e
  <2>3. QED
    BY <1>1, <2>1, <2>2, EmitFollows
<1>6. CASE ReadBatch
  <2>1. /\ batch = <<>> /\ events # <<>> /\ batch' = events /\ events' = <<>>
        /\ Attached /\ Attached' /\ reader' # "push"
        /\ alt' = alt /\ held' = held /\ stale' = stale
    BY <1>1, <1>6
    DEF ReadBatch, Attached, Connected, Typing, keyboard, device
  <2>2. Chained(batch') /\ Chained(events')
    BY <1>1, <2>1 DEF Followed, Chained
  <2>3. 1 \in 1..Len(events) /\ Len(events) \in 1..Len(events)
    BY <1>a, <2>1
  <2>4. AltFollows'
    <3>1. ~stale /\ events[1].code # Alt => events[1].held = AfterBatch
      BY <1>1, <2>3 DEF Followed, EventsFollow
    <3>2. QED
      BY <2>1, <3>1 DEF AltFollows, AfterBatch
  <2>5. TokenFollows' /\ EventsFollow'
    BY <2>1 DEF TokenFollows, EventsFollow
  <2>6. HeldFollows'
    BY <1>1, <2>1 DEF Followed, HeldFollows, AfterEvents, AfterBatch
  <2>7. QED
    BY <2>1, <2>2, <2>4, <2>5, <2>6 DEF Followed
<1>7. CASE ReaderLeaves
  BY <1>1, <1>7
  DEF ReaderLeaves, Followed, AltFollows, TokenFollows, EventsFollow,
      HeldFollows, AfterBatch, AfterEvents, Attached, Connected, keyboard,
      device, reading
<1>b. ASSUME Handles \/ reader = "push", NextEvent
      PROVE  /\ batch # <<>> /\ batch' = Tail(batch) /\ reader' # "push"
             /\ Head(batch) = batch[1]
             /\ batch[1].code = Alt => batch[1].held = batch[1].down
  <2>1. batch # <<>>
    BY <1>1, <1>b DEF Handles, Typing
  <2>2. Head(batch) = batch[1] /\ 1 \in 1..Len(batch)
    BY <1>a, <2>1
  <2>3. QED
    BY <1>1, <1>b, <2>1, <2>2 DEF NextEvent, Followed, Chained
<1>8. CASE HandleModifier
  <2>1. /\ Handles /\ NextEvent /\ Attached' = Attached
        /\ events' = events /\ held' = held
        /\ event.code = Alt /\ alt' = event.down
        /\ ~stale' => ~stale \/ Attached
    BY <1>8
    DEF HandleModifier, Attached, Connected, keyboard, device
  <2>2. alt' = batch[1].held
    BY <1>b, <2>1 DEF event
  <2>3. QED
    BY <1>1, <1>b, <2>1, <2>2, HandledFollows
<1>9. CASE HandleIgnored
  <2>1. /\ Handles /\ NextEvent /\ Attached' = Attached
        /\ events' = events /\ held' = held
        /\ event.code # Alt /\ alt' = alt /\ stale' = stale
    BY <1>9
    DEF HandleIgnored, Attached, Connected, keyboard, device
  <2>2. ~stale => alt' = batch[1].held
    BY <1>1, <1>b, <2>1 DEF event, Followed, AltFollows
  <2>3. QED
    BY <1>1, <1>b, <2>1, <2>2, HandledFollows
<1>10. CASE HandleKey
  <2>1. batch # <<>>
    BY <1>1, <1>10 DEF HandleKey, Handles, Typing
  <2>2. event = batch[1]
    BY <1>a, <2>1 DEF event
  <2>3. TokenFollows' /\ AltFollows'
    <3>1. /\ token' = [n |-> pushed + 1, alt |-> alt, held |-> batch[1].held]
          /\ batch[1].code # Alt /\ batch' = batch /\ alt' = alt
          /\ stale' = stale
      BY <1>10, <2>2 DEF HandleKey
    <3>2. QED
      BY <1>1, <3>1 DEF TokenFollows, AltFollows, Followed
  <2>4. QED
    BY <1>1, <1>10, <2>3
    DEF HandleKey, Followed, EventsFollow, HeldFollows, AfterBatch,
        AfterEvents, Attached, Connected, keyboard, device
<1>11. CASE PushKey
  <2>1. /\ reader = "push" /\ NextEvent /\ Attached' = Attached
        /\ events' = events /\ held' = held /\ alt' = alt /\ stale' = stale
    BY <1>11
    DEF PushKey, Attached, Connected, keyboard, device
  <2>2. ~stale => alt' = batch[1].held
    BY <1>1, <1>b, <2>1 DEF Followed, AltFollows, TokenFollows
  <2>3. QED
    BY <1>1, <1>b, <2>1, <2>2, HandledFollows
<1>12. CASE TakeKey
  BY <1>1, <1>12
  DEF TakeKey, Followed, AltFollows, TokenFollows, EventsFollow, HeldFollows,
      AfterBatch, AfterEvents, Attached, Connected, keyboard, device, reading
<1>13. CASE CheckAlive
  BY <1>1, <1>13
  DEF CheckAlive, Followed, AltFollows, TokenFollows, EventsFollow,
      HeldFollows, AfterBatch, AfterEvents, Attached, Connected, keyboard,
      reading
<1>14. CASE Closed
  <2>1. /\ ~Attached /\ events = <<>> /\ batch = <<>>
        /\ ~Attached' /\ reader' = "none" /\ events' = <<>> /\ batch' = <<>>
        /\ held' = held /\ alt' = alt /\ stale' = stale
    BY <1>1, <1>14
    DEF Closed, OneReader, Followed, Typing, Attached, Connected, keyboard,
        reading
  <2>2. QED
    BY <1>1, <2>1
    DEF Followed, AltFollows, TokenFollows, EventsFollow, HeldFollows,
        AfterBatch, AfterEvents
<1>15. CASE ScanFinds
  <2>1. /\ ~Attached /\ events = <<>> /\ batch = <<>>
        /\ reader' # "push" /\ events' = <<>> /\ batch' = <<>>
        /\ held' = held /\ alt' = alt /\ stale' = stale
    BY <1>1, <1>15 DEF ScanFinds, OneReader, Followed, Typing, Attached, keyboard,
      reading
  <2>2. QED
    BY <1>1, <2>1
    DEF Followed, AltFollows, TokenFollows, EventsFollow, HeldFollows,
        AfterBatch, AfterEvents
<1>16. CASE ScanFails
  BY <1>1, <1>16
  DEF ScanFails, Followed, AltFollows, TokenFollows, EventsFollow,
      HeldFollows, AfterBatch, AfterEvents, Attached, Connected, keyboard,
      device, reading
<1>17. CASE UNCHANGED vars
  BY <1>1, <1>17
  DEF vars, Followed, AltFollows, TokenFollows, EventsFollow, HeldFollows,
      AfterBatch, AfterEvents, Attached, Connected, keyboard, device, reading
<1>18. QED
  BY <1>1, <1>2, <1>3, <1>4, <1>5, <1>6, <1>7, <1>8, <1>9, <1>10, <1>11, <1>12,
     <1>13, <1>14, <1>15, <1>16, <1>17
  DEF Next, Keyboard, Reader, Main

\* ModifierIsRight holds throughout: a key is never decoded with a wrong
\* modifier unless a connection took an event of the modifier with it.
THEOREM ModifierHolds == Spec => []ModifierIsRight
<1>1. Init => Typing /\ OneReader
  BY TypingInit, QueueAssumption DEF Init, OneReader, ReaderHasFile, Connected
<1>2. Init => Followed
  <2>1. SUFFICES ASSUME Init
                 PROVE  Followed
    OBVIOUS
  <2>2. Len(<<>>) = 0
    OBVIOUS
  <2>3. Chained(batch) /\ Chained(events)
    BY <2>1, <2>2 DEF Init, Chained
  <2>4. AltFollows /\ TokenFollows
    BY <2>1 DEF Init, AltFollows, TokenFollows
  <2>5. EventsFollow
    BY <2>1, <2>2 DEF Init, EventsFollow
  <2>6. HeldFollows
    BY <2>1 DEF Init, HeldFollows, AfterEvents, AfterBatch
  <2>7. QED
    BY <2>1, <2>3, <2>4, <2>5, <2>6 DEF Init, Followed
<1>3. Typing /\ Followed => ModifierIsRight
  <2>1. SUFFICES ASSUME Typing, Followed, token # NoToken, ~stale
                 PROVE  token.alt = token.held
    BY DEF ModifierIsRight
  <2>2. reader = "push" /\ batch # <<>>
    BY <2>1 DEF Typing
  <2>3. QED
    BY <2>1, <2>2 DEF Followed, TokenFollows, AltFollows
<1>4. QED
  BY <1>1, <1>2, <1>3, TypingNext, OneReaderNext, FollowedNext, PTL DEF Spec
=============================================================================
