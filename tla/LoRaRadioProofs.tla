--------------------------- MODULE LoRaRadioProofs ---------------------------
(***************************************************************************)
(* Proofs about LoRaRadio, for any number of packets.                      *)
(***************************************************************************)
EXTENDS LoRaRadio, TLAPS

\* Every step keeps the types.
LEMMA TypeStep == TypeOK /\ [Next]_vars => TypeOK'
  <1> SUFFICES ASSUME TypeOK, [Next]_vars PROVE TypeOK'
    OBVIOUS
  <1> USE PacketsAssumption DEF history
  <1>1. ASSUME NEW crc \in BOOLEAN, Arrive(crc) PROVE TypeOK'
    <2>1. newest' \in 0..MaxPackets /\ at' \in 0..newest'
      BY <1>1 DEF Arrive, TypeOK
    <2>2. got' \in Result /\ got'.n <= newest'
      BY <1>1 DEF Arrive, TypeOK, Result
    <2>3. /\ bad' \in BOOLEAN /\ own' \in BOOLEAN
          /\ raced' \in BOOLEAN /\ unheard' \in BOOLEAN
      BY <1>1 DEF Arrive, TypeOK
    <2>4. driver' \in Driver /\ mode' \in {"standby", "rx", "tx"}
      BY <1>1 DEF Arrive, TypeOK
    <2>5. flags' \subseteq Flag /\ irq' \subseteq Flag
      BY <1>1 DEF Arrive, TypeOK, Flag
    <2> QED
      BY <2>1, <2>2, <2>3, <2>4, <2>5 DEF TypeOK
  <1>2. ASSUME NEW flag \in {"tx_done", "timeout"}, TxEnds(flag) PROVE TypeOK'
    BY <1>2 DEF TxEnds, TypeOK, buffer, Flag
  <1>3. ASSUME InitOk PROVE TypeOK'
    BY <1>3 DEF InitOk, TypeOK, buffer, Driver
  <1>4. ASSUME InitFails PROVE TypeOK'
    BY <1>4 DEF InitFails, TypeOK, buffer
  <1>5. ASSUME BeginSend PROVE TypeOK'
    BY <1>5 DEF BeginSend, Goes, TypeOK, chip, buffer, Sending, Driver
  <1>6. ASSUME TxRaises PROVE TypeOK'
    BY <1>6 DEF TxRaises, TypeOK, chip, buffer, Driver
  <1>7. ASSUME Raises PROVE TypeOK'
    BY <1>7 DEF Raises, TypeOK, chip, buffer, Driver
  <1>8. ASSUME LeavesLoop PROVE TypeOK'
    BY <1>8 DEF LeavesLoop, Goes, TypeOK, chip, buffer, Driver
  <1>9. ASSUME Killed PROVE TypeOK'
    BY <1>9 DEF Killed, TypeOK, chip, buffer, Driver
  <1>10. ASSUME SeesIrq PROVE TypeOK'
    BY <1>10 DEF SeesIrq, Goes, TypeOK, chip, buffer, Receiving, Driver
  <1>11. ASSUME GetIrq PROVE TypeOK'
    BY <1>11 DEF GetIrq, Goes, TypeOK, chip, buffer, Receiving, Driver
  <1>12. ASSUME ClearIrq PROVE TypeOK'
    BY <1>12 DEF ClearIrq, Goes, TypeOK, buffer, Receiving, Driver
  <1>13. ASSUME GetRxBufStatus PROVE TypeOK'
    BY <1>13 DEF GetRxBufStatus, Goes, TypeOK, chip, buffer, Receiving, Driver
  <1>14. ASSUME ReadBuffer PROVE TypeOK'
    BY <1>14 DEF ReadBuffer, Goes, TypeOK, chip, buffer, Driver, Result
  <1>15. ASSUME SetStandby PROVE TypeOK'
    BY <1>15 DEF SetStandby, Goes, TypeOK, buffer, Sending, Driver
  <1>16. ASSUME ClearForTx PROVE TypeOK'
    BY <1>16 DEF ClearForTx, Goes, TypeOK, buffer, Sending, Driver
  <1>17. ASSUME WriteBuffer PROVE TypeOK'
    BY <1>17 DEF WriteBuffer, Goes, TypeOK, chip, Sending, Driver
  <1>18. ASSUME SetTx PROVE TypeOK'
    BY <1>18 DEF SetTx, Goes, TypeOK, buffer, Sending, Driver
  <1>19. ASSUME TxDone PROVE TypeOK'
    BY <1>19 DEF TxDone, Goes, TypeOK, buffer, Driver
  <1>20. ASSUME TxTimesOut PROVE TypeOK'
    BY <1>20 DEF TxTimesOut, Goes, TypeOK, buffer, Driver
  <1>21. ASSUME SetRx PROVE TypeOK'
    BY <1>21 DEF SetRx, Goes, TypeOK, buffer, Driver
  <1>22. ASSUME Cleanup PROVE TypeOK'
    BY <1>22 DEF Cleanup, Goes, TypeOK, buffer, Driver
  <1>23. ASSUME RetryRaises PROVE TypeOK'
    BY <1>23 DEF RetryRaises, Goes, TypeOK, chip, buffer, Driver
  <1>24. CASE UNCHANGED vars
    BY <1>24 DEF vars, TypeOK, chip, buffer
  <1> QED
    BY <1>1, <1>2, <1>3, <1>4, <1>5, <1>6, <1>7, <1>8, <1>9, <1>10, <1>11, <1>12,
      <1>13, <1>14, <1>15, <1>16, <1>17, <1>18, <1>19, <1>20, <1>21, <1>22, <1>23,
      <1>24
    DEF Next, Chip, Proceed

\* The initial values have their types.
LEMMA InitTypes == Init => TypeOK
  <1> SUFFICES ASSUME Init PROVE TypeOK
    OBVIOUS
  <1>1. at \in 0..newest /\ newest \in 0..MaxPackets
    BY PacketsAssumption DEF Init
  <1>2. got \in Result /\ got.n <= newest
    BY DEF Init, Nothing, Result
  <1>3. bad \in BOOLEAN /\ own \in BOOLEAN /\ raced \in BOOLEAN /\ unheard \in BOOLEAN
    BY DEF Init
  <1>4. driver \in Driver /\ mode \in {"standby", "rx", "tx"}
    BY DEF Init, Driver
  <1>5. flags \subseteq Flag /\ irq \subseteq Flag
    BY DEF Init
  <1> QED
    BY <1>1, <1>2, <1>3, <1>4, <1>5 DEF TypeOK

\* Every variable keeps its type, whatever the chip does between two commands.
THEOREM TypesHold == Spec => []TypeOK
  BY InitTypes, TypeStep, PTL DEF Spec

-----------------------------------------------------------------------------
(* Where the driver stands in a receive() that will read the buffer. *)

Announced == driver = "clear_irq" /\ IsPacket
Reading == driver \in {"buf_status", "read_buf"}

\* Own bytes are written only when the chip stands by with no packet pending, so
\* no receive() that follows takes them for one.
OwnUnread ==
  /\ driver \in {"clear_tx", "write_buf", "set_tx"} => mode = "standby"
  /\ driver \in {"write_buf", "set_tx"} => "rx_done" \notin irq
  /\ own => "rx_done" \notin irq /\ ~Announced /\ ~Reading
  /\ ~got.own

\* A CRC error escapes receive() only when it came in after the flags were read.
ErrorsSeen ==
  /\ "rx_done" \in irq /\ bad => "crc_err" \in irq
  /\ (Announced \/ Reading) /\ bad => raced
  /\ driver = "read_buf" /\ at # newest => raced
  /\ got.whole \/ got.raced

\* No step lets a receive() come upon the pager's own bytes.
LEMMA OwnStep == TypeOK /\ OwnUnread /\ [Next]_vars => OwnUnread'
  <1> SUFFICES ASSUME TypeOK, OwnUnread, [Next]_vars PROVE OwnUnread'
    OBVIOUS
  <1> USE PacketsAssumption DEF history
  <1>1. ASSUME NEW crc \in BOOLEAN, Arrive(crc) PROVE OwnUnread'
    BY <1>1 DEF Arrive, OwnUnread
  <1>2. ASSUME NEW flag \in {"tx_done", "timeout"}, TxEnds(flag) PROVE OwnUnread'
    BY <1>2 DEF TxEnds, OwnUnread, Announced, Reading, IsPacket, buffer
  <1>3. ASSUME InitOk PROVE OwnUnread'
    BY <1>3 DEF InitOk, OwnUnread, Announced, Reading
  <1>4. ASSUME InitFails PROVE OwnUnread'
    BY <1>4 DEF InitFails, OwnUnread, Announced, Reading
  <1>5. ASSUME BeginSend PROVE OwnUnread'
    BY <1>5 DEF BeginSend, Goes, OwnUnread, Announced, Reading, chip, buffer
  <1>6. ASSUME TxRaises PROVE OwnUnread'
    BY <1>6 DEF TxRaises, OwnUnread, Announced, Reading, chip, buffer
  <1>7. ASSUME Raises PROVE OwnUnread'
    BY <1>7 DEF Raises, OwnUnread, Announced, Reading, chip, buffer
  <1>8. ASSUME LeavesLoop PROVE OwnUnread'
    BY <1>8 DEF LeavesLoop, Goes, OwnUnread, Announced, Reading, chip, buffer
  <1>9. ASSUME Killed PROVE OwnUnread'
    BY <1>9 DEF Killed, OwnUnread, Announced, Reading, chip, buffer
  <1>10. ASSUME SeesIrq PROVE OwnUnread'
    BY <1>10 DEF SeesIrq, Goes, OwnUnread, Announced, Reading, chip, buffer
  <1>11. ASSUME GetIrq PROVE OwnUnread'
    BY <1>11 DEF GetIrq, Goes, OwnUnread, Announced, Reading, IsPacket, chip,
      buffer
  <1>12. ASSUME ClearIrq PROVE OwnUnread'
    BY <1>12 DEF ClearIrq, Goes, OwnUnread, Announced, Reading, buffer
  <1>13. ASSUME GetRxBufStatus PROVE OwnUnread'
    BY <1>13 DEF GetRxBufStatus, Goes, OwnUnread, Reading, buffer
  <1>14. ASSUME ReadBuffer PROVE OwnUnread'
    BY <1>14 DEF ReadBuffer, Goes, OwnUnread, Reading, TypeOK, buffer
  <1>15. ASSUME SetStandby PROVE OwnUnread'
    BY <1>15 DEF SetStandby, Goes, OwnUnread, Announced, Reading, buffer
  <1>16. ASSUME ClearForTx PROVE OwnUnread'
    BY <1>16 DEF ClearForTx, Goes, OwnUnread, Announced, Reading
  <1>17. ASSUME WriteBuffer PROVE OwnUnread'
    BY <1>17 DEF WriteBuffer, Goes, OwnUnread, Announced, Reading, chip
  <1>18. ASSUME SetTx PROVE OwnUnread'
    BY <1>18 DEF SetTx, Goes, OwnUnread, Announced, Reading
  <1>19. ASSUME TxDone PROVE OwnUnread'
    BY <1>19 DEF TxDone, Goes, OwnUnread, Announced, Reading
  <1>20. ASSUME TxTimesOut PROVE OwnUnread'
    BY <1>20 DEF TxTimesOut, Goes, OwnUnread, Announced, Reading
  <1>21. ASSUME SetRx PROVE OwnUnread'
    BY <1>21 DEF SetRx, Goes, OwnUnread, Announced, Reading, buffer
  <1>22. ASSUME Cleanup PROVE OwnUnread'
    BY <1>22 DEF Cleanup, Goes, OwnUnread, Announced, Reading, buffer
  <1>23. ASSUME RetryRaises PROVE OwnUnread'
    BY <1>23 DEF RetryRaises, Goes, OwnUnread, Announced, Reading, chip, buffer
  <1>24. CASE UNCHANGED vars
    BY <1>24 DEF vars, OwnUnread, Announced, Reading, IsPacket, chip, buffer
  <1> QED
    BY <1>1, <1>2, <1>3, <1>4, <1>5, <1>6, <1>7, <1>8, <1>9, <1>10, <1>11, <1>12,
      <1>13, <1>14, <1>15, <1>16, <1>17, <1>18, <1>19, <1>20, <1>21, <1>22, <1>23,
      <1>24
    DEF Next, Chip, Proceed

\* No step lets a CRC error slip through unless a packet came in between.
LEMMA ErrorsStep == TypeOK /\ ErrorsSeen /\ [Next]_vars => ErrorsSeen'
  <1> SUFFICES ASSUME TypeOK, ErrorsSeen, [Next]_vars PROVE ErrorsSeen'
    OBVIOUS
  <1> USE PacketsAssumption DEF history
  <1>1. ASSUME NEW crc \in BOOLEAN, Arrive(crc) PROVE ErrorsSeen'
    BY <1>1 DEF Arrive, ErrorsSeen
  <1>2. ASSUME NEW flag \in {"tx_done", "timeout"}, TxEnds(flag) PROVE ErrorsSeen'
    BY <1>2 DEF TxEnds, ErrorsSeen, Announced, Reading, IsPacket, buffer
  <1>3. ASSUME InitOk PROVE ErrorsSeen'
    BY <1>3 DEF InitOk, ErrorsSeen, Announced, Reading
  <1>4. ASSUME InitFails PROVE ErrorsSeen'
    BY <1>4 DEF InitFails, ErrorsSeen, Announced, Reading
  <1>5. ASSUME BeginSend PROVE ErrorsSeen'
    BY <1>5 DEF BeginSend, Goes, ErrorsSeen, Announced, Reading, chip, buffer
  <1>6. ASSUME TxRaises PROVE ErrorsSeen'
    BY <1>6 DEF TxRaises, ErrorsSeen, Announced, Reading, chip, buffer
  <1>7. ASSUME Raises PROVE ErrorsSeen'
    BY <1>7 DEF Raises, ErrorsSeen, Announced, Reading, chip, buffer
  <1>8. ASSUME LeavesLoop PROVE ErrorsSeen'
    BY <1>8 DEF LeavesLoop, Goes, ErrorsSeen, Announced, Reading, chip, buffer
  <1>9. ASSUME Killed PROVE ErrorsSeen'
    BY <1>9 DEF Killed, ErrorsSeen, Announced, Reading, chip, buffer
  <1>10. ASSUME SeesIrq PROVE ErrorsSeen'
    BY <1>10 DEF SeesIrq, Goes, ErrorsSeen, Announced, Reading, chip, buffer
  <1>11. ASSUME GetIrq PROVE ErrorsSeen'
    BY <1>11 DEF GetIrq, Goes, ErrorsSeen, Announced, Reading, IsPacket, chip,
      buffer
  <1>12. ASSUME ClearIrq PROVE ErrorsSeen'
    BY <1>12 DEF ClearIrq, Goes, ErrorsSeen, Announced, Reading, buffer
  <1>13. ASSUME GetRxBufStatus PROVE ErrorsSeen'
    BY <1>13 DEF GetRxBufStatus, Goes, ErrorsSeen, Reading, chip, buffer
  <1>14. ASSUME ReadBuffer PROVE ErrorsSeen'
    BY <1>14 DEF ReadBuffer, Goes, ErrorsSeen, Reading, chip, buffer
  <1>15. ASSUME SetStandby PROVE ErrorsSeen'
    BY <1>15 DEF SetStandby, Goes, ErrorsSeen, Announced, Reading, buffer
  <1>16. ASSUME ClearForTx PROVE ErrorsSeen'
    BY <1>16 DEF ClearForTx, Goes, ErrorsSeen, Announced, Reading
  <1>17. ASSUME WriteBuffer PROVE ErrorsSeen'
    BY <1>17 DEF WriteBuffer, Goes, ErrorsSeen, Announced, Reading, chip
  <1>18. ASSUME SetTx PROVE ErrorsSeen'
    BY <1>18 DEF SetTx, Goes, ErrorsSeen, Announced, Reading, buffer
  <1>19. ASSUME TxDone PROVE ErrorsSeen'
    BY <1>19 DEF TxDone, Goes, ErrorsSeen, Announced, Reading
  <1>20. ASSUME TxTimesOut PROVE ErrorsSeen'
    BY <1>20 DEF TxTimesOut, Goes, ErrorsSeen, Announced, Reading
  <1>21. ASSUME SetRx PROVE ErrorsSeen'
    BY <1>21 DEF SetRx, Goes, ErrorsSeen, Announced, Reading, buffer
  <1>22. ASSUME Cleanup PROVE ErrorsSeen'
    BY <1>22 DEF Cleanup, Goes, ErrorsSeen, Announced, Reading, buffer
  <1>23. ASSUME RetryRaises PROVE ErrorsSeen'
    BY <1>23 DEF RetryRaises, Goes, ErrorsSeen, Announced, Reading, chip, buffer
  <1>24. CASE UNCHANGED vars
    BY <1>24 DEF vars, ErrorsSeen, Announced, Reading, IsPacket, chip, buffer
  <1> QED
    BY <1>1, <1>2, <1>3, <1>4, <1>5, <1>6, <1>7, <1>8, <1>9, <1>10, <1>11, <1>12,
      <1>13, <1>14, <1>15, <1>16, <1>17, <1>18, <1>19, <1>20, <1>21, <1>22, <1>23,
      <1>24
    DEF Next, Chip, Proceed

\* What receive() parses is no transmission of the pager itself, and undamaged
\* unless another packet came in while it was read.
THEOREM ReadsHold == Spec => []ReadsAreTrue
  <1>1. Init => OwnUnread /\ ErrorsSeen
    BY DEF Init, Nothing, OwnUnread, ErrorsSeen, Announced, Reading
  <1>2. OwnUnread /\ ErrorsSeen => ReadsAreTrue
    BY DEF OwnUnread, ErrorsSeen, ReadsAreTrue
  <1> QED
    BY <1>1, <1>2, InitTypes, TypeStep, OwnStep, ErrorsStep, PTL DEF Spec

-----------------------------------------------------------------------------
(* Back to reception. *)

\* In the middle of a receive() the chip listens too.
Listening == driver \in Receiving \cup {"idle"} => mode = "rx" \/ unheard

\* No step leaves reception but a transmission, and it comes back or says why not.
LEMMA ListeningStep == Listening /\ [Next]_vars => Listening'
  <1> SUFFICES ASSUME Listening, [Next]_vars PROVE Listening'
    OBVIOUS
  <1> USE DEF history, Listening, Receiving
  <1>1. CASE \E crc \in BOOLEAN : Arrive(crc)
    BY <1>1 DEF Arrive
  <1>2. CASE \E flag \in {"tx_done", "timeout"} : TxEnds(flag)
    BY <1>2 DEF TxEnds
  <1>3. CASE InitOk \/ InitFails
    BY <1>3 DEF InitOk, InitFails
  <1>4. CASE SeesIrq \/ GetIrq \/ ClearIrq \/ GetRxBufStatus \/ ReadBuffer
    BY <1>4 DEF SeesIrq, GetIrq, ClearIrq, GetRxBufStatus, ReadBuffer, Goes, chip
  <1>5. CASE BeginSend \/ SetStandby \/ ClearForTx \/ WriteBuffer \/ SetTx
    BY <1>5 DEF BeginSend, SetStandby, ClearForTx, WriteBuffer, SetTx, Goes, chip
  <1>6. CASE TxDone \/ TxTimesOut \/ TxRaises \/ SetRx \/ RetryRaises
    BY <1>6 DEF TxDone, TxTimesOut, TxRaises, SetRx, RetryRaises, Goes, chip
  <1>7. CASE Raises \/ LeavesLoop \/ Cleanup \/ Killed
    BY <1>7 DEF Raises, LeavesLoop, Cleanup, Killed, Goes, chip
  <1>8. CASE UNCHANGED vars
    BY <1>8 DEF vars, chip
  <1> QED
    BY <1>1, <1>2, <1>3, <1>4, <1>5, <1>6, <1>7, <1>8 DEF Next, Chip, Proceed

\* Between two calls the chip listens, or a retry raised on its way back to that.
THEOREM ListensHold == Spec => []ListensOrRetryFailed
  <1>1. Init => Listening
    BY DEF Init, Listening, Receiving
  <1>2. Listening => ListensOrRetryFailed
    BY DEF Listening, ListensOrRetryFailed
  <1> QED
    BY <1>1, <1>2, ListeningStep, PTL DEF Spec

-----------------------------------------------------------------------------
(* The driver as a buffer with room for one packet. *)

\* What is announced did arrive, and a packet found for the second time has lost
\* its flag.
BufferInv ==
  /\ "rx_done" \in irq => newest > 0
  /\ Announced \/ driver = "buf_status" => newest > 0
  /\ driver = "buf_status" /\ at = newest => "rx_done" \notin irq

\* No step leaves up the flag of a packet that was found twice.
LEMMA BufferStep == TypeOK /\ BufferInv /\ [Next]_vars => BufferInv'
  <1> SUFFICES ASSUME TypeOK, BufferInv, [Next]_vars PROVE BufferInv'
    OBVIOUS
  <1> USE DEF history
  <1>1. newest \in Nat /\ at \in Nat /\ at <= newest
    BY PacketsAssumption DEF TypeOK
  <1>2. ASSUME NEW crc \in BOOLEAN, Arrive(crc) PROVE BufferInv'
    BY <1>1, <1>2 DEF Arrive, BufferInv
  <1>3. CASE \E flag \in {"tx_done", "timeout"} : TxEnds(flag)
    BY <1>3 DEF TxEnds, BufferInv, Announced, IsPacket, buffer
  <1>4. CASE InitOk \/ InitFails
    BY <1>4 DEF InitOk, InitFails, BufferInv, Announced
  <1>5. CASE BeginSend \/ LeavesLoop \/ TxRaises \/ RetryRaises \/ Raises \/ Killed
    BY <1>5 DEF BeginSend, LeavesLoop, TxRaises, RetryRaises, Raises, Killed, Goes,
      BufferInv, Announced, chip, buffer
  <1>6. CASE SeesIrq \/ GetIrq
    BY <1>6 DEF SeesIrq, GetIrq, Goes, BufferInv, Announced, IsPacket, chip, buffer
  <1>7. CASE ClearIrq
    BY <1>7 DEF ClearIrq, Goes, BufferInv, Announced, buffer
  <1>8. CASE GetRxBufStatus \/ ReadBuffer
    BY <1>8 DEF GetRxBufStatus, ReadBuffer, Goes, BufferInv, Announced, chip, buffer
  <1>9. CASE SetStandby \/ ClearForTx \/ WriteBuffer \/ SetTx
    BY <1>9 DEF SetStandby, ClearForTx, WriteBuffer, SetTx, Goes, BufferInv,
      Announced, chip, buffer
  <1>10. CASE TxDone \/ TxTimesOut \/ SetRx \/ Cleanup
    BY <1>10 DEF TxDone, TxTimesOut, SetRx, Cleanup, Goes, BufferInv, Announced, buffer
  <1>11. CASE UNCHANGED vars
    BY <1>11 DEF vars, chip, buffer, BufferInv, Announced, IsPacket
  <1> QED
    BY <1>2, <1>3, <1>4, <1>5, <1>6, <1>7, <1>8, <1>9, <1>10, <1>11
    DEF Next, Chip, Proceed

\* A step that touches neither the packet nor what was found of it, and does not
\* make one pending, at most loses it or gives it up.
LEMMA LosingStep ==
  ASSUME UNCHANGED <<newest, at, got>>, Pending' \in {0, Pending},
         driver' # "read_buf", driver = "read_buf" => Pending' = Pending
  PROVE  [Promise!Next]_(Promise!receiver)
  <1>1. CASE driver = "read_buf"
    BY <1>1 DEF Promise!Next, Promise!Abandon
  <1>2. CASE driver # "read_buf" /\ Pending' = Pending
    BY <1>2 DEF Promise!receiver
  <1>3. CASE driver # "read_buf" /\ Pending' = 0
    BY <1>3 DEF Promise!Next, Promise!Lose
  <1> QED
    BY <1>1, <1>2, <1>3

\* Every command is a step of the buffer, or none.
LEMMA PromiseNext ==
  ASSUME TypeOK, BufferInv, [Next]_vars
  PROVE  [Promise!Next]_(Promise!receiver)
  <1> USE DEF history
  <1>1. newest \in Nat /\ at \in Nat /\ at <= newest
    BY PacketsAssumption DEF TypeOK
  <1>2. ASSUME NEW crc \in BOOLEAN, Arrive(crc)
        PROVE  [Promise!Next]_(Promise!receiver)
    <2>1. newest' \in 1..MaxPackets /\ newest' > newest
      BY <1>1, <1>2, PacketsAssumption DEF Arrive
    <2>2. Pending' \in {0, newest'} /\ UNCHANGED <<at, driver, got>>
      BY <1>2 DEF Arrive, Pending
    <2> QED
      BY <2>1, <2>2 DEF Promise!Next, Promise!Arrive
  <1>3. CASE \E flag \in {"tx_done", "timeout"} : TxEnds(flag)
    <2>1. Pending' = Pending /\ UNCHANGED <<newest, at, driver, got>>
      BY <1>3 DEF TxEnds, Pending, IsPacket, buffer
    <2> QED
      BY <2>1 DEF Promise!receiver
  <1>4. CASE InitOk \/ InitFails
    <2>1. /\ Pending' = 0 /\ UNCHANGED <<newest, at, got>>
          /\ driver # "read_buf" /\ driver' # "read_buf"
      BY <1>4 DEF InitOk, InitFails, Pending, buffer
    <2> QED
      BY <2>1, LosingStep
  <1>5. CASE BeginSend \/ LeavesLoop \/ TxRaises \/ RetryRaises \/ Raises \/ Killed
    <2>1. /\ UNCHANGED <<newest, at, got, irq>>
          /\ driver' \notin {"read_buf", "clear_irq", "buf_status"}
      BY <1>5 DEF BeginSend, LeavesLoop, TxRaises, RetryRaises, Raises, Killed, Goes, chip,
        buffer
    <2>2. Pending' \in {0, Pending} /\ (driver = "read_buf" => Pending' = Pending)
      BY <2>1 DEF Pending
    <2> QED
      BY <2>1, <2>2, LosingStep
  <1>6. CASE SeesIrq \/ GetIrq
    <2>1. /\ UNCHANGED <<newest, at, got>> /\ Pending' = Pending
          /\ driver # "read_buf" /\ driver' # "read_buf"
      BY <1>6 DEF SeesIrq, GetIrq, Goes, Pending, IsPacket, chip, buffer
    <2> QED
      BY <2>1, LosingStep
  <1>7. CASE ClearIrq
    <2>1. /\ UNCHANGED <<newest, at, got>> /\ Pending' \in {0, Pending}
          /\ driver # "read_buf" /\ driver' # "read_buf"
      BY <1>7 DEF ClearIrq, Goes, Pending, buffer
    <2> QED
      BY <2>1, LosingStep
  <1>8. CASE GetRxBufStatus
    <2>1. /\ driver = "buf_status" /\ driver' = "read_buf" /\ at' = newest
          /\ UNCHANGED <<irq, newest, got>>
      BY <1>8 DEF GetRxBufStatus, Goes, chip, buffer
    <2>2. Pending = newest /\ newest # 0
      BY <1>1, <2>1 DEF BufferInv, Pending
    <2>3. Pending' = 0 \/ (Pending' = Pending /\ at # Pending)
      BY <2>1, <2>2 DEF BufferInv, Pending
    <2> QED
      BY <2>1, <2>2, <2>3 DEF Promise!Next, Promise!Fetch
  <1>9. CASE ReadBuffer
    <2>1. /\ driver = "read_buf" /\ driver' = "idle" /\ got'.n = at
          /\ UNCHANGED <<irq, newest, at>>
      BY <1>9 DEF ReadBuffer, Goes, chip, buffer
    <2>2. Pending' = Pending
      BY <2>1 DEF Pending
    <2> QED
      BY <2>1, <2>2 DEF Promise!Next, Promise!Return
  <1>10. CASE SetStandby \/ WriteBuffer \/ SetTx \/ SetRx \/ Cleanup
    <2>1. /\ UNCHANGED <<newest, at, got, irq>>
          /\ driver \notin {"read_buf", "clear_irq", "buf_status"}
          /\ driver' \notin {"read_buf", "clear_irq", "buf_status"}
      BY <1>10 DEF SetStandby, WriteBuffer, SetTx, SetRx, Cleanup, Goes, chip, buffer
    <2>2. Pending' = Pending
      BY <2>1 DEF Pending
    <2> QED
      BY <2>1, <2>2, LosingStep
  <1>11. CASE ClearForTx \/ TxDone \/ TxTimesOut
    <2>1. /\ Pending' = 0 /\ UNCHANGED <<newest, at, got>>
          /\ driver # "read_buf" /\ driver' # "read_buf"
      BY <1>11 DEF ClearForTx, TxDone, TxTimesOut, Goes, Pending, buffer
    <2> QED
      BY <2>1, LosingStep
  <1>12. CASE UNCHANGED vars
    BY <1>12 DEF vars, chip, buffer, Pending, IsPacket, Promise!receiver
  <1> QED
    BY <1>2, <1>3, <1>4, <1>5, <1>6, <1>7, <1>8, <1>9, <1>10, <1>11, <1>12
    DEF Next, Chip, Proceed

\* The driver implements ReceiveBuffer: however packets, commands and exceptions
\* interleave, nothing is returned that did not arrive, no packet after a newer
\* one, and none more than twice.
THEOREM BufferHolds == Spec => ActsAsBuffer
  <1>1. Init => Promise!Init
    BY DEF Init, Nothing, Pending, Promise!Init
  <1>2. Init => BufferInv
    BY DEF Init, BufferInv, Announced
  <1>3. Spec => [](TypeOK /\ BufferInv)
    BY <1>2, InitTypes, TypeStep, BufferStep, PTL DEF Spec
  <1> QED
    BY <1>1, <1>3, PromiseNext, PTL DEF Spec, ActsAsBuffer, Promise!Spec
=============================================================================
