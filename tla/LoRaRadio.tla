------------------------------ MODULE LoRaRadio ------------------------------
(***************************************************************************)
(* The SX1262 driver of lora.py against the chip.  receive() and _tx are   *)
(* sequences of SPI commands, and the chip goes on between them: a packet  *)
(* may come in, a transmission may end.  PagerLink takes a whole receive() *)
(* as one step, ReceiveBuffer as two; here each command is a step.         *)
(*                                                                         *)
(* Abstractions.  A packet from the air is its number in the order of      *)
(* arrival.  DIO1 is high while a flag of irq is set.  A command that      *)
(* finds BUSY stuck, or whose transfer fails, raises and changes nothing.  *)
(* A program that runs on after a failed init() makes no calls: "off".     *)
(***************************************************************************)
EXTENDS Naturals

CONSTANT MaxPackets  \* bound: packets that arrive

ASSUME PacketsAssumption == MaxPackets \in Nat

\* The command that is due, between calls "idle".
Receiving == {"get_irq", "clear_irq", "buf_status", "read_buf"}
Sending == {"standby", "clear_tx", "write_buf", "set_tx", "poll"}
Driver == Receiving \cup Sending \cup {"off", "idle", "set_rx", "cleanup"}

Flag == {"rx_done", "crc_err", "tx_done", "timeout"}

\* The result of receive() before it is parsed: the packet the chip announced;
\* the pager's own bytes; no CRC error and not overwritten; another packet
\* came in since the flags were read.
Result == [n : Nat, own : BOOLEAN, whole : BOOLEAN, raced : BOOLEAN]
Nothing == [n |-> 0, own |-> FALSE, whole |-> TRUE, raced |-> FALSE]

VARIABLES
  driver,  \* place of the driver
  flags,   \* the flags as receive() read them
  at,      \* the packet whose place GetRxBufferStatus told
  mode,    \* of the chip: "standby", "rx" or "tx"
  irq,     \* flags of the chip
  newest,  \* the latest packet to arrive
  bad,     \* it has a CRC error
  own,     \* bytes written for a transmission lie in its place
  raced,   \* history: a packet arrived since the flags were read
  unheard, \* history: a retry has raised on its way back to reception
  got      \* history: the latest result of receive()

chip == <<mode, irq>>
buffer == <<newest, bad, own>>
history == <<raced, unheard, got>>
vars == <<driver, flags, at, chip, buffer, history>>

TypeOK ==
  /\ driver \in Driver
  /\ flags \subseteq Flag
  /\ at \in 0..newest
  /\ mode \in {"standby", "rx", "tx"}
  /\ irq \subseteq Flag
  /\ newest \in 0..MaxPackets
  /\ bad \in BOOLEAN
  /\ own \in BOOLEAN
  /\ raced \in BOOLEAN
  /\ unheard \in BOOLEAN
  /\ got \in Result /\ got.n <= newest

Init ==
  /\ driver = "off" /\ flags = {} /\ at = 0
  /\ mode = "standby" /\ irq = {}
  /\ newest = 0 /\ bad = FALSE /\ own = FALSE
  /\ raced = FALSE /\ unheard = FALSE /\ got = Nothing

-----------------------------------------------------------------------------
(* The chip. *)

Arrive(crc) ==
  /\ mode = "rx"
  /\ newest < MaxPackets
  /\ newest' = newest + 1
  /\ bad' = crc
  /\ own' = FALSE
  /\ irq' = irq \cup {"rx_done"} \cup (IF crc THEN {"crc_err"} ELSE {})
  /\ raced' = TRUE
  /\ UNCHANGED <<driver, flags, at, mode, unheard, got>>

\* A transmission ends, or the timeout of 5 s given with SetTx does.
TxEnds(flag) ==
  /\ mode = "tx"
  /\ mode' = "standby"
  /\ irq' = irq \cup {flag}
  /\ UNCHANGED <<driver, flags, at, buffer, history>>

-----------------------------------------------------------------------------
(* The driver. *)

\* init() resets the chip and ends with continuous reception, or fails.
InitOk ==
  /\ driver = "off"
  /\ driver' = "idle"
  /\ mode' = "rx" /\ irq' = {}
  /\ unheard' = FALSE
  /\ UNCHANGED <<flags, at, buffer, raced, got>>

InitFails ==
  /\ driver = "off"
  /\ mode' = "standby" /\ irq' = {}
  /\ UNCHANGED <<driver, flags, at, buffer, history>>

Goes(from, to) == driver = from /\ driver' = to

\* receive() looks at DIO1.
SeesIrq ==
  /\ irq # {}
  /\ Goes("idle", "get_irq")
  /\ UNCHANGED <<flags, at, chip, buffer, history>>

GetIrq ==
  /\ Goes("get_irq", "clear_irq")
  /\ flags' = irq
  /\ raced' = FALSE
  /\ UNCHANGED <<at, chip, buffer, unheard, got>>

\* Mutated form: a packet with a CRC error is read.
IsPacketWithoutCrc == "rx_done" \in flags

IsPacket == "rx_done" \in flags /\ "crc_err" \notin flags

\* Mutated form: the flags of a packet to be read stay up.
ClearIrqUnlessPacket ==
  /\ Goes("clear_irq", IF IsPacket THEN "buf_status" ELSE "idle")
  /\ irq' = IF IsPacket THEN irq ELSE {}
  /\ UNCHANGED <<flags, at, mode, buffer, history>>

ClearIrq ==
  /\ Goes("clear_irq", IF IsPacket THEN "buf_status" ELSE "idle")
  /\ irq' = {}
  /\ UNCHANGED <<flags, at, mode, buffer, history>>

\* Mutated form: the answer is read one byte off.
GetRxBufStatusOff ==
  /\ Goes("buf_status", "read_buf")
  /\ at' = newest + 1
  /\ UNCHANGED <<flags, chip, buffer, history>>

GetRxBufStatus ==
  /\ Goes("buf_status", "read_buf")
  /\ at' = newest
  /\ UNCHANGED <<flags, chip, buffer, history>>

\* A packet that came in since then may have overwritten this one.
ReadBuffer ==
  /\ Goes("read_buf", "idle")
  /\ \E whole \in BOOLEAN :
       /\ newest = at => whole = ~bad
       /\ got' = [n |-> at, own |-> own /\ newest = at, whole |-> whole,
                  raced |-> raced]
  /\ UNCHANGED <<flags, at, chip, buffer, raced, unheard>>

\* send or send_ack calls _tx.
BeginSend ==
  /\ Goes("idle", "standby")
  /\ UNCHANGED <<flags, at, chip, buffer, history>>

SetStandby ==
  /\ Goes("standby", "clear_tx")
  /\ mode' = "standby"
  /\ UNCHANGED <<flags, at, irq, buffer, history>>

\* Mutated form: the flags of an unread packet stay up.
ClearForTxNot ==
  /\ Goes("clear_tx", "write_buf")
  /\ UNCHANGED <<flags, at, chip, buffer, history>>

ClearForTx ==
  /\ Goes("clear_tx", "write_buf")
  /\ irq' = {}
  /\ UNCHANGED <<flags, at, mode, buffer, history>>

\* Transmission and reception share the buffer from offset 0.
WriteBuffer ==
  /\ Goes("write_buf", "set_tx")
  /\ own' \in {own, TRUE}
  /\ UNCHANGED <<flags, at, chip, newest, bad, history>>

SetTx ==
  /\ Goes("set_tx", "poll")
  /\ mode' = "tx"
  /\ UNCHANGED <<flags, at, irq, buffer, history>>

\* The flags are read, one is up, and all are cleared.
TxDone ==
  /\ irq \cap {"tx_done", "timeout"} # {}
  /\ Goes("poll", "set_rx")
  /\ irq' = {}
  /\ UNCHANGED <<flags, at, mode, buffer, history>>

\* Mutated form: only the chip ends the wait.
TxTimesOutNever ==
  /\ irq \cap {"tx_done", "timeout"} # {}
  /\ Goes("poll", "set_rx")
  /\ irq' = {}
  /\ UNCHANGED <<flags, at, mode, buffer, history>>

\* After 6 s without either flag.
TxTimesOut ==
  /\ Goes("poll", "set_rx")
  /\ irq' = {}
  /\ UNCHANGED <<flags, at, mode, buffer, history>>

\* Mutated form: an exception in _tx comes out of send, into check_timeouts.
TxRaisesThrough ==
  /\ driver \in Sending
  /\ driver' = "idle"
  /\ UNCHANGED <<flags, at, chip, buffer, history>>

\* An exception in _tx is swallowed.
TxRaises ==
  /\ driver \in Sending
  /\ driver' = "set_rx"
  /\ UNCHANGED <<flags, at, chip, buffer, history>>

\* send and send_ack go back to reception.
SetRx ==
  /\ Goes("set_rx", "idle")
  /\ mode' = "rx"
  /\ unheard' = FALSE
  /\ UNCHANGED <<flags, at, irq, buffer, raced, got>>

\* An exception on that way is swallowed in check_timeouts, when the transmission
\* is a retry: the loop runs on with the chip as it is.
RetryRaises ==
  /\ Goes("set_rx", "idle")
  /\ unheard' = TRUE
  /\ UNCHANGED <<flags, at, chip, buffer, raced, got>>

\* An exception in receive(), or after the _tx of a first transmission or of an
\* acknowledgement, ends the main loop.
Raises ==
  /\ driver \in Receiving \cup {"set_rx"}
  /\ driver' = "cleanup"
  /\ UNCHANGED <<flags, at, chip, buffer, history>>

\* The main loop ends between two calls.
LeavesLoop ==
  /\ Goes("idle", "cleanup")
  /\ UNCHANGED <<flags, at, chip, buffer, history>>

\* cleanup() swallows its own exception.
Cleanup ==
  /\ Goes("cleanup", "off")
  /\ mode' \in {mode, "standby"}
  /\ UNCHANGED <<flags, at, irq, buffer, history>>

\* No finally: the chip stays as it is.
Killed ==
  /\ driver # "off"
  /\ driver' = "off"
  /\ UNCHANGED <<flags, at, chip, buffer, history>>

Chip ==
  \/ \E crc \in BOOLEAN : Arrive(crc)
  \/ \E flag \in {"tx_done", "timeout"} : TxEnds(flag)

\* What the program does without a choice of the user.
Proceed ==
  \/ SeesIrq \/ GetIrq \/ ClearIrq \/ GetRxBufStatus \/ ReadBuffer
  \/ SetStandby \/ ClearForTx \/ WriteBuffer \/ SetTx \/ TxDone \/ TxTimesOut
  \/ SetRx \/ Cleanup

Next ==
  \/ Chip
  \/ InitOk \/ InitFails \/ BeginSend \/ TxRaises \/ RetryRaises \/ Raises
  \/ LeavesLoop \/ Killed
  \/ Proceed

Spec == Init /\ [][Next]_vars

\* Each command has a timeout, and so has the wait for the end of a
\* transmission; nothing is assumed of the chip.
FairSpec == Spec /\ WF_vars(Proceed)

-----------------------------------------------------------------------------
(* Properties. *)

\* What receive() parses is never the pager's own transmission, which is
\* written over unread packets; and it is undamaged, unless another packet came
\* in after the flags were read: its CRC error is then overlooked, or it has
\* overwritten the one announced (receive, _tx).
ReadsAreTrue == ~got.own /\ (got.whole \/ got.raced)

\* What ReceiveBuffer says of the driver: a packet waits from its arrival, or from
\* the arrival that overwrites an announced one, until its place is asked for.
Pending ==
  IF \/ driver = "clear_irq" /\ IsPacket
     \/ driver = "buf_status"
     \/ "rx_done" \in irq /\ "crc_err" \notin irq
    THEN newest ELSE 0

Promise ==
  INSTANCE ReceiveBuffer WITH
    Packet <- 1..MaxPackets, pending <- Pending,
    fetched <- at, fetching <- driver = "read_buf", returned <- got.n

\* The commands of receive() are together a look into a buffer with room for one
\* packet, also when packets come in between them: nothing is returned that did
\* not arrive, no packet after a newer one, and none more than twice.
ActsAsBuffer == Promise!Spec

\* Between two calls the chip listens, however the transmission before ended, unless
\* the way back to reception raised in a retry (_tx, send, check_timeouts).
ListensOrRetryFailed == driver = "idle" => mode = "rx" \/ unheard

\* A transmission comes back to reception, even if the chip never reports its end or a
\* command raises in the middle of it: the pager then listens, or the program has
\* ended, or the exception of a retry was swallowed (_tx, send, check_timeouts).
TransmissionsEndListening ==
  driver \in Sending ~> \/ driver = "idle" /\ (mode = "rx" \/ unheard)
                        \/ driver = "off"

\* What the comment of _tx says, taken as it stands: whoever calls _tx sets the chip
\* back to reception.  The code does not keep it when that command raises in a
\* retry: the exception is swallowed and the chip left in standby.
BackToReception == driver = "idle" => mode = "rx"
=============================================================================
