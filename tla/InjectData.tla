------------------------------ MODULE InjectData ------------------------------
(***************************************************************************)
(* inject_data.py: the state machine that moves frames between the USB      *)
(* FIFOs and the MAC's buffers, owns the descriptor rings on the bridge's   *)
(* side, and performs the host's register accesses.                         *)
(*                                                                         *)
(* One action per FSM state (IDLE has one per branch).  Every action ends   *)
(* with LatchFlags, the "if new_irq" block that follows the FSM.            *)
(***************************************************************************)
EXTENDS HandleMacInt

CONSTANTS MaxTx,       \* bound: frames the host sends
          InDepth,     \* frames the USB-in FIFOs hold
          OutWords,    \* words the USB-out data FIFO holds
          OutSizes     \* entries the USB-out size FIFO holds

ASSUME FifoAssumption ==
  /\ MaxTx \in Nat
  /\ InDepth \in Nat \ {0}
  /\ OutWords \in Nat /\ OutWords >= FrameWords
  /\ OutSizes \in Nat \ {0}

VARIABLES
  idState, head, tail, rdHead, rdTail,
  sendPacket, clearTxDesc, passData,
  txCounter,  \* words of the frame from USB that are in the transmit buffer
  rxCounter,  \* words of the received frame that are in the out FIFO
  rxWord,     \* usb_out_fifo_w_data
  ctl,        \* register access the host asks for: "none", "read", "write"
  hostSent,   \* frames the host has put into the in FIFOs
  taken,      \* frames taken from the in FIFOs
  outData,    \* the out data FIFO
  outCount    \* entries in the out size FIFO

ringVars == <<head, tail, rdHead, rdTail>>
flagVars == <<sendPacket, clearTxDesc>>
copyVars == <<passData, txCounter, rxCounter, rxWord>>
fifoVars == <<hostSent, taken, outData, outCount>>
idVars   == <<idState, ringVars, flagVars, copyVars, fifoVars, ctl>>

\* What bus writes of InjectData reach in the MAC and in the transmit buffers.
macSide == <<bdVars, txBuf, engineVars>>

BootStates == {"RESET", "WAIT_BEFORE_START", "WRITE_ETHMAC_INT_MASK",
               "WRITE_ETHMAC_MAC_ADDR0", "WRITE_ETHMAC_MAC_ADDR1",
               "WRITE_ETHMAC_MODER"}
RxInitStates == {"WRITE_ETHMAC_RX_BUF_DESC_0", "WRITE_ETHMAC_RX_BUF_DESC_1"}
TxInitStates == {"WRITE_ETHMAC_TX_BUF_DESC_0"}
InitStates == BootStates \cup RxInitStates \cup TxInitStates
RegStates == {"WRITE_REG", "READ_REG", "REG_END"}
ClearStates == {"CLEAR_TX_DESC", "CLEAR_TX_DESC_WAIT"}
RxCopyStates == {"GET_PACKET_DATA", "RESET_ETHMAC_RX_BUF_DESC_1"}
RxStates == {"GET_RX_PACKET_LENGTH"} \cup RxCopyStates
TxCopyStates == {"WRITE_DATA_PREPARE", "WRITE_DATA"}
TxStates == TxCopyStates \cup {"WRITE_ETHMAC_TX_BUF_DESC_1"}
IdStates == InitStates \cup {"IDLE"} \cup RegStates \cup ClearStates
              \cup RxStates \cup TxStates

IdInit ==
  /\ idState = "RESET"
  /\ head = 0 /\ tail = 0 /\ rdHead = 0 /\ rdTail = 0
  /\ sendPacket = FALSE /\ clearTxDesc = FALSE /\ passData = FALSE
  /\ txCounter = 0 /\ rxCounter = 0 /\ rxWord = 0
  /\ ctl = "none"
  /\ hostSent = 0 /\ taken = 0
  /\ outData = <<>> /\ outCount = 0

\* The strobe of SimplePortsToWb is up: in GET_PACKET_DATA it is lowered while
\* a word that was read waits for room in the FIFO.
IdRequests ==
  /\ idState \notin {"RESET", "WAIT_BEFORE_START", "IDLE", "REG_END",
                     "CLEAR_TX_DESC_WAIT", "WRITE_DATA_PREPARE"}
  /\ ~passData

\* Mutant: the error sources are masked out.
LatchFlagsNoErrors(send, clear) ==
  /\ sendPacket' = (send \/ "rxb" \in newIrq)
  /\ clearTxDesc' = (clear \/ "txb" \in newIrq)
  /\ newIrq' = {}

\* The block after the FSM: written last, its sets win over IDLE's clears.  (The
\* scan that IDLE starts with its clear would find the work in any case.)
LatchFlags(send, clear) ==
  /\ sendPacket' = (send \/ newIrq \cap RxIrqs # {})
  /\ clearTxDesc' = (clear \/ newIrq \cap TxIrqs # {})
  /\ newIrq' = {}

KeepFlags == LatchFlags(sendPacket, clearTxDesc)

\* A clock on which the FSM waits (for the bus, the FIFO or the host).
Wait ==
  /\ newIrq # {}
  /\ KeepFlags
  /\ UNCHANGED <<idState, ringVars, copyVars, fifoVars, ctl, macSide>>

(***************************************************************************)
(* Initialisation.  RX and TX are enabled before any descriptor is written. *)
(***************************************************************************)
Boot ==
  /\ \/ idState = "RESET" /\ idState' = "WAIT_BEFORE_START"
     \/ idState = "WAIT_BEFORE_START" /\ idState' = "WRITE_ETHMAC_INT_MASK"
  /\ KeepFlags
  /\ UNCHANGED <<ringVars, copyVars, fifoVars, ctl, macSide>>

WriteConfig ==
  /\ \/ idState = "WRITE_ETHMAC_INT_MASK" /\ idState' = "WRITE_ETHMAC_MAC_ADDR0"
     \/ idState = "WRITE_ETHMAC_MAC_ADDR0" /\ idState' = "WRITE_ETHMAC_MAC_ADDR1"
     \/ idState = "WRITE_ETHMAC_MAC_ADDR1" /\ idState' = "WRITE_ETHMAC_MODER"
  /\ KeepFlags
  /\ UNCHANGED <<ringVars, copyVars, fifoVars, ctl, macSide>>

WriteModer ==
  /\ idState = "WRITE_ETHMAC_MODER"
  /\ EnableMac
  /\ idState' = "WRITE_ETHMAC_RX_BUF_DESC_0"
  /\ KeepFlags
  /\ UNCHANGED <<ringVars, copyVars, fifoVars, ctl, bdVars, txBuf>>

\* The pointer of the BD: buffer rdHead of the receive half of RAM.
WriteRxPointer ==
  /\ idState = "WRITE_ETHMAC_RX_BUF_DESC_0"
  /\ idState' = "WRITE_ETHMAC_RX_BUF_DESC_1"
  /\ KeepFlags
  /\ UNCHANGED <<ringVars, copyVars, fifoVars, ctl, macSide>>

WriteRxDesc ==
  /\ idState = "WRITE_ETHMAC_RX_BUF_DESC_1"
  /\ WriteRxBD(rdHead, rdHead = NBD - 1)
  /\ IF Succ(rdHead) # rdTail
     THEN rdHead' = Succ(rdHead) /\ idState' = "WRITE_ETHMAC_RX_BUF_DESC_0"
     ELSE rdHead' = rdHead /\ idState' = "WRITE_ETHMAC_TX_BUF_DESC_0"
  /\ KeepFlags
  /\ UNCHANGED <<head, tail, rdTail, copyVars, fifoVars, ctl, txBD, txBuf, engineVars>>

\* The pointers of the transmit BDs; head comes back to 0.
WriteTxPointer ==
  /\ idState = "WRITE_ETHMAC_TX_BUF_DESC_0"
  /\ head' = Succ(head)
  /\ idState' = IF Succ(head) = 0 THEN "IDLE" ELSE "WRITE_ETHMAC_TX_BUF_DESC_0"
  /\ KeepFlags
  /\ UNCHANGED <<tail, rdHead, rdTail, copyVars, fifoVars, ctl, macSide>>

(***************************************************************************)
(* IDLE: the branches of the If/Elif chain.                                 *)
(***************************************************************************)
\* Mutant: both flags are cleared together.
IdleRxClearsBoth ==
  /\ idState = "IDLE" /\ sendPacket
  /\ idState' = "GET_RX_PACKET_LENGTH"
  /\ LatchFlags(FALSE, FALSE)
  /\ UNCHANGED <<ringVars, copyVars, fifoVars, ctl, macSide>>

IdleRx ==
  /\ idState = "IDLE" /\ sendPacket
  /\ idState' = "GET_RX_PACKET_LENGTH"
  /\ LatchFlags(FALSE, clearTxDesc)
  /\ UNCHANGED <<ringVars, copyVars, fifoVars, ctl, macSide>>

IdleClear ==
  /\ idState = "IDLE" /\ ~sendPacket /\ clearTxDesc
  /\ idState' = "CLEAR_TX_DESC"
  /\ LatchFlags(sendPacket, FALSE)
  /\ UNCHANGED <<ringVars, copyVars, fifoVars, ctl, macSide>>

\* Mutant: no look at the ring.
CanTakeAlways == hostSent > taken

\* A frame waits in the in FIFOs and the transmit ring has room.
CanTake == hostSent > taken /\ Succ(head) # tail

IdleTake ==
  /\ idState = "IDLE" /\ ~sendPacket /\ ~clearTxDesc
  /\ CanTake
  /\ taken' = taken + 1
  /\ txCounter' = 0
  /\ idState' = "WRITE_DATA_PREPARE"
  /\ KeepFlags
  /\ UNCHANGED <<ringVars, passData, rxCounter, rxWord, hostSent, outData,
                 outCount, ctl, macSide>>

IdleCtl ==
  /\ idState = "IDLE" /\ ~sendPacket /\ ~clearTxDesc /\ ~CanTake
  /\ ctl # "none"
  /\ idState' = IF ctl = "write" THEN "WRITE_REG" ELSE "READ_REG"
  /\ KeepFlags
  /\ UNCHANGED <<ringVars, copyVars, fifoVars, ctl, macSide>>

(***************************************************************************)
(* Register accesses of the host (station address and MII registers: none   *)
(* that the rings depend on).                                               *)
(***************************************************************************)
RegAccess ==
  /\ idState \in {"WRITE_REG", "READ_REG"}
  /\ idState' = "REG_END"
  /\ KeepFlags
  /\ UNCHANGED <<ringVars, copyVars, fifoVars, ctl, macSide>>

\* Mutant: the end of the access is not signalled.
RegEndSilent ==
  /\ idState = "REG_END"
  /\ idState' = "IDLE"
  /\ KeepFlags
  /\ UNCHANGED <<ringVars, copyVars, fifoVars, ctl, macSide>>

\* control_op_finish: the request handler withdraws the request, and IDLE does
\* not look at it while the finish pulse is up.
RegEnd ==
  /\ idState = "REG_END"
  /\ idState' = "IDLE"
  /\ ctl' = "none"
  /\ KeepFlags
  /\ UNCHANGED <<ringVars, copyVars, fifoVars, macSide>>

(***************************************************************************)
(* Reclaiming transmitted descriptors.                                      *)
(***************************************************************************)
\* Mutant: one descriptor per interrupt.
ClearTxDescOnce ==
  /\ idState = "CLEAR_TX_DESC"
  /\ tail' = IF ~txBD[tail].r THEN Succ(tail) ELSE tail
  /\ idState' = "IDLE"
  /\ KeepFlags
  /\ UNCHANGED <<head, rdHead, rdTail, copyVars, fifoVars, ctl, macSide>>

ClearTxDesc ==
  /\ idState = "CLEAR_TX_DESC"
  /\ IF ~txBD[tail].r
     THEN /\ tail' = Succ(tail)
          /\ idState' = IF Succ(tail) # head THEN "CLEAR_TX_DESC_WAIT" ELSE "IDLE"
     ELSE /\ tail' = tail
          /\ idState' = "IDLE"
  /\ KeepFlags
  /\ UNCHANGED <<head, rdHead, rdTail, copyVars, fifoVars, ctl, macSide>>

ClearTxDescWait ==
  /\ idState = "CLEAR_TX_DESC_WAIT"
  /\ idState' = "CLEAR_TX_DESC"
  /\ KeepFlags
  /\ UNCHANGED <<ringVars, copyVars, fifoVars, ctl, macSide>>

(***************************************************************************)
(* Received frames: BD, then the words, then the BD back to the MAC.        *)
(***************************************************************************)
GetRxPacketLength ==
  /\ idState = "GET_RX_PACKET_LENGTH"
  /\ rxCounter' = 0
  /\ idState' = IF rxBD[rdTail].len /\ ~rxBD[rdTail].e
                THEN "GET_PACKET_DATA" ELSE "IDLE"
  /\ KeepFlags
  /\ UNCHANGED <<ringVars, passData, txCounter, rxWord, fifoVars, ctl, macSide>>

\* usb_out_fifo_w_rdy & usb_out_fifo_size_w_rdy
OutReady == Len(outData) < OutWords /\ outCount < OutSizes

\* Mutant: the length is stored one word early.
PushWordEarly(word) ==
  /\ outData' = Append(outData, word)
  /\ rxCounter' = rxCounter + 1
  /\ passData' = FALSE
  /\ IF rxCounter + 2 >= FrameWords
     THEN outCount' = outCount + 1 /\ idState' = "RESET_ETHMAC_RX_BUF_DESC_1"
     ELSE UNCHANGED <<outCount, idState>>

\* The word goes into the data FIFO, after the last one the length into the
\* size FIFO.
PushWord(word) ==
  /\ outData' = Append(outData, word)
  /\ rxCounter' = rxCounter + 1
  /\ passData' = FALSE
  /\ IF rxCounter + 1 >= FrameWords
     THEN outCount' = outCount + 1 /\ idState' = "RESET_ETHMAC_RX_BUF_DESC_1"
     ELSE UNCHANGED <<outCount, idState>>

\* The bus delivers a word; without room it is held in rxWord (pass_data).
GetPacketData ==
  /\ idState = "GET_PACKET_DATA" /\ ~passData
  /\ rxWord' = rxBuf[rdTail][rxCounter + 1]
  /\ IF OutReady
     THEN PushWord(rxWord')
     ELSE passData' = TRUE /\ UNCHANGED <<idState, rxCounter, outData, outCount>>
  /\ KeepFlags
  /\ UNCHANGED <<ringVars, txCounter, hostSent, taken, ctl, macSide>>

PassData ==
  /\ idState = "GET_PACKET_DATA" /\ passData
  /\ OutReady
  /\ PushWord(rxWord)
  /\ KeepFlags
  /\ UNCHANGED <<ringVars, txCounter, rxWord, hostSent, taken, ctl, macSide>>

\* Mutant: rd_tail is not advanced.
ResetRxDescStay ==
  /\ idState = "RESET_ETHMAC_RX_BUF_DESC_1"
  /\ WriteRxBD(rdTail, rdTail = NBD - 1)
  /\ idState' = "GET_RX_PACKET_LENGTH"
  /\ KeepFlags
  /\ UNCHANGED <<ringVars, copyVars, fifoVars, ctl, txBD, txBuf, engineVars>>

ResetRxDesc ==
  /\ idState = "RESET_ETHMAC_RX_BUF_DESC_1"
  /\ WriteRxBD(rdTail, rdTail = NBD - 1)
  /\ rdTail' = Succ(rdTail)
  /\ idState' = "GET_RX_PACKET_LENGTH"
  /\ KeepFlags
  /\ UNCHANGED <<head, tail, rdHead, copyVars, fifoVars, ctl, txBD, txBuf, engineVars>>

(***************************************************************************)
(* Frames from USB: the words into the buffer of BD head, then the BD.      *)
(***************************************************************************)
WriteDataPrepare ==
  /\ idState = "WRITE_DATA_PREPARE"
  /\ idState' = "WRITE_DATA"
  /\ KeepFlags
  /\ UNCHANGED <<ringVars, copyVars, fifoVars, ctl, macSide>>

\* Mutant: the last word is left out.
WriteDataShort ==
  /\ idState = "WRITE_DATA"
  /\ txBuf' = [txBuf EXCEPT ![head][txCounter + 1] = taken]
  /\ txCounter' = txCounter + 1
  /\ idState' = IF txCounter + 2 < FrameWords
                THEN "WRITE_DATA_PREPARE" ELSE "WRITE_ETHMAC_TX_BUF_DESC_1"
  /\ KeepFlags
  /\ UNCHANGED <<ringVars, passData, rxCounter, rxWord, fifoVars, ctl, bdVars, engineVars>>

WriteData ==
  /\ idState = "WRITE_DATA"
  /\ txBuf' = [txBuf EXCEPT ![head][txCounter + 1] = taken]
  /\ txCounter' = txCounter + 1
  /\ idState' = IF txCounter + 1 < FrameWords
                THEN "WRITE_DATA_PREPARE" ELSE "WRITE_ETHMAC_TX_BUF_DESC_1"
  /\ KeepFlags
  /\ UNCHANGED <<ringVars, passData, rxCounter, rxWord, fifoVars, ctl, bdVars, engineVars>>

WriteTxDesc ==
  /\ idState = "WRITE_ETHMAC_TX_BUF_DESC_1"
  /\ WriteTxBD(head, head = NBD - 1)
  /\ txCounter' = 0
  /\ head' = Succ(head)
  /\ idState' = "IDLE"
  /\ KeepFlags
  /\ UNCHANGED <<tail, rdHead, rdTail, passData, rxCounter, rxWord, fifoVars, ctl,
                 rxBD, txBuf, engineVars>>

IdBusStep ==
  \/ WriteConfig \/ WriteModer \/ WriteRxPointer \/ WriteRxDesc \/ WriteTxPointer
  \/ RegAccess \/ ClearTxDesc \/ GetRxPacketLength \/ GetPacketData \/ ResetRxDesc
  \/ WriteData \/ WriteTxDesc

IdInternalStep ==
  \/ Boot \/ IdleRx \/ IdleClear \/ IdleTake \/ IdleCtl \/ RegEnd
  \/ ClearTxDescWait \/ PassData \/ WriteDataPrepare \/ Wait
=============================================================================
