-------------------------------- MODULE EthMac --------------------------------
(***************************************************************************)
(* The Ethernet MAC as the bridge sees it (eth_wishbone.v, eth_registers.v):*)
(* the two rings of buffer descriptors (BDs), the engines that work through *)
(* them by DMA over the Wishbone bus, and the interrupt sources.            *)
(*                                                                         *)
(* A frame is a number, its data FrameWords bus words that each carry the   *)
(* number, so that a buffer torn between two frames is visible.             *)
(***************************************************************************)
EXTENDS Rings, Sequences

CONSTANTS FrameWords,    \* bus words of a frame
          MaxRx          \* bound: frames the wire brings

ASSUME FrameWordsAssumption == FrameWords \in Nat /\ FrameWords >= 1
ASSUME MaxRxAssumption == MaxRx \in Nat

VARIABLES
  txBD,       \* transmit BDs: [r |-> ready bit, w |-> wrap bit]
  rxBD,       \* receive BDs: [e |-> empty bit, w |-> wrap bit, len |-> length # 0]
  txBuf,      \* the frame buffers in RAM that the transmit BDs point to
  rxBuf,      \* the frame buffers in RAM that the receive BDs point to
  macTx,      \* TxBDAddress
  macRx,      \* RxBDAddress, counted from the first receive BD
  txEng,      \* transmit engine: "off", "bd" (polls the BD), "dma", "status"
  txFetched,  \* words of the frame being transmitted
  rxEng,      \* receive engine: "off", "bd", "ready" (RxReady), "dma", "status"
  rxCount,    \* words of the frame being received that are in RAM
  pulse,      \* interrupt pulses on their way to the source register
  irq,        \* ETH_INT_SOURCE
  wire,       \* history: frames sent to the PHY
  rxSeen      \* history: frames that arrived from the PHY

bdVars     == <<txBD, rxBD>>
engineVars == <<macTx, macRx, txEng, txFetched, rxEng, rxCount>>
netVars    == <<wire, rxSeen>>

Words == 1 .. FrameWords

\* The words of frame n.
Frame(n) == [k \in Words |-> n]

TxIrqs  == {"txb", "txe"}
RxIrqs  == {"rxb", "rxe"}
IrqBits == TxIrqs \cup RxIrqs \cup {"busy"}

(***************************************************************************)
(* Power up: the BD memory is cleared, both engines are disabled.           *)
(***************************************************************************)
MacInit ==
  /\ txBD = [i \in Ring |-> [r |-> FALSE, w |-> FALSE]]
  /\ rxBD = [i \in Ring |-> [e |-> FALSE, w |-> FALSE, len |-> FALSE]]
  /\ txBuf = [i \in Ring |-> Frame(0)]
  /\ rxBuf = [i \in Ring |-> Frame(0)]
  /\ macTx = 0 /\ macRx = 0
  /\ txEng = "off" /\ rxEng = "off"
  /\ txFetched = <<>> /\ rxCount = 0
  /\ pulse = {} /\ irq = {}
  /\ wire = <<>> /\ rxSeen = 0

(***************************************************************************)
(* What a bus master can do to the slave port.                              *)
(***************************************************************************)

\* Setting TXEN and RXEN in MODER: both BD pointers return to the first BD of
\* their ring and both engines start to poll it.
EnableMac ==
  /\ macTx' = 0 /\ macRx' = 0
  /\ txEng' = "bd" /\ rxEng' = "bd"
  /\ UNCHANGED <<txFetched, rxCount>>

WriteTxBD(i, wrap) == txBD' = [txBD EXCEPT ![i] = [r |-> TRUE, w |-> wrap]]

\* Mutant: the wrap bit is dropped.
WriteRxBDNoWrap(i, wrap) ==
  rxBD' = [rxBD EXCEPT ![i] = [e |-> TRUE, w |-> FALSE, len |-> FALSE]]

WriteRxBD(i, wrap) ==
  rxBD' = [rxBD EXCEPT ![i] = [e |-> TRUE, w |-> wrap, len |-> FALSE]]

\* int_o: every source is unmasked by the bridge.
IntOut == irq # {}

(***************************************************************************)
(* Transmit engine.                                                         *)
(***************************************************************************)

\* The BD is polled until its ready bit is found set.
TxBDRead ==
  /\ txEng = "bd"
  /\ txBD[macTx].r
  /\ txEng' = "dma" /\ txFetched' = <<>>
  /\ UNCHANGED <<bdVars, txBuf, rxBuf, macTx, macRx, rxEng, rxCount, pulse, irq, netVars>>

\* One bus read of the master port.
TxFetch ==
  /\ txEng = "dma"
  /\ txFetched' = Append(txFetched, txBuf[macTx][Len(txFetched) + 1])
  /\ txEng' = IF Len(txFetched) + 1 = FrameWords THEN "status" ELSE "dma"
  /\ UNCHANGED <<bdVars, txBuf, rxBuf, macTx, macRx, rxEng, rxCount, pulse, irq, netVars>>

\* After the frame the BD is written back with its ready bit clear, the pointer
\* advances (or wraps), and the done or the error pulse follows.
TxStatusWrite(kind) ==
  /\ txEng = "status"
  /\ pulse \cap TxIrqs = {}
  /\ txBD' = [txBD EXCEPT ![macTx].r = FALSE]
  /\ macTx' = IF txBD[macTx].w THEN 0 ELSE macTx + 1
  /\ txEng' = "bd" /\ txFetched' = <<>>
  /\ pulse' = pulse \cup {kind}
  /\ wire' = IF kind = "txb" THEN Append(wire, txFetched) ELSE wire
  /\ UNCHANGED <<rxBD, txBuf, rxBuf, macRx, rxEng, rxCount, irq, rxSeen>>

(***************************************************************************)
(* Receive engine.                                                          *)
(***************************************************************************)

RxBDRead ==
  /\ rxEng = "bd"
  /\ rxBD[macRx].e
  /\ rxEng' = "ready"
  /\ UNCHANGED <<bdVars, txBuf, rxBuf, macTx, macRx, txEng, txFetched, rxCount, pulse, irq, netVars>>

\* A frame begins while a BD is ready for it.
RxFrameStart ==
  /\ rxEng = "ready"
  /\ rxSeen < MaxRx
  /\ rxSeen' = rxSeen + 1
  /\ rxEng' = "dma" /\ rxCount' = 0
  /\ UNCHANGED <<bdVars, txBuf, rxBuf, macTx, macRx, txEng, txFetched, pulse, irq, wire>>

\* A frame begins and no BD is ready: the frame is lost and Busy_IRQ is raised.
RxBusy ==
  /\ rxEng = "bd"
  /\ rxSeen < MaxRx
  /\ "busy" \notin pulse
  /\ rxSeen' = rxSeen + 1
  /\ pulse' = pulse \cup {"busy"}
  /\ UNCHANGED <<bdVars, txBuf, rxBuf, engineVars, irq, wire>>

\* One bus write of the master port.
RxStore ==
  /\ rxEng = "dma"
  /\ rxBuf' = [rxBuf EXCEPT ![macRx][rxCount + 1] = rxSeen]
  /\ rxCount' = rxCount + 1
  /\ rxEng' = IF rxCount + 1 = FrameWords THEN "status" ELSE "dma"
  /\ UNCHANGED <<bdVars, txBuf, macTx, macRx, txEng, txFetched, pulse, irq, netVars>>

\* The frame is not for us or too short: RxReady falls, the BD stays empty and
\* is read again for the next frame.
RxAbort ==
  /\ rxEng = "dma"
  /\ rxEng' = "bd" /\ rxCount' = 0
  /\ UNCHANGED <<bdVars, txBuf, rxBuf, macTx, macRx, txEng, txFetched, pulse, irq, netVars>>

\* After the last word the BD is written with the length and its empty bit
\* clear, the pointer advances (or wraps), and the pulse follows.
RxStatusWrite(kind) ==
  /\ rxEng = "status"
  /\ pulse \cap RxIrqs = {}
  /\ rxBD' = [rxBD EXCEPT ![macRx].e = FALSE, ![macRx].len = TRUE]
  /\ macRx' = IF rxBD[macRx].w THEN 0 ELSE macRx + 1
  /\ rxEng' = "bd" /\ rxCount' = 0
  /\ pulse' = pulse \cup {kind}
  /\ UNCHANGED <<txBD, txBuf, rxBuf, macTx, txEng, txFetched, irq, netVars>>

\* The source register latches a pulse; setting wins over clearing.
LatchIrq ==
  /\ pulse # {}
  /\ irq' = irq \cup pulse
  /\ pulse' = {}
  /\ UNCHANGED <<bdVars, txBuf, rxBuf, engineVars, netVars>>

(***************************************************************************)
(* The actions that use the master port of the bus, and the others.         *)
(***************************************************************************)
MacRequests == txEng = "dma" \/ rxEng = "dma"

MacBusStep == TxFetch \/ RxStore

MacInternalStep ==
  \/ TxBDRead \/ RxBDRead \/ LatchIrq
  \/ \E kind \in TxIrqs : TxStatusWrite(kind)
  \/ \E kind \in RxIrqs : RxStatusWrite(kind)

WireStep == RxFrameStart \/ RxBusy \/ RxAbort
=============================================================================
