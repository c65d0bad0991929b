------------------------------- MODULE EthReset -------------------------------
(***************************************************************************)
(* The reset button (deca_usb2_eth_interface.py): it resets the USB clock   *)
(* domain and with wb_rst the MAC, at any moment.  Every register returns   *)
(* to its initial value and the FIFOs are empty; block RAM keeps its words, *)
(* the descriptors in eth_spram_256x32 and the frame buffers alike.         *)
(***************************************************************************)
EXTENDS EthInterface

CONSTANTS MaxResets,    \* bound
          DrainedReset, \* the button is pressed only while no frame is to be sent
          OneWay        \* frames go in one direction, either of them

ASSUME ResetAssumption ==
  MaxResets \in Nat /\ DrainedReset \in BOOLEAN /\ OneWay \in BOOLEAN

VARIABLE resets

rvars == <<vars, resets>>

RInit == Init /\ resets = 0

\* The engines and their pointers, ETH_INT_SOURCE.
MacRegisters ==
  /\ macTx' = 0 /\ macRx' = 0
  /\ txEng' = "off" /\ rxEng' = "off" /\ txFetched' = <<>> /\ rxCount' = 0
  /\ pulse' = {} /\ irq' = {}

\* Mutant: the ring pointers are not reset.
PointersKept ==
  /\ idState' = "RESET"
  /\ UNCHANGED ringVars
  /\ sendPacket' = FALSE /\ clearTxDesc' = FALSE /\ passData' = FALSE
  /\ txCounter' = 0 /\ rxCounter' = 0 /\ rxWord' = 0

BridgeRegisters ==
  /\ idState' = "RESET"
  /\ head' = 0 /\ tail' = 0 /\ rdHead' = 0 /\ rdTail' = 0
  /\ sendPacket' = FALSE /\ clearTxDesc' = FALSE /\ passData' = FALSE
  /\ txCounter' = 0 /\ rxCounter' = 0 /\ rxWord' = 0

\* The device leaves the bus: what is in the FIFOs, and the request, are lost.
Fifos ==
  /\ taken' = hostSent /\ outData' = <<>> /\ outCount' = 0
  /\ ctl' = "none"

Reset ==
  /\ resets < MaxResets /\ resets' = resets + 1
  /\ DrainedReset => \A i \in Ring : ~txBD[i].r
  /\ MacRegisters /\ BridgeRegisters /\ Fifos
  /\ hmiState' = "IDLE" /\ newIrq' = {} /\ grant' = "hmi"
  /\ UNCHANGED <<bdVars, txBuf, rxBuf, netVars, hostSent, host>>

\* phy_resetn is low up to WRITE_ETHMAC_MODER, and the PHY then negotiates for
\* longer than the rings take to write.
Run ==
  /\ Next
  /\ rxSeen' # rxSeen => idState \notin InitStates
  /\ OneWay => hostSent' = 0 \/ rxSeen' = 0
  /\ UNCHANGED resets

RNext == Run \/ Reset

RSpec == RInit /\ [][RNext]_rvars

RFairSpec == RSpec /\ BridgeFairness /\ WF_vars(HostReads)

\* Whenever the bridge runs, before or after a reset, descriptors have one owner.
RunningOwnership ==
  idState \notin InitStates => TxOwnership /\ RxOwnership /\ OutFraming

\* A reset loses frames but neither repeats, tears nor reorders them.
ResetInOrder == WireInOrder /\ HostInOrder

\* With frames in one direction, whenever the bridge runs, no frame that waits
\* in a ring goes unnoticed.
RunningNoticed ==
  idState \notin InitStates => TxNeverForgotten /\ RxNeverForgotten
=============================================================================
