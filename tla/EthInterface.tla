----------------------------- MODULE EthInterface -----------------------------
(***************************************************************************)
(* eth_interface.py: InjectData, HandleMacInt and the MAC's master port     *)
(* share one Wishbone bus through a round-robin arbiter.  A bus transaction *)
(* is one step, taken at its acknowledge.                                   *)
(***************************************************************************)
EXTENDS InjectData

\* Environment: a frame starts only after the bridge has handled the interrupt
\* of the one before (at 100 Mb/s they start 6.7 us apart, some 400 clocks).
CONSTANT FrameSpacing

ASSUME SpacingAssumption == FrameSpacing \in BOOLEAN

VARIABLES
  grant,      \* the arbiter's grant register
  host        \* history: frames the host read from the out FIFOs

vars == <<txBD, rxBD, txBuf, rxBuf, engineVars, pulse, irq, netVars,
          hmiVars, idVars, grant, host>>

Init == MacInit /\ HmiInit /\ IdInit /\ grant = "hmi" /\ host = <<>>

(***************************************************************************)
(* The arbiter: in the order of arbiter.add, 0 = hmi, 1 = id, 2 = mac.      *)
(***************************************************************************)
Masters == {"hmi", "id", "mac"}

NextMaster(m) == CASE m = "hmi" -> "id" [] m = "id" -> "mac" [] m = "mac" -> "hmi"

Requests(m) == CASE m = "hmi" -> HmiRequests
                 [] m = "id"  -> IdRequests
                 [] m = "mac" -> MacRequests

\* Where the grant goes when m's cyc is low.
After(m) ==
  LET n == NextMaster(m)
  IN IF Requests(n) THEN n
     ELSE IF Requests(NextMaster(n)) THEN NextMaster(n) ELSE m

\* The grant only moves while the granted master is not requesting.
Owner == IF Requests(grant) THEN grant ELSE After(grant)

\* Master m completes a transaction; its cyc is low in the acknowledge cycle.
Acked(m) == Requests(m) /\ Owner = m /\ grant' = After(m)

\* A step off the bus: the grant has had time to move.
OffBus == grant' = Owner

(***************************************************************************)
(* The components' steps.                                                   *)
(***************************************************************************)
HmiStep ==
  /\ \/ Acked("hmi") /\ HmiBusStep
     \/ OffBus /\ SeeInt
  /\ UNCHANGED <<macSide, rxBuf, pulse, netVars, idVars, host>>

IdStep ==
  /\ \/ Acked("id") /\ IdBusStep
     \/ OffBus /\ IdInternalStep
  /\ UNCHANGED <<rxBuf, pulse, irq, netVars, hmiState, host>>

MacStep ==
  /\ \/ Acked("mac") /\ MacBusStep
     \/ OffBus /\ MacInternalStep
  /\ UNCHANGED <<hmiVars, idVars, host>>

\* The network: frames arrive.
NetStep ==
  /\ OffBus /\ WireStep
  /\ FrameSpacing => (pulse \cup irq) \cap (RxIrqs \cup {"busy"}) = {}
  /\ UNCHANGED <<hmiVars, idVars, host>>

\* The USB side: a frame is complete in the in FIFOs; the driver reads a frame
\* whose length is in the out size FIFO; a register access is requested.
HostSend ==
  /\ hostSent < MaxTx /\ hostSent - taken < InDepth
  /\ hostSent' = hostSent + 1
  /\ UNCHANGED <<taken, outData, outCount, ctl, host>>

HostTake ==
  /\ outCount > 0
  /\ host' = Append(host, SubSeq(outData, 1, FrameWords))
  /\ outData' = SubSeq(outData, FrameWords + 1, Len(outData))
  /\ outCount' = outCount - 1
  /\ UNCHANGED <<hostSent, taken, ctl>>

CtlRequest ==
  /\ ctl = "none"
  /\ ctl' \in {"read", "write"}
  /\ UNCHANGED <<fifoVars, host>>

UsbStep ==
  /\ OffBus
  /\ HostSend \/ HostTake \/ CtlRequest
  /\ UNCHANGED <<macSide, rxBuf, pulse, irq, netVars, hmiVars, idState, ringVars,
                 flagVars, copyVars>>

Next == HmiStep \/ IdStep \/ MacStep \/ NetStep \/ UsbStep

Spec == Init /\ [][Next]_vars

(***************************************************************************)
(* Fairness.  The clocked machines and the driver's reads do not stop; the  *)
(* bus serves every requester because the arbiter is round-robin (the       *)
(* model's grant), not by assumption.  Arrivals, aborts and the host's      *)
(* sends and requests carry none.                                           *)
(***************************************************************************)
HostReads ==
  /\ OffBus /\ HostTake
  /\ UNCHANGED <<macSide, rxBuf, pulse, irq, netVars, hmiVars, idState, ringVars,
                 flagVars, copyVars>>

TxEngine == TxBDRead \/ TxFetch \/ \E kind \in TxIrqs : TxStatusWrite(kind)
RxEngine == RxBDRead \/ RxStore \/ \E kind \in RxIrqs : RxStatusWrite(kind)

BridgeFairness ==
  /\ WF_vars(HmiStep) /\ WF_vars(IdStep) /\ WF_vars(MacStep /\ LatchIrq)
  /\ WF_vars(MacStep /\ TxEngine) /\ WF_vars(MacStep /\ RxEngine)

FairSpec == Spec /\ BridgeFairness /\ WF_vars(HostReads)

\* The device runs before the interface is opened: nobody need read.
ClosedSpec == Spec /\ BridgeFairness

(***************************************************************************)
(* Type invariant.                                                          *)
(***************************************************************************)
Nums == Nat    \* frame numbers; 0 is what RAM holds before the first frame

TypeOK ==
  /\ txBD \in [Ring -> [r : BOOLEAN, w : BOOLEAN]]
  /\ rxBD \in [Ring -> [e : BOOLEAN, w : BOOLEAN, len : BOOLEAN]]
  /\ txBuf \in [Ring -> [Words -> Nums]] /\ rxBuf \in [Ring -> [Words -> Nums]]
  /\ macTx \in Ring /\ macRx \in Ring
  /\ txEng \in {"off", "bd", "dma", "status"} /\ txFetched \in Seq(Nums)
  /\ rxEng \in {"off", "bd", "ready", "dma", "status"} /\ rxCount \in Nat
  /\ pulse \subseteq IrqBits /\ irq \subseteq IrqBits /\ newIrq \subseteq IrqBits
  /\ wire \in Seq(Seq(Nums)) /\ rxSeen \in Nat
  /\ hmiState \in HmiStates /\ idState \in IdStates
  /\ head \in Ring /\ tail \in Ring /\ rdHead \in Ring /\ rdTail \in Ring
  /\ sendPacket \in BOOLEAN /\ clearTxDesc \in BOOLEAN /\ passData \in BOOLEAN
  /\ txCounter \in 0 .. FrameWords /\ rxCounter \in 0 .. FrameWords
  /\ rxWord \in Nums /\ ctl \in {"none", "read", "write"}
  /\ hostSent \in Nat /\ taken \in Nat
  /\ outData \in Seq(Nums) /\ outCount \in Nat
  /\ grant \in Masters /\ host \in Seq(Seq(Nums))

(***************************************************************************)
(* Safety.                                                                  *)
(***************************************************************************)

\* The MAC owns exactly the transmit BDs from its pointer up to head, and the
\* reclaim pointer tail never passes the MAC's: when InjectData fills a BD, or
\* its buffer, that BD is not the MAC's.
TxOwnership ==
  /\ \A i \in Ring : txBD[i].r <=> idState \notin InitStates /\ InRing(i, macTx, head)
  /\ Dist(tail, macTx) <= Dist(tail, head)
  /\ idState \in TxStates => ~txBD[head].r

\* The receive BDs from rdTail up to the MAC's pointer, and no others, hold a
\* frame the host has not got: the MAC never fills a buffer that InjectData is
\* copying, InjectData never copies one the MAC is filling.
RxOwnership ==
  /\ macRx # rdTail => \A i \in Ring : rxBD[i].len <=> InRing(i, rdTail, macRx)
  /\ macRx = rdTail => \A i, j \in Ring : rxBD[i].len <=> rxBD[j].len
  /\ \A i \in Ring : rxBD[i].e => ~rxBD[i].len
  /\ idState \in RxCopyStates => rxBD[rdTail].len
  /\ rxEng \in {"ready", "dma", "status"} => rxBD[macRx].e

\* Every entry of the out size FIFO stands for FrameWords words of the out data
\* FIFO, and only the frame being copied has words without an entry.
OutFraming ==
  Len(outData) = outCount * FrameWords
                   + (IF idState = "GET_PACKET_DATA" THEN rxCounter ELSE 0)

\* What TxOwnership and RxOwnership rest on; with them and TypeOK an inductive
\* invariant.
WrapBits ==
  \A i \in Ring : /\ txBD[i].r => (txBD[i].w <=> i = NBD - 1)
                  /\ rxBD[i].e => (rxBD[i].w <=> i = NBD - 1)

Progress ==
  /\ txEng \in {"dma", "status"} => txBD[macTx].r
  /\ txEng = "dma" => Len(txFetched) < FrameWords
  /\ rxEng = "dma" => rxCount < FrameWords
  /\ idState \in TxCopyStates => txCounter < FrameWords
  /\ idState = "GET_PACKET_DATA" => rxCounter < FrameWords
  /\ idState \in TxStates => Succ(head) # tail

Initialising ==
  /\ idState \in InitStates => tail = 0 /\ macTx = 0 /\ rdTail = 0
  /\ idState \in BootStates \cup RxInitStates =>
       /\ head = 0
       /\ \A i \in Ring : rdHead <= i => ~rxBD[i].e /\ ~rxBD[i].len
  /\ idState \in BootStates => macRx = 0 /\ rdHead = 0

IInv == /\ TypeOK /\ TxOwnership /\ RxOwnership /\ OutFraming
        /\ WrapBits /\ Progress /\ Initialising

Increasing(frames) ==
  /\ \A k \in DOMAIN frames : frames[k] = Frame(frames[k][1])
  /\ \A j, k \in DOMAIN frames : j < k => frames[j][1] < frames[k][1]

\* What goes to the PHY, and what the host reads, are whole frames, none twice,
\* none overtaken by a later one.
WireInOrder == Increasing(wire)
HostInOrder == Increasing(host)

\* A received frame waits at rdTail / a transmitted BD waits at tail.
RxWork == rxBD[rdTail].len /\ ~rxBD[rdTail].e
TxWork == tail # head /\ ~txBD[tail].r

\* Something will make InjectData look at the receive / at the transmit ring.
RxNoticed == \/ (pulse \cup irq \cup newIrq) \cap RxIrqs # {}
             \/ sendPacket \/ idState \in RxStates
TxNoticed == \/ (pulse \cup irq \cup newIrq) \cap TxIrqs # {}
             \/ clearTxDesc \/ idState \in ClearStates \cup InitStates

\* Work is never forgotten by InjectData's flags and scans: only the write
\* that clears all interrupt sources at once can leave work without notice.
OnlyClearForgets ==
  [][ /\ (RxWork => RxNoticed) /\ ~(RxWork => RxNoticed)' => ClearIrq
      /\ (TxWork => TxNoticed) /\ ~(TxWork => TxNoticed)' => ClearIrq ]_vars

RxNeverForgotten == RxWork => RxNoticed
TxNeverForgotten == TxWork => TxNoticed

(***************************************************************************)
(* Liveness.                                                                *)
(***************************************************************************)

\* Every frame the host sends is taken, transmitted and reclaimed.
TxDrains == (hostSent > 0) ~> (taken = hostSent /\ tail = head)

\* Every frame stored for the bridge reaches the host.
RxDrains == RxWork ~> ~RxWork

\* A register access ends.
CtlServed == (ctl # "none") ~> (ctl = "none")

(***************************************************************************)
(* Refinement of EthLink: the frames under way, read off the FIFOs, the     *)
(* rings and the buffers.                                                   *)
(***************************************************************************)

\* Towards the wire: the MAC's buffers in ring order, the frame InjectData is
\* writing, the in FIFOs.
TxOwned == IF idState \in InitStates THEN 0 ELSE Dist(macTx, head)
TxWriting == IF idState \in TxStates THEN <<Frame(taken)>> ELSE <<>>
TxQueue == [k \in 1 .. TxOwned |-> txBuf[Plus(macTx, k - 1)]]
             \o TxWriting
             \o [k \in 1 .. hostSent - taken |-> Frame(taken + k)]

\* From the wire: the frames complete in the out FIFOs, then the filled buffers,
\* except the one at rdTail once it is in the out FIFOs as a whole.
RxFilled == IF macRx # rdTail THEN Dist(rdTail, macRx)
            ELSE IF rxBD[rdTail].len THEN NBD ELSE 0
RxCopied == IF idState = "RESET_ETHMAC_RX_BUF_DESC_1" THEN 1 ELSE 0
RxQueue == [k \in 1 .. outCount |->
              SubSeq(outData, (k - 1) * FrameWords + 1, k * FrameWords)]
             \o [k \in 1 .. RxFilled - RxCopied |->
                   rxBuf[Plus(rdTail, k + RxCopied - 1)]]

Link == INSTANCE EthLink WITH
          LinkFrame <- Frame, sent <- hostSent, txQueue <- TxQueue,
          seen <- rxSeen, rxQueue <- RxQueue

\* The bridge implements the pair of queues.
LinkSpec == Link!LinkSpec
=============================================================================
