---------------------------- MODULE EthResetProofs ----------------------------
(***************************************************************************)
(* The rings after a reset.  Block RAM keeps the descriptors, so that the   *)
(* initialisation does not start from a cleared memory: until it has        *)
(* rewritten them all, Booting holds in the place of IInv.                  *)
(***************************************************************************)
EXTENDS EthReset, EthInterfaceProofs

USE NBDAssumption, FrameWordsAssumption

\* Until the last receive BD is written.
EarlyStates == BootStates \cup RxInitStates

\* What a reset with nothing to be sent leaves, and what is written since: the
\* receive BDs from rdHead on are those of before, in any state.
Booting ==
  /\ TypeOK /\ WrapBits
  /\ outData = <<>> /\ outCount = 0 /\ ~passData
  /\ head = 0 /\ tail = 0 /\ rdTail = 0 /\ macTx = 0 /\ macRx = 0
  /\ txEng \in {"off", "bd"} /\ rxEng \in {"off", "bd", "ready"}
  /\ rxEng = "ready" => rxBD[0].e
  /\ idState \in BootStates => rdHead = 0
  /\ \A i \in Ring : ~txBD[i].r
  /\ \A i \in Ring : i < rdHead => rxBD[i].e /\ ~rxBD[i].len

RInv == IF idState \in EarlyStates THEN Booting ELSE IInv

LEMMA EarlyAreInit ==
  /\ EarlyStates \subseteq InitStates
  /\ InitStates = EarlyStates \cup {"WRITE_ETHMAC_TX_BUF_DESC_0"}
  BY DEF EarlyStates, InitStates, BootStates, RxInitStates, TxInitStates

\* Power-up.
LEMMA RInitInv == RInit => RInv
<1> SUFFICES ASSUME Init PROVE Booting
  BY DEF RInit, RInv, Init, IdInit, EarlyStates, BootStates
<1>1. IInv
  BY InitIInv
<1> QED
  BY <1>1 DEF IInv, Booting, Init, MacInit, IdInit, Ring

\* Whatever the bridge was doing, the button leads to Booting.
LEMMA ResetKeeps ==
  ASSUME DrainedReset, RInv, Reset
  PROVE  RInv'
<1>1. idState' = "RESET"
  BY DEF Reset, BridgeRegisters
<1>2. TypeOK /\ WrapBits
  BY DEF RInv, Booting, IInv
<1>3. UNCHANGED <<txBD, rxBD, txBuf, rxBuf, wire, rxSeen, hostSent, host>>
  BY DEF Reset, bdVars, netVars
<1>4. head' = 0 /\ tail' = 0 /\ rdHead' = 0 /\ rdTail' = 0 /\ 0 \in Ring
  BY DEF Reset, BridgeRegisters, Ring
<1>5. macTx' = 0 /\ macRx' = 0 /\ txEng' = "off" /\ rxEng' = "off"
  BY DEF Reset, MacRegisters
<1>6. TypeOK'
  <2>1. /\ txFetched' = <<>> /\ rxCount' = 0 /\ pulse' = {} /\ irq' = {} /\ newIrq' = {}
        /\ hmiState' = "IDLE" /\ grant' = "hmi"
    BY DEF Reset, MacRegisters
  <2>2. /\ sendPacket' = FALSE /\ clearTxDesc' = FALSE /\ passData' = FALSE
        /\ txCounter' = 0 /\ rxCounter' = 0 /\ rxWord' = 0
    BY DEF Reset, BridgeRegisters
  <2>3. taken' = hostSent /\ outData' = <<>> /\ outCount' = 0 /\ ctl' = "none"
    BY DEF Reset, Fifos
  <2>4. txBD \in [Ring -> [r : BOOLEAN, w : BOOLEAN]] /\ 0 \in 0 .. FrameWords
    BY <1>2 DEF TypeOK
  <2>5. <<>> \in Seq(Nums) /\ {} \subseteq IrqBits
    BY DEF Nums
  <2> QED
    BY <1>1, <1>2, <1>3, <1>4, <1>5, <2>1, <2>2, <2>3, <2>4, <2>5
       DEF TypeOK, Nums, HmiStates, IdStates, InitStates, BootStates, Masters
<1>7. outData' = <<>> /\ outCount' = 0 /\ ~passData'
  BY DEF Reset, Fifos, BridgeRegisters
<1>8. WrapBits'
  BY <1>2, <1>3 DEF WrapBits
<1>9. \A i \in Ring : ~txBD'[i].r
  BY <1>3 DEF Reset
<1>10. \A i \in Ring : ~(i < rdHead')
  BY <1>4 DEF Ring
<1> QED
  BY <1>1, <1>4, <1>5, <1>6, <1>7, <1>8, <1>9, <1>10
     DEF Booting, RInv, EarlyStates, BootStates

(***************************************************************************)
(* While the receive BDs are written.                                       *)
(***************************************************************************)
LEMMA BootHmi == Booting /\ HmiStep => Booting'
<1> SUFFICES ASSUME Booting, HmiStep PROVE Booting'
  OBVIOUS
<1>1. UNCHANGED <<txBD, rxBD, txBuf, rxBuf, engineVars, pulse, netVars, idVars, host>>
  BY DEF HmiStep, macSide, bdVars
<1>2. UNCHANGED <<idState, ringVars, flagVars, copyVars, fifoVars, ctl>>
  BY <1>1 DEF idVars
<1>3. TypeOK'
  <2>1. hmiState' \in HmiStates /\ irq' \subseteq IrqBits /\ newIrq' \subseteq IrqBits
    BY DEF Booting, TypeOK, HmiStep, HmiBusStep, SeeInt, ReadIrq, ClearIrq, HmiStates
  <2>2. grant' \in Masters
    BY GrantType DEF Booting, TypeOK, HmiStep, Acked, OffBus, Masters
  <2> QED
    BY <1>1, <1>2, <2>1, <2>2 DEF Booting, TypeOK, engineVars, netVars, ringVars, flagVars, copyVars, fifoVars
<1> QED
  BY <1>1, <1>2, <1>3 DEF Booting, WrapBits, engineVars, ringVars, copyVars, fifoVars

LEMMA BootMac == Booting /\ MacStep => Booting'
<1> SUFFICES ASSUME Booting, MacStep PROVE Booting'
  OBVIOUS
<1>1. UNCHANGED <<hmiVars, idVars, host>>
  BY DEF MacStep
<1>2. UNCHANGED <<hmiState, newIrq, idState, ringVars, flagVars, copyVars, fifoVars, ctl>>
  BY <1>1 DEF idVars, hmiVars
<1>3. grant' \in Masters
  BY GrantType DEF Booting, TypeOK, MacStep, Acked, OffBus, Masters
<1>4. macTx \in Ring /\ ~txBD[macTx].r
  BY DEF Booting, TypeOK
<1>5. RxBDRead \/ LatchIrq
  BY <1>4 DEF Booting, MacStep, MacBusStep, MacInternalStep, TxFetch, RxStore, TxBDRead,
     TxStatusWrite, RxStatusWrite
<1>6. CASE RxBDRead
  <2>1. /\ UNCHANGED <<txBD, rxBD, txBuf, rxBuf, macTx, macRx, txEng, txFetched, rxCount, pulse, irq,
                       wire, rxSeen>>
        /\ rxEng' = "ready" /\ rxBD[macRx].e
    BY <1>6 DEF RxBDRead, bdVars, netVars
  <2>2. TypeOK'
    BY <1>1, <1>2, <1>3, <2>1 DEF Booting, TypeOK, ringVars, flagVars, copyVars, fifoVars
  <2> QED
    BY <1>2, <2>1, <2>2 DEF Booting, WrapBits, ringVars, copyVars, fifoVars
<1>7. CASE LatchIrq
  <2>1. UNCHANGED <<txBD, rxBD, txBuf, rxBuf, macTx, macRx, txEng, txFetched, rxEng, rxCount,
                    wire, rxSeen>>
    BY <1>7 DEF LatchIrq, bdVars, netVars, engineVars
  <2>2. irq' \subseteq IrqBits /\ pulse' \subseteq IrqBits
    BY <1>7 DEF LatchIrq, Booting, TypeOK
  <2>3. TypeOK'
    BY <1>1, <1>2, <1>3, <2>1, <2>2 DEF Booting, TypeOK, ringVars, flagVars, copyVars, fifoVars
  <2> QED
    BY <1>2, <2>1, <2>3 DEF Booting, WrapBits, ringVars, copyVars, fifoVars
<1> QED
  BY <1>5, <1>6, <1>7

LEMMA BootUsb == Booting /\ idState \in EarlyStates /\ UsbStep => Booting'
<1> SUFFICES ASSUME Booting, idState \in EarlyStates, UsbStep PROVE Booting'
  OBVIOUS
<1>1. /\ UNCHANGED <<txBD, rxBD, txBuf, rxBuf, engineVars, pulse, irq, netVars, hmiVars, idState, ringVars,
                  flagVars, copyVars>>
  BY DEF UsbStep, macSide, bdVars
<1>2. grant' \in Masters
  BY GrantType DEF Booting, TypeOK, UsbStep, OffBus
<1>3. /\ hostSent' \in Nat /\ ctl' \in {"none", "read", "write"}
      /\ UNCHANGED <<taken, outData, outCount, host>>
  BY DEF UsbStep, HostSend, HostTake, CtlRequest, Booting, TypeOK, fifoVars
<1>4. TypeOK'
  BY <1>1, <1>2, <1>3 DEF Booting, TypeOK, engineVars, netVars, hmiVars, ringVars, flagVars, copyVars
<1> QED
  BY <1>1, <1>3, <1>4 DEF Booting, WrapBits, engineVars, ringVars, copyVars

\* InjectData goes through its initialisation; with the last receive BD the rings
\* are those of IInv.
LEMMA BootId == Booting /\ idState \in EarlyStates /\ IdStep => RInv'
<1> SUFFICES ASSUME Booting, idState \in EarlyStates, IdStep PROVE RInv'
  OBVIOUS
<1>1. UNCHANGED <<rxBuf, pulse, irq, netVars, hmiState, host>> /\ grant' \in Masters
  BY GrantType DEF Booting, TypeOK, IdStep, Acked, OffBus, Masters
<1>2. Boot \/ WriteConfig \/ WriteModer \/ WriteRxPointer \/ WriteRxDesc \/ Wait
  BY DEF IdStep, IdBusStep, IdInternalStep, WriteTxPointer, IdleRx, IdleClear, IdleTake, IdleCtl,
     RegAccess, RegEnd, ClearTxDesc, ClearTxDescWait, GetRxPacketLength, GetPacketData, PassData,
     ResetRxDesc, WriteDataPrepare, WriteData, WriteTxDesc, EarlyStates, BootStates, RxInitStates
<1>3. /\ UNCHANGED <<head, tail, rdTail, copyVars, fifoVars, ctl, txBD, txBuf>>
      /\ KeepFlags
  BY <1>2 DEF Boot, WriteConfig, WriteModer, WriteRxPointer, WriteRxDesc, Wait, ringVars, macSide, bdVars
<1>4. sendPacket' \in BOOLEAN /\ clearTxDesc' \in BOOLEAN /\ newIrq' = {}
  BY <1>3 DEF KeepFlags, LatchFlags, Booting, TypeOK
<1>5. ASSUME /\ rxBD' \in [Ring -> [e : BOOLEAN, w : BOOLEAN, len : BOOLEAN]]
             /\ macTx' = 0 /\ macRx' = 0 /\ txEng' \in {"off", "bd"} /\ txFetched' = txFetched
             /\ rxEng' \in {"off", "bd", "ready"} /\ rxCount' = rxCount
             /\ idState' \in InitStates /\ rdHead' \in Ring
      PROVE  TypeOK' /\ outData' = <<>> /\ outCount' = 0
  <2>1. idState' \in IdStates
    BY <1>5 DEF IdStates, EarlyStates, InitStates, BootStates, RxInitStates, TxInitStates
  <2>2. TypeOK'
    BY <1>1, <1>3, <1>4, <1>5, <2>1 DEF Booting, TypeOK, netVars, copyVars, fifoVars, IrqBits
  <2> QED
    BY <1>3, <2>2 DEF Booting, fifoVars
<1>6. CASE Boot \/ WriteConfig \/ WriteRxPointer \/ Wait
  <2>1. UNCHANGED <<rxBD, macTx, macRx, txEng, rxEng, txFetched, rxCount, rdHead>>
    BY <1>6 DEF Boot, WriteConfig, WriteRxPointer, Wait, ringVars, macSide, bdVars, engineVars
  <2>2. /\ idState' \in EarlyStates
        /\ idState' \in BootStates => idState \in BootStates
    BY <1>6 DEF Boot, WriteConfig, WriteRxPointer, Wait, EarlyStates, BootStates, RxInitStates
  <2>3. TypeOK' /\ outData' = <<>> /\ outCount' = 0
    BY <1>5, <2>1, <2>2, EarlyAreInit DEF Booting, TypeOK
  <2> QED
    BY <1>3, <2>1, <2>2, <2>3 DEF RInv, Booting, WrapBits, copyVars
<1>7. CASE WriteModer
  <2>1. /\ UNCHANGED <<rxBD, txFetched, rxCount, rdHead>> /\ idState \in BootStates
        /\ macTx' = 0 /\ macRx' = 0 /\ txEng' = "bd" /\ rxEng' = "bd"
        /\ idState' \in EarlyStates
    BY <1>7 DEF WriteModer, EnableMac, ringVars, bdVars, EarlyStates, BootStates, RxInitStates
  <2>2. TypeOK' /\ outData' = <<>> /\ outCount' = 0
    BY <1>5, <2>1, EarlyAreInit DEF Booting, TypeOK
  <2> QED
    BY <1>3, <2>1, <2>2 DEF RInv, Booting, WrapBits, copyVars
<1>8. CASE WriteRxDesc
  <2>1. /\ UNCHANGED <<macTx, macRx, txEng, rxEng, txFetched, rxCount>>
        /\ rdHead \in Ring /\ 0 \in Ring /\ DOMAIN rxBD = Ring
        /\ rxBD' = [rxBD EXCEPT ![rdHead] = [e |-> TRUE, w |-> rdHead = NBD - 1, len |-> FALSE]]
    BY <1>8 DEF WriteRxDesc, WriteRxBD, engineVars, Booting, TypeOK, Ring
  <2>2. rxBD' \in [Ring -> [e : BOOLEAN, w : BOOLEAN, len : BOOLEAN]]
    BY <2>1 DEF Booting, TypeOK
  <2>3. /\ rxBD'[rdHead].e /\ ~rxBD'[rdHead].len /\ (rxBD'[rdHead].w <=> rdHead = NBD - 1)
        /\ \A i \in Ring : i # rdHead => rxBD'[i] = rxBD[i]
    BY <2>1
  <2>4. WrapBits'
    BY <1>3, <2>3 DEF Booting, WrapBits
  <2>5. rxEng' = "ready" => rxBD'[0].e
    BY <2>1, <2>3 DEF Booting
  <2>6. CASE Succ(rdHead) # 0
    <3>1. /\ rdHead' = Succ(rdHead) /\ idState' = "WRITE_ETHMAC_RX_BUF_DESC_0"
      BY <1>8, <2>6 DEF WriteRxDesc, Booting
    <3>2. rdHead' = rdHead + 1 /\ rdHead' \in Ring
      BY <2>1, <2>6, <3>1 DEF Succ, Ring
    <3>3. idState' \in EarlyStates /\ idState' \notin BootStates
      BY <3>1 DEF EarlyStates, BootStates, RxInitStates
    <3>4. TypeOK' /\ outData' = <<>> /\ outCount' = 0
      BY <1>5, <2>1, <2>2, <3>2, <3>3, EarlyAreInit DEF Booting
    <3>5. \A i \in Ring : i < rdHead' => rxBD'[i].e /\ ~rxBD'[i].len
      BY <2>1, <2>3, <3>2 DEF Booting, Ring
    <3> QED
      BY <1>3, <2>1, <2>4, <2>5, <3>3, <3>4, <3>5 DEF RInv, Booting, copyVars
  <2>7. CASE Succ(rdHead) = 0
    <3>1. /\ rdHead' = rdHead /\ idState' = "WRITE_ETHMAC_TX_BUF_DESC_0" /\ rdHead = NBD - 1
      BY <1>8, <2>1, <2>7 DEF WriteRxDesc, Booting, Succ, Ring
    <3>2. idState' \in InitStates /\ idState' \notin EarlyStates
      BY <3>1 DEF EarlyStates, BootStates, RxInitStates, InitStates, TxInitStates
    <3>3. TypeOK' /\ outData' = <<>> /\ outCount' = 0
      BY <1>5, <2>1, <2>2, <3>1, <3>2 DEF Booting
    <3>4. \A i \in Ring : rxBD'[i].e /\ ~rxBD'[i].len
      BY <2>1, <2>3, <3>1 DEF Booting, Ring
    <3>5. /\ head' = 0 /\ tail' = 0 /\ rdTail' = 0 /\ macTx' = 0 /\ macRx' = 0
          /\ txEng' \in {"off", "bd"} /\ rxEng' \in {"off", "bd", "ready"}
          /\ \A i \in Ring : ~txBD'[i].r
      BY <1>3, <2>1 DEF Booting
    <3>6. TxOwnership'
      BY <2>1, <3>1, <3>2, <3>5 DEF TxOwnership, Dist, TxStates, TxCopyStates
    <3>10. OutFraming'
      BY <3>1, <3>3 DEF OutFraming
    <3>7. RxOwnership'
      BY <2>1, <3>1, <3>4, <3>5 DEF RxOwnership, RxCopyStates
    <3>8. Progress'
      BY <3>1, <3>5 DEF Progress, TxCopyStates, TxStates
    <3>9. Initialising'
      BY <3>1, <3>2, <3>5 DEF Initialising, EarlyStates
    <3> QED
      BY <2>4, <3>2, <3>3, <3>6, <3>7, <3>8, <3>9, <3>10 DEF RInv, IInv
  <2> QED
    BY <2>6, <2>7
<1> QED
  BY <1>2, <1>6, <1>7, <1>8

\* phy_resetn is low: no frame arrives.
LEMMA BootRun ==
  ASSUME Booting, idState \in EarlyStates, Run
  PROVE  RInv'
<1>1. rxSeen' = rxSeen
  BY EarlyAreInit DEF Run
<1>2. CASE HmiStep
  <2>1. idState' = idState
    BY <1>2 DEF HmiStep, idVars
  <2> QED
    BY <1>2, <2>1, BootHmi DEF RInv
<1>3. CASE IdStep
  BY <1>3, BootId
<1>4. CASE MacStep
  <2>1. idState' = idState
    BY <1>4 DEF MacStep, idVars
  <2> QED
    BY <1>4, <2>1, BootMac DEF RInv
<1>5. CASE NetStep
  <2>1. rxSeen \in Nat /\ rxEng # "dma"
    BY DEF Booting, TypeOK
  <2> QED
    BY <1>1, <1>5, <2>1 DEF NetStep, WireStep, RxFrameStart, RxBusy, RxAbort
<1>6. CASE UsbStep
  <2>1. idState' = idState
    BY <1>6 DEF UsbStep
  <2> QED
    BY <1>6, <2>1, BootUsb DEF RInv
<1> QED
  BY <1>2, <1>3, <1>4, <1>5, <1>6 DEF Run, Next

(***************************************************************************)
(* Afterwards.                                                              *)
(***************************************************************************)
\* Only a reset leads back into the initialisation.
LEMMA NoWayBack ==
  ASSUME Next, idState \notin EarlyStates
  PROVE  idState' \notin EarlyStates
<1>1. CASE IdStep
  BY <1>1 DEF IdStep, IdBusStep, IdInternalStep, Boot, WriteConfig, WriteModer, WriteRxPointer,
     WriteRxDesc, WriteTxPointer, IdleRx, IdleClear, IdleTake, IdleCtl, RegAccess, RegEnd, ClearTxDesc,
     ClearTxDescWait, GetRxPacketLength, GetPacketData, PassData, PushWord, ResetRxDesc,
     WriteDataPrepare, WriteData, WriteTxDesc, Wait, EarlyStates, BootStates, RxInitStates
<1>2. CASE HmiStep \/ MacStep \/ NetStep \/ UsbStep
  BY <1>2 DEF HmiStep, MacStep, NetStep, UsbStep, idVars
<1> QED
  BY <1>1, <1>2 DEF Next

LEMMA RNextInv == DrainedReset /\ RInv /\ [RNext]_rvars => RInv'
<1> SUFFICES ASSUME DrainedReset, RInv, [RNext]_rvars PROVE RInv'
  OBVIOUS
<1>1. CASE Reset
  BY <1>1, ResetKeeps
<1>2. CASE Run /\ idState \in EarlyStates
  BY <1>2, BootRun DEF RInv
<1>3. CASE Run /\ idState \notin EarlyStates
  BY <1>3, NextIInv, NoWayBack DEF RInv, Run
<1>4. CASE UNCHANGED rvars
  <2>1. UNCHANGED vars /\ idState' = idState
    BY <1>4 DEF rvars, vars, idVars
  <2>2. CASE idState \notin EarlyStates
    BY <2>1, <2>2, Stutter DEF RInv
  <2>3. CASE idState \in EarlyStates
    <3>1. Booting' 
      BY <2>1, <2>3 DEF RInv, Booting, TypeOK, WrapBits, vars, hmiVars, idVars, engineVars,
         netVars, ringVars, flagVars, copyVars, fifoVars
    <3> QED
      BY <2>1, <2>3, <3>1 DEF RInv
  <2> QED
    BY <2>2, <2>3
<1> QED
  BY <1>1, <1>2, <1>3, <1>4 DEF RNext

LEMMA RInvariant == DrainedReset => (RSpec => []RInv)
<1> SUFFICES ASSUME DrainedReset PROVE RSpec => []RInv
  OBVIOUS
<1>1. RInv /\ [RNext]_rvars => RInv'
  BY RNextInv
<1> QED
  BY RInitInv, <1>1, PTL DEF RSpec

\* Pressed while no frame is to be sent, the button leaves the rings as sound as
\* power-up does, although the descriptors stay in block RAM: whenever the bridge
\* runs again each descriptor has one owner and the out FIFOs agree.
THEOREM OwnershipSurvivesReset == DrainedReset => (RSpec => []RunningOwnership)
<1> SUFFICES ASSUME DrainedReset PROVE RSpec => []RunningOwnership
  OBVIOUS
<1>1. RInv => RunningOwnership
  BY EarlyAreInit DEF RInv, RunningOwnership, IInv
<1> QED
  BY <1>1, RInvariant, PTL

(***************************************************************************)
(* Order across resets.                                                     *)
(***************************************************************************)
\* What the PHY and the host have had, while the buffers are of no account.
History ==
  /\ WireInOrder /\ HostInOrder
  /\ taken <= hostSent /\ \A k \in DOMAIN wire : wire[k][1] <= taken
  /\ \A n \in DOMAIN host : host[n][1] <= rxSeen

RContents == IF idState \in EarlyStates THEN History ELSE Contents

\* History is part of what holds while the bridge runs.
LEMMA ContentsHistory == TypeOK /\ Contents => History
<1> SUFFICES ASSUME TypeOK, Contents PROVE History
  OBVIOUS
<1>1. WireInOrder /\ HostInOrder /\ taken <= hostSent
  BY DEF Contents, TxContents, TxOrder, RxContents
<1>2. ASSUME NEW k \in DOMAIN wire PROVE wire[k][1] <= taken
  <2>1. wire[k][1] \in Nat /\ taken \in Nat
    BY <1>1, FirstType DEF TypeOK, WireInOrder, Nums
  <2>2. wire[k][1] <= TxDone
    BY DEF Contents, TxContents, TxOrder
  <2> QED
    BY <2>1, <2>2 DEF TxDone
<1>3. ASSUME NEW n \in DOMAIN host PROVE host[n][1] <= rxSeen
  <2>1. host[n][1] \in Nat /\ rxSeen \in Nat
    BY <1>1, FirstType DEF TypeOK, HostInOrder, Nums
  <2>2. host[n][1] <= RxDone
    BY DEF Contents, RxContents, RxOrder
  <2> QED
    BY <2>1, <2>2 DEF RxDone
<1> QED
  BY <1>1, <1>2, <1>3 DEF History

LEMMA ResetHistory ==
  ASSUME RInv, RContents, Reset
  PROVE  RContents'
<1>1. TypeOK
  BY DEF RInv, Booting, IInv
<1>2. History
  BY <1>1, ContentsHistory DEF RContents
<1>3. idState' = "RESET" /\ taken' = hostSent /\ UNCHANGED <<wire, rxSeen, hostSent, host>>
  BY DEF Reset, BridgeRegisters, Fifos, netVars
<1>4. hostSent \in Nat /\ taken \in Nat /\ taken <= hostSent
  BY <1>1, <1>2 DEF TypeOK, History
<1>5. ASSUME NEW k \in DOMAIN wire PROVE wire[k][1] <= hostSent
  <2>1. wire[k][1] \in Nat
    BY <1>1, <1>2, FirstType DEF TypeOK, History, WireInOrder, Nums
  <2>2. wire[k][1] <= taken
    BY <1>2 DEF History
  <2> QED
    BY <1>4, <2>1, <2>2
<1>6. History'
  BY <1>2, <1>3, <1>4, <1>5 DEF History, WireInOrder, HostInOrder
<1> QED
  BY <1>3, <1>6 DEF RContents, EarlyStates, BootStates

\* While the rings are set up nothing comes to the wire or to the host.
LEMMA BootHistory ==
  ASSUME Booting, idState \in EarlyStates, History, Run
  PROVE  History'
<1>1. rxSeen' = rxSeen
  BY EarlyAreInit DEF Run
<1>2. wire' = wire
  BY DEF Booting, Run, Next, HmiStep, IdStep, MacStep, MacBusStep, MacInternalStep, TxFetch, RxStore, TxBDRead,
     RxBDRead, LatchIrq, TxStatusWrite, RxStatusWrite, NetStep, WireStep, RxFrameStart, RxBusy, RxAbort,
     UsbStep, netVars
<1>3. host' = host
  BY DEF Booting, Run, Next, HmiStep, IdStep, MacStep, NetStep, UsbStep, HostSend, HostTake, CtlRequest
<1>4. taken' = taken
  <2>1. CASE IdStep
    BY <2>1 DEF IdStep, IdBusStep, IdInternalStep, Boot, WriteConfig, WriteModer, WriteRxPointer, WriteRxDesc,
       WriteTxPointer, IdleRx, IdleClear, IdleTake, IdleCtl, RegAccess, RegEnd, ClearTxDesc,
       ClearTxDescWait, GetRxPacketLength, GetPacketData, PassData, ResetRxDesc, WriteDataPrepare,
       WriteData, WriteTxDesc, Wait, fifoVars, EarlyStates, BootStates, RxInitStates
  <2>2. CASE ~IdStep
    BY <2>2 DEF Run, Next, HmiStep, MacStep, NetStep, UsbStep, HostSend, HostTake, CtlRequest, idVars, fifoVars
  <2> QED
    BY <2>1, <2>2
<1>5. hostSent \in Nat /\ taken \in Nat /\ hostSent' \in Nat /\ hostSent' >= hostSent
  <2>1. hostSent \in Nat /\ taken \in Nat
    BY DEF Booting, TypeOK
  <2>2. CASE IdStep
    <3>1. hostSent' = hostSent
      BY <2>2 DEF IdStep, IdBusStep, IdInternalStep, Boot, WriteConfig, WriteModer, WriteRxPointer,
         WriteRxDesc, WriteTxPointer, IdleRx, IdleClear, IdleTake, IdleCtl, RegAccess, RegEnd, ClearTxDesc,
         ClearTxDescWait, GetRxPacketLength, GetPacketData, PassData, ResetRxDesc, WriteDataPrepare,
         WriteData, WriteTxDesc, Wait, fifoVars
    <3> QED
      BY <2>1, <3>1
  <2>3. CASE ~IdStep
    BY <2>1, <2>3 DEF Run, Next, HmiStep, MacStep, NetStep, UsbStep, HostSend, HostTake, CtlRequest, idVars,
       fifoVars
  <2> QED
    BY <2>1, <2>2, <2>3
<1>6. taken <= hostSent'
  BY <1>5 DEF History
<1> QED
  BY <1>1, <1>2, <1>3, <1>4, <1>6 DEF History, WireInOrder, HostInOrder

\* With the last receive BD written no buffer counts as filled.
LEMMA BootEnds ==
  ASSUME Booting, idState \in EarlyStates, Run, idState' \notin EarlyStates
  PROVE  /\ idState' = "WRITE_ETHMAC_TX_BUF_DESC_0"
         /\ \A i \in Ring : ~txBD'[i].r /\ ~rxBD'[i].len
         /\ outCount' = 0 /\ ~passData'
         /\ txEng' \in {"off", "bd"} /\ rxEng' \in {"off", "bd", "ready"}
<1>1. IdStep
  BY DEF Run, Next, HmiStep, MacStep, NetStep, UsbStep, idVars
<1>2. WriteRxDesc
  BY <1>1 DEF IdStep, IdBusStep, IdInternalStep, Boot, WriteConfig, WriteModer, WriteRxPointer, WriteTxPointer,
     IdleRx, IdleClear, IdleTake, IdleCtl, RegAccess, RegEnd, ClearTxDesc, ClearTxDescWait,
     GetRxPacketLength, GetPacketData, PassData, ResetRxDesc, WriteDataPrepare, WriteData, WriteTxDesc,
     Wait, EarlyStates, BootStates, RxInitStates
<1>3. /\ UNCHANGED <<outCount, passData, txBD, txEng, rxEng>>
  BY <1>2 DEF WriteRxDesc, copyVars, fifoVars, engineVars
<1>4. /\ idState' = "WRITE_ETHMAC_TX_BUF_DESC_0" /\ Succ(rdHead) = 0
  BY <1>2 DEF WriteRxDesc, Booting, EarlyStates, RxInitStates
<1>5. rdHead = NBD - 1 /\ DOMAIN rxBD = Ring
  BY <1>4 DEF Booting, TypeOK, Succ, Ring
<1>6. rxBD' = [rxBD EXCEPT ![rdHead] = [e |-> TRUE, w |-> rdHead = NBD - 1, len |-> FALSE]]
  BY <1>2 DEF WriteRxDesc, WriteRxBD
<1>7. \A i \in Ring : ~rxBD'[i].len
  <2> TAKE i \in Ring
  <2>1. i = rdHead \/ i < rdHead
    BY <1>5 DEF Ring
  <2> QED
    BY <1>5, <1>6, <2>1 DEF Booting
<1> QED
  BY <1>3, <1>4, <1>7 DEF Booting

LEMMA RContentsKept == DrainedReset /\ RInv /\ RContents /\ [RNext]_rvars => RContents'
<1> SUFFICES ASSUME DrainedReset, RInv, RContents, [RNext]_rvars PROVE RContents'
  OBVIOUS
<1>1. CASE Reset
  BY <1>1, ResetHistory
<1>2. CASE Run /\ idState \in EarlyStates
  <2>1. Booting /\ History /\ History' /\ RInv'
    BY <1>2, BootHistory, BootRun DEF RInv, RContents
  <2>2. CASE idState' \in EarlyStates
    BY <2>1, <2>2 DEF RContents
  <2>3. CASE idState' \notin EarlyStates
    <3>1. /\ idState' = "WRITE_ETHMAC_TX_BUF_DESC_0"
          /\ \A i \in Ring : ~txBD'[i].r /\ ~rxBD'[i].len
          /\ outCount' = 0 /\ ~passData'
          /\ txEng' \in {"off", "bd"} /\ rxEng' \in {"off", "bd", "ready"}
      BY <1>2, <2>1, <2>3, BootEnds
    <3>2. TxDone' = taken' /\ RxDone' = rxSeen'
      BY <3>1 DEF TxDone, RxDone, TxStates, TxCopyStates
    <3>3. TxContents'
      BY <2>1, <3>1, <3>2 DEF History, TxContents, TxOrder, TxWords, TxStates, TxCopyStates
    <3>4. RxContents'
      BY <2>1, <3>1, <3>2 DEF History, RxContents, OutOrder, RxOrder, RxWords, Stored
    <3> QED
      BY <2>3, <3>3, <3>4 DEF RContents, Contents
  <2> QED
    BY <2>2, <2>3
<1>3. CASE Run /\ idState \notin EarlyStates
  BY <1>3, ContentsKept, NoWayBack DEF RInv, RContents, Run
<1>4. CASE UNCHANGED rvars
  <2>1. UNCHANGED vars /\ idState' = idState
    BY <1>4 DEF rvars, vars, idVars
  <2>2. CASE idState \notin EarlyStates
    BY <2>1, <2>2, ContentsKept DEF RInv, RContents
  <2>3. CASE idState \in EarlyStates
    <3>1. UNCHANGED <<wire, host, taken, hostSent, rxSeen>>
      BY <2>1 DEF vars, netVars, idVars, fifoVars
    <3> QED
      BY <2>1, <2>3, <3>1 DEF RContents, History, WireInOrder, HostInOrder
  <2> QED
    BY <2>2, <2>3
<1> QED
  BY <1>1, <1>2, <1>3, <1>4 DEF RNext

\* Whatever the bursts, polls, scans and waits of both directions do to one
\* another, and pressed at whatever moment with nothing to be sent, the reset button
\* included: what reaches the PHY, and what the host reads, are whole frames, none
\* twice, none overtaken by a later one.
THEOREM OrderSurvivesReset == DrainedReset => (RSpec => []ResetInOrder)
<1> SUFFICES ASSUME DrainedReset PROVE RSpec => []ResetInOrder
  OBVIOUS
<1>1. RInit => RContents
  <2> SUFFICES ASSUME Init PROVE History
    BY DEF RInit, RContents, Init, IdInit, EarlyStates, BootStates
  <2> QED
    BY ContentsInit, InitIInv, ContentsHistory DEF IInv
<1>2. RInv /\ RContents /\ [RNext]_rvars => RContents'
  BY RContentsKept
<1>3. RInv /\ RContents => ResetInOrder
  BY ContentsHistory DEF RInv, RContents, IInv, History, ResetInOrder
<1> QED
  BY <1>1, <1>2, <1>3, RInvariant, PTL DEF RSpec

(***************************************************************************)
(* Nothing unnoticed, with frames in one direction.  What OnlyClearForgets  *)
(* leaves open is the write that clears the interrupt sources: with one     *)
(* direction, what it clears has been read or is being looked at.           *)
(***************************************************************************)
RxBits == RxIrqs \cup {"busy"}
Signals == pulse \cup irq \cup newIrq
Moving == {"dma", "status"}

\* While the rings are set up no frame moves.
Quiet == idState \in InitStates => Signals = {} /\ hmiState = "IDLE" /\ rxEng \notin Moving

\* A frame comes in only after the interrupt of the one before has been handled.
Spaced ==
  (pulse \cup irq) \cap RxBits # {} =>
    rxEng \notin Moving /\ (pulse \cap RxBits = {} \/ irq \cap RxBits = {})

IrqSeen == hmiState # "IDLE" => irq # {}

\* The direction that has no frames is at rest.
TxIdle ==
  hostSent = 0 =>
    /\ \A i \in Ring : ~txBD[i].r
    /\ idState \notin TxStates \cup ClearStates /\ ~clearTxDesc /\ Signals \cap TxIrqs = {}
    /\ idState \notin InitStates => head = tail

RxIdle ==
  rxSeen = 0 =>
    /\ rxEng \notin Moving /\ Signals \cap RxBits = {}
    /\ idState \notin EarlyStates => \A i \in Ring : ~rxBD[i].len

\* Between HandleMacInt's read and its clear the other direction's work is in the
\* pulse or the flag, or InjectData scans: the receive ring, or the transmit ring
\* with its first look still to come, because HandleMacInt gets the bus before.
RxRead ==
  hostSent = 0 /\ hmiState = "CLEAR_IRQ" /\ RxWork =>
    newIrq \cap RxIrqs # {} \/ sendPacket \/ idState \in RxStates

TxRead ==
  rxSeen = 0 /\ hmiState = "CLEAR_IRQ" =>
    \/ newIrq \cap TxIrqs # {} \/ clearTxDesc
    \/ idState = "CLEAR_TX_DESC" /\ grant # "id"

Noticed == idState \notin EarlyStates => RxNeverForgotten /\ TxNeverForgotten

NoticeInv ==
  /\ PulseInv /\ Quiet /\ Spaced /\ IrqSeen /\ TxIdle /\ RxIdle /\ RxRead /\ TxRead /\ Noticed
  /\ hostSent = 0 \/ rxSeen = 0

LEMMA RunFacts ==
  ASSUME RInv
  PROVE  /\ TypeOK
         /\ txEng \in Moving => txBD[macTx].r
         /\ rxEng \in Moving => idState \notin EarlyStates
         /\ idState \in InitStates => tail = 0 /\ \A i \in Ring : ~txBD[i].r
         /\ idState \notin EarlyStates => IInv
<1>1. CASE idState \in EarlyStates
  BY <1>1 DEF RInv, Booting, Moving
<1>2. CASE idState \notin EarlyStates
  BY <1>2 DEF RInv, IInv, Progress, TxOwnership, Initialising, Moving
<1> QED
  BY <1>1, <1>2

\* While HandleMacInt asks for the bus it comes before InjectData, unless
\* InjectData has it and asks.
LEMMA ClearComesFirst ==
  ASSUME TypeOK, hmiState = "CLEAR_IRQ", grant # "id" \/ idState = "IDLE"
  PROVE  Owner # "id" /\ After("mac") # "id"
<1>1. Requests("hmi")
  BY DEF Requests, HmiRequests
<1>2. After("mac") = "hmi"
  BY <1>1 DEF After, NextMaster
<1>3. grant \in Masters
  BY DEF TypeOK
<1>4. CASE grant = "hmi"
  BY <1>1, <1>2, <1>4 DEF Owner
<1>5. CASE grant = "mac"
  BY <1>2, <1>5 DEF Owner
<1>6. CASE grant = "id"
  <2>1. ~Requests("id")
    BY <1>6 DEF Requests, IdRequests
  <2>2. After("id") \in {"mac", "hmi"}
    BY <1>1 DEF After, NextMaster
  <2> QED
    BY <1>2, <1>6, <2>1, <2>2 DEF Owner
<1> QED
  BY <1>3, <1>4, <1>5, <1>6 DEF Masters

LEMMA NoticeHmi ==
  ASSUME RInv, NoticeInv, HmiStep
  PROVE  NoticeInv'
<1>1. /\ UNCHANGED <<txBD, rxBD, rxEng, pulse, idState, head, tail, rdTail, sendPacket, clearTxDesc,
                     hostSent, rxSeen>>
      /\ (RxWork' <=> RxWork) /\ (TxWork' <=> TxWork)
  BY DEF HmiStep, macSide, bdVars, engineVars, netVars, idVars, ringVars, flagVars, fifoVars, RxWork, TxWork
<1>2. TypeOK /\ irq \subseteq IrqBits /\ rdTail \in Ring /\ (idState \notin EarlyStates => IInv)
  BY RunFacts DEF TypeOK
<1>3. IrqBits = TxIrqs \cup RxBits /\ RxIrqs \subseteq RxBits
  BY DEF IrqBits, RxBits
<1>4. CASE SeeInt
  <2>1. UNCHANGED <<newIrq, irq>> /\ hmiState = "IDLE" /\ hmiState' = "READ_IRQ" /\ irq # {}
    BY <1>4 DEF SeeInt, IntOut
  <2>2. idState \notin InitStates
    BY <2>1 DEF NoticeInv, Quiet, Signals
  <2>3. Signals' = Signals /\ newIrq = {}
    BY <1>1, <2>1 DEF Signals, NoticeInv, PulseInv
  <2>4. PulseInv' /\ Quiet' /\ Spaced' /\ IrqSeen'
    BY <1>1, <2>1, <2>2, <2>3 DEF NoticeInv, PulseInv, Quiet, Spaced, IrqSeen
  <2>5. TxIdle' /\ RxIdle' /\ RxRead' /\ TxRead'
    BY <1>1, <2>1, <2>3 DEF NoticeInv, TxIdle, RxIdle, RxRead, TxRead
  <2>6. Noticed'
    BY <1>1, <2>1 DEF NoticeInv, Noticed, RxNeverForgotten, TxNeverForgotten, RxNoticed, TxNoticed
  <2> QED
    BY <1>1, <2>4, <2>5, <2>6 DEF NoticeInv
<1>5. CASE ReadIrq
  <2>1. newIrq' = irq /\ irq' = irq /\ hmiState = "READ_IRQ" /\ hmiState' = "CLEAR_IRQ"
    BY <1>5 DEF ReadIrq
  <2>2. irq # {} /\ newIrq = {} /\ idState \notin InitStates
    BY <2>1 DEF NoticeInv, IrqSeen, PulseInv, Quiet
  <2>3. Signals' = Signals
    BY <1>1, <2>1, <2>2 DEF Signals
  <2>4. PulseInv' /\ Quiet' /\ Spaced' /\ IrqSeen'
    BY <1>1, <2>1, <2>2, <2>3 DEF NoticeInv, PulseInv, Quiet, Spaced, IrqSeen
  <2>5. TxIdle' /\ RxIdle'
    BY <1>1, <2>3 DEF NoticeInv, TxIdle, RxIdle
  <2>6. ASSUME hostSent = 0, RxWork PROVE irq \cap RxIrqs # {} \/ sendPacket \/ idState \in RxStates
    <3>1. irq \cap RxBits # {}
      BY <1>2, <1>3, <2>2, <2>6 DEF NoticeInv, TxIdle, Signals
    <3>2. pulse \cap RxIrqs = {}
      BY <1>3, <3>1 DEF NoticeInv, Spaced
    <3> QED
      BY <2>2, <2>6, <3>2, EarlyAreInit DEF NoticeInv, Noticed, RxNeverForgotten, RxNoticed
  <2>7. rxSeen = 0 => irq \cap TxIrqs # {}
    BY <1>2, <1>3, <2>2 DEF NoticeInv, RxIdle, Signals
  <2>8. RxRead' /\ TxRead'
    BY <1>1, <2>1, <2>6, <2>7 DEF RxRead, TxRead
  <2>9. Noticed'
    <3>1. ~ClearIrq
      BY <2>1 DEF ClearIrq
    <3> QED
      BY <1>1, <3>1, HmiNotices DEF NoticeInv, Noticed, RxNeverForgotten, TxNeverForgotten
  <2> QED
    BY <1>1, <2>4, <2>5, <2>8, <2>9 DEF NoticeInv
<1>6. CASE ClearIrq
  <2>1. /\ newIrq = {} /\ newIrq' = {} /\ irq' = {} /\ hmiState = "CLEAR_IRQ" /\ hmiState' = "IDLE"
    BY <1>2, <1>6 DEF ClearIrq
  <2>2. idState \notin InitStates /\ idState \notin EarlyStates
    BY <2>1, EarlyAreInit DEF NoticeInv, Quiet
  <2>3. Signals' \subseteq Signals
    BY <1>1, <2>1 DEF Signals
  <2>4. PulseInv' /\ Quiet' /\ Spaced' /\ IrqSeen'
    BY <1>1, <2>1, <2>2 DEF NoticeInv, PulseInv, Quiet, Spaced, IrqSeen
  <2>5. TxIdle' /\ RxIdle' /\ RxRead' /\ TxRead'
    BY <1>1, <2>1, <2>3 DEF NoticeInv, TxIdle, RxIdle, RxRead, TxRead
  <2>6. ASSUME hostSent = 0 PROVE Noticed'
    <3>1. ~TxWork
      BY <2>2, <2>6 DEF NoticeInv, TxIdle, TxWork
    <3>2. RxWork => sendPacket \/ idState \in RxStates
      BY <2>1, <2>6 DEF NoticeInv, RxRead
    <3>3. sendPacket \/ idState \in RxStates => RxNoticed'
      BY <1>1 DEF RxNoticed
    <3> QED
      BY <1>1, <3>1, <3>2, <3>3 DEF Noticed, RxNeverForgotten, TxNeverForgotten
  <2>7. ASSUME rxSeen = 0 PROVE Noticed'
    <3>1. ~RxWork
      BY <1>2, <2>2, <2>7 DEF NoticeInv, RxIdle, RxWork
    <3>2. clearTxDesc \/ idState \in ClearStates
      BY <2>1, <2>7 DEF NoticeInv, TxRead, ClearStates
    <3>3. TxNoticed'
      BY <1>1, <3>2 DEF TxNoticed
    <3> QED
      BY <1>1, <3>1, <3>3 DEF Noticed, RxNeverForgotten, TxNeverForgotten
  <2> QED
    BY <1>1, <2>4, <2>5, <2>6, <2>7 DEF NoticeInv
<1> QED
  BY <1>4, <1>5, <1>6 DEF HmiStep, HmiBusStep

LEMMA NoticeMac ==
  ASSUME RInv, NoticeInv, MacStep
  PROVE  NoticeInv'
<1>1. UNCHANGED <<hmiState, newIrq, idState, head, tail, rdTail, sendPacket, clearTxDesc, hostSent>>
  BY DEF MacStep, hmiVars, idVars, ringVars, flagVars, fifoVars
<1>2. /\ TypeOK /\ pulse \subseteq IrqBits /\ irq \subseteq IrqBits
      /\ rdTail \in Ring /\ macTx \in Ring /\ macRx \in Ring
      /\ txEng \in Moving => txBD[macTx].r
      /\ rxEng \in Moving => idState \notin EarlyStates
      /\ idState \notin EarlyStates => IInv
  BY RunFacts DEF TypeOK
<1>3. IrqBits = TxIrqs \cup RxBits /\ RxIrqs \subseteq RxBits /\ TxIrqs \cap RxBits = {}
  BY DEF IrqBits, RxBits, TxIrqs, RxIrqs
<1>4. TxRead /\ rxSeen' = rxSeen /\ hmiState' = hmiState => TxRead'
  <2> SUFFICES ASSUME TxRead, rxSeen' = rxSeen, hmiState = "CLEAR_IRQ", grant # "id"
               PROVE  grant' # "id"
    BY <1>1 DEF TxRead
  <2> QED
    BY <1>2, ClearComesFirst DEF MacStep, Acked, OffBus
<1>5. Noticed' /\ PulseInv'
  <2>1. CASE idState \notin EarlyStates
    BY <1>1, <1>2, <2>1, MacNotices
       DEF NoticeInv, Noticed, RxNeverForgotten, TxNeverForgotten, PulseInv
  <2>2. CASE idState \in EarlyStates
    BY <1>1, <2>2 DEF NoticeInv, Noticed, PulseInv
  <2> QED
    BY <2>1, <2>2
<1>6. CASE LatchIrq
  <2>1. UNCHANGED <<txBD, rxBD, rxEng, rxSeen>> /\ irq' = irq \cup pulse /\ pulse' = {}
    BY <1>6 DEF LatchIrq, bdVars, engineVars, netVars
  <2>2. Signals' = Signals /\ RxWork' = RxWork
    BY <1>1, <2>1 DEF Signals, RxWork
  <2>3. Quiet' /\ IrqSeen' /\ TxIdle' /\ RxIdle' /\ RxRead' /\ TxRead'
    BY <1>1, <1>4, <2>1, <2>2 DEF NoticeInv, Quiet, IrqSeen, TxIdle, RxIdle, RxRead
  <2>4. Spaced'
    BY <2>1 DEF NoticeInv, Spaced
  <2> QED
    BY <1>1, <1>5, <2>1, <2>3, <2>4 DEF NoticeInv
<1>7. CASE \E kind \in TxIrqs : TxStatusWrite(kind)
  <2>1. PICK kind \in TxIrqs : TxStatusWrite(kind)
    BY <1>7
  <2>2. UNCHANGED <<rxBD, rxEng, rxSeen, irq>> /\ pulse' = pulse \cup {kind} /\ txEng = "status"
    BY <2>1 DEF TxStatusWrite
  <2>3. hostSent # 0 /\ idState \notin InitStates
    BY <1>2, <2>2, RunFacts DEF NoticeInv, TxIdle, Moving
  <2>4. pulse' \cap RxBits = pulse \cap RxBits /\ Signals' \cap RxBits = Signals \cap RxBits
    BY <1>1, <1>3, <2>1, <2>2 DEF Signals
  <2>5. Quiet' /\ IrqSeen' /\ TxIdle' /\ RxIdle' /\ RxRead' /\ TxRead'
    BY <1>1, <1>4, <2>2, <2>3, <2>4 DEF NoticeInv, Quiet, IrqSeen, TxIdle, RxIdle, RxRead
  <2>6. (pulse \cup irq)' \cap RxBits = (pulse \cup irq) \cap RxBits
    BY <2>2, <2>4
  <2>7. Spaced'
    BY <2>2, <2>4, <2>6 DEF NoticeInv, Spaced
  <2> QED
    BY <1>1, <1>5, <2>2, <2>5, <2>7 DEF NoticeInv
<1>8. CASE \E kind \in RxIrqs : RxStatusWrite(kind)
  <2>1. PICK kind \in RxIrqs : RxStatusWrite(kind)
    BY <1>8
  <2>2. /\ UNCHANGED <<txBD, rxSeen, irq>> /\ pulse' = pulse \cup {kind}
        /\ rxEng = "status" /\ rxEng' = "bd"
    BY <2>1 DEF RxStatusWrite, netVars
  <2>3. rxSeen # 0 /\ hostSent = 0 /\ idState \notin InitStates
    BY <2>2 DEF NoticeInv, RxIdle, Quiet, Moving
  <2>4. irq = {} /\ hmiState = "IDLE"
    BY <1>2, <1>3, <2>2, <2>3 DEF NoticeInv, TxIdle, Spaced, Signals, IrqSeen, Moving
  <2>5. Signals' \cap TxIrqs = Signals \cap TxIrqs
    BY <1>1, <1>3, <2>1, <2>2 DEF Signals
  <2>6. Quiet' /\ IrqSeen' /\ TxIdle' /\ RxIdle' /\ RxRead' /\ TxRead'
    BY <1>1, <2>2, <2>3, <2>4, <2>5 DEF NoticeInv, Quiet, IrqSeen, TxIdle, RxIdle, RxRead, TxRead
  <2>7. Spaced'
    BY <2>2, <2>4 DEF Spaced, Moving
  <2> QED
    BY <1>1, <1>5, <2>2, <2>6, <2>7 DEF NoticeInv
<1>9. CASE MacBusStep \/ TxBDRead \/ RxBDRead
  <2>1. UNCHANGED <<txBD, rxBD, rxSeen, irq, pulse>> /\ (rxEng' \in Moving => rxEng \in Moving)
    BY <1>9 DEF MacBusStep, TxFetch, RxStore, TxBDRead, RxBDRead, bdVars, netVars, Moving
  <2>2. Signals' = Signals /\ RxWork' = RxWork
    BY <1>1, <2>1 DEF Signals, RxWork
  <2>3. Quiet' /\ IrqSeen' /\ TxIdle' /\ RxIdle' /\ RxRead' /\ TxRead'
    BY <1>1, <1>4, <2>1, <2>2 DEF NoticeInv, Quiet, IrqSeen, TxIdle, RxIdle, RxRead
  <2>4. Spaced'
    BY <2>1 DEF NoticeInv, Spaced
  <2> QED
    BY <1>1, <1>5, <2>1, <2>3, <2>4 DEF NoticeInv
<1> QED
  BY <1>6, <1>7, <1>8, <1>9 DEF MacStep, MacInternalStep

\* The wire: by FrameSpacing a frame starts with nothing signalled.
LEMMA NoticeNet ==
  ASSUME FrameSpacing, OneWay, RInv, NoticeInv, Run, NetStep
  PROVE  NoticeInv'
<1>1. /\ UNCHANGED <<hmiState, newIrq, idState, head, tail, rdTail, sendPacket, clearTxDesc, hostSent>>
      /\ (pulse \cup irq) \cap RxBits = {}
  BY DEF NetStep, hmiVars, idVars, ringVars, flagVars, fifoVars, RxBits
<1>2. UNCHANGED <<txBD, rxBD, irq>> /\ rxSeen \in Nat /\ RxWork' = RxWork /\ TypeOK
  BY <1>1, RunFacts DEF NetStep, WireStep, RxFrameStart, RxBusy, RxAbort, bdVars, RxWork, TypeOK
<1>3. Noticed' /\ PulseInv'
  BY <1>1, OutsideNotices DEF NoticeInv, Noticed, RxNeverForgotten, TxNeverForgotten, PulseInv
<1>4. CASE RxAbort
  <2>1. UNCHANGED <<pulse, rxSeen>> /\ rxEng = "dma" /\ rxEng' = "bd"
    BY <1>4 DEF RxAbort, netVars
  <2>2. rxSeen # 0 /\ Signals' = Signals
    BY <1>1, <1>2, <2>1 DEF NoticeInv, RxIdle, Signals, Moving
  <2> QED
    BY <1>1, <1>2, <1>3, <2>1, <2>2 DEF NoticeInv, Quiet, Spaced, IrqSeen, TxIdle, RxIdle, RxRead,
       TxRead, Moving
<1>5. CASE RxFrameStart \/ RxBusy
  <2>1. /\ rxSeen' = rxSeen + 1 /\ pulse' \in {pulse, pulse \cup {"busy"}}
        /\ rxEng' \in Moving => pulse' = pulse
    BY <1>5 DEF RxFrameStart, RxBusy, engineVars, Moving
  <2>2. rxSeen' # 0 /\ rxSeen' # rxSeen
    BY <1>2, <2>1
  <2>3. hostSent' = 0 /\ idState \notin InitStates
    BY <2>2 DEF Run
  <2>4. Signals' \cap TxIrqs = Signals \cap TxIrqs
    BY <1>1, <1>2, <2>1 DEF Signals, TxIrqs
  <2>5. Spaced'
    BY <1>1, <1>2, <2>1 DEF Spaced
  <2> QED
    BY <1>1, <1>2, <1>3, <2>1, <2>2, <2>3, <2>4, <2>5 DEF NoticeInv, Quiet, IrqSeen, TxIdle, RxIdle, RxRead, TxRead
<1> QED
  BY <1>4, <1>5 DEF NetStep, WireStep

LEMMA NoticeUsb ==
  ASSUME OneWay, RInv, NoticeInv, Run, UsbStep
  PROVE  NoticeInv'
<1>1. /\ UNCHANGED <<hmiState, newIrq, idState, head, tail, rdTail, sendPacket, clearTxDesc, pulse, irq,
                     txBD, rxBD, rxEng, rxSeen>>
      /\ OffBus /\ TypeOK
  BY RunFacts DEF UsbStep, hmiVars, ringVars, flagVars, netVars, macSide, bdVars, engineVars
<1>2. hostSent' = 0 => hostSent = 0
  BY <1>1 DEF UsbStep, HostSend, HostTake, CtlRequest, fifoVars, TypeOK
<1>3. Noticed' /\ PulseInv'
  BY <1>1, OutsideNotices DEF NoticeInv, Noticed, RxNeverForgotten, TxNeverForgotten, PulseInv
<1>4. Signals' = Signals /\ RxWork' = RxWork
  BY <1>1 DEF Signals, RxWork
<1>5. TxRead'
  <2> SUFFICES ASSUME hmiState = "CLEAR_IRQ", grant # "id" PROVE grant' # "id"
    BY <1>1 DEF NoticeInv, TxRead
  <2> QED
    BY <1>1, ClearComesFirst DEF OffBus
<1> QED
  BY <1>1, <1>2, <1>3, <1>4, <1>5 DEF NoticeInv, Quiet, Spaced, IrqSeen, TxIdle, RxIdle, RxRead, Run

(***************************************************************************)
(* InjectData's steps.                                                      *)
(***************************************************************************)
\* The FSM never goes back to the initialisation, and starts no frame.
LEMMA IdSteady ==
  ASSUME IdStep
  PROVE  /\ UNCHANGED <<pulse, irq, hmiState, rxSeen, hostSent>>
         /\ rxEng' \in Moving => rxEng \in Moving
         /\ idState' \in InitStates => idState \in InitStates
<1>1. UNCHANGED <<pulse, irq, hmiState, rxSeen>>
  BY DEF IdStep, netVars
<1>2. hostSent' = hostSent
  BY DEF IdStep, IdBusStep, IdInternalStep, Boot, WriteConfig, WriteModer, WriteRxPointer,
     WriteRxDesc, WriteTxPointer, IdleRx, IdleClear, IdleTake, IdleCtl, RegAccess, RegEnd, ClearTxDesc,
     ClearTxDescWait, GetRxPacketLength, GetPacketData, PassData, ResetRxDesc, WriteDataPrepare,
     WriteData, WriteTxDesc, Wait, fifoVars
<1>3. rxEng' \in {rxEng, "bd"}
  BY DEF IdStep, IdBusStep, IdInternalStep, Boot, WriteConfig, WriteModer, EnableMac, WriteRxPointer,
     WriteRxDesc, WriteTxPointer, IdleRx, IdleClear, IdleTake, IdleCtl, RegAccess, RegEnd, ClearTxDesc,
     ClearTxDescWait, GetRxPacketLength, GetPacketData, PassData, ResetRxDesc, WriteDataPrepare,
     WriteData, WriteTxDesc, Wait, macSide, engineVars
<1>4. idState' \in InitStates => idState \in InitStates
  BY DEF IdStep, IdBusStep, IdInternalStep, Boot, WriteConfig, WriteModer, WriteRxPointer,
     WriteRxDesc, WriteTxPointer, IdleRx, IdleClear, IdleTake, IdleCtl, RegAccess, RegEnd, ClearTxDesc,
     ClearTxDescWait, GetRxPacketLength, GetPacketData, PassData, PushWord, ResetRxDesc,
     WriteDataPrepare, WriteData, WriteTxDesc, Wait, InitStates, BootStates, RxInitStates, TxInitStates
<1> QED
  BY <1>1, <1>2, <1>3, <1>4 DEF Moving

\* Without a frame from the host the transmit ring stays as it was set up.
LEMMA IdTxIdle ==
  ASSUME RInv, NoticeInv, IdStep
  PROVE  TxIdle'
<1> SUFFICES ASSUME hostSent = 0 PROVE TxIdle'
  BY IdSteady DEF TxIdle
<1>1. /\ \A i \in Ring : ~txBD[i].r
      /\ idState \notin TxStates \cup ClearStates /\ ~clearTxDesc /\ Signals \cap TxIrqs = {}
      /\ idState \notin InitStates => head = tail
  BY DEF NoticeInv, TxIdle
<1>2. taken \in Nat /\ (idState \in InitStates => tail = 0)
  BY RunFacts DEF TypeOK
<1>3. ~(IdleClear \/ IdleTake \/ ClearTxDesc \/ ClearTxDescWait \/ WriteDataPrepare \/ WriteData \/ WriteTxDesc)
  <2>1. ~IdleTake
    BY <1>2 DEF IdleTake, CanTake
  <2>2. ~IdleClear
    BY <1>1 DEF IdleClear
  <2>3. ~ClearTxDesc /\ ~ClearTxDescWait
    BY <1>1 DEF ClearTxDesc, ClearTxDescWait, ClearStates
  <2>4. ~WriteDataPrepare /\ ~WriteData /\ ~WriteTxDesc
    BY <1>1 DEF WriteDataPrepare, WriteData, WriteTxDesc, TxStates, TxCopyStates
  <2> QED
    BY <2>1, <2>2, <2>3, <2>4
<1>4. UNCHANGED <<txBD, tail>>
  BY <1>3 DEF IdStep, IdBusStep, IdInternalStep, Boot, WriteConfig, WriteModer, WriteRxPointer,
     WriteRxDesc, WriteTxPointer, IdleRx, IdleCtl, RegAccess, RegEnd, GetRxPacketLength, GetPacketData,
     PassData, ResetRxDesc, Wait, macSide, bdVars, ringVars
<1>5. idState' \notin TxStates \cup ClearStates
  BY <1>1, <1>3 DEF IdStep, IdBusStep, IdInternalStep, Boot, WriteConfig, WriteModer, WriteRxPointer,
     WriteRxDesc, WriteTxPointer, IdleRx, IdleCtl, RegAccess, RegEnd, GetRxPacketLength, GetPacketData,
     PassData, PushWord, ResetRxDesc, Wait, TxStates, TxCopyStates, ClearStates
<1>6. ~clearTxDesc' /\ newIrq' = {}
  <2>1. newIrq \cap TxIrqs = {}
    BY <1>1 DEF Signals
  <2>2. IdleRx \/ KeepFlags
    BY <1>3 DEF IdStep, IdBusStep, IdInternalStep, Boot, WriteConfig, WriteModer, WriteRxPointer,
       WriteRxDesc, WriteTxPointer, IdleCtl, RegAccess, RegEnd, GetRxPacketLength, GetPacketData,
       PassData, ResetRxDesc, Wait
  <2> QED
    BY <1>1, <2>1, <2>2 DEF IdleRx, KeepFlags, LatchFlags
<1>7. Signals' \cap TxIrqs = {}
  BY <1>1, <1>6, IdSteady DEF Signals
<1>8. idState' \notin InitStates => head' = tail'
  <2>1. CASE WriteTxPointer
    BY <1>2, <1>4, <2>1 DEF WriteTxPointer, InitStates, TxInitStates
  <2>2. CASE ~WriteTxPointer
    <3>1. head' = head
      BY <1>3, <2>2 DEF IdStep, IdBusStep, IdInternalStep, Boot, WriteConfig, WriteModer, WriteRxPointer,
         WriteRxDesc, IdleRx, IdleCtl, RegAccess, RegEnd, GetRxPacketLength, GetPacketData,
         PassData, ResetRxDesc, Wait, ringVars
    <3>2. idState \in InitStates => idState' \in InitStates
      BY <2>2 DEF IdStep, IdBusStep, IdInternalStep, Boot, WriteConfig, WriteModer, WriteRxPointer,
         WriteRxDesc, IdleRx, IdleClear, IdleTake, IdleCtl, RegAccess, RegEnd, ClearTxDesc,
         ClearTxDescWait, GetRxPacketLength, GetPacketData, PassData, ResetRxDesc,
         WriteDataPrepare, WriteData, WriteTxDesc, Wait, InitStates, BootStates, RxInitStates, TxInitStates
    <3> QED
      BY <1>1, <1>4, <3>1, <3>2
  <2> QED
    BY <2>1, <2>2
<1> QED
  BY <1>1, <1>4, <1>5, <1>6, <1>7, <1>8 DEF TxIdle

\* Once the receive BDs are written none holds a frame.
LEMMA FirstRings ==
  ASSUME RInv, RInv', idState \in EarlyStates, idState' \notin EarlyStates, IdStep
  PROVE  /\ idState' \in InitStates
         /\ rdTail' \in Ring /\ \A i \in Ring : ~rxBD'[i].len
<1>1. WriteRxDesc
  BY DEF IdStep, IdBusStep, IdInternalStep, Boot, WriteConfig, WriteModer, WriteRxPointer,
     WriteTxPointer, IdleRx, IdleClear, IdleTake, IdleCtl, RegAccess, RegEnd, ClearTxDesc,
     ClearTxDescWait, GetRxPacketLength, GetPacketData, PassData, ResetRxDesc,
     WriteDataPrepare, WriteData, WriteTxDesc, Wait, EarlyStates, BootStates, RxInitStates
<1>2. IInv'
  BY DEF RInv
<1>3. macRx = 0 /\ rdTail = 0 /\ rdHead \in Ring /\ DOMAIN rxBD = Ring
  BY DEF RInv, Booting, TypeOK
<1>4. macRx' = rdTail' /\ rdTail' \in Ring /\ ~rxBD'[rdHead].len /\ idState' \in InitStates
  BY <1>1, <1>3 DEF WriteRxDesc, WriteRxBD, engineVars, Ring, EarlyStates, RxInitStates, InitStates,
     TxInitStates
<1> QED
  BY <1>2, <1>3, <1>4 DEF IInv, RxOwnership

\* Without a frame from the wire no receive BD gets a length.
LEMMA IdRxIdle ==
  ASSUME RInv, RInv', NoticeInv, IdStep
  PROVE  RxIdle'
<1> SUFFICES ASSUME rxSeen = 0 PROVE RxIdle'
  BY IdSteady DEF RxIdle
<1>1. rxEng' \notin Moving /\ Signals' \cap RxBits = {}
  BY IdSteady, FlagsNotice DEF NoticeInv, RxIdle, Signals
<1>2. ASSUME idState' \notin EarlyStates PROVE \A i \in Ring : ~rxBD'[i].len
  <2>1. CASE idState \in EarlyStates
    BY <1>2, <2>1, FirstRings
  <2>2. CASE idState \notin EarlyStates
    <3>1. \A i \in Ring : ~rxBD[i].len
      BY <2>2 DEF NoticeInv, RxIdle
    <3>2. CASE ResetRxDesc
      BY <3>1, <3>2, RunFacts DEF ResetRxDesc, WriteRxBD, TypeOK
    <3>3. CASE ~ResetRxDesc
      <4>1. rxBD' = rxBD
        BY <2>2, <3>3 DEF IdStep, IdBusStep, IdInternalStep, Boot, WriteConfig, WriteModer, WriteRxPointer,
           WriteRxDesc, WriteTxPointer, IdleRx, IdleClear, IdleTake, IdleCtl, RegAccess, RegEnd,
           ClearTxDesc, ClearTxDescWait, GetRxPacketLength, GetPacketData, PassData, WriteDataPrepare,
           WriteData, WriteTxDesc, Wait, macSide, bdVars, EarlyStates, RxInitStates
      <4> QED
        BY <3>1, <4>1
    <3> QED
      BY <3>2, <3>3
  <2> QED
    BY <2>1, <2>2
<1> QED
  BY <1>1, <1>2 DEF RxIdle

\* The flag for the transmit ring falls with the start of the scan, off the bus.
LEMMA ClearFlagFalls ==
  ASSUME IdStep, clearTxDesc, ~clearTxDesc'
  PROVE  idState = "IDLE" /\ idState' = "CLEAR_TX_DESC" /\ OffBus
<1>1. ~KeepFlags /\ ~IdleRx
  BY DEF KeepFlags, IdleRx, LatchFlags
<1>2. IdleClear
  BY <1>1 DEF IdStep, IdBusStep, IdInternalStep, Boot, WriteConfig, WriteModer, WriteRxPointer,
     WriteRxDesc, WriteTxPointer, IdleTake, IdleCtl, RegAccess, RegEnd, ClearTxDesc,
     ClearTxDescWait, GetRxPacketLength, GetPacketData, PassData, ResetRxDesc,
     WriteDataPrepare, WriteData, WriteTxDesc, Wait
<1>3. OffBus
  BY <1>2 DEF IdStep, IdBusStep, IdleClear, WriteConfig, WriteModer, WriteRxPointer, WriteRxDesc,
     WriteTxPointer, RegAccess, ClearTxDesc, GetRxPacketLength, GetPacketData, ResetRxDesc, WriteData,
     WriteTxDesc
<1> QED
  BY <1>2, <1>3 DEF IdleClear

LEMMA NoticeId ==
  ASSUME RInv, RInv', NoticeInv, IdStep
  PROVE  NoticeInv'
<1>1. /\ UNCHANGED <<pulse, irq, hmiState, rxSeen, hostSent>>
      /\ rxEng' \in Moving => rxEng \in Moving
      /\ idState' \in InitStates => idState \in InitStates
  BY IdSteady
<1>2. newIrq' = {}
  BY FlagsNotice
<1>3. TypeOK /\ (idState \notin EarlyStates => IInv)
  BY RunFacts
<1>4. Signals' \subseteq Signals
  BY <1>1, <1>2 DEF Signals
<1>5. PulseInv' /\ Quiet' /\ Spaced' /\ IrqSeen'
  BY <1>1, <1>2, <1>4 DEF NoticeInv, PulseInv, Quiet, Spaced, IrqSeen
<1>6. RxRead'
  <2> SUFFICES ASSUME hostSent = 0, hmiState = "CLEAR_IRQ", RxWork'
               PROVE  sendPacket' \/ idState' \in RxStates
    BY <1>1 DEF RxRead
  <2>1. idState \notin EarlyStates
    BY EarlyAreInit DEF NoticeInv, Quiet
  <2>2. CASE idState \in RxStates /\ RxWork
    BY <1>3, <2>1, <2>2, RxScan
  <2>3. CASE idState \in RxStates /\ ~RxWork
    BY <1>3, <2>1, <2>3, RxScan
  <2>4. CASE idState \notin RxStates
    <3>1. newIrq \cap RxIrqs # {} \/ sendPacket
      BY <1>3, <2>1, <2>4, RxScan DEF NoticeInv, RxRead
    <3> QED
      BY <3>1, FlagsNotice DEF RxStates
  <2> QED
    BY <2>2, <2>3, <2>4
<1>7. TxRead'
  <2> SUFFICES ASSUME rxSeen = 0, hmiState = "CLEAR_IRQ", ~clearTxDesc'
               PROVE  idState' = "CLEAR_TX_DESC" /\ grant' # "id"
    BY <1>1 DEF TxRead
  <2>1. newIrq \cap TxIrqs = {}
    BY FlagsNotice
  <2>2. CASE clearTxDesc
    BY <1>3, <2>2, ClearFlagFalls, ClearComesFirst DEF OffBus
  <2>3. CASE idState = "CLEAR_TX_DESC" /\ grant # "id"
    <3>1. Owner # "id"
      BY <1>3, <2>3, ClearComesFirst
    <3>2. OffBus /\ IdInternalStep
      BY <3>1 DEF IdStep, Acked
    <3>3. Wait
      BY <2>3, <3>2 DEF IdInternalStep, Boot, IdleRx, IdleClear, IdleTake, IdleCtl, RegEnd,
         ClearTxDescWait, PassData, WriteDataPrepare
    <3> QED
      BY <2>3, <3>1, <3>2, <3>3 DEF Wait, OffBus
  <2> QED
    BY <2>1, <2>2, <2>3 DEF NoticeInv, TxRead
<1>8. Noticed'
  <2>1. CASE idState \notin EarlyStates
    BY <1>3, <2>1, IdNotices DEF NoticeInv, Noticed, RxNeverForgotten, TxNeverForgotten
  <2>2. CASE idState \in EarlyStates /\ idState' \notin EarlyStates
    BY <2>2, FirstRings DEF Noticed, RxNeverForgotten, TxNeverForgotten, RxWork, TxNoticed
  <2> QED
    BY <2>1, <2>2 DEF Noticed
<1> QED
  BY <1>1, <1>5, <1>6, <1>7, <1>8, IdTxIdle, IdRxIdle DEF NoticeInv

(***************************************************************************)
(* The button, and the theorem.                                             *)
(***************************************************************************)
LEMMA NoticeReset ==
  ASSUME DrainedReset, RInv, NoticeInv, Reset
  PROVE  NoticeInv'
<1>1. /\ pulse' = {} /\ irq' = {} /\ newIrq' = {} /\ hmiState' = "IDLE" /\ rxEng' = "off"
      /\ idState' = "RESET" /\ clearTxDesc' = FALSE
      /\ UNCHANGED <<txBD, rxSeen, hostSent>> /\ \A i \in Ring : ~txBD[i].r
  BY DEF Reset, MacRegisters, BridgeRegisters, bdVars, netVars
<1>2. Signals' = {}
  BY <1>1 DEF Signals
<1>3. idState' \in EarlyStates /\ idState' \in InitStates /\ idState' \notin TxStates \cup ClearStates
  BY <1>1 DEF EarlyStates, InitStates, BootStates, TxStates, TxCopyStates, ClearStates
<1> QED
  BY <1>1, <1>2, <1>3 DEF NoticeInv, PulseInv, Quiet, Spaced, IrqSeen, TxIdle, RxIdle, RxRead, TxRead,
     Noticed, Moving

LEMMA NoticeInit == RInit => NoticeInv
<1> SUFFICES ASSUME Init PROVE NoticeInv
  BY DEF RInit
<1>1. /\ pulse = {} /\ irq = {} /\ newIrq = {} /\ hmiState = "IDLE" /\ rxEng = "off"
      /\ idState = "RESET" /\ clearTxDesc = FALSE /\ hostSent = 0
      /\ \A i \in Ring : ~txBD[i].r
  BY DEF Init, MacInit, HmiInit, IdInit
<1>2. Signals = {}
  BY <1>1 DEF Signals
<1>3. idState \in EarlyStates /\ idState \in InitStates /\ idState \notin TxStates \cup ClearStates
  BY <1>1 DEF EarlyStates, InitStates, BootStates, TxStates, TxCopyStates, ClearStates
<1> QED
  BY <1>1, <1>2, <1>3 DEF NoticeInv, PulseInv, Quiet, Spaced, IrqSeen, TxIdle, RxIdle, RxRead, TxRead,
     Noticed, Moving

LEMMA NoticeNext ==
  ASSUME DrainedReset, OneWay, FrameSpacing, RInv, RInv', NoticeInv, [RNext]_rvars
  PROVE  NoticeInv'
<1>1. CASE Reset
  BY <1>1, NoticeReset
<1>2. CASE Run
  BY <1>2, NoticeHmi, NoticeId, NoticeMac, NoticeNet, NoticeUsb DEF Run, Next
<1>3. CASE UNCHANGED rvars
  BY <1>3 DEF rvars, vars, NoticeInv, PulseInv, Quiet, Spaced, IrqSeen, TxIdle, RxIdle, RxRead, TxRead,
     Noticed, RxNeverForgotten, TxNeverForgotten, RxNoticed, TxNoticed, RxWork, TxWork, Signals,
     engineVars, netVars, hmiVars, idVars, ringVars, flagVars, fifoVars
<1> QED
  BY <1>1, <1>2, <1>3 DEF RNext

\* With frames in one direction, and each received frame's interrupt handled
\* before the next one starts, HandleMacInt's clearing of all the sources never
\* leaves a received frame, or a transmitted descriptor, that nothing makes
\* InjectData look at, before a reset or after it, however the bus is shared.
THEOREM NothingGoesUnnoticed ==
  DrainedReset /\ OneWay /\ FrameSpacing => (RSpec => []RunningNoticed)
<1> SUFFICES ASSUME DrainedReset, OneWay, FrameSpacing PROVE RSpec => []RunningNoticed
  OBVIOUS
<1>1. RInv /\ RInv' /\ NoticeInv /\ [RNext]_rvars => NoticeInv'
  BY NoticeNext
<1>2. NoticeInv => RunningNoticed
  BY EarlyAreInit DEF NoticeInv, Noticed, RunningNoticed
<1> QED
  BY <1>1, <1>2, NoticeInit, RInvariant, PTL DEF RSpec
=============================================================================
