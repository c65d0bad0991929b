-------------------------- MODULE EthInterfaceProofs --------------------------
(***************************************************************************)
(* IInv of EthInterface is inductive, for rings of any size, frames and      *)
(* FIFOs of any length: one lemma per component and, for InjectData, whose   *)
(* steps reach every part of it, one per conjunct.  From it and from what    *)
(* the buffers and FIFOs hold at any time (Contents), the refinement of      *)
(* EthLink.                                                                  *)
(***************************************************************************)
EXTENDS EthInterface, TLAPS

USE NBDAssumption, FrameWordsAssumption, FifoAssumption, MaxRxAssumption

(***************************************************************************)
(* Ring indices, for rings of every size.                                   *)
(***************************************************************************)
\* The successor of an index is an index.
LEMMA SuccType == \A i \in Ring : Succ(i) \in Ring
  BY NBDAssumption DEF Ring, Succ

\* Distances are indices, and zero only from an index to itself.
LEMMA DistType == \A a, b \in Ring : Dist(a, b) \in Ring /\ (Dist(a, b) = 0 <=> a = b)
  BY NBDAssumption DEF Ring, Dist

\* A step of the start shortens a distance, unless it was zero.
LEMMA DistSuccLeft ==
  \A a, b \in Ring : Dist(Succ(a), b) = IF a = b THEN NBD - 1 ELSE Dist(a, b) - 1
  BY NBDAssumption DEF Ring, Succ, Dist

\* A step of the end lengthens a distance, unless it meets the start.
LEMMA DistSuccRight ==
  \A a, b \in Ring : Dist(a, Succ(b)) = IF Succ(b) = a THEN 0 ELSE Dist(a, b) + 1
  BY NBDAssumption DEF Ring, Succ, Dist

\* A step of the end adds exactly the old end to a segment.
LEMMA InRingGrow ==
  \A a, b, i \in Ring : Succ(b) # a =>
     (InRing(i, a, Succ(b)) <=> InRing(i, a, b) \/ i = b)
  BY NBDAssumption DEF Ring, Succ, Dist, InRing

\* A step of the start removes exactly the old start.
LEMMA InRingShrink ==
  \A a, b, i \in Ring : a # b =>
     (InRing(i, Succ(a), b) <=> InRing(i, a, b) /\ i # a)
  BY NBDAssumption DEF Ring, Succ, Dist, InRing

\* A segment that is not empty has its start; none has its end.
LEMMA InRingEnds ==
  \A a, b \in Ring : (InRing(a, a, b) <=> a # b) /\ ~InRing(b, a, b)
  BY NBDAssumption DEF Ring, Dist, InRing

\* A segment that grows until it meets its start is the whole ring.
LEMMA InRingFull ==
  \A a, b, i \in Ring : Succ(b) = a => (InRing(i, a, b) \/ i = b)
  BY NBDAssumption DEF Ring, Succ, Dist, InRing

\* A segment that shrinks from the whole ring lacks only the old start.
LEMMA InRingFromFull ==
  \A a, i \in Ring : InRing(i, Succ(a), a) <=> i # a
  BY NBDAssumption DEF Ring, Succ, Dist, InRing

\* The segment from an index to itself is empty.
LEMMA InRingEmpty == \A a, i \in Ring : ~InRing(i, a, a)
  BY DEF Ring, Dist, InRing

(***************************************************************************)
(* The invariant.                                                           *)
(***************************************************************************)
\* A part of a sequence is one of the same elements, as long as its bounds say.
LEMMA SubSeqType ==
  ASSUME NEW S, NEW s \in Seq(S), NEW m \in 1 .. Len(s) + 1, NEW n \in 0 .. Len(s), m <= n + 1
  PROVE  SubSeq(s, m, n) \in Seq(S) /\ Len(SubSeq(s, m, n)) = n - m + 1
  OBVIOUS

\* Products and differences of naturals, apart because they are not linear.
LEMMA ProductType == \A a, b \in Nat : a * b \in Nat
  OBVIOUS

\* One frame less is FrameWords words less.
LEMMA PredTimes == \A a, b \in Nat : (a - 1) * b = a * b - b
  OBVIOUS

\* When the size FIFO has an entry, the data FIFO holds a whole frame: HostTake
\* finds all the words it removes.
LEMMA OutHasFrame ==
  ASSUME outCount \in Nat, rxCounter \in 0 .. FrameWords, OutFraming, outCount > 0
  PROVE  Len(outData) >= FrameWords
<1>1. outCount * FrameWords >= FrameWords
  <2>1. (outCount - 1) * FrameWords \in Nat
    BY ProductType
  <2>2. (outCount - 1) * FrameWords = outCount * FrameWords - FrameWords
    BY PredTimes
  <2>3. outCount * FrameWords \in Nat
    BY ProductType
  <2> QED
    BY <2>1, <2>2, <2>3
<1>2. outCount * FrameWords \in Nat
  BY ProductType
<1> QED
  BY <1>1, <1>2 DEF OutFraming

\* The arbiter grants the bus to one of its masters.
LEMMA GrantType == grant \in Masters => Owner \in Masters /\ \A m \in Masters : After(m) \in Masters
  BY DEF Owner, After, NextMaster, Masters

\* A step of the copy from the receive buffers leaves the rest alone.
LEMMA TypeCopy ==
  ASSUME TypeOK, grant' \in Masters,
         UNCHANGED <<macSide, rxBuf, pulse, irq, netVars, hmiState, host>>,
         UNCHANGED <<ringVars, txCounter, ctl, hostSent, taken>>,
         newIrq' \subseteq IrqBits, sendPacket' \in BOOLEAN, clearTxDesc' \in BOOLEAN,
         idState' \in IdStates, passData' \in BOOLEAN, rxCounter' \in 0 .. FrameWords,
         rxWord' \in Nums, outData' \in Seq(Nums), outCount' \in Nat
  PROVE  TypeOK'
  BY DEF TypeOK, macSide, netVars, ringVars, bdVars, engineVars

\* InjectData keeps the types: its indices stay in the rings, its counters
\* within the frame.
LEMMA TypeId == IInv /\ IdStep => TypeOK'
<1> SUFFICES ASSUME IInv, IdStep PROVE TypeOK'
  OBVIOUS
<1> USE DEF IInv, TypeOK, LatchFlags, KeepFlags, macSide, netVars, ringVars, copyVars,
            fifoVars, bdVars, engineVars, IdStates, InitStates, BootStates, RxInitStates, TxInitStates, RegStates, ClearStates,
            RxStates, RxCopyStates, TxStates, TxCopyStates
<1>1. CASE WriteConfig
  BY <1>1, GrantType, SuccType DEF IdStep, WriteConfig, Acked, OffBus, Masters
<1>2. CASE WriteModer
  BY <1>2, GrantType, SuccType, SMTT(30) DEF IdStep, WriteModer, EnableMac, Ring, Acked, OffBus, Masters
<1>3. CASE WriteRxPointer
  BY <1>3, GrantType, SuccType DEF IdStep, WriteRxPointer, Acked, OffBus, Masters
<1>4. CASE WriteRxDesc
  BY <1>4, GrantType, SuccType DEF IdStep, WriteRxDesc, WriteRxBD, Acked, OffBus, Masters
<1>5. CASE WriteTxPointer
  BY <1>5, GrantType, SuccType DEF IdStep, WriteTxPointer, Acked, OffBus, Masters
<1>6. CASE RegAccess
  BY <1>6, GrantType, SuccType DEF IdStep, RegAccess, Acked, OffBus, Masters
<1>7. CASE ClearTxDesc
  BY <1>7, GrantType, SuccType DEF IdStep, ClearTxDesc, Acked, OffBus, Masters
<1>8. CASE GetRxPacketLength
  BY <1>8, GrantType, SuccType DEF IdStep, GetRxPacketLength, Acked, OffBus, Masters
<1>9. CASE GetPacketData
  <2>1. rxCounter + 1 \in Words /\ rxCounter' \in 0 .. FrameWords
    BY <1>9 DEF GetPacketData, PushWord, Progress, Words
  <2>2. rxWord' \in Nums
    BY <1>9, <2>1 DEF GetPacketData
  <2>3. outData' \in Seq(Nums) /\ outCount' \in Nat /\ idState' \in IdStates
    <3>1. CASE OutReady
      <4>1. PushWord(rxWord')
        BY <1>9, <3>1 DEF GetPacketData
      <4> QED
        BY <1>9, <4>1, <2>2 DEF GetPacketData, PushWord
    <3>2. CASE ~OutReady
      BY <1>9, <3>2 DEF GetPacketData
    <3> QED
      BY <3>1, <3>2
  <2>4. grant' \in Masters
    BY <1>9, GrantType DEF IdStep, Acked, OffBus
  <2>5. passData' \in BOOLEAN
    BY <1>9 DEF GetPacketData, PushWord
  <2>6. newIrq' \subseteq IrqBits /\ sendPacket' \in BOOLEAN /\ clearTxDesc' \in BOOLEAN
    BY <1>9 DEF GetPacketData
  <2>7. UNCHANGED <<macSide, rxBuf, pulse, irq, netVars, hmiState, host, ringVars, txCounter, ctl,
                    hostSent, taken>>
    BY <1>9 DEF IdStep, GetPacketData
  <2> HIDE DEF IInv, TypeOK, macSide, netVars, ringVars
  <2>8. TypeOK
    BY DEF IInv
  <2> QED
    BY <2>1, <2>2, <2>3, <2>4, <2>5, <2>6, <2>7, <2>8, TypeCopy
<1>10. CASE ResetRxDesc
  BY <1>10, GrantType, SuccType DEF IdStep, ResetRxDesc, WriteRxBD, Acked, OffBus, Masters
<1>11. CASE WriteData
  <2>1. txCounter + 1 \in Words /\ txCounter' \in 0 .. FrameWords
    BY <1>11 DEF WriteData, Progress, Words
  <2>2. txBuf' \in [Ring -> [Words -> Nums]]
    BY <1>11, <2>1 DEF WriteData, Nums
  <2>3. idState' \in IdStates
    BY <1>11 DEF WriteData
  <2> QED
    BY <1>11, <2>1, <2>2, <2>3, GrantType DEF IdStep, WriteData, Acked, OffBus, Masters
<1>12. CASE WriteTxDesc
  BY <1>12, GrantType, SuccType DEF IdStep, WriteTxDesc, WriteTxBD, Acked, OffBus, Masters
<1>13. CASE Boot
  BY <1>13, GrantType, SuccType DEF IdStep, Boot, Acked, OffBus, Masters
<1>14. CASE IdleRx
  BY <1>14, GrantType, SuccType DEF IdStep, IdleRx, Acked, OffBus, Masters
<1>15. CASE IdleClear
  BY <1>15, GrantType, SuccType DEF IdStep, IdleClear, Acked, OffBus, Masters
<1>16. CASE IdleTake
  BY <1>16, GrantType, SuccType DEF IdStep, IdleTake, CanTake, Acked, OffBus, Masters
<1>17. CASE IdleCtl
  BY <1>17, GrantType, SuccType DEF IdStep, IdleCtl, Acked, OffBus, Masters
<1>18. CASE RegEnd
  BY <1>18, GrantType, SuccType DEF IdStep, RegEnd, Acked, OffBus, Masters
<1>19. CASE ClearTxDescWait
  BY <1>19, GrantType, SuccType DEF IdStep, ClearTxDescWait, Acked, OffBus, Masters
<1>20. CASE PassData
  <2>1. rxCounter + 1 \in Words /\ rxCounter' \in 0 .. FrameWords
    BY <1>20 DEF PassData, PushWord, Progress, Words
  <2>2. outData' \in Seq(Nums) /\ outCount' \in Nat /\ idState' \in IdStates
    BY <1>20 DEF PassData, PushWord
  <2>3. grant' \in Masters
    BY <1>20, GrantType DEF IdStep, Acked, OffBus
  <2>4. passData' \in BOOLEAN /\ rxWord' \in Nums
    BY <1>20 DEF PassData, PushWord
  <2>5. newIrq' \subseteq IrqBits /\ sendPacket' \in BOOLEAN /\ clearTxDesc' \in BOOLEAN
    BY <1>20 DEF PassData
  <2>6. UNCHANGED <<macSide, rxBuf, pulse, irq, netVars, hmiState, host, ringVars, txCounter, ctl,
                    hostSent, taken>>
    BY <1>20 DEF IdStep, PassData
  <2> HIDE DEF IInv, TypeOK, macSide, netVars, ringVars
  <2>7. TypeOK
    BY DEF IInv
  <2> QED
    BY <2>1, <2>2, <2>3, <2>4, <2>5, <2>6, <2>7, TypeCopy
<1>21. CASE WriteDataPrepare
  BY <1>21, GrantType, SuccType DEF IdStep, WriteDataPrepare, Acked, OffBus, Masters
<1>22. CASE Wait
  BY <1>22, GrantType, SuccType DEF IdStep, Wait, Acked, OffBus, Masters
<1> QED
  BY <1>1, <1>2, <1>3, <1>4, <1>5, <1>6, <1>7, <1>8, <1>9, <1>10, <1>11, <1>12, <1>13, <1>14, <1>15, <1>16, <1>17, <1>18, <1>19, <1>20, <1>21, <1>22 DEF IdStep, IdBusStep, IdInternalStep

\* InjectData keeps the transmit ring's ownership: a BD handed over is the one
\* at head, and CLEAR_TX_DESC does not run past the MAC's pointer.
LEMMA TxOwnershipId == IInv /\ IdStep => TxOwnership'
<1> SUFFICES ASSUME IInv, IdStep PROVE TxOwnership'
  OBVIOUS
<1> USE DEF IInv, TypeOK, LatchFlags, KeepFlags, macSide, netVars, ringVars, copyVars,
            fifoVars, bdVars, engineVars, IdStates, InitStates, BootStates, RxInitStates, TxInitStates, RegStates, ClearStates,
            RxStates, RxCopyStates, TxStates, TxCopyStates, TxOwnership, Progress, Initialising
<1>1. CASE WriteConfig
  BY <1>1, InRingEnds DEF IdStep, WriteConfig
<1>2. CASE WriteModer
  BY <1>2, InRingEnds DEF IdStep, WriteModer, EnableMac, Ring
<1>3. CASE WriteRxPointer
  BY <1>3, InRingEnds DEF IdStep, WriteRxPointer
<1>4. CASE WriteRxDesc
  BY <1>4, InRingEnds DEF IdStep, WriteRxDesc, WriteRxBD
<1>5. CASE WriteTxPointer
  <2>1. idState' = "IDLE" => head' = 0
    BY <1>5 DEF WriteTxPointer
  <2> QED
    <3>1. tail' = 0 /\ macTx' = 0 /\ 0 \in Ring /\ head' \in Ring
      BY <1>5, SuccType DEF IdStep, WriteTxPointer, Ring
    <3>2. Dist(tail', macTx') \in Ring /\ Dist(tail', macTx') = 0 /\ Dist(tail', head') \in Ring
      BY <3>1, DistType
    <3>3. Dist(tail', macTx') <= Dist(tail', head')
      BY <3>2 DEF Ring
    <3>4. \A i \in Ring : ~InRing(i, 0, 0)
      BY <3>1, InRingEmpty
    <3> QED
      BY <1>5, <2>1, <3>1, <3>3, <3>4 DEF IdStep, WriteTxPointer
<1>6. CASE RegAccess
  BY <1>6, InRingEnds DEF IdStep, RegAccess
<1>7. CASE ClearTxDesc
  <2>1. CASE txBD[tail].r
    BY <1>7, <2>1 DEF IdStep, ClearTxDesc
  <2>2. CASE ~txBD[tail].r /\ tail = head
    <3>1. macTx = head
      <4>1. Dist(tail, head) = 0 /\ Dist(tail, macTx) \in Nat
        BY <2>2, DistType DEF Ring
      <4> QED
        BY <2>2, <4>1, DistType
    <3> QED
      BY <1>7, <2>2, <3>1, DistSuccLeft DEF IdStep, ClearTxDesc
  <2>3. CASE ~txBD[tail].r /\ tail # head
    <3>1. tail # macTx
      BY <1>7, <2>3, InRingEnds DEF ClearTxDesc
    <3>2. Dist(tail', macTx) = Dist(tail, macTx) - 1 /\ Dist(tail', head) = Dist(tail, head) - 1
      BY <1>7, <2>3, <3>1, DistSuccLeft DEF ClearTxDesc
    <3> QED
      <4>1. Dist(tail, macTx) \in Nat /\ Dist(tail, head) \in Nat
        BY DistType DEF Ring
      <4> QED
        BY <1>7, <2>3, <3>2, <4>1 DEF IdStep, ClearTxDesc
  <2> QED
    BY <2>1, <2>2, <2>3
<1>8. CASE GetRxPacketLength
  BY <1>8, InRingEnds DEF IdStep, GetRxPacketLength
<1>9. CASE GetPacketData
  BY <1>9, InRingEnds DEF IdStep, GetPacketData, PushWord
<1>10. CASE ResetRxDesc
  BY <1>10, InRingEnds DEF IdStep, ResetRxDesc, WriteRxBD
<1>11. CASE WriteData
  BY <1>11, InRingEnds DEF IdStep, WriteData
<1>12. CASE WriteTxDesc
  <2>1. Succ(head) # tail /\ Dist(tail, head') = Dist(tail, head) + 1
    BY <1>12, DistSuccRight DEF WriteTxDesc
  <2>2. Succ(head) # macTx
    <3>1. Dist(tail, macTx) \in Nat /\ Dist(tail, head) \in Nat
      BY DistType DEF Ring
    <3> QED
      BY <1>12, <2>1, <3>1 DEF WriteTxDesc
  <2>3. \A i \in Ring : txBD'[i].r <=> txBD[i].r \/ i = head
    BY <1>12 DEF WriteTxDesc, WriteTxBD
  <2>4. \A i \in Ring : InRing(i, macTx, head') <=> InRing(i, macTx, head) \/ i = head
    BY <1>12, <2>2, InRingGrow DEF WriteTxDesc
  <2>5. Dist(tail, macTx) <= Dist(tail, head')
    <3>1. Dist(tail, macTx) \in Nat /\ Dist(tail, head) \in Nat
      BY DistType DEF Ring
    <3> QED
      BY <2>1, <3>1
  <2> QED
    BY <1>12, <2>3, <2>4, <2>5 DEF IdStep, WriteTxDesc
<1>13. CASE Boot
  BY <1>13, InRingEnds DEF IdStep, Boot
<1>14. CASE IdleRx
  BY <1>14, InRingEnds DEF IdStep, IdleRx
<1>15. CASE IdleClear
  BY <1>15, InRingEnds DEF IdStep, IdleClear
<1>16. CASE IdleTake
  BY <1>16, InRingEnds DEF IdStep, IdleTake, CanTake
<1>17. CASE IdleCtl
  BY <1>17, InRingEnds DEF IdStep, IdleCtl
<1>18. CASE RegEnd
  BY <1>18, InRingEnds DEF IdStep, RegEnd
<1>19. CASE ClearTxDescWait
  BY <1>19, InRingEnds DEF IdStep, ClearTxDescWait
<1>20. CASE PassData
  BY <1>20, InRingEnds DEF IdStep, PassData, PushWord
<1>21. CASE WriteDataPrepare
  BY <1>21, InRingEnds DEF IdStep, WriteDataPrepare
<1>22. CASE Wait
  BY <1>22, InRingEnds DEF IdStep, Wait
<1> QED
  BY <1>1, <1>2, <1>3, <1>4, <1>5, <1>6, <1>7, <1>8, <1>9, <1>10, <1>11, <1>12, <1>13, <1>14, <1>15, <1>16, <1>17, <1>18, <1>19, <1>20, <1>21, <1>22 DEF IdStep, IdBusStep, IdInternalStep

\* InjectData keeps the receive ring's ownership: the BD given back is rdTail's,
\* which the MAC had filled.
LEMMA RxOwnershipId == IInv /\ IdStep => RxOwnership'
<1> SUFFICES ASSUME IInv, IdStep PROVE RxOwnership'
  OBVIOUS
<1> USE DEF IInv, TypeOK, LatchFlags, KeepFlags, macSide, netVars, ringVars, copyVars,
            fifoVars, bdVars, engineVars, IdStates, InitStates, BootStates, RxInitStates, TxInitStates, RegStates, ClearStates,
            RxStates, RxCopyStates, TxStates, TxCopyStates, RxOwnership, Progress, Initialising
<1>1. CASE WriteConfig
  BY <1>1 DEF IdStep, WriteConfig
<1>2. CASE WriteModer
  BY <1>2 DEF IdStep, WriteModer, EnableMac, Ring
<1>3. CASE WriteRxPointer
  BY <1>3 DEF IdStep, WriteRxPointer
<1>4. CASE WriteRxDesc
  <2>1. \A i \in Ring : rxBD'[i].len = rxBD[i].len /\ (rxBD[i].e => rxBD'[i].e)
    <3>1. ~rxBD[rdHead].len /\ ~rxBD[rdHead].e
      BY <1>4 DEF WriteRxDesc, Ring
    <3> QED
      BY <1>4, <3>1 DEF WriteRxDesc, WriteRxBD
  <2>2. \A i \in Ring : rxBD'[i].e => ~rxBD'[i].len
    BY <1>4 DEF WriteRxDesc, WriteRxBD, Ring
  <2> QED
    BY <1>4, <2>1, <2>2 DEF IdStep, WriteRxDesc
<1>5. CASE WriteTxPointer
  BY <1>5 DEF IdStep, WriteTxPointer
<1>6. CASE RegAccess
  BY <1>6 DEF IdStep, RegAccess
<1>7. CASE ClearTxDesc
  BY <1>7 DEF IdStep, ClearTxDesc
<1>8. CASE GetRxPacketLength
  BY <1>8 DEF IdStep, GetRxPacketLength
<1>9. CASE GetPacketData
  BY <1>9 DEF IdStep, GetPacketData, PushWord
<1>10. CASE ResetRxDesc
  <2>1. \A i \in Ring : rxBD'[i].len <=> rxBD[i].len /\ i # rdTail
    BY <1>10 DEF ResetRxDesc, WriteRxBD
  <2>2. \A i \in Ring : rxBD'[i].e <=> rxBD[i].e \/ i = rdTail
    BY <1>10 DEF ResetRxDesc, WriteRxBD
  <2>3. CASE macRx = rdTail
    <3>1. \A i \in Ring : InRing(i, rdTail', macRx) <=> i # rdTail
      BY <1>10, <2>3, InRingFromFull DEF ResetRxDesc
    <3>2. rdTail' # macRx
      BY <1>10, <2>3 DEF ResetRxDesc, Succ, Ring
    <3> QED
      BY <1>10, <2>1, <2>2, <2>3, <3>1, <3>2 DEF IdStep, ResetRxDesc
  <2>4. CASE macRx # rdTail
    <3>1. \A i \in Ring : InRing(i, rdTail', macRx) <=> InRing(i, rdTail, macRx) /\ i # rdTail
      BY <1>10, <2>4, InRingShrink DEF ResetRxDesc
    <3>2. rdTail' = macRx => \A i \in Ring : ~rxBD'[i].len
      BY <1>10, <2>1, <2>4, <3>1, InRingEmpty DEF ResetRxDesc
    <3> QED
      BY <1>10, <2>1, <2>2, <2>4, <3>1, <3>2 DEF IdStep, ResetRxDesc
  <2> QED
    BY <2>3, <2>4
<1>11. CASE WriteData
  BY <1>11 DEF IdStep, WriteData
<1>12. CASE WriteTxDesc
  BY <1>12 DEF IdStep, WriteTxDesc, WriteTxBD
<1>13. CASE Boot
  BY <1>13 DEF IdStep, Boot
<1>14. CASE IdleRx
  BY <1>14 DEF IdStep, IdleRx
<1>15. CASE IdleClear
  BY <1>15 DEF IdStep, IdleClear
<1>16. CASE IdleTake
  BY <1>16 DEF IdStep, IdleTake, CanTake
<1>17. CASE IdleCtl
  BY <1>17 DEF IdStep, IdleCtl
<1>18. CASE RegEnd
  BY <1>18 DEF IdStep, RegEnd
<1>19. CASE ClearTxDescWait
  BY <1>19 DEF IdStep, ClearTxDescWait
<1>20. CASE PassData
  BY <1>20 DEF IdStep, PassData, PushWord
<1>21. CASE WriteDataPrepare
  BY <1>21 DEF IdStep, WriteDataPrepare
<1>22. CASE Wait
  BY <1>22 DEF IdStep, Wait
<1> QED
  BY <1>1, <1>2, <1>3, <1>4, <1>5, <1>6, <1>7, <1>8, <1>9, <1>10, <1>11, <1>12, <1>13, <1>14, <1>15, <1>16, <1>17, <1>18, <1>19, <1>20, <1>21, <1>22 DEF IdStep, IdBusStep, IdInternalStep

\* InjectData keeps the out FIFOs framed: a length goes in with the last word of
\* its frame.
LEMMA OutFramingId == IInv /\ IdStep => OutFraming'
<1> SUFFICES ASSUME IInv, IdStep PROVE OutFraming'
  OBVIOUS
<1> USE DEF IInv, TypeOK, LatchFlags, KeepFlags, macSide, netVars, ringVars, copyVars,
            fifoVars, bdVars, engineVars, IdStates, InitStates, BootStates, RxInitStates, TxInitStates, RegStates, ClearStates,
            RxStates, RxCopyStates, TxStates, TxCopyStates, OutFraming, Progress
<1>1. CASE WriteConfig
  BY <1>1 DEF IdStep, WriteConfig
<1>2. CASE WriteModer
  BY <1>2 DEF IdStep, WriteModer, EnableMac, Ring
<1>3. CASE WriteRxPointer
  BY <1>3 DEF IdStep, WriteRxPointer
<1>4. CASE WriteRxDesc
  BY <1>4 DEF IdStep, WriteRxDesc, WriteRxBD
<1>5. CASE WriteTxPointer
  BY <1>5 DEF IdStep, WriteTxPointer
<1>6. CASE RegAccess
  BY <1>6 DEF IdStep, RegAccess
<1>7. CASE ClearTxDesc
  BY <1>7 DEF IdStep, ClearTxDesc
<1>8. CASE GetRxPacketLength
  BY <1>8 DEF IdStep, GetRxPacketLength
<1>9. CASE GetPacketData
  <2>1. CASE OutReady
    <3>1. PushWord(rxWord')
      BY <1>9, <2>1 DEF GetPacketData
    <3> QED
      BY <1>9, <3>1 DEF IdStep, GetPacketData, PushWord
  <2>2. CASE ~OutReady
    BY <1>9, <2>2 DEF IdStep, GetPacketData
  <2> QED
    BY <2>1, <2>2
<1>10. CASE ResetRxDesc
  BY <1>10 DEF IdStep, ResetRxDesc, WriteRxBD
<1>11. CASE WriteData
  BY <1>11 DEF IdStep, WriteData
<1>12. CASE WriteTxDesc
  BY <1>12 DEF IdStep, WriteTxDesc, WriteTxBD
<1>13. CASE Boot
  BY <1>13 DEF IdStep, Boot
<1>14. CASE IdleRx
  BY <1>14 DEF IdStep, IdleRx
<1>15. CASE IdleClear
  BY <1>15 DEF IdStep, IdleClear
<1>16. CASE IdleTake
  BY <1>16 DEF IdStep, IdleTake, CanTake
<1>17. CASE IdleCtl
  BY <1>17 DEF IdStep, IdleCtl
<1>18. CASE RegEnd
  BY <1>18 DEF IdStep, RegEnd
<1>19. CASE ClearTxDescWait
  BY <1>19 DEF IdStep, ClearTxDescWait
<1>20. CASE PassData
  BY <1>20 DEF IdStep, PassData, PushWord
<1>21. CASE WriteDataPrepare
  BY <1>21 DEF IdStep, WriteDataPrepare
<1>22. CASE Wait
  BY <1>22 DEF IdStep, Wait
<1> QED
  BY <1>1, <1>2, <1>3, <1>4, <1>5, <1>6, <1>7, <1>8, <1>9, <1>10, <1>11, <1>12, <1>13, <1>14, <1>15, <1>16, <1>17, <1>18, <1>19, <1>20, <1>21, <1>22 DEF IdStep, IdBusStep, IdInternalStep

\* InjectData sets the wrap bit in the last BD of each ring and in no other.
LEMMA WrapBitsId == IInv /\ IdStep => WrapBits'
<1> SUFFICES ASSUME IInv, IdStep PROVE WrapBits'
  OBVIOUS
<1> USE DEF IInv, TypeOK, LatchFlags, KeepFlags, macSide, netVars, ringVars, copyVars,
            fifoVars, bdVars, engineVars, IdStates, InitStates, BootStates, RxInitStates, TxInitStates, RegStates, ClearStates,
            RxStates, RxCopyStates, TxStates, TxCopyStates, WrapBits
<1>1. CASE WriteConfig
  BY <1>1 DEF IdStep, WriteConfig
<1>2. CASE WriteModer
  BY <1>2 DEF IdStep, WriteModer, EnableMac, Ring
<1>3. CASE WriteRxPointer
  BY <1>3 DEF IdStep, WriteRxPointer
<1>4. CASE WriteRxDesc
  BY <1>4 DEF IdStep, WriteRxDesc, WriteRxBD
<1>5. CASE WriteTxPointer
  BY <1>5 DEF IdStep, WriteTxPointer
<1>6. CASE RegAccess
  BY <1>6 DEF IdStep, RegAccess
<1>7. CASE ClearTxDesc
  BY <1>7 DEF IdStep, ClearTxDesc
<1>8. CASE GetRxPacketLength
  BY <1>8 DEF IdStep, GetRxPacketLength
<1>9. CASE GetPacketData
  BY <1>9 DEF IdStep, GetPacketData, PushWord
<1>10. CASE ResetRxDesc
  BY <1>10 DEF IdStep, ResetRxDesc, WriteRxBD
<1>11. CASE WriteData
  BY <1>11 DEF IdStep, WriteData
<1>12. CASE WriteTxDesc
  BY <1>12 DEF IdStep, WriteTxDesc, WriteTxBD
<1>13. CASE Boot
  BY <1>13 DEF IdStep, Boot
<1>14. CASE IdleRx
  BY <1>14 DEF IdStep, IdleRx
<1>15. CASE IdleClear
  BY <1>15 DEF IdStep, IdleClear
<1>16. CASE IdleTake
  BY <1>16 DEF IdStep, IdleTake, CanTake
<1>17. CASE IdleCtl
  BY <1>17 DEF IdStep, IdleCtl
<1>18. CASE RegEnd
  BY <1>18 DEF IdStep, RegEnd
<1>19. CASE ClearTxDescWait
  BY <1>19 DEF IdStep, ClearTxDescWait
<1>20. CASE PassData
  BY <1>20 DEF IdStep, PassData, PushWord
<1>21. CASE WriteDataPrepare
  BY <1>21 DEF IdStep, WriteDataPrepare
<1>22. CASE Wait
  BY <1>22 DEF IdStep, Wait
<1> QED
  BY <1>1, <1>2, <1>3, <1>4, <1>5, <1>6, <1>7, <1>8, <1>9, <1>10, <1>11, <1>12, <1>13, <1>14, <1>15, <1>16, <1>17, <1>18, <1>19, <1>20, <1>21, <1>22 DEF IdStep, IdBusStep, IdInternalStep

\* InjectData's own states agree with its counters and with the room it saw when
\* it took the frame.
LEMMA ProgressId == IInv /\ IdStep => Progress'
<1> SUFFICES ASSUME IInv, IdStep PROVE Progress'
  OBVIOUS
<1> USE DEF IInv, TypeOK, LatchFlags, KeepFlags, macSide, netVars, ringVars, copyVars,
            fifoVars, bdVars, engineVars, IdStates, InitStates, BootStates, RxInitStates, TxInitStates, RegStates, ClearStates,
            RxStates, RxCopyStates, TxStates, TxCopyStates, TxOwnership, RxOwnership, Initialising, Progress
<1>1. CASE WriteConfig
  BY <1>1, SuccType, DistType DEF IdStep, WriteConfig
<1>2. CASE WriteModer
  BY <1>2, SuccType, DistType DEF IdStep, WriteModer, EnableMac, Ring
<1>3. CASE WriteRxPointer
  BY <1>3, SuccType, DistType DEF IdStep, WriteRxPointer
<1>4. CASE WriteRxDesc
  BY <1>4, SuccType, DistType DEF IdStep, WriteRxDesc, WriteRxBD
<1>5. CASE WriteTxPointer
  BY <1>5, SuccType, DistType DEF IdStep, WriteTxPointer
<1>6. CASE RegAccess
  BY <1>6, SuccType, DistType DEF IdStep, RegAccess
<1>7. CASE ClearTxDesc
  BY <1>7, SuccType, DistType DEF IdStep, ClearTxDesc
<1>8. CASE GetRxPacketLength
  BY <1>8, SuccType, DistType DEF IdStep, GetRxPacketLength
<1>9. CASE GetPacketData
  BY <1>9, SuccType, DistType DEF IdStep, GetPacketData, PushWord
<1>10. CASE ResetRxDesc
  BY <1>10, SuccType, DistType DEF IdStep, ResetRxDesc, WriteRxBD
<1>11. CASE WriteData
  BY <1>11, SuccType, DistType DEF IdStep, WriteData
<1>12. CASE WriteTxDesc
  BY <1>12, SuccType, DistType DEF IdStep, WriteTxDesc, WriteTxBD
<1>13. CASE Boot
  BY <1>13, SuccType, DistType DEF IdStep, Boot
<1>14. CASE IdleRx
  BY <1>14, SuccType, DistType DEF IdStep, IdleRx
<1>15. CASE IdleClear
  BY <1>15, SuccType, DistType DEF IdStep, IdleClear
<1>16. CASE IdleTake
  BY <1>16, SuccType, DistType DEF IdStep, IdleTake, CanTake
<1>17. CASE IdleCtl
  BY <1>17, SuccType, DistType DEF IdStep, IdleCtl
<1>18. CASE RegEnd
  BY <1>18, SuccType, DistType DEF IdStep, RegEnd
<1>19. CASE ClearTxDescWait
  BY <1>19, SuccType, DistType DEF IdStep, ClearTxDescWait
<1>20. CASE PassData
  BY <1>20, SuccType, DistType DEF IdStep, PassData, PushWord
<1>21. CASE WriteDataPrepare
  BY <1>21, SuccType, DistType DEF IdStep, WriteDataPrepare
<1>22. CASE Wait
  BY <1>22, SuccType, DistType DEF IdStep, Wait
<1> QED
  BY <1>1, <1>2, <1>3, <1>4, <1>5, <1>6, <1>7, <1>8, <1>9, <1>10, <1>11, <1>12, <1>13, <1>14, <1>15, <1>16, <1>17, <1>18, <1>19, <1>20, <1>21, <1>22 DEF IdStep, IdBusStep, IdInternalStep

\* While InjectData initialises the rings, nothing but MODER and the BDs it has
\* written differs from reset.
LEMMA InitialisingId == IInv /\ IdStep => Initialising'
<1> SUFFICES ASSUME IInv, IdStep PROVE Initialising'
  OBVIOUS
<1> USE DEF IInv, TypeOK, LatchFlags, KeepFlags, macSide, netVars, ringVars, copyVars,
            fifoVars, bdVars, engineVars, IdStates, InitStates, BootStates, RxInitStates, TxInitStates, RegStates, ClearStates,
            RxStates, RxCopyStates, TxStates, TxCopyStates, RxOwnership, Initialising
<1>1. CASE WriteConfig
  BY <1>1, SuccType DEF IdStep, WriteConfig
<1>2. CASE WriteModer
  BY <1>2, SuccType DEF IdStep, WriteModer, EnableMac, Ring
<1>3. CASE WriteRxPointer
  BY <1>3, SuccType DEF IdStep, WriteRxPointer
<1>4. CASE WriteRxDesc
  BY <1>4, SuccType DEF IdStep, WriteRxDesc, WriteRxBD, Succ, Ring
<1>5. CASE WriteTxPointer
  BY <1>5, SuccType DEF IdStep, WriteTxPointer
<1>6. CASE RegAccess
  BY <1>6, SuccType DEF IdStep, RegAccess
<1>7. CASE ClearTxDesc
  BY <1>7, SuccType DEF IdStep, ClearTxDesc
<1>8. CASE GetRxPacketLength
  BY <1>8, SuccType DEF IdStep, GetRxPacketLength
<1>9. CASE GetPacketData
  BY <1>9, SuccType DEF IdStep, GetPacketData, PushWord
<1>10. CASE ResetRxDesc
  BY <1>10, SuccType DEF IdStep, ResetRxDesc, WriteRxBD
<1>11. CASE WriteData
  BY <1>11, SuccType DEF IdStep, WriteData
<1>12. CASE WriteTxDesc
  BY <1>12, SuccType DEF IdStep, WriteTxDesc, WriteTxBD
<1>13. CASE Boot
  BY <1>13, SuccType DEF IdStep, Boot
<1>14. CASE IdleRx
  BY <1>14, SuccType DEF IdStep, IdleRx
<1>15. CASE IdleClear
  BY <1>15, SuccType DEF IdStep, IdleClear
<1>16. CASE IdleTake
  BY <1>16, SuccType DEF IdStep, IdleTake, CanTake
<1>17. CASE IdleCtl
  BY <1>17, SuccType DEF IdStep, IdleCtl
<1>18. CASE RegEnd
  BY <1>18, SuccType DEF IdStep, RegEnd
<1>19. CASE ClearTxDescWait
  BY <1>19, SuccType DEF IdStep, ClearTxDescWait
<1>20. CASE PassData
  BY <1>20, SuccType DEF IdStep, PassData, PushWord
<1>21. CASE WriteDataPrepare
  BY <1>21, SuccType DEF IdStep, WriteDataPrepare
<1>22. CASE Wait
  BY <1>22, SuccType DEF IdStep, Wait
<1> QED
  BY <1>1, <1>2, <1>3, <1>4, <1>5, <1>6, <1>7, <1>8, <1>9, <1>10, <1>11, <1>12, <1>13, <1>14, <1>15, <1>16, <1>17, <1>18, <1>19, <1>20, <1>21, <1>22 DEF IdStep, IdBusStep, IdInternalStep

\* The interrupt handler touches only the flags and the interrupt sources.
LEMMA HmiKeeps == IInv /\ HmiStep => IInv'
<1> SUFFICES ASSUME IInv, HmiStep PROVE IInv'
  OBVIOUS
<1> USE DEF IInv, macSide, netVars, bdVars, engineVars, hmiVars, idVars, ringVars, flagVars,
            copyVars, fifoVars, HmiStates
<1>1. CASE ReadIrq
  <2>1. TypeOK'
    BY <1>1, GrantType DEF HmiStep, ReadIrq, TypeOK, Acked, OffBus, Masters
  <2>2. TxOwnership'
    BY <1>1 DEF HmiStep, ReadIrq, TypeOK, TxOwnership
  <2>3. RxOwnership'
    BY <1>1 DEF HmiStep, ReadIrq, TypeOK, RxOwnership
  <2>4. OutFraming'
    BY <1>1 DEF HmiStep, ReadIrq, TypeOK, OutFraming
  <2>5. WrapBits'
    BY <1>1 DEF HmiStep, ReadIrq, TypeOK, WrapBits
  <2>6. Progress'
    BY <1>1 DEF HmiStep, ReadIrq, TypeOK, Progress
  <2>7. Initialising'
    BY <1>1 DEF HmiStep, ReadIrq, TypeOK, Initialising
  <2> QED
    BY <2>1, <2>2, <2>3, <2>4, <2>5, <2>6, <2>7
<1>2. CASE ClearIrq
  <2>1. TypeOK'
    BY <1>2, GrantType DEF HmiStep, ClearIrq, TypeOK, Acked, OffBus, Masters
  <2>2. TxOwnership'
    BY <1>2 DEF HmiStep, ClearIrq, TypeOK, TxOwnership
  <2>3. RxOwnership'
    BY <1>2 DEF HmiStep, ClearIrq, TypeOK, RxOwnership
  <2>4. OutFraming'
    BY <1>2 DEF HmiStep, ClearIrq, TypeOK, OutFraming
  <2>5. WrapBits'
    BY <1>2 DEF HmiStep, ClearIrq, TypeOK, WrapBits
  <2>6. Progress'
    BY <1>2 DEF HmiStep, ClearIrq, TypeOK, Progress
  <2>7. Initialising'
    BY <1>2 DEF HmiStep, ClearIrq, TypeOK, Initialising
  <2> QED
    BY <2>1, <2>2, <2>3, <2>4, <2>5, <2>6, <2>7
<1>3. CASE SeeInt
  <2>1. TypeOK'
    BY <1>3, GrantType DEF HmiStep, SeeInt, TypeOK, Acked, OffBus, Masters
  <2>2. TxOwnership'
    BY <1>3 DEF HmiStep, SeeInt, TypeOK, TxOwnership
  <2>3. RxOwnership'
    BY <1>3 DEF HmiStep, SeeInt, TypeOK, RxOwnership
  <2>4. OutFraming'
    BY <1>3 DEF HmiStep, SeeInt, TypeOK, OutFraming
  <2>5. WrapBits'
    BY <1>3 DEF HmiStep, SeeInt, TypeOK, WrapBits
  <2>6. Progress'
    BY <1>3 DEF HmiStep, SeeInt, TypeOK, Progress
  <2>7. Initialising'
    BY <1>3 DEF HmiStep, SeeInt, TypeOK, Initialising
  <2> QED
    BY <2>1, <2>2, <2>3, <2>4, <2>5, <2>6, <2>7
<1> QED
  BY <1>1, <1>2, <1>3 DEF HmiStep, HmiBusStep

\* The MAC keeps the invariant: its status writes take its pointer past a BD it
\* owned, round the ring where the wrap bit is set.
LEMMA MacKeeps == IInv /\ MacStep => IInv'
<1> SUFFICES ASSUME IInv, MacStep PROVE IInv'
  OBVIOUS
<1> USE DEF IInv, macSide, netVars, bdVars, engineVars, hmiVars, idVars, ringVars, flagVars,
            copyVars, fifoVars
<1>1. CASE TxBDRead
  <2>1. TypeOK'
    BY <1>1, GrantType DEF MacStep, TxBDRead, TypeOK, Acked, OffBus, Masters
  <2>2. TxOwnership'
    BY <1>1 DEF MacStep, TxBDRead, TypeOK, TxOwnership
  <2>3. RxOwnership'
    BY <1>1 DEF MacStep, TxBDRead, TypeOK, RxOwnership
  <2>4. OutFraming'
    BY <1>1 DEF MacStep, TxBDRead, TypeOK, OutFraming
  <2>5. WrapBits'
    BY <1>1 DEF MacStep, TxBDRead, TypeOK, WrapBits
  <2>6. Progress'
    BY <1>1 DEF MacStep, TxBDRead, TypeOK, Progress
  <2>7. Initialising'
    BY <1>1 DEF MacStep, TxBDRead, TypeOK, Initialising
  <2> QED
    BY <2>1, <2>2, <2>3, <2>4, <2>5, <2>6, <2>7
<1>2. CASE TxFetch
  <2>1. TypeOK'
    <3>1. Len(txFetched) + 1 \in Words
      BY <1>2 DEF TxFetch, TypeOK, Progress, Words
    <3>2. txFetched' \in Seq(Nums)
      BY <1>2, <3>1 DEF TxFetch, TypeOK
    <3> QED
      BY <1>2, <3>2, GrantType DEF MacStep, TxFetch, TypeOK, Acked, OffBus, Masters
  <2>2. TxOwnership'
    BY <1>2 DEF MacStep, TxFetch, TypeOK, TxOwnership
  <2>3. RxOwnership'
    BY <1>2 DEF MacStep, TxFetch, TypeOK, RxOwnership
  <2>4. OutFraming'
    BY <1>2 DEF MacStep, TxFetch, TypeOK, OutFraming
  <2>5. WrapBits'
    BY <1>2 DEF MacStep, TxFetch, TypeOK, WrapBits
  <2>6. Progress'
    <3>1. Len(txFetched') = Len(txFetched) + 1 /\ Len(txFetched) \in Nat
      BY <1>2 DEF TxFetch, TypeOK
    <3>2. Len(txFetched) < FrameWords
      BY <1>2 DEF TxFetch, Progress
    <3>3. txEng' = "dma" => Len(txFetched') < FrameWords
      BY <1>2, <3>1, <3>2 DEF TxFetch
    <3>4. txBD[macTx].r /\ txBD' = txBD /\ macTx' = macTx
      BY <1>2 DEF TxFetch, Progress
    <3> QED
      BY <1>2, <3>3, <3>4 DEF MacStep, TxFetch, Progress
  <2>7. Initialising'
    BY <1>2 DEF MacStep, TxFetch, TypeOK, Initialising
  <2> QED
    BY <2>1, <2>2, <2>3, <2>4, <2>5, <2>6, <2>7
<1>3. CASE \E kind \in TxIrqs : TxStatusWrite(kind)
  <2>1. TypeOK'
    <3>1. PICK kind \in TxIrqs : TxStatusWrite(kind)
      BY <1>3
    <3>2. txBD' \in [Ring -> [r : BOOLEAN, w : BOOLEAN]]
      <4>1. txBD \in [Ring -> [r : BOOLEAN, w : BOOLEAN]] /\ macTx \in Ring
        BY DEF TypeOK
      <4>2. txBD' = [txBD EXCEPT ![macTx].r = FALSE]
        BY <3>1 DEF TxStatusWrite
      <4> QED
        BY <4>1, <4>2
    <3>3. macTx' \in Ring
      <4>1. macTx \in Ring /\ (txBD[macTx].w <=> macTx = NBD - 1)
        BY <3>1 DEF TxStatusWrite, TypeOK, WrapBits, Progress
      <4> QED
        BY <3>1, <4>1 DEF TxStatusWrite, Ring
    <3>4. pulse' \in SUBSET IrqBits
      BY <3>1 DEF TxStatusWrite, TypeOK, IrqBits
    <3>5. wire' \in Seq(Seq(Nums)) /\ txFetched' \in Seq(Nums)
      BY <3>1 DEF TxStatusWrite, TypeOK
    <3>6. grant' \in Masters
      BY <3>1, GrantType DEF MacStep, TxStatusWrite, TypeOK, Acked, OffBus, Masters
    <3>7. /\ UNCHANGED <<rxBD, txBuf, rxBuf, macRx, rxEng, rxCount, irq, rxSeen>>
          /\ UNCHANGED <<hmiVars, idVars, host>>
          /\ txEng' = "bd"
      BY <1>3, <3>1 DEF MacStep, TxStatusWrite
    <3> QED
      BY SMTT(30), <3>2, <3>3, <3>4, <3>5, <3>6, <3>7
         DEF TypeOK, hmiVars, idVars, ringVars, flagVars, copyVars, fifoVars
  <2>2. TxOwnership'
    <3>1. txBD[macTx].r /\ idState \notin InitStates /\ macTx # head
      BY <1>3, InRingEnds DEF TxStatusWrite, TypeOK, TxOwnership, Progress
    <3>2. macTx' = Succ(macTx)
      BY <1>3, <3>1 DEF TxStatusWrite, TypeOK, WrapBits, Succ
    <3>3. \A i \in Ring : txBD'[i].r <=> txBD[i].r /\ i # macTx
      BY <1>3 DEF TxStatusWrite, TypeOK
    <3>4. \A i \in Ring : InRing(i, macTx', head) <=> InRing(i, macTx, head) /\ i # macTx
      BY <3>1, <3>2, InRingShrink DEF TypeOK
    <3>5. Dist(tail, macTx') <= Dist(tail, head)
      <4>1. macTx \in Ring /\ tail \in Ring /\ head \in Ring
        BY DEF TypeOK
      <4>2. Dist(tail, macTx) # Dist(tail, head)
        BY <3>1, <4>1 DEF Dist, Ring
      <4>3. Dist(tail, macTx') \in {0, Dist(tail, macTx) + 1}
        BY <3>2, <4>1, DistSuccRight
      <4>4. Dist(tail, macTx) \in Nat /\ Dist(tail, head) \in Nat
        BY <4>1, DistType DEF Ring
      <4> QED
        BY <4>2, <4>3, <4>4 DEF TxOwnership
    <3> QED
      BY <1>3, <3>1, <3>3, <3>4, <3>5 DEF MacStep, TxStatusWrite, TypeOK, TxOwnership
  <2>3. RxOwnership'
    BY <1>3 DEF MacStep, TxStatusWrite, TxIrqs, TypeOK, RxOwnership
  <2>4. OutFraming'
    BY <1>3 DEF MacStep, TxStatusWrite, TxIrqs, TypeOK, OutFraming
  <2>5. WrapBits'
    <3>1. \A i \in Ring : txBD'[i].w = txBD[i].w /\ (txBD'[i].r => txBD[i].r)
      BY SMTT(30), <1>3 DEF TxStatusWrite, TypeOK
    <3> QED
      BY <1>3, <3>1 DEF MacStep, TxStatusWrite, WrapBits
  <2>6. Progress'
    BY <1>3 DEF MacStep, TxStatusWrite, TxIrqs, TypeOK, Progress
  <2>7. Initialising'
    <3>1. idState \notin InitStates
      BY <1>3 DEF TxStatusWrite, TypeOK, TxOwnership, Progress
    <3> QED
      BY <1>3, <3>1 DEF MacStep, TxStatusWrite, Initialising, InitStates
  <2> QED
    BY <2>1, <2>2, <2>3, <2>4, <2>5, <2>6, <2>7
<1>4. CASE RxBDRead
  <2>1. TypeOK'
    BY <1>4, GrantType DEF MacStep, RxBDRead, TypeOK, Acked, OffBus, Masters
  <2>2. TxOwnership'
    BY <1>4 DEF MacStep, RxBDRead, TypeOK, TxOwnership
  <2>3. RxOwnership'
    BY <1>4 DEF MacStep, RxBDRead, TypeOK, RxOwnership
  <2>4. OutFraming'
    BY <1>4 DEF MacStep, RxBDRead, TypeOK, OutFraming
  <2>5. WrapBits'
    BY <1>4 DEF MacStep, RxBDRead, TypeOK, WrapBits
  <2>6. Progress'
    BY <1>4 DEF MacStep, RxBDRead, TypeOK, Progress
  <2>7. Initialising'
    BY <1>4 DEF MacStep, RxBDRead, TypeOK, Initialising
  <2> QED
    BY <2>1, <2>2, <2>3, <2>4, <2>5, <2>6, <2>7
<1>5. CASE RxStore
  <2>1. TypeOK'
    <3>1. rxCount + 1 \in Words
      BY <1>5 DEF RxStore, TypeOK, Progress, Words
    <3>2. rxBuf' \in [Ring -> [Words -> Nums]]
      BY <1>5, <3>1 DEF RxStore, TypeOK, Nums
    <3> QED
      BY <1>5, <3>2, GrantType DEF MacStep, RxStore, TypeOK, Acked, OffBus, Masters
  <2>2. TxOwnership'
    BY <1>5 DEF MacStep, RxStore, TypeOK, TxOwnership
  <2>3. RxOwnership'
    BY <1>5 DEF MacStep, RxStore, TypeOK, RxOwnership
  <2>4. OutFraming'
    BY <1>5 DEF MacStep, RxStore, TypeOK, OutFraming
  <2>5. WrapBits'
    BY <1>5 DEF MacStep, RxStore, TypeOK, WrapBits
  <2>6. Progress'
    BY <1>5 DEF MacStep, RxStore, TypeOK, Progress
  <2>7. Initialising'
    BY <1>5 DEF MacStep, RxStore, TypeOK, Initialising
  <2> QED
    BY <2>1, <2>2, <2>3, <2>4, <2>5, <2>6, <2>7
<1>6. CASE \E kind \in RxIrqs : RxStatusWrite(kind)
  <2>1. TypeOK'
    <3>1. PICK kind \in RxIrqs : RxStatusWrite(kind)
      BY <1>6
    <3>2. rxBD' \in [Ring -> [e : BOOLEAN, w : BOOLEAN, len : BOOLEAN]]
      BY <3>1 DEF RxStatusWrite, TypeOK
    <3>3. macRx' \in Ring
      <4>1. macRx \in Ring /\ (rxBD[macRx].w <=> macRx = NBD - 1)
        BY <3>1 DEF RxStatusWrite, TypeOK, WrapBits, RxOwnership
      <4> QED
        BY <3>1, <4>1 DEF RxStatusWrite, Ring
    <3>4. pulse' \in SUBSET IrqBits
      BY <3>1 DEF RxStatusWrite, TypeOK, IrqBits
    <3> QED
      BY SMTT(30), <3>1, <3>2, <3>3, <3>4, GrantType
         DEF MacStep, RxStatusWrite, TypeOK, Acked, OffBus, Masters
  <2>2. TxOwnership'
    BY <1>6 DEF MacStep, RxStatusWrite, RxIrqs, TypeOK, TxOwnership
  <2>3. RxOwnership'
    <3>1. rxBD[macRx].e /\ ~rxBD[macRx].len
      BY <1>6 DEF RxStatusWrite, TypeOK, RxOwnership
    <3>2. macRx' = Succ(macRx)
      BY <1>6, <3>1 DEF RxStatusWrite, TypeOK, WrapBits, Succ
    <3>3. \A i \in Ring : /\ rxBD'[i].len <=> rxBD[i].len \/ i = macRx
                          /\ rxBD'[i].e <=> rxBD[i].e /\ i # macRx
      BY SMTT(30), <1>6 DEF RxStatusWrite, TypeOK
    <3>4. macRx' # rdTail => \A i \in Ring : rxBD'[i].len <=> InRing(i, rdTail, macRx')
      <4>1. macRx \in Ring /\ rdTail \in Ring
        BY DEF TypeOK
      <4>2. \A i \in Ring : rxBD[i].len <=> InRing(i, rdTail, macRx)
        <5>1. CASE macRx = rdTail
          <6>1. \A i \in Ring : ~rxBD[i].len
            BY <3>1, <4>1, <5>1 DEF RxOwnership
          <6> QED
            BY <4>1, <5>1, <6>1, InRingEmpty
        <5>2. CASE macRx # rdTail
          BY <5>2 DEF RxOwnership
        <5> QED
          BY <5>1, <5>2
      <4>3. macRx' # rdTail => \A i \in Ring : InRing(i, rdTail, macRx') <=> InRing(i, rdTail, macRx) \/ i = macRx
        BY <3>2, <4>1, InRingGrow
      <4> SUFFICES ASSUME macRx' # rdTail, NEW i \in Ring
                   PROVE  rxBD'[i].len <=> InRing(i, rdTail, macRx')
        OBVIOUS
      <4>4. rxBD'[i].len <=> rxBD[i].len \/ i = macRx
        BY <3>3
      <4>5. rxBD[i].len <=> InRing(i, rdTail, macRx)
        BY <4>2
      <4>6. InRing(i, rdTail, macRx') <=> InRing(i, rdTail, macRx) \/ i = macRx
        BY <4>3
      <4> QED
        BY <4>4, <4>5, <4>6
    <3>5. macRx' = rdTail => \A i \in Ring : rxBD'[i].len
      <4>1. macRx \in Ring /\ rdTail \in Ring
        BY DEF TypeOK
      <4>2. macRx' = rdTail => macRx # rdTail
        BY <3>2, <4>1 DEF Succ, Ring
      <4>3. macRx # rdTail => \A i \in Ring : rxBD[i].len <=> InRing(i, rdTail, macRx)
        BY DEF RxOwnership
      <4>4. macRx' = rdTail => \A i \in Ring : InRing(i, rdTail, macRx) \/ i = macRx
        BY <3>2, <4>1, InRingFull
      <4> SUFFICES ASSUME macRx' = rdTail, NEW i \in Ring PROVE rxBD'[i].len
        OBVIOUS
      <4>5. rxBD'[i].len <=> rxBD[i].len \/ i = macRx
        BY <3>3
      <4>6. rxBD[i].len <=> InRing(i, rdTail, macRx)
        BY <4>2, <4>3
      <4>7. InRing(i, rdTail, macRx) \/ i = macRx
        BY <4>4
      <4> QED
        BY <4>5, <4>6, <4>7
    <3> QED
      BY <1>6, <3>3, <3>4, <3>5 DEF MacStep, RxStatusWrite, TypeOK, RxOwnership
  <2>4. OutFraming'
    BY <1>6 DEF MacStep, RxStatusWrite, RxIrqs, TypeOK, OutFraming
  <2>5. WrapBits'
    <3>1. txBD' = txBD
      BY <1>6 DEF MacStep, RxStatusWrite
    <3>2. \A i \in Ring : rxBD'[i].w = rxBD[i].w /\ (rxBD'[i].e => rxBD[i].e)
      BY SMTT(30), <1>6 DEF RxStatusWrite, TypeOK
    <3> QED
      BY <3>1, <3>2 DEF TypeOK, WrapBits
  <2>6. Progress'
    BY <1>6 DEF MacStep, RxStatusWrite, RxIrqs, TypeOK, Progress
  <2>7. Initialising'
    <3>1. rxBD[macRx].e
      BY <1>6 DEF RxStatusWrite, TypeOK, RxOwnership
    <3>2. idState \notin BootStates
      BY <3>1 DEF TypeOK, Initialising
    <3>3. \A i \in Ring : i # macRx => rxBD'[i] = rxBD[i]
      BY <1>6 DEF RxStatusWrite, TypeOK
    <3>4. idState \in RxInitStates => ~(rdHead <= macRx)
      BY <3>1 DEF TypeOK, Initialising
    <3> QED
      BY <1>6, <3>2, <3>3, <3>4 DEF MacStep, RxStatusWrite, TypeOK, Initialising
  <2> QED
    BY <2>1, <2>2, <2>3, <2>4, <2>5, <2>6, <2>7
<1>7. CASE LatchIrq
  <2>1. TypeOK'
    BY <1>7, GrantType DEF MacStep, LatchIrq, TypeOK, Acked, OffBus, Masters
  <2>2. TxOwnership'
    BY <1>7 DEF MacStep, LatchIrq, TypeOK, TxOwnership
  <2>3. RxOwnership'
    BY <1>7 DEF MacStep, LatchIrq, TypeOK, RxOwnership
  <2>4. OutFraming'
    BY <1>7 DEF MacStep, LatchIrq, TypeOK, OutFraming
  <2>5. WrapBits'
    BY <1>7 DEF MacStep, LatchIrq, TypeOK, WrapBits
  <2>6. Progress'
    BY <1>7 DEF MacStep, LatchIrq, TypeOK, Progress
  <2>7. Initialising'
    BY <1>7 DEF MacStep, LatchIrq, TypeOK, Initialising
  <2> QED
    BY <2>1, <2>2, <2>3, <2>4, <2>5, <2>6, <2>7
<1> QED
  BY <1>1, <1>2, <1>3, <1>4, <1>5, <1>6, <1>7 DEF MacStep, MacBusStep, MacInternalStep

\* An arriving frame, kept or not, keeps the invariant.
LEMMA NetKeeps == IInv /\ NetStep => IInv'
<1> SUFFICES ASSUME IInv, NetStep PROVE IInv'
  OBVIOUS
<1> USE DEF IInv, macSide, netVars, bdVars, engineVars, hmiVars, idVars, ringVars, flagVars,
            copyVars, fifoVars
<1>1. CASE RxFrameStart
  <2>1. TypeOK'
    BY <1>1, GrantType DEF NetStep, RxFrameStart, TypeOK, Acked, OffBus, Masters
  <2>2. TxOwnership'
    BY <1>1 DEF NetStep, RxFrameStart, TypeOK, TxOwnership
  <2>3. RxOwnership'
    BY <1>1 DEF NetStep, RxFrameStart, TypeOK, RxOwnership
  <2>4. OutFraming'
    BY <1>1 DEF NetStep, RxFrameStart, TypeOK, OutFraming
  <2>5. WrapBits'
    BY <1>1 DEF NetStep, RxFrameStart, TypeOK, WrapBits
  <2>6. Progress'
    BY <1>1 DEF NetStep, RxFrameStart, TypeOK, Progress
  <2>7. Initialising'
    BY <1>1 DEF NetStep, RxFrameStart, TypeOK, Initialising
  <2> QED
    BY <2>1, <2>2, <2>3, <2>4, <2>5, <2>6, <2>7
<1>2. CASE RxBusy
  <2>1. TypeOK'
    <3>1. pulse' \in SUBSET IrqBits
      BY <1>2 DEF RxBusy, TypeOK, IrqBits
    <3>2. rxSeen' \in Nat
      BY <1>2 DEF RxBusy, TypeOK
    <3> QED
      BY <1>2, <3>1, <3>2, GrantType DEF NetStep, RxBusy, TypeOK, OffBus, Masters
  <2>2. TxOwnership'
    BY <1>2 DEF NetStep, RxBusy, TypeOK, TxOwnership
  <2>3. RxOwnership'
    BY <1>2 DEF NetStep, RxBusy, TypeOK, RxOwnership
  <2>4. OutFraming'
    BY <1>2 DEF NetStep, RxBusy, TypeOK, OutFraming
  <2>5. WrapBits'
    BY <1>2 DEF NetStep, RxBusy, TypeOK, WrapBits
  <2>6. Progress'
    BY <1>2 DEF NetStep, RxBusy, TypeOK, Progress
  <2>7. Initialising'
    BY <1>2 DEF NetStep, RxBusy, TypeOK, Initialising
  <2> QED
    BY <2>1, <2>2, <2>3, <2>4, <2>5, <2>6, <2>7
<1>3. CASE RxAbort
  <2>1. TypeOK'
    BY <1>3, GrantType DEF NetStep, RxAbort, TypeOK, Acked, OffBus, Masters
  <2>2. TxOwnership'
    BY <1>3 DEF NetStep, RxAbort, TypeOK, TxOwnership
  <2>3. RxOwnership'
    BY <1>3 DEF NetStep, RxAbort, TypeOK, RxOwnership
  <2>4. OutFraming'
    BY <1>3 DEF NetStep, RxAbort, TypeOK, OutFraming
  <2>5. WrapBits'
    BY <1>3 DEF NetStep, RxAbort, TypeOK, WrapBits
  <2>6. Progress'
    BY <1>3 DEF NetStep, RxAbort, TypeOK, Progress
  <2>7. Initialising'
    BY <1>3 DEF NetStep, RxAbort, TypeOK, Initialising
  <2> QED
    BY <2>1, <2>2, <2>3, <2>4, <2>5, <2>6, <2>7
<1> QED
  BY <1>1, <1>2, <1>3 DEF NetStep, WireStep

\* The USB side keeps the invariant: the host takes whole frames only.
LEMMA UsbKeeps == IInv /\ UsbStep => IInv'
<1> SUFFICES ASSUME IInv, UsbStep PROVE IInv'
  OBVIOUS
<1> USE DEF IInv, macSide, netVars, bdVars, engineVars, hmiVars, idVars, ringVars, flagVars,
            copyVars, fifoVars
<1>1. CASE HostSend
  <2>1. TypeOK'
    BY <1>1, GrantType DEF UsbStep, HostSend, TypeOK, Acked, OffBus, Masters
  <2>2. TxOwnership'
    BY <1>1 DEF UsbStep, HostSend, TypeOK, TxOwnership
  <2>3. RxOwnership'
    BY <1>1 DEF UsbStep, HostSend, TypeOK, RxOwnership
  <2>4. OutFraming'
    BY <1>1 DEF UsbStep, HostSend, TypeOK, OutFraming
  <2>5. WrapBits'
    BY <1>1 DEF UsbStep, HostSend, TypeOK, WrapBits
  <2>6. Progress'
    BY <1>1 DEF UsbStep, HostSend, TypeOK, Progress
  <2>7. Initialising'
    BY <1>1 DEF UsbStep, HostSend, TypeOK, Initialising
  <2> QED
    BY <2>1, <2>2, <2>3, <2>4, <2>5, <2>6, <2>7
<1>2. CASE HostTake
  <2>1. TypeOK'
    <3>1. Len(outData) \in Nat /\ Len(outData) >= FrameWords
      BY <1>2, OutHasFrame DEF HostTake, TypeOK
    <3>2. host' \in Seq(Seq(Nums))
      <4>1. SubSeq(outData, 1, FrameWords) \in Seq(Nums)
        BY <3>1, SubSeqType DEF TypeOK
      <4> QED
        BY <1>2, <4>1 DEF HostTake, TypeOK
    <3>3. outData' \in Seq(Nums)
      BY <1>2, <3>1, SubSeqType DEF HostTake, TypeOK
    <3>4. outCount' \in Nat
      BY <1>2 DEF HostTake, TypeOK
    <3> QED
      BY <1>2, <3>2, <3>3, <3>4, GrantType DEF UsbStep, HostTake, TypeOK, OffBus, Masters
  <2>2. TxOwnership'
    BY <1>2 DEF UsbStep, HostTake, TypeOK, TxOwnership
  <2>3. RxOwnership'
    BY <1>2 DEF UsbStep, HostTake, TypeOK, RxOwnership
  <2>4. OutFraming'
    <3>1. Len(outData) \in Nat /\ Len(outData) >= FrameWords
      BY <1>2, OutHasFrame DEF HostTake, TypeOK
    <3>2. Len(outData') = Len(outData) - FrameWords
      BY <1>2, <3>1, SubSeqType DEF HostTake, TypeOK
    <3>3. outCount' * FrameWords = outCount * FrameWords - FrameWords
      BY <1>2, PredTimes DEF HostTake, TypeOK
    <3>4. outCount * FrameWords \in Nat /\ (idState = "GET_PACKET_DATA" => rxCounter \in Nat)
      BY ProductType DEF TypeOK
    <3>5. idState' = idState /\ rxCounter' = rxCounter
      BY <1>2 DEF UsbStep
    <3> QED
      BY <3>1, <3>2, <3>3, <3>4, <3>5 DEF OutFraming
  <2>5. WrapBits'
    BY <1>2 DEF UsbStep, HostTake, TypeOK, WrapBits
  <2>6. Progress'
    BY <1>2 DEF UsbStep, HostTake, TypeOK, Progress
  <2>7. Initialising'
    BY <1>2 DEF UsbStep, HostTake, TypeOK, Initialising
  <2> QED
    BY <2>1, <2>2, <2>3, <2>4, <2>5, <2>6, <2>7
<1>3. CASE CtlRequest
  <2>1. TypeOK'
    BY <1>3, GrantType DEF UsbStep, CtlRequest, TypeOK, Acked, OffBus, Masters
  <2>2. TxOwnership'
    BY <1>3 DEF UsbStep, CtlRequest, TypeOK, TxOwnership
  <2>3. RxOwnership'
    BY <1>3 DEF UsbStep, CtlRequest, TypeOK, RxOwnership
  <2>4. OutFraming'
    BY <1>3 DEF UsbStep, CtlRequest, TypeOK, OutFraming
  <2>5. WrapBits'
    BY <1>3 DEF UsbStep, CtlRequest, TypeOK, WrapBits
  <2>6. Progress'
    BY <1>3 DEF UsbStep, CtlRequest, TypeOK, Progress
  <2>7. Initialising'
    BY <1>3 DEF UsbStep, CtlRequest, TypeOK, Initialising
  <2> QED
    BY <2>1, <2>2, <2>3, <2>4, <2>5, <2>6, <2>7
<1> QED
  BY <1>1, <1>2, <1>3 DEF UsbStep

\* So does a step that changes nothing.
LEMMA Stutter == IInv /\ UNCHANGED vars => IInv'
<1> SUFFICES ASSUME IInv, UNCHANGED vars PROVE IInv'
  OBVIOUS
<1> USE DEF vars, IInv, macSide, netVars, bdVars, engineVars, hmiVars, idVars, ringVars, flagVars,
            copyVars, fifoVars
<1>1. TypeOK'
  BY DEF TypeOK
<1>2. TxOwnership'
  BY DEF TxOwnership
<1>3. RxOwnership'
  BY DEF RxOwnership
<1>4. OutFraming'
  BY DEF OutFraming
<1>5. WrapBits' /\ Initialising'
  BY DEF WrapBits, Initialising
<1>6. Progress'
  BY DEF Progress
<1> QED
  BY <1>1, <1>2, <1>3, <1>4, <1>5, <1>6

\* Reset: all BDs clear, both rings empty.
LEMMA InitIInv == Init => IInv
<1> SUFFICES ASSUME Init PROVE IInv
  OBVIOUS
<1> USE DEF Init, MacInit, HmiInit, IdInit
<1>1. 0 \in Ring /\ \A n \in Nums : Frame(n) \in [Words -> Nums]
  BY DEF Ring, Frame
<1>2. TypeOK
  <2>1. /\ txBuf \in [Ring -> [Words -> Nums]] /\ rxBuf \in [Ring -> [Words -> Nums]]
        /\ macTx \in Ring /\ macRx \in Ring
        /\ head \in Ring /\ tail \in Ring /\ rdHead \in Ring /\ rdTail \in Ring
    BY <1>1 DEF Nums
  <2>2. txFetched \in Seq(Nums) /\ outData \in Seq(Nums)
    OBVIOUS
  <2>3. wire \in Seq(Seq(Nums)) /\ host \in Seq(Seq(Nums))
    OBVIOUS
  <2>4. idState \in IdStates /\ hmiState \in HmiStates /\ grant \in Masters
    BY DEF IdStates, InitStates, BootStates, HmiStates, Masters
  <2>5. /\ txBD \in [Ring -> [r : BOOLEAN, w : BOOLEAN]]
        /\ rxBD \in [Ring -> [e : BOOLEAN, w : BOOLEAN, len : BOOLEAN]]
    OBVIOUS
  <2>6. txCounter \in 0 .. FrameWords /\ rxCounter \in 0 .. FrameWords /\ rxWord \in Nums
    BY DEF Nums
  <2> QED
    BY <2>1, <2>2, <2>3, <2>4, <2>5, <2>6 DEF TypeOK
<1>3. TxOwnership
  BY <1>1, DistType DEF TxOwnership, InitStates, BootStates, TxStates, TxCopyStates, Ring
<1>4. RxOwnership
  BY DEF RxOwnership, RxCopyStates
<1>5. OutFraming
  BY DEF OutFraming
<1>6. WrapBits /\ Initialising
  BY DEF WrapBits, Initialising, InitStates, BootStates, RxInitStates, TxInitStates
<1>7. Progress
  BY DEF Progress, TxStates, TxCopyStates
<1> QED
  BY <1>2, <1>3, <1>4, <1>5, <1>6, <1>7 DEF IInv

\* Every step of the system keeps the invariant.
LEMMA NextIInv == IInv /\ [Next]_vars => IInv'
<1> SUFFICES ASSUME IInv, [Next]_vars PROVE IInv'
  OBVIOUS
<1>1. CASE HmiStep
  BY <1>1, HmiKeeps
<1>2. CASE IdStep
  BY <1>2, TypeId, TxOwnershipId, RxOwnershipId, OutFramingId, WrapBitsId, ProgressId,
     InitialisingId DEF IInv
<1>3. CASE MacStep
  BY <1>3, MacKeeps
<1>4. CASE NetStep
  BY <1>4, NetKeeps
<1>5. CASE UsbStep
  BY <1>5, UsbKeeps
<1>6. CASE UNCHANGED vars
  BY <1>6, Stutter
<1> QED
  BY <1>1, <1>2, <1>3, <1>4, <1>5, <1>6 DEF Next

\* The invariant: from reset, in every state the bridge and the MAC reach.
LEMMA InductiveInvariant == Spec => []IInv
<1> QED
  BY InitIInv, NextIInv, PTL DEF Spec

\* Every variable keeps its type; in particular the MAC's pointers stay in their
\* rings, although only the wrap bits InjectData writes keep them there.
THEOREM TypeCorrect == Spec => []TypeOK
<1>1. IInv => TypeOK
  BY DEF IInv
<1> QED
  BY <1>1, InductiveInvariant, PTL

\* The transmit ring has one owner per BD: InjectData never fills a buffer the MAC
\* may be reading, and never reclaims a BD the MAC has still to send.
THEOREM TxRingOwnership == Spec => []TxOwnership
<1>1. IInv => TxOwnership
  BY DEF IInv
<1> QED
  BY <1>1, InductiveInvariant, PTL

\* The receive ring has one owner per BD: the MAC never fills a buffer whose frame
\* InjectData has not copied, and InjectData copies only frames that are complete.
THEOREM RxRingOwnership == Spec => []RxOwnership
<1>1. IInv => RxOwnership
  BY DEF IInv
<1> QED
  BY <1>1, InductiveInvariant, PTL

\* The out FIFOs agree: USBOutFromFifo finds in the data FIFO all the words of a
\* frame whose length it has read.
THEOREM OutFifosFramed == Spec => []OutFraming
<1>1. IInv => OutFraming
  BY DEF IInv
<1> QED
  BY <1>1, InductiveInvariant, PTL

(***************************************************************************)
(* Who forgets work: an action property, from IInv and PulseInv.            *)
(***************************************************************************)
\* The new_irq pulse is up only between the read of the sources and their
\* clearing, so that no read overwrites one that InjectData has not seen.
PulseInv == newIrq # {} => hmiState = "CLEAR_IRQ"

LEMMA PulseKept == PulseInv /\ [Next]_vars => PulseInv'
<1> SUFFICES ASSUME PulseInv, [Next]_vars PROVE PulseInv'
  OBVIOUS
<1>1. CASE HmiStep
  BY <1>1 DEF HmiStep, HmiBusStep, SeeInt, ReadIrq, ClearIrq, PulseInv
<1>2. CASE IdStep
  <2>1. hmiState' = hmiState
    BY <1>2 DEF IdStep
  <2>2. newIrq' = {}
    BY <1>2 DEF IdStep, IdBusStep, IdInternalStep, KeepFlags, LatchFlags, Boot, WriteConfig,
       WriteModer, WriteRxPointer, WriteRxDesc, WriteTxPointer, IdleRx, IdleClear, IdleTake, IdleCtl,
       RegAccess, RegEnd, ClearTxDesc, ClearTxDescWait, GetRxPacketLength, GetPacketData, PassData,
       ResetRxDesc, WriteDataPrepare, WriteData, WriteTxDesc, Wait
  <2> QED
    BY <2>1, <2>2 DEF PulseInv
<1>3. CASE MacStep \/ NetStep \/ UsbStep \/ UNCHANGED vars
  BY <1>3 DEF MacStep, NetStep, UsbStep, vars, hmiVars, PulseInv
<1> QED
  BY <1>1, <1>2, <1>3 DEF Next

LEMMA PulseInvariant == Spec => []PulseInv
<1>1. Init => PulseInv
  BY DEF Init, HmiInit, PulseInv
<1> QED
  BY <1>1, PulseKept, PTL DEF Spec

\* HandleMacInt forgets nothing but by its clearing write.
LEMMA HmiNotices ==
  ASSUME PulseInv, HmiStep, ~ClearIrq
  PROVE  /\ RxWork' = RxWork /\ (RxNoticed => RxNoticed')
         /\ TxWork' = TxWork /\ (TxNoticed => TxNoticed')
<1>1. UNCHANGED <<macSide, pulse, idVars>>
  BY DEF HmiStep
<1>2. RxWork' = RxWork /\ TxWork' = TxWork
  BY <1>1 DEF RxWork, TxWork, macSide, bdVars, idVars, ringVars
<1>3. irq' = irq /\ newIrq \subseteq newIrq'
  BY DEF HmiStep, HmiBusStep, SeeInt, ReadIrq, PulseInv
<1>4. (pulse \cup irq \cup newIrq) \subseteq (pulse \cup irq \cup newIrq)'
  BY <1>1, <1>3
<1>5. UNCHANGED <<sendPacket, clearTxDesc, idState>>
  BY <1>1 DEF idVars, flagVars
<1> QED
  BY <1>2, <1>4, <1>5 DEF RxNoticed, TxNoticed

\* The MAC's engines finish a descriptor with a pulse.
LEMMA MacNotices ==
  ASSUME IInv, MacStep
  PROVE  /\ (RxWork' => RxWork) \/ RxNoticed'
         /\ (TxWork' => TxWork) \/ TxNoticed'
         /\ (RxNoticed => RxNoticed') /\ (TxNoticed => TxNoticed')
<1>1. UNCHANGED <<hmiVars, idVars>>
  BY DEF MacStep
<1>2. UNCHANGED <<newIrq, sendPacket, clearTxDesc, idState, head, tail, rdTail>>
  BY <1>1 DEF hmiVars, idVars, flagVars, ringVars
<1>3. CASE LatchIrq
  <2>1. (pulse \cup irq)' = pulse \cup irq /\ UNCHANGED <<txBD, rxBD>>
    BY <1>3 DEF LatchIrq, bdVars
  <2> QED
    BY <1>2, <2>1 DEF RxNoticed, TxNoticed, RxWork, TxWork
<1>4. CASE \E kind \in TxIrqs : TxStatusWrite(kind)
  <2>1. TxIrqs \cap pulse' # {} /\ pulse \subseteq pulse' /\ irq' = irq /\ rxBD' = rxBD
    BY <1>4 DEF TxStatusWrite
  <2> QED
    BY <1>2, <2>1 DEF RxNoticed, TxNoticed, RxWork
<1>5. CASE \E kind \in RxIrqs : RxStatusWrite(kind)
  <2>1. RxIrqs \cap pulse' # {} /\ pulse \subseteq pulse' /\ irq' = irq /\ txBD' = txBD
    BY <1>5 DEF RxStatusWrite
  <2> QED
    BY <1>2, <2>1 DEF RxNoticed, TxNoticed, TxWork
<1>6. CASE MacBusStep \/ TxBDRead \/ RxBDRead
  <2>1. UNCHANGED <<pulse, irq, txBD, rxBD>>
    BY <1>6 DEF MacBusStep, TxFetch, RxStore, TxBDRead, RxBDRead, bdVars
  <2> QED
    BY <1>2, <2>1 DEF RxNoticed, TxNoticed, RxWork, TxWork
<1> QED
  BY <1>3, <1>4, <1>5, <1>6 DEF MacStep, MacInternalStep

\* The wire and the USB side touch neither work nor notices, but for Busy_IRQ.
LEMMA OutsideNotices ==
  ASSUME NetStep \/ UsbStep \/ UNCHANGED vars
  PROVE  /\ RxWork' = RxWork /\ (RxNoticed => RxNoticed')
         /\ TxWork' = TxWork /\ (TxNoticed => TxNoticed')
<1>1. UNCHANGED <<irq, newIrq, sendPacket, clearTxDesc, idState, head, tail, rdTail, txBD, rxBD>>
  BY DEF NetStep, WireStep, RxFrameStart, RxBusy, RxAbort, UsbStep, vars, hmiVars, idVars, flagVars,
     ringVars, macSide, bdVars
<1>2. pulse \subseteq pulse'
  BY DEF NetStep, WireStep, RxFrameStart, RxBusy, RxAbort, UsbStep, vars
<1> QED
  BY <1>1, <1>2 DEF RxNoticed, TxNoticed, RxWork, TxWork

\* InjectData's clock: what the pulse says goes into the flags, and the flags
\* are cleared only into the scan they ask for.
LEMMA FlagsNotice ==
  ASSUME IdStep
  PROVE  /\ UNCHANGED <<pulse, irq>> /\ newIrq' = {}
         /\ newIrq \cap RxIrqs # {} => sendPacket'
         /\ newIrq \cap TxIrqs # {} => clearTxDesc'
         /\ sendPacket => sendPacket' \/ idState' = "GET_RX_PACKET_LENGTH"
         /\ clearTxDesc => clearTxDesc' \/ idState' = "CLEAR_TX_DESC"
<1>1. UNCHANGED <<pulse, irq>>
  BY DEF IdStep
<1>2. CASE IdleRx
  BY <1>1, <1>2 DEF IdleRx, LatchFlags
<1>3. CASE IdleClear
  BY <1>1, <1>3 DEF IdleClear, LatchFlags
<1>4. CASE ~IdleRx /\ ~IdleClear
  <2>1. KeepFlags
    BY <1>4 DEF IdStep, IdBusStep, IdInternalStep, Boot, WriteConfig,
       WriteModer, WriteRxPointer, WriteRxDesc, WriteTxPointer, IdleTake, IdleCtl,
       RegAccess, RegEnd, ClearTxDesc, ClearTxDescWait, GetRxPacketLength, GetPacketData, PassData,
       ResetRxDesc, WriteDataPrepare, WriteData, WriteTxDesc, Wait
  <2> QED
    BY <1>1, <2>1 DEF KeepFlags, LatchFlags
<1> QED
  BY <1>2, <1>3, <1>4

\* The scan of the receive ring ends only where no frame waits.
LEMMA RxScan ==
  ASSUME IInv, IdStep
  PROVE  /\ idState \in RxStates /\ RxWork' => idState' \in RxStates
         /\ RxWork' /\ idState \notin RxStates => RxWork
<1>1. RxStates \cap InitStates = {} /\ "IDLE" \notin RxStates
  BY DEF RxStates, RxCopyStates, InitStates, BootStates, RxInitStates, TxInitStates
<1>2. CASE GetRxPacketLength
  <2>1. rxBD' = rxBD /\ rdTail' = rdTail
    BY <1>2 DEF GetRxPacketLength, macSide, bdVars, ringVars
  <2> QED
    BY <1>2, <2>1 DEF GetRxPacketLength, RxWork, RxStates, RxCopyStates
<1>3. CASE GetPacketData \/ PassData
  BY <1>3 DEF GetPacketData, PassData, PushWord, RxStates, RxCopyStates
<1>4. CASE ResetRxDesc
  BY <1>4 DEF ResetRxDesc, RxStates, RxCopyStates
<1>5. CASE Wait
  <2>1. UNCHANGED <<rxBD, rdTail, idState>>
    BY <1>5 DEF Wait, macSide, bdVars, ringVars
  <2> QED
    BY <2>1 DEF RxWork
<1>6. CASE WriteRxDesc
  <2>1. rdTail \in Ring /\ rdHead \in Ring /\ DOMAIN rxBD = Ring
    BY DEF IInv, TypeOK
  <2>2. rdTail' = rdTail /\ idState = "WRITE_ETHMAC_RX_BUF_DESC_1"
    BY <1>6 DEF WriteRxDesc
  <2>3. rxBD'[rdTail] = rxBD[rdTail] \/ ~rxBD'[rdTail].len
    BY <1>6, <2>1 DEF WriteRxDesc, WriteRxBD
  <2> QED
    BY <2>2, <2>3 DEF RxWork, RxStates, RxCopyStates
<1>7. CASE ~(GetRxPacketLength \/ GetPacketData \/ PassData \/ ResetRxDesc \/ Wait \/ WriteRxDesc)
  <2>1. UNCHANGED <<rxBD, rdTail>>
    BY <1>7 DEF IdStep, IdBusStep, IdInternalStep, Boot, WriteConfig, WriteModer, WriteRxPointer,
       WriteTxPointer, IdleRx, IdleClear, IdleTake, IdleCtl, RegAccess, RegEnd, ClearTxDesc,
       ClearTxDescWait, WriteDataPrepare, WriteData, WriteTxDesc, macSide, bdVars, ringVars
  <2>2. idState \notin RxStates
    BY <1>7 DEF IdStep, IdBusStep, IdInternalStep, Boot, WriteConfig, WriteModer, WriteRxPointer,
       WriteTxPointer, IdleRx, IdleClear, IdleTake, IdleCtl, RegAccess, RegEnd, ClearTxDesc,
       ClearTxDescWait, WriteDataPrepare, WriteData, WriteTxDesc, RxStates, RxCopyStates
  <2> QED
    BY <2>1, <2>2 DEF RxWork
<1> QED
  BY <1>1, <1>2, <1>3, <1>4, <1>5, <1>6, <1>7

\* The scan of the transmit ring ends only where no BD waits, and a BD is filled
\* only for the MAC.
LEMMA TxScan ==
  ASSUME IInv, IdStep, TxWork'
  PROVE  TxWork \/ idState' \in ClearStates \cup InitStates
<1>1. head \in Ring /\ tail \in Ring /\ DOMAIN txBD = Ring
  BY DEF IInv, TypeOK
<1>2. CASE ClearTxDesc
  <2>1. txBD' = txBD /\ head' = head
    BY <1>2 DEF ClearTxDesc, macSide, bdVars
  <2> QED
    BY <1>2, <2>1 DEF ClearTxDesc, TxWork, ClearStates
<1>3. CASE WriteTxDesc
  <2>1. tail' = tail /\ txBD'[head].r /\ \A i \in Ring : i # head => txBD'[i] = txBD[i]
    BY <1>1, <1>3 DEF WriteTxDesc, WriteTxBD
  <2> QED
    BY <1>1, <2>1 DEF TxWork
<1>4. CASE WriteTxPointer
  <2>1. tail' = 0
    BY <1>4 DEF WriteTxPointer, IInv, Initialising, InitStates, TxInitStates
  <2>2. head' = 0 \/ idState' \in InitStates
    BY <1>4 DEF WriteTxPointer, InitStates, TxInitStates
  <2> QED
    BY <2>1, <2>2 DEF TxWork
<1>5. CASE ~(ClearTxDesc \/ WriteTxDesc \/ WriteTxPointer)
  <2>1. UNCHANGED <<txBD, head, tail>>
    BY <1>5 DEF IdStep, IdBusStep, IdInternalStep, Boot, WriteConfig, WriteModer, WriteRxPointer,
       WriteRxDesc, IdleRx, IdleClear, IdleTake, IdleCtl, RegAccess, RegEnd, ClearTxDescWait,
       GetRxPacketLength, GetPacketData, PassData, ResetRxDesc, WriteDataPrepare, WriteData, Wait,
       macSide, bdVars, ringVars
  <2> QED
    BY <2>1 DEF TxWork
<1> QED
  BY <1>2, <1>3, <1>4, <1>5

\* A scan of the transmit ring, and the initialisation, go on while work waits.
LEMMA TxScanGoesOn ==
  ASSUME IInv, IdStep, idState \in ClearStates \cup InitStates, TxWork'
  PROVE  idState' \in ClearStates \cup InitStates
<1>1. tail \in Ring /\ head \in Ring
  BY DEF IInv, TypeOK
<1>2. CASE ClearTxDesc
  <2>1. txBD' = txBD /\ head' = head
    BY <1>2 DEF ClearTxDesc, macSide, bdVars
  <2> QED
    BY <1>2, <2>1 DEF ClearTxDesc, TxWork, ClearStates
<1>3. CASE WriteTxPointer
  <2>1. tail' = 0
    BY <1>3 DEF WriteTxPointer, IInv, Initialising, InitStates, TxInitStates
  <2>2. head' = 0 \/ idState' \in InitStates
    BY <1>3 DEF WriteTxPointer, InitStates, TxInitStates
  <2> QED
    BY <2>1, <2>2 DEF TxWork
<1>4. CASE Wait
  BY <1>4 DEF Wait
<1>5. CASE Boot \/ WriteConfig \/ WriteModer \/ WriteRxPointer \/ WriteRxDesc \/ ClearTxDescWait
  BY <1>5 DEF Boot, WriteConfig, WriteModer, WriteRxPointer, WriteRxDesc, ClearTxDescWait,
     ClearStates, InitStates, BootStates, RxInitStates, TxInitStates
<1>6. ClearTxDesc \/ WriteTxPointer \/ Wait \/ Boot \/ WriteConfig \/ WriteModer
        \/ WriteRxPointer \/ WriteRxDesc \/ ClearTxDescWait
  BY DEF IdStep, IdBusStep, IdInternalStep, IdleRx, IdleClear, IdleTake, IdleCtl, RegAccess, RegEnd,
     GetRxPacketLength, GetPacketData, PassData, ResetRxDesc, WriteDataPrepare, WriteData, WriteTxDesc,
     ClearStates, InitStates, BootStates, RxInitStates, TxInitStates
<1> QED
  BY <1>2, <1>3, <1>4, <1>5, <1>6

\* InjectData forgets nothing.
LEMMA IdNotices ==
  ASSUME IInv, IdStep
  PROVE  /\ (RxWork => RxNoticed) => (RxWork => RxNoticed)'
         /\ (TxWork => TxNoticed) => (TxWork => TxNoticed)'
<1>1. ASSUME RxWork => RxNoticed, RxWork' PROVE RxNoticed'
  <2>1. CASE idState \in RxStates
    BY <1>1, <2>1, RxScan DEF RxNoticed
  <2>2. CASE idState \notin RxStates
    <3>1. (pulse \cup irq) \cap RxIrqs # {} \/ newIrq \cap RxIrqs # {} \/ sendPacket
      BY <1>1, <2>2, RxScan DEF RxNoticed
    <3> QED
      BY <3>1, FlagsNotice DEF RxNoticed, RxStates
  <2> QED
    BY <2>1, <2>2
<1>2. ASSUME TxWork => TxNoticed, TxWork' PROVE TxNoticed'
  <2>1. CASE idState \in ClearStates \cup InitStates
    BY <1>2, <2>1, TxScanGoesOn DEF TxNoticed
  <2>2. CASE idState \notin ClearStates \cup InitStates
    <3>1. \/ idState' \in ClearStates \cup InitStates
          \/ (pulse \cup irq) \cap TxIrqs # {} \/ newIrq \cap TxIrqs # {} \/ clearTxDesc
      BY <1>2, <2>2, TxScan DEF TxNoticed
    <3> QED
      BY <3>1, FlagsNotice DEF TxNoticed, ClearStates
  <2> QED
    BY <2>1, <2>2
<1> QED
  BY <1>1, <1>2

\* Of all the steps of the bridge, the MAC and the USB side, only the write that
\* clears every interrupt source at once (handle_mac_int.py) can leave a received
\* frame or a transmitted BD without anything that makes InjectData look at it.
THEOREM OnlyTheClearForgets == Spec => OnlyClearForgets
<1> DEFINE Kept == /\ (RxWork => RxNoticed) /\ ~(RxWork => RxNoticed)' => ClearIrq
                   /\ (TxWork => TxNoticed) /\ ~(TxWork => TxNoticed)' => ClearIrq
<1>1. IInv /\ PulseInv /\ [Next]_vars => [Kept]_vars
  <2> SUFFICES ASSUME IInv, PulseInv, [Next]_vars PROVE Kept
    OBVIOUS
  <2>1. CASE HmiStep
    BY <2>1, HmiNotices
  <2>2. CASE IdStep
    BY <2>2, IdNotices
  <2>3. CASE MacStep
    BY <2>3, MacNotices
  <2>4. CASE NetStep \/ UsbStep \/ UNCHANGED vars
    BY <2>4, OutsideNotices
  <2> QED
    BY <2>1, <2>2, <2>3, <2>4 DEF Next
<1> QED
  BY <1>1, InductiveInvariant, PulseInvariant, PTL DEF Spec, OnlyClearForgets

(***************************************************************************)
(* The refinement of EthLink: the bridge hands on whole frames in order.    *)
(***************************************************************************)

(***************************************************************************)
(* What the buffers and FIFOs hold: whole frames, in the order of their     *)
(* numbers.                                                                 *)
(***************************************************************************)
\* Where word j of the k-th frame is in the out data FIFO.
Pos(k, j) == (k - 1) * FrameWords + j

\* The last frame InjectData has handed to the transmit ring, and the last one
\* the MAC has handed to the receive ring.
TxDone == IF idState \in TxStates THEN taken - 1 ELSE taken
RxDone == IF rxEng \in {"dma", "status"} THEN rxSeen - 1 ELSE rxSeen

\* Towards the wire: each ready BD has a whole frame, the frames grow around the
\* ring from the MAC's pointer, and beyond those on the wire; the buffer at head
\* has as much of the next frame as InjectData has counted, the engine as much
\* of its frame as it has fetched.
TxOrder ==
  /\ taken <= hostSent
  /\ \A k \in DOMAIN wire : wire[k][1] <= TxDone
  /\ \A i \in Ring : txBD[i].r =>
       /\ txBuf[i] = Frame(txBuf[i][1]) /\ txBuf[i][1] <= TxDone
       /\ \A k \in DOMAIN wire : wire[k][1] < txBuf[i][1]
  /\ \A i, j \in Ring : txBD[i].r /\ txBD[j].r /\ Dist(macTx, i) < Dist(macTx, j) =>
       txBuf[i][1] < txBuf[j][1]

TxWords ==
  /\ idState \in TxStates => \A k \in 1 .. txCounter : txBuf[head][k] = taken
  /\ idState = "WRITE_ETHMAC_TX_BUF_DESC_1" => txCounter = FrameWords
  /\ txEng \in {"dma", "status"} => \A k \in DOMAIN txFetched : txFetched[k] = txBuf[macTx][k]
  /\ txEng = "status" => Len(txFetched) = FrameWords

TxContents == WireInOrder /\ TxOrder /\ TxWords

\* From the wire: the frames in the out FIFOs, then those in the buffers from
\* rdTail on, but for the one that is in the FIFOs as a whole.
Stored(i) == rxBD[i].len /\ ~(idState = "RESET_ETHMAC_RX_BUF_DESC_1" /\ i = rdTail)

OutOrder ==
  /\ \A k \in 1 .. outCount :
       /\ \A j \in Words : outData[Pos(k, j)] = outData[Pos(k, 1)]
       /\ outData[Pos(k, 1)] <= RxDone
       /\ \A n \in DOMAIN host : host[n][1] < outData[Pos(k, 1)]
       /\ \A i \in Ring : Stored(i) => outData[Pos(k, 1)] < rxBuf[i][1]
  /\ \A k, l \in 1 .. outCount : k < l => outData[Pos(k, 1)] < outData[Pos(l, 1)]

RxOrder ==
  /\ \A n \in DOMAIN host : host[n][1] <= RxDone
  /\ \A i \in Ring : Stored(i) =>
       /\ rxBuf[i] = Frame(rxBuf[i][1]) /\ rxBuf[i][1] <= RxDone
       /\ \A n \in DOMAIN host : host[n][1] < rxBuf[i][1]
  /\ \A i, j \in Ring : Stored(i) /\ Stored(j) /\ Dist(rdTail, i) < Dist(rdTail, j) =>
       rxBuf[i][1] < rxBuf[j][1]

RxWords ==
  /\ idState = "GET_PACKET_DATA" =>
       /\ \A j \in 1 .. rxCounter : outData[outCount * FrameWords + j] = rxBuf[rdTail][j]
       /\ passData => rxWord = rxBuf[rdTail][rxCounter + 1]
  /\ passData => idState = "GET_PACKET_DATA"
  /\ rxEng \in {"dma", "status"} => \A k \in 1 .. rxCount : rxBuf[macRx][k] = rxSeen
  /\ rxEng = "status" => rxCount = FrameWords

RxContents == HostInOrder /\ OutOrder /\ RxOrder /\ RxWords

Contents == TxContents /\ RxContents

\* Whole frames that grow go on doing so with a later one.
LEMMA IncreasingAppend ==
  ASSUME NEW s \in Seq(Seq(Nums)), Increasing(s), NEW n \in Nums,
         \A k \in DOMAIN s : s[k][1] < n
  PROVE  Increasing(Append(s, Frame(n)))
<1> DEFINE t == Append(s, Frame(n))
<1>1. 1 \in Words /\ Frame(n)[1] = n
  BY DEF Words, Frame
<1>2. Len(s) \in Nat /\ DOMAIN s = 1 .. Len(s)
  OBVIOUS
<1>3. /\ DOMAIN t = 1 .. Len(s) + 1 /\ t[Len(s) + 1] = Frame(n)
      /\ \A k \in 1 .. Len(s) : t[k] = s[k]
  <2>1. s \in Seq(Seq(Nums) \cup {Frame(n)}) /\ Frame(n) \in Seq(Nums) \cup {Frame(n)}
    OBVIOUS
  <2> QED
    BY <2>1
<1> HIDE DEF t
<1>4. ASSUME NEW k \in DOMAIN t PROVE t[k] = Frame(t[k][1])
  <2>1. CASE k = Len(s) + 1
    BY <1>1, <1>3, <2>1
  <2>2. CASE k \in 1 .. Len(s)
    <3>1. s[k] = Frame(s[k][1])
      BY <1>2, <2>2 DEF Increasing
    <3> QED
      BY <1>3, <2>2, <3>1
  <2> QED
    BY <1>2, <1>3, <2>1, <2>2
<1>5. ASSUME NEW j \in DOMAIN t, NEW k \in DOMAIN t, j < k PROVE t[j][1] < t[k][1]
  <2>1. j \in 1 .. Len(s) /\ t[j] = s[j]
    BY <1>2, <1>3, <1>5
  <2>2. CASE k = Len(s) + 1
    BY <1>1, <1>2, <1>3, <2>1, <2>2
  <2>3. CASE k \in 1 .. Len(s)
    BY <1>2, <1>3, <1>5, <2>1, <2>3 DEF Increasing
  <2> QED
    BY <1>2, <1>3, <2>2, <2>3
<1>6. Increasing(t)
  BY <1>4, <1>5 DEF Increasing
<1> QED
  BY <1>6 DEF t

\* The number of such a frame is one.
LEMMA FirstType ==
  ASSUME NEW s \in Seq(Seq(Nums)), Increasing(s), NEW k \in DOMAIN s
  PROVE  s[k][1] \in Nums
<1>1. s[k] \in Seq(Nums) /\ s[k] = Frame(s[k][1])
  BY DEF Increasing
<1>2. 1 \in DOMAIN s[k]
  BY <1>1 DEF Frame, Words
<1> QED
  BY <1>1, <1>2

(***************************************************************************)
(* Towards the wire.                                                        *)
(***************************************************************************)
LEMMA TxSame ==
  ASSUME TypeOK, TxContents, hostSent' \in Nat, hostSent' >= hostSent,
         UNCHANGED <<wire, taken, txBD, txBuf, macTx, txCounter, txEng, txFetched>>,
         UNCHANGED <<idState, head>> \/ {idState, idState'} \cap TxStates = {}
  PROVE  TxContents'
<1>1. TxDone' = TxDone /\ (idState' \in TxStates => UNCHANGED <<idState, head>>)
  BY DEF TxDone
<1>2. TxOrder'
  <2>1. taken' <= hostSent'
    BY DEF TypeOK, TxContents, TxOrder
  <2> QED
    BY <1>1, <2>1 DEF TxContents, TxOrder
<1>3. TxWords'
  <2>1. "WRITE_ETHMAC_TX_BUF_DESC_1" \in TxStates
    BY DEF TxStates
  <2> QED
    BY <1>1, <2>1 DEF TxContents, TxWords
<1> QED
  BY <1>2, <1>3 DEF TxContents, WireInOrder

LEMMA TxContentsId ==
  ASSUME IInv, TxContents, IdStep
  PROVE  TxContents'
<1>1. wire' = wire /\ WireInOrder' /\ hostSent' = hostSent
  <2>1. wire' = wire
    BY DEF IdStep, netVars
  <2>2. hostSent' = hostSent
    BY DEF IdStep, IdBusStep, IdInternalStep, Boot, WriteConfig, WriteModer, WriteRxPointer, WriteRxDesc,
       WriteTxPointer, IdleRx, IdleClear, IdleTake, IdleCtl, RegAccess, RegEnd, ClearTxDesc,
       ClearTxDescWait, GetRxPacketLength, GetPacketData, PassData, ResetRxDesc, WriteDataPrepare,
       WriteData, WriteTxDesc, Wait, fifoVars
  <2> QED
    BY <2>1, <2>2 DEF TxContents, WireInOrder
<1>2. /\ TypeOK /\ hostSent \in Nat /\ taken \in Nat /\ head \in Ring /\ macTx \in Ring
      /\ txCounter \in Nat /\ DOMAIN txBD = Ring /\ txBuf \in [Ring -> [Words -> Nums]]
  BY DEF IInv, TypeOK
<1>3. txEng \in {"dma", "status"} => txBD[macTx].r
  BY DEF IInv, Progress
<1>4. idState \in TxStates => ~txBD[head].r
  BY DEF IInv, TxOwnership
<1>5. CASE WriteModer
  <2>1. UNCHANGED <<taken, txBD, txBuf>> /\ idState' \notin TxStates /\ idState \notin TxStates
    BY <1>5 DEF WriteModer, fifoVars, bdVars, TxStates, TxCopyStates
  <2>2. \A i \in Ring : ~txBD[i].r
    BY <1>5 DEF WriteModer, IInv, TxOwnership, InitStates, BootStates
  <2>3. txEng' = "bd"
    BY <1>5 DEF WriteModer, EnableMac
  <2>4. TxDone' = TxDone
    BY <2>1 DEF TxDone
  <2>5. TxOrder'
    BY <1>1, <2>1, <2>2, <2>4 DEF TxContents, TxOrder
  <2>6. TxWords'
    BY <2>1, <2>3 DEF TxWords, TxStates
  <2> QED
    BY <1>1, <2>5, <2>6 DEF TxContents
<1>6. CASE IdleTake
  <2>1. /\ UNCHANGED <<txBD, txBuf, macTx, txEng, txFetched>> /\ idState = "IDLE"
        /\ idState' = "WRITE_DATA_PREPARE" /\ taken' = taken + 1 /\ txCounter' = 0
    BY <1>6 DEF IdleTake, macSide, bdVars, engineVars
  <2>2. TxDone' = TxDone
    BY <1>2, <2>1 DEF TxDone, TxStates, TxCopyStates
  <2>3. taken' <= hostSent'
    BY <1>1, <1>2, <1>6, <2>1 DEF IdleTake, CanTake
  <2>4. TxOrder'
    BY <1>1, <2>1, <2>2, <2>3 DEF TxContents, TxOrder
  <2>5. TxWords'
    BY <2>1 DEF TxContents, TxWords
  <2> QED
    BY <1>1, <2>4, <2>5 DEF TxContents
<1>7. CASE WriteDataPrepare
  <2>1. /\ UNCHANGED <<taken, txBD, txBuf, macTx, txEng, txFetched, head, txCounter>>
        /\ idState = "WRITE_DATA_PREPARE" /\ idState' = "WRITE_DATA"
    BY <1>7 DEF WriteDataPrepare, macSide, bdVars, engineVars, ringVars, copyVars, fifoVars
  <2>2. TxDone' = TxDone
    BY <2>1 DEF TxDone, TxStates, TxCopyStates
  <2>3. TxOrder'
    BY <1>1, <2>1, <2>2 DEF TxContents, TxOrder
  <2>4. TxWords'
    BY <2>1 DEF TxContents, TxWords, TxStates, TxCopyStates
  <2> QED
    BY <1>1, <2>3, <2>4 DEF TxContents
<1>8. CASE WriteData
  <2>1. /\ UNCHANGED <<taken, txBD, macTx, txEng, txFetched, head>>
        /\ idState = "WRITE_DATA" /\ txCounter' = txCounter + 1
        /\ txBuf' = [txBuf EXCEPT ![head][txCounter + 1] = taken]
        /\ idState' = IF txCounter + 1 < FrameWords
                      THEN "WRITE_DATA_PREPARE" ELSE "WRITE_ETHMAC_TX_BUF_DESC_1"
    BY <1>8 DEF WriteData, bdVars, engineVars, ringVars, fifoVars
  <2>2. TxDone' = TxDone /\ idState \in TxStates /\ idState' \in TxStates
    BY <2>1 DEF TxDone, TxStates, TxCopyStates
  <2>3. txCounter < FrameWords /\ txCounter + 1 \in Words
    BY <1>2, <2>1 DEF IInv, Progress, TxCopyStates, Words
  <2>4. \A i \in Ring : i # head => txBuf'[i] = txBuf[i]
    BY <1>2, <2>1
  <2>5. /\ txBuf'[head][txCounter + 1] = taken
        /\ \A k \in Words : k # txCounter + 1 => txBuf'[head][k] = txBuf[head][k]
    BY <1>2, <2>1, <2>3
  <2>6. \A i \in Ring : txBD[i].r => txBuf'[i] = txBuf[i]
    BY <1>4, <2>2, <2>4
  <2>7. TxOrder'
    BY <1>1, <2>1, <2>2, <2>6 DEF TxContents, TxOrder
  <2>8. \A k \in 1 .. txCounter' : txBuf'[head][k] = taken
    <3> TAKE k \in 1 .. txCounter'
    <3>1. k = txCounter + 1 \/ (k \in 1 .. txCounter /\ k \in Words /\ k # txCounter + 1)
      BY <1>2, <2>1, <2>3 DEF Words
    <3> QED
      BY <2>2, <2>5, <3>1 DEF TxContents, TxWords
  <2>9. txEng \in {"dma", "status"} => txBuf'[macTx] = txBuf[macTx]
    BY <1>2, <1>3, <2>6
  <2>10. idState' = "WRITE_ETHMAC_TX_BUF_DESC_1" => txCounter' = FrameWords
    BY <1>2, <2>1, <2>3
  <2>11. TxWords'
    BY <2>1, <2>8, <2>9, <2>10 DEF TxContents, TxWords
  <2> QED
    BY <1>1, <2>7, <2>11 DEF TxContents
<1>9. CASE WriteTxDesc
  <2>1. /\ UNCHANGED <<taken, txBuf, macTx, txEng, txFetched>>
        /\ idState = "WRITE_ETHMAC_TX_BUF_DESC_1" /\ idState' = "IDLE"
        /\ txBD' = [txBD EXCEPT ![head] = [r |-> TRUE, w |-> head = NBD - 1]]
    BY <1>9 DEF WriteTxDesc, WriteTxBD, engineVars, fifoVars
  <2>2. TxDone = taken - 1 /\ TxDone' = taken /\ idState \in TxStates /\ idState \notin InitStates
    BY <2>1 DEF TxDone, TxStates, TxCopyStates, InitStates, BootStates, RxInitStates, TxInitStates
  <2>3. \A i \in Ring : txBD'[i].r => i = head \/ txBD[i].r
    BY <1>2, <2>1
  <2>4. txBuf[head] = Frame(taken) /\ txBuf[head][1] = taken
    <3>1. \A k \in Words : txBuf[head][k] = taken
      BY <2>1, <2>2 DEF TxContents, TxWords, Words
    <3>2. txBuf[head] \in [Words -> Nums] /\ 1 \in Words
      BY <1>2 DEF Words
    <3> QED
      BY <3>1, <3>2 DEF Frame
  <2>5. \A i \in Ring : txBD[i].r => Dist(macTx, i) < Dist(macTx, head)
    BY <2>2 DEF IInv, TxOwnership, InRing
  <2>6. \A i \in Ring : Dist(macTx, i) \in Int /\ txBuf[i][1] \in Int
    <3>1. 1 \in Words
      BY DEF Words
    <3> QED
      BY <1>2, <3>1, DistType DEF Ring, Nums
  <2>7. ASSUME NEW k \in DOMAIN wire PROVE wire[k][1] <= taken - 1 /\ wire[k][1] \in Int
    BY <1>2, <2>2, FirstType DEF TxContents, TxOrder, WireInOrder, TypeOK, Nums
  <2>8. ASSUME NEW i \in Ring, txBD'[i].r
        PROVE  /\ txBuf[i] = Frame(txBuf[i][1]) /\ txBuf[i][1] <= taken
               /\ \A k \in DOMAIN wire : wire[k][1] < txBuf[i][1]
    <3>1. CASE i = head
      BY <1>2, <2>4, <2>7, <3>1
    <3>2. CASE txBD[i].r
      BY <1>2, <2>2, <2>6, <3>2 DEF TxContents, TxOrder
    <3> QED
      BY <2>3, <2>8, <3>1, <3>2
  <2>9. ASSUME NEW i \in Ring, NEW j \in Ring, txBD'[i].r, txBD'[j].r, Dist(macTx, i) < Dist(macTx, j)
        PROVE  txBuf[i][1] < txBuf[j][1]
    <3>1. i # head
      BY <1>2, <2>3, <2>5, <2>6, <2>9
    <3>2. txBD[i].r
      BY <2>3, <2>9, <3>1
    <3>3. CASE j = head
      <4>1. txBuf[i][1] <= taken - 1
        BY <2>2, <3>2 DEF TxContents, TxOrder
      <4> QED
        BY <1>2, <2>4, <2>6, <3>3, <4>1
    <3>4. CASE txBD[j].r
      BY <2>9, <3>2, <3>4 DEF TxContents, TxOrder
    <3> QED
      BY <2>3, <2>9, <3>3, <3>4
  <2>10. TxOrder'
    <3>1. taken <= hostSent
      BY DEF TxContents, TxOrder
    <3>2. \A k \in DOMAIN wire : wire[k][1] <= taken
      BY <1>2, <2>7
    <3> QED
      BY <1>1, <2>1, <2>2, <2>8, <2>9, <3>1, <3>2 DEF TxOrder
  <2>11. TxWords'
    BY <2>1 DEF TxContents, TxWords, TxStates, TxCopyStates
  <2> QED
    BY <1>1, <2>10, <2>11 DEF TxContents
<1>10. CASE ~(WriteModer \/ IdleTake \/ WriteDataPrepare \/ WriteData \/ WriteTxDesc)
  <2>1. UNCHANGED <<taken, txBD, txBuf, macTx, txCounter, txEng, txFetched>>
    BY <1>10 DEF IdStep, IdBusStep, IdInternalStep, Boot, WriteConfig, WriteRxPointer, WriteRxDesc,
       WriteTxPointer, IdleRx, IdleClear, IdleCtl, RegAccess, RegEnd, ClearTxDesc,
       ClearTxDescWait, GetRxPacketLength, GetPacketData, PassData, ResetRxDesc, Wait,
       macSide, bdVars, engineVars, fifoVars, copyVars
  <2>2. UNCHANGED <<idState, head>> \/ {idState, idState'} \cap TxStates = {}
    BY <1>10 DEF IdStep, IdBusStep, IdInternalStep, Boot, WriteConfig, WriteRxPointer, WriteRxDesc,
       WriteTxPointer, IdleRx, IdleClear, IdleCtl, RegAccess, RegEnd, ClearTxDesc,
       ClearTxDescWait, GetRxPacketLength, GetPacketData, PassData, PushWord, ResetRxDesc, Wait, ringVars,
       TxStates, TxCopyStates
  <2> QED
    BY <1>1, <1>2, <2>1, <2>2, TxSame
<1> QED
  BY <1>5, <1>6, <1>7, <1>8, <1>9, <1>10

LEMMA TxContentsMac ==
  ASSUME IInv, TxContents, MacStep
  PROVE  TxContents'
<1>1. UNCHANGED <<idState, head, taken, hostSent, txCounter>>
  BY DEF MacStep, idVars, ringVars, fifoVars, copyVars
<1>2. /\ TypeOK /\ hostSent \in Nat /\ taken \in Nat /\ macTx \in Ring /\ DOMAIN txBD = Ring
      /\ txBuf \in [Ring -> [Words -> Nums]] /\ txFetched \in Seq(Nums) /\ wire \in Seq(Seq(Nums))
      /\ txBD \in [Ring -> [r : BOOLEAN, w : BOOLEAN]]
  BY DEF IInv, TypeOK
<1>3. TxDone' = TxDone
  BY <1>1 DEF TxDone
<1>4. CASE TxBDRead
  <2>1. UNCHANGED <<wire, txBD, txBuf, macTx>> /\ txEng' = "dma" /\ txFetched' = <<>>
    BY <1>4 DEF TxBDRead, bdVars, netVars
  <2>2. WireInOrder' /\ TxOrder'
    BY <1>1, <1>3, <2>1 DEF TxContents, TxOrder, WireInOrder
  <2>3. TxWords'
    BY <1>1, <2>1 DEF TxContents, TxWords
  <2> QED
    BY <2>2, <2>3 DEF TxContents
<1>5. CASE TxFetch
  <2>1. /\ UNCHANGED <<wire, txBD, txBuf, macTx>> /\ txEng = "dma"
        /\ txFetched' = Append(txFetched, txBuf[macTx][Len(txFetched) + 1])
        /\ txEng' = IF Len(txFetched) + 1 = FrameWords THEN "status" ELSE "dma"
    BY <1>5 DEF TxFetch, bdVars, netVars
  <2>2. WireInOrder' /\ TxOrder'
    BY <1>1, <1>3, <2>1 DEF TxContents, TxOrder, WireInOrder
  <2>3. Len(txFetched) \in Nat /\ Len(txFetched) + 1 \in Words
    BY <1>2, <2>1 DEF IInv, Progress, Words
  <2>4. txBuf[macTx][Len(txFetched) + 1] \in Nums
    BY <1>2, <2>3
  <2>5. /\ DOMAIN txFetched' = 1 .. Len(txFetched) + 1 /\ Len(txFetched') = Len(txFetched) + 1
        /\ \A k \in 1 .. Len(txFetched) : txFetched'[k] = txFetched[k]
        /\ txFetched'[Len(txFetched) + 1] = txBuf[macTx][Len(txFetched) + 1]
    BY <1>2, <2>1, <2>4
  <2>6. \A k \in DOMAIN txFetched' : txFetched'[k] = txBuf[macTx][k]
    <3> TAKE k \in DOMAIN txFetched'
    <3>1. k = Len(txFetched) + 1 \/ k \in 1 .. Len(txFetched)
      BY <2>3, <2>5
    <3>2. DOMAIN txFetched = 1 .. Len(txFetched)
      BY <1>2
    <3> QED
      BY <2>1, <2>5, <3>1, <3>2 DEF TxContents, TxWords
  <2>7. TxWords'
    BY <1>1, <2>1, <2>5, <2>6 DEF TxContents, TxWords
  <2> QED
    BY <2>2, <2>7 DEF TxContents
<1>6. CASE \E kind \in TxIrqs : TxStatusWrite(kind)
  <2>1. PICK kind \in TxIrqs : TxStatusWrite(kind)
    BY <1>6
  <2>2. /\ txBuf' = txBuf /\ txEng = "status" /\ txEng' = "bd"
        /\ txBD' = [txBD EXCEPT ![macTx].r = FALSE]
        /\ macTx' = IF txBD[macTx].w THEN 0 ELSE macTx + 1
        /\ wire' = IF kind = "txb" THEN Append(wire, txFetched) ELSE wire
    BY <2>1 DEF TxStatusWrite
  <2>3. txBD[macTx].r /\ macTx' = Succ(macTx)
    BY <1>2, <2>2 DEF IInv, Progress, WrapBits, Succ
  <2>4. \A i \in Ring : txBD'[i].r <=> i # macTx /\ txBD[i].r
    BY <1>2, <2>2
  <2> DEFINE n == txBuf[macTx][1]
  <2>5. txBuf[macTx] = Frame(n) /\ n <= TxDone /\ \A k \in DOMAIN wire : wire[k][1] < n
    BY <1>2, <2>3 DEF TxContents, TxOrder
  <2>6. n \in Nums /\ 1 \in Words /\ DOMAIN txBuf[macTx] = Words
    BY <1>2 DEF Words
  <2>7. txFetched = Frame(n)
    <3>1. Len(txFetched) = FrameWords /\ \A k \in DOMAIN txFetched : txFetched[k] = txBuf[macTx][k]
      BY <2>2 DEF TxContents, TxWords
    <3>2. DOMAIN txFetched = Words /\ txFetched = [k \in DOMAIN txFetched |-> txFetched[k]]
      BY <1>2, <3>1 DEF Words
    <3>3. txBuf[macTx] = [k \in Words |-> txBuf[macTx][k]]
      BY <1>2
    <3> QED
      BY <2>5, <3>1, <3>2, <3>3
  <2>8. ASSUME NEW i \in Ring, txBD'[i].r PROVE n < txBuf[i][1]
    <3>1. txBD[i].r /\ i # macTx
      BY <2>4, <2>8
    <3>2. Dist(macTx, macTx) < Dist(macTx, i)
      BY <1>2, <3>1 DEF Dist, Ring
    <3> QED
      BY <1>2, <2>3, <3>1, <3>2 DEF TxContents, TxOrder
  <2>9. WireInOrder'
    BY <1>2, <2>2, <2>5, <2>6, <2>7, IncreasingAppend DEF TxContents, WireInOrder
  <2>10. ASSUME NEW k \in DOMAIN wire'
         PROVE  \/ k \in DOMAIN wire /\ wire'[k] = wire[k]
                \/ wire'[k][1] = n
    <3>1. CASE kind = "txb"
      <4>1. wire' = Append(wire, txFetched) /\ txFetched[1] = n
        BY <2>2, <2>6, <2>7, <3>1 DEF Frame
      <4> QED
        BY <1>2, <4>1
    <3>2. CASE kind # "txb"
      BY <2>2, <3>2
    <3> QED
      BY <3>1, <3>2
  <2>11. ASSUME NEW i \in Ring, txBD'[i].r, NEW k \in DOMAIN wire' PROVE wire'[k][1] < txBuf[i][1]
    <3>1. txBD[i].r
      BY <2>4, <2>11
    <3> QED
      BY <2>8, <2>10, <2>11, <3>1 DEF TxContents, TxOrder
  <2>12. ASSUME NEW i \in Ring, NEW j \in Ring, txBD'[i].r, txBD'[j].r,
                Dist(Succ(macTx), i) < Dist(Succ(macTx), j)
         PROVE  txBuf[i][1] < txBuf[j][1]
    <3>1. txBD[i].r /\ txBD[j].r /\ i # macTx /\ j # macTx
      BY <2>4, <2>12
    <3>2. /\ Dist(Succ(macTx), i) = Dist(macTx, i) - 1 /\ Dist(Succ(macTx), j) = Dist(macTx, j) - 1
          /\ Dist(macTx, i) \in Ring /\ Dist(macTx, j) \in Ring
      BY <1>2, <3>1, DistSuccLeft, DistType
    <3>3. Dist(macTx, i) < Dist(macTx, j)
      BY <2>12, <3>2 DEF Ring
    <3> QED
      BY <3>1, <3>3 DEF TxContents, TxOrder
  <2>13. TxOrder'
    <3>1. taken <= hostSent /\ \A k \in DOMAIN wire' : wire'[k][1] <= TxDone
      BY <2>5, <2>10 DEF TxContents, TxOrder
    <3>2. \A i \in Ring : txBD'[i].r => txBuf[i] = Frame(txBuf[i][1]) /\ txBuf[i][1] <= TxDone
      BY <2>4 DEF TxContents, TxOrder
    <3> QED
      BY <1>1, <1>3, <2>2, <2>3, <2>11, <2>12, <3>1, <3>2 DEF TxOrder
  <2>14. TxWords'
    BY <1>1, <2>2 DEF TxContents, TxWords
  <2> QED
    BY <2>9, <2>13, <2>14 DEF TxContents
<1>7. CASE ~(TxBDRead \/ TxFetch \/ \E kind \in TxIrqs : TxStatusWrite(kind))
  <2>1. UNCHANGED <<wire, txBD, txBuf, macTx, txEng, txFetched>>
    BY <1>7 DEF MacStep, MacBusStep, MacInternalStep, RxStore, RxBDRead, LatchIrq, RxStatusWrite,
       bdVars, engineVars, netVars
  <2> QED
    BY <1>1, <1>2, <2>1, TxSame
<1> QED
  BY <1>4, <1>5, <1>6, <1>7

LEMMA TxContentsOther ==
  ASSUME IInv, TxContents, HmiStep \/ NetStep \/ UsbStep \/ UNCHANGED vars
  PROVE  TxContents'
<1>1. UNCHANGED <<wire, taken, txBD, txBuf, macTx, txCounter, txEng, txFetched, idState, head>>
  BY DEF HmiStep, NetStep, WireStep, RxFrameStart, RxBusy, RxAbort, UsbStep, HostSend, HostTake,
     CtlRequest, vars, idVars, netVars, macSide, bdVars, engineVars, fifoVars, ringVars, copyVars
<1>2. hostSent \in Nat /\ TypeOK
  BY DEF IInv, TypeOK
<1>3. hostSent' \in Nat /\ hostSent' >= hostSent
  BY <1>2 DEF HmiStep, NetStep, UsbStep, HostSend, HostTake, CtlRequest, vars, idVars, fifoVars
<1> QED
  BY <1>1, <1>2, <1>3, TxSame

(***************************************************************************)
(* From the wire.                                                           *)
(***************************************************************************)
\* A product of naturals grows with its factor.
LEMMA TimesMonotone ==
  ASSUME NEW a \in Nat, NEW b \in Nat, NEW c \in Nat, a <= b
  PROVE  a * c <= b * c
<1>1. (b - a) \in Nat /\ (b - a) * c \in Nat
  BY ProductType
<1>2. b * c = a * c + (b - a) * c
  OBVIOUS
<1>3. a * c \in Nat /\ b * c \in Nat
  BY ProductType
<1> QED
  BY <1>1, <1>2, <1>3

\* Every frame with an entry in the size FIFO has its words in the data FIFO.
LEMMA PosType ==
  ASSUME TypeOK, OutFraming, NEW k \in 1 .. outCount, NEW j \in Words
  PROVE  Pos(k, j) \in 1 .. outCount * FrameWords /\ Pos(k, j) \in DOMAIN outData
<1>1. k - 1 \in Nat /\ k \in Nat /\ outCount \in Nat /\ j \in 1 .. FrameWords
  BY DEF TypeOK, Words
<1>2. (k - 1) * FrameWords \in Nat /\ (k - 1) * FrameWords = k * FrameWords - FrameWords
  BY <1>1, ProductType, PredTimes
<1>3. k * FrameWords <= outCount * FrameWords /\ k * FrameWords \in Nat /\ outCount * FrameWords \in Nat
  BY <1>1, TimesMonotone, ProductType
<1>4. Pos(k, j) \in 1 .. outCount * FrameWords
  BY <1>1, <1>2, <1>3 DEF Pos
<1>5. Len(outData) >= outCount * FrameWords /\ DOMAIN outData = 1 .. Len(outData)
  BY <1>3 DEF TypeOK, OutFraming
<1> QED
  BY <1>3, <1>4, <1>5

\* What is compared in RxContents are numbers.
LEMMA RxTypes ==
  ASSUME IInv, HostInOrder
  PROVE  /\ \A n \in DOMAIN host : host[n][1] \in Int
         /\ \A k \in 1 .. outCount, j \in Words : outData[Pos(k, j)] \in Int
         /\ \A i \in Ring : rxBuf[i][1] \in Int
         /\ RxDone \in Int /\ 1 \in Words
<1>1. TypeOK /\ OutFraming
  BY DEF IInv
<1>2. 1 \in Words
  BY DEF Words
<1>3. ASSUME NEW k \in 1 .. outCount, NEW j \in Words PROVE outData[Pos(k, j)] \in Int
  <2>1. outData \in Seq(Nat) /\ Pos(k, j) \in DOMAIN outData
    BY <1>1, PosType DEF TypeOK, Nums
  <2> QED
    BY <2>1
<1>4. \A n \in DOMAIN host : host[n][1] \in Int
  BY <1>1, FirstType DEF TypeOK, Nums, HostInOrder
<1>5. \A i \in Ring : rxBuf[i][1] \in Int
  <2>1. rxBuf \in [Ring -> [Words -> Nums]]
    BY <1>1 DEF TypeOK
  <2> QED
    BY <1>2, <2>1 DEF Nums
<1>6. RxDone \in Int
  BY <1>1 DEF TypeOK, RxDone
<1> QED
  BY <1>2, <1>3, <1>4, <1>5, <1>6

\* As long as no frame is added, in the FIFOs or in the ring, and none changes, the order stays.
LEMMA OrderKept ==
  ASSUME IInv, RxContents, RxDone' \in Int, RxDone <= RxDone',
         UNCHANGED <<host, outData, outCount, rdTail>>,
         \A i \in Ring : Stored(i)' => Stored(i) /\ rxBuf'[i] = rxBuf[i]
  PROVE  HostInOrder' /\ OutOrder' /\ RxOrder'
<1>1. HostInOrder' /\ HostInOrder /\ OutOrder /\ RxOrder
  BY DEF RxContents, HostInOrder
<1>2. OutOrder'
  <2>1. \A k \in 1 .. outCount : outData[Pos(k, 1)] <= RxDone'
    BY <1>1, RxTypes DEF OutOrder
  <2> QED
    BY <1>1, <2>1 DEF OutOrder, Pos
<1>3. RxOrder'
  <2>1. \A n \in DOMAIN host : host[n][1] <= RxDone'
    BY <1>1, RxTypes DEF RxOrder
  <2>2. \A i \in Ring : Stored(i)' => rxBuf'[i] = Frame(rxBuf'[i][1]) /\ rxBuf'[i][1] <= RxDone'
    BY <1>1, RxTypes DEF RxOrder
  <2> QED
    BY <1>1, <2>1, <2>2 DEF RxOrder
<1> QED
  BY <1>1, <1>2, <1>3

LEMMA RxSame ==
  ASSUME IInv, RxContents,
         UNCHANGED <<host, outData, outCount, rdTail, rxBuf, macRx, rxEng, rxCount, rxSeen, passData, rxWord>>,
         \A i \in Ring : rxBD'[i].len = rxBD[i].len,
         UNCHANGED <<idState, rxCounter>> \/ {idState, idState'} \cap RxCopyStates = {}
  PROVE  RxContents'
<1>1. RxDone' = RxDone /\ RxDone \in Int
  BY RxTypes DEF RxDone, RxContents
<1>2. \A i \in Ring : Stored(i)' <=> Stored(i)
  BY DEF Stored, RxCopyStates
<1>3. HostInOrder' /\ OutOrder' /\ RxOrder'
  BY <1>1, <1>2, OrderKept
<1>4. RxWords'
  BY DEF RxContents, RxWords, RxCopyStates
<1> QED
  BY <1>3, <1>4 DEF RxContents

\* A word more in the out data FIFO stands behind those that are there.
LEMMA PushKeepsWords ==
  ASSUME IInv, RxWords, idState = "GET_PACKET_DATA",
         PushWord(rxBuf[rdTail][rxCounter + 1])
  PROVE  /\ \A j \in 1 .. rxCounter + 1 : outData'[outCount * FrameWords + j] = rxBuf[rdTail][j]
         /\ \A k \in 1 .. outCount, j \in Words : outData'[Pos(k, j)] = outData[Pos(k, j)]
<1>1. /\ TypeOK /\ OutFraming /\ rdTail \in Ring /\ rxCounter \in Nat /\ rxCounter < FrameWords
      /\ outCount \in Nat /\ outData \in Seq(Nums) /\ rxBuf \in [Ring -> [Words -> Nums]]
  BY DEF IInv, TypeOK, Progress
<1> DEFINE word == rxBuf[rdTail][rxCounter + 1]
<1>3. rxCounter + 1 \in Words /\ word \in Nums
  BY <1>1 DEF Words
<1>4. /\ outData' = Append(outData, word) /\ rxCounter' = rxCounter + 1 /\ passData' = FALSE
  BY DEF PushWord
<1>5. outCount * FrameWords \in Nat /\ Len(outData) = outCount * FrameWords + rxCounter
  BY <1>1, ProductType DEF OutFraming
<1>6. /\ outData'[outCount * FrameWords + rxCounter + 1] = word
      /\ \A x \in 1 .. outCount * FrameWords + rxCounter : outData'[x] = outData[x]
  BY <1>1, <1>3, <1>4, <1>5
<1>7. \A j \in 1 .. rxCounter + 1 : outData'[outCount * FrameWords + j] = rxBuf[rdTail][j]
  <2> TAKE j \in 1 .. rxCounter + 1
  <2>1. CASE j = rxCounter + 1
    <3>1. outCount * FrameWords + (rxCounter + 1) = outCount * FrameWords + rxCounter + 1
      BY <1>1, <1>5
    <3> QED
      BY <1>6, <2>1, <3>1
  <2>2. CASE j \in 1 .. rxCounter
    <3>1. outCount * FrameWords + j \in 1 .. outCount * FrameWords + rxCounter
      <4> DEFINE m == outCount * FrameWords
      <4>1. m \in Nat
        BY <1>5
      <4> HIDE DEF m
      <4>2. m + j \in 1 .. m + rxCounter
        BY <1>1, <2>2, <4>1
      <4> QED
        BY <4>2 DEF m
    <3> QED
      BY <1>6, <2>2, <3>1 DEF RxWords
  <2> QED
    BY <1>1, <2>1, <2>2
<1>8. \A k \in 1 .. outCount, j \in Words : outData'[Pos(k, j)] = outData[Pos(k, j)]
  <2> TAKE k \in 1 .. outCount, j \in Words
  <2>1. Pos(k, j) \in 1 .. outCount * FrameWords
    BY <1>1, PosType
  <2>2. Pos(k, j) \in 1 .. outCount * FrameWords + rxCounter
    BY <1>1, <1>5, <2>1
  <2> QED
    BY <1>6, <2>2
<1> QED
  BY <1>7, <1>8

\* One word more of the frame at rdTail in the out data FIFO; with the last one
\* the frame changes over from the ring to the FIFOs.
LEMMA RxContentsPush ==
  ASSUME IInv, RxContents, idState = "GET_PACKET_DATA",
         PushWord(rxBuf[rdTail][rxCounter + 1]),
         UNCHANGED <<host, rdTail, rxBuf, rxBD, macRx, rxEng, rxCount, rxSeen>>
  PROVE  RxContents'
<1>1. /\ TypeOK /\ OutFraming /\ rdTail \in Ring /\ rxCounter \in Nat /\ rxCounter < FrameWords
      /\ outCount \in Nat /\ outData \in Seq(Nums) /\ rxBuf \in [Ring -> [Words -> Nums]]
  BY DEF IInv, TypeOK, Progress
<1>2. /\ HostInOrder /\ OutOrder /\ RxOrder /\ RxWords
  BY DEF RxContents
<1> DEFINE n == rxBuf[rdTail][1]
<1>4. /\ rxCounter' = rxCounter + 1 /\ passData' = FALSE
  BY DEF PushWord
<1>7. \A j \in 1 .. rxCounter + 1 : outData'[outCount * FrameWords + j] = rxBuf[rdTail][j]
  BY <1>2, PushKeepsWords
<1>8. \A k \in 1 .. outCount, j \in Words : outData'[Pos(k, j)] = outData[Pos(k, j)]
  BY <1>2, PushKeepsWords
<1>9. 1 \in Words /\ RxDone' = RxDone /\ HostInOrder'
  BY <1>2 DEF Words, RxDone, HostInOrder
<1>10. rxBD[rdTail].len /\ Stored(rdTail)
  BY DEF IInv, RxOwnership, RxCopyStates, Stored
<1>11. rxEng \in {"dma", "status"} => \A k \in 1 .. rxCount : rxBuf[macRx][k] = rxSeen
  BY <1>2 DEF RxWords
<1>12. rxEng = "status" => rxCount = FrameWords
  BY <1>2 DEF RxWords
<1>13. CASE rxCounter + 1 < FrameWords
  <2>1. idState' = idState /\ outCount' = outCount
    BY <1>1, <1>13 DEF PushWord
  <2>2. \A i \in Ring : Stored(i)' <=> Stored(i)
    BY <2>1 DEF Stored
  <2>3. OutOrder'
    BY <1>2, <1>8, <1>9, <2>1, <2>2 DEF OutOrder, Pos
  <2>4. RxOrder'
    BY <1>2, <1>9, <2>2 DEF RxOrder
  <2>5. RxWords'
    BY <1>4, <1>7, <1>11, <1>12, <2>1 DEF RxWords
  <2> QED
    BY <1>9, <2>3, <2>4, <2>5 DEF RxContents
<1>14. CASE rxCounter + 1 = FrameWords
  <2>1. idState' = "RESET_ETHMAC_RX_BUF_DESC_1" /\ outCount' = outCount + 1
    BY <1>1, <1>14 DEF PushWord
  <2>2. \A i \in Ring : Stored(i)' <=> Stored(i) /\ i # rdTail
    BY <2>1 DEF Stored
  <2>3. rxBuf[rdTail] = Frame(n) /\ n <= RxDone /\ \A m \in DOMAIN host : host[m][1] < n
    BY <1>1, <1>2, <1>10 DEF RxOrder
  <2>4. \A j \in Words : outData'[Pos(outCount + 1, j)] = n
    <3> TAKE j \in Words
    <3>1. Pos(outCount + 1, j) = outCount * FrameWords + j
      <4>1. (outCount + 1) - 1 = outCount
        BY <1>1
      <4> QED
        BY <4>1 DEF Pos
    <3>2. j \in 1 .. rxCounter + 1
      BY <1>14 DEF Words
    <3>3. rxBuf[rdTail][j] = n
      BY <2>3 DEF Frame
    <3> QED
      BY <1>7, <3>1, <3>2, <3>3
  <2>5. \A i \in Ring : Stored(i)' => n < rxBuf[i][1]
    <3> SUFFICES ASSUME NEW i \in Ring, Stored(i), i # rdTail PROVE n < rxBuf[i][1]
      BY <2>2
    <3>1. Dist(rdTail, rdTail) < Dist(rdTail, i)
      BY <1>1 DEF Dist, Ring
    <3> QED
      BY <1>1, <1>2, <1>10, <3>1 DEF RxOrder
  <2>6. \A k \in 1 .. outCount : outData[Pos(k, 1)] < n
    BY <1>1, <1>2, <1>10 DEF OutOrder
  <2>7. \A k \in 1 .. outCount' : k \in 1 .. outCount \/ k = outCount + 1
    BY <1>1, <2>1
  <2>8. ASSUME NEW k \in 1 .. outCount'
        PROVE  /\ \A j \in Words : outData'[Pos(k, j)] = outData'[Pos(k, 1)]
               /\ outData'[Pos(k, 1)] <= RxDone
               /\ \A m \in DOMAIN host : host[m][1] < outData'[Pos(k, 1)]
               /\ \A i \in Ring : Stored(i)' => outData'[Pos(k, 1)] < rxBuf[i][1]
    <3>1. CASE k \in 1 .. outCount
      BY <1>2, <1>8, <1>9, <2>2, <3>1 DEF OutOrder
    <3>2. CASE k = outCount + 1
      BY <1>9, <2>3, <2>4, <2>5, <3>2
    <3> QED
      BY <2>7, <3>1, <3>2
  <2>9. ASSUME NEW k \in 1 .. outCount', NEW l \in 1 .. outCount', k < l
        PROVE  outData'[Pos(k, 1)] < outData'[Pos(l, 1)]
    <3>1. k \in 1 .. outCount
      BY <1>1, <2>1, <2>9
    <3>2. CASE l \in 1 .. outCount
      BY <1>2, <1>8, <1>9, <2>9, <3>1, <3>2 DEF OutOrder
    <3>3. CASE l = outCount + 1
      BY <1>8, <1>9, <2>4, <2>6, <3>1, <3>3
    <3> QED
      BY <2>7, <3>2, <3>3
  <2>10. OutOrder'
    BY <1>9, <2>8, <2>9 DEF OutOrder, Pos
  <2>11. RxOrder'
    BY <1>2, <1>9, <2>2 DEF RxOrder
  <2>12. RxWords'
    BY <1>4, <1>11, <1>12, <2>1 DEF RxWords
  <2> QED
    BY <1>9, <2>10, <2>11, <2>12 DEF RxContents
<1> QED
  BY <1>1, <1>13, <1>14

LEMMA RxContentsId ==
  ASSUME IInv, RxContents, IdStep
  PROVE  RxContents'
<1>1. UNCHANGED <<host, rxBuf, rxSeen>>
  BY DEF IdStep, netVars
<1>2. /\ TypeOK /\ rdTail \in Ring /\ rdHead \in Ring /\ DOMAIN rxBD = Ring /\ passData \in BOOLEAN
      /\ rxSeen \in Nat
  BY DEF IInv, TypeOK
<1>3. HostInOrder /\ OutOrder /\ RxOrder /\ RxWords /\ HostInOrder'
  BY <1>1 DEF RxContents, HostInOrder
<1>4. CASE WriteModer
  <2>1. /\ UNCHANGED <<outData, outCount, rdTail, rxBD, passData>> /\ rxEng' = "bd"
        /\ idState = "WRITE_ETHMAC_MODER" /\ idState' = "WRITE_ETHMAC_RX_BUF_DESC_0"
    BY <1>4 DEF WriteModer, EnableMac, fifoVars, ringVars, bdVars, copyVars
  <2>2. RxDone' \in Int /\ RxDone <= RxDone'
    BY <1>1, <1>2, <2>1 DEF RxDone
  <2>3. \A i \in Ring : Stored(i)' => Stored(i)
    BY <2>1 DEF Stored
  <2>4. HostInOrder' /\ OutOrder' /\ RxOrder'
    BY <1>1, <2>1, <2>2, <2>3, OrderKept
  <2>5. RxWords'
    BY <1>3, <2>1 DEF RxWords
  <2> QED
    BY <2>4, <2>5 DEF RxContents
<1>5. CASE GetRxPacketLength
  <2>1. /\ UNCHANGED <<outData, outCount, rdTail, rxBD, passData, rxEng, rxCount, macRx>>
        /\ idState = "GET_RX_PACKET_LENGTH" /\ rxCounter' = 0
        /\ idState' # "RESET_ETHMAC_RX_BUF_DESC_1"
    BY <1>5 DEF GetRxPacketLength, macSide, bdVars, engineVars, fifoVars, ringVars
  <2>2. RxDone' = RxDone /\ RxDone \in Int
    BY <1>1, <1>3, <2>1, RxTypes DEF RxDone
  <2>3. \A i \in Ring : Stored(i)' => Stored(i)
    BY <2>1 DEF Stored
  <2>4. HostInOrder' /\ OutOrder' /\ RxOrder'
    BY <1>1, <2>1, <2>2, <2>3, OrderKept
  <2>5. RxWords'
    BY <1>1, <1>3, <2>1 DEF RxWords
  <2> QED
    BY <2>4, <2>5 DEF RxContents
<1>6. CASE GetPacketData
  <2>1. /\ UNCHANGED <<rdTail, rxBD, rxEng, rxCount, macRx>> /\ idState = "GET_PACKET_DATA" /\ ~passData
        /\ rxWord' = rxBuf[rdTail][rxCounter + 1]
    BY <1>6 DEF GetPacketData, macSide, bdVars, engineVars, ringVars
  <2>2. CASE OutReady
    <3>1. PushWord(rxBuf[rdTail][rxCounter + 1])
      BY <1>6, <2>1, <2>2 DEF GetPacketData, PushWord
    <3> QED
      BY <1>1, <2>1, <3>1, RxContentsPush
  <2>3. CASE ~OutReady
    <3>1. passData' = TRUE /\ UNCHANGED <<idState, rxCounter, outData, outCount>>
      BY <1>6, <2>3 DEF GetPacketData
    <3>2. RxDone' = RxDone /\ RxDone \in Int
      BY <1>1, <1>3, <2>1, RxTypes DEF RxDone
    <3>3. \A i \in Ring : Stored(i)' => Stored(i)
      BY <2>1, <3>1 DEF Stored
    <3>4. HostInOrder' /\ OutOrder' /\ RxOrder'
      BY <1>1, <2>1, <3>1, <3>2, <3>3, OrderKept
    <3>5. RxWords'
      BY <1>1, <1>3, <2>1, <3>1 DEF RxWords
    <3> QED
      BY <3>4, <3>5 DEF RxContents
  <2> QED
    BY <2>2, <2>3
<1>7. CASE PassData
  <2>1. /\ UNCHANGED <<rdTail, rxBD, rxEng, rxCount, macRx>> /\ idState = "GET_PACKET_DATA" /\ passData
        /\ PushWord(rxWord)
    BY <1>7 DEF PassData, macSide, bdVars, engineVars, ringVars
  <2>2. rxWord = rxBuf[rdTail][rxCounter + 1]
    BY <1>3, <2>1 DEF RxWords
  <2> QED
    BY <1>1, <2>1, <2>2, RxContentsPush
<1>8. CASE ResetRxDesc
  <2>1. /\ UNCHANGED <<outData, outCount, passData, rxEng, rxCount, macRx, rxCounter, rxWord>>
        /\ idState = "RESET_ETHMAC_RX_BUF_DESC_1" /\ idState' = "GET_RX_PACKET_LENGTH"
        /\ rdTail' = Succ(rdTail)
        /\ rxBD' = [rxBD EXCEPT ![rdTail] = [e |-> TRUE, w |-> rdTail = NBD - 1, len |-> FALSE]]
    BY <1>8 DEF ResetRxDesc, WriteRxBD, engineVars, fifoVars, copyVars
  <2>2. RxDone' = RxDone
    BY <1>1, <2>1 DEF RxDone
  <2>3. \A i \in Ring : Stored(i)' <=> Stored(i)
    BY <1>2, <2>1 DEF Stored
  <2>4. \A i \in Ring : Stored(i) => i # rdTail
    BY <2>1 DEF Stored
  <2>5. OutOrder'
    BY <1>1, <1>3, <2>1, <2>2, <2>3 DEF OutOrder, Pos
  <2>6. ASSUME NEW i \in Ring, NEW j \in Ring, Stored(i), Stored(j),
               Dist(Succ(rdTail), i) < Dist(Succ(rdTail), j)
        PROVE  rxBuf[i][1] < rxBuf[j][1]
    <3>1. /\ Dist(Succ(rdTail), i) = Dist(rdTail, i) - 1 /\ Dist(Succ(rdTail), j) = Dist(rdTail, j) - 1
          /\ Dist(rdTail, i) \in Ring /\ Dist(rdTail, j) \in Ring
      BY <1>2, <2>4, <2>6, DistSuccLeft, DistType
    <3>2. Dist(rdTail, i) < Dist(rdTail, j)
      BY <2>6, <3>1 DEF Ring
    <3> QED
      BY <1>3, <2>6, <3>2 DEF RxOrder
  <2>7. RxOrder'
    BY <1>1, <1>3, <2>1, <2>2, <2>3, <2>6 DEF RxOrder
  <2>8. RxWords'
    BY <1>1, <1>3, <2>1 DEF RxWords
  <2> QED
    BY <1>3, <2>5, <2>7, <2>8 DEF RxContents
<1>9. CASE WriteRxDesc
  <2>1. /\ UNCHANGED <<outData, outCount, rdTail, macRx, rxEng, rxCount, passData, rxWord, rxCounter>>
        /\ {idState, idState'} \cap RxCopyStates = {}
    BY <1>9 DEF WriteRxDesc, engineVars, fifoVars, copyVars, RxCopyStates
  <2>2. ~rxBD[rdHead].len /\ rxBD' = [rxBD EXCEPT ![rdHead] = [e |-> TRUE, w |-> rdHead = NBD - 1, len |-> FALSE]]
    BY <1>2, <1>9 DEF WriteRxDesc, WriteRxBD, IInv, Initialising, RxInitStates, Ring
  <2>3. rxBD \in [Ring -> [e : BOOLEAN, w : BOOLEAN, len : BOOLEAN]]
    BY <1>2 DEF TypeOK
  <2>4. \A i \in Ring : rxBD'[i].len = rxBD[i].len
    BY <1>2, <2>2, <2>3
  <2> QED
    BY <1>1, <2>1, <2>4, RxSame
<1>10. CASE ~(WriteModer \/ GetRxPacketLength \/ GetPacketData \/ PassData \/ ResetRxDesc \/ WriteRxDesc)
  <2>1. UNCHANGED <<outData, outCount, rdTail, rxBD, macRx, rxEng, rxCount, passData, rxWord, rxCounter>>
    BY <1>10 DEF IdStep, IdBusStep, IdInternalStep, Boot, WriteConfig, WriteRxPointer,
       WriteTxPointer, IdleRx, IdleClear, IdleTake, IdleCtl, RegAccess, RegEnd, ClearTxDesc,
       ClearTxDescWait, WriteDataPrepare, WriteData, WriteTxDesc, Wait,
       ringVars, macSide, bdVars, engineVars, fifoVars, copyVars
  <2>2. idState' = idState \/ {idState, idState'} \cap RxCopyStates = {}
    BY <1>10 DEF IdStep, IdBusStep, IdInternalStep, Boot, WriteConfig, WriteRxPointer,
       WriteTxPointer, IdleRx, IdleClear, IdleTake, IdleCtl, RegAccess, RegEnd, ClearTxDesc,
       ClearTxDescWait, WriteDataPrepare, WriteData, WriteTxDesc, Wait, RxCopyStates
  <2> QED
    BY <1>1, <2>1, <2>2, RxSame
<1> QED
  BY <1>4, <1>5, <1>6, <1>7, <1>8, <1>9, <1>10

LEMMA RxContentsMac ==
  ASSUME IInv, RxContents, MacStep
  PROVE  RxContents'
<1>1. UNCHANGED <<idState, outData, outCount, rdTail, passData, rxWord, rxCounter, host>>
  BY DEF MacStep, idVars, ringVars, fifoVars, copyVars
<1>2. /\ TypeOK /\ macRx \in Ring /\ rdTail \in Ring /\ DOMAIN rxBD = Ring /\ rxSeen \in Nat /\ rxCount \in Nat
      /\ rxBuf \in [Ring -> [Words -> Nums]] /\ rxBD \in [Ring -> [e : BOOLEAN, w : BOOLEAN, len : BOOLEAN]]
      /\ rxCounter \in Nat
  BY DEF IInv, TypeOK
<1>3. HostInOrder /\ OutOrder /\ RxOrder /\ RxWords /\ HostInOrder'
  BY <1>1 DEF RxContents, HostInOrder
<1>4. /\ \A i \in Ring : rxBD[i].e => ~rxBD[i].len
      /\ rxEng \in {"ready", "dma", "status"} => rxBD[macRx].e
  BY DEF IInv, RxOwnership
<1>5. CASE RxBDRead
  <2>1. UNCHANGED <<rxBD, rxBuf, macRx, rxCount, rxSeen>> /\ rxEng = "bd" /\ rxEng' = "ready"
    BY <1>5 DEF RxBDRead, bdVars, netVars
  <2>2. RxDone' = RxDone /\ RxDone \in Int
    BY <1>3, <2>1, RxTypes DEF RxDone
  <2>3. \A i \in Ring : Stored(i)' => Stored(i)
    BY <1>1, <2>1 DEF Stored
  <2>4. HostInOrder' /\ OutOrder' /\ RxOrder'
    BY <1>1, <2>1, <2>2, <2>3, OrderKept
  <2>5. RxWords'
    BY <1>1, <1>3, <2>1 DEF RxWords
  <2> QED
    BY <2>4, <2>5 DEF RxContents
<1>6. CASE RxStore
  <2>1. /\ UNCHANGED <<rxBD, macRx, rxSeen>> /\ rxEng = "dma" /\ rxCount' = rxCount + 1
        /\ rxBuf' = [rxBuf EXCEPT ![macRx][rxCount + 1] = rxSeen]
        /\ rxEng' = IF rxCount + 1 = FrameWords THEN "status" ELSE "dma"
    BY <1>6 DEF RxStore, bdVars, netVars
  <2>2. RxDone' = RxDone /\ RxDone \in Int
    BY <1>3, <2>1, RxTypes DEF RxDone
  <2>3. rxCount < FrameWords /\ rxCount + 1 \in Words
    BY <1>2, <2>1 DEF IInv, Progress, Words
  <2>4. ~rxBD[macRx].len
    BY <1>2, <1>4, <2>1
  <2>5. \A i \in Ring : i # macRx => rxBuf'[i] = rxBuf[i]
    BY <1>2, <2>1
  <2>6. \A i \in Ring : Stored(i)' => Stored(i) /\ rxBuf'[i] = rxBuf[i]
    BY <1>1, <2>1, <2>4, <2>5 DEF Stored
  <2>7. HostInOrder' /\ OutOrder' /\ RxOrder'
    BY <1>1, <2>2, <2>6, OrderKept
  <2>8. idState = "GET_PACKET_DATA" => rxBuf'[rdTail] = rxBuf[rdTail]
    BY <1>2, <2>4, <2>5 DEF IInv, RxOwnership, RxCopyStates
  <2>9. \A k \in 1 .. rxCount' : rxBuf'[macRx][k] = rxSeen
    <3> TAKE k \in 1 .. rxCount'
    <3>1. /\ rxBuf'[macRx][rxCount + 1] = rxSeen
          /\ \A j \in Words : j # rxCount + 1 => rxBuf'[macRx][j] = rxBuf[macRx][j]
      BY <1>2, <2>1, <2>3
    <3>2. k = rxCount + 1 \/ (k \in 1 .. rxCount /\ k \in Words /\ k # rxCount + 1)
      BY <1>2, <2>1, <2>3 DEF Words
    <3> QED
      BY <1>3, <2>1, <3>1, <3>2 DEF RxWords
  <2>10. rxEng' = "status" => rxCount' = FrameWords
    BY <2>1
  <2>11. RxWords'
    BY <1>1, <1>3, <2>1, <2>8, <2>9, <2>10 DEF RxWords
  <2> QED
    BY <2>7, <2>11 DEF RxContents
<1>7. CASE \E kind \in RxIrqs : RxStatusWrite(kind)
  <2>1. /\ UNCHANGED <<rxBuf, rxSeen>> /\ rxEng = "status" /\ rxEng' = "bd"
        /\ rxBD' = [rxBD EXCEPT ![macRx].e = FALSE, ![macRx].len = TRUE]
    BY <1>7 DEF RxStatusWrite, netVars
  <2>2. ~rxBD[macRx].len
    BY <1>2, <1>4, <2>1
  <2>3. RxDone = rxSeen - 1 /\ RxDone' = rxSeen
    BY <2>1 DEF RxDone
  <2>4. rxBuf[macRx] = Frame(rxSeen) /\ rxBuf[macRx][1] = rxSeen
    <3>1. \A k \in Words : rxBuf[macRx][k] = rxSeen
      BY <1>3, <2>1 DEF RxWords, Words
    <3>2. rxBuf[macRx] \in [Words -> Nums] /\ 1 \in Words
      BY <1>2 DEF Words
    <3> QED
      BY <3>1, <3>2 DEF Frame
  <2>5. \A i \in Ring : Stored(i)' => Stored(i) \/ i = macRx
    BY <1>1, <1>2, <2>1 DEF Stored
  <2>6. \A i \in Ring : Stored(i) => i # macRx /\ Dist(rdTail, i) < Dist(rdTail, macRx)
    <3> SUFFICES ASSUME NEW i \in Ring, rxBD[i].len PROVE i # macRx /\ Dist(rdTail, i) < Dist(rdTail, macRx)
      BY DEF Stored
    <3>1. CASE macRx = rdTail
      BY <1>2, <2>2, <3>1 DEF IInv, RxOwnership
    <3>2. CASE macRx # rdTail
      BY <2>2, <3>2 DEF IInv, RxOwnership, InRing
    <3> QED
      BY <3>1, <3>2
  <2>7. \A n \in DOMAIN host : host[n][1] < rxSeen
    BY <1>2, <1>3, <2>3, RxTypes DEF RxOrder
  <2>8. \A k \in 1 .. outCount : outData[Pos(k, 1)] < rxSeen
    BY <1>2, <1>3, <2>3, RxTypes DEF OutOrder
  <2>9. \A i \in Ring : Stored(i) => rxBuf[i][1] < rxSeen
    BY <1>2, <1>3, <2>3, RxTypes DEF RxOrder
  <2>10. \A i \in Ring : rxBuf[i][1] \in Int /\ Dist(rdTail, i) \in Int
    BY <1>2, <1>3, RxTypes, DistType DEF Ring
  <2>11. ASSUME NEW k \in 1 .. outCount
         PROVE  outData[Pos(k, 1)] <= RxDone' /\ \A i \in Ring : Stored(i)' => outData[Pos(k, 1)] < rxBuf[i][1]
    <3>1. outData[Pos(k, 1)] \in Int
      BY <1>3, RxTypes
    <3> QED
      BY <1>2, <1>3, <2>3, <2>4, <2>5, <2>8, <3>1 DEF OutOrder
  <2>12. OutOrder'
    BY <1>1, <1>3, <2>1, <2>11 DEF OutOrder, Pos
  <2>13. ASSUME NEW n \in DOMAIN host
         PROVE  host[n][1] <= RxDone' /\ \A i \in Ring : Stored(i)' => host[n][1] < rxBuf[i][1]
    <3>1. host[n][1] \in Int
      BY <1>3, RxTypes
    <3> QED
      BY <1>2, <1>3, <2>3, <2>4, <2>5, <2>7, <3>1 DEF RxOrder
  <2>14. ASSUME NEW i \in Ring, Stored(i)'
         PROVE  rxBuf[i] = Frame(rxBuf[i][1]) /\ rxBuf[i][1] <= RxDone'
    <3>1. CASE i = macRx
      BY <1>2, <2>3, <2>4, <3>1
    <3>2. CASE Stored(i)
      BY <1>2, <1>3, <2>3, <2>9, <2>10, <3>2 DEF RxOrder
    <3> QED
      BY <2>5, <2>14, <3>1, <3>2
  <2>15. ASSUME NEW i \in Ring, NEW j \in Ring, Stored(i)', Stored(j)', Dist(rdTail, i) < Dist(rdTail, j)
         PROVE  rxBuf[i][1] < rxBuf[j][1]
    <3>1. i # macRx
      BY <1>2, <2>5, <2>6, <2>10, <2>15
    <3>2. Stored(i)
      BY <2>5, <2>15, <3>1
    <3>3. CASE j = macRx
      BY <2>4, <2>9, <3>2, <3>3
    <3>4. CASE Stored(j)
      BY <1>3, <2>15, <3>2, <3>4 DEF RxOrder
    <3> QED
      BY <2>5, <2>15, <3>3, <3>4
  <2>16. RxOrder'
    BY <1>1, <2>1, <2>13, <2>14, <2>15 DEF RxOrder
  <2>17. RxWords'
    BY <1>1, <1>3, <2>1 DEF RxWords
  <2> QED
    BY <1>3, <2>12, <2>16, <2>17 DEF RxContents
<1>8. CASE ~(RxBDRead \/ RxStore \/ \E kind \in RxIrqs : RxStatusWrite(kind))
  <2>1. UNCHANGED <<rxBD, rxBuf, macRx, rxEng, rxCount, rxSeen>>
    BY <1>8 DEF MacStep, MacBusStep, MacInternalStep, TxFetch, TxBDRead, LatchIrq, TxStatusWrite,
       bdVars, engineVars, netVars
  <2> QED
    BY <1>1, <1>2, <2>1, RxSame
<1> QED
  BY <1>5, <1>6, <1>7, <1>8

LEMMA RxContentsNet ==
  ASSUME IInv, RxContents, NetStep
  PROVE  RxContents'
<1>1. /\ UNCHANGED <<idState, outData, outCount, rdTail, passData, rxWord, rxCounter, host>>
      /\ UNCHANGED <<rxBD, rxBuf, macRx>>
  BY DEF NetStep, WireStep, RxFrameStart, RxBusy, RxAbort, idVars, ringVars, fifoVars, copyVars, bdVars,
     engineVars
<1>2. RxWords /\ HostInOrder /\ rxSeen \in Nat
  BY DEF RxContents, IInv, TypeOK
<1>3. \/ rxEng = "ready" /\ rxSeen' = rxSeen + 1 /\ rxEng' = "dma" /\ rxCount' = 0
      \/ rxEng = "bd" /\ rxSeen' = rxSeen + 1 /\ UNCHANGED <<rxEng, rxCount>>
      \/ rxEng = "dma" /\ rxSeen' = rxSeen /\ rxEng' = "bd"
  BY DEF NetStep, WireStep, RxFrameStart, RxBusy, RxAbort, engineVars, netVars
<1>4. RxDone' \in Int /\ RxDone <= RxDone'
  BY <1>2, <1>3 DEF RxDone
<1>5. \A i \in Ring : Stored(i)' => Stored(i)
  BY <1>1 DEF Stored
<1>6. HostInOrder' /\ OutOrder' /\ RxOrder'
  BY <1>1, <1>4, <1>5, OrderKept
<1>7. RxWords'
  BY <1>1, <1>2, <1>3 DEF RxWords
<1> QED
  BY <1>6, <1>7 DEF RxContents

\* The host reads the oldest frame.
\* The driver reads the first frame of the out FIFOs, and those behind it move up.
LEMMA TakeMovesFrames ==
  ASSUME IInv, OutOrder, HostTake
  PROVE  /\ outData[Pos(1, 1)] \in Nums
         /\ SubSeq(outData, 1, FrameWords) = Frame(outData[Pos(1, 1)])
         /\ \A x \in 1 .. Len(outData) - FrameWords : outData'[x] = outData[FrameWords + x]
         /\ \A k \in 1 .. outCount', j \in Words :
              k + 1 \in 1 .. outCount /\ outData'[Pos(k, j)] = outData[Pos(k + 1, j)]
<1>2. /\ TypeOK /\ OutFraming /\ outCount \in Nat /\ outData \in Seq(Nums)
  BY DEF IInv, TypeOK
<1>4. /\ outCount > 0 /\ outCount' = outCount - 1
      /\ outData' = SubSeq(outData, FrameWords + 1, Len(outData))
  BY DEF HostTake
<1>5. Len(outData) >= FrameWords /\ Len(outData) \in Nat
  BY <1>2, <1>4, OutHasFrame DEF IInv, TypeOK
<1> DEFINE n == outData[Pos(1, 1)]
<1>6. \A j \in Words : Pos(1, j) = j
  BY DEF Pos, Words
<1>7. 1 \in 1 .. outCount /\ 1 \in Words
  BY <1>2, <1>4 DEF Words
<1>8. n \in Nums /\ \A j \in Words : outData[j] = n
  <2>1. Pos(1, 1) \in DOMAIN outData
    BY <1>2, <1>7, PosType
  <2> QED
    BY <1>2, <1>6, <1>7, <2>1 DEF OutOrder
<1>9. SubSeq(outData, 1, FrameWords) = Frame(n)
  <2>1. SubSeq(outData, 1, FrameWords) = [j \in 1 .. FrameWords |-> outData[j]]
    BY <1>2, <1>5
  <2> QED
    BY <1>8, <2>1 DEF Frame, Words
<1>14. \A x \in 1 .. Len(outData) - FrameWords : outData'[x] = outData[FrameWords + x]
  <2> TAKE x \in 1 .. Len(outData) - FrameWords
  <2>1. FrameWords + 1 + x - 1 = FrameWords + x
    BY <1>5
  <2> QED
    BY <1>2, <1>4, <1>5, <2>1
<1>15. ASSUME NEW k \in 1 .. outCount', NEW j \in Words
       PROVE  k + 1 \in 1 .. outCount /\ outData'[Pos(k, j)] = outData[Pos(k + 1, j)]
  <2>1. k + 1 \in 1 .. outCount /\ k - 1 \in Nat /\ k \in Nat /\ j \in Nat
    BY <1>2, <1>4 DEF Words
  <2>2. (k - 1) * FrameWords = k * FrameWords - FrameWords /\ k * FrameWords \in Nat /\ (k + 1) - 1 = k
    BY <2>1, PredTimes, ProductType
  <2>3. Pos(k + 1, j) = FrameWords + Pos(k, j) /\ Pos(k, j) \in Int
    BY <2>1, <2>2 DEF Pos
  <2>4. Pos(k + 1, j) \in 1 .. Len(outData)
    BY <1>2, <2>1, PosType
  <2>5. Pos(k, j) >= 1
    <3>1. (k - 1) * FrameWords \in Nat
      BY <2>1, ProductType
    <3> QED
      BY <3>1 DEF Pos, Words
  <2>6. Pos(k, j) \in 1 .. Len(outData) - FrameWords
    BY <1>5, <2>3, <2>4, <2>5
  <2> QED
    BY <1>14, <2>1, <2>3, <2>6
<1> QED
  BY <1>8, <1>9, <1>14, <1>15

LEMMA RxContentsTake ==
  ASSUME IInv, RxContents, UsbStep, HostTake
  PROVE  RxContents'
<1>1. /\ UNCHANGED <<idState, rdTail, passData, rxWord, rxCounter>>
      /\ UNCHANGED <<rxBD, rxBuf, macRx, rxEng, rxCount, rxSeen>>
  BY DEF UsbStep, ringVars, copyVars, macSide, bdVars, engineVars, netVars
<1>2. /\ TypeOK /\ OutFraming /\ outCount \in Nat /\ outData \in Seq(Nums) /\ rxCounter \in 0 .. FrameWords
      /\ host \in Seq(Seq(Nums))
  BY DEF IInv, TypeOK
<1>3. HostInOrder /\ OutOrder /\ RxOrder /\ RxWords
  BY DEF RxContents
<1>4. /\ outCount > 0 /\ outCount' = outCount - 1
      /\ host' = Append(host, SubSeq(outData, 1, FrameWords))
      /\ outData' = SubSeq(outData, FrameWords + 1, Len(outData))
  BY DEF HostTake
<1>5. Len(outData) >= FrameWords /\ Len(outData) \in Nat
  BY <1>2, <1>4, OutHasFrame
<1> DEFINE n == outData[Pos(1, 1)]
<1>7. 1 \in 1 .. outCount /\ 1 \in Words
  BY <1>2, <1>4 DEF Words
<1>8. n \in Nums
  BY <1>3, TakeMovesFrames
<1>9. SubSeq(outData, 1, FrameWords) = Frame(n)
  BY <1>3, TakeMovesFrames
<1>10. RxDone' = RxDone /\ \A i \in Ring : Stored(i)' <=> Stored(i)
  BY <1>1 DEF RxDone, Stored
<1>11. /\ n <= RxDone
       /\ \A m \in DOMAIN host : host[m][1] < n
       /\ \A i \in Ring : Stored(i) => n < rxBuf[i][1]
       /\ \A l \in 1 .. outCount : 1 < l => n < outData[Pos(l, 1)]
  BY <1>3, <1>7 DEF OutOrder
<1>12. HostInOrder'
  BY <1>2, <1>3, <1>4, <1>8, <1>9, <1>11, IncreasingAppend DEF HostInOrder
<1>13. \A m \in DOMAIN host' : (m \in DOMAIN host /\ host'[m] = host[m]) \/ host'[m][1] = n
  <2>1. host' = Append(host, Frame(n)) /\ Frame(n)[1] = n
    BY <1>4, <1>7, <1>9 DEF Frame
  <2> QED
    BY <1>2, <2>1
<1>14. \A x \in 1 .. Len(outData) - FrameWords : outData'[x] = outData[FrameWords + x]
  BY <1>3, TakeMovesFrames
<1>15. ASSUME NEW k \in 1 .. outCount', NEW j \in Words
       PROVE  k + 1 \in 1 .. outCount /\ outData'[Pos(k, j)] = outData[Pos(k + 1, j)]
  BY <1>3, TakeMovesFrames
<1>16. OutOrder'
  <2>1. ASSUME NEW k \in 1 .. outCount'
        PROVE  /\ \A j \in Words : outData'[Pos(k, j)] = outData'[Pos(k, 1)]
               /\ outData'[Pos(k, 1)] <= RxDone
               /\ \A m \in DOMAIN host' : host'[m][1] < outData'[Pos(k, 1)]
               /\ \A i \in Ring : Stored(i) => outData'[Pos(k, 1)] < rxBuf[i][1]
    <3>1. /\ k + 1 \in 1 .. outCount /\ 1 < k + 1
          /\ \A j \in Words : outData'[Pos(k, j)] = outData[Pos(k + 1, j)]
      <4>1. k + 1 \in 1 .. outCount /\ 1 < k + 1
        BY <1>2, <1>4
      <4>2. \A j \in Words : outData'[Pos(k, j)] = outData[Pos(k + 1, j)]
        BY <1>15
      <4> QED
        BY <4>1, <4>2
    <3>2. /\ \A j \in Words : outData[Pos(k + 1, j)] = outData[Pos(k + 1, 1)]
          /\ outData[Pos(k + 1, 1)] <= RxDone
          /\ \A m \in DOMAIN host : host[m][1] < outData[Pos(k + 1, 1)]
          /\ \A i \in Ring : Stored(i) => outData[Pos(k + 1, 1)] < rxBuf[i][1]
      BY <1>3, <3>1 DEF OutOrder
    <3>3. n < outData[Pos(k + 1, 1)]
      BY <1>11, <3>1
    <3> QED
      BY <1>7, <1>13, <3>1, <3>2, <3>3
  <2>2. ASSUME NEW k \in 1 .. outCount', NEW l \in 1 .. outCount', k < l
        PROVE  outData'[Pos(k, 1)] < outData'[Pos(l, 1)]
    <3>1. k + 1 \in 1 .. outCount /\ l + 1 \in 1 .. outCount /\ k + 1 < l + 1
      BY <1>2, <1>4, <2>2
    <3>2. outData'[Pos(k, 1)] = outData[Pos(k + 1, 1)] /\ outData'[Pos(l, 1)] = outData[Pos(l + 1, 1)]
      BY <1>7, <1>15
    <3> QED
      BY <1>3, <3>1, <3>2 DEF OutOrder
  <2> QED
    BY <1>1, <1>10, <2>1, <2>2 DEF OutOrder, Pos
<1>17. RxOrder'
  BY <1>1, <1>3, <1>10, <1>11, <1>13 DEF RxOrder
<1>18. RxWords'
  <2>1. ASSUME idState = "GET_PACKET_DATA", NEW j \in 1 .. rxCounter
        PROVE  outData'[outCount' * FrameWords + j] = rxBuf[rdTail][j]
    <3>1. outCount' * FrameWords = outCount * FrameWords - FrameWords /\ outCount * FrameWords \in Nat
          /\ outCount' * FrameWords \in Nat
      BY <1>2, <1>4, PredTimes, ProductType
    <3>2. Len(outData) = outCount * FrameWords + rxCounter
      BY <1>2, <2>1 DEF OutFraming
    <3>3. /\ outCount' * FrameWords + j \in 1 .. Len(outData) - FrameWords
          /\ FrameWords + (outCount' * FrameWords + j) = outCount * FrameWords + j
      BY <1>2, <3>1, <3>2
    <3>4. outData[outCount * FrameWords + j] = rxBuf[rdTail][j]
      BY <1>3, <2>1 DEF RxWords
    <3> QED
      BY <1>14, <3>3, <3>4
  <2> QED
    BY <1>1, <1>3, <2>1 DEF RxWords
<1> QED
  BY <1>12, <1>16, <1>17, <1>18 DEF RxContents

LEMMA RxContentsOther ==
  ASSUME IInv, RxContents, HmiStep \/ (UsbStep /\ ~HostTake) \/ UNCHANGED vars
  PROVE  RxContents'
<1>1. UNCHANGED <<host, outData, outCount, rdTail, rxBuf, rxBD, macRx, rxEng, rxCount, rxSeen, passData,
                  rxWord, idState, rxCounter>>
  BY DEF HmiStep, UsbStep, HostSend, CtlRequest, vars, idVars, netVars, macSide, bdVars, engineVars,
     fifoVars, ringVars, copyVars
<1> QED
  BY <1>1, RxSame

(***************************************************************************)
(* Both directions.                                                         *)
(***************************************************************************)
LEMMA ContentsInit == Init => Contents
<1> SUFFICES ASSUME Init PROVE Contents
  OBVIOUS
<1>1. IInv
  BY InitIInv
<1>2. /\ wire = <<>> /\ host = <<>> /\ taken = 0 /\ hostSent = 0 /\ outCount = 0 /\ ~passData
      /\ txEng = "off" /\ rxEng = "off" /\ idState = "RESET"
      /\ \A i \in Ring : ~txBD[i].r /\ ~rxBD[i].len
  BY DEF Init, MacInit, IdInit
<1>3. WireInOrder /\ HostInOrder
  BY <1>2 DEF WireInOrder, HostInOrder, Increasing
<1>4. TxOrder /\ OutOrder /\ RxOrder
  BY <1>2 DEF TxOrder, OutOrder, RxOrder, Stored
<1>5. TxWords /\ RxWords
  BY <1>2 DEF TxWords, RxWords, TxStates, TxCopyStates
<1> QED
  BY <1>3, <1>4, <1>5 DEF Contents, TxContents, RxContents

LEMMA ContentsKept == IInv /\ Contents /\ [Next]_vars => Contents'
<1> SUFFICES ASSUME IInv, Contents, [Next]_vars PROVE Contents'
  OBVIOUS
<1>1. TxContents'
  BY TxContentsId, TxContentsMac, TxContentsOther DEF Contents, Next
<1>2. RxContents'
  BY RxContentsId, RxContentsMac, RxContentsNet, RxContentsTake, RxContentsOther DEF Contents, Next
<1> QED
  BY <1>1, <1>2 DEF Contents

\* What is in the buffers and the FIFOs, in every state the bridge reaches.
LEMMA ContentsInvariant == Spec => []Contents
<1> QED
  BY ContentsInit, ContentsKept, InductiveInvariant, PTL DEF Spec

(***************************************************************************)
(* The bridge implements EthLink: the queues of the refinement mapping,     *)
(* written out frame by frame, and what each step does to them.             *)
(***************************************************************************)
\* Sequences of equal length and elements are equal; in particular those that
\* Append and Tail make.
LEMMA SameSeq ==
  ASSUME NEW S, NEW s \in Seq(S), NEW t \in Seq(S),
         Len(s) = Len(t), \A k \in 1 .. Len(s) : s[k] = t[k]
  PROVE  s = t
  OBVIOUS

LEMMA IsAppend ==
  ASSUME NEW S, NEW s \in Seq(S), NEW t \in Seq(S), NEW e \in S,
         Len(t) = Len(s) + 1, t[Len(s) + 1] = e, \A k \in 1 .. Len(s) : t[k] = s[k]
  PROVE  t = Append(s, e)
<1>1. Append(s, e) \in Seq(S) /\ Len(Append(s, e)) = Len(s) + 1
  OBVIOUS
<1>2. \A k \in 1 .. Len(s) + 1 : Append(s, e)[k] = t[k]
  OBVIOUS
<1> QED
  BY <1>1, <1>2, SameSeq

LEMMA IsTail ==
  ASSUME NEW S, NEW s \in Seq(S), NEW t \in Seq(S),
         Len(s) = Len(t) + 1, \A k \in 1 .. Len(t) : t[k] = s[k + 1]
  PROVE  s # <<>> /\ Head(s) = s[1] /\ t = Tail(s)
<1>1. s # <<>> /\ Head(s) = s[1]
  OBVIOUS
<1>2. Tail(s) \in Seq(S) /\ Len(Tail(s)) = Len(t) /\ \A k \in 1 .. Len(t) : Tail(s)[k] = s[k + 1]
  BY <1>1
<1> QED
  BY <1>1, <1>2, SameSeq

\* A function on 1 .. n is a sequence; what a concatenation holds.
LEMMA MadeSeq ==
  ASSUME NEW S, NEW n \in Nat, NEW f, f \in [1 .. n -> S]
  PROVE  f \in Seq(S) /\ Len(f) = n
  OBVIOUS

LEMMA JoinedSeq ==
  ASSUME NEW S, NEW s \in Seq(S), NEW t \in Seq(S)
  PROVE  /\ s \o t \in Seq(S) /\ Len(s \o t) = Len(s) + Len(t)
         /\ \A k \in 1 .. Len(s) : (s \o t)[k] = s[k]
         /\ \A k \in 1 .. Len(t) : (s \o t)[Len(s) + k] = t[k]
<1>1. s \o t \in Seq(S) /\ Len(s \o t) = Len(s) + Len(t)
  OBVIOUS
<1>2. ASSUME NEW k \in 1 .. Len(s) PROVE (s \o t)[k] = s[k]
  OBVIOUS
<1>3. ASSUME NEW k \in 1 .. Len(t) PROVE (s \o t)[Len(s) + k] = t[k]
  OBVIOUS
<1> QED
  BY <1>1, <1>2, <1>3

LEMMA TwoParts ==
  ASSUME NEW S, NEW a \in Seq(S), NEW b \in Seq(S), NEW q \in Seq(S),
         Len(q) = Len(a) + Len(b),
         \A k \in 1 .. Len(a) : q[k] = a[k],
         \A k \in 1 .. Len(b) : q[Len(a) + k] = b[k]
  PROVE  a \o b = q
<1>1. a \o b \in Seq(S) /\ Len(a \o b) = Len(q)
  BY JoinedSeq
<1>2. ASSUME NEW k \in 1 .. Len(q) PROVE (a \o b)[k] = q[k]
  <2>1. CASE k <= Len(a)
    BY <2>1
  <2>2. CASE k > Len(a)
    <3>1. k - Len(a) \in 1 .. Len(b) /\ k = Len(a) + (k - Len(a))
      BY <2>2
    <3>2. (a \o b)[Len(a) + (k - Len(a))] = b[k - Len(a)]
      BY <3>1, JoinedSeq
    <3> QED
      BY <3>1, <3>2
  <2> QED
    BY <2>1, <2>2
<1> QED
  BY <1>1, <1>2, SameSeq

LEMMA JoinedThree ==
  ASSUME NEW S, NEW a \in Seq(S), NEW b \in Seq(S), NEW c \in Seq(S)
  PROVE  (a \o b) \o c = a \o (b \o c)
  OBVIOUS

LEMMA PartIs ==
  ASSUME NEW S, NEW s \in Seq(S), NEW m \in Nat, NEW n \in Nat, m + n <= Len(s)
  PROVE  SubSeq(s, m + 1, m + n) = [j \in 1 .. n |-> s[m + j]]
<1>1. (m + n) - (m + 1) + 1 = n /\ \A j \in 1 .. n : (m + 1) + j - 1 = m + j
  OBVIOUS
<1>2. SubSeq(s, m + 1, m + n) = [j \in 1 .. n |-> s[(m + 1) + j - 1]]
  BY <1>1
<1> QED
  BY <1>1, <1>2

\* The n-th index of a segment: where it is, and how it moves with the start.
LEMMA PlusType ==
  \A a \in Ring : \A n \in 0 .. NBD - 1 : Plus(a, n) \in Ring /\ Dist(a, Plus(a, n)) = n
  BY NBDAssumption DEF Ring, Plus, Dist

LEMMA PlusDist == \A a, b \in Ring : Plus(a, Dist(a, b)) = b
  BY NBDAssumption DEF Ring, Plus, Dist

LEMMA PlusSucc == \A a \in Ring : \A n \in 0 .. NBD - 1 : Plus(Succ(a), n) = Plus(a, n + 1)
  BY NBDAssumption DEF Ring, Plus, Succ

\* Towards the wire: the buffers of the ready BDs, then the frames with the
\* numbers above TxDone.
TxFrames ==
  [k \in 1 .. TxOwned + (hostSent - TxDone) |->
     IF k <= TxOwned THEN txBuf[Plus(macTx, k - 1)] ELSE Frame(TxDone + (k - TxOwned))]

LEMMA FrameType == \A n \in Nat : Frame(n) \in [Words -> Nums]
  BY DEF Frame, Nums

LEMMA TxFramesType ==
  TypeOK /\ taken <= hostSent =>
    /\ TxOwned \in 0 .. NBD - 1 /\ hostSent - TxDone \in Nat /\ TxDone \in Int /\ TxDone + 1 \in Nat
    /\ \A k \in 1 .. TxOwned : Plus(macTx, k - 1) \in Ring
    /\ TxFrames \in Seq([Words -> Nums])
    /\ Len(TxFrames) = TxOwned + (hostSent - TxDone)
<1> SUFFICES ASSUME TypeOK, taken <= hostSent
             PROVE  /\ TxOwned \in 0 .. NBD - 1 /\ hostSent - TxDone \in Nat /\ TxDone \in Int /\ TxDone + 1 \in Nat
                    /\ \A k \in 1 .. TxOwned : Plus(macTx, k - 1) \in Ring
                    /\ TxFrames \in Seq([Words -> Nums])
                    /\ Len(TxFrames) = TxOwned + (hostSent - TxDone)
  OBVIOUS
<1>1. TxOwned \in 0 .. NBD - 1
  <2>1. Dist(macTx, head) \in Ring
    BY DistType DEF TypeOK
  <2> QED
    BY <2>1, NBDAssumption DEF TxOwned, Ring
<1>2. hostSent - TxDone \in Nat /\ TxDone \in Int /\ TxDone + 1 \in Nat
  BY DEF TypeOK, TxDone
<1>3. \A k \in 1 .. TxOwned : Plus(macTx, k - 1) \in Ring
  <2> TAKE k \in 1 .. TxOwned
  <2>1. k - 1 \in 0 .. NBD - 1
    BY <1>1, NBDAssumption
  <2> QED
    BY <2>1, PlusType DEF TypeOK
<1>4. ASSUME NEW k \in 1 .. TxOwned + (hostSent - TxDone)
      PROVE  (IF k <= TxOwned THEN txBuf[Plus(macTx, k - 1)] ELSE Frame(TxDone + (k - TxOwned))) \in [Words -> Nums]
  <2>1. CASE k <= TxOwned
    <3>1. k \in 1 .. TxOwned
      BY <1>1, <2>1
    <3> QED
      BY <1>3, <2>1, <3>1 DEF TypeOK
  <2>2. CASE ~(k <= TxOwned)
    <3>1. TxDone + (k - TxOwned) \in Nat
      BY <1>1, <1>2, <2>2
    <3> QED
      BY <2>2, <3>1, FrameType
  <2> QED
    BY <2>1, <2>2
<1>5. TxOwned + (hostSent - TxDone) \in Nat
  BY <1>1, <1>2
<1> QED
  BY <1>1, <1>2, <1>3, <1>4, <1>5 DEF TxFrames

LEMMA TxQueueIs == TypeOK /\ taken <= hostSent => TxQueue = TxFrames
<1> SUFFICES ASSUME TypeOK, taken <= hostSent PROVE TxQueue = TxFrames
  OBVIOUS
<1> DEFINE S == [Words -> Nums]
           a == [k \in 1 .. TxOwned |-> txBuf[Plus(macTx, k - 1)]]
           b == TxWriting
           c == [k \in 1 .. hostSent - taken |-> Frame(taken + k)]
<1>1. /\ TxOwned \in Nat /\ taken \in Nat /\ hostSent \in Nat /\ hostSent - taken \in Nat
      /\ TxDone \in Int /\ hostSent - TxDone \in Nat
      /\ Len(TxFrames) = TxOwned + (hostSent - TxDone) /\ TxFrames \in Seq(S)
  BY TxFramesType DEF TypeOK
<1>2. a \in Seq(S) /\ Len(a) = TxOwned /\ \A k \in 1 .. TxOwned : a[k] = txBuf[Plus(macTx, k - 1)]
  <2>1. \A k \in 1 .. TxOwned : txBuf[Plus(macTx, k - 1)] \in S
    BY TxFramesType DEF TypeOK
  <2>2. a \in [1 .. TxOwned -> S]
    BY <2>1
  <2>3. \A k \in 1 .. TxOwned : a[k] = txBuf[Plus(macTx, k - 1)]
    OBVIOUS
  <2>4. a \in Seq(S) /\ Len(a) = TxOwned
    <3> HIDE DEF a, S
    <3> QED
      BY <1>1, <2>2, MadeSeq
  <2> QED
    BY <2>3, <2>4
<1>3. /\ b \in Seq(S) /\ Len(b) = taken - TxDone /\ Len(b) \in Nat
      /\ \A k \in 1 .. Len(b) : b[k] = Frame(TxDone + k)
  <2>1. Frame(taken) \in S
    BY <1>1, FrameType
  <2>2. CASE idState \in TxStates
    <3>1. b = <<Frame(taken)>> /\ TxDone = taken - 1
      BY <2>2 DEF TxWriting, TxDone
    <3>2. b \in Seq(S) /\ Len(b) = 1 /\ b[1] = Frame(taken)
      BY <2>1, <3>1
    <3> QED
      BY <1>1, <3>1, <3>2
  <2>3. CASE idState \notin TxStates
    BY <1>1, <2>3 DEF TxWriting, TxDone
  <2> QED
    BY <2>2, <2>3
<1>4. c \in Seq(S) /\ Len(c) = hostSent - taken /\ \A k \in 1 .. hostSent - taken : c[k] = Frame(taken + k)
  <2>1. \A k \in 1 .. hostSent - taken : Frame(taken + k) \in S
    BY <1>1, FrameType
  <2>2. c \in [1 .. hostSent - taken -> S] /\ \A k \in 1 .. hostSent - taken : c[k] = Frame(taken + k)
    BY <2>1
  <2>3. hostSent - taken \in Nat
    BY <1>1
  <2> HIDE DEF c
  <2>4. c \in Seq(S) /\ Len(c) = hostSent - taken
    BY <2>2, <2>3, MadeSeq
  <2> QED
    BY <2>2, <2>4
<1> HIDE DEF a, b, c, S
<1> DEFINE bc == [k \in 1 .. hostSent - TxDone |-> Frame(TxDone + k)]
<1>5. bc \in Seq(S) /\ Len(bc) = hostSent - TxDone /\ \A k \in 1 .. hostSent - TxDone : bc[k] = Frame(TxDone + k)
  <2>1. hostSent - TxDone \in Nat
    BY TxFramesType
  <2>2. \A k \in 1 .. hostSent - TxDone : TxDone + k \in Nat
    BY <1>1, TxFramesType
  <2>3. bc \in [1 .. hostSent - TxDone -> S]
    BY <2>2, FrameType DEF S
  <2> QED
    BY <2>1, <2>3, MadeSeq
<1> HIDE DEF bc
<1>6. b \o c = bc
  <2>1. Len(bc) = Len(b) + Len(c)
    BY <1>1, <1>3, <1>4, <1>5
  <2>2. \A k \in 1 .. Len(b) : bc[k] = b[k]
    BY <1>1, <1>3, <1>4, <1>5
  <2>3. \A k \in 1 .. Len(c) : bc[Len(b) + k] = c[k]
    <3> TAKE k \in 1 .. Len(c)
    <3>1. k \in Nat /\ k >= 1 /\ k <= hostSent - taken
      BY <1>1, <1>4
    <3>2. TxDone + (Len(b) + k) = taken + k
      BY <1>1, <1>3, <3>1
    <3>3. Len(b) + k \in 1 .. hostSent - TxDone
      BY <1>1, <1>3, <3>1
    <3> QED
      BY <1>4, <1>5, <3>2, <3>3
  <2> QED
    BY <1>3, <1>4, <1>5, <2>1, <2>2, <2>3, TwoParts
<1>7. a \o bc = TxFrames
  <2>1. Len(TxFrames) = Len(a) + Len(bc)
    BY <1>1, <1>2, <1>5
  <2>2. \A k \in 1 .. Len(a) : TxFrames[k] = a[k]
    BY <1>1, <1>2, <2>1 DEF TxFrames
  <2>3. \A k \in 1 .. Len(bc) : TxFrames[Len(a) + k] = bc[k]
    <3> TAKE k \in 1 .. Len(bc)
    <3>1. /\ Len(a) + k \in 1 .. TxOwned + (hostSent - TxDone) /\ ~(Len(a) + k <= TxOwned)
          /\ TxDone + ((Len(a) + k) - TxOwned) = TxDone + k
      BY SMTT(30), <1>1, <1>2, <1>5
    <3> QED
      BY <1>1, <1>5, <3>1 DEF TxFrames
  <2> QED
    BY <1>1, <1>2, <1>5, <2>1, <2>2, <2>3, TwoParts
<1>8. (a \o b) \o c = a \o (b \o c)
  BY SMTT(30), <1>2, <1>3, <1>4, JoinedThree
<1> QED
  BY <1>6, <1>7, <1>8 DEF TxQueue, a, b, c

\* The same after a step.
LEMMA TxFramesNext ==
  ASSUME IInv', TxContents'
  PROVE  /\ TxQueue' = TxFrames' /\ TxFrames' \in Seq([Words -> Nums])
         /\ Len(TxFrames') = TxOwned' + (hostSent' - TxDone')
<1>1. (TypeOK /\ taken <= hostSent =>
        /\ TxOwned \in 0 .. NBD - 1 /\ hostSent - TxDone \in Nat /\ TxDone \in Int /\ TxDone + 1 \in Nat
        /\ \A k \in 1 .. TxOwned : Plus(macTx, k - 1) \in Ring
        /\ TxFrames \in Seq([Words -> Nums])
        /\ Len(TxFrames) = TxOwned + (hostSent - TxDone))'
  BY TxFramesType, PTL
<1>2. (TypeOK /\ taken <= hostSent => TxQueue = TxFrames)'
  BY TxQueueIs, PTL
<1>3. TypeOK' /\ taken' <= hostSent'
  BY DEF IInv, TxContents, TxOrder
<1> QED
  BY <1>1, <1>2, <1>3

\* A step that moves a frame from one part of the queue to the next, or none,
\* leaves the queue.
LEMMA TxQueueKept ==
  ASSUME IInv, TxContents, IInv', TxContents',
         TxOwned' + (hostSent' - TxDone') = TxOwned + (hostSent - TxDone),
         \A k \in 1 .. TxOwned + (hostSent - TxDone) : TxFrames'[k] = TxFrames[k]
  PROVE  TxQueue' = TxQueue
<1>1. TypeOK /\ taken <= hostSent
  BY DEF IInv, TxContents, TxOrder
<1>2. /\ TxFrames \in Seq([Words -> Nums]) /\ Len(TxFrames) = TxOwned + (hostSent - TxDone)
      /\ TxQueue = TxFrames
  BY <1>1, TxFramesType, TxQueueIs
<1>3. /\ TxFrames' \in Seq([Words -> Nums]) /\ Len(TxFrames') = TxOwned' + (hostSent' - TxDone')
      /\ TxQueue' = TxFrames'
  BY TxFramesNext
<1>4. Len(TxFrames') = Len(TxFrames)
  BY <1>2, <1>3
<1> QED
  BY <1>2, <1>3, <1>4, SameSeq

LEMMA TxQueueSame ==
  ASSUME IInv, TxContents, IInv', TxContents',
         hostSent' = hostSent, TxDone' = TxDone, TxOwned' = TxOwned,
         \A k \in 1 .. TxOwned : txBuf'[Plus(macTx', k - 1)] = txBuf[Plus(macTx, k - 1)]
  PROVE  TxQueue' = TxQueue
<1>1. TxOwned \in Nat
  BY TxFramesType DEF IInv, TxContents, TxOrder
<1>2. TxFrames' = TxFrames
  <2>1. \A k \in 1 .. TxOwned + (hostSent - TxDone) : k <= TxOwned => k \in 1 .. TxOwned
    BY <1>1
  <2> QED
    BY <2>1 DEF TxFrames
<1> QED
  BY <1>2, TxQueueKept

\* InjectData only moves frames inside the queue: from the in FIFOs into the
\* buffer at head, and with the last word of the BD into the MAC's part of the
\* ring.
LEMMA TxQueueId ==
  ASSUME IInv, TxContents, IInv', TxContents', IdStep
  PROVE  TxQueue' = TxQueue
<1>1. /\ TypeOK /\ head \in Ring /\ macTx \in Ring /\ tail \in Ring /\ taken \in Nat /\ hostSent \in Nat
      /\ txCounter \in Nat /\ txBuf \in [Ring -> [Words -> Nums]]
  BY SMTT(30) DEF IInv, TypeOK
<1>2. /\ TxOwned \in 0 .. NBD - 1 /\ hostSent - TxDone \in Nat /\ TxDone \in Int
      /\ \A k \in 1 .. TxOwned : Plus(macTx, k - 1) \in Ring
  BY TxFramesType DEF IInv, TxContents, TxOrder
<1>3. CASE WriteModer
  <2>1. /\ UNCHANGED <<taken, hostSent, txBuf>> /\ idState = "WRITE_ETHMAC_MODER"
        /\ idState' = "WRITE_ETHMAC_RX_BUF_DESC_0"
    BY <1>3 DEF WriteModer, fifoVars
  <2>2. TxOwned' = TxOwned /\ TxOwned = 0 /\ TxDone' = TxDone
    BY <2>1 DEF TxOwned, TxDone, InitStates, BootStates, RxInitStates, TxStates, TxCopyStates
  <2>3. \A k \in 1 .. TxOwned : txBuf'[Plus(macTx', k - 1)] = txBuf[Plus(macTx, k - 1)]
    BY <2>2
  <2> QED
    BY <2>1, <2>2, <2>3, TxQueueSame
<1>4. CASE WriteTxPointer
  <2>1. /\ UNCHANGED <<taken, hostSent, txBuf, macTx>> /\ idState = "WRITE_ETHMAC_TX_BUF_DESC_0"
        /\ head' = Succ(head)
        /\ idState' = IF Succ(head) = 0 THEN "IDLE" ELSE "WRITE_ETHMAC_TX_BUF_DESC_0"
    BY <1>4 DEF WriteTxPointer, fifoVars, macSide, engineVars
  <2>2. TxOwned = 0 /\ TxDone' = TxDone
    BY <2>1 DEF TxOwned, TxDone, InitStates, TxInitStates, TxStates, TxCopyStates
  <2>3. TxOwned' = 0
    <3>1. macTx = 0
      BY <2>1 DEF IInv, Initialising, InitStates, TxInitStates
    <3>2. idState' \in InitStates \/ head' = 0
      BY <2>1 DEF InitStates, TxInitStates
    <3> QED
      BY <2>1, <3>1, <3>2 DEF TxOwned, Dist
  <2>4. \A k \in 1 .. TxOwned : txBuf'[Plus(macTx', k - 1)] = txBuf[Plus(macTx, k - 1)]
    BY <2>2
  <2> QED
    BY <2>1, <2>2, <2>3, <2>4, TxQueueSame
<1>5. CASE IdleTake
  <2>1. /\ UNCHANGED <<hostSent, txBuf, macTx, head>> /\ idState = "IDLE"
        /\ idState' = "WRITE_DATA_PREPARE" /\ taken' = taken + 1
    BY <1>5 DEF IdleTake, macSide, engineVars, ringVars
  <2>2. TxDone' = TxDone /\ TxOwned' = TxOwned
    BY <1>1, <2>1 DEF TxDone, TxOwned, TxStates, TxCopyStates, InitStates, BootStates, RxInitStates,
       TxInitStates
  <2> QED
    BY <2>1, <2>2, TxQueueSame
<1>6. CASE WriteData
  <2>1. /\ UNCHANGED <<hostSent, taken, macTx, head>> /\ idState = "WRITE_DATA"
        /\ txBuf' = [txBuf EXCEPT ![head][txCounter + 1] = taken]
        /\ idState' \in {"WRITE_DATA_PREPARE", "WRITE_ETHMAC_TX_BUF_DESC_1"}
    BY <1>6 DEF WriteData, engineVars, ringVars, fifoVars
  <2>2. TxDone' = TxDone /\ TxOwned' = TxOwned /\ TxOwned = Dist(macTx, head)
    BY <2>1 DEF TxDone, TxOwned, TxStates, TxCopyStates, InitStates, BootStates, RxInitStates,
       TxInitStates
  <2>3. \A k \in 1 .. TxOwned : txBuf'[Plus(macTx', k - 1)] = txBuf[Plus(macTx, k - 1)]
    <3> TAKE k \in 1 .. TxOwned
    <3>1. k - 1 \in 0 .. NBD - 1 /\ k - 1 < TxOwned
      BY <1>2
    <3>2. Plus(macTx, k - 1) \in Ring /\ Plus(macTx, k - 1) # head
      BY <1>1, <2>2, <3>1, PlusType
    <3> QED
      BY <1>1, <2>1, <3>2
  <2> QED
    BY <2>1, <2>2, <2>3, TxQueueSame
<1>7. CASE WriteTxDesc
  <2>1. /\ UNCHANGED <<hostSent, taken, macTx, txBuf, tail>> /\ idState = "WRITE_ETHMAC_TX_BUF_DESC_1"
        /\ head' = Succ(head) /\ idState' = "IDLE"
    BY <1>7 DEF WriteTxDesc, engineVars, fifoVars
  <2>2. TxDone = taken - 1 /\ TxDone' = taken
    BY <2>1 DEF TxDone, TxStates, TxCopyStates
  <2>3. Succ(head) # tail /\ Dist(tail, macTx) <= Dist(tail, head)
    BY <2>1 DEF IInv, Progress, TxOwnership, TxStates
  <2>4. Succ(head) # macTx
    <3>1. Dist(tail, Succ(head)) = Dist(tail, head) + 1
      BY <1>1, <2>3, DistSuccRight
    <3>2. Dist(tail, head) \in Int
      BY <1>1, DistType DEF Ring
    <3> QED
      BY <2>3, <3>1, <3>2
  <2>5. TxOwned = Dist(macTx, head) /\ TxOwned' = TxOwned + 1
    <3>1. idState \notin InitStates /\ idState' \notin InitStates
      BY <2>1 DEF InitStates, BootStates, RxInitStates, TxInitStates
    <3> QED
      BY <1>1, <2>1, <2>4, <3>1, DistSuccRight DEF TxOwned
  <2>6. txBuf[head] = Frame(taken)
    <3>1. \A k \in Words : txBuf[head][k] = taken
      BY <2>1 DEF TxContents, TxWords, Words, TxStates
    <3> QED
      BY <1>1, <3>1 DEF Frame
  <2>7. ASSUME NEW k \in 1 .. TxOwned + (hostSent - TxDone)
        PROVE  TxFrames'[k] = TxFrames[k]
    <3>1. /\ TxFrames[k] = IF k <= TxOwned THEN txBuf[Plus(macTx, k - 1)]
                           ELSE Frame(TxDone + (k - TxOwned))
          /\ TxFrames'[k] = IF k <= TxOwned + 1 THEN txBuf[Plus(macTx, k - 1)]
                            ELSE Frame(taken + (k - (TxOwned + 1)))
      <4>1. k \in 1 .. TxOwned' + (hostSent' - TxDone')
        BY <1>1, <1>2, <2>1, <2>2, <2>5
      <4> QED
        BY <2>1, <2>2, <2>5, <4>1 DEF TxFrames
    <3>2. CASE k <= TxOwned
      BY <1>2, <3>1, <3>2
    <3>3. CASE k = TxOwned + 1
      <4>1. Plus(macTx, k - 1) = head
        BY <1>1, <1>2, <2>5, <3>3, PlusDist
      <4>2. TxDone + (k - TxOwned) = taken
        BY <1>1, <1>2, <2>2, <3>3
      <4> QED
        BY <1>2, <2>6, <3>1, <3>3, <4>1, <4>2
    <3>4. CASE k > TxOwned + 1
      <4>1. taken + (k - (TxOwned + 1)) = TxDone + (k - TxOwned)
        BY <1>1, <1>2, <2>2
      <4> QED
        BY <1>2, <3>1, <3>4, <4>1
    <3> QED
      BY <1>2, <3>2, <3>3, <3>4
  <2>8. TxOwned' + (hostSent' - TxDone') = TxOwned + (hostSent - TxDone)
    BY <1>1, <1>2, <2>1, <2>2, <2>5
  <2> QED
    BY <2>7, <2>8, TxQueueKept
<1>8. CASE ~(WriteModer \/ WriteTxPointer \/ IdleTake \/ WriteData \/ WriteTxDesc)
  <2>1. UNCHANGED <<taken, hostSent, txBuf, macTx, head>>
    BY <1>8 DEF IdStep, IdBusStep, IdInternalStep, Boot, WriteConfig, WriteRxPointer, WriteRxDesc,
       IdleRx, IdleClear, IdleCtl, RegAccess, RegEnd, ClearTxDesc,
       ClearTxDescWait, GetRxPacketLength, GetPacketData, PassData, ResetRxDesc, WriteDataPrepare, Wait,
       macSide, engineVars, fifoVars, ringVars
  <2>2. (idState' \in InitStates <=> idState \in InitStates) /\ (idState' \in TxStates <=> idState \in TxStates)
    BY <1>8 DEF IdStep, IdBusStep, IdInternalStep, Boot, WriteConfig, WriteRxPointer, WriteRxDesc,
       IdleRx, IdleClear, IdleCtl, RegAccess, RegEnd, ClearTxDesc,
       ClearTxDescWait, GetRxPacketLength, GetPacketData, PassData, PushWord, ResetRxDesc, WriteDataPrepare,
       Wait, InitStates, BootStates, RxInitStates, TxInitStates, TxStates, TxCopyStates
  <2>3. TxDone' = TxDone /\ TxOwned' = TxOwned
    BY <2>1, <2>2 DEF TxDone, TxOwned
  <2> QED
    BY <2>1, <2>3, TxQueueSame
<1> QED
  BY <1>3, <1>4, <1>5, <1>6, <1>7, <1>8

\* The frame that leaves the MAC's part of the ring is the first of the queue,
\* and it is what the MAC has fetched.
LEMMA TxQueueSent ==
  ASSUME IInv, TxContents, IInv', TxContents', NEW kind \in TxIrqs, TxStatusWrite(kind),
         UNCHANGED idVars
  PROVE  TxQueue # <<>> /\ TxQueue' = Tail(TxQueue) /\ Head(TxQueue) = txFetched
<1>1. /\ TypeOK /\ head \in Ring /\ macTx \in Ring /\ hostSent \in Nat
      /\ txBuf \in [Ring -> [Words -> Nums]] /\ txFetched \in Seq(Nums)
      /\ txBD \in [Ring -> [r : BOOLEAN, w : BOOLEAN]]
  BY DEF IInv, TypeOK
<1>2. /\ UNCHANGED <<idState, head, hostSent, taken, txBuf>> /\ txEng = "status"
      /\ macTx' = IF txBD[macTx].w THEN 0 ELSE macTx + 1
  BY DEF TxStatusWrite, idVars, ringVars, fifoVars
<1>3. txBD[macTx].r
  BY <1>2 DEF IInv, Progress
<1>4. macTx' = Succ(macTx)
  BY <1>1, <1>2, <1>3 DEF IInv, WrapBits, Succ
<1>5. idState \notin InitStates /\ macTx # head
  BY <1>1, <1>3, InRingEnds DEF IInv, TxOwnership
<1>6. /\ TxOwned = Dist(macTx, head) /\ TxOwned' = TxOwned - 1
      /\ TxOwned \in 1 .. NBD - 1
  <2>1. TxOwned = Dist(macTx, head) /\ TxOwned' = Dist(Succ(macTx), head)
    BY <1>2, <1>4, <1>5 DEF TxOwned
  <2>2. Dist(Succ(macTx), head) = Dist(macTx, head) - 1
    BY <1>1, <1>5, DistSuccLeft
  <2>3. Dist(macTx, head) \in 1 .. NBD - 1
    <3>1. Dist(macTx, head) \in Ring /\ Dist(macTx, head) # 0
      BY <1>1, <1>5, DistType
    <3> QED
      BY <3>1, NBDAssumption DEF Ring
  <2> QED
    BY <2>1, <2>2, <2>3
<1>7. TxDone' = TxDone
  BY <1>2 DEF TxDone
<1>8. /\ hostSent - TxDone \in Nat /\ TxDone \in Int /\ TxQueue = TxFrames
      /\ TxFrames \in Seq([Words -> Nums])
      /\ Len(TxFrames) = TxOwned + (hostSent - TxDone)
  BY <1>1, TxFramesType, TxQueueIs DEF TxContents, TxOrder
<1>9. /\ TxQueue' = TxFrames' /\ TxFrames' \in Seq([Words -> Nums])
      /\ Len(TxFrames') = TxOwned' + (hostSent' - TxDone')
  BY TxFramesNext
<1>10. \A k \in 1 .. Len(TxFrames') : TxFrames'[k] = TxFrames[k + 1]
  <2> TAKE k \in 1 .. Len(TxFrames')
  <2>1. k \in 1 .. (TxOwned - 1) + (hostSent - TxDone) /\ k + 1 \in 1 .. TxOwned + (hostSent - TxDone)
        /\ k \in Nat
    BY SMTT(30), <1>2, <1>6, <1>7, <1>8, <1>9
  <2>2. /\ TxFrames'[k] = IF k <= TxOwned - 1 THEN txBuf[Plus(Succ(macTx), k - 1)]
                          ELSE Frame(TxDone + (k - (TxOwned - 1)))
        /\ TxFrames[k + 1] = IF k + 1 <= TxOwned THEN txBuf[Plus(macTx, (k + 1) - 1)]
                             ELSE Frame(TxDone + ((k + 1) - TxOwned))
    BY <1>2, <1>4, <1>6, <1>7, <2>1 DEF TxFrames
  <2>3. CASE k <= TxOwned - 1
    <3>1. k - 1 \in 0 .. NBD - 1 /\ (k - 1) + 1 = (k + 1) - 1
      BY <1>6, <2>1, <2>3
    <3>2. Plus(Succ(macTx), k - 1) = Plus(macTx, (k + 1) - 1)
      BY <1>1, <3>1, PlusSucc
    <3>3. k + 1 <= TxOwned
      BY <1>6, <2>1, <2>3
    <3> QED
      BY <2>2, <2>3, <3>2, <3>3
  <2>4. CASE k > TxOwned - 1
    <3>1. ~(k + 1 <= TxOwned) /\ ~(k <= TxOwned - 1) /\ k - (TxOwned - 1) = (k + 1) - TxOwned
      BY <1>6, <2>1, <2>4
    <3> QED
      BY <2>2, <3>1
  <2> QED
    BY <1>6, <2>1, <2>3, <2>4
<1>11. Len(TxFrames) = Len(TxFrames') + 1
  BY <1>1, <1>2, <1>6, <1>7, <1>8, <1>9
<1>12. TxQueue # <<>> /\ TxQueue' = Tail(TxQueue) /\ Head(TxQueue) = TxFrames[1]
  BY <1>8, <1>9, <1>10, <1>11, IsTail
<1>13. TxFrames[1] = txBuf[macTx]
  <2>1. 1 \in 1 .. TxOwned + (hostSent - TxDone) /\ 1 <= TxOwned /\ Plus(macTx, 1 - 1) = macTx
    BY <1>1, <1>6, <1>8 DEF Plus, Ring
  <2> QED
    BY <2>1 DEF TxFrames
<1>14. txBuf[macTx] = txFetched
  <2>1. Len(txFetched) = FrameWords /\ \A k \in DOMAIN txFetched : txFetched[k] = txBuf[macTx][k]
    BY <1>2 DEF TxContents, TxWords
  <2>2. txFetched \in [Words -> Nums] /\ txBuf[macTx] \in [Words -> Nums] /\ DOMAIN txFetched = Words
    BY <1>1, <2>1 DEF Words
  <2> QED
    BY <2>1, <2>2
<1> QED
  BY <1>12, <1>13, <1>14

\* A frame complete in the in FIFOs is the last of the queue.
LEMMA TxQueueHost ==
  ASSUME IInv, TxContents, IInv', TxContents', UsbStep, HostSend
  PROVE  TxQueue' = Append(TxQueue, Frame(hostSent'))
<1>1. /\ hostSent' = hostSent + 1 /\ UNCHANGED <<idState, head, macTx, taken, txBuf>> /\ hostSent \in Nat
  BY DEF UsbStep, HostSend, macSide, engineVars, ringVars, IInv, TypeOK
<1>2. TxDone' = TxDone /\ TxOwned' = TxOwned
  BY <1>1 DEF TxDone, TxOwned
<1>3. /\ TxOwned \in 0 .. NBD - 1 /\ hostSent - TxDone \in Nat /\ TxDone \in Int /\ TxQueue = TxFrames
      /\ TxFrames \in Seq([Words -> Nums])
      /\ Len(TxFrames) = TxOwned + (hostSent - TxDone)
  BY TxFramesType, TxQueueIs DEF IInv, TxContents, TxOrder
<1>4. /\ TxQueue' = TxFrames' /\ TxFrames' \in Seq([Words -> Nums])
      /\ Len(TxFrames') = TxOwned' + (hostSent' - TxDone')
  BY TxFramesNext
<1>5. Len(TxFrames') = Len(TxFrames) + 1
  BY <1>1, <1>2, <1>3, <1>4
<1>6. \A k \in 1 .. Len(TxFrames) : TxFrames'[k] = TxFrames[k]
  <2> TAKE k \in 1 .. Len(TxFrames)
  <2>1. k \in 1 .. TxOwned + (hostSent - TxDone) /\ k \in 1 .. TxOwned + ((hostSent + 1) - TxDone)
    BY <1>1, <1>3
  <2> QED
    BY <1>1, <1>2, <2>1 DEF TxFrames
<1>7. TxFrames'[Len(TxFrames) + 1] = Frame(hostSent')
  <2>1. /\ Len(TxFrames) + 1 \in 1 .. TxOwned + ((hostSent + 1) - TxDone)
        /\ ~(Len(TxFrames) + 1 <= TxOwned)
        /\ TxDone + ((Len(TxFrames) + 1) - TxOwned) = hostSent + 1
    BY <1>1, <1>3
  <2> QED
    BY <1>1, <1>2, <2>1 DEF TxFrames
<1>8. Frame(hostSent') \in [Words -> Nums]
  BY <1>1, FrameType
<1> QED
  BY <1>3, <1>4, <1>5, <1>6, <1>7, <1>8, IsAppend

\* From the wire: the number of the k-th frame, in the out FIFOs or from rdTail
\* on in the ring.
RxLength == outCount + (RxFilled - RxCopied)
RxNumber(k) == IF k <= outCount THEN outData[Pos(k, 1)]
               ELSE rxBuf[Plus(rdTail, (k - outCount) + RxCopied - 1)][1]
RxFrames == [k \in 1 .. RxLength |-> Frame(RxNumber(k))]

LEMMA RxFilledType ==
  ASSUME IInv
  PROVE  /\ RxCopied \in {0, 1} /\ RxFilled \in 0 .. NBD /\ RxCopied <= RxFilled
         /\ \A k \in 1 .. RxFilled - RxCopied :
              Plus(rdTail, k + RxCopied - 1) \in Ring /\ Stored(Plus(rdTail, k + RxCopied - 1))
<1>1. /\ rdTail \in Ring /\ macRx \in Ring /\ RxOwnership
  BY DEF IInv, TypeOK
<1>2. RxCopied \in {0, 1} /\ (RxCopied = 1 <=> idState = "RESET_ETHMAC_RX_BUF_DESC_1")
  BY DEF RxCopied
<1>3. RxFilled \in 0 .. NBD
  <2>1. Dist(rdTail, macRx) \in Ring
    BY <1>1, DistType
  <2> QED
    BY <2>1, NBDAssumption DEF RxFilled, Ring
<1>4. RxCopied <= RxFilled
  <2>1. CASE RxCopied = 1
    <3>1. rxBD[rdTail].len
      BY <1>2, <2>1 DEF IInv, RxOwnership, RxCopyStates
    <3>2. macRx # rdTail => Dist(rdTail, macRx) # 0
      BY <1>1, DistType
    <3> QED
      BY <1>3, <2>1, <3>1, <3>2, NBDAssumption DEF RxFilled
  <2> QED
    BY <1>2, <1>3, <2>1
<1>5. ASSUME NEW n \in 0 .. RxFilled - 1
      PROVE  Plus(rdTail, n) \in Ring /\ Dist(rdTail, Plus(rdTail, n)) = n /\ rxBD[Plus(rdTail, n)].len
  <2>1. n \in 0 .. NBD - 1
    BY <1>3, <1>5, NBDAssumption
  <2>2. Plus(rdTail, n) \in Ring /\ Dist(rdTail, Plus(rdTail, n)) = n
    BY <1>1, <2>1, PlusType
  <2>3. CASE macRx # rdTail
    <3>1. n < Dist(rdTail, macRx)
      <4>1. Dist(rdTail, macRx) \in Ring /\ RxFilled = Dist(rdTail, macRx)
        BY <1>1, <2>3, DistType DEF RxFilled
      <4> QED
        BY <1>3, <1>5, <4>1 DEF Ring
    <3> QED
      BY <1>1, <2>2, <2>3, <3>1 DEF RxOwnership, InRing
  <2>4. CASE macRx = rdTail
    <3>1. rxBD[rdTail].len
      BY <1>5, <2>4 DEF RxFilled
    <3> QED
      BY <1>1, <2>2, <2>4, <3>1 DEF RxOwnership
  <2> QED
    BY <2>2, <2>3, <2>4
<1>6. ASSUME NEW k \in 1 .. RxFilled - RxCopied
      PROVE  Plus(rdTail, k + RxCopied - 1) \in Ring /\ Stored(Plus(rdTail, k + RxCopied - 1))
  <2>1. k + RxCopied - 1 \in 0 .. RxFilled - 1
    BY <1>2, <1>3, <1>6
  <2>2. idState = "RESET_ETHMAC_RX_BUF_DESC_1" => Dist(rdTail, Plus(rdTail, k + RxCopied - 1)) # 0
    BY <1>2, <1>3, <1>5, <1>6, <2>1
  <2>3. Dist(rdTail, rdTail) = 0
    BY <1>1, DistType
  <2> QED
    BY <1>5, <2>1, <2>2, <2>3 DEF Stored
<1> QED
  BY <1>2, <1>3, <1>4, <1>6

\* The numbers are of frames handed over by the MAC.
LEMMA RxNumberType ==
  ASSUME IInv, RxContents, NEW k \in 1 .. RxLength
  PROVE  RxNumber(k) \in Nat /\ RxNumber(k) <= RxDone
<1>1. /\ outCount \in Nat /\ outData \in Seq(Nat) /\ rxBuf \in [Ring -> [Words -> Nat]] /\ 1 \in Words
      /\ TypeOK /\ OutFraming /\ OutOrder /\ RxOrder
  <2>1. TypeOK /\ OutFraming /\ OutOrder /\ RxOrder
    BY DEF IInv, RxContents
  <2>2. outCount \in Nat /\ outData \in Seq(Nat) /\ rxBuf \in [Ring -> [Words -> Nat]]
    BY <2>1 DEF TypeOK, Nums
  <2>3. 1 \in Words
    BY DEF Words
  <2> QED
    BY <2>1, <2>2, <2>3
<1>2. CASE k <= outCount
  <2>1. k \in 1 .. outCount
    BY <1>1, <1>2
  <2>2. Pos(k, 1) \in DOMAIN outData
    BY <1>1, <2>1, PosType
  <2> QED
    BY <1>1, <1>2, <2>1, <2>2 DEF RxNumber, OutOrder
<1>3. CASE k > outCount
  <2>1. k - outCount \in 1 .. RxFilled - RxCopied
    BY <1>1, <1>3, RxFilledType DEF RxLength
  <2> DEFINE i == Plus(rdTail, (k - outCount) + RxCopied - 1)
  <2>2. i \in Ring /\ Stored(i)
    BY <2>1, RxFilledType
  <2>3. RxNumber(k) = rxBuf[i][1]
    BY <1>1, <1>3 DEF RxNumber
  <2> HIDE DEF i
  <2> QED
    BY <1>1, <2>2, <2>3 DEF RxOrder
<1> QED
  BY <1>1, <1>2, <1>3 DEF RxLength

LEMMA RxQueueIs ==
  IInv /\ RxContents =>
    /\ RxQueue = RxFrames /\ RxFrames \in Seq([Words -> Nums])
    /\ RxLength \in Nat /\ Len(RxFrames) = RxLength
<1> SUFFICES ASSUME IInv, RxContents
             PROVE  /\ RxQueue = RxFrames /\ RxFrames \in Seq([Words -> Nums])
                    /\ RxLength \in Nat /\ Len(RxFrames) = RxLength
  OBVIOUS
<1> DEFINE S == [Words -> Nums]
           f == RxFilled - RxCopied
           a == [k \in 1 .. outCount |-> SubSeq(outData, (k - 1) * FrameWords + 1, k * FrameWords)]
           b == [k \in 1 .. f |-> rxBuf[Plus(rdTail, k + RxCopied - 1)]]
<1>1. /\ outCount \in Nat /\ outData \in Seq(Nums) /\ rxBuf \in [Ring -> [Words -> Nums]]
      /\ TypeOK /\ OutFraming /\ OutOrder /\ RxOrder /\ 1 \in Words
  BY DEF IInv, TypeOK, RxContents, Words
<1>2. f \in Nat /\ RxLength = outCount + f /\ RxLength \in Nat
  BY <1>1, RxFilledType DEF RxLength
<1>3. RxFrames \in Seq(S) /\ Len(RxFrames) = RxLength
  <2>1. RxFrames \in [1 .. RxLength -> S]
    BY RxNumberType, FrameType DEF RxFrames
  <2> QED
    BY <1>2, <2>1, MadeSeq
<1>4. ASSUME NEW k \in 1 .. outCount
      PROVE  SubSeq(outData, (k - 1) * FrameWords + 1, k * FrameWords) = RxFrames[k] /\ RxFrames[k] \in S
  <2>1. RxFrames[k] = Frame(outData[Pos(k, 1)]) /\ RxFrames[k] \in S
    <3>1. k \in 1 .. RxLength /\ k <= outCount
      BY <1>1, <1>2
    <3>2. RxNumber(k) \in Nat
      BY <3>1, RxNumberType
    <3> QED
      BY <3>1, <3>2, FrameType DEF RxFrames, RxNumber
  <2>2. /\ (k - 1) * FrameWords \in Nat /\ k * FrameWords \in Nat
        /\ k * FrameWords = (k - 1) * FrameWords + FrameWords
    BY <1>1, ProductType, PredTimes
  <2>3. k * FrameWords <= Len(outData)
    <3>1. FrameWords \in Words
      BY DEF Words
    <3>2. Pos(k, FrameWords) \in DOMAIN outData
      BY <1>1, <3>1, PosType
    <3> QED
      BY <1>1, <2>2, <3>2 DEF Pos
  <2>4. SubSeq(outData, (k - 1) * FrameWords + 1, k * FrameWords)
          = [j \in 1 .. FrameWords |-> outData[(k - 1) * FrameWords + j]]
    <3> DEFINE m == (k - 1) * FrameWords
    <3>1. m \in Nat /\ k * FrameWords = m + FrameWords /\ m + FrameWords <= Len(outData)
      BY <2>2, <2>3
    <3> HIDE DEF m
    <3>2. SubSeq(outData, m + 1, m + FrameWords) = [j \in 1 .. FrameWords |-> outData[m + j]]
      BY <1>1, <3>1, PartIs
    <3> QED
      BY <3>1, <3>2 DEF m
  <2>5. \A j \in Words : outData[(k - 1) * FrameWords + j] = outData[Pos(k, 1)]
    BY <1>1 DEF OutOrder, Pos
  <2> QED
    BY <2>1, <2>4, <2>5 DEF Frame, Words
<1>5. ASSUME NEW k \in 1 .. f
      PROVE  /\ rxBuf[Plus(rdTail, k + RxCopied - 1)] = RxFrames[outCount + k]
             /\ rxBuf[Plus(rdTail, k + RxCopied - 1)] \in S
  <2> DEFINE i == Plus(rdTail, k + RxCopied - 1)
  <2>1. i \in Ring /\ Stored(i)
    BY RxFilledType
  <2>2. outCount + k \in 1 .. RxLength /\ ~(outCount + k <= outCount) /\ (outCount + k) - outCount = k
    BY <1>1, <1>2
  <2>3. RxFrames[outCount + k] = Frame(rxBuf[i][1])
    BY <2>2 DEF RxFrames, RxNumber
  <2> HIDE DEF i
  <2>4. rxBuf[i] = Frame(rxBuf[i][1]) /\ rxBuf[i] \in S
    BY <1>1, <2>1 DEF RxOrder
  <2> QED
    BY <2>3, <2>4 DEF i
<1>6. a \in Seq(S) /\ Len(a) = outCount /\ \A k \in 1 .. outCount : a[k] = RxFrames[k]
  <2>1. a \in [1 .. outCount -> S] /\ \A k \in 1 .. outCount : a[k] = RxFrames[k]
    BY <1>4
  <2>2. outCount \in Nat
    BY <1>1
  <2> HIDE DEF a
  <2>3. a \in Seq(S) /\ Len(a) = outCount
    BY <2>1, <2>2, MadeSeq
  <2> QED
    BY <2>1, <2>3
<1>7. b \in Seq(S) /\ Len(b) = f /\ \A k \in 1 .. f : b[k] = RxFrames[outCount + k]
  <2>1. b \in [1 .. f -> S] /\ \A k \in 1 .. f : b[k] = RxFrames[outCount + k]
    BY <1>5
  <2> QED
    BY <1>2, <2>1, MadeSeq
<1>8. RxQueue = a \o b
  BY DEF RxQueue
<1> HIDE DEF a, b, S, f
<1>9. a \o b = RxFrames
  <2>1. Len(RxFrames) = Len(a) + Len(b)
    BY <1>2, <1>3, <1>6, <1>7
  <2> QED
    BY <1>3, <1>6, <1>7, <2>1, TwoParts
<1> QED
  BY <1>2, <1>3, <1>8, <1>9 DEF S

LEMMA RxFramesNext ==
  ASSUME IInv', RxContents'
  PROVE  /\ RxQueue' = RxFrames' /\ RxFrames' \in Seq([Words -> Nums])
         /\ RxLength' \in Nat /\ Len(RxFrames') = RxLength'
<1>1. (IInv /\ RxContents =>
        /\ RxQueue = RxFrames /\ RxFrames \in Seq([Words -> Nums])
        /\ RxLength \in Nat /\ Len(RxFrames) = RxLength)'
  BY RxQueueIs, PTL
<1> QED
  BY <1>1

LEMMA RxQueueKept ==
  ASSUME IInv, RxContents, IInv', RxContents', RxLength' = RxLength,
         \A k \in 1 .. RxLength : RxNumber(k)' = RxNumber(k)
  PROVE  RxQueue' = RxQueue
<1>1. RxFrames' = RxFrames
  BY DEF RxFrames
<1> QED
  BY <1>1, RxFramesNext, RxQueueIs

\* What keeps the parts of the queue keeps the queue.
LEMMA RxQueueSame ==
  ASSUME IInv, RxContents, IInv', RxContents',
         UNCHANGED <<rdTail, macRx, outCount>>, rxBD'[rdTail].len = rxBD[rdTail].len,
         RxCopied' = RxCopied,
         \A k \in 1 .. outCount : outData'[Pos(k, 1)] = outData[Pos(k, 1)],
         \A i \in Ring : Stored(i) => rxBuf'[i] = rxBuf[i]
  PROVE  RxQueue' = RxQueue
<1>1. RxFilled' = RxFilled /\ RxLength' = RxLength
  BY DEF RxFilled, RxLength
<1>2. outCount \in Nat /\ RxCopied \in {0, 1} /\ RxFilled \in Nat
  <2>1. outCount \in Nat
    BY DEF IInv, TypeOK
  <2>2. RxCopied \in {0, 1} /\ RxFilled \in 0 .. NBD
    BY RxFilledType
  <2> QED
    BY <2>1, <2>2
<1>3. ASSUME NEW k \in 1 .. RxLength PROVE RxNumber(k)' = RxNumber(k)
  <2>1. CASE k <= outCount
    <3>1. k \in 1 .. outCount
      BY <1>2, <2>1
    <3> QED
      BY <2>1, <3>1 DEF RxNumber, Pos
  <2>2. CASE k > outCount
    <3>1. k - outCount \in 1 .. RxFilled - RxCopied /\ ~(k <= outCount)
      BY <1>2, <2>2 DEF RxLength
    <3>2. Plus(rdTail, (k - outCount) + RxCopied - 1) \in Ring /\ Stored(Plus(rdTail, (k - outCount) + RxCopied - 1))
      BY <3>1, RxFilledType
    <3> QED
      BY <3>1, <3>2 DEF RxNumber
  <2> QED
    BY <1>2, <2>1, <2>2 DEF RxLength
<1> QED
  BY <1>1, <1>3, RxQueueKept

\* With its last word a frame is complete in the out FIFOs, and no longer counted
\* in the ring.
LEMMA RxQueuePush ==
  ASSUME IInv, RxContents, IInv', RxContents', idState = "GET_PACKET_DATA",
         PushWord(rxBuf[rdTail][rxCounter + 1]),
         UNCHANGED <<rdTail, rxBuf, rxBD, macRx>>
  PROVE  RxQueue' = RxQueue
<1>1. /\ rxCounter \in Nat /\ rxCounter < FrameWords /\ outCount \in Nat /\ rdTail \in Ring
      /\ RxFilled \in Nat /\ RxFilled' = RxFilled /\ RxCopied = 0
  BY SMTT(30), RxFilledType DEF IInv, TypeOK, Progress, RxFilled, RxCopied
<1>2. /\ \A j \in 1 .. rxCounter + 1 : outData'[outCount * FrameWords + j] = rxBuf[rdTail][j]
      /\ \A k \in 1 .. outCount, j \in Words : outData'[Pos(k, j)] = outData[Pos(k, j)]
      /\ 1 \in Words
  BY PushKeepsWords DEF RxContents, Words
<1>3. CASE rxCounter + 1 < FrameWords
  <2>1. idState' = idState /\ outCount' = outCount
    BY <1>1, <1>3 DEF PushWord
  <2>2. RxCopied' = RxCopied
    BY <2>1 DEF RxCopied
  <2> QED
    BY <1>2, <2>1, <2>2, RxQueueSame
<1>4. CASE rxCounter + 1 = FrameWords
  <2>1. idState' = "RESET_ETHMAC_RX_BUF_DESC_1" /\ outCount' = outCount + 1 /\ RxCopied' = 1
    BY <1>1, <1>4 DEF PushWord, RxCopied
  <2>2. RxLength' = RxLength /\ RxLength = outCount + RxFilled
    BY <1>1, <2>1 DEF RxLength
  <2>3. ASSUME NEW k \in 1 .. RxLength PROVE RxNumber(k)' = RxNumber(k)
    <3>1. RxNumber(k)' = IF k <= outCount + 1 THEN outData'[Pos(k, 1)]
                         ELSE rxBuf[Plus(rdTail, (k - (outCount + 1)) + 1 - 1)][1]
      BY <2>1 DEF RxNumber, Pos
    <3>2. RxNumber(k) = IF k <= outCount THEN outData[Pos(k, 1)]
                        ELSE rxBuf[Plus(rdTail, (k - outCount) + 0 - 1)][1]
      BY <1>1 DEF RxNumber
    <3>3. k \in Nat /\ k >= 1
      BY <1>1, <2>2
    <3>4. CASE k <= outCount
      BY <1>1, <1>2, <3>1, <3>2, <3>3, <3>4
    <3>5. CASE k = outCount + 1
      <4>1. Pos(k, 1) = outCount * FrameWords + 1
        <5>1. k - 1 = outCount
          BY <1>1, <3>5
        <5> QED
          BY <5>1 DEF Pos
      <4>2. Plus(rdTail, (k - outCount) + 0 - 1) = rdTail
        BY <1>1, <3>5 DEF Plus, Ring
      <4>3. outData'[outCount * FrameWords + 1] = rxBuf[rdTail][1]
        BY <1>1, <1>2
      <4> QED
        BY <1>1, <3>1, <3>2, <3>5, <4>1, <4>2, <4>3
    <3>6. CASE k > outCount + 1
      <4>1. (k - (outCount + 1)) + 1 - 1 = (k - outCount) + 0 - 1
        BY <1>1, <3>3
      <4> QED
        BY <1>1, <3>1, <3>2, <3>3, <3>6, <4>1
    <3> QED
      BY <1>1, <3>3, <3>4, <3>5, <3>6
  <2> QED
    BY <2>2, <2>3, RxQueueKept
<1> QED
  BY <1>1, <1>3, <1>4

\* The BD given back at rdTail held the frame that had changed over.
LEMMA RxQueueReset ==
  ASSUME IInv, RxContents, IInv', RxContents', ResetRxDesc, UNCHANGED rxBuf
  PROVE  RxQueue' = RxQueue
<1>1. /\ rdTail \in Ring /\ macRx \in Ring /\ DOMAIN rxBD = Ring /\ outCount \in Nat
      /\ rxBD \in [Ring -> [e : BOOLEAN, w : BOOLEAN, len : BOOLEAN]]
  BY DEF IInv, TypeOK
<1>2. /\ UNCHANGED <<macRx, outData, outCount, rxBuf>> /\ rdTail' = Succ(rdTail)
      /\ rxBD' = [rxBD EXCEPT ![rdTail] = [e |-> TRUE, w |-> rdTail = NBD - 1, len |-> FALSE]]
      /\ RxCopied = 1 /\ RxCopied' = 0 /\ rxBD[rdTail].len
  BY DEF ResetRxDesc, WriteRxBD, engineVars, fifoVars, RxCopied, IInv, RxOwnership, RxCopyStates
<1>3. Succ(rdTail) # rdTail /\ Succ(rdTail) \in Ring
  BY <1>1, SuccType, NBDAssumption DEF Succ, Ring
<1>4. RxFilled \in 1 .. NBD /\ RxFilled' = RxFilled - 1
  <2>1. CASE macRx = rdTail
    <3>1. RxFilled = NBD
      BY <1>2, <2>1 DEF RxFilled
    <3>2. RxFilled' = Dist(Succ(rdTail), rdTail)
      BY <1>2, <1>3, <2>1 DEF RxFilled
    <3> QED
      BY <1>1, <3>1, <3>2, DistSuccLeft, NBDAssumption
  <2>2. CASE macRx # rdTail
    <3>1. RxFilled = Dist(rdTail, macRx) /\ Dist(rdTail, macRx) \in Ring /\ Dist(rdTail, macRx) # 0
      BY <1>1, <2>2, DistType DEF RxFilled
    <3>2. Dist(Succ(rdTail), macRx) = Dist(rdTail, macRx) - 1
      BY <1>1, <2>2, DistSuccLeft
    <3>3. CASE macRx # Succ(rdTail)
      <4>1. RxFilled' = Dist(Succ(rdTail), macRx)
        BY <1>2, <3>3 DEF RxFilled
      <4> QED
        BY <3>1, <3>2, <4>1 DEF Ring
    <3>4. CASE macRx = Succ(rdTail)
      <4>1. ~rxBD[macRx].len
        BY <1>1, <2>2, InRingEnds DEF IInv, RxOwnership
      <4>2. ~rxBD'[macRx].len
        BY <1>1, <1>2, <2>2, <4>1
      <4>3. RxFilled' = 0
        BY <1>2, <3>4, <4>2 DEF RxFilled
      <4>4. Dist(rdTail, macRx) = 1
        <5>1. Dist(Succ(rdTail), macRx) = 0
          BY <1>1, <3>4, DistType
        <5> QED
          BY <3>1, <3>2, <5>1 DEF Ring
      <4> QED
        BY <3>1, <4>3, <4>4, NBDAssumption
    <3> QED
      BY <3>3, <3>4
  <2> QED
    BY <2>1, <2>2
<1>5. RxLength' = RxLength /\ RxLength = outCount + (RxFilled - 1)
  BY <1>1, <1>2, <1>4 DEF RxLength
<1>6. ASSUME NEW k \in 1 .. RxLength PROVE RxNumber(k)' = RxNumber(k)
  <2>1. RxNumber(k)' = IF k <= outCount THEN outData[Pos(k, 1)]
                       ELSE rxBuf[Plus(Succ(rdTail), (k - outCount) + 0 - 1)][1]
    BY <1>2 DEF RxNumber, Pos
  <2>2. RxNumber(k) = IF k <= outCount THEN outData[Pos(k, 1)]
                      ELSE rxBuf[Plus(rdTail, (k - outCount) + 1 - 1)][1]
    BY <1>2 DEF RxNumber
  <2>3. CASE k <= outCount
    BY <2>1, <2>2, <2>3
  <2>4. CASE ~(k <= outCount)
    <3>1. (k - outCount) + 0 - 1 \in 0 .. NBD - 1 /\ ((k - outCount) + 0 - 1) + 1 = (k - outCount) + 1 - 1
      BY <1>1, <1>4, <1>5, <2>4
    <3>2. Plus(Succ(rdTail), (k - outCount) + 0 - 1) = Plus(rdTail, (k - outCount) + 1 - 1)
      BY <1>1, <3>1, PlusSucc
    <3> QED
      BY <2>1, <2>2, <2>4, <3>2
  <2> QED
    BY <2>3, <2>4
<1> QED
  BY <1>5, <1>6, RxQueueKept

LEMMA RxQueueId ==
  ASSUME IInv, RxContents, IInv', RxContents', IdStep
  PROVE  RxQueue' = RxQueue
<1>1. UNCHANGED rxBuf
  BY DEF IdStep
<1>2. /\ rdTail \in Ring /\ rdHead \in Ring /\ DOMAIN rxBD = Ring /\ passData \in BOOLEAN
  BY DEF IInv, TypeOK
<1>3. CASE GetPacketData
  <2>1. CASE OutReady
    BY <1>1, <1>3, <2>1, RxQueuePush DEF GetPacketData, ringVars, macSide, bdVars, engineVars
  <2>2. CASE ~OutReady
    <3>1. UNCHANGED <<rdTail, macRx, outCount, outData, rxBD, rxBuf, idState>>
      BY <1>1, <1>3, <2>2 DEF GetPacketData, ringVars, macSide, bdVars, engineVars
    <3>2. RxCopied' = RxCopied
      BY <3>1 DEF RxCopied
    <3> QED
      BY <3>1, <3>2, RxQueueSame
  <2> QED
    BY <2>1, <2>2
<1>4. CASE PassData
  <2>1. idState = "GET_PACKET_DATA" /\ rxWord = rxBuf[rdTail][rxCounter + 1]
    BY <1>4 DEF PassData, RxContents, RxWords
  <2> QED
    BY <1>1, <1>4, <2>1, RxQueuePush DEF PassData, ringVars, macSide, bdVars, engineVars
<1>5. CASE ResetRxDesc
  BY <1>1, <1>5, RxQueueReset
<1>6. CASE WriteModer
  <2>1. UNCHANGED <<rdTail, outCount, outData, rxBD, rxBuf>> /\ macRx' = 0 /\ idState = "WRITE_ETHMAC_MODER"
        /\ idState' = "WRITE_ETHMAC_RX_BUF_DESC_0"
    BY <1>1, <1>6 DEF WriteModer, EnableMac, ringVars, fifoVars, bdVars
  <2>2. macRx = 0 /\ RxCopied' = RxCopied
    BY <2>1 DEF IInv, Initialising, BootStates, RxCopied
  <2> QED
    BY <2>1, <2>2, RxQueueSame
<1>7. CASE WriteRxDesc
  <2>1. /\ UNCHANGED <<rdTail, outCount, outData, macRx, rxBuf>> /\ idState = "WRITE_ETHMAC_RX_BUF_DESC_1"
        /\ idState' \in {"WRITE_ETHMAC_RX_BUF_DESC_0", "WRITE_ETHMAC_TX_BUF_DESC_0"}
        /\ rxBD' = [rxBD EXCEPT ![rdHead] = [e |-> TRUE, w |-> rdHead = NBD - 1, len |-> FALSE]]
    BY <1>1, <1>7 DEF WriteRxDesc, WriteRxBD, engineVars, fifoVars
  <2>2. ~rxBD[rdHead].len
    BY <1>2, <2>1 DEF IInv, Initialising, RxInitStates, Ring
  <2>3. rxBD'[rdTail].len = rxBD[rdTail].len
    <3>1. rxBD[rdTail].len \in BOOLEAN
      BY <1>2 DEF IInv, TypeOK
    <3> QED
      BY <1>2, <2>1, <2>2, <3>1
  <2>4. RxCopied' = RxCopied
    BY <2>1 DEF RxCopied
  <2> QED
    BY <2>1, <2>3, <2>4, RxQueueSame
<1>8. CASE ~(GetPacketData \/ PassData \/ ResetRxDesc \/ WriteModer \/ WriteRxDesc)
  <2>1. UNCHANGED <<rdTail, macRx, outCount, outData, rxBD>>
    BY <1>8 DEF IdStep, IdBusStep, IdInternalStep, Boot, WriteConfig, WriteRxPointer, WriteTxPointer,
       IdleRx, IdleClear, IdleTake, IdleCtl, RegAccess, RegEnd, ClearTxDesc, ClearTxDescWait,
       GetRxPacketLength, WriteDataPrepare, WriteData, WriteTxDesc, WriteTxBD, Wait,
       macSide, bdVars, engineVars, fifoVars, ringVars
  <2>2. RxCopied' = RxCopied
    BY <1>8 DEF IdStep, IdBusStep, IdInternalStep, Boot, WriteConfig, WriteRxPointer, WriteTxPointer,
       IdleRx, IdleClear, IdleTake, IdleCtl, RegAccess, RegEnd, ClearTxDesc, ClearTxDescWait,
       GetRxPacketLength, WriteDataPrepare, WriteData, WriteTxDesc, Wait, RxCopied
  <2> QED
    BY <1>1, <2>1, <2>2, RxQueueSame
<1> QED
  BY <1>3, <1>4, <1>5, <1>6, <1>7, <1>8

\* The frame the MAC hands over is the last of the queue; its number is that of
\* the frame that arrived last, and none under way or read by the host has it.
LEMMA RxQueueAccept ==
  ASSUME IInv, RxContents, IInv', RxContents', NEW kind \in RxIrqs, RxStatusWrite(kind),
         UNCHANGED <<idVars, host>>
  PROVE  /\ RxQueue' = Append(RxQueue, Frame(rxSeen))
         /\ \A k \in DOMAIN RxQueue : RxQueue[k] # Frame(rxSeen)
         /\ \A k \in DOMAIN host : host[k] # Frame(rxSeen)
<1>1. /\ rdTail \in Ring /\ macRx \in Ring /\ DOMAIN rxBD = Ring /\ outCount \in Nat /\ rxSeen \in Nat
      /\ rxBD \in [Ring -> [e : BOOLEAN, w : BOOLEAN, len : BOOLEAN]]
      /\ rxBuf \in [Ring -> [Words -> Nums]] /\ 1 \in Words
  BY SMTT(30) DEF IInv, TypeOK, Words
<1>2. /\ UNCHANGED <<rdTail, idState, outData, outCount, rxBuf, rxSeen>> /\ rxEng = "status"
      /\ rxBD' = [rxBD EXCEPT ![macRx].e = FALSE, ![macRx].len = TRUE]
      /\ macRx' = IF rxBD[macRx].w THEN 0 ELSE macRx + 1
  BY DEF RxStatusWrite, idVars, ringVars, fifoVars, netVars
<1>3. rxBD[macRx].e /\ ~rxBD[macRx].len /\ RxOwnership
  BY <1>1, <1>2 DEF IInv, RxOwnership
<1>4. macRx' = Succ(macRx)
  BY <1>1, <1>2, <1>3 DEF IInv, WrapBits, Succ
<1>5. RxCopied \in {0, 1} /\ RxCopied' = RxCopied /\ RxCopied <= RxFilled
  BY <1>2, RxFilledType DEF RxCopied
<1>6. /\ RxFilled = Dist(rdTail, macRx) /\ RxFilled \in 0 .. NBD - 1 /\ RxFilled' = RxFilled + 1
  <2>1. Dist(rdTail, macRx) \in 0 .. NBD - 1
    BY <1>1, DistType DEF Ring
  <2>2. RxFilled = Dist(rdTail, macRx)
    <3>1. macRx = rdTail => Dist(rdTail, macRx) = 0
      BY <1>1, DistType
    <3> QED
      BY <1>3, <3>1 DEF RxFilled
  <2>3. CASE Succ(macRx) # rdTail
    <3>1. Dist(rdTail, Succ(macRx)) = Dist(rdTail, macRx) + 1
      BY <1>1, <2>3, DistSuccRight
    <3>2. RxFilled' = Dist(rdTail, Succ(macRx))
      BY <1>2, <1>4, <2>3 DEF RxFilled
    <3> QED
      BY <2>1, <2>2, <3>1, <3>2
  <2>4. CASE Succ(macRx) = rdTail
    <3>1. macRx # rdTail /\ Dist(rdTail, macRx) = NBD - 1
      BY <1>1, <2>4, NBDAssumption DEF Succ, Ring, Dist
    <3>2. rxBD[rdTail].len
      BY <1>1, <1>3, <3>1, InRingEnds DEF RxOwnership
    <3>3. rxBD'[rdTail].len
      BY <1>1, <1>2, <3>1, <3>2
    <3>4. RxFilled' = NBD
      BY <1>2, <1>4, <2>4, <3>3 DEF RxFilled
    <3> QED
      BY <2>1, <2>2, <3>1, <3>4, NBDAssumption
  <2> QED
    BY <2>1, <2>2, <2>3, <2>4
<1>7. RxLength' = RxLength + 1 /\ RxLength = outCount + (RxFilled - RxCopied) /\ RxLength \in Nat
      /\ RxCopied \in Nat /\ RxFilled \in Nat
  <2>1. RxCopied \in Nat /\ RxFilled \in Nat /\ RxFilled - RxCopied \in Nat
    BY <1>5, <1>6
  <2>2. RxLength' = outCount + ((RxFilled + 1) - RxCopied)
    BY <1>2, <1>5, <1>6 DEF RxLength
  <2> QED
    BY <1>1, <2>1, <2>2 DEF RxLength
<1>8. ASSUME NEW k \in 1 .. RxLength PROVE RxNumber(k)' = RxNumber(k)
  BY <1>2, <1>5 DEF RxNumber, Pos
<1>9. ASSUME NEW n \in Nat, n = RxLength + 1 PROVE RxNumber(n)' = rxSeen
  <2>1. /\ ~(n <= outCount) /\ (n - outCount) + RxCopied - 1 = RxFilled
    BY <1>1, <1>5, <1>7, <1>9
  <2>2. RxNumber(n)' = rxBuf[Plus(rdTail, RxFilled)][1]
    BY <1>2, <1>5, <2>1 DEF RxNumber
  <2>3. Plus(rdTail, RxFilled) = macRx
    BY <1>1, <1>6, PlusDist
  <2>4. rxBuf[macRx][1] = rxSeen
    BY <1>1, <1>2 DEF RxContents, RxWords, Words
  <2> QED
    BY <2>2, <2>3, <2>4
<1>10. /\ RxQueue = RxFrames /\ RxFrames \in Seq([Words -> Nums])
       /\ RxLength \in Nat /\ Len(RxFrames) = RxLength
  BY RxQueueIs
<1>11. /\ RxQueue' = RxFrames' /\ RxFrames' \in Seq([Words -> Nums])
       /\ Len(RxFrames') = RxLength'
  BY RxFramesNext
<1>12. Frame(rxSeen) \in [Words -> Nums]
  BY <1>1, FrameType
<1>13. RxQueue' = Append(RxQueue, Frame(rxSeen))
  <2>1. RxFrames'[RxLength + 1] = Frame(rxSeen)
    <3> SUFFICES ASSUME NEW n \in Nat, n = RxLength + 1 PROVE RxFrames'[n] = Frame(rxSeen)
      BY <1>7
    <3>1. n \in 1 .. RxLength' /\ RxNumber(n)' = rxSeen
      BY <1>7, <1>9
    <3> QED
      BY <3>1 DEF RxFrames
  <2>2. \A k \in 1 .. RxLength : RxFrames'[k] = RxFrames[k]
    <3> TAKE k \in 1 .. RxLength
    <3>1. k \in 1 .. RxLength'
      BY <1>7, <1>10
    <3> QED
      BY <1>8, <3>1 DEF RxFrames
  <2> QED
    BY <1>7, <1>10, <1>11, <1>12, <2>1, <2>2, IsAppend
<1>14. \A n \in Nat : n < rxSeen => Frame(n) # Frame(rxSeen)
  BY <1>1 DEF Frame
<1>15. RxDone = rxSeen - 1
  BY <1>2 DEF RxDone
<1>16. \A k \in DOMAIN RxQueue : RxQueue[k] # Frame(rxSeen)
  <2> TAKE k \in DOMAIN RxQueue
  <2>1. k \in 1 .. RxLength /\ RxQueue[k] = Frame(RxNumber(k))
    BY <1>10 DEF RxFrames
  <2>2. RxNumber(k) \in Nat /\ RxNumber(k) < rxSeen
    BY <1>1, <1>15, <2>1, RxNumberType
  <2> QED
    BY <1>14, <2>1, <2>2
<1>17. \A k \in DOMAIN host : host[k] # Frame(rxSeen)
  <2> TAKE k \in DOMAIN host
  <2>1. host[k][1] \in Nat /\ host[k] = Frame(host[k][1])
    BY FirstType DEF RxContents, HostInOrder, Increasing, IInv, TypeOK, Nums
  <2>2. host[k][1] < rxSeen
    BY <1>1, <1>15, <2>1 DEF RxContents, RxOrder
  <2> QED
    BY <1>14, <2>1, <2>2
<1> QED
  BY <1>13, <1>16, <1>17

\* What the driver reads is the first frame of the queue.
LEMMA RxQueueTake ==
  ASSUME IInv, RxContents, IInv', RxContents', UsbStep, HostTake
  PROVE  RxQueue # <<>> /\ RxQueue' = Tail(RxQueue) /\ host' = Append(host, Head(RxQueue))
<1>1. /\ UNCHANGED <<idState, rdTail, macRx, rxBD, rxBuf>> /\ outCount' = outCount - 1 /\ outCount \in Nat
      /\ outCount > 0 /\ host' = Append(host, SubSeq(outData, 1, FrameWords)) /\ 1 \in Words
  BY DEF UsbStep, HostTake, ringVars, macSide, bdVars, engineVars, IInv, TypeOK, Words
<1>2. /\ SubSeq(outData, 1, FrameWords) = Frame(outData[Pos(1, 1)])
      /\ \A k \in 1 .. outCount', j \in Words :
           k + 1 \in 1 .. outCount /\ outData'[Pos(k, j)] = outData[Pos(k + 1, j)]
  BY <1>1, TakeMovesFrames DEF RxContents
<1>3. /\ RxFilled' = RxFilled /\ RxCopied' = RxCopied /\ RxCopied \in {0, 1} /\ RxFilled \in Nat
      /\ RxCopied <= RxFilled
  BY <1>1, RxFilledType DEF RxFilled, RxCopied
<1>4. RxLength' = RxLength - 1 /\ RxLength \in Nat /\ RxLength >= 1
  BY <1>1, <1>3 DEF RxLength
<1>5. ASSUME NEW k \in 1 .. RxLength' PROVE RxNumber(k)' = RxNumber(k + 1)
  <2>1. k \in Nat /\ k >= 1
    BY <1>4
  <2>2. RxNumber(k)' = IF k <= outCount - 1 THEN outData'[Pos(k, 1)]
                       ELSE rxBuf[Plus(rdTail, (k - (outCount - 1)) + RxCopied - 1)][1]
    BY <1>1, <1>3 DEF RxNumber, Pos
  <2>3. RxNumber(k + 1) = IF k + 1 <= outCount THEN outData[Pos(k + 1, 1)]
                          ELSE rxBuf[Plus(rdTail, ((k + 1) - outCount) + RxCopied - 1)][1]
    BY DEF RxNumber
  <2>4. CASE k <= outCount - 1
    <3>1. k \in 1 .. outCount' /\ k + 1 <= outCount
      BY <1>1, <2>1, <2>4
    <3> QED
      BY <1>1, <1>2, <2>2, <2>3, <2>4, <3>1
  <2>5. CASE ~(k <= outCount - 1)
    <3>1. ~(k + 1 <= outCount) /\ k - (outCount - 1) = (k + 1) - outCount
      BY <1>1, <2>1, <2>5
    <3> QED
      BY <2>2, <2>3, <2>5, <3>1
  <2> QED
    BY <2>4, <2>5
<1>6. /\ RxQueue = RxFrames /\ RxFrames \in Seq([Words -> Nums]) /\ Len(RxFrames) = RxLength
      /\ RxQueue' = RxFrames' /\ RxFrames' \in Seq([Words -> Nums]) /\ Len(RxFrames') = RxLength'
  BY RxQueueIs, RxFramesNext
<1>7. \A k \in 1 .. RxLength' : RxFrames'[k] = RxFrames[k + 1]
  <2> TAKE k \in 1 .. RxLength'
  <2>1. k + 1 \in 1 .. RxLength
    BY <1>4
  <2> QED
    BY <1>5, <2>1 DEF RxFrames
<1>8. RxQueue # <<>> /\ RxQueue' = Tail(RxQueue) /\ Head(RxQueue) = RxFrames[1]
  BY <1>4, <1>6, <1>7, IsTail
<1>9. RxFrames[1] = Frame(outData[Pos(1, 1)])
  BY <1>1, <1>4 DEF RxFrames, RxNumber
<1> QED
  BY <1>1, <1>2, <1>8, <1>9

\* Every step of the bridge is a step of EthLink or leaves all its variables.
LEMMA LinkStep ==
  ASSUME IInv, Contents, IInv', Contents', [Next]_vars
  PROVE  [Link!LinkNext]_(Link!linkVars)
<1>1. TxContents /\ TxContents' /\ RxContents /\ RxContents'
  BY DEF Contents
<1>2. ASSUME UNCHANGED <<idState, head, macTx, taken, hostSent, txBuf>> PROVE TxQueue' = TxQueue
  BY <1>1, <1>2, TxQueueSame DEF TxDone, TxOwned
<1>3. ASSUME UNCHANGED <<idState, rdTail, macRx, outCount, outData, rxBD, rxBuf>> PROVE RxQueue' = RxQueue
  BY <1>1, <1>3, RxQueueSame DEF RxCopied
<1>4. CASE HmiStep \/ UNCHANGED vars
  <2>1. UNCHANGED <<idState, head, macTx, taken, hostSent, txBuf, rdTail, macRx, outCount, outData, rxBD, rxBuf,
                    wire, rxSeen, host>>
    BY <1>4 DEF HmiStep, vars, macSide, bdVars, engineVars, netVars, idVars, ringVars, fifoVars
  <2> QED
    BY <1>2, <1>3, <2>1 DEF Link!linkVars
<1>5. CASE IdStep
  <2>1. TxQueue' = TxQueue /\ RxQueue' = RxQueue
    BY <1>1, <1>5, TxQueueId, RxQueueId
  <2>2. UNCHANGED <<hostSent, wire, rxSeen, host>>
    BY <1>5 DEF IdStep, IdBusStep, IdInternalStep, Boot, WriteConfig, WriteModer, WriteRxPointer, WriteRxDesc,
       WriteTxPointer, IdleRx, IdleClear, IdleTake, IdleCtl, RegAccess, RegEnd, ClearTxDesc,
       ClearTxDescWait, GetRxPacketLength, GetPacketData, PassData, ResetRxDesc, WriteDataPrepare,
       WriteData, WriteTxDesc, Wait, fifoVars, netVars
  <2> QED
    BY <2>1, <2>2 DEF Link!linkVars
<1>6. CASE MacStep
  <2>1. UNCHANGED <<idVars, idState, head, taken, hostSent, rdTail, outCount, outData, host>>
    BY <1>6 DEF MacStep, idVars, ringVars, fifoVars
  <2>2. ASSUME NEW kind \in TxIrqs, TxStatusWrite(kind) PROVE Link!Transmit
    <3>1. UNCHANGED <<macRx, rxBD, rxBuf, rxSeen>> /\ wire' \in {Append(wire, txFetched), wire}
      BY <2>2 DEF TxStatusWrite
    <3>2. TxQueue # <<>> /\ TxQueue' = Tail(TxQueue) /\ Head(TxQueue) = txFetched
      BY <1>1, <2>1, <2>2, TxQueueSent
    <3>3. RxQueue' = RxQueue
      BY <1>3, <2>1, <3>1
    <3> QED
      BY <2>1, <3>1, <3>2, <3>3 DEF Link!Transmit
  <2>3. ASSUME NEW kind \in RxIrqs, RxStatusWrite(kind) PROVE Link!Accept
    <3>1. UNCHANGED <<macTx, txBuf, wire, rxSeen>>
      BY <2>3 DEF RxStatusWrite, netVars
    <3>2. TxQueue' = TxQueue
      BY <1>2, <2>1, <3>1
    <3>3. /\ RxQueue' = Append(RxQueue, Frame(rxSeen))
          /\ \A k \in DOMAIN RxQueue : RxQueue[k] # Frame(rxSeen)
          /\ \A k \in DOMAIN host : host[k] # Frame(rxSeen)
      BY <1>1, <2>1, <2>3, RxQueueAccept
    <3> QED
      BY <2>1, <3>1, <3>2, <3>3 DEF Link!Accept
  <2>4. CASE RxStore
    <3>1. /\ UNCHANGED <<macTx, txBuf, macRx, rxBD, wire, rxSeen>> /\ rxEng = "dma"
          /\ rxBuf' = [rxBuf EXCEPT ![macRx][rxCount + 1] = rxSeen]
      BY <2>4 DEF RxStore, bdVars, netVars
    <3>2. ~rxBD[macRx].len
      BY <3>1 DEF IInv, TypeOK, RxOwnership
    <3>3. \A i \in Ring : Stored(i) => rxBuf'[i] = rxBuf[i]
      BY <3>1, <3>2 DEF Stored, IInv, TypeOK
    <3>4. RxQueue' = RxQueue
      BY <1>1, <2>1, <3>1, <3>3, RxQueueSame DEF RxCopied
    <3> QED
      BY <1>2, <2>1, <3>1, <3>4 DEF Link!linkVars
  <2>5. CASE TxBDRead \/ RxBDRead \/ TxFetch \/ LatchIrq
    <3>1. UNCHANGED <<macTx, txBuf, macRx, rxBD, rxBuf, wire, rxSeen>>
      BY <2>5 DEF TxBDRead, RxBDRead, TxFetch, LatchIrq, bdVars, engineVars, netVars
    <3> QED
      BY <1>2, <1>3, <2>1, <3>1 DEF Link!linkVars
  <2> QED
    BY <1>6, <2>2, <2>3, <2>4, <2>5 DEF MacStep, MacBusStep, MacInternalStep, Link!LinkNext
<1>7. CASE NetStep
  <2>1. /\ UNCHANGED <<idState, head, macTx, taken, hostSent, txBuf, rdTail, macRx, outCount, outData, rxBD,
                       rxBuf, wire, host>>
        /\ rxSeen' = rxSeen + 1 \/ rxSeen' = rxSeen
    BY <1>7 DEF NetStep, WireStep, RxFrameStart, RxBusy, RxAbort, idVars, ringVars, fifoVars, bdVars,
       engineVars, netVars
  <2> QED
    BY <1>2, <1>3, <2>1 DEF Link!linkVars, Link!LinkNext, Link!Arrive
<1>8. CASE UsbStep
  <2>1. UNCHANGED <<idState, head, macTx, txBuf, rdTail, macRx, rxBD, rxBuf, wire, rxSeen>>
    BY <1>8 DEF UsbStep, macSide, bdVars, engineVars, netVars, ringVars
  <2>2. CASE HostSend
    <3>1. UNCHANGED <<outCount, outData, host>> /\ hostSent' = hostSent + 1
      BY <2>2 DEF HostSend
    <3>2. TxQueue' = Append(TxQueue, Frame(hostSent'))
      BY <1>1, <1>8, <2>2, TxQueueHost
    <3> QED
      BY <1>3, <2>1, <3>1, <3>2 DEF Link!LinkNext, Link!Send
  <2>3. CASE HostTake
    <3>1. UNCHANGED <<hostSent, taken>>
      BY <2>3 DEF HostTake
    <3>2. RxQueue # <<>> /\ RxQueue' = Tail(RxQueue) /\ host' = Append(host, Head(RxQueue))
      BY <1>1, <1>8, <2>3, RxQueueTake
    <3> QED
      BY <1>2, <2>1, <3>1, <3>2 DEF Link!LinkNext, Link!Deliver
  <2>4. CASE CtlRequest
    <3>1. UNCHANGED <<hostSent, taken, outCount, outData, host>>
      BY <2>4 DEF CtlRequest, fifoVars
    <3> QED
      BY <1>2, <1>3, <2>1, <3>1 DEF Link!linkVars
  <2> QED
    BY <1>8, <2>2, <2>3, <2>4 DEF UsbStep
<1> QED
  BY <1>4, <1>5, <1>6, <1>7, <1>8 DEF Next

LEMMA LinkStart == Init => Link!LinkInit
<1> SUFFICES ASSUME Init PROVE Link!LinkInit
  OBVIOUS
<1>1. /\ hostSent = 0 /\ taken = 0 /\ rxSeen = 0 /\ wire = <<>> /\ host = <<>> /\ outCount = 0
      /\ idState = "RESET" /\ macRx = 0 /\ rdTail = 0 /\ 0 \in Ring
      /\ rxBD = [i \in Ring |-> [e |-> FALSE, w |-> FALSE, len |-> FALSE]]
  BY DEF Init, MacInit, IdInit, Ring
<1>2. IInv /\ TxContents /\ RxContents
  BY InitIInv, ContentsInit DEF Contents
<1>3. TxQueue = <<>>
  <2>1. TxOwned = 0 /\ TxDone = 0
    BY <1>1 DEF TxOwned, TxDone, InitStates, BootStates, TxStates, TxCopyStates
  <2>2. TxQueue = TxFrames /\ TxFrames \in Seq([Words -> Nums]) /\ Len(TxFrames) = 0
    BY <1>1, <1>2, <2>1, TxFramesType, TxQueueIs DEF IInv
  <2> QED
    BY <2>2
<1>4. RxQueue = <<>>
  <2>1. RxFilled = 0 /\ RxCopied = 0
    BY <1>1 DEF RxFilled, RxCopied
  <2>2. RxLength = 0
    BY <1>1, <2>1 DEF RxLength
  <2>3. RxQueue = RxFrames /\ RxFrames \in Seq([Words -> Nums]) /\ Len(RxFrames) = 0
    BY <1>2, <2>2, RxQueueIs
  <2> QED
    BY <2>3
<1> QED
  BY <1>1, <1>3, <1>4 DEF Link!LinkInit

\* Towards the wire nothing is lost but by a transmit error and nothing overtakes,
\* and a frame once accepted from the wire reaches the host, in order and once,
\* whatever the sizes of the rings, of the FIFOs and of the frames.
THEOREM BridgeImplementsLink == Spec => LinkSpec
<1>1. IInv /\ Contents /\ IInv' /\ Contents' /\ [Next]_vars => [Link!LinkNext]_(Link!linkVars)
  BY LinkStep
<1> QED
  BY <1>1, LinkStart, InductiveInvariant, ContentsInvariant, PTL DEF Spec, LinkSpec, Link!LinkSpec
=============================================================================
