----------------------------- MODULE TxPathProofs -----------------------------
(***************************************************************************)
(* Proofs about the transmit path.  USBInToFifo (UsbInFifo): for frames of  *)
(* any length, FIFOs of any depth, and any number of frames the FSM stays   *)
(* in step with the stream, and InjectData gets every frame whole and in    *)
(* order.  The driver (DriverTx): with callbacks at any moment tx_queue_cnt *)
(* is off by no more than the stores that raced, which bounds what is under *)
(* way, and a stopped queue without its callback to come means such a race, *)
(* for every TX_QUEUE_LIMIT.  TxPath drives the FIFOs and the driver as     *)
(* InSpec and DtSpec allow.                                                 *)
(***************************************************************************)
EXTENDS TxPath, TLAPS

(***************************************************************************)
(* The words of the frames in the order they are sent: word 0 of a frame is *)
(* its header.                                                              *)
(***************************************************************************)
Places == Nat \X Nat

TheWord(p) == IF p[2] = 0 THEN {<<p[1], 0>>} ELSE WordOf(p[1], p[2])

NextPlace(p) == IF p[2] = WordCount(sentLens[p[1]]) THEN <<p[1] + 1, 0>>
                ELSE <<p[1], p[2] + 1>>

\* What InjectData takes next, and what the FSM writes next.
ReadPlace == IF rdState = "IDLE" THEN <<Len(rdFrame) + 1, 0>>
             ELSE <<Len(rdFrame), Len(Newest.words) + 1>>

WritePlace == IF StreamEmpty THEN <<Current + 1, 0>>
              ELSE IF inState = "GET_DATA" THEN <<Current, (counterr \div WordBytes) + 1>>
              ELSE <<Current, 0>>

\* The data FIFO holds the words between the two, none missing and none twice.
Between(places) ==
  /\ Len(places) = Len(inData) + 1
  /\ places[1] = ReadPlace /\ places[Len(inData) + 1] = WritePlace
  /\ \A i \in 1 .. Len(inData) :
       /\ places[i][1] \in 1 .. Current
       /\ inData[i] = TheWord(places[i])
       /\ places[i + 1] = NextPlace(places[i])

InOrder == \E places \in Seq(Places) : Between(places)

(***************************************************************************)
(* The inductive invariant.                                                 *)
(***************************************************************************)
InTypes ==
  /\ inState \in {"IDLE", "GET_COUNT_0", "GET_COUNT_1", "GET_DATA"}
  /\ txPktLen \in Nat /\ counterr \in Nat /\ pos \in Nat
  /\ sentLens \in Seq(Lens)
  /\ inData \in Seq(SUBSET Places) /\ inSize \in Seq(Nat)
  /\ rdState \in {"IDLE", "WORDS"}
  /\ rdFrame \in Seq([size : Nat, header : SUBSET Places, words : Seq(SUBSET Places)])

\* Frames whose last word is written.
Complete == IF StreamEmpty THEN Current ELSE Current - 1

\* The size FIFO holds the lengths of the complete frames that InjectData has not
\* begun to take.
Sizes ==
  /\ Len(rdFrame) + Len(inSize) = Complete
  /\ \A j \in 1 .. Len(inSize) : inSize[j] = sentLens[Len(rdFrame) + j]

\* The word being put together.
Packing ==
  /\ Current = 0 => pos = 0
  /\ Current > 0 => pos <= CurLen + 2
  /\ inState \in {"GET_COUNT_0", "GET_COUNT_1"} => counterr = 0 /\ payload = {}
  /\ inState = "GET_COUNT_1" => Current > 0 /\ txPktLen = (CurLen \div Radix) * Radix
  /\ inState = "GET_DATA" =>
       /\ Current > 0 /\ counterr < CurLen
       /\ payload = {<<Current, i>> : i \in {j \in 1 .. counterr : WordCount(j) = WordCount(counterr + 1)}}

\* InjectData knows when a frame ends.
Taking ==
  rdState = "WORDS" =>
    /\ rdFrame # <<>>
    /\ Len(Newest.words) < WordCount(sentLens[Len(rdFrame)])

InIInv == InTypes /\ InStep /\ Sizes /\ Packing /\ Taking /\ FramesIntact /\ InOrder

(***************************************************************************)
(* Arithmetic of words and bytes.                                           *)
(***************************************************************************)
LEMMA WordCountBounds ==
  \A n \in Nat : /\ WordCount(n) \in Nat
                 /\ 4 * WordCount(n) >= n /\ 4 * WordCount(n) < n + 4
  BY DEF WordCount, WordBytes

\* Byte n + 1 of a frame goes into word n \div 4 + 1, and fills it when n + 1 is
\* a multiple of four.
LEMMA WordOfByte ==
  \A n \in Nat : /\ n \div WordBytes \in Nat /\ WordCount(n + 1) = (n \div WordBytes) + 1
                 /\ (n + 1) % WordBytes = 0 <=> n + 1 = 4 * WordCount(n + 1)
                 /\ (n + 1) % WordBytes = 0 => WordCount(n + 2) = WordCount(n + 1) + 1
                 /\ (n + 1) % WordBytes # 0 => WordCount(n + 2) = WordCount(n + 1)
  BY DEF WordCount, WordBytes

LEMMA ModSmall == \A a, b \in Nat : a < b => a % b = a
  OBVIOUS

LEMMA HighAndLow ==
  \A n \in Nat, r \in Nat \ {0} : n = (n \div r) * r + (n % r)
  BY Z3

LEMMA HighType == \A n \in Nat, r \in Nat \ {0} : (n \div r) * r \in Nat
<1>1. \A n \in Nat, r \in Nat \ {0} : n \div r \in Nat
  OBVIOUS
<1>2. \A m, r \in Nat : m * r \in Nat
  OBVIOUS
<1> QED
  BY <1>1, <1>2

USE InLensAssumption, InDepthAssumption

LEMMA LensType == \A n \in Lens : n \in Nat /\ n >= 1 /\ n < CounterRange /\ WordCount(n) >= 1
  BY WordCountBounds

\* The lengths of the frames sent so far.
LEMMA CurType ==
  ASSUME InTypes
  PROVE  /\ Current \in Nat /\ \A k \in 1 .. Current : sentLens[k] \in Lens
         /\ Current > 0 => CurLen \in Lens
  BY DEF InTypes, Current, CurLen

(***************************************************************************)
(* The data FIFO.                                                           *)
(***************************************************************************)
LEMMA PlaceTypes ==
  ASSUME InTypes, Taking
  PROVE  ReadPlace \in Places /\ WritePlace \in Places
<1>1. rdState # "IDLE" => rdFrame # <<>>
  BY DEF Taking, InTypes
<1>2. Len(rdFrame) \in Nat /\ (rdState # "IDLE" => Len(Newest.words) \in Nat)
  BY <1>1 DEF InTypes, Newest
<1>3. ReadPlace \in Places
  BY <1>2 DEF ReadPlace, Places
<1>4. WritePlace \in Places
  <2>1. Current \in Nat /\ (counterr \div WordBytes) \in Nat
    BY CurType, WordOfByte DEF InTypes
  <2> QED
    BY <2>1 DEF WritePlace, Places
<1> QED
  BY <1>3, <1>4

\* A frame sent keeps its words when another follows it.
Prolongs == Current' \in Nat /\ Current' >= Current /\ \A k \in 1 .. Current : sentLens'[k] = sentLens[k]

LEMMA WordsKept ==
  ASSUME InTypes, Prolongs, NEW p \in Places, p[1] \in 1 .. Current
  PROVE  TheWord(p)' = TheWord(p) /\ NextPlace(p)' = NextPlace(p) /\ p[1] \in 1 .. Current'
<1>1. sentLens'[p[1]] = sentLens[p[1]] /\ p[1] \in 1 .. Current'
  BY CurType DEF Prolongs
<1> QED
  BY <1>1 DEF TheWord, NextPlace, WordOf

\* Nothing is taken or written.
LEMMA OrderKept ==
  ASSUME InTypes, Prolongs, InOrder,
         inData' = inData, ReadPlace' = ReadPlace, WritePlace' = WritePlace
  PROVE  InOrder'
<1>1. PICK places \in Seq(Places) : Between(places)
  BY DEF InOrder
<1>2. inData \in Seq(SUBSET Places) /\ Len(inData) \in Nat
  BY DEF InTypes
<1>3. \A i \in 1 .. Len(inData) : places[i] \in Places
  BY <1>1, <1>2 DEF Between
<1>4. Between(places)'
  BY <1>1, <1>2, <1>3, WordsKept DEF Between
<1> QED
  BY <1>1, <1>4 DEF InOrder

\* What InjectData takes is the word that is due, and the next one is due after it.
LEMMA OrderTaken ==
  ASSUME InTypes, Prolongs, InOrder, inData # <<>>
  PROVE  /\ ReadPlace[1] \in 1 .. Current /\ Head(inData) = TheWord(ReadPlace)
         /\ inData' = Tail(inData) /\ ReadPlace' = NextPlace(ReadPlace) /\ WritePlace' = WritePlace
              => InOrder'
<1>1. PICK places \in Seq(Places) : Between(places)
  BY DEF InOrder
<1>2. inData \in Seq(SUBSET Places) /\ Len(inData) \in Nat /\ Len(inData) >= 1
  BY DEF InTypes
<1>3. ReadPlace[1] \in 1 .. Current /\ Head(inData) = TheWord(ReadPlace)
  BY <1>1, <1>2 DEF Between
<1>4. ASSUME inData' = Tail(inData), ReadPlace' = NextPlace(ReadPlace), WritePlace' = WritePlace
      PROVE  InOrder'
  <2> DEFINE rest == Tail(places)
  <2>1. /\ rest \in Seq(Places) /\ Len(rest) = Len(inData)
        /\ \A i \in 1 .. Len(inData) : rest[i] = places[i + 1]
    BY <1>1, <1>2 DEF Between
  <2> HIDE DEF rest
  <2>2. /\ Len(inData') = Len(inData) - 1
        /\ \A i \in 1 .. Len(inData) - 1 : inData'[i] = inData[i + 1]
    BY <1>2, <1>4
  <2>3. rest[1] = ReadPlace' /\ rest[Len(inData)] = WritePlace'
    <3>1. 1 \in 1 .. Len(inData) /\ Len(inData) \in 1 .. Len(inData)
      BY <1>2
    <3>2. rest[1] = places[1 + 1] /\ rest[Len(inData)] = places[Len(inData) + 1]
      BY <2>1, <3>1
    <3>3. /\ places[1 + 1] = NextPlace(places[1]) /\ places[1] = ReadPlace
          /\ places[Len(inData) + 1] = WritePlace
      BY <1>1, <3>1 DEF Between
    <3> QED
      BY <1>4, <3>2, <3>3
  <2>4. ASSUME NEW i \in 1 .. Len(inData) - 1
        PROVE  /\ rest[i][1] \in 1 .. Current'
               /\ inData'[i] = TheWord(rest[i])'
               /\ rest[i + 1] = NextPlace(rest[i])'
    <3>1. i + 1 \in 1 .. Len(inData) /\ rest[i] = places[i + 1] /\ rest[i + 1] = places[i + 2]
      BY <1>2, <2>1
    <3>2. /\ places[i + 1][1] \in 1 .. Current /\ inData[i + 1] = TheWord(places[i + 1])
          /\ places[i + 2] = NextPlace(places[i + 1]) /\ places[i + 1] \in Places
      BY <1>1, <1>2, <3>1 DEF Between
    <3> QED
      BY <2>2, <3>1, <3>2, WordsKept
  <2>5. Between(rest)'
    BY <1>2, <2>1, <2>2, <2>3, <2>4 DEF Between
  <2> QED
    BY <2>1, <2>5 DEF InOrder
<1> QED
  BY <1>3, <1>4

\* The FSM writes the word that is due.
LEMMA OrderWritten ==
  ASSUME InTypes, Prolongs, InOrder, WritePlace \in Places, WritePlace[1] \in 1 .. Current,
         inData' = Append(inData, TheWord(WritePlace)), ReadPlace' = ReadPlace,
         WritePlace' = NextPlace(WritePlace), WritePlace' \in Places
  PROVE  InOrder'
<1>1. PICK places \in Seq(Places) : Between(places)
  BY DEF InOrder
<1> DEFINE n == Len(inData)
<1>0. PICK w \in Places, next \in Places : w = WritePlace /\ next = NextPlace(WritePlace)
  OBVIOUS
<1> DEFINE more == Append(places, next)
<1>2. inData \in Seq(SUBSET Places) /\ n \in Nat
  BY DEF InTypes
<1>3. /\ more \in Seq(Places) /\ Len(more) = n + 2 /\ more[n + 2] = next
      /\ \A i \in 1 .. n + 1 : more[i] = places[i]
  BY <1>1, <1>2, <1>0 DEF Between
<1> HIDE DEF more
<1>4. /\ Len(inData') = n + 1 /\ inData'[n + 1] = TheWord(w)
      /\ \A i \in 1 .. n : inData'[i] = inData[i]
  BY <1>2, <1>0
<1>5. ASSUME NEW i \in 1 .. n + 1
      PROVE  /\ more[i][1] \in 1 .. Current'
             /\ inData'[i] = TheWord(more[i])'
             /\ more[i + 1] = NextPlace(more[i])'
  <2>1. CASE i \in 1 .. n
    <3>1. /\ places[i][1] \in 1 .. Current /\ inData[i] = TheWord(places[i])
          /\ places[i + 1] = NextPlace(places[i]) /\ places[i] \in Places
      BY <1>1, <1>2, <2>1 DEF Between
    <3>2. more[i] = places[i] /\ more[i + 1] = places[i + 1]
      <4>1. i \in 1 .. n + 1 /\ i + 1 \in 1 .. n + 1
        BY <1>2, <2>1
      <4> QED
        BY <1>3, <4>1
    <3> QED
      BY <1>4, <2>1, <3>1, <3>2, WordsKept
  <2>2. CASE i = n + 1
    <3>1. more[i] = w
      BY <1>1, <1>0, <1>3, <2>2 DEF Between
    <3>2. more[i + 1] = NextPlace(w) /\ w[1] \in 1 .. Current
      BY <1>0, <1>2, <1>3, <2>2
    <3> QED
      BY <1>4, <2>2, <3>1, <3>2, WordsKept
  <2> QED
    BY <1>2, <2>1, <2>2
<1>6. more[1] = ReadPlace'
  BY <1>1, <1>2, <1>3 DEF Between
<1>7. Between(more)'
  BY <1>2, <1>3, <1>4, <1>5, <1>6, <1>0 DEF Between
<1> QED
  BY <1>3, <1>7 DEF InOrder

(***************************************************************************)
(* The steps.                                                               *)
(***************************************************************************)
\* What the FSM and the reader leave to a step of the other kind.
LEMMA KeptFrames ==
  ASSUME InTypes, FramesIntact, Prolongs, Len(rdFrame) <= Current, UNCHANGED rdVars
  PROVE  FramesIntact'
<1>1. rdFrame' = rdFrame /\ rdState' = rdState /\ DOMAIN rdFrame = 1 .. Len(rdFrame)
  BY DEF rdVars, InTypes
<1>2. \A k \in DOMAIN rdFrame : k \in 1 .. Current
  BY <1>1, CurType DEF InTypes
<1>3. \A k \in DOMAIN rdFrame : sentLens'[k] = sentLens[k]
  BY <1>2 DEF Prolongs
<1> QED
  BY <1>1, <1>3 DEF FramesIntact, WordOf

LEMMA Nothing ==
  ASSUME InTypes, UNCHANGED sentLens
  PROVE  Prolongs /\ Current' = Current /\ CurLen' = CurLen
  BY CurType DEF Prolongs, Current, CurLen

\* No more frames have been taken than are complete.
LEMMA TakenComplete ==
  ASSUME InTypes, Sizes, Packing
  PROVE  Len(rdFrame) <= Complete /\ Complete <= Current /\ Complete \in Nat
<1>1. Len(rdFrame) \in Nat /\ Len(inSize) \in Nat
  BY DEF InTypes
<1> QED
  BY <1>1, CurType DEF Sizes, Complete

LEMMA HostTransferKeeps == InIInv /\ HostTransfer => InIInv'
<1> SUFFICES ASSUME InIInv, HostTransfer PROVE InIInv'
  OBVIOUS
<1> USE DEF InIInv
<1>1. PICK n \in Lens : sentLens' = Append(sentLens, n)
  BY DEF HostTransfer
<1>2. /\ StreamEmpty /\ pos' = 0 /\ inData' = inData /\ inSize' = inSize
      /\ UNCHANGED <<inState, txPktLen, counterr, payload, rdState, rdFrame>>
  BY DEF HostTransfer, fsmVars, rdVars
<1>3. n \in Nat /\ n >= 1
  BY LensType
<1>4. /\ sentLens' \in Seq(Lens) /\ Current' = Current + 1 /\ CurLen' = n
      /\ \A k \in 1 .. Current : sentLens'[k] = sentLens[k]
  BY <1>1 DEF InTypes, Current, CurLen
<1>5. Prolongs
  BY <1>4, CurType DEF Prolongs
<1>6. ~StreamEmpty'
  BY <1>2, <1>3, <1>4, CurType DEF StreamEmpty
<1>7. inState \in {"IDLE", "GET_COUNT_0"}
  <2>1. Current > 0 => CurLen \in Nat
    BY CurType, LensType
  <2> QED
    BY <1>2, <2>1, CurType DEF StreamEmpty, InTypes, InStep, Packing
<1>8. InTypes'
  BY <1>2, <1>4 DEF InTypes
<1>9. InStep'
  BY <1>2, <1>7 DEF InStep, Ready, WRdy, CountWRdy
<1>10. Complete' = Complete
  BY <1>2, <1>4, <1>6, CurType DEF Complete
<1>11. Sizes'
  <2>1. \A j \in 1 .. Len(inSize) : Len(rdFrame) + j \in 1 .. Current
    BY TakenComplete, CurType DEF Sizes, InTypes
  <2> QED
    BY <1>2, <1>4, <1>10, <2>1 DEF Sizes
<1>12. Packing'
  BY <1>2, <1>3, <1>4, <1>7, CurType DEF Packing
<1>13. rdState = "WORDS" => Len(rdFrame) \in 1 .. Current
  BY TakenComplete, CurType DEF Taking, InTypes
<1>14. Taking'
  BY <1>2, <1>4, <1>13 DEF Taking, Newest
<1>15. FramesIntact'
  BY <1>2, <1>5, TakenComplete, CurType, KeptFrames DEF rdVars, InTypes
<1>16. InOrder'
  <2>1. ReadPlace' = ReadPlace
    BY <1>2 DEF ReadPlace, Newest
  <2>2. WritePlace' = WritePlace
    BY <1>2, <1>4, <1>6, <1>7 DEF WritePlace
  <2> QED
    BY <1>2, <1>5, <2>1, <2>2, OrderKept
<1> QED
  BY <1>8, <1>9, <1>11, <1>12, <1>14, <1>15, <1>16

LEMMA LeaveIdleKeeps == InIInv /\ LeaveIdle => InIInv'
<1> SUFFICES ASSUME InIInv, LeaveIdle PROVE InIInv'
  OBVIOUS
<1> USE DEF InIInv
<1>1. /\ UNCHANGED <<txPktLen, inData, inSize, sentLens, pos, rdState, rdFrame>>
      /\ inState = "IDLE" /\ inState' = "GET_COUNT_0" /\ counterr' = 0 /\ payload' = {} /\ Ready
  BY DEF LeaveIdle, usbVars, rdVars, Ready
<1>2. Prolongs /\ Current' = Current /\ CurLen' = CurLen
  BY <1>1, Nothing
<1>3. StreamEmpty' = StreamEmpty
  BY <1>1, <1>2 DEF StreamEmpty
<1>4. InTypes' /\ InStep'
  BY <1>1, <1>2, <1>3 DEF InTypes, InStep, Ready, WRdy, CountWRdy
<1>5. Sizes'
  BY <1>1, <1>2, <1>3 DEF Sizes, Complete
<1>6. Packing' /\ Taking'
  BY <1>1, <1>2 DEF Packing, Taking, Newest
<1>7. FramesIntact'
  BY <1>1, <1>2, TakenComplete, CurType, KeptFrames DEF rdVars, InTypes
<1>8. InOrder'
  <2>1. ReadPlace' = ReadPlace
    BY <1>1 DEF ReadPlace, Newest
  <2>2. WritePlace' = WritePlace
    BY <1>1, <1>2, <1>3 DEF WritePlace
  <2> QED
    BY <1>1, <1>2, <2>1, <2>2, OrderKept
<1> QED
  BY <1>4, <1>5, <1>6, <1>7, <1>8

\* A transfer that is not over.
LEMMA Streaming ==
  ASSUME InTypes, Packing, ~StreamEmpty
  PROVE  /\ Current > 0 /\ Current \in Nat /\ CurLen \in Lens /\ CurLen \in Nat /\ CurLen >= 1
         /\ pos < CurLen + 2 /\ Complete = Current - 1
<1>1. Current # 0 /\ pos # CurLen + 2
  BY DEF StreamEmpty, Packing
<1>2. Current > 0 /\ Current \in Nat /\ CurLen \in Lens
  BY <1>1, CurType
<1>3. CurLen \in Nat /\ CurLen >= 1
  BY <1>2, LensType
<1>4. pos < CurLen + 2
  BY <1>1, <1>2, <1>3 DEF Packing, InTypes
<1> QED
  BY <1>2, <1>3, <1>4 DEF Complete

LEMMA GetCount0Keeps == InIInv /\ GetCount0 => InIInv'
<1> SUFFICES ASSUME InIInv, GetCount0 PROVE InIInv'
  OBVIOUS
<1> USE DEF InIInv
<1>1. /\ UNCHANGED <<counterr, payload, inData, inSize, sentLens, rdState, rdFrame>>
      /\ inState = "GET_COUNT_0" /\ inState' = "GET_COUNT_1" /\ ~StreamEmpty
  BY DEF GetCount0, StreamStep, rdVars
<1>2. pos = 0 /\ pos' = 1 /\ Ready
  BY <1>1 DEF GetCount0, StreamStep, InStep
<1>3. txPktLen' = (CurLen \div Radix) * Radix
  BY <1>2 DEF GetCount0
<1>4. Prolongs /\ Current' = Current /\ CurLen' = CurLen
  BY <1>1, Nothing
<1>5. ~StreamEmpty'
  BY <1>1, <1>2, <1>4, Streaming DEF StreamEmpty
<1>6. txPktLen' \in Nat
  BY <1>1, <1>3, Streaming, HighType
<1>7. InTypes' /\ InStep'
  BY <1>1, <1>2, <1>6 DEF InTypes, InStep, Ready, WRdy, CountWRdy
<1>8. Sizes'
  BY <1>1, <1>4, <1>5 DEF Sizes, Complete
<1>9. Packing' /\ Taking'
  BY <1>1, <1>2, <1>3, <1>4, Streaming DEF Packing, Taking, Newest
<1>10. FramesIntact'
  BY <1>1, <1>4, TakenComplete, CurType, KeptFrames DEF rdVars, InTypes
<1>11. InOrder'
  <2>1. ReadPlace' = ReadPlace
    BY <1>1 DEF ReadPlace, Newest
  <2>2. WritePlace' = WritePlace
    BY <1>1, <1>4, <1>5 DEF WritePlace
  <2> QED
    BY <1>1, <1>4, <2>1, <2>2, OrderKept
<1> QED
  BY <1>7, <1>8, <1>9, <1>10, <1>11

LEMMA GetCount1Keeps == InIInv /\ GetCount1 => InIInv'
<1> SUFFICES ASSUME InIInv, GetCount1 PROVE InIInv'
  OBVIOUS
<1> USE DEF InIInv
<1>1. /\ UNCHANGED <<counterr, payload, inSize, sentLens, rdState, rdFrame>>
      /\ inState = "GET_COUNT_1" /\ inState' = "GET_DATA" /\ ~StreamEmpty
      /\ inData' = Append(inData, {<<Current, 0>>})
  BY DEF GetCount1, StreamStep, rdVars
<1>2. pos = 1 /\ pos' = 2
  BY <1>1 DEF GetCount1, StreamStep, InStep
<1>3. txPktLen' = CurLen
  <2>1. txPktLen = (CurLen \div Radix) * Radix
    BY <1>1 DEF Packing
  <2>2. pos # 0
    BY <1>2
  <2>3. txPktLen' = txPktLen + (CurLen % Radix)
    BY <2>2, Zenon DEF GetCount1
  <2>4. CurLen \in Nat /\ Radix \in Nat \ {0}
    BY <1>1, Streaming
  <2>5. CurLen = (CurLen \div Radix) * Radix + (CurLen % Radix)
    BY <2>4, HighAndLow
  <2> QED
    BY <2>1, <2>3, <2>5, Zenon
<1>4. Prolongs /\ Current' = Current /\ CurLen' = CurLen
  BY <1>1, Nothing
<1>5. ~StreamEmpty'
  BY <1>1, <1>2, <1>4, Streaming DEF StreamEmpty
<1>6. counterr = 0 /\ payload = {}
  BY <1>1 DEF Packing
<1>7. InTypes'
  <2>1. {<<Current, 0>>} \in SUBSET Places
    BY <1>1, Streaming DEF Places
  <2>2. inData' \in Seq(SUBSET Places)
    BY <1>1, <2>1 DEF InTypes
  <2> QED
    BY <1>1, <1>2, <1>3, <2>2, Streaming DEF InTypes
<1>8. InStep'
  BY <1>1, <1>2, <1>3, <1>4, <1>6 DEF InStep
<1>9. Sizes'
  BY <1>1, <1>4, <1>5 DEF Sizes, Complete
<1>10. Packing'
  BY <1>1, <1>2, <1>4, <1>6, Streaming DEF Packing
<1>11. Taking'
  BY <1>1 DEF Taking, Newest
<1>12. FramesIntact'
  BY <1>1, <1>4, TakenComplete, CurType, KeptFrames DEF rdVars, InTypes
<1>13. InOrder'
  <2>1. ReadPlace' = ReadPlace
    BY <1>1 DEF ReadPlace, Newest
  <2>2. WritePlace = <<Current, 0>> /\ TheWord(WritePlace) = {<<Current, 0>>}
    BY <1>1 DEF WritePlace, TheWord
  <2>3. WritePlace' = <<Current, 1>>
    BY <1>1, <1>4, <1>5, <1>6 DEF WritePlace, WordBytes
  <2>4. NextPlace(WritePlace) = <<Current, 1>>
    BY <1>1, <2>2, Streaming, LensType DEF NextPlace, CurLen
  <2>5. WritePlace[1] \in 1 .. Current /\ WritePlace \in Places /\ WritePlace' \in Places
    BY <1>1, <2>2, <2>3, Streaming DEF Places
  <2> QED
    BY <1>1, <1>4, <2>1, <2>2, <2>3, <2>4, <2>5, OrderWritten
<1> QED
  BY <1>7, <1>8, <1>9, <1>10, <1>11, <1>12, <1>13

\* The bytes in hand with the next one are a word of the frame as soon as the
\* word, or the frame, is full.
LEMMA WordFull ==
  ASSUME InIInv, inState = "GET_DATA",
         (counterr + 1) % WordBytes = 0 \/ counterr + 1 = CurLen
  PROVE  payload \cup {<<Current, counterr + 1>>} = WordOf(Current, WordCount(counterr + 1))
<1> DEFINE c == counterr + 1
<1>1. /\ Current > 0 /\ counterr < CurLen /\ CurLen \in Nat /\ counterr \in Nat
      /\ payload = {<<Current, i>> : i \in {j \in 1 .. counterr : WordCount(j) = WordCount(c)}}
  BY CurType, LensType DEF InIInv, Packing, InTypes
<1>2. {j \in 1 .. CurLen : WordCount(j) = WordCount(c)}
        = {j \in 1 .. counterr : WordCount(j) = WordCount(c)} \cup {c}
  <2>1. ASSUME NEW j \in 1 .. CurLen, WordCount(j) = WordCount(c) PROVE j <= c
    <3>1. CASE c % WordBytes = 0
      <4>1. c = 4 * WordCount(c)
        BY <1>1, <3>1, WordOfByte
      <4>2. 4 * WordCount(j) >= j /\ WordCount(j) \in Nat
        BY <1>1, WordCountBounds
      <4> QED
        BY <1>1, <2>1, <4>1, <4>2
    <3>2. CASE c = CurLen
      BY <1>1, <3>2
    <3> QED
      BY <3>1, <3>2
  <2> QED
    BY <1>1, <2>1
<1>3. WordOf(Current, WordCount(c)) = {<<Current, i>> : i \in {j \in 1 .. CurLen : WordCount(j) = WordCount(c)}}
  BY DEF WordOf, CurLen
<1> QED
  BY <1>1, <1>2, <1>3

\* What a data byte does.
LEMMA GetDataWhat ==
  ASSUME InIInv, GetData
  PROVE  /\ UNCHANGED <<txPktLen, sentLens, rdState, rdFrame>>
         /\ inState = "GET_DATA" /\ ~StreamEmpty /\ txPktLen = CurLen
         /\ pos = counterr + 2 /\ pos' = counterr + 3 /\ counterr' = counterr + 1
         /\ counterr \in Nat /\ counterr < CurLen /\ counterr + 1 <= CurLen
         /\ LET word == payload \cup {<<Current, counterr + 1>>}
                full == (counterr + 1) % WordBytes = 0
            IN IF counterr + 1 = CurLen
               THEN /\ inData' = Append(inData, word)
                    /\ inSize' = Append(inSize, counterr + 1)
                    /\ inState' = "IDLE" /\ payload' = word
               ELSE /\ inData' = IF full THEN Append(inData, word) ELSE inData
                    /\ payload' = IF full THEN {} ELSE word
                    /\ UNCHANGED <<inState, inSize>>
<1>1. /\ UNCHANGED <<txPktLen, sentLens, rdState, rdFrame>>
      /\ inState = "GET_DATA" /\ ~StreamEmpty
  BY DEF GetData, StreamStep, rdVars
<1>2. pos = counterr + 2 /\ txPktLen = CurLen
  BY <1>1 DEF InIInv, InStep
<1>3. counterr \in Nat /\ counterr < CurLen /\ CurLen \in Nat /\ CurLen < CounterRange
  BY <1>1, Streaming, LensType DEF InIInv, InTypes, Packing
<1>4. (counterr + 1) % CounterRange = counterr + 1
  BY <1>3, ModSmall
<1>5. pos' = pos + 1
  BY DEF GetData, StreamStep
<1>6. pos - 1 = counterr + 1 /\ pos' = counterr + 3
  BY <1>2, <1>3, <1>5
<1>7. (UsbLast \/ counterr + 1 = txPktLen) <=> counterr + 1 = CurLen
  BY <1>2, <1>3 DEF UsbLast
<1>8. /\ counterr' = counterr + 1
      /\ LET word == payload \cup {<<Current, counterr + 1>>}
             full == (counterr + 1) % WordBytes = 0
         IN IF counterr + 1 = CurLen
            THEN /\ inData' = Append(inData, word)
                 /\ inSize' = Append(inSize, counterr + 1)
                 /\ inState' = "IDLE" /\ payload' = word
            ELSE /\ inData' = IF full THEN Append(inData, word) ELSE inData
                 /\ payload' = IF full THEN {} ELSE word
                 /\ UNCHANGED <<inState, inSize>>
  BY <1>4, <1>6, <1>7, Zenon DEF GetData
<1> QED
  BY <1>1, <1>2, <1>3, <1>6, <1>8

LEMMA GetDataKeeps == InIInv /\ GetData => InIInv'
<1> SUFFICES ASSUME InIInv, GetData PROVE InIInv'
  OBVIOUS
<1> DEFINE c == counterr + 1
<1> DEFINE w == WordCount(c)
<1> DEFINE word == payload \cup {<<Current, c>>}
<1> USE DEF InIInv
<1>1. /\ UNCHANGED <<txPktLen, sentLens, rdState, rdFrame>>
      /\ inState = "GET_DATA" /\ ~StreamEmpty /\ txPktLen = CurLen
      /\ pos = counterr + 2 /\ pos' = counterr + 3 /\ counterr' = c
      /\ counterr \in Nat /\ counterr < CurLen /\ c <= CurLen
  BY GetDataWhat
<1>2. Current > 0 /\ Current \in Nat /\ CurLen \in Lens /\ CurLen \in Nat /\ Complete = Current - 1
  BY <1>1, Streaming
<1>3. Prolongs /\ Current' = Current /\ CurLen' = CurLen
  BY <1>1, Nothing
<1>4. w \in Nat /\ w >= 1 /\ w = (counterr \div WordBytes) + 1
  BY <1>1, WordOfByte
<1>5. word \in SUBSET Places
  <2>1. \A i \in Nat : <<Current, i>> \in Places
    BY <1>2 DEF Places
  <2>2. payload \in SUBSET Places
    BY <1>1, <2>1 DEF Packing
  <2> QED
    BY <1>1, <2>1, <2>2
<1>6. StreamEmpty' <=> c = CurLen
  BY <1>1, <1>2, <1>3 DEF StreamEmpty
<1>7. Taking' /\ ReadPlace' = ReadPlace
  BY <1>1 DEF Taking, ReadPlace, Newest
<1>8. FramesIntact'
  BY <1>1, <1>2, <1>3, TakenComplete, KeptFrames DEF rdVars, InTypes
<1>9. WritePlace = <<Current, w>> /\ TheWord(WritePlace) = WordOf(Current, w)
  BY <1>1, <1>4 DEF WritePlace, TheWord
<1>10. WritePlace \in Places /\ WritePlace[1] \in 1 .. Current
  BY <1>2, <1>4, <1>9 DEF Places
<1>11. CASE c = CurLen
  <2>1. /\ inData' = Append(inData, word) /\ inSize' = Append(inSize, c)
        /\ inState' = "IDLE" /\ payload' = word
    BY <1>11, GetDataWhat
  <2>2. InTypes'
    BY <1>1, <1>5, <2>1 DEF InTypes
  <2>3. InStep'
    BY <1>6, <1>11, <2>1 DEF InStep
  <2>4. Complete' = Complete + 1
    BY <1>2, <1>3, <1>6, <1>11 DEF Complete
  <2>5. Sizes'
    <3>1. Len(rdFrame) \in Nat /\ inSize \in Seq(Nat) /\ Len(inSize) \in Nat
      BY DEF InTypes
    <3>2. Len(inSize') = Len(inSize) + 1 /\ inSize'[Len(inSize) + 1] = CurLen
      BY <1>11, <2>1, <3>1
    <3>3. \A j \in 1 .. Len(inSize) : inSize'[j] = inSize[j]
      BY <2>1, <3>1
    <3>4. Len(rdFrame) + Len(inSize) + 1 = Current
      BY <1>2, <3>1 DEF Sizes
    <3>5. ASSUME NEW j \in 1 .. Len(inSize') PROVE inSize'[j] = sentLens[Len(rdFrame) + j]
      <4>1. CASE j \in 1 .. Len(inSize)
        BY <3>3, <4>1 DEF Sizes
      <4>2. CASE j = Len(inSize) + 1
        <5>1. Len(rdFrame) + j = Current
          BY <3>1, <3>4, <4>2
        <5> QED
          BY <3>2, <4>2, <5>1 DEF CurLen
      <4> QED
        BY <3>1, <3>2, <4>1, <4>2
    <3> QED
      BY <1>1, <2>4, <3>1, <3>2, <3>5 DEF Sizes
  <2>6. Packing'
    BY <1>1, <1>2, <1>3, <1>11, <2>1 DEF Packing
  <2>7. InOrder'
    <3>1. word = TheWord(WritePlace)
      BY <1>1, <1>9, <1>11, WordFull
    <3>2. WritePlace' = <<Current + 1, 0>>
      BY <1>3, <1>6, <1>11 DEF WritePlace
    <3>3. NextPlace(WritePlace) = <<Current + 1, 0>>
      BY <1>9, <1>11 DEF NextPlace, CurLen
    <3>4. WritePlace' \in Places
      BY <1>2, <3>2 DEF Places
    <3> QED
      BY <1>3, <1>7, <1>10, <2>1, <3>1, <3>2, <3>3, <3>4, OrderWritten
  <2> QED
    BY <1>7, <1>8, <2>2, <2>3, <2>5, <2>6, <2>7
<1>12. CASE c # CurLen
  <2>1. /\ inData' = IF c % WordBytes = 0 THEN Append(inData, word) ELSE inData
        /\ payload' = IF c % WordBytes = 0 THEN {} ELSE word
        /\ UNCHANGED <<inState, inSize>>
    BY <1>12, GetDataWhat
  <2>2. InTypes'
    BY <1>1, <1>5, <2>1 DEF InTypes
  <2>3. InStep'
    BY <1>1, <1>3, <2>1 DEF InStep
  <2>4. Sizes'
    BY <1>1, <1>2, <1>3, <1>6, <1>12, <2>1 DEF Sizes, Complete
  <2>5. WritePlace' = <<Current, WordCount(c + 1)>>
    <3>1. c \in Nat /\ WordCount(c + 1) = (c \div WordBytes) + 1
      BY <1>1, WordOfByte
    <3> QED
      BY <1>1, <1>3, <1>6, <1>12, <2>1, <3>1 DEF WritePlace
  <2>6. \A j \in 1 .. counterr : WordCount(j) \in Nat /\ 4 * WordCount(j) < j + 4
    BY <1>1, WordCountBounds
  <2>7. CASE c % WordBytes = 0
    <3>1. c = 4 * w /\ WordCount(c + 1) = w + 1
      BY <1>1, <2>7, WordOfByte
    <3>2. {j \in 1 .. c : WordCount(j) = w + 1} = {}
      BY <1>1, <1>4, <2>6, <3>1
    <3>3. payload' = {<<Current, i>> : i \in {j \in 1 .. c : WordCount(j) = WordCount(c + 1)}}
      BY <2>1, <2>7, <3>1, <3>2
    <3>4. Packing'
      BY <1>1, <1>2, <1>3, <1>12, <2>1, <3>3 DEF Packing
    <3>5. word = TheWord(WritePlace)
      BY <1>1, <1>9, <2>7, WordFull
    <3>6. w # WordCount(CurLen)
      BY <1>1, <1>2, <1>4, <1>12, <3>1, WordCountBounds
    <3>7. NextPlace(WritePlace) = <<Current, w + 1>>
      BY <1>9, <3>6 DEF NextPlace, CurLen
    <3>8. WritePlace' \in Places
      BY <1>2, <1>4, <2>5, <3>1 DEF Places
    <3>9. InOrder'
      BY <1>3, <1>7, <1>10, <2>1, <2>5, <2>7, <3>1, <3>5, <3>7, <3>8, OrderWritten
    <3> QED
      BY <1>7, <1>8, <2>2, <2>3, <2>4, <3>4, <3>9
  <2>8. CASE c % WordBytes # 0
    <3>1. WordCount(c + 1) = w
      BY <1>1, <2>8, WordOfByte
    <3>2. {j \in 1 .. c : WordCount(j) = w} = {j \in 1 .. counterr : WordCount(j) = w} \cup {c}
      BY <1>1
    <3>3. payload' = {<<Current, i>> : i \in {j \in 1 .. c : WordCount(j) = WordCount(c + 1)}}
      <4>1. payload = {<<Current, i>> : i \in {j \in 1 .. counterr : WordCount(j) = w}}
        BY <1>1 DEF Packing
      <4> QED
        BY <2>1, <2>8, <3>1, <3>2, <4>1
    <3>4. Packing'
      BY <1>1, <1>2, <1>3, <1>12, <2>1, <3>3 DEF Packing
    <3>5. InOrder'
      BY <1>3, <1>7, <1>9, <2>1, <2>5, <2>8, <3>1, OrderKept
    <3> QED
      BY <1>7, <1>8, <2>2, <2>3, <2>4, <3>4, <3>5
  <2> QED
    BY <2>7, <2>8
<1> QED
  BY <1>11, <1>12

Record == [size : Nat, header : SUBSET Places, words : Seq(SUBSET Places)]

\* What the FSM has is left alone by the reader.
LEMMA FsmKept ==
  ASSUME InTypes, InStep, Packing, Len(inData) \in Nat, Len(inSize) \in Nat,
         UNCHANGED <<fsmVars, usbVars>>,
         Len(inData') \in Nat, Len(inData') <= Len(inData),
         Len(inSize') \in Nat, Len(inSize') <= Len(inSize)
  PROVE  /\ InStep' /\ Packing' /\ WritePlace' = WritePlace /\ StreamEmpty' = StreamEmpty
         /\ Prolongs /\ Current' = Current /\ CurLen' = CurLen /\ Complete' = Complete
<1>1. UNCHANGED <<inState, txPktLen, counterr, payload, sentLens, pos>>
  BY DEF fsmVars, usbVars
<1>2. Prolongs /\ Current' = Current /\ CurLen' = CurLen
  BY <1>1, Nothing
<1>3. StreamEmpty' = StreamEmpty
  BY <1>1, <1>2 DEF StreamEmpty
<1>4. WritePlace' = WritePlace /\ Complete' = Complete
  BY <1>1, <1>2, <1>3 DEF WritePlace, Complete
<1>5. Ready => Ready'
  BY DEF Ready, WRdy, CountWRdy
<1>6. InStep'
  BY <1>1, <1>2, <1>3, <1>5 DEF InStep
<1>7. Packing'
  BY <1>1, <1>2 DEF Packing
<1> QED
  BY <1>2, <1>3, <1>4, <1>6, <1>7

LEMMA TakeHeaderKeeps == InIInv /\ TakeHeader => InIInv'
<1> SUFFICES ASSUME InIInv, TakeHeader PROVE InIInv'
  OBVIOUS
<1> USE DEF InIInv
<1> DEFINE n == Len(rdFrame)
<1>1. /\ rdState = "IDLE" /\ rdState' = "WORDS" /\ inData # <<>> /\ inSize # <<>>
      /\ rdFrame' = Append(rdFrame, [size |-> Head(inSize), header |-> Head(inData), words |-> <<>>])
      /\ inData' = Tail(inData) /\ inSize' = Tail(inSize)
      /\ UNCHANGED <<fsmVars, usbVars>>
  BY DEF TakeHeader
<1>2. /\ inData \in Seq(SUBSET Places) /\ inSize \in Seq(Nat) /\ rdFrame \in Seq(Record)
      /\ n \in Nat /\ Len(inData) \in Nat /\ Len(inSize) \in Nat /\ Len(inSize) >= 1
  <2>1. inData \in Seq(SUBSET Places) /\ inSize \in Seq(Nat) /\ rdFrame \in Seq(Record)
    BY DEF InTypes, Record
  <2>2. n \in Nat /\ Len(inData) \in Nat /\ Len(inSize) \in Nat
    BY <2>1
  <2>3. Len(inSize) # 0
    BY <1>1, <2>1
  <2> QED
    BY <2>1, <2>2, <2>3
<1>3. /\ inData' \in Seq(SUBSET Places) /\ inSize' \in Seq(Nat)
      /\ Len(inData') = Len(inData) - 1 /\ Len(inSize') = Len(inSize) - 1
      /\ \A j \in 1 .. Len(inSize) - 1 : inSize'[j] = inSize[j + 1]
      /\ Head(inSize) = inSize[1] /\ Head(inSize) \in Nat /\ Head(inData) \in SUBSET Places
  BY <1>1, <1>2
<1>4. /\ InStep' /\ Packing' /\ WritePlace' = WritePlace
      /\ Prolongs /\ Current' = Current /\ Complete' = Complete
  BY <1>1, <1>2, <1>3, FsmKept
<1>5. UNCHANGED <<inState, txPktLen, counterr, payload, sentLens, pos>>
  BY <1>1 DEF fsmVars, usbVars
<1>6. [size |-> Head(inSize), header |-> Head(inData), words |-> <<>>] \in Record
  BY <1>3 DEF Record
<1>7. /\ rdFrame' \in Seq(Record) /\ Len(rdFrame') = n + 1
      /\ rdFrame'[n + 1] = [size |-> Head(inSize), header |-> Head(inData), words |-> <<>>]
      /\ \A k \in 1 .. n : rdFrame'[k] = rdFrame[k]
  BY <1>1, <1>2, <1>6
<1>8. InTypes'
  BY <1>1, <1>3, <1>5, <1>7 DEF InTypes, Record
<1>9. Head(inSize) = sentLens[n + 1]
  BY <1>2, <1>3 DEF Sizes
<1>10. n + 1 \in 1 .. Current
  BY <1>2, TakenComplete, CurType DEF Sizes
<1>11. Sizes'
  <2>1. \A j \in 1 .. Len(inSize) - 1 : inSize'[j] = sentLens[n + 1 + j]
    BY SMTT(30), <1>2, <1>3 DEF Sizes
  <2> QED
    BY <1>2, <1>3, <1>4, <1>5, <1>7, <2>1 DEF Sizes
<1>12. Newest' = rdFrame'[n + 1]
  BY <1>7 DEF Newest
<1>13. Taking'
  <2>1. WordCount(sentLens[n + 1]) >= 1
    BY <1>10, CurType, LensType
  <2>2. Newest'.words = <<>> /\ rdFrame' # <<>>
    BY <1>2, <1>7, <1>12
  <2>3. Len(Newest'.words) = 0
    BY <2>2
  <2>4. WordCount(sentLens'[Len(rdFrame')]) >= 1
    BY <1>5, <1>7, <2>1 DEF WordCount
  <2>5. Len(Newest'.words) < WordCount(sentLens'[Len(rdFrame')])
    <3>1. PICK len \in Nat : len = sentLens'[Len(rdFrame')]
      BY <1>5, <1>7, <1>10, CurType, LensType
    <3>2. WordCount(len) \in Nat /\ WordCount(len) >= 1
      BY <2>4, <3>1, WordCountBounds
    <3> QED
      BY <2>3, <3>1, <3>2
  <2> QED
    BY <2>2, <2>5 DEF Taking
<1>14. ReadPlace = <<n + 1, 0>> /\ Head(inData) = {<<n + 1, 0>>}
  <2>1. ReadPlace = <<n + 1, 0>>
    BY <1>1 DEF ReadPlace
  <2>2. Head(inData) = TheWord(ReadPlace)
    BY <1>1, <1>4, OrderTaken
  <2> QED
    BY <2>1, <2>2 DEF TheWord
<1>15. FramesIntact'
  <2>1. ASSUME NEW k \in 1 .. n + 1
        PROVE  /\ rdFrame'[k].size = sentLens[k]
               /\ rdFrame'[k].header = {<<k, 0>>}
               /\ \A w \in DOMAIN rdFrame'[k].words : rdFrame'[k].words[w] = WordOf(k, w)
               /\ k < n + 1 => Len(rdFrame'[k].words) = WordCount(sentLens[k])
    <3>1. CASE k \in 1 .. n
      BY <1>1, <1>2, <1>7, <3>1 DEF FramesIntact
    <3>2. CASE k = n + 1
      <4>1. DOMAIN rdFrame'[k].words = {}
        BY <1>7, <3>2
      <4> QED
        BY SMTT(30), <1>2, <1>7, <1>9, <1>14, <3>2, <4>1
    <3> QED
      BY <1>2, <3>1, <3>2
  <2>2. DOMAIN rdFrame' = 1 .. n + 1
    BY <1>2, <1>7
  <2> QED
    BY <1>1, <1>5, <1>7, <2>1, <2>2 DEF FramesIntact, WordOf
<1>16. InOrder'
  <2>1. ReadPlace' = <<n + 1, 1>>
    <3>1. Len(Newest'.words) = 0 /\ Len(rdFrame') = n + 1 /\ rdState' = "WORDS"
      BY <1>1, <1>7, <1>12
    <3> QED
      BY <3>1 DEF ReadPlace
  <2>2. NextPlace(ReadPlace) = <<n + 1, 1>>
    <3>1. WordCount(sentLens[n + 1]) >= 1 /\ WordCount(sentLens[n + 1]) \in Nat
      BY <1>10, CurType, LensType, WordCountBounds
    <3>2. WordCount(sentLens[n + 1]) # 0
      BY <3>1
    <3>3. NextPlace(<<n + 1, 0>>) = <<n + 1, 0 + 1>>
      BY <3>2 DEF NextPlace
    <3> QED
      BY <1>14, <3>3
  <2> QED
    BY <1>1, <1>4, <2>1, <2>2, OrderTaken
<1> QED
  BY <1>4, <1>8, <1>11, <1>13, <1>15, <1>16

LEMMA TakeWordKeeps == InIInv /\ TakeWord => InIInv'
<1> SUFFICES ASSUME InIInv, TakeWord PROVE InIInv'
  OBVIOUS
<1> USE DEF InIInv
<1> DEFINE n == Len(rdFrame)
<1> DEFINE m == Len(Newest.words)
<1>1. /\ rdState = "WORDS" /\ inData # <<>>
      /\ rdFrame' = [rdFrame EXCEPT ![n].words = Append(@, Head(inData))]
      /\ inData' = Tail(inData)
      /\ rdState' = IF WordBytes * (m + 1) < Newest.size THEN "WORDS" ELSE "IDLE"
      /\ inSize' = inSize /\ UNCHANGED <<fsmVars, usbVars>>
  BY DEF TakeWord
<1>2. /\ inData \in Seq(SUBSET Places) /\ inSize \in Seq(Nat) /\ rdFrame \in Seq(Record)
      /\ n \in Nat /\ n >= 1 /\ Len(inData) \in Nat /\ Len(inSize) \in Nat
      /\ rdFrame[n] = Newest /\ Newest \in Record
  <2>1. inData \in Seq(SUBSET Places) /\ inSize \in Seq(Nat) /\ rdFrame \in Seq(Record)
    BY DEF InTypes, Record
  <2>2. rdFrame # <<>>
    BY <1>1 DEF Taking
  <2>3. n \in Nat /\ n >= 1 /\ Len(inData) \in Nat /\ Len(inSize) \in Nat
    BY <2>1, <2>2
  <2>4. rdFrame[n] = Newest
    BY DEF Newest
  <2> QED
    BY <2>1, <2>3, <2>4
<1>3. /\ inData' \in Seq(SUBSET Places) /\ Len(inData') = Len(inData) - 1
      /\ Head(inData) \in SUBSET Places
  BY <1>1, <1>2
<1>4. /\ InStep' /\ Packing' /\ WritePlace' = WritePlace
      /\ Prolongs /\ Current' = Current /\ Complete' = Complete
  BY <1>1, <1>2, <1>3, FsmKept
<1>5. UNCHANGED <<inState, txPktLen, counterr, payload, sentLens, pos>>
  BY <1>1 DEF fsmVars, usbVars
<1>6. Newest.words \in Seq(SUBSET Places) /\ m \in Nat
  BY <1>2 DEF Record
<1> DEFINE more == Append(Newest.words, Head(inData))
<1>7. /\ more \in Seq(SUBSET Places) /\ Len(more) = m + 1 /\ more[m + 1] = Head(inData)
      /\ \A i \in 1 .. m : more[i] = Newest.words[i]
  BY <1>3, <1>6
<1>8. /\ rdFrame' \in Seq(Record) /\ Len(rdFrame') = n
      /\ rdFrame'[n] = [Newest EXCEPT !.words = more]
      /\ \A k \in 1 .. n - 1 : rdFrame'[k] = rdFrame[k]
  <2>1. [Newest EXCEPT !.words = more] \in Record
    BY <1>2, <1>7 DEF Record
  <2>2. rdFrame' = [rdFrame EXCEPT ![n] = [Newest EXCEPT !.words = more]]
    BY <1>1, <1>2
  <2> HIDE DEF more
  <2> QED
    BY <1>2, <2>1, <2>2
<1>9. /\ Newest' = rdFrame'[n] /\ Newest'.words = more
      /\ rdFrame'[n].size = Newest.size /\ rdFrame'[n].header = Newest.header
  <2>1. Newest' = rdFrame'[n]
    BY <1>8 DEF Newest
  <2> QED
    BY <1>2, <1>8, <2>1 DEF Record
<1> HIDE DEF more
<1>10. n \in 1 .. Current /\ sentLens[n] \in Nat
  <2>1. n <= Current /\ Current \in Nat
    <3>1. n <= Complete /\ Complete <= Current /\ Complete \in Nat
      BY TakenComplete
    <3> QED
      BY <1>2, <3>1, CurType
  <2>2. n \in 1 .. Current
    BY <1>2, <2>1
  <2> QED
    BY <2>2, CurType, LensType
<1>11. /\ Newest.size = sentLens[n] /\ Newest.header = {<<n, 0>>}
       /\ \A i \in 1 .. m : Newest.words[i] = WordOf(n, i)
       /\ m < WordCount(sentLens[n])
  BY SMTT(30), <1>1, <1>2, <1>6 DEF FramesIntact, Taking
<1>12. rdState' = IF m + 1 < WordCount(sentLens[n]) THEN "WORDS" ELSE "IDLE"
  <2>1. /\ WordCount(sentLens[n]) \in Nat
        /\ 4 * WordCount(sentLens[n]) >= sentLens[n] /\ 4 * WordCount(sentLens[n]) < sentLens[n] + 4
    BY <1>10, WordCountBounds
  <2>2. WordBytes * (m + 1) < Newest.size <=> m + 1 < WordCount(sentLens[n])
    BY <1>6, <1>10, <1>11, <2>1 DEF WordBytes
  <2> QED
    BY <1>1, <2>2
<1>13. InTypes'
  BY <1>1, <1>3, <1>5, <1>8, <1>12 DEF InTypes, Record
<1>14. Sizes'
  BY <1>1, <1>4, <1>5, <1>8 DEF Sizes
<1>15. Taking'
  BY <1>2, <1>5, <1>7, <1>8, <1>9, <1>12 DEF Taking
<1>16. ReadPlace = <<n, m + 1>> /\ Head(inData) = WordOf(n, m + 1)
  <2>1. ReadPlace = <<n, m + 1>>
    BY <1>1 DEF ReadPlace
  <2>2. Head(inData) = TheWord(ReadPlace)
    BY <1>1, <1>4, OrderTaken
  <2> QED
    BY <1>6, <2>1, <2>2 DEF TheWord
<1>17. FramesIntact'
  <2>1. ASSUME NEW k \in 1 .. n
        PROVE  /\ rdFrame'[k].size = sentLens[k]
               /\ rdFrame'[k].header = {<<k, 0>>}
               /\ \A w \in DOMAIN rdFrame'[k].words : rdFrame'[k].words[w] = WordOf(k, w)
               /\ (k < n \/ rdState' = "IDLE") => Len(rdFrame'[k].words) = WordCount(sentLens[k])
    <3>1. CASE k \in 1 .. n - 1
      BY SMTT(30), <1>2, <1>8, <3>1 DEF FramesIntact
    <3>2. CASE k = n
      <4>1. DOMAIN rdFrame'[k].words = 1 .. m + 1
        BY <1>6, <1>7, <1>9, <3>2
      <4>2. \A i \in 1 .. m + 1 : more[i] = WordOf(n, i)
        <5>1. ASSUME NEW i \in 1 .. m + 1 PROVE more[i] = WordOf(n, i)
          <6>1. CASE i \in 1 .. m
            BY <1>7, <1>11, <6>1
          <6>2. CASE i = m + 1
            BY <1>7, <1>16, <6>2
          <6> QED
            BY <1>6, <6>1, <6>2
        <5> QED
          BY <5>1
      <4>3. rdState' = "IDLE" => m + 1 = WordCount(sentLens[n])
        <5>1. WordCount(sentLens[n]) \in Nat /\ m < WordCount(sentLens[n])
          BY <1>10, <1>11, WordCountBounds
        <5>2. rdState' = "IDLE" => ~(m + 1 < WordCount(sentLens[n]))
          BY <1>12
        <5> QED
          BY <1>6, <5>1, <5>2
      <4> QED
        BY <1>7, <1>9, <1>11, <3>2, <4>1, <4>2, <4>3
    <3> QED
      BY <1>2, <3>1, <3>2
  <2>2. DOMAIN rdFrame' = 1 .. n
    BY <1>2, <1>8
  <2> QED
    BY <1>5, <1>8, <2>1, <2>2 DEF FramesIntact, WordOf
<1>18. InOrder'
  <2>1. ReadPlace' = IF m + 1 < WordCount(sentLens[n]) THEN <<n, m + 2>> ELSE <<n + 1, 0>>
    <3>1. Len(rdFrame') = n /\ Len(Newest'.words) + 1 = m + 2
      BY <1>6, <1>7, <1>8, <1>9
    <3> QED
      BY <1>12, <3>1 DEF ReadPlace
  <2>2. NextPlace(ReadPlace) = IF m + 1 < WordCount(sentLens[n]) THEN <<n, m + 2>> ELSE <<n + 1, 0>>
    <3>1. WordCount(sentLens[n]) \in Nat /\ m < WordCount(sentLens[n])
      BY <1>10, <1>11, WordCountBounds
    <3>2. m + 1 < WordCount(sentLens[n]) <=> m + 1 # WordCount(sentLens[n])
      BY <1>6, <3>1
    <3>3. NextPlace(<<n, m + 1>>) = IF m + 1 = WordCount(sentLens[n]) THEN <<n + 1, 0>>
                                    ELSE <<n, m + 1 + 1>>
      BY DEF NextPlace
    <3> QED
      BY <1>6, <1>16, <3>2, <3>3
  <2> QED
    BY <1>1, <1>4, <2>1, <2>2, OrderTaken
<1> QED
  BY <1>4, <1>13, <1>14, <1>15, <1>17, <1>18

LEMMA InStutter == InIInv /\ UNCHANGED inVars => InIInv'
<1> SUFFICES ASSUME InIInv, UNCHANGED inVars PROVE InIInv'
  OBVIOUS
<1> USE DEF InIInv
<1>1. /\ UNCHANGED <<inState, txPktLen, counterr, payload, sentLens, pos, inData, inSize, rdState, rdFrame>>
      /\ UNCHANGED <<fsmVars, usbVars>>
  BY DEF inVars, fsmVars, usbVars, rdVars
<1>2. /\ InStep' /\ Packing' /\ WritePlace' = WritePlace
      /\ Prolongs /\ Current' = Current /\ Complete' = Complete
  BY <1>1, FsmKept DEF InTypes
<1>3. InTypes' /\ Sizes' /\ Taking' /\ ReadPlace' = ReadPlace
  BY <1>1, <1>2 DEF InTypes, Sizes, Taking, ReadPlace, Newest
<1>4. FramesIntact'
  BY <1>1 DEF FramesIntact, WordOf
<1>5. InOrder'
  BY <1>1, <1>2, <1>3, OrderKept
<1> QED
  BY <1>2, <1>3, <1>4, <1>5

LEMMA InInitInv == InInit => InIInv
<1> SUFFICES ASSUME InInit PROVE InIInv
  OBVIOUS
<1> USE DEF InInit
<1>1. InTypes /\ InStep /\ Packing /\ Taking /\ FramesIntact
  BY DEF InTypes, InStep, Packing, Taking, FramesIntact, StreamEmpty, Current
<1>2. StreamEmpty /\ Current = 0
  BY DEF StreamEmpty, Current
<1>3. Sizes
  BY <1>2 DEF Sizes, Complete
<1>4. InOrder
  <2>1. ReadPlace = <<1, 0>> /\ WritePlace = <<1, 0>>
    BY <1>2 DEF ReadPlace, WritePlace
  <2>2. <<<<1, 0>>>> \in Seq(Places)
    BY DEF Places
  <2>3. Between(<<<<1, 0>>>>)
    BY <2>1 DEF Between
  <2> QED
    BY <2>2, <2>3 DEF InOrder
<1> QED
  BY <1>1, <1>3, <1>4 DEF InIInv

\* The FIFO side keeps its invariant for every frame length and FIFO depth.
LEMMA InInvariant == InSpec => []InIInv
<1>1. InIInv /\ [InNext]_inVars => InIInv'
  BY HostTransferKeeps, LeaveIdleKeeps, GetCount0Keeps, GetCount1Keeps, GetDataKeeps,
     TakeHeaderKeeps, TakeWordKeeps, InStutter DEF InNext, UsbInStep, ReaderStep
<1> QED
  BY <1>1, InInitInv, PTL DEF InSpec

(***************************************************************************)
(* The transmit path drives the FIFOs as InSpec allows.                     *)
(***************************************************************************)
LEMMA PathStreams == PathSpec => InSpec
<1>1. PathInit => InInit
  BY DEF PathInit
<1>2. [PathNext]_pathVars => [InNext]_inVars
  BY DEF PathNext, pathVars, PathSubmit, StackStep, PathXmitStep, PathCallbackStep, PathTransfer,
     PathUsbInStep, PathReaderStep, InNext
<1> QED
  BY <1>1, <1>2, PTL DEF PathSpec, InSpec

(***************************************************************************)
(* What the host and InjectData can rely on.                                *)
(***************************************************************************)
\* The FSM is in step with the byte stream: the length bytes are read with both
\* FIFOs ready, each once, whatever the depth of the FIFOs (usb_in_to_fifo.py's
\* GET_COUNT states check only one of them).
THEOREM StaysInStep == PathSpec => []InStep
  BY InInvariant, PathStreams, PTL DEF InIInv

\* InjectData takes every frame whole, in order and with its own length, however
\* the stream, the FSM and the reader interleave.
THEOREM FramesAreIntact == PathSpec => []FramesIntact
  BY InInvariant, PathStreams, PTL DEF InIInv

(***************************************************************************)
(* The driver's count and queue.                                            *)
(***************************************************************************)
USE QueueLimitAssumption

\* Before the interface is first opened nothing is under way.
LEMMA DtInitIInv == DtInit => DtIInv
<1> SUFFICES ASSUME DtInit PROVE DtIInv
  OBVIOUS
<1>1. /\ ~up /\ cnt = 0 /\ inFlight = 0 /\ races = 0
      /\ xmit = "idle" /\ xmitCnt = 0 /\ done = "idle" /\ doneCnt = 0
  BY Zenon DEF DtInit
<1>2. DtTypeOK
  <2>1. /\ up \in BOOLEAN /\ present \in BOOLEAN /\ stopped \in BOOLEAN
        /\ missed \in BOOLEAN /\ startedFull \in BOOLEAN
    BY Zenon DEF DtInit
  <2> QED
    BY <1>1, <2>1 DEF DtTypeOK
<1>3. CountExact
  BY <1>1 DEF CountExact, Within, Counted, Uncounted, Undiscounted
<1>4. StopHasWaker /\ Loaded /\ BelowLimit /\ StopsFull
  BY <1>1 DEF StopHasWaker, Stalls, Loaded, BelowLimit, StopsFull
<1> QED
  BY <1>2, <1>3, <1>4 DEF DtIInv

\* Opening and closing keep the invariant: they do not touch the count, and an
\* open at the limit is recorded.
LEMMA OpenCloseKeep == DtIInv /\ (Open \/ Close) => DtIInv'
<1> SUFFICES ASSUME DtIInv, Open \/ Close PROVE DtIInv'
  OBVIOUS
<1> USE DEF DtIInv, DtTypeOK, CountExact, StopHasWaker, Stalls, Loaded, BelowLimit, StopsFull,
            Within, Counted, Uncounted, Undiscounted, histVars, xmitVars, doneVars
<1>1. CASE Open
  <2>1. DtTypeOK'
    BY <1>1 DEF Open, Starts
  <2>2. CountExact' /\ Loaded' /\ StopsFull'
    BY <1>1 DEF Open
  <2>3. StopHasWaker'
    BY <1>1 DEF Open
  <2>4. BelowLimit'
    <3>1. UNCHANGED <<cnt, xmit, xmitCnt, done, doneCnt>> /\ xmit = "idle"
      BY <1>1 DEF Open
    <3>2. startedFull' = (startedFull \/ cnt >= QueueLimit)
      BY <1>1, Zenon DEF Open, Starts
    <3>3. ~startedFull' => ~startedFull /\ ~(cnt >= QueueLimit)
      BY <3>2, Zenon
    <3> QED
      BY <3>1, <3>3
  <2> QED
    BY <2>1, <2>2, <2>3, <2>4
<1>2. CASE Close
  BY <1>2 DEF Close
<1> QED
  BY <1>1, <1>2

\* start_xmit keeps the invariant: it runs on a queue below the limit, and stops
\* it when the count it stores reaches the limit.
LEMMA XmitKeeps == DtIInv /\ (Submit \/ SubmitFails \/ XmitStep) => DtIInv'
<1> SUFFICES ASSUME DtIInv, Submit \/ SubmitFails \/ XmitStep PROVE DtIInv'
  OBVIOUS
<1> USE DEF DtIInv, DtTypeOK, CountExact, StopHasWaker, Stalls, Loaded, BelowLimit, StopsFull,
            Within, Counted, Uncounted, Undiscounted, netVars, histVars, xmitVars, doneVars
<1>1. CASE Submit
  BY <1>1 DEF Submit, MayXmit
<1>2. CASE SubmitFails
  BY <1>2 DEF SubmitFails, MayXmit
<1>3. CASE XmitLoad
  BY <1>3 DEF XmitLoad
<1>4. CASE XmitStore
  \* A store while the callback has loaded the count is one more race, and puts
  \* what the callback loaded off by one more.
  <2>1. DtTypeOK'
    BY <1>4 DEF XmitStore, StoresOver
  <2>2. CountExact' /\ Loaded'
    BY <1>4 DEF XmitStore, StoresOver
  <2>3. StopHasWaker' /\ StopsFull'
    BY <1>4 DEF XmitStore, StoresOver
  <2>4. BelowLimit'
    BY <1>4 DEF XmitStore
  <2> QED
    BY <2>1, <2>2, <2>3, <2>4
<1>5. CASE XmitStop
  <2>1. DtTypeOK' /\ CountExact' /\ Loaded' /\ BelowLimit' /\ StopsFull'
    BY <1>5 DEF XmitStop
  <2>2. StopHasWaker'
    BY <1>5 DEF XmitStop
  <2> QED
    BY <2>1, <2>2
<1> QED
  BY <1>1, <1>2, <1>3, <1>4, <1>5 DEF XmitStep

\* The callback keeps the invariant: with nothing lost, the one that leaves the
\* limit is the one that wakes the queue.
LEMMA CallbackKeeps == DtIInv /\ CallbackStep => DtIInv'
<1> SUFFICES ASSUME DtIInv, CallbackStep PROVE DtIInv'
  OBVIOUS
<1> USE DEF DtIInv, DtTypeOK, CountExact, StopHasWaker, Stalls, Loaded, BelowLimit, StopsFull,
            Within, Counted, Uncounted, Undiscounted, netVars, histVars, xmitVars, doneVars
<1>1. CASE CallbackLoad
  BY <1>1 DEF CallbackLoad
<1>2. CASE CallbackStore
  <2>1. DtTypeOK'
    BY <1>2 DEF CallbackStore, StoresOver
  <2>2. CountExact' /\ Loaded'
    BY <1>2 DEF CallbackStore, StoresOver
  <2>3. StopHasWaker' /\ StopsFull'
    BY <1>2 DEF CallbackStore, StoresOver
  <2>4. BelowLimit'
    BY <1>2 DEF CallbackStore
  <2> QED
    BY <2>1, <2>2, <2>3, <2>4
<1>3. CASE CallbackWake
  <2>1. DtTypeOK'
    BY <1>3 DEF CallbackWake, Starts
  <2>2. CountExact' /\ Loaded'
    BY <1>3 DEF CallbackWake
  <2>3. StopHasWaker' /\ StopsFull'
    BY <1>3 DEF CallbackWake
  <2>4. BelowLimit'
    BY <1>3 DEF CallbackWake, Starts
  <2> QED
    BY <2>1, <2>2, <2>3, <2>4
<1> QED
  BY <1>1, <1>2, <1>3 DEF CallbackStep

\* A step that changes nothing keeps the invariant.
LEMMA DtStutter == DtIInv /\ UNCHANGED vars => DtIInv'
  BY DEF vars, netVars, histVars, xmitVars, doneVars, DtIInv, DtTypeOK, CountExact, Within,
         StopHasWaker, Stalls, Loaded, BelowLimit, StopsFull, Counted, Uncounted, Undiscounted

\* The invariant holds in every state.
LEMMA DtInductive == DtSpec => []DtIInv
<1>1. DtIInv /\ [DtNext]_vars => DtIInv'
  BY OpenCloseKeep, XmitKeeps, CallbackKeeps, DtStutter DEF DtNext
<1> QED
  BY <1>1, DtInitIInv, PTL DEF DtSpec

\* The URBs under way are the count, what the sides have not counted yet and what
\* the races put it off by.
LEMMA InvLimits == DtIInv => LimitHeld
  BY DEF DtIInv, DtTypeOK, CountExact, Within, Counted, Uncounted, Undiscounted, BelowLimit,
         LimitHeld

(***************************************************************************)
(* The transmit path drives the count as DtSpec allows, so that what        *)
(* follows holds on it as well.                                             *)
(***************************************************************************)
LEMMA PathDrives == PathSpec => DtSpec
<1>1. PathInit => DtInit
  BY DEF PathInit
<1>2. [PathNext]_pathVars => [DtNext]_vars
  BY DEF PathNext, pathVars, PathSubmit, StackStep, PathXmitStep, PathCallbackStep, PathTransfer,
     PathUsbInStep, PathReaderStep, DtNext
<1> QED
  BY <1>1, <1>2, PTL DEF PathSpec, DtSpec

\* With callbacks at any moment tx_queue_cnt is off the number of URBs under way by
\* no more than the number of stores that came between the other side's load and
\* store: exact without one, through refused URBs, close and open.
THEOREM CountIsExact == DtSpec => []CountExact
<1>1. DtIInv => CountExact
  BY DEF DtIInv
<1> QED
  BY <1>1, DtInductive, PTL

\* TX_QUEUE_LIMIT is passed only by what such stores lost, or after the queue was
\* started with the count at the limit.
THEOREM WindowHeld == DtSpec => []LimitHeld
  BY InvLimits, DtInductive, PTL

\* A stopped queue has a callback to come that wakes it, unless a store was lost or
\* a callback looked at the queue between the count reaching the limit and the stop.
THEOREM StoppedQueueHasWaker == DtSpec => []StopHasWaker
<1>1. DtIInv => StopHasWaker
  BY DEF DtIInv
<1> QED
  BY <1>1, DtInductive, PTL
=============================================================================
