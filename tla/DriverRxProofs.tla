---------------------------- MODULE DriverRxProofs ----------------------------
(***************************************************************************)
(* The way of a received frame from the FIFOs to the network stack, proved  *)
(* for frames of every length, FIFOs of every depth, packets of every size  *)
(* and any number of frames, cuts and opens: the bytes on the way are those *)
(* between two places of one order, whichever buffer they are in.           *)
(***************************************************************************)
EXTENDS DriverRx, FiniteSetTheorems, TLAPS

(***************************************************************************)
(* The words of the data FIFO.  A word and a byte are named by a pair, so   *)
(* the order in which they go is a function of their names.                 *)
(***************************************************************************)
Places == Nat \X Nat

NextWord(p) == IF p[2] = WordCount(rxLens[p[1]]) THEN <<p[1] + 1, 1>> ELSE <<p[1], p[2] + 1>>

\* Frames that are stored whole, and those whose length the FSM has taken.
Stored == IF Storing THEN Received - 1 ELSE Received
Begun == Stored - Len(outSize)

\* What the FSM reads next, what the writer stores next, and the byte that goes
\* into the stream next.
WordToRead == IF outState = "SEND_DATA" THEN <<Begun, (counter \div WordBytes) + 1>>
              ELSE <<Begun + 1, 1>>
WordToStore == IF Storing THEN <<Received, rxWords + 1>> ELSE <<Received + 1, 1>>
ByteToSend == IF outState = "SEND_DATA" THEN <<Begun, counter + 1>> ELSE <<Begun + 1, 1>>

OutTypes ==
  /\ outState \in {"RESET", "GET_PACKET_SIZE", "SEND_DATA"}
  /\ packetSize \in Nat /\ counter \in Nat /\ rxWords \in Nat
  /\ rxLens \in Seq(OutLens)
  /\ outData \in Seq(Places) /\ outSize \in Seq(Nat)

OutSizes ==
  /\ Begun \in Nat
  /\ \A j \in 1 .. Len(outSize) : outSize[j] = rxLens[Begun + j]
  /\ outState = "SEND_DATA" =>
       Begun > 0 /\ packetSize = rxLens[Begun] /\ counter < packetSize

WordAt(i) == IF i = Len(outData) + 1 THEN WordToStore ELSE outData[i]

WordsInOrder ==
  /\ WordAt(1) = WordToRead
  /\ \A i \in 1 .. Len(outData) :
       outData[i][1] \in 1 .. Received /\ WordAt(i + 1) = NextWord(outData[i])

(***************************************************************************)
(* The bytes behind the FSM.                                                *)
(***************************************************************************)
\* Consecutive bytes of one frame, at least one.
Piece(s) ==
  /\ s \in Seq(Places) /\ s # <<>>
  /\ FrameOf(s) \in 1 .. Received
  /\ s[1][2] >= 1 /\ s[1][2] + Len(s) - 1 <= rxLens[FrameOf(s)]
  /\ \A b \in 1 .. Len(s) : s[b] = <<FrameOf(s), s[1][2] + b - 1>>

EndsFrame(s) == s[1][2] + Len(s) - 1 = rxLens[FrameOf(s)]

\* The byte that follows a piece.
After(s) == IF EndsFrame(s) THEN <<FrameOf(s) + 1, 1>> ELSE <<FrameOf(s), s[1][2] + Len(s)>>

EmptyPacket == [bytes |-> <<>>, last |-> TRUE]

\* The first byte in each buffer and those behind it.
InFilling == IF filling = <<>> THEN ByteToSend ELSE filling[1]
InSecond == IF Len(packets) = 2 THEN packets[2].bytes[1] ELSE InFilling
InFirst == IF packets = <<>> \/ packets[1].bytes = <<>> THEN InSecond ELSE packets[1].bytes[1]
InBuffer == IF buffer = <<>> THEN InFirst ELSE buffer[1]

Packet(p) ==
  /\ Piece(p.bytes) /\ Len(p.bytes) <= PacketBytes
  /\ p.last <=> EndsFrame(p.bytes)
  /\ p.last \/ Len(p.bytes) = PacketBytes

EndpointInv ==
  /\ packets \in Seq([bytes : Seq(Places), last : BOOLEAN]) /\ Len(packets) <= 2
  /\ filling \in Seq(Places)
  /\ filling # <<>> =>
       /\ outState = "SEND_DATA" /\ Piece(filling) /\ ~EndsFrame(filling)
       /\ Len(filling) < PacketBytes /\ After(filling) = ByteToSend
  /\ Len(packets) = 2 => Packet(packets[2]) /\ After(packets[2].bytes) = InFilling
  /\ Len(packets) >= 1 =>
       \/ packets[1] = EmptyPacket
       \/ Packet(packets[1]) /\ After(packets[1].bytes) = InSecond

BufferInv ==
  /\ up \in BOOLEAN /\ urb \in {"idle", "active", "done", "failed"}
  /\ cuts \in Nat
  /\ urb = "idle" => buffer = <<>>
  /\ ~up => urb = "idle"
  /\ IdleOnlyRefused
  /\ buffer # <<>> =>
       /\ Piece(buffer) /\ After(buffer) = InFirst
       /\ urb = "done" => EndsFrame(buffer)
       /\ urb = "active" /\ EndsFrame(buffer) => packets # <<>> /\ packets[1] = EmptyPacket
       /\ ~EndsFrame(buffer) => packets = <<>> \/ packets[1] # EmptyPacket

Torn == {n \in DOMAIN received : ~Whole(received[n])}

StackInv ==
  /\ received \in Seq(Seq(Places))
  /\ \A n \in DOMAIN received :
       /\ Piece(received[n]) /\ EndsFrame(received[n])
       /\ FrameOf(received[n]) < InBuffer[1]
  /\ SkbsInOrder
  /\ Cardinality(Torn) + (IF InBuffer[2] = 1 THEN 0 ELSE 1) <= cuts

RxInv == OutTypes /\ OutSizes /\ WordsInOrder /\ EndpointInv /\ BufferInv /\ StackInv

(***************************************************************************)
(* Arithmetic of words and bytes, and the types.                            *)
(***************************************************************************)
LEMMA WordCountBounds ==
  \A n \in Nat : /\ WordCount(n) \in Nat
                 /\ 4 * WordCount(n) >= n /\ 4 * WordCount(n) < n + 4
  BY DEF WordCount, WordBytes

\* What the proofs need to know of the constants.
LEMMA Constants ==
  /\ PacketBytes \in Nat /\ PacketBytes >= 1 /\ UrbBytes \in Nat /\ UrbBytes >= 1
  /\ MinBytes \in Nat /\ MinBytes >= 1
<1>1. /\ PacketBytes \in Nat \ {0} /\ UrbBytes \in Nat \ {0} /\ MinBytes \in Nat \ {0}
  BY OutAssumption, RxAssumption, Zenon
<1> QED
  BY <1>1

LEMMA LensType ==
  ASSUME NEW n \in OutLens
  PROVE  /\ n \in Nat /\ n >= 1 /\ n <= UrbBytes
         /\ WordCount(n) \in Nat /\ WordCount(n) >= 1
         /\ 4 * WordCount(n) >= n /\ 4 * WordCount(n) < n + 4
<1>1. n \in Nat /\ n # 0 /\ n <= UrbBytes
  BY OutAssumption, RxAssumption, Zenon
<1>2. WordCount(n) \in Nat /\ 4 * WordCount(n) >= n /\ 4 * WordCount(n) < n + 4
  BY <1>1, WordCountBounds
<1> QED
  BY <1>1, <1>2

\* Byte n + 1 of a frame is byte n % 4 + 1 of its word n \div 4 + 1.
LEMMA WordOfByte ==
  ASSUME NEW n \in Nat
  PROVE  /\ n \div 4 \in Nat /\ n % 4 \in 0 .. 3 /\ 4 * (n \div 4) + (n % 4) = n
         /\ (n + 1) % 4 = 0 => /\ (n + 1) \div 4 = (n \div 4) + 1
                               /\ n + 1 = 4 * ((n \div 4) + 1)
         /\ (n + 1) % 4 # 0 => (n + 1) \div 4 = n \div 4
<1>1. n \div 4 \in Nat /\ n % 4 \in 0 .. 3 /\ 4 * (n \div 4) + (n % 4) = n
  OBVIOUS
<1>2. /\ (n + 1) \div 4 \in Nat /\ (n + 1) % 4 \in 0 .. 3
      /\ 4 * ((n + 1) \div 4) + ((n + 1) % 4) = n + 1
  OBVIOUS
<1> QED
  BY <1>1, <1>2

LEMMA FramesType ==
  ASSUME OutTypes
  PROVE  /\ Received \in Nat /\ \A k \in 1 .. Received : rxLens[k] \in OutLens
         /\ Stored \in Nat /\ Stored <= Received /\ Len(outSize) \in Nat /\ Len(outData) \in Nat
         /\ Begun \in Int /\ Begun <= Stored
<1>1. Received \in Nat /\ \A k \in 1 .. Received : rxLens[k] \in OutLens
  BY DEF OutTypes, Received
<1>2. Len(outSize) \in Nat /\ Len(outData) \in Nat
  BY DEF OutTypes
<1>3. Stored \in Nat /\ Stored <= Received
  BY <1>1 DEF Stored, Storing
<1> QED
  BY <1>1, <1>2, <1>3 DEF Begun

\* A frame received keeps its length.
Prolongs == Received' \in Nat /\ Received' >= Received /\ \A k \in 1 .. Received : rxLens'[k] = rxLens[k]

LEMMA Nothing ==
  ASSUME OutTypes, UNCHANGED <<rxLens, rxWords>>
  PROVE  Prolongs /\ Received' = Received /\ Storing' = Storing /\ Stored' = Stored
         /\ WordToStore' = WordToStore
  BY FramesType DEF Prolongs, Received, Storing, Stored, WordToStore

(***************************************************************************)
(* The data FIFO.                                                           *)
(***************************************************************************)
LEMMA NextWordKept ==
  ASSUME Prolongs, NEW p, p[1] \in 1 .. Received
  PROVE  NextWord(p)' = NextWord(p) /\ p[1] \in 1 .. Received'
<1>1. rxLens'[p[1]] = rxLens[p[1]] /\ p[1] \in 1 .. Received'
  BY DEF Prolongs, Received
<1> QED
  BY <1>1 DEF NextWord

LEMMA WordsKept ==
  ASSUME OutTypes, WordsInOrder, Prolongs,
         outData' = outData, WordToRead' = WordToRead, WordToStore' = WordToStore
  PROVE  WordsInOrder'
<1>1. \A i : WordAt(i)' = WordAt(i)
  BY DEF WordAt
<1> QED
  BY <1>1, NextWordKept DEF WordsInOrder

LEMMA WordsStored ==
  ASSUME OutTypes, WordsInOrder, Prolongs,
         NEW w \in Places, w = WordToStore, w[1] \in 1 .. Received, outData' = Append(outData, w),
         WordToRead' = WordToRead, WordToStore' = NextWord(w)
  PROVE  WordsInOrder'
<1>1. PICK n \in Nat : n = Len(outData)
  BY DEF OutTypes
<1>2. /\ Len(outData') = n + 1 /\ outData'[n + 1] = w
      /\ \A i \in 1 .. n : outData'[i] = outData[i]
  BY <1>1 DEF OutTypes
<1>3. \A i \in 1 .. n + 1 : outData'[i] = WordAt(i)
  BY <1>1, <1>2 DEF WordAt
<1>4. \A i \in 1 .. n + 1 : WordAt(i)' = WordAt(i)
  BY <1>2, <1>3 DEF WordAt
<1>5. WordAt(n + 2)' = NextWord(w)
  BY <1>2 DEF WordAt
<1>6. ASSUME NEW i \in 1 .. n + 1
      PROVE  outData'[i][1] \in 1 .. Received' /\ WordAt(i + 1)' = NextWord(outData[i])'
  <2>1. CASE i \in 1 .. n
    <3>1. outData[i][1] \in 1 .. Received /\ WordAt(i + 1) = NextWord(outData[i])
      BY <1>1, <2>1 DEF WordsInOrder
    <3>2. i + 1 \in 1 .. n + 1 /\ outData'[i] = outData[i]
      BY <1>1, <1>2, <2>1
    <3>3. PICK q : q = outData[i]
      OBVIOUS
    <3>4. NextWord(outData[i])' = NextWord(q)'
      BY <3>2, <3>3 DEF NextWord
    <3> QED
      BY <1>4, <3>1, <3>2, <3>3, <3>4, NextWordKept
  <2>2. CASE i = n + 1
    <3>1. outData'[i] = w /\ WordAt(i + 1)' = NextWord(w)
      BY <1>1, <1>2, <1>5, <2>2
    <3>2. NextWord(outData[i])' = NextWord(w)'
      BY <3>1 DEF NextWord
    <3> QED
      BY <3>1, <3>2, NextWordKept
  <2> QED
    BY <1>1, <2>1, <2>2
<1>7. WordAt(1)' = WordToRead'
  BY <1>1, <1>4 DEF WordsInOrder
<1> QED
  BY <1>2, <1>6, <1>7 DEF WordsInOrder

LEMMA WordsRead ==
  ASSUME OutTypes, WordsInOrder, Prolongs, outData # <<>>
  PROVE  /\ Head(outData) = WordToRead /\ WordToRead[1] \in 1 .. Received
         /\ outData' = Tail(outData) /\ WordToRead' = NextWord(WordToRead)
              /\ WordToStore' = WordToStore => WordsInOrder'
<1>1. PICK n \in Nat : n = Len(outData)
  BY DEF OutTypes
<1>2. n >= 1 /\ Head(outData) = outData[1]
  BY <1>1 DEF OutTypes
<1>3. WordAt(1) = outData[1] /\ WordAt(1) = WordToRead
  BY <1>1, <1>2 DEF WordAt, WordsInOrder
<1>4. outData[1][1] \in 1 .. Received /\ WordAt(2) = NextWord(outData[1])
  BY <1>1, <1>2 DEF WordsInOrder
<1>5. ASSUME outData' = Tail(outData), WordToRead' = NextWord(WordToRead),
             WordToStore' = WordToStore
      PROVE  WordsInOrder'
  <2>1. Len(outData') = n - 1 /\ \A i \in 1 .. n - 1 : outData'[i] = outData[i + 1]
    BY <1>1, <1>2, <1>5 DEF OutTypes
  <2>2. ASSUME NEW i \in 1 .. n PROVE WordAt(i)' = WordAt(i + 1)
    <3>1. CASE i \in 1 .. n - 1
      BY <1>1, <1>2, <2>1, <3>1 DEF WordAt
    <3>2. CASE i = n
      BY <1>1, <1>2, <1>5, <2>1, <3>2 DEF WordAt
    <3> QED
      BY <1>2, <3>1, <3>2
  <2>3. ASSUME NEW i \in 1 .. n - 1
        PROVE  outData'[i][1] \in 1 .. Received' /\ WordAt(i + 1)' = NextWord(outData[i])'
    <3>1. i + 1 \in 1 .. n /\ outData'[i] = outData[i + 1]
      BY <1>2, <2>1
    <3>2. outData[i + 1][1] \in 1 .. Received /\ WordAt(i + 1 + 1) = NextWord(outData[i + 1])
      BY <1>1, <3>1 DEF WordsInOrder
    <3>3. PICK q : q = outData[i + 1]
      OBVIOUS
    <3>4. NextWord(outData[i])' = NextWord(q)'
      BY <3>1, <3>3 DEF NextWord
    <3> QED
      BY <2>2, <3>1, <3>2, <3>3, <3>4, NextWordKept
  <2>4. WordAt(1)' = WordToRead'
    BY <1>2, <1>3, <1>4, <1>5, <2>2
  <2> QED
    BY <2>1, <2>3, <2>4 DEF WordsInOrder
<1> QED
  BY <1>3, <1>4, <1>2, <1>5

(***************************************************************************)
(* Pieces of frames.                                                        *)
(***************************************************************************)
LEMMA PieceType ==
  ASSUME OutTypes, NEW s, Piece(s)
  PROVE  /\ Len(s) \in Nat /\ Len(s) >= 1 /\ FrameOf(s) \in Nat /\ s[1][2] \in Nat
         /\ s[1] = <<FrameOf(s), s[1][2]>> /\ s[1] \in Places
         /\ rxLens[FrameOf(s)] \in OutLens /\ rxLens[FrameOf(s)] \in Nat
         /\ Len(s) <= rxLens[FrameOf(s)]
         /\ After(s) \in Places /\ After(s)[1] >= FrameOf(s)
         /\ EndsFrame(s) => After(s)[1] = FrameOf(s) + 1 /\ After(s)[2] = 1
         /\ ~EndsFrame(s) => After(s)[2] # 1
<1>1. s \in Seq(Places) /\ s # <<>>
  BY DEF Piece
<1>2. Len(s) \in Nat /\ Len(s) >= 1
  BY <1>1
<1>3. s[1] \in Places
  BY <1>1, <1>2
<1>4. s[1] = <<s[1][1], s[1][2]>> /\ s[1][1] \in Nat /\ s[1][2] \in Nat
  BY <1>3 DEF Places
<1>5. rxLens[FrameOf(s)] \in OutLens /\ rxLens[FrameOf(s)] \in Nat
  BY FramesType, LensType DEF Piece
<1>6. s[1][2] >= 1 /\ s[1][2] + Len(s) - 1 <= rxLens[FrameOf(s)]
  BY DEF Piece
<1>7. Len(s) <= rxLens[FrameOf(s)]
  BY <1>2, <1>4, <1>5, <1>6
<1>8. After(s) \in Places /\ After(s)[1] >= FrameOf(s)
  BY <1>2, <1>4 DEF After, Places, FrameOf
<1>9. /\ EndsFrame(s) => After(s)[1] = FrameOf(s) + 1 /\ After(s)[2] = 1
      /\ ~EndsFrame(s) => After(s)[2] # 1
  BY <1>2, <1>4, <1>6 DEF After
<1> QED
  BY <1>2, <1>3, <1>4, <1>5, <1>7, <1>8, <1>9 DEF FrameOf

\* A piece stays what it is when another frame is received.
LEMMA PieceKept ==
  ASSUME OutTypes, Prolongs, NEW s, FrameOf(s) \in 1 .. Received
  PROVE  /\ Piece(s) => Piece(s)'
         /\ After(s)' = After(s) /\ EndsFrame(s)' = EndsFrame(s) /\ Whole(s)' = Whole(s)
         /\ FrameOf(s)' = FrameOf(s)
<1>1. rxLens'[FrameOf(s)] = rxLens[FrameOf(s)] /\ FrameOf(s) \in 1 .. Received'
  BY FramesType DEF Prolongs, FrameOf
<1> QED
  BY <1>1 DEF Piece, After, EndsFrame, Whole, FrameOf

\* Two consecutive pieces of a frame are one.
LEMMA PiecesJoin ==
  ASSUME OutTypes, NEW s, NEW t, Piece(s), Piece(t), ~EndsFrame(s), t[1] = After(s)
  PROVE  /\ Piece(s \o t) /\ (s \o t)[1] = s[1] /\ After(s \o t) = After(t)
         /\ EndsFrame(s \o t) <=> EndsFrame(t)
         /\ FrameOf(s \o t) = FrameOf(s) /\ Len(s \o t) = Len(s) + Len(t)
<1>1. /\ s \in Seq(Places) /\ t \in Seq(Places) /\ s # <<>>
      /\ Len(s) \in Nat /\ Len(s) >= 1 /\ Len(t) \in Nat /\ Len(t) >= 1
  BY PieceType DEF Piece
<1>2. /\ s \o t \in Seq(Places) /\ Len(s \o t) = Len(s) + Len(t)
      /\ \A b \in 1 .. Len(s) : (s \o t)[b] = s[b]
      /\ \A b \in 1 .. Len(t) : (s \o t)[Len(s) + b] = t[b]
  BY <1>1
<1>3. (s \o t)[1] = s[1] /\ FrameOf(s \o t) = FrameOf(s)
  BY <1>1, <1>2 DEF FrameOf
<1>4. FrameOf(t) = FrameOf(s) /\ t[1][2] = s[1][2] + Len(s) /\ s[1][2] \in Nat
  <2>1. t[1] = <<FrameOf(s), s[1][2] + Len(s)>>
    BY DEF After
  <2>2. t[1][1] = FrameOf(s) /\ t[1][2] = s[1][2] + Len(s)
    BY <2>1
  <2>3. s[1][2] \in Nat
    BY PieceType
  <2> QED
    BY <2>2, <2>3 DEF FrameOf
<1>5. ASSUME NEW b \in 1 .. Len(s) + Len(t)
      PROVE  (s \o t)[b] = <<FrameOf(s), s[1][2] + b - 1>>
  <2>1. CASE b \in 1 .. Len(s)
    BY <1>2, <2>1 DEF Piece
  <2>2. CASE b \notin 1 .. Len(s)
    <3>1. PICK c \in 1 .. Len(t) : b = Len(s) + c
      <4>1. b - Len(s) \in 1 .. Len(t) /\ b = Len(s) + (b - Len(s))
        BY <1>1, <2>2
      <4> QED
        BY <4>1
    <3>2. t[c] = <<FrameOf(t), t[1][2] + c - 1>>
      BY <3>1 DEF Piece
    <3>3. t[1][2] + c - 1 = s[1][2] + b - 1
      BY <1>1, <1>4, <3>1
    <3> QED
      BY <1>2, <1>4, <3>1, <3>2, <3>3
  <2> QED
    BY <2>1, <2>2
<1>6. s[1][2] + Len(s \o t) - 1 = t[1][2] + Len(t) - 1
  BY <1>1, <1>2, <1>4
<1>7. s \o t # <<>>
  BY <1>1, <1>2
<1>8. Piece(s \o t)
  BY <1>2, <1>3, <1>4, <1>5, <1>6, <1>7 DEF Piece
<1>9. EndsFrame(s \o t) <=> EndsFrame(t)
  BY <1>3, <1>4, <1>6 DEF EndsFrame
<1>10. s[1][2] + Len(s \o t) = t[1][2] + Len(t)
  BY <1>1, <1>2, <1>4
<1>11. After(s \o t) = After(t)
  BY <1>3, <1>4, <1>9, <1>10 DEF After
<1> QED
  BY <1>2, <1>3, <1>8, <1>9, <1>11

\* One byte is a piece.
LEMMA OneByte ==
  ASSUME OutTypes, NEW k \in 1 .. Received, NEW i \in 1 .. rxLens[k]
  PROVE  /\ Piece(<< <<k, i>> >>)
         /\ EndsFrame(<< <<k, i>> >>) <=> i = rxLens[k]
         /\ After(<< <<k, i>> >>) = IF i = rxLens[k] THEN <<k + 1, 1>> ELSE <<k, i + 1>>
<1> DEFINE s == << <<k, i>> >>
<1>1. k \in Nat /\ i \in Nat /\ i >= 1 /\ rxLens[k] \in Nat
  BY FramesType, LensType
<1>2. <<k, i>> \in Places
  BY <1>1 DEF Places
<1>3. s \in Seq(Places) /\ s # <<>> /\ Len(s) = 1 /\ s[1] = <<k, i>>
  BY <1>2
<1>4. FrameOf(s) = k /\ s[1][2] = i
  BY <1>3 DEF FrameOf
<1> HIDE DEF s
<1>5. \A b \in 1 .. Len(s) : s[b] = <<FrameOf(s), s[1][2] + b - 1>>
  BY <1>1, <1>3, <1>4
<1>6. Piece(s)
  BY <1>1, <1>3, <1>4, <1>5 DEF Piece
<1>7. EndsFrame(s) <=> i = rxLens[k]
  BY <1>1, <1>3, <1>4 DEF EndsFrame
<1>8. After(s) = IF i = rxLens[k] THEN <<k + 1, 1>> ELSE <<k, i + 1>>
  BY <1>3, <1>4, <1>7 DEF After
<1> QED
  BY <1>6, <1>7, <1>8 DEF s

(***************************************************************************)
(* Steps of the writer and of the FSM that move no byte.                    *)
(***************************************************************************)
\* The torn skbs stay what they are.
LEMMA TornKept ==
  ASSUME OutTypes, Prolongs, UNCHANGED received,
         \A n \in DOMAIN received : FrameOf(received[n]) \in 1 .. Received
  PROVE  Torn' = Torn
<1>1. ASSUME NEW n \in DOMAIN received PROVE Whole(received[n])' <=> Whole(received[n])
  <2>1. PICK s : s = received[n]
    OBVIOUS
  <2>2. Whole(s)' = Whole(s)
    BY <2>1, PieceKept
  <2>3. Whole(received[n])' = Whole(s)'
    BY <2>1 DEF Whole, FrameOf
  <2> QED
    BY <2>1, <2>2, <2>3
<1> QED
  BY <1>1 DEF Torn

LEMMA PacketKept ==
  ASSUME OutTypes, Prolongs, NEW p, Packet(p)
  PROVE  Packet(p)' /\ After(p.bytes)' = After(p.bytes)
<1>1. FrameOf(p.bytes) \in 1 .. Received
  BY DEF Packet, Piece
<1> QED
  BY <1>1, PieceKept DEF Packet

\* The driver waits, and what comes to it next is the same.
LEMMA DriverKept ==
  ASSUME RxInv, Prolongs, UNCHANGED driverVars, InFirst' = InFirst,
         packets # <<>> => packets' # <<>> /\ packets'[1] = packets[1],
         packets = <<>> => packets' = <<>> \/ packets'[1] # EmptyPacket
  PROVE  BufferInv' /\ StackInv'
<1> USE DEF RxInv
<1>1. UNCHANGED <<up, urb, buffer, received, refused, cuts>>
  BY DEF driverVars
<1>2. InFirst' = InFirst /\ InBuffer' = InBuffer /\ (IdleOnlyRefused => IdleOnlyRefused')
  BY <1>1 DEF InBuffer, IdleOnlyRefused
<1>3. BufferInv'
  <2>1. CASE buffer # <<>>
    <3>1. PICK s : s = buffer
      OBVIOUS
    <3>2. Piece(s) /\ FrameOf(s) \in 1 .. Received
      BY <2>1, <3>1 DEF BufferInv, Piece
    <3>3. Piece(s)' /\ EndsFrame(s)' = EndsFrame(s) /\ After(s)' = After(s)
      BY <3>2, PieceKept
    <3>4. Piece(buffer)' /\ EndsFrame(buffer)' = EndsFrame(buffer) /\ After(buffer)' = After(buffer)
      BY <1>1, <3>1, <3>3 DEF Piece, EndsFrame, After, FrameOf
    <3> QED
      BY <1>1, <1>2, <2>1, <3>4 DEF BufferInv
  <2>2. CASE buffer = <<>>
    BY <1>1, <1>2, <2>2 DEF BufferInv
  <2> QED
    BY <2>1, <2>2
<1>4. StackInv'
  <2>1. \A n \in DOMAIN received : FrameOf(received[n]) \in 1 .. Received
    BY DEF StackInv, Piece
  <2>2. Torn' = Torn
    BY <1>1, <2>1, TornKept
  <2>3. ASSUME NEW n \in DOMAIN received
        PROVE  Piece(received[n])' /\ EndsFrame(received[n])' /\ FrameOf(received[n])' < InBuffer'[1]
    <3>1. PICK s : s = received[n]
      OBVIOUS
    <3>2. Piece(s)' /\ EndsFrame(s)' /\ FrameOf(s)' < InBuffer'[1]
      BY <1>2, <2>1, <3>1, PieceKept DEF StackInv
    <3> QED
      BY <1>1, <3>1, <3>2 DEF Piece, EndsFrame, FrameOf
  <2>4. SkbsInOrder'
    BY <1>1 DEF StackInv, SkbsInOrder, FrameOf
  <2> QED
    BY <1>1, <1>2, <2>2, <2>3, <2>4 DEF StackInv
<1> QED
  BY <1>3, <1>4

LEMMA BehindKept ==
  ASSUME RxInv, Prolongs, UNCHANGED <<filling, packets, driverVars>>,
         ByteToSend' = ByteToSend, outState = "SEND_DATA" => outState' = "SEND_DATA"
  PROVE  EndpointInv' /\ BufferInv' /\ StackInv'
<1> USE DEF RxInv
<1>1. InFilling' = InFilling /\ InSecond' = InSecond /\ InFirst' = InFirst
  BY DEF InFilling, InSecond, InFirst
<1>2. EndpointInv'
  <2>1. ASSUME filling # <<>>
        PROVE  /\ outState' = "SEND_DATA" /\ Piece(filling)' /\ ~EndsFrame(filling)'
               /\ Len(filling') < PacketBytes /\ After(filling)' = ByteToSend'
    <3>1. PICK f : f = filling
      OBVIOUS
    <3>2. Piece(f) /\ ~EndsFrame(f) /\ After(f) = ByteToSend /\ FrameOf(f) \in 1 .. Received
      BY <2>1, <3>1 DEF EndpointInv, Piece
    <3>3. Piece(f)' /\ ~EndsFrame(f)' /\ After(f)' = ByteToSend'
      BY <3>2, PieceKept
    <3>4. /\ Piece(filling)' = Piece(f)' /\ EndsFrame(filling)' = EndsFrame(f)'
          /\ After(filling)' = After(f)'
      BY <3>1 DEF Piece, EndsFrame, After, FrameOf
    <3>5. outState' = "SEND_DATA" /\ Len(filling') < PacketBytes
      BY <2>1 DEF EndpointInv
    <3> QED
      BY <3>3, <3>4, <3>5
  <2>2. ASSUME Len(packets) = 2 PROVE Packet(packets[2])' /\ After(packets[2].bytes)' = InFilling'
    <3>1. PICK p : p = packets[2]
      OBVIOUS
    <3>2. Packet(p)' /\ After(p.bytes)' = InFilling'
      BY <1>1, <2>2, <3>1, PacketKept DEF EndpointInv
    <3> QED
      BY <3>1, <3>2 DEF Packet, Piece, EndsFrame, After, FrameOf
  <2>3. ASSUME Len(packets) >= 1
        PROVE  \/ packets[1]' = EmptyPacket
               \/ Packet(packets[1])' /\ After(packets[1].bytes)' = InSecond'
    <3>1. PICK p : p = packets[1]
      OBVIOUS
    <3>2. CASE p = EmptyPacket
      BY <3>1, <3>2
    <3>3. CASE p # EmptyPacket
      <4>1. Packet(p)' /\ After(p.bytes)' = InSecond'
        BY <1>1, <2>3, <3>1, <3>3, PacketKept DEF EndpointInv
      <4> QED
        BY <3>1, <4>1 DEF Packet, Piece, EndsFrame, After, FrameOf
    <3> QED
      BY <3>2, <3>3
  <2> QED
    BY <2>1, <2>2, <2>3 DEF EndpointInv
<1>3. BufferInv' /\ StackInv'
  BY <1>1, DriverKept
<1> QED
  BY <1>2, <1>3

LEMMA FrameArrivesKeeps == RxInv /\ FrameArrives /\ UNCHANGED driverVars => RxInv'
<1> SUFFICES ASSUME RxInv, FrameArrives, UNCHANGED driverVars PROVE RxInv'
  OBVIOUS
<1> USE DEF RxInv
<1>1. PICK n \in OutLens : rxLens' = Append(rxLens, n)
  BY DEF FrameArrives
<1>2. /\ ~Storing /\ rxWords' = 0
      /\ UNCHANGED <<outState, packetSize, counter, outData, outSize, filling, packets>>
  BY DEF FrameArrives, fsmVars, endpointVars
<1>3. n \in Nat /\ WordCount(n) \in Nat /\ WordCount(n) >= 1
  BY LensType
<1>4. /\ rxLens' \in Seq(OutLens) /\ Received' = Received + 1 /\ rxLens'[Received + 1] = n
      /\ \A k \in 1 .. Received : rxLens'[k] = rxLens[k]
  BY <1>1 DEF OutTypes, Received
<1>5. Prolongs
  BY <1>4, FramesType DEF Prolongs
<1>6. Storing'
  BY <1>2, <1>3, <1>4, FramesType DEF Storing
<1>7. Stored' = Stored /\ Begun' = Begun
  BY <1>2, <1>4, <1>6, FramesType DEF Stored, Begun
<1>8. OutTypes'
  BY <1>2, <1>4 DEF OutTypes
<1>9. OutSizes'
  <2>1. \A j \in 1 .. Len(outSize) : Begun + j \in 1 .. Received
    BY FramesType DEF OutSizes, Begun
  <2>2. outState = "SEND_DATA" => Begun \in 1 .. Received
    BY FramesType DEF OutSizes, Begun
  <2> QED
    BY <1>2, <1>4, <1>7, <2>1, <2>2 DEF OutSizes
<1>10. WordToStore' = WordToStore /\ WordToRead' = WordToRead /\ ByteToSend' = ByteToSend
  BY <1>2, <1>4, <1>6, <1>7 DEF WordToStore, WordToRead, ByteToSend
<1>11. WordsInOrder'
  BY <1>2, <1>5, <1>10, WordsKept
<1> QED
  BY <1>2, <1>5, <1>8, <1>9, <1>10, <1>11, BehindKept

LEMMA StoreWordKeeps == RxInv /\ StoreWord /\ UNCHANGED driverVars => RxInv'
<1> SUFFICES ASSUME RxInv, StoreWord, UNCHANGED driverVars PROVE RxInv'
  OBVIOUS
<1> USE DEF RxInv
<1>1. PICK w : w = <<Received, rxWords + 1>>
  OBVIOUS
<1>2. /\ Storing /\ outData' = Append(outData, w) /\ rxWords' = rxWords + 1
      /\ UNCHANGED <<outState, packetSize, counter, rxLens, filling, packets>>
      /\ outSize' = IF rxWords + 1 = WordCount(rxLens[Received])
                    THEN Append(outSize, rxLens[Received]) ELSE outSize
  BY <1>1 DEF StoreWord, fsmVars, endpointVars
<1>3. Received' = Received /\ Prolongs
  BY <1>2, FramesType DEF Prolongs, Received
<1>4. Received \in 1 .. Received /\ Received \in Nat /\ rxWords \in Nat
  BY <1>2, FramesType DEF Storing, OutTypes
<1>5. PICK len \in OutLens : len = rxLens[Received]
  BY <1>4, FramesType
<1>6. WordCount(len) \in Nat /\ rxWords < WordCount(len) /\ len \in Nat
  BY <1>2, <1>5, LensType DEF Storing
<1>7. w = WordToStore /\ w \in Places /\ w[1] \in 1 .. Received
  BY <1>1, <1>2, <1>4 DEF WordToStore, Places
<1>8. outSize \in Seq(Nat) /\ outData \in Seq(Places) /\ Len(outSize) \in Nat
  BY DEF OutTypes
<1>9. OutTypes'
  <2>1. outSize' \in Seq(Nat)
    BY <1>2, <1>5, <1>6, <1>8
  <2>2. outData' \in Seq(Places)
    BY <1>2, <1>7, <1>8
  <2> QED
    BY <1>2, <1>4, <2>1, <2>2 DEF OutTypes
<1>10. Stored = Received - 1
  BY <1>2 DEF Stored
<1>11. CASE rxWords + 1 = WordCount(len)
  <2>1. ~Storing' /\ Stored' = Received
    BY <1>2, <1>3, <1>5, <1>6, <1>11 DEF Storing, Stored
  <2>2. PICK m \in Nat : m = Len(outSize)
    BY <1>8
  <2>3. /\ Len(outSize') = m + 1 /\ outSize'[m + 1] = len
        /\ \A j \in 1 .. m : outSize'[j] = outSize[j]
    BY <1>2, <1>5, <1>6, <1>8, <1>11, <2>2
  <2>4. Begun' = Begun /\ Begun + m + 1 = Received /\ Begun \in Nat
    BY <1>4, <1>10, <2>1, <2>2, <2>3 DEF Begun, OutSizes
  <2>5. ASSUME NEW j \in 1 .. m + 1 PROVE outSize'[j] = rxLens[Begun + j]
    <3>1. CASE j \in 1 .. m
      BY <2>2, <2>3, <3>1 DEF OutSizes
    <3>2. CASE j = m + 1
      <4>1. Begun + j = Received
        BY <2>4, <3>2
      <4> QED
        BY <1>5, <2>3, <3>2, <4>1
    <3> QED
      BY <2>2, <3>1, <3>2
  <2>6. OutSizes'
    BY <1>2, <2>3, <2>4, <2>5 DEF OutSizes
  <2>7. WordToStore' = <<Received + 1, 1>> /\ NextWord(w) = <<Received + 1, 1>>
    BY <1>1, <1>3, <1>5, <1>11, <2>1 DEF WordToStore, NextWord
  <2>8. WordToRead' = WordToRead /\ ByteToSend' = ByteToSend
    BY <1>2, <2>4 DEF WordToRead, ByteToSend
  <2>9. WordsInOrder'
    BY <1>2, <1>3, <1>7, <2>7, <2>8, WordsStored
  <2> QED
    BY <1>2, <1>3, <1>9, <2>6, <2>8, <2>9, BehindKept
<1>12. CASE rxWords + 1 # WordCount(len)
  <2>1. outSize' = outSize
    BY <1>2, <1>5, <1>12
  <2>2. Storing' /\ Stored' = Stored /\ Begun' = Begun
    BY <1>2, <1>3, <1>4, <1>5, <1>6, <1>10, <1>12, <2>1 DEF Storing, Stored, Begun
  <2>3. OutSizes'
    BY <1>2, <2>1, <2>2 DEF OutSizes
  <2>4. WordToStore' = <<Received, rxWords + 1 + 1>> /\ NextWord(w) = <<Received, rxWords + 1 + 1>>
    BY <1>1, <1>2, <1>3, <1>5, <1>12, <2>2 DEF WordToStore, NextWord
  <2>5. WordToRead' = WordToRead /\ ByteToSend' = ByteToSend
    BY <1>2, <2>2 DEF WordToRead, ByteToSend
  <2>6. WordsInOrder'
    BY <1>2, <1>3, <1>7, <2>4, <2>5, WordsStored
  <2> QED
    BY <1>2, <1>3, <1>9, <2>3, <2>5, <2>6, BehindKept
<1> QED
  BY <1>11, <1>12

LEMMA LeaveResetKeeps == RxInv /\ LeaveReset /\ UNCHANGED driverVars => RxInv'
<1> SUFFICES ASSUME RxInv, LeaveReset, UNCHANGED driverVars PROVE RxInv'
  OBVIOUS
<1> USE DEF RxInv
<1>1. /\ outState = "RESET" /\ outState' = "GET_PACKET_SIZE"
      /\ UNCHANGED <<packetSize, counter, outData, outSize, rxLens, rxWords, filling, packets>>
  BY DEF LeaveReset, writerVars, endpointVars
<1>2. Prolongs /\ Stored' = Stored /\ WordToStore' = WordToStore
  BY <1>1, Nothing
<1>3. Begun' = Begun
  BY <1>1, <1>2 DEF Begun
<1>4. OutTypes' /\ OutSizes'
  BY <1>1, <1>3 DEF OutTypes, OutSizes
<1>5. WordToRead' = WordToRead /\ ByteToSend' = ByteToSend
  BY <1>1, <1>3 DEF WordToRead, ByteToSend
<1>6. WordsInOrder'
  BY <1>1, <1>2, <1>5, WordsKept
<1> QED
  BY <1>1, <1>2, <1>4, <1>5, <1>6, BehindKept

LEMMA GetPacketSizeKeeps == RxInv /\ GetPacketSize /\ UNCHANGED driverVars => RxInv'
<1> SUFFICES ASSUME RxInv, GetPacketSize, UNCHANGED driverVars PROVE RxInv'
  OBVIOUS
<1> USE DEF RxInv
<1>1. /\ outState = "GET_PACKET_SIZE" /\ outState' = "SEND_DATA" /\ outSize # <<>>
      /\ packetSize' = Head(outSize) /\ outSize' = Tail(outSize) /\ counter' = 0
      /\ UNCHANGED <<outData, rxLens, rxWords, filling, packets>>
  BY DEF GetPacketSize, CountRRdy, writerVars, endpointVars
<1>2. Prolongs /\ Stored' = Stored /\ WordToStore' = WordToStore
  BY <1>1, Nothing
<1>3. PICK m \in Nat : m = Len(outSize)
  BY DEF OutTypes
<1>4. /\ m >= 1 /\ outSize' \in Seq(Nat) /\ Len(outSize') = m - 1 /\ packetSize' = outSize[1]
      /\ packetSize' \in Nat
      /\ \A j \in 1 .. m - 1 : outSize'[j] = outSize[j + 1]
  BY <1>1, <1>3 DEF OutTypes
<1>5. Begun' = Begun + 1 /\ Begun \in Nat /\ Begun + 1 \in 1 .. Received
  BY <1>2, <1>3, <1>4, FramesType DEF Begun, OutSizes
<1>6. packetSize' = rxLens[Begun + 1]
  BY <1>3, <1>4 DEF OutSizes
<1>7. packetSize' >= 1
  BY <1>5, <1>6, FramesType, LensType
<1>8. OutTypes'
  BY <1>1, <1>4 DEF OutTypes
<1>9. OutSizes'
  <2>1. ASSUME NEW j \in 1 .. m - 1 PROVE outSize'[j] = rxLens[Begun + 1 + j]
    <3>1. j + 1 \in 1 .. m /\ Begun + 1 + j = Begun + (j + 1)
      BY <1>3, <1>4, <1>5
    <3> QED
      BY <1>3, <1>4, <3>1 DEF OutSizes
  <2> QED
    BY <1>1, <1>4, <1>5, <1>6, <1>7, <2>1 DEF OutSizes
<1>10. WordToRead' = WordToRead /\ ByteToSend' = ByteToSend
  BY <1>1, <1>5 DEF WordToRead, ByteToSend, WordBytes
<1>11. WordsInOrder'
  BY <1>1, <1>2, <1>10, WordsKept
<1> QED
  BY <1>1, <1>2, <1>8, <1>9, <1>10, <1>11, BehindKept

(***************************************************************************)
(* A byte goes into the stream.                                             *)
(***************************************************************************)
\* It is the one that is due, and makes a piece with those of its packet.
LEMMA ByteSent ==
  ASSUME RxInv, SendData
  PROVE  /\ Begun \in 1 .. Received /\ rxLens[Begun] = packetSize
         /\ counter + 1 \in 1 .. rxLens[Begun]
         /\ CurrentByte = <<Begun, counter + 1>> /\ CurrentByte \in Places
         /\ Piece(Append(filling, CurrentByte))
         /\ Append(filling, CurrentByte)[1] = InFilling
         /\ Len(Append(filling, CurrentByte)) <= PacketBytes
         /\ EndsFrame(Append(filling, CurrentByte)) <=> counter = packetSize - 1
         /\ After(Append(filling, CurrentByte)) =
              IF counter = packetSize - 1 THEN <<Begun + 1, 1>> ELSE <<Begun, counter + 2>>
<1> USE DEF RxInv
<1>1. /\ outState = "SEND_DATA" /\ outData # <<>> /\ Len(filling) < PacketBytes
  BY DEF SendData, Ready, RRdy
<1>2. /\ counter \in Nat /\ packetSize \in Nat /\ counter < packetSize
      /\ rxLens[Begun] = packetSize /\ Begun \in 1 .. Received /\ Begun \in Nat
  BY <1>1, FramesType DEF OutSizes, OutTypes
<1>3. counter + 1 \in 1 .. rxLens[Begun]
  BY <1>2
<1>4. CurrentByte = <<Begun, counter + 1>>
  <2>1. Prolongs
    BY FramesType DEF SendData, writerVars, Prolongs, Received
  <2>2. Head(outData) = <<Begun, (counter \div WordBytes) + 1>>
    BY <1>1, <2>1, WordsRead DEF WordToRead
  <2>3. PICK q : q = counter \div 4
    OBVIOUS
  <2>4. q \in Nat /\ 4 * q + (counter % 4) = counter /\ counter % 4 \in Nat
    BY <1>2, <2>3, WordOfByte
  <2>5. 4 * (q + 1 - 1) + (counter % 4) + 1 = counter + 1
    BY <2>4
  <2> QED
    BY <2>2, <2>3, <2>5 DEF CurrentByte, WordBytes
<1>5. PICK b \in Places : b = CurrentByte /\ b = <<Begun, counter + 1>>
  BY <1>2, <1>4 DEF Places
<1>6. /\ Piece(<<b>>)
      /\ EndsFrame(<<b>>) <=> counter = packetSize - 1
      /\ After(<<b>>) = IF counter = packetSize - 1 THEN <<Begun + 1, 1>>
                        ELSE <<Begun, counter + 2>>
  <2>1. counter + 1 = rxLens[Begun] <=> counter = packetSize - 1
    BY <1>2
  <2>2. counter + 1 + 1 = counter + 2
    BY <1>2
  <2> QED
    BY <1>2, <1>3, <1>5, <2>1, <2>2, OneByte
<1>7. PICK f \in Seq(Places) : f = filling
  BY DEF EndpointInv
<1>8. PICK all : all = Append(f, b)
  OBVIOUS
<1>9. /\ Piece(all) /\ all[1] = InFilling
      /\ EndsFrame(all) <=> EndsFrame(<<b>>)
      /\ After(all) = After(<<b>>)
  <2>1. CASE f = <<>>
    <3>1. all = <<b>> /\ InFilling = b
      BY <1>1, <1>5, <1>7, <1>8, <2>1 DEF InFilling, ByteToSend
    <3> QED
      BY <1>6, <3>1
  <2>2. CASE f # <<>>
    <3>1. Piece(f) /\ ~EndsFrame(f) /\ After(f) = b
      BY <1>1, <1>5, <1>7, <2>2 DEF EndpointInv, ByteToSend
    <3>2. all = f \o <<b>>
      BY <1>7, <1>8
    <3>3. <<b>>[1] = b
      OBVIOUS
    <3>4. /\ Piece(all) /\ all[1] = f[1]
          /\ EndsFrame(all) <=> EndsFrame(<<b>>)
          /\ After(all) = After(<<b>>)
      BY <1>6, <3>1, <3>2, <3>3, PiecesJoin
    <3> QED
      BY <1>7, <2>2, <3>4 DEF InFilling
  <2> QED
    BY <2>1, <2>2
<1>10. Len(all) <= PacketBytes
  <2>1. Len(all) = Len(f) + 1 /\ Len(f) \in Nat
    BY <1>7, <1>8
  <2> QED
    BY <1>1, <1>7, <2>1, Constants
<1> QED
  BY <1>2, <1>3, <1>4, <1>5, <1>6, <1>7, <1>8, <1>9, <1>10

\* The FIFOs after it.
LEMMA SendDataFifos ==
  ASSUME RxInv, SendData
  PROVE  /\ OutTypes' /\ OutSizes' /\ WordsInOrder'
         /\ Prolongs /\ UNCHANGED <<rxLens, rxWords>>
         /\ ByteToSend' = IF counter = packetSize - 1 THEN <<Begun + 1, 1>>
                          ELSE <<Begun, counter + 2>>
<1> USE DEF RxInv
<1> DEFINE last == counter = packetSize - 1
<1>1. /\ outState = "SEND_DATA" /\ outData # <<>>
      /\ outData' = IF last \/ (counter + 1) % WordBytes = 0 THEN Tail(outData) ELSE outData
      /\ outState' = IF last THEN "GET_PACKET_SIZE" ELSE "SEND_DATA"
      /\ counter' = IF last THEN counter ELSE counter + 1
      /\ UNCHANGED <<packetSize, outSize, rxLens, rxWords>>
  BY DEF SendData, RRdy, writerVars
<1>2. Prolongs /\ Received' = Received /\ Stored' = Stored /\ WordToStore' = WordToStore
  BY <1>1, Nothing
<1>3. Begun' = Begun
  BY <1>1, <1>2 DEF Begun
<1>4. /\ counter \in Nat /\ packetSize \in Nat /\ counter < packetSize
      /\ rxLens[Begun] = packetSize /\ Begun \in 1 .. Received /\ Begun \in Nat
  BY <1>1, FramesType DEF OutSizes, OutTypes
<1>5. OutTypes'
  <2>1. outData' \in Seq(Places)
    BY <1>1 DEF OutTypes
  <2> QED
    BY <1>1, <1>4, <2>1 DEF OutTypes
<1>6. OutSizes'
  BY <1>1, <1>3, <1>4 DEF OutSizes
<1>7. ByteToSend' = IF last THEN <<Begun + 1, 1>> ELSE <<Begun, counter + 2>>
  <2>1. counter + 1 + 1 = counter + 2
    BY <1>4
  <2> QED
    BY <1>1, <1>3, <2>1 DEF ByteToSend
<1>8. PICK q \in Nat : q = counter \div 4
  BY <1>4, WordOfByte
<1>9. PICK len \in OutLens : len = packetSize
  BY <1>4, FramesType
<1>10. /\ WordCount(len) \in Nat /\ 4 * WordCount(len) >= len /\ 4 * WordCount(len) < len + 4
       /\ 4 * q + (counter % 4) = counter /\ counter % 4 \in 0 .. 3
  BY <1>4, <1>8, LensType, WordOfByte
<1>11. WordToRead = <<Begun, q + 1>>
  BY <1>1, <1>8 DEF WordToRead, WordBytes
<1>12. CASE last
  <2>1. q + 1 = WordCount(len)
    BY <1>4, <1>9, <1>10, <1>12
  <2>2. NextWord(WordToRead) = <<Begun + 1, 1>>
    BY <1>4, <1>9, <1>11, <2>1 DEF NextWord
  <2>3. WordToRead' = <<Begun + 1, 1>>
    BY <1>1, <1>3, <1>12 DEF WordToRead
  <2>4. WordsInOrder'
    BY <1>1, <1>2, <1>12, <2>2, <2>3, WordsRead
  <2> QED
    BY <1>1, <1>2, <1>5, <1>6, <1>7, <2>4
<1>13. CASE ~last /\ (counter + 1) % 4 = 0
  <2>1. (counter + 1) \div 4 = q + 1 /\ counter + 1 = 4 * (q + 1)
    BY <1>4, <1>8, <1>13, WordOfByte
  <2>2. q + 1 # WordCount(len)
    BY <1>4, <1>9, <1>10, <1>13, <2>1
  <2>3. NextWord(WordToRead) = <<Begun, q + 1 + 1>>
    BY <1>4, <1>9, <1>11, <2>2 DEF NextWord
  <2>4. WordToRead' = <<Begun, q + 1 + 1>>
    BY <1>1, <1>3, <1>13, <2>1 DEF WordToRead, WordBytes
  <2>5. WordsInOrder'
    BY <1>1, <1>2, <1>13, <2>3, <2>4, WordsRead DEF WordBytes
  <2> QED
    BY <1>1, <1>2, <1>5, <1>6, <1>7, <2>5
<1>14. CASE ~last /\ (counter + 1) % 4 # 0
  <2>1. (counter + 1) \div 4 = q
    BY <1>4, <1>8, <1>14, WordOfByte
  <2>2. WordToRead' = WordToRead /\ outData' = outData
    BY <1>1, <1>3, <1>11, <1>14, <2>1 DEF WordToRead, WordBytes
  <2>3. WordsInOrder'
    BY <1>2, <2>2, WordsKept
  <2> QED
    BY <1>1, <1>2, <1>5, <1>6, <1>7, <2>3
<1> QED
  BY <1>12, <1>13, <1>14

LEMMA FewItems ==
  ASSUME NEW S, NEW q \in Seq(S), Len(q) < 2
  PROVE  Len(q) \in {0, 1} /\ (Len(q) = 0 <=> q = <<>>)
<1>1. Len(q) \in Nat
  OBVIOUS
<1>2. Len(q) \in {0, 1}
  <2>1. PICK n \in Nat : n = Len(q)
    BY <1>1
  <2>2. n < 2
    BY <2>1
  <2>3. n \in {0, 1}
    BY <2>2
  <2> QED
    BY <2>1, <2>3
<1>3. Len(q) = 0 <=> q = <<>>
  OBVIOUS
<1> QED
  BY <1>2, <1>3

LEMMA OneOrTwo ==
  ASSUME NEW S, NEW q \in Seq(S), q # <<>>, Len(q) <= 2
  PROVE  /\ Len(q) \in Nat /\ Len(q) \in {1, 2} /\ Head(q) = q[1]
         /\ Len(Tail(q)) = Len(q) - 1 /\ Tail(q) \in Seq(S)
         /\ Len(q) = 1 => Tail(q) = <<>>
         /\ Len(q) = 2 => Tail(q) # <<>> /\ Tail(q)[1] = q[2]
<1>1. PICK n \in Nat : n = Len(q) /\ n >= 1 /\ n <= 2
  OBVIOUS
<1>2. n \in {1, 2}
  BY <1>1
<1>3. Head(q) = q[1] /\ Len(Tail(q)) = n - 1 /\ Tail(q) \in Seq(S)
  BY <1>1
<1>4. PICK t \in Seq(S) : t = Tail(q)
  BY <1>3
<1>5. (Len(t) = 0 <=> t = <<>>) /\ (n = 2 => t[1] = q[2])
  BY <1>1, <1>4
<1> QED
  BY <1>1, <1>2, <1>3, <1>4, <1>5

LEMMA SendDataKeeps == RxInv /\ SendData /\ UNCHANGED driverVars => RxInv'
<1> SUFFICES ASSUME RxInv, SendData, UNCHANGED driverVars PROVE RxInv'
  OBVIOUS
<1> USE DEF RxInv
<1>1. PICK all, last : /\ all = Append(filling, CurrentByte)
                       /\ last = (counter = packetSize - 1)
  OBVIOUS
<1>2. /\ Len(packets) < 2
      /\ outState' = IF last THEN "GET_PACKET_SIZE" ELSE "SEND_DATA"
      /\ filling' = IF last \/ Len(all) = PacketBytes THEN <<>> ELSE all
      /\ packets' = IF last \/ Len(all) = PacketBytes
                    THEN Append(packets, [bytes |-> all, last |-> last]) ELSE packets
  BY <1>1 DEF SendData, Ready, Stream
<1>3. /\ OutTypes' /\ OutSizes' /\ WordsInOrder' /\ Prolongs
      /\ ByteToSend' = IF last THEN <<Begun + 1, 1>> ELSE <<Begun, counter + 2>>
  BY <1>1, SendDataFifos
<1>4. /\ Piece(all) /\ all[1] = InFilling /\ Len(all) <= PacketBytes
      /\ last <=> EndsFrame(all)
      /\ After(all) = ByteToSend'
  <2>1. last \in BOOLEAN
    BY <1>1
  <2>2. last <=> counter = packetSize - 1
    BY <1>1
  <2> QED
    BY <1>1, <1>3, <2>1, <2>2, ByteSent
<1>5. last \in BOOLEAN /\ all \in Seq(Places) /\ all # <<>> /\ Len(all) \in Nat
  <2>1. last \in BOOLEAN
    BY <1>1
  <2> QED
    BY <1>4, <2>1 DEF Piece
<1>6. Piece(all)' /\ EndsFrame(all)' = EndsFrame(all) /\ After(all)' = ByteToSend'
  BY <1>3, <1>4, PieceKept DEF Piece
<1>7. PICK n \in {0, 1} : n = Len(packets) /\ (n = 0 => packets = <<>>) /\ (n = 1 => packets # <<>>)
  BY <1>2, FewItems DEF EndpointInv
<1>8. PICK first : first = packets[1]
  OBVIOUS
<1>9. ASSUME n = 1
      PROVE  first = EmptyPacket \/ (Packet(first)' /\ After(first.bytes)' = InSecond)
  <2>1. first = EmptyPacket \/ (Packet(first) /\ After(first.bytes) = InSecond)
    BY <1>7, <1>8, <1>9 DEF EndpointInv
  <2> QED
    BY <1>3, <2>1, PacketKept
<1>10. ASSUME packets'[1] = first
       PROVE  /\ Packet(packets[1])' <=> Packet(first)'
              /\ After(packets[1].bytes)' = After(first.bytes)'
  BY <1>10 DEF Packet, Piece, EndsFrame, After, FrameOf
<1>11. CASE ~last /\ Len(all) # PacketBytes
  <2>1. filling' = all /\ packets' = packets /\ outState' = "SEND_DATA"
    BY <1>2, <1>5, <1>11
  <2>2. InFilling' = InFilling /\ InSecond' = InSecond /\ InFirst' = InFirst
    BY <1>4, <1>5, <2>1 DEF InFilling, InSecond, InFirst
  <2>3. Len(all) < PacketBytes
    BY <1>4, <1>5, <1>11, Constants
  <2>4. /\ Piece(filling)' = Piece(all)' /\ EndsFrame(filling)' = EndsFrame(all)'
        /\ After(filling)' = After(all)'
    BY <2>1 DEF Piece, EndsFrame, After, FrameOf
  <2>5. EndpointInv'
    BY <1>4, <1>5, <1>6, <1>7, <1>8, <1>9, <1>10, <1>11, <2>1, <2>2, <2>3, <2>4 DEF EndpointInv
  <2>6. BufferInv' /\ StackInv'
    BY <1>3, <2>1, <2>2, DriverKept
  <2> QED
    BY <1>3, <2>5, <2>6
<1>12. CASE last \/ Len(all) = PacketBytes
  <2>1. PICK p : p = [bytes |-> all, last |-> last]
    OBVIOUS
  <2>2. filling' = <<>> /\ packets' = Append(packets, p)
    BY <1>2, <1>12, <2>1
  <2>3. /\ packets' \in Seq([bytes : Seq(Places), last : BOOLEAN]) /\ Len(packets') = n + 1
        /\ packets'[n + 1] = p /\ (n = 1 => packets'[1] = packets[1])
    BY <1>5, <1>7, <2>1, <2>2 DEF EndpointInv
  <2>4. p.bytes = all /\ p.last = last /\ p # EmptyPacket
    <3>1. p.bytes = all /\ p.last = last
      BY <2>1
    <3>2. EmptyPacket.bytes = <<>>
      BY DEF EmptyPacket
    <3> QED
      BY <1>5, <3>1, <3>2
  <2>5. Packet(p)' /\ After(p.bytes)' = ByteToSend'
    BY <1>4, <1>5, <1>6, <1>12, <2>4 DEF Packet
  <2>6. InFilling' = ByteToSend'
    BY <2>2 DEF InFilling
  <2>7. /\ Packet(packets[n + 1])' = Packet(p)'
        /\ After(packets[n + 1].bytes)' = After(p.bytes)'
    BY <2>3 DEF Packet, Piece, EndsFrame, After, FrameOf
  <2>8. CASE n = 0
    <3>1. packets = <<>> /\ Len(packets') = 1 /\ packets'[1] = p /\ packets' # <<>>
      BY SMTT(30), <1>7, <2>3, <2>8 DEF EndpointInv
    <3>2. InSecond' = ByteToSend' /\ InFirst' = all[1]
      BY <1>5, <2>4, <2>6, <3>1 DEF InSecond, InFirst
    <3>3. InFirst = InFilling
      BY <3>1 DEF InSecond, InFirst
    <3>4. EndpointInv'
      BY <2>2, <2>3, <2>5, <2>7, <2>8, <3>1, <3>2 DEF EndpointInv
    <3>5. BufferInv' /\ StackInv'
      BY <1>3, <1>4, <2>4, <3>1, <3>2, <3>3, DriverKept
    <3> QED
      BY <1>3, <3>4, <3>5
  <2>9. CASE n = 1
    <3>1. /\ packets # <<>> /\ Len(packets') = 2 /\ packets'[2] = p /\ packets'[1] = packets[1]
          /\ packets' # <<>>
      BY <1>7, <2>3, <2>9
    <3>2. InSecond' = all[1] /\ InSecond = InFilling
      BY <1>7, <2>4, <2>9, <3>1 DEF InSecond
    <3>3. InFirst' = InFirst
      BY <1>4, <3>1, <3>2 DEF InFirst
    <3>4. /\ Packet(packets[2])' /\ After(packets[2].bytes)' = InFilling'
      <4>1. Packet(packets[2])' <=> Packet(p)'
        BY <3>1 DEF Packet, Piece, EndsFrame, After, FrameOf
      <4>2. After(packets[2].bytes)' = After(p.bytes)'
        BY <3>1 DEF EndsFrame, After, FrameOf
      <4> QED
        BY <2>5, <2>6, <4>1, <4>2
    <3>5. EndpointInv'
      BY <1>4, <1>8, <1>9, <1>10, <2>2, <2>3, <2>9, <3>1, <3>2, <3>4 DEF EndpointInv
    <3>6. BufferInv' /\ StackInv'
      BY <1>3, <3>1, <3>3, DriverKept
    <3> QED
      BY <1>3, <3>5, <3>6
  <2> QED
    BY <1>7, <2>8, <2>9
<1> QED
  BY <1>5, <1>11, <1>12

(***************************************************************************)
(* The driver's steps.                                                      *)
(***************************************************************************)
\* The FIFOs do not notice.
LEMMA FifosKept ==
  ASSUME RxInv, UNCHANGED <<fsmVars, outData, outSize, writerVars>>
  PROVE  /\ OutTypes' /\ OutSizes' /\ WordsInOrder' /\ Prolongs /\ ByteToSend' = ByteToSend
<1> USE DEF RxInv
<1>1. UNCHANGED <<outState, packetSize, counter, outData, outSize, rxLens, rxWords>>
  BY DEF fsmVars, writerVars
<1>2. Prolongs /\ Received' = Received /\ Stored' = Stored /\ WordToStore' = WordToStore
  BY <1>1, Nothing
<1>3. Begun' = Begun
  BY <1>1, <1>2 DEF Begun
<1>4. OutTypes' /\ OutSizes'
  BY <1>1, <1>3 DEF OutTypes, OutSizes
<1>5. WordToRead' = WordToRead /\ ByteToSend' = ByteToSend
  BY <1>1, <1>3 DEF WordToRead, ByteToSend
<1> QED
  BY <1>1, <1>2, <1>4, <1>5, WordsKept

\* The host takes a packet: what is behind it moves up, and only a full packet that
\* ends a frame leaves an empty one in its place.
LEMMA PacketTaken ==
  ASSUME RxInv, packets # <<>>, packets' = AfterPacket, filling' = filling,
         UNCHANGED <<fsmVars, outData, outSize, writerVars>>
  PROVE  /\ EndpointInv' /\ InFirst' = InSecond
         /\ FullLast(packets[1]) => packets' # <<>> /\ packets'[1] = EmptyPacket
         /\ ~FullLast(packets[1]) => packets' = <<>> \/ packets'[1] # EmptyPacket
<1> USE DEF RxInv
<1>1. Prolongs /\ ByteToSend' = ByteToSend /\ outState' = outState
  BY FifosKept DEF fsmVars
<1>2. PICK ps \in Seq([bytes : Seq(Places), last : BOOLEAN]) : ps = packets
  BY DEF EndpointInv
<1>3. /\ Len(ps) \in Nat /\ Len(ps) \in {1, 2} /\ Len(ps) <= 2 /\ ps # <<>> /\ Head(ps) = ps[1]
      /\ Len(Tail(ps)) = Len(ps) - 1
      /\ Tail(ps) \in Seq([bytes : Seq(Places), last : BOOLEAN])
      /\ Len(ps) = 1 => Tail(ps) = <<>>
      /\ Len(ps) = 2 => Tail(ps) # <<>> /\ Tail(ps)[1] = ps[2]
  <2>1. ps # <<>> /\ Len(ps) <= 2
    BY <1>2 DEF EndpointInv
  <2> QED
    BY <2>1, OneOrTwo
<1>4. InFilling' = InFilling
  BY <1>1 DEF InFilling
<1>5. ASSUME Len(ps) = 2
      PROVE  /\ Packet(ps[2])' /\ After(ps[2].bytes)' = InFilling /\ InSecond = ps[2].bytes[1]
             /\ ps[2].bytes # <<>>
  <2>1. PICK p : p = ps[2]
    OBVIOUS
  <2>2. Packet(p) /\ After(p.bytes) = InFilling /\ InSecond = p.bytes[1]
    BY <1>2, <1>5, <2>1 DEF EndpointInv, InSecond
  <2>3. Packet(p)' /\ After(p.bytes)' = After(p.bytes)
    BY <1>1, <2>2, PacketKept
  <2> QED
    BY <2>1, <2>2, <2>3 DEF Packet, Piece
<1>6. Len(ps) = 1 => InSecond = InFilling
  BY <1>2 DEF InSecond
<1>7. ASSUME filling # <<>>
      PROVE  /\ outState' = "SEND_DATA" /\ Piece(filling)' /\ ~EndsFrame(filling)'
             /\ Len(filling') < PacketBytes /\ After(filling)' = ByteToSend'
  <2>1. PICK f : f = filling
    OBVIOUS
  <2>2. /\ Piece(f) /\ ~EndsFrame(f) /\ After(f) = ByteToSend /\ FrameOf(f) \in 1 .. Received
        /\ outState = "SEND_DATA" /\ Len(f) < PacketBytes
    BY <1>7, <2>1 DEF EndpointInv, Piece
  <2>3. Piece(f)' /\ ~EndsFrame(f)' /\ After(f)' = ByteToSend'
    BY <1>1, <2>2, PieceKept
  <2>4. /\ Piece(filling)' = Piece(f)' /\ EndsFrame(filling)' = EndsFrame(f)'
        /\ After(filling)' = After(f)'
    BY <2>1 DEF Piece, EndsFrame, After, FrameOf
  <2> QED
    BY <1>1, <2>1, <2>2, <2>3, <2>4
<1>8. filling' \in Seq(Places)
  BY DEF EndpointInv
<1>9. CASE FullLast(ps[1])
  <2>1. packets' = <<EmptyPacket>> \o Tail(ps)
    BY <1>2, <1>3, <1>9 DEF AfterPacket, EmptyPacket
  <2>2. /\ packets' \in Seq([bytes : Seq(Places), last : BOOLEAN]) /\ Len(packets') = Len(ps)
        /\ packets'[1] = EmptyPacket /\ packets' # <<>>
        /\ Len(ps) = 2 => packets'[2] = ps[2]
    <3>1. EmptyPacket \in [bytes : Seq(Places), last : BOOLEAN]
      BY DEF EmptyPacket
    <3>2. PICK t \in Seq([bytes : Seq(Places), last : BOOLEAN]) : t = Tail(ps)
      BY <1>3
    <3>3. packets' = <<EmptyPacket>> \o t
      BY <2>1, <3>2
    <3> QED
      BY <1>3, <3>1, <3>2, <3>3
  <2>3. InSecond' = InSecond
    BY <1>3, <1>4, <1>5, <1>6, <2>2 DEF InSecond
  <2>4. InFirst' = InSecond'
    BY <2>2 DEF InFirst, EmptyPacket
  <2>5. ASSUME Len(packets') = 2
        PROVE  Packet(packets[2])' /\ After(packets[2].bytes)' = InFilling'
    <3>1. PICK p : p = ps[2]
      OBVIOUS
    <3>2. packets'[2] = p /\ Packet(p)' /\ After(p.bytes)' = InFilling'
      BY <1>4, <1>5, <2>2, <2>5, <3>1
    <3> QED
      BY <3>2 DEF Packet, Piece, EndsFrame, After, FrameOf
  <2>6. EndpointInv'
    <3>1. packets' \in Seq([bytes : Seq(Places), last : BOOLEAN]) /\ Len(packets') <= 2
      BY <1>3, <2>2, Zenon
    <3>2. filling' # <<>> => filling # <<>>
      OBVIOUS
    <3> QED
      BY <1>7, <1>8, <2>2, <2>5, <3>1, <3>2 DEF EndpointInv
  <2> QED
    BY <1>2, <1>9, <2>2, <2>3, <2>4, <2>6
<1>10. CASE ~FullLast(ps[1])
  <2>1. packets' = Tail(ps)
    BY <1>2, <1>3, <1>10 DEF AfterPacket
  <2>2. CASE Len(ps) = 1
    <3>1. packets' = <<>> /\ Len(packets') = 0
      BY <1>3, <2>1, <2>2
    <3>2. InFirst' = InSecond
      BY <1>4, <1>6, <2>2, <3>1 DEF InFirst, InSecond
    <3>3. EndpointInv'
      <4>1. packets' \in Seq([bytes : Seq(Places), last : BOOLEAN]) /\ Len(packets') <= 2
        BY <1>3, <2>1, <3>1
      <4>2. Len(packets') # 2 /\ ~(Len(packets') >= 1)
        BY <3>1
      <4>3. filling' # <<>> => filling # <<>>
        OBVIOUS
      <4> QED
        BY <1>7, <1>8, <4>1, <4>2, <4>3 DEF EndpointInv
    <3> QED
      BY <1>2, <1>10, <3>1, <3>2, <3>3
  <2>3. CASE Len(ps) = 2
    <3>1. packets' # <<>> /\ Len(packets') = 1 /\ packets'[1] = ps[2]
      BY <1>3, <2>1, <2>3
    <3>2. PICK p : p = ps[2]
      OBVIOUS
    <3>3. Packet(p)' /\ After(p.bytes)' = InFilling /\ p.bytes # <<>> /\ InSecond = p.bytes[1]
      BY <1>5, <2>3, <3>2
    <3>4. InSecond' = InFilling' /\ InFirst' = p.bytes[1]
      BY <3>1, <3>2, <3>3 DEF InFirst, InSecond
    <3>5. Packet(packets[1])' /\ After(packets[1].bytes)' = InSecond'
      <4>1. Packet(packets[1])' <=> Packet(p)'
        BY <3>1, <3>2 DEF Packet, Piece, EndsFrame, After, FrameOf
      <4>2. After(packets[1].bytes)' = After(p.bytes)'
        BY <3>1, <3>2 DEF EndsFrame, After, FrameOf
      <4> QED
        BY <1>4, <3>3, <3>4, <4>1, <4>2
    <3>6. EndpointInv'
      <4>1. packets' \in Seq([bytes : Seq(Places), last : BOOLEAN]) /\ Len(packets') <= 2
        BY <1>3, <2>1, <3>1
      <4>2. Len(packets') # 2
        BY <3>1
      <4>3. filling' # <<>> => filling # <<>>
        OBVIOUS
      <4> QED
        BY <1>7, <1>8, <3>5, <4>1, <4>2, <4>3 DEF EndpointInv
    <3>7. packets'[1] # EmptyPacket
      BY <3>1, <3>2, <3>3 DEF EmptyPacket
    <3> QED
      BY <1>2, <1>10, <3>3, <3>4, <3>6, <3>7
  <2> QED
    BY <1>3, <2>2, <2>3
<1> QED
  BY <1>9, <1>10

\* The skbs the stack has stay what they are.
LEMMA StackKept ==
  ASSUME RxInv, Prolongs, UNCHANGED <<received, rxLens>>, cuts' \in Nat, cuts' >= cuts,
         InBuffer'[1] \in Nat, InBuffer'[1] >= InBuffer[1],
         \/ InBuffer'[2] = 1 \/ cuts' >= cuts + 1 \/ InBuffer'[2] = InBuffer[2],
         InBuffer[1] \in Nat
  PROVE  StackInv'
<1> USE DEF RxInv
<1>1. \A n \in DOMAIN received : FrameOf(received[n]) \in 1 .. Received
  BY DEF StackInv, Piece
<1>2. Torn' = Torn
  BY <1>1, TornKept
<1>3. ASSUME NEW n \in DOMAIN received
      PROVE  Piece(received[n])' /\ EndsFrame(received[n])' /\ FrameOf(received[n])' < InBuffer'[1]
  <2>1. PICK s : s = received[n]
    OBVIOUS
  <2>2. Piece(s)' /\ EndsFrame(s)'
    BY <1>1, <2>1, PieceKept DEF StackInv
  <2>3. FrameOf(s) \in Nat /\ FrameOf(s) < InBuffer[1]
    BY <2>1, PieceType DEF StackInv
  <2>4. FrameOf(s) < InBuffer'[1]
    BY <2>3
  <2> QED
    BY <2>1, <2>2, <2>4 DEF Piece, EndsFrame, FrameOf
<1>4. SkbsInOrder'
  BY DEF StackInv, SkbsInOrder, FrameOf
<1>5. IsFiniteSet(Torn) /\ Cardinality(Torn) \in Nat
  <2>1. PICK n \in Nat : DOMAIN received = 1 .. n
    BY DEF StackInv
  <2> QED
    <3>1. IsFiniteSet(1 .. n)
      BY FS_Interval
    <3>2. Torn \subseteq 1 .. n
      BY <2>1 DEF Torn
    <3>3. IsFiniteSet(Torn)
      BY <3>1, <3>2, FS_Subset
    <3> QED
      BY <3>3, FS_CardinalityType
<1>6. Cardinality(Torn) + (IF InBuffer'[2] = 1 THEN 0 ELSE 1) <= cuts'
  <2>1. Cardinality(Torn) + (IF InBuffer[2] = 1 THEN 0 ELSE 1) <= cuts /\ cuts \in Nat
    BY DEF StackInv, BufferInv
  <2> QED
    BY <1>5, <2>1
<1> QED
  BY <1>2, <1>3, <1>4, <1>6 DEF StackInv

\* The first byte that waits is one of some frame.
LEMMA PlacesBehind ==
  ASSUME RxInv
  PROVE  /\ ByteToSend \in Places /\ InFilling \in Places /\ InSecond \in Places
         /\ InFirst \in Places /\ InBuffer \in Places
<1> USE DEF RxInv
<1>1. ByteToSend \in Places
  BY FramesType DEF ByteToSend, OutSizes, OutTypes, Places
<1>2. InFilling \in Places
  BY <1>1, PieceType DEF InFilling, EndpointInv
<1>3. InSecond \in Places
  <2>1. CASE Len(packets) = 2
    <3>1. Piece(packets[2].bytes) /\ InSecond = packets[2].bytes[1]
      BY <2>1 DEF EndpointInv, InSecond, Packet
    <3> QED
      BY <3>1, PieceType
  <2>2. CASE Len(packets) # 2
    BY <1>2, <2>2 DEF InSecond
  <2> QED
    BY <2>1, <2>2
<1>4. InFirst \in Places
  <2>1. CASE packets # <<>> /\ packets[1].bytes # <<>>
    <3>1. Len(packets) >= 1
      BY <2>1 DEF EndpointInv
    <3>2. packets[1] # EmptyPacket
      BY <2>1 DEF EmptyPacket
    <3>3. Piece(packets[1].bytes) /\ InFirst = packets[1].bytes[1]
      BY <2>1, <3>1, <3>2 DEF EndpointInv, InFirst, Packet
    <3> QED
      BY <3>3, PieceType
  <2>2. CASE packets = <<>> \/ packets[1].bytes = <<>>
    BY <1>3, <2>2 DEF InFirst
  <2> QED
    BY <2>1, <2>2
<1>5. InBuffer \in Places
  BY <1>4, PieceType DEF InBuffer, BufferInv
<1> QED
  BY <1>1, <1>2, <1>3, <1>4, <1>5

LEMMA UrbPacketKeeps == RxInv /\ UrbPacket => RxInv'
<1> SUFFICES ASSUME RxInv, UrbPacket PROVE RxInv'
  OBVIOUS
<1> USE DEF RxInv
<1>1. /\ urb = "active" /\ packets # <<>> /\ packets' = AfterPacket
      /\ buffer' = buffer \o Head(packets).bytes
      /\ urb' = IF Len(Head(packets).bytes) < PacketBytes \/ Len(buffer') = UrbBytes
                THEN "done" ELSE "active"
      /\ UNCHANGED <<fsmVars, outData, outSize, writerVars, filling>>
      /\ UNCHANGED <<up, received, refused, cuts>>
  BY DEF UrbPacket, deviceVars
<1>2. UNCHANGED <<rxLens, rxWords>>
  BY <1>1 DEF writerVars
<1>3. /\ OutTypes' /\ OutSizes' /\ WordsInOrder' /\ Prolongs
  BY <1>1, FifosKept
<1>4. PICK p : p = packets[1]
  OBVIOUS
<1>5. /\ EndpointInv' /\ InFirst' = InSecond
      /\ FullLast(p) => packets' # <<>> /\ packets'[1] = EmptyPacket
      /\ ~FullLast(p) => packets' = <<>> \/ packets'[1] # EmptyPacket
  BY <1>1, <1>4, PacketTaken
<1>6. Head(packets) = p
  BY <1>1, <1>4 DEF EndpointInv
<1>7. Len(packets) >= 1
  BY <1>1 DEF EndpointInv
<1>8. buffer # <<>> => /\ Piece(buffer) /\ After(buffer) = InFirst /\ buffer \in Seq(Places)
                       /\ EndsFrame(buffer) <=> p = EmptyPacket
  BY <1>1, <1>4 DEF BufferInv, Piece
<1>9. up' \in BOOLEAN /\ ~up' => urb' = "idle"
  BY <1>1 DEF BufferInv
<1>10. urb' # "idle" /\ urb' # "failed" /\ urb' \in {"done", "active"} /\ up'
  BY <1>1 DEF BufferInv
<1>11. InBuffer' = InBuffer => StackInv'
  <2> SUFFICES ASSUME InBuffer' = InBuffer PROVE StackInv'
    OBVIOUS
  <2>1. InBuffer[1] \in Nat /\ cuts \in Nat
    BY PlacesBehind DEF Places, BufferInv
  <2> QED
    BY <1>1, <1>2, <1>3, <2>1, StackKept
<1>12. CASE p = EmptyPacket
  <2>1. p.bytes = <<>> /\ Len(p.bytes) = 0
    BY <1>12 DEF EmptyPacket
  <2>2. buffer' = buffer
    <3>1. CASE buffer = <<>>
      BY <1>1, <1>6, <2>1, <3>1
    <3>2. CASE buffer # <<>>
      BY <1>1, <1>6, <1>8, <2>1, <3>2
    <3> QED
      BY <3>1, <3>2
  <2>3. urb' = "done"
    BY <1>1, <1>6, <2>1, Constants
  <2>4. InFirst = InSecond
    BY <1>4, <2>1 DEF InFirst
  <2>5. InBuffer' = InBuffer
    BY <1>5, <2>2, <2>4 DEF InBuffer
  <2>6. ~FullLast(p)
    BY <2>1, Constants DEF FullLast
  <2>7. CASE buffer = <<>>
    <3>1. BufferInv'
      BY <1>1, <1>9, <1>10, <2>2, <2>3, <2>7 DEF BufferInv, IdleOnlyRefused
    <3> QED
      BY <1>3, <1>5, <1>11, <2>5, <3>1
  <2>8. CASE buffer # <<>>
    <3>1. PICK s : s = buffer
      OBVIOUS
    <3>2. Piece(s) /\ After(s) = InFirst /\ EndsFrame(s)
      BY <1>8, <1>12, <2>8, <3>1
    <3>3. Piece(s)' /\ After(s)' = InFirst' /\ EndsFrame(s)'
      BY <1>3, <1>5, <2>4, <3>2, PieceKept DEF Piece
    <3>4. Piece(buffer)' /\ After(buffer)' = InFirst' /\ EndsFrame(buffer)'
      BY <2>2, <3>1, <3>3 DEF Piece, EndsFrame, After, FrameOf
    <3>5. BufferInv'
      BY <1>1, <1>9, <1>10, <2>3, <3>4 DEF BufferInv, IdleOnlyRefused
    <3> QED
      BY <1>3, <1>5, <1>11, <2>5, <3>5
  <2> QED
    BY <2>7, <2>8
<1>13. CASE p # EmptyPacket
  <2>1. Packet(p) /\ After(p.bytes) = InSecond
    BY <1>4, <1>7, <1>13 DEF EndpointInv
  <2>2. PICK t : t = p.bytes
    OBVIOUS
  <2>3. /\ Piece(t) /\ t # <<>> /\ t \in Seq(Places) /\ Len(t) \in Nat
        /\ Len(t) <= PacketBytes /\ (Len(t) < PacketBytes => EndsFrame(t))
        /\ FullLast(p) <=> EndsFrame(t) /\ Len(t) = PacketBytes
    <3>1. Piece(t) /\ Len(t) <= PacketBytes
      BY <2>1, <2>2 DEF Packet
    <3>2. t # <<>> /\ t \in Seq(Places) /\ Len(t) \in Nat
      BY <3>1 DEF Piece
    <3>3. Len(t) < PacketBytes => EndsFrame(t)
      BY <2>1, <2>2, <3>2, Constants DEF Packet
    <3>4. FullLast(p) <=> EndsFrame(t) /\ Len(t) = PacketBytes
      BY <2>1, <2>2 DEF Packet, FullLast
    <3> QED
      BY <3>1, <3>2, <3>3, <3>4
  <2>4. InFirst = t[1] /\ After(t) = InSecond
    BY <1>1, <1>4, <2>1, <2>2, <2>3 DEF InFirst
  <2>5. PICK nb : nb = buffer \o t
    OBVIOUS
  <2>6. /\ Piece(nb) /\ nb[1] = InBuffer /\ After(nb) = InSecond
        /\ EndsFrame(nb) <=> EndsFrame(t)
    <3>1. CASE buffer = <<>>
      <4>1. nb = t
        BY <2>3, <2>5, <3>1
      <4> QED
        BY <2>3, <2>4, <3>1, <4>1 DEF InBuffer
    <3>2. CASE buffer # <<>>
      <4>1. PICK s : s = buffer
        OBVIOUS
      <4>2. Piece(s) /\ After(s) = InFirst /\ ~EndsFrame(s) /\ s[1] = InBuffer
        BY <1>8, <1>13, <3>2, <4>1 DEF InBuffer
      <4>3. /\ Piece(s \o t) /\ (s \o t)[1] = s[1] /\ After(s \o t) = After(t)
            /\ EndsFrame(s \o t) <=> EndsFrame(t)
        BY <2>3, <2>4, <4>2, PiecesJoin
      <4> QED
        BY <2>4, <2>5, <4>1, <4>2, <4>3
    <3> QED
      BY <3>1, <3>2
  <2>7. buffer' = nb
    BY <1>1, <1>6, <2>2, <2>5
  <2>8. Len(nb) = UrbBytes => EndsFrame(nb)
    <3> SUFFICES ASSUME Len(nb) = UrbBytes PROVE EndsFrame(nb)
      OBVIOUS
    <3>1. PICK len \in OutLens : len = rxLens[FrameOf(nb)]
      BY <2>6, PieceType
    <3>2. len \in Nat /\ len <= UrbBytes /\ nb[1][2] \in Nat /\ UrbBytes \in Nat
      BY <2>6, <3>1, PieceType, LensType, Constants
    <3>3. nb[1][2] >= 1 /\ nb[1][2] + UrbBytes - 1 <= len
      BY <2>6, <3>1 DEF Piece
    <3>4. nb[1][2] + UrbBytes - 1 = len
      BY <3>2, <3>3
    <3> QED
      BY <3>1, <3>4 DEF EndsFrame
  <2>9. urb' = "done" => EndsFrame(nb)
    BY <1>1, <1>6, <2>2, <2>3, <2>6, <2>7, <2>8
  <2>10. urb' = "active" /\ EndsFrame(nb) => FullLast(p)
    BY <1>1, <1>6, <2>2, <2>3, <2>6, Constants
  <2>11. ~EndsFrame(nb) => ~FullLast(p)
    BY <2>3, <2>6
  <2>12. Piece(nb)' /\ After(nb)' = InFirst' /\ EndsFrame(nb)' = EndsFrame(nb)
    BY <1>3, <1>5, <2>6, PieceKept DEF Piece
  <2>13. /\ Piece(buffer)' /\ After(buffer)' = InFirst'
         /\ EndsFrame(buffer)' <=> EndsFrame(nb)
    BY <2>7, <2>12 DEF Piece, EndsFrame, After, FrameOf
  <2>14. BufferInv'
    BY <1>1, <1>5, <1>9, <1>10, <2>9, <2>10, <2>11, <2>13 DEF BufferInv, IdleOnlyRefused
  <2>15. nb # <<>>
    BY <2>6 DEF Piece
  <2>16. InBuffer' = InBuffer
    BY <2>6, <2>7, <2>15 DEF InBuffer
  <2> QED
    BY <1>3, <1>5, <1>11, <2>14, <2>16
<1> QED
  BY <1>12, <1>13

\* A step of the driver that takes no packet.
LEMMA DeviceKept ==
  ASSUME RxInv, UNCHANGED outVars
  PROVE  /\ OutTypes' /\ OutSizes' /\ WordsInOrder' /\ EndpointInv' /\ Prolongs
         /\ UNCHANGED <<rxLens, packets>> /\ InFirst' = InFirst
<1> USE DEF RxInv
<1>1. UNCHANGED <<fsmVars, outData, outSize, writerVars, filling, packets, rxLens, outState>>
  BY DEF outVars, endpointVars, fsmVars, writerVars
<1>2. OutTypes' /\ OutSizes' /\ WordsInOrder' /\ Prolongs /\ ByteToSend' = ByteToSend
  BY <1>1, FifosKept
<1>3. InFilling' = InFilling /\ InSecond' = InSecond /\ InFirst' = InFirst
  BY <1>1, <1>2 DEF InFilling, InSecond, InFirst
<1>4. \A s : /\ Piece(s)' <=> Piece(s)
             /\ EndsFrame(s)' <=> EndsFrame(s)
             /\ After(s)' = After(s)
  BY <1>1 DEF Piece, EndsFrame, After, Received, FrameOf
<1>5. EndpointInv'
  <2>1. PICK f, ps : f = filling /\ ps = packets
    OBVIOUS
  <2>2. /\ Piece(filling)' <=> Piece(f)'
        /\ EndsFrame(filling)' <=> EndsFrame(f)'
        /\ After(filling)' = After(f)'
    BY <1>1, <2>1 DEF Piece, EndsFrame, After, FrameOf
  <2>3. /\ Packet(packets[2])' <=> Packet(ps[2])
        /\ Packet(packets[1])' <=> Packet(ps[1])
        /\ After(packets[2].bytes)' = After(ps[2].bytes)
        /\ After(packets[1].bytes)' = After(ps[1].bytes)
    <3>1. /\ Packet(packets[2])' <=> Packet(ps[2])'
          /\ Packet(packets[1])' <=> Packet(ps[1])'
          /\ After(packets[2].bytes)' = After(ps[2].bytes)'
          /\ After(packets[1].bytes)' = After(ps[1].bytes)'
      BY <1>1, <2>1 DEF Packet, Piece, EndsFrame, After, FrameOf
    <3>2. \A p : Packet(p)' <=> Packet(p)
      BY <1>4 DEF Packet
    <3> QED
      BY <1>4, <3>1, <3>2
  <2> QED
    BY <1>1, <1>2, <1>3, <1>4, <2>1, <2>2, <2>3 DEF EndpointInv
<1> QED
  BY <1>1, <1>2, <1>3, <1>5

LEMMA WholePiece ==
  ASSUME OutTypes, NEW s, Piece(s), EndsFrame(s)
  PROVE  EndOf(s) /\ (s[1][2] = 1 => Whole(s))
<1>1. /\ Len(s) \in Nat /\ FrameOf(s) \in Nat /\ s[1][2] \in Nat /\ s[1][2] >= 1 /\ Len(s) >= 1
      /\ s \in Seq(Places) /\ rxLens[FrameOf(s)] \in Nat
  BY PieceType DEF Piece
<1>2. PICK i \in Nat, j \in Nat : i = s[1][2] /\ j = rxLens[FrameOf(s)]
  BY <1>1
<1>3. j = i + Len(s) - 1 /\ i >= 1 /\ i <= j /\ j - i + 1 = Len(s)
  BY <1>1, <1>2 DEF EndsFrame
<1>4. s = Part(FrameOf(s), i, j)
  <2>1. s = [b \in 1 .. Len(s) |-> s[b]]
    BY <1>1
  <2>2. \A b \in 1 .. Len(s) : s[b] = <<FrameOf(s), i + b - 1>>
    BY <1>2 DEF Piece
  <2>3. s = [b \in 1 .. Len(s) |-> <<FrameOf(s), i + b - 1>>]
    BY <2>1, <2>2
  <2> QED
    BY <1>3, <2>3 DEF Part
<1>5. i \in 1 .. j
  BY <1>2, <1>3
<1>6. EndOf(s)
  BY <1>2, <1>4, <1>5 DEF EndOf
<1>7. i = 1 => Whole(s)
  BY <1>2, <1>4 DEF Whole
<1> QED
  BY <1>2, <1>6, <1>7

\* The callback, or close: the skb goes up, or its bytes are lost.
LEMMA SkbGoes ==
  ASSUME RxInv, UNCHANGED outVars, Deliver, Cut, buffer' = <<>>
  PROVE  StackInv' /\ cuts' \in Nat
<1> USE DEF RxInv
<1>1. /\ OutTypes' /\ Prolongs /\ UNCHANGED rxLens /\ InFirst' = InFirst
  BY DeviceKept
<1>2. InBuffer' = InFirst
  BY <1>1 DEF InBuffer
<1>3. PICK s : s = buffer
  OBVIOUS
<1>4. cuts \in Nat /\ cuts' \in Nat /\ cuts' >= cuts
  BY DEF Cut, BufferInv
<1>5. InBuffer[1] \in Nat /\ InFirst[1] \in Nat
  BY PlacesBehind DEF Places
<1>6. s # <<>> => /\ Piece(s) /\ After(s) = InFirst /\ InBuffer = s[1]
                  /\ InFirst[1] >= InBuffer[1]
  BY <1>3, PieceType DEF BufferInv, InBuffer, FrameOf
<1>7. CASE urb = "done" /\ Len(s) >= MinBytes
  <2>1. s # <<>>
    <3>1. s = <<>> => Len(s) = 0
      OBVIOUS
    <3> QED
      BY <1>7, <3>1, Constants
  <2>2. Piece(s) /\ EndsFrame(s) /\ s \in Seq(Places) /\ InBuffer = s[1] /\ After(s) = InFirst
    BY <1>3, <1>6, <1>7, <2>1 DEF BufferInv, Piece
  <2>3. InFirst[1] = FrameOf(s) + 1 /\ InFirst[2] = 1 /\ FrameOf(s) \in Nat /\ InBuffer[1] = FrameOf(s)
    BY <2>2, PieceType DEF FrameOf
  <2>4. received' = Append(received, s) /\ cuts' = cuts
    BY <1>3, <1>7 DEF Deliver, Cut
  <2>5. PICK n \in Nat : n = Len(received)
    BY DEF StackInv
  <2>6. /\ received' \in Seq(Seq(Places)) /\ DOMAIN received' = 1 .. n + 1 /\ DOMAIN received = 1 .. n
        /\ received'[n + 1] = s
        /\ \A m \in 1 .. n : received'[m] = received[m]
    BY <2>2, <2>4, <2>5 DEF StackInv
  <2>7. Piece(s)' /\ EndsFrame(s)' /\ FrameOf(s) \in 1 .. Received
    BY <1>1, <2>2, PieceKept DEF Piece
  <2>8. ASSUME NEW m \in 1 .. n + 1
        PROVE  Piece(received[m])' /\ EndsFrame(received[m])' /\ FrameOf(received[m])' < InBuffer'[1]
    <3>1. PICK q : q = received'[m]
      OBVIOUS
    <3>2. Piece(q)' /\ EndsFrame(q)' /\ FrameOf(q) < InBuffer'[1]
      <4>1. CASE m \in 1 .. n
        <5>1. Piece(q) /\ EndsFrame(q) /\ FrameOf(q) < InBuffer[1]
          BY <2>6, <3>1, <4>1 DEF StackInv
        <5>2. FrameOf(q) \in Nat /\ FrameOf(q) \in 1 .. Received
          BY <5>1, PieceType DEF Piece
        <5> QED
          BY <1>1, <1>2, <2>3, <5>1, <5>2, PieceKept
      <4>2. CASE m = n + 1
        <5>1. q = s
          BY <2>6, <3>1, <4>2
        <5> QED
          BY <1>2, <2>3, <2>7, <5>1
      <4> QED
        BY <2>5, <4>1, <4>2
    <3> QED
      BY <3>1, <3>2 DEF Piece, EndsFrame, FrameOf
  <2>9. SkbsInOrder'
    <3> SUFFICES ASSUME NEW a \in 1 .. n + 1, NEW b \in 1 .. n + 1, a < b
                 PROVE  FrameOf(received'[a]) < FrameOf(received'[b])
      BY <2>6 DEF SkbsInOrder, FrameOf
    <3>1. a \in 1 .. n
      BY <2>5
    <3>2. CASE b \in 1 .. n
      BY <2>6, <3>1, <3>2 DEF StackInv, SkbsInOrder
    <3>3. CASE b = n + 1
      BY <2>3, <2>6, <3>1, <3>3 DEF StackInv
    <3> QED
      BY <2>5, <3>2, <3>3
  <2>10. IsFiniteSet(Torn) /\ Cardinality(Torn) \in Nat
    <3>1. IsFiniteSet(1 .. n)
      BY FS_Interval
    <3>2. Torn \subseteq 1 .. n
      BY <2>6 DEF Torn
    <3>3. IsFiniteSet(Torn)
      BY <3>1, <3>2, FS_Subset
    <3> QED
      BY <3>3, FS_CardinalityType
  <2>11. Whole(s)' <=> Whole(s)
    BY <1>1, <2>7, PieceKept
  <2>12. Torn' = Torn \cup (IF Whole(s) THEN {} ELSE {n + 1})
    <3>1. \A m \in 1 .. n : Whole(received[m])' <=> Whole(received[m])
      BY <1>1, <2>6 DEF Whole, FrameOf
    <3>2. Whole(received[n + 1])' <=> Whole(s)
      BY <2>6, <2>11 DEF Whole, FrameOf
    <3>3. n + 1 \notin 1 .. n /\ 1 .. n + 1 = (1 .. n) \cup {n + 1}
      BY <2>5
    <3>4. Torn' = {m \in 1 .. n + 1 : ~Whole(received[m])'}
      BY <2>6 DEF Torn
    <3>5. Torn = {m \in 1 .. n : ~Whole(received[m])}
      BY <2>6 DEF Torn
    <3> QED
      BY <3>1, <3>2, <3>3, <3>4, <3>5
  <2>13. Cardinality(Torn') <= Cardinality(Torn) + (IF s[1][2] = 1 THEN 0 ELSE 1)
    <3>1. s[1][2] = 1 => Whole(s)
      BY <2>2, WholePiece
    <3>2. CASE Whole(s)
      <4>1. Torn' = Torn
        BY <2>12, <3>2
      <4> QED
        BY <2>10, <4>1
    <3>3. CASE ~Whole(s)
      <4>1. Torn' = Torn \cup {n + 1} /\ n + 1 \notin Torn
        BY <2>5, <2>6, <2>12, <3>3 DEF Torn
      <4>2. Cardinality(Torn') = Cardinality(Torn) + 1
        BY <2>10, <4>1, FS_AddElement
      <4> QED
        BY <2>10, <3>1, <3>3, <4>2
    <3> QED
      BY <3>2, <3>3
  <2>14. Cardinality(Torn') \in Nat
    <3>1. IsFiniteSet(Torn')
      <4>1. Torn' = Torn \/ Torn' = Torn \cup {n + 1}
        BY <2>12
      <4> QED
        BY <2>10, <4>1, FS_AddElement
    <3> QED
      BY <3>1, FS_CardinalityType
  <2>15. Cardinality(Torn)' + (IF InBuffer'[2] = 1 THEN 0 ELSE 1) <= cuts'
    <3>1. Cardinality(Torn) + (IF s[1][2] = 1 THEN 0 ELSE 1) <= cuts
      BY <2>2 DEF StackInv
    <3>2. InBuffer'[2] = 1
      BY <1>2, <2>3
    <3> QED
      BY <1>4, <2>4, <2>10, <2>13, <2>14, <3>1, <3>2
  <2> QED
    BY <1>4, <2>6, <2>8, <2>9, <2>15 DEF StackInv
<1>8. CASE ~(urb = "done" /\ Len(s) >= MinBytes)
  <2>1. received' = received
    BY <1>3, <1>8 DEF Deliver
  <2>2. InFirst[1] >= InBuffer[1]
    <3>1. s = <<>> => InFirst = InBuffer
      BY <1>3 DEF InBuffer
    <3> QED
      BY <1>5, <1>6, <3>1
  <2>3. InFirst[2] = 1 \/ cuts' >= cuts + 1 \/ InFirst[2] = InBuffer[2]
    <3>1. CASE s = <<>>
      BY <1>3, <3>1 DEF InBuffer
    <3>2. CASE s # <<>> /\ urb = "done"
      BY <1>3, <1>6, <3>2, PieceType DEF BufferInv
    <3>3. CASE s # <<>> /\ urb # "done"
      BY <1>3, <1>4, <3>3 DEF Cut
    <3> QED
      BY <3>1, <3>2, <3>3
  <2> QED
    BY <1>1, <1>2, <1>4, <1>5, <2>1, <2>2, <2>3, StackKept
<1> QED
  BY <1>7, <1>8

LEMMA CallbackKeeps == RxInv /\ Callback => RxInv'
<1> SUFFICES ASSUME RxInv, Callback PROVE RxInv'
  OBVIOUS
<1>1. /\ urb \in {"done", "failed"} /\ Deliver /\ Cut /\ buffer' = <<>> /\ UNCHANGED outVars
      /\ up' = up /\ urb' \in {"active", "idle"}
      /\ urb' = "idle" => refused'
  BY DEF Callback, Accepted, Refused
<1>2. StackInv' /\ cuts' \in Nat
  BY <1>1, SkbGoes
<1>3. up /\ up \in BOOLEAN
  BY <1>1 DEF RxInv, BufferInv
<1>4. BufferInv'
  BY <1>1, <1>2, <1>3 DEF BufferInv, IdleOnlyRefused
<1> QED
  BY <1>1, <1>2, <1>4, DeviceKept DEF RxInv

LEMMA CloseKeeps == RxInv /\ Close => RxInv'
<1> SUFFICES ASSUME RxInv, Close PROVE RxInv'
  OBVIOUS
<1>1. /\ Deliver /\ Cut /\ buffer' = <<>> /\ UNCHANGED outVars
      /\ up' = FALSE /\ urb' = "idle"
  BY DEF Close
<1>2. StackInv' /\ cuts' \in Nat
  BY <1>1, SkbGoes
<1>3. BufferInv'
  BY <1>1, <1>2 DEF RxInv, BufferInv, IdleOnlyRefused
<1> QED
  BY <1>1, <1>2, <1>3, DeviceKept DEF RxInv

LEMMA OpenKeeps == RxInv /\ (Open \/ UrbFails) => RxInv'
<1> SUFFICES ASSUME RxInv, Open \/ UrbFails PROVE RxInv'
  OBVIOUS
<1>1. /\ UNCHANGED outVars /\ UNCHANGED <<buffer, received, cuts>>
      /\ \/ ~up /\ urb' = "active" /\ up' = TRUE
         \/ UNCHANGED <<urb, up>> /\ refused'
         \/ urb = "active" /\ urb' = "failed" /\ up' = up
  BY DEF Open, UrbFails, Accepted, Refused
<1>2. OutTypes' /\ OutSizes' /\ WordsInOrder' /\ EndpointInv' /\ Prolongs
      /\ UNCHANGED <<rxLens, packets>> /\ InFirst' = InFirst
  BY <1>1, DeviceKept
<1>3. InBuffer' = InBuffer /\ InBuffer[1] \in Nat
  BY <1>1, <1>2, PlacesBehind DEF InBuffer, Places
<1>4. cuts' \in Nat /\ cuts' >= cuts
  BY <1>1 DEF RxInv, BufferInv
<1>5. StackInv'
  BY <1>1, <1>2, <1>3, <1>4, StackKept
<1>6. PICK s : s = buffer
  OBVIOUS
<1>7. s # <<>> => Piece(s)' /\ After(s)' = InFirst' /\ EndsFrame(s)' = EndsFrame(s)
  BY <1>2, <1>6, PieceKept DEF RxInv, BufferInv, Piece
<1>8. /\ Piece(buffer)' <=> Piece(s)'
      /\ EndsFrame(buffer)' <=> EndsFrame(s)'
      /\ After(buffer)' = After(s)'
  BY <1>1, <1>6 DEF Piece, EndsFrame, After, FrameOf
<1>9. BufferInv'
  <2>2. ~up => buffer = <<>> /\ urb = "idle"
    BY DEF RxInv, BufferInv
  <2>3. /\ up' \in BOOLEAN /\ urb' \in {"idle", "active", "done", "failed"}
        /\ urb' = "idle" => buffer' = <<>>
        /\ ~up' => urb' = "idle"
    BY <1>1 DEF RxInv, BufferInv
  <2>4. IdleOnlyRefused'
    BY <1>1 DEF IdleOnlyRefused
  <2>5. ASSUME buffer # <<>>
        PROVE  /\ Piece(s)' /\ After(s)' = InFirst'
               /\ urb' = "done" => EndsFrame(s)'
               /\ urb' = "active" /\ EndsFrame(s)' => packets' # <<>> /\ packets'[1] = EmptyPacket
               /\ ~EndsFrame(s)' => packets' = <<>> \/ packets'[1] # EmptyPacket
    BY <1>1, <1>2, <1>6, <1>7, <2>2, <2>5 DEF RxInv, BufferInv
  <2> QED
    BY <1>1, <1>4, <1>8, <2>3, <2>4, <2>5 DEF BufferInv
<1> QED
  BY <1>2, <1>5, <1>9 DEF RxInv

LEMMA RxStutter == RxInv /\ UNCHANGED rxVars => RxInv'
<1> SUFFICES ASSUME RxInv, UNCHANGED rxVars PROVE RxInv'
  OBVIOUS
<1>1. UNCHANGED outVars /\ UNCHANGED driverVars
  BY DEF rxVars
<1>2. OutTypes' /\ OutSizes' /\ WordsInOrder' /\ EndpointInv' /\ Prolongs
      /\ UNCHANGED packets /\ InFirst' = InFirst
  BY <1>1, DeviceKept
<1> QED
  BY <1>1, <1>2, DriverKept DEF RxInv

LEMMA RxInitInv == RxInit => RxInv
<1> SUFFICES ASSUME RxInit PROVE RxInv
  OBVIOUS
<1>1. /\ outState = "RESET" /\ packetSize = 0 /\ counter = 0 /\ outData = <<>> /\ outSize = <<>>
      /\ rxLens = <<>> /\ rxWords = 0 /\ filling = <<>> /\ packets = <<>>
      /\ up = FALSE /\ urb = "idle" /\ buffer = <<>> /\ received = <<>> /\ cuts = 0
  BY DEF RxInit, OutInit
<1>2. OutTypes
  BY <1>1 DEF OutTypes
<1>3. Received = 0 /\ ~Storing /\ Stored = 0 /\ Begun = 0 /\ Len(outData) = 0 /\ Len(outSize) = 0
  BY <1>1 DEF Received, Storing, Stored, Begun
<1>4. OutSizes
  BY <1>1, <1>3 DEF OutSizes
<1>5. WordToRead = <<1, 1>> /\ WordToStore = <<1, 1>> /\ ByteToSend = <<1, 1>>
  BY <1>1, <1>3 DEF WordToRead, WordToStore, ByteToSend
<1>6. WordsInOrder
  BY <1>3, <1>5 DEF WordsInOrder, WordAt
<1>7. Len(packets) = 0 /\ packets \in Seq([bytes : Seq(Places), last : BOOLEAN])
  BY <1>1
<1>8. EndpointInv
  BY <1>1, <1>7 DEF EndpointInv
<1>9. BufferInv
  BY <1>1 DEF BufferInv, IdleOnlyRefused
<1>10. InBuffer[2] = 1
  <2>1. InBuffer = ByteToSend
    BY <1>1, <1>7 DEF InBuffer, InFirst, InSecond, InFilling
  <2> QED
    BY <1>5, <2>1
<1>11. StackInv
  <2>1. DOMAIN received = {} /\ received \in Seq(Seq(Places))
    BY <1>1
  <2>2. Torn = {}
    BY <2>1 DEF Torn
  <2>3. Cardinality(Torn) = 0
    BY <2>2, FS_EmptySet
  <2> QED
    BY <1>1, <1>10, <2>1, <2>3 DEF StackInv, SkbsInOrder
<1> QED
  BY <1>2, <1>4, <1>6, <1>8, <1>9, <1>11 DEF RxInv

LEMMA RxInvariant == RxSpec => []RxInv
<1>1. RxInv /\ [RxNext]_rxVars => RxInv'
  BY FrameArrivesKeeps, StoreWordKeeps, LeaveResetKeeps, GetPacketSizeKeeps, SendDataKeeps,
     UrbPacketKeeps, CallbackKeeps, CloseKeeps, OpenKeeps, RxStutter
     DEF RxNext, Device, WriterStep, OutStep
<1> QED
  BY <1>1, RxInitInv, PTL DEF RxSpec

(***************************************************************************)
(* What the network stack can rely on.                                      *)
(***************************************************************************)
\* An skb that read_bulk_callback hands up holds bytes of one frame, up to its
\* end: the padding of the last word, a frame that fills its packets or the whole
\* buffer and the empty packet after it are told apart, for every length of frame,
\* packet and buffer.
THEOREM SkbsHoldFrames == RxSpec => []SkbsAreFrames
<1>1. RxInv => SkbsAreFrames
  <2> SUFFICES ASSUME RxInv, NEW n \in DOMAIN received
               PROVE  received[n] # <<>> /\ EndOf(received[n])
    BY DEF SkbsAreFrames
  <2>1. Piece(received[n]) /\ EndsFrame(received[n]) /\ OutTypes
    BY DEF RxInv, StackInv
  <2> QED
    BY <2>1, WholePiece DEF Piece
<1> QED
  BY <1>1, RxInvariant, PTL

\* Frames come up in the order they were received and none twice, through cuts,
\* close and open.
THEOREM SkbsKeepOrder == RxSpec => []SkbsInOrder
<1>1. RxInv => SkbsInOrder
  BY DEF RxInv, StackInv
<1> QED
  BY <1>1, RxInvariant, PTL

\* A frame arrives without its beginning only where an URB was cut off inside it,
\* at most one for each such URB.
THEOREM TearsAreCuts == RxSpec => []TornOnlyByCuts
<1>1. RxInv => TornOnlyByCuts
  <2> SUFFICES ASSUME RxInv PROVE Cardinality(Torn) <= cuts
    BY DEF TornOnlyByCuts, Torn
  <2>1. PICK n \in Nat : DOMAIN received = 1 .. n
    BY DEF RxInv, StackInv
  <2>2. IsFiniteSet(1 .. n) /\ Torn \subseteq 1 .. n
    BY <2>1, FS_Interval DEF Torn
  <2>3. Cardinality(Torn) \in Nat
    BY <2>2, FS_Subset, FS_CardinalityType
  <2>4. Cardinality(Torn) + (IF InBuffer[2] = 1 THEN 0 ELSE 1) <= cuts /\ cuts \in Nat
    BY DEF RxInv, StackInv, BufferInv
  <2> QED
    BY <2>3, <2>4
<1> QED
  BY <1>1, RxInvariant, PTL

\* No completion ends the receive path by itself, failed transfer or not: with the
\* interface open the URB lies idle only when the USB core refused its latest
\* submission.
THEOREM IdleMeansRefused == RxSpec => []IdleOnlyRefused
<1>1. RxInv => IdleOnlyRefused
  BY DEF RxInv, BufferInv
<1> QED
  BY <1>1, RxInvariant, PTL
=============================================================================
