------------------------------ MODULE UsbOutFifo ------------------------------
(***************************************************************************)
(* usb_out_from_fifo.py: takes the length of a frame from the size FIFO,    *)
(* then that many bytes, high byte first, from the words of the data FIFO,  *)
(* and streams them into the IN endpoint, which cuts them into packets.     *)
(* InjectData is the writer (GET_PACKET_DATA).                              *)
(*                                                                         *)
(* The length follows the words, so the data FIFO has to hold a whole frame. *)
(* Word w of frame k is <<k, w>>, byte i of frame k is <<k, i>>.            *)
(***************************************************************************)
EXTENDS Integers, Sequences

CONSTANTS OutLens,       \* lengths of received frames (64 .. 1536)
          MaxFrames,     \* bound: frames received
          DataDepth,     \* words of the data FIFO (6160)
          SizeDepth,     \* entries of the size FIFO (16)
          PacketBytes    \* bytes of a full USB packet (512)

WordBytes == 4
WordCount(n) == (n + WordBytes - 1) \div WordBytes

\* A frame fits the data FIFO.
OutDepthFits == \A n \in OutLens : WordCount(n) <= DataDepth

ASSUME OutAssumption ==
  /\ OutLens \subseteq Nat \ {0}
  /\ MaxFrames \in Nat /\ SizeDepth \in Nat \ {0} /\ PacketBytes \in Nat \ {0}
  /\ DataDepth \in Nat /\ OutDepthFits

VARIABLES
  outState, packetSize, counter,
  outData,    \* the data FIFO
  outSize,    \* the size FIFO
  rxLens,     \* lengths of the frames received; the last may be under way
  rxWords,    \* words of the last one that the writer has stored
  filling,    \* endpoint: bytes in the packet buffer being filled
  packets     \* endpoint: full or closed buffers that wait for the host

fsmVars == <<outState, packetSize, counter>>
writerVars == <<rxLens, rxWords>>
endpointVars == <<filling, packets>>
outVars == <<fsmVars, outData, outSize, writerVars, endpointVars>>

OutInit ==
  /\ outState = "RESET" /\ packetSize = 0 /\ counter = 0
  /\ outData = <<>> /\ outSize = <<>>
  /\ rxLens = <<>> /\ rxWords = 0
  /\ filling = <<>> /\ packets = <<>>

RRdy == outData # <<>>                  \* fifo_r_rdy
CountRRdy == outSize # <<>>             \* fifo_count_r_rdy
\* usb_out_fifo_w_rdy and usb_out_fifo_size_w_rdy
WRdy == Len(outData) < DataDepth /\ Len(outSize) < SizeDepth

(***************************************************************************)
(* The writer: a word when both FIFOs have room; the length with the last.  *)
(***************************************************************************)
Received == Len(rxLens)
Storing == Received > 0 /\ rxWords < WordCount(rxLens[Received])

FrameArrives ==
  /\ ~Storing /\ Received < MaxFrames
  /\ \E n \in OutLens : rxLens' = Append(rxLens, n)
  /\ rxWords' = 0
  /\ UNCHANGED <<fsmVars, outData, outSize, endpointVars>>

\* Mutant: the stored length is that of the words, with the padding.
StoreWordPadded ==
  /\ Storing
  /\ WRdy
  /\ outData' = Append(outData, <<Received, rxWords + 1>>)
  /\ rxWords' = rxWords + 1
  /\ outSize' = IF rxWords' = WordCount(rxLens[Received])
                THEN Append(outSize, WordBytes * rxWords') ELSE outSize
  /\ UNCHANGED <<fsmVars, rxLens, endpointVars>>

StoreWord ==
  /\ Storing
  /\ WRdy
  /\ outData' = Append(outData, <<Received, rxWords + 1>>)
  /\ rxWords' = rxWords + 1
  /\ outSize' = IF rxWords' = WordCount(rxLens[Received])
                THEN Append(outSize, rxLens[Received]) ELSE outSize
  /\ UNCHANGED <<fsmVars, rxLens, endpointVars>>

(***************************************************************************)
(* The FSM.                                                                 *)
(***************************************************************************)
LeaveReset ==
  /\ outState = "RESET"
  /\ outState' = "GET_PACKET_SIZE"
  /\ UNCHANGED <<packetSize, counter, outData, outSize, writerVars, endpointVars>>

GetPacketSize ==
  /\ outState = "GET_PACKET_SIZE"
  /\ CountRRdy
  /\ packetSize' = Head(outSize) /\ outSize' = Tail(outSize)
  /\ counter' = 0
  /\ outState' = "SEND_DATA"
  /\ UNCHANGED <<outData, writerVars, endpointVars>>

\* The endpoint has two packet buffers: one is filled while the other is sent.
Ready == Len(filling) < PacketBytes /\ Len(packets) < 2

\* A packet is closed when it is full and after the last byte of a frame.
Stream(byte, last) ==
  LET bytes == Append(filling, byte)
      closed == last \/ Len(bytes) = PacketBytes
  IN /\ filling' = IF closed THEN <<>> ELSE bytes
     /\ packets' = IF closed THEN Append(packets, [bytes |-> bytes, last |-> last])
                   ELSE packets

\* The host takes a packet.  A full one that ends a frame leaves an empty one
\* behind it, which tells the host that the transfer is over.
FullLast(p) == p.last /\ Len(p.bytes) = PacketBytes
AfterPacket ==
  IF FullLast(Head(packets))
  THEN <<[bytes |-> <<>>, last |-> TRUE]>> \o Tail(packets)
  ELSE Tail(packets)

CurrentByte ==
  LET word == Head(outData)
  IN <<word[1], WordBytes * (word[2] - 1) + (counter % WordBytes) + 1>>

\* Mutant: usb_last is not raised.
SendDataNoLast ==
  /\ outState = "SEND_DATA"
  /\ Ready /\ RRdy
  /\ LET last == counter = packetSize - 1
     IN /\ Stream(CurrentByte, FALSE)
        /\ outData' = IF last \/ (counter + 1) % WordBytes = 0
                      THEN Tail(outData) ELSE outData
        /\ outState' = IF last THEN "GET_PACKET_SIZE" ELSE "SEND_DATA"
        /\ counter' = IF last THEN counter ELSE counter + 1
  /\ UNCHANGED <<packetSize, outSize, writerVars>>

\* One byte; the word leaves the FIFO after its fourth, or the frame's last.
SendData ==
  /\ outState = "SEND_DATA"
  /\ Ready /\ RRdy
  /\ LET last == counter = packetSize - 1
     IN /\ Stream(CurrentByte, last)
        /\ outData' = IF last \/ (counter + 1) % WordBytes = 0
                      THEN Tail(outData) ELSE outData
        /\ outState' = IF last THEN "GET_PACKET_SIZE" ELSE "SEND_DATA"
        /\ counter' = IF last THEN counter ELSE counter + 1
  /\ UNCHANGED <<packetSize, outSize, writerVars>>

WriterStep == FrameArrives \/ StoreWord
OutStep == LeaveReset \/ GetPacketSize \/ SendData
=============================================================================
