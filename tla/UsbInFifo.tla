------------------------------- MODULE UsbInFifo -------------------------------
(***************************************************************************)
(* usb_in_to_fifo.py: the bytes of the OUT endpoint, each transfer a frame  *)
(* after a two-byte length, packed into words of the data FIFO; the length  *)
(* counted goes to the size FIFO with the last word.  InjectData is the     *)
(* reader (its IDLE, WRITE_DATA_PREPARE and WRITE_DATA states).             *)
(*                                                                         *)
(* Byte i of frame k is the pair <<k, i>>, a word the set of the bytes that *)
(* are or-ed into it.  The length bytes are read off the frame's length.    *)
(***************************************************************************)
EXTENDS Integers, Sequences

CONSTANTS Lens,          \* lengths the driver sends (5 .. 1536)
          MaxFrames,     \* bound: frames sent
          DataDepth,     \* words of the data FIFO (6160)
          SizeDepth,     \* entries of the size FIFO (16)
          Radix,         \* values of a byte (256)
          CounterRange,  \* values of counterr (2048)
          PacketSize     \* bytes of a full USB packet (512)

WordBytes == 4

\* The last word of a frame of n bytes.
WordCount(n) == (n + WordBytes - 1) \div WordBytes

ASSUME InLensAssumption ==
  /\ Lens \subseteq 1 .. (CounterRange - 1)
  /\ CounterRange \in Nat /\ CounterRange % WordBytes = 0
  /\ MaxFrames \in Nat /\ SizeDepth \in Nat \ {0} /\ Radix \in Nat \ {0}
  /\ PacketSize \in Nat \ {0}

\* A frame and its length word fit the data FIFO.
InDepthFits == \A n \in Lens : DataDepth >= 1 + WordCount(n)

ASSUME InDepthAssumption == DataDepth \in Nat /\ InDepthFits

VARIABLES
  inState,    \* FSM state
  txPktLen, counterr, payload,
  inData,     \* the data FIFO
  inSize,     \* the size FIFO
  sentLens,   \* lengths of the transfers begun by the host
  pos,        \* bytes of the current transfer the stream has moved on
  rdState,    \* the reader: "IDLE" or "WORDS"
  rdFrame     \* history: frames taken, [size, header, words]

usbVars == <<sentLens, pos>>
fsmVars == <<inState, txPktLen, counterr, payload>>
rdVars  == <<rdState, rdFrame>>
inVars  == <<fsmVars, inData, inSize, usbVars, rdVars>>

InInit ==
  /\ inState = "IDLE"
  /\ txPktLen = 0 /\ counterr = 0 /\ payload = {}
  /\ inData = <<>> /\ inSize = <<>>
  /\ sentLens = <<>> /\ pos = 0
  /\ rdState = "IDLE" /\ rdFrame = <<>>

(***************************************************************************)
(* The stream.                                                              *)
(***************************************************************************)
Current == Len(sentLens)
CurLen == sentLens[Current]

\* The transfer is over, or none has begun.
StreamEmpty == pos = (IF Current = 0 THEN 0 ELSE CurLen + 2)

HostTransfer ==
  /\ StreamEmpty
  /\ Current < MaxFrames
  /\ \E n \in Lens : sentLens' = Append(sentLens, n)
  /\ pos' = 0
  /\ UNCHANGED <<fsmVars, inData, inSize, rdVars>>

\* usb_last: the last byte of a transfer that a short packet ends.
UsbLast == pos = CurLen + 1 /\ (CurLen + 2) % PacketSize # 0

WRdy == Len(inData) < DataDepth         \* fifo_w_rdy

CountWRdy == Len(inSize) < SizeDepth    \* fifo_count_w_rdy
Ready == WRdy /\ CountWRdy

\* The stream moves on when its byte is accepted.
StreamStep == pos' = (IF Ready THEN pos + 1 ELSE pos) /\ UNCHANGED sentLens

(***************************************************************************)
(* The FSM.                                                                 *)
(***************************************************************************)
\* Mutant: the size FIFO is not looked at.
LeaveIdleBlind ==
  /\ inState = "IDLE"
  /\ WRdy
  /\ counterr' = 0 /\ payload' = {}
  /\ inState' = "GET_COUNT_0"
  /\ UNCHANGED <<txPktLen, inData, inSize, usbVars, rdVars>>

LeaveIdle ==
  /\ inState = "IDLE"
  /\ WRdy /\ CountWRdy
  /\ counterr' = 0 /\ payload' = {}
  /\ inState' = "GET_COUNT_0"
  /\ UNCHANGED <<txPktLen, inData, inSize, usbVars, rdVars>>

\* The high byte of the length.  The FSM moves on fifo_w_rdy alone, the stream
\* only if the size FIFO is ready too.
GetCount0 ==
  /\ inState = "GET_COUNT_0"
  /\ ~StreamEmpty /\ WRdy
  /\ txPktLen' = IF pos = 0 THEN (CurLen \div Radix) * Radix
                            ELSE (CurLen % Radix) * Radix
  /\ inState' = "GET_COUNT_1"
  /\ StreamStep
  /\ UNCHANGED <<counterr, payload, inData, inSize, rdVars>>

\* The low byte; the length becomes the header word.
GetCount1 ==
  /\ inState = "GET_COUNT_1"
  /\ ~StreamEmpty /\ WRdy
  /\ txPktLen' = txPktLen + (IF pos = 0 THEN CurLen \div Radix ELSE CurLen % Radix)
  /\ inData' = Append(inData, {<<Current, 0>>})
  /\ inState' = "GET_DATA"
  /\ StreamStep
  /\ UNCHANGED <<counterr, payload, inSize, rdVars>>

\* Mutant: the last word is written only when it is full.
GetDataFullWords ==
  /\ inState = "GET_DATA"
  /\ ~StreamEmpty /\ Ready
  /\ StreamStep
  /\ counterr' = (counterr + 1) % CounterRange
  /\ LET word == payload \cup {<<Current, pos - 1>>}
         full == (counterr + 1) % WordBytes = 0
     IN IF UsbLast \/ counterr + 1 = txPktLen
        THEN /\ inData' = IF full THEN Append(inData, word) ELSE inData
             /\ inSize' = Append(inSize, (counterr + 1) % CounterRange)
             /\ inState' = "IDLE" /\ payload' = word
        ELSE /\ inData' = IF full THEN Append(inData, word) ELSE inData
             /\ payload' = IF full THEN {} ELSE word
             /\ UNCHANGED <<inState, inSize>>
  /\ UNCHANGED <<txPktLen, rdVars>>

\* Mutant: only usb_last ends a frame.
GetDataUntilLast ==
  /\ inState = "GET_DATA"
  /\ ~StreamEmpty /\ Ready
  /\ StreamStep
  /\ counterr' = (counterr + 1) % CounterRange
  /\ LET word == payload \cup {<<Current, pos - 1>>}
         full == (counterr + 1) % WordBytes = 0
     IN IF UsbLast
        THEN /\ inData' = Append(inData, word)
             /\ inSize' = Append(inSize, (counterr + 1) % CounterRange)
             /\ inState' = "IDLE" /\ payload' = word
        ELSE /\ inData' = IF full THEN Append(inData, word) ELSE inData
             /\ payload' = IF full THEN {} ELSE word
             /\ UNCHANGED <<inState, inSize>>
  /\ UNCHANGED <<txPktLen, rdVars>>

\* A data byte.  The last one ends the word and stores the size.
GetData ==
  /\ inState = "GET_DATA"
  /\ ~StreamEmpty /\ Ready
  /\ StreamStep
  /\ counterr' = (counterr + 1) % CounterRange
  /\ LET word == payload \cup {<<Current, pos - 1>>}
         full == (counterr + 1) % WordBytes = 0
     IN IF UsbLast \/ counterr + 1 = txPktLen
        THEN /\ inData' = Append(inData, word)
             /\ inSize' = Append(inSize, (counterr + 1) % CounterRange)
             /\ inState' = "IDLE" /\ payload' = word
        ELSE /\ inData' = IF full THEN Append(inData, word) ELSE inData
             /\ payload' = IF full THEN {} ELSE word
             /\ UNCHANGED <<inState, inSize>>
  /\ UNCHANGED <<txPktLen, rdVars>>

(***************************************************************************)
(* The reader, InjectData: size and header first, then the words.           *)
(***************************************************************************)
TakeHeader ==
  /\ rdState = "IDLE"
  /\ inData # <<>> /\ inSize # <<>>
  /\ rdFrame' = Append(rdFrame, [size |-> Head(inSize), header |-> Head(inData),
                                 words |-> <<>>])
  /\ inData' = Tail(inData) /\ inSize' = Tail(inSize)
  /\ rdState' = "WORDS"
  /\ UNCHANGED <<fsmVars, usbVars>>

Newest == rdFrame[Len(rdFrame)]

TakeWord ==
  /\ rdState = "WORDS"
  /\ inData # <<>>
  /\ rdFrame' = [rdFrame EXCEPT ![Len(rdFrame)].words = Append(@, Head(inData))]
  /\ inData' = Tail(inData)
  /\ rdState' = IF WordBytes * (Len(Newest.words) + 1) < Newest.size
                THEN "WORDS" ELSE "IDLE"
  /\ UNCHANGED <<fsmVars, inSize, usbVars>>

UsbInStep == LeaveIdle \/ GetCount0 \/ GetCount1 \/ GetData
ReaderStep == TakeHeader \/ TakeWord

InNext == HostTransfer \/ UsbInStep \/ ReaderStep

InSpec == InInit /\ [][InNext]_inVars

(***************************************************************************)
(* Properties.                                                              *)
(***************************************************************************)
\* Frame k as it was sent: word w holds its bytes 4w - 3 .. 4w.
WordOf(k, w) == {<<k, i>> : i \in {j \in 1 .. sentLens[k] : WordCount(j) = w}}

\* InjectData gets every frame whole, in order, with the right length and
\* nothing of its neighbours in its words.
FramesIntact ==
  \A k \in DOMAIN rdFrame :
    /\ rdFrame[k].size = sentLens[k]
    /\ rdFrame[k].header = {<<k, 0>>}
    /\ \A w \in DOMAIN rdFrame[k].words : rdFrame[k].words[w] = WordOf(k, w)
    /\ (k < Len(rdFrame) \/ rdState = "IDLE") =>
         Len(rdFrame[k].words) = WordCount(sentLens[k])

\* The readiness that IDLE checked still holds when the length bytes arrive,
\* where it is only half checked again: the FSM stays in step with the stream,
\* and reads no byte twice.
InStep ==
  /\ inState \in {"GET_COUNT_0", "GET_COUNT_1"} => Ready
  /\ inState \in {"IDLE", "GET_COUNT_0"} => pos = 0 \/ StreamEmpty
  /\ inState = "GET_COUNT_1" => pos = 1
  /\ inState = "GET_DATA" => pos = counterr + 2 /\ txPktLen = CurLen

\* No frame gets stuck between a full data FIFO and a reader that waits for its
\* size: again and again InjectData has taken every frame that was sent.
AllTaken == []<>(Len(rdFrame) = Current /\ rdState = "IDLE")
=============================================================================
