-------------------------------- MODULE TcpTest --------------------------------
(***************************************************************************)
(* test_progs/tcp_sending.py and tcp_receiving.py: the sender announces how *)
(* many packets of which size follow and sends them over a TCP connection.  *)
(* The connection is a stream: what recv returns need not be what one send  *)
(* put in.                                                                  *)
(***************************************************************************)
EXTENDS Naturals, Sequences, FiniteSetsExt

CONSTANTS MaxLoops, MaxSize,   \* bounds: loops_cnt, pkt_size
          Window,              \* bytes that the sockets' buffers hold
          Period               \* 1000: packets from one report to the next

TcpConstants ==
  /\ MaxLoops \in Nat \ {0} /\ MaxSize \in Nat \ {0}
  /\ Window \in Nat \ {0} /\ Period \in Nat \ {0}

VARIABLES
  loopsCnt, pktSize,          \* the sender's arguments
  sender,                     \* "connect", "packets", "sending", "done", "failed"
  loop, left,                 \* packets begun; bytes of the latest still to send
  stream,                     \* bytes on their way
  header,                     \* the two words on their way
  receiver,                   \* "accept", "size", "receiving", "closed"
  totalPackets, bufferSize,   \* as received
  packets, received, loopCnt

sendVars == <<loopsCnt, pktSize, sender, loop, left>>
recvVars == <<receiver, totalPackets, bufferSize, packets, received, loopCnt>>
vars == <<sendVars, stream, header, recvVars>>

Init ==
  /\ loopsCnt \in 0 .. MaxLoops /\ pktSize \in 1 .. MaxSize
  /\ sender = "connect" /\ loop = 0 /\ left = 0
  /\ stream = 0 /\ header = <<>>
  /\ receiver = "accept" /\ totalPackets = 0 /\ bufferSize = 0
  /\ packets = 0 /\ received = 0 /\ loopCnt = 0

(***************************************************************************)
(* tcp_sending.py                                                           *)
(***************************************************************************)
Connect ==
  /\ sender = "connect"
  /\ header' = <<loopsCnt, pktSize>>
  /\ sender' = "packets"
  /\ UNCHANGED <<loopsCnt, pktSize, loop, left, stream, recvVars>>

\* The for loop; then the socket is closed.
NextPacket ==
  /\ sender = "packets"
  /\ IF loop < loopsCnt
     THEN loop' = loop + 1 /\ left' = pktSize /\ sender' = "sending"
     ELSE sender' = "done" /\ UNCHANGED <<loop, left>>
  /\ UNCHANGED <<loopsCnt, pktSize, stream, header, recvVars>>

\* send blocks until the kernel has the packet, a part at a time.
Send ==
  /\ sender = "sending" /\ receiver # "closed"
  /\ \E n \in 1 .. left :
       /\ stream + n <= Window
       /\ stream' = stream + n /\ left' = left - n
       /\ sender' = IF n = left THEN "packets" ELSE "sending"
  /\ UNCHANGED <<loopsCnt, pktSize, loop, header, recvVars>>

\* The other side has closed: send raises an exception.
SendFails ==
  /\ sender = "sending" /\ receiver = "closed"
  /\ sender' = "failed"
  /\ UNCHANGED <<loopsCnt, pktSize, loop, left, stream, header, recvVars>>

(***************************************************************************)
(* tcp_receiving.py                                                         *)
(***************************************************************************)
ReadHeader ==
  /\ header # <<>>
  /\ \/ /\ receiver = "accept" /\ receiver' = "size"
        /\ totalPackets' = Head(header) /\ UNCHANGED bufferSize
     \/ /\ receiver = "size" /\ receiver' = "receiving"
        /\ bufferSize' = Head(header) /\ UNCHANGED totalPackets
  /\ header' = Tail(header)
  /\ UNCHANGED <<sendVars, stream, packets, received, loopCnt>>

\* The while loop has ended.
AllCounted == packets >= totalPackets

\* What recv(bufferSize) may return; 0 once the sender has closed.
Returns ==
  IF stream = 0 THEN IF sender \in {"done", "failed"} THEN {0} ELSE {}
  ELSE 1 .. Min({bufferSize, stream})

\* Mutant: only full packets are counted.
CountFull(n) == packets' = IF n = bufferSize THEN packets + 1 ELSE packets

\* Every recv counts as a packet.
Count(n) == packets' = packets + 1

\* The report at every Period packets.
Report(n) ==
  /\ loopCnt' = (loopCnt + 1) % Period
  /\ received' = IF (loopCnt + 1) % Period = 0 THEN 0 ELSE received + n

Recv ==
  /\ receiver = "receiving" /\ ~AllCounted
  /\ \E n \in Returns :
       /\ stream' = stream - n
       /\ Count(n) /\ Report(n)
  /\ UNCHANGED <<sendVars, header, receiver, totalPackets, bufferSize>>

CloseClient ==
  /\ receiver = "receiving" /\ AllCounted
  /\ receiver' = "closed"
  /\ UNCHANGED <<sendVars, stream, header, totalPackets, bufferSize, packets,
                 received, loopCnt>>

Next == \/ Connect \/ NextPacket \/ Send \/ SendFails
        \/ ReadHeader \/ Recv \/ CloseClient

Spec == Init /\ [][Next]_vars /\ WF_vars(Next)

\* Both programs end, whatever recv returns: also when the receiver has counted
\* its packets long before the sender has sent them.
BothEnd == <>(receiver = "closed" /\ sender \in {"done", "failed"})
=============================================================================
