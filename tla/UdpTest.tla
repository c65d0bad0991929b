-------------------------------- MODULE UdpTest --------------------------------
(***************************************************************************)
(* test_progs/udp_sending.py and udp_receiving.py: the sender sends a fixed *)
(* number of datagrams and the receiver waits for just as many.  Nothing    *)
(* announces them and nothing is sent again, so that a datagram that comes  *)
(* before the receiver is bound, finds its socket full or is dropped on the *)
(* way is gone.                                                             *)
(***************************************************************************)
EXTENDS Naturals

CONSTANTS Total,               \* 10000: loops_cnt and total_packets
          Period,              \* 1000: datagrams from one report to the next
          Buffer               \* datagrams that the receiving socket holds

UdpConstants ==
  /\ Total \in Nat \ {0} /\ Period \in Nat \ {0} /\ Buffer \in Nat \ {0}

VARIABLES
  sender, sent,                \* "sending", "done"; i of the for loop
  receiver,                    \* "start", "receiving", "closed"
  packets, received, loopCnt,
  socket,                      \* datagrams that wait in the receiving socket
  lost                         \* history: datagrams that never got there

sendVars == <<sender, sent>>
recvVars == <<receiver, packets, received, loopCnt>>
vars == <<sendVars, recvVars, socket, lost>>

Init ==
  /\ sender = "sending" /\ sent = 0
  /\ receiver = "start" /\ packets = 0 /\ received = 0 /\ loopCnt = 0
  /\ socket = 0 /\ lost = 0

(***************************************************************************)
(* udp_sending.py.  sendto does not wait for the other side.                *)
(***************************************************************************)
SendTo ==
  /\ sender = "sending" /\ sent < Total
  /\ sent' = sent + 1
  /\ \/ /\ receiver = "receiving" /\ socket < Buffer
        /\ socket' = socket + 1 /\ UNCHANGED lost
     \/ lost' = lost + 1 /\ UNCHANGED socket
  /\ UNCHANGED <<sender, recvVars>>

SenderCloses ==
  /\ sender = "sending" /\ sent = Total
  /\ sender' = "done"
  /\ UNCHANGED <<sent, recvVars, socket, lost>>

(***************************************************************************)
(* udp_receiving.py                                                         *)
(***************************************************************************)
Bind ==
  /\ receiver = "start"
  /\ receiver' = "receiving"
  /\ UNCHANGED <<sendVars, packets, received, loopCnt, socket, lost>>

\* Mutant: the loop ends one datagram early.
AllCountedEarly == packets + 1 >= Total

\* The while loop has ended.
AllCounted == packets >= Total

\* The report at every Period datagrams, which are all of one size.
Report ==
  /\ loopCnt' = (loopCnt + 1) % Period
  /\ received' = IF loopCnt' = 0 THEN 0 ELSE received + 1

RecvFrom ==
  /\ receiver = "receiving" /\ ~AllCounted
  /\ socket > 0 /\ socket' = socket - 1
  /\ packets' = packets + 1
  /\ Report
  /\ UNCHANGED <<sendVars, receiver, lost>>

ReceiverCloses ==
  /\ receiver = "receiving" /\ AllCounted
  /\ receiver' = "closed"
  /\ UNCHANGED <<sendVars, packets, received, loopCnt, socket, lost>>

Next == SendTo \/ SenderCloses \/ Bind \/ RecvFrom \/ ReceiverCloses

Spec == Init /\ [][Next]_vars /\ WF_vars(Next)

\* The receiver only ends when nothing was lost: one lost datagram, also one sent
\* before it was bound, leaves it in recvfrom for ever.
EndsOnlyWithAll == receiver = "closed" => lost = 0 /\ sent = Total
=============================================================================
