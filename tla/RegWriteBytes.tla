----------------------------- MODULE RegWriteBytes -----------------------------
(***************************************************************************)
(* A register write of the host clock by clock: the four data bytes come    *)
(* one after the other, requesthandlers.py raises op when the third has     *)
(* come, and InjectData writes the register as soon as the bus is free.     *)
(* VendorRequests lets the access come between any two bytes; this module   *)
(* has the clocks, and with them what the register gets at either speed,    *)
(* from a handler at rest.                                                  *)
(***************************************************************************)
EXTENDS Naturals

\* Clocks from one byte to the next, at most: 2 at high speed (bit stuffing),
\* about 40 at full speed.
CONSTANTS HighGap, FullGap

Gaps == HighGap \in Nat \ {0} /\ FullGap \in Nat \ {0}

VARIABLES
  speed,      \* "high" or "full", as the host connects the device
  sent,       \* data bytes of the request that have come
  gap,        \* clocks since the latest
  cnt, dataOut, op,                \* VendorRequestHandlers; dataOut: which bytes it has
  access, opFinish,                \* InjectData; "ACK": the register is written
  reg,        \* the bytes of the request that the register holds
  writes      \* history: how often the register was written, up to 2

vars == <<speed, sent, gap, cnt, dataOut, op, access, opFinish, reg, writes>>

Bytes == 1 .. 4

MaxGap == IF speed = "high" THEN HighGap ELSE FullGap

Init ==
  /\ speed \in {"high", "full"}
  /\ sent = 0 /\ gap = 1 /\ cnt = 0 /\ dataOut = {} /\ op = FALSE
  /\ access = "IDLE" /\ opFinish = FALSE
  /\ reg = {} /\ writes = 0

\* A byte comes in this clock.
RxNext(comes) ==
  /\ comes => sent < 4
  /\ 0 < sent /\ sent < 4 /\ gap = MaxGap => comes
  /\ sent' = IF comes THEN sent + 1 ELSE sent
  /\ gap' = IF comes \/ sent = 0 THEN 1 ELSE IF gap < MaxGap THEN gap + 1 ELSE gap

\* Mutant: op rises a byte earlier.
HandlerEarly(comes) ==
  LET end == cnt > 2 /\ opFinish
  IN /\ dataOut' = IF end THEN {} ELSE IF comes THEN dataOut \cup {cnt + 1} ELSE dataOut
     /\ cnt' = IF end THEN 0 ELSE IF comes THEN cnt + 1 ELSE cnt
     /\ op' = ((op \/ cnt >= 2) /\ ~end)

\* VendorRequestHandlers: the later assignment wins.
Handler(comes) ==
  LET end == cnt > 3 /\ opFinish
  IN /\ dataOut' = IF end THEN {} ELSE IF comes THEN dataOut \cup {cnt + 1} ELSE dataOut
     /\ cnt' = IF end THEN 0 ELSE IF comes THEN cnt + 1 ELSE cnt
     /\ op' = ((op \/ cnt >= 3) /\ ~end)

\* IDLE, control_op & ~control_op_finish.
IdleNext == IF op /\ ~opFinish THEN "WRITE_REG" ELSE "IDLE"

\* InjectData.  It may wait for the bus in WRITE_REG (and, with frames to move,
\* in IDLE) for any time; the value goes into the register in the first clock
\* that has the bus, the acknowledge follows.
Access ==
  \/ access = "IDLE" /\ access' \in {"IDLE", IdleNext} /\ UNCHANGED <<reg, writes>>
  \/ access = "WRITE_REG" /\ access' = access /\ UNCHANGED <<reg, writes>>
  \/ /\ access = "WRITE_REG" /\ access' = "ACK"
     /\ reg' = dataOut
     /\ writes' = IF writes < 2 THEN writes + 1 ELSE writes
  \/ access = "ACK" /\ access' = "REG_END" /\ UNCHANGED <<reg, writes>>
  \/ access = "REG_END" /\ access' = "IDLE" /\ UNCHANGED <<reg, writes>>

Clock(comes) ==
  /\ RxNext(comes) /\ Handler(comes) /\ Access
  /\ opFinish' = (access = "REG_END")
  /\ UNCHANGED speed

\* The next request of the host.
NewRequest ==
  /\ sent = 4 /\ cnt = 0 /\ ~op /\ access = "IDLE" /\ ~opFinish
  /\ sent' = 0 /\ gap' = 1 /\ reg' = {} /\ writes' = 0
  /\ UNCHANGED <<speed, cnt, dataOut, op, access, opFinish>>

Next == NewRequest \/ \E comes \in BOOLEAN : Clock(comes)

Spec == Init /\ [][Next]_vars

Ended == op /\ ~op'

\* At high speed op rises early enough before the fourth byte and not too early:
\* the register is written once, with all four bytes.
WholeWrite == [][speed = "high" /\ Ended => reg = Bytes /\ writes = 1]_vars

\* At any speed the first three bytes are written when the request ends (the
\* driver's values have at most two), and nothing is left for the next request.
LowBytesWritten == [][Ended => {1, 2, 3} \subseteq reg /\ dataOut' = {} /\ cnt' = 0]_vars
=============================================================================
