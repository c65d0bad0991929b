---------------------------- MODULE VendorRequests ----------------------------
(***************************************************************************)
(* requesthandlers.py: a vendor request names a MAC register and carries    *)
(* its value; the handler asks InjectData for the access (op, rd_wr) and    *)
(* acknowledges a write to the host before the access is done.              *)
(* InjectData's side is IDLE's last branch, WRITE_REG, READ_REG, REG_END.   *)
(***************************************************************************)
EXTENDS EthMiim

CONSTANT CntRange     \* values of cnt (64)

ASSUME CntRangeAssumption == CntRange \in Nat /\ CntRange >= 8

VARIABLES
  dir,        \* direction of the latest SETUP: "none" (no vendor request), "in", "out"
  regAddr, dataOut, cnt, op, rdWr,
  dataIn,     \* control_data_out of InjectData
  access,     \* InjectData: "IDLE", "WRITE_REG", "READ_REG", "REG_END"
  answered    \* an IN token waits, or its answer: "no", "waits", "sent"

handlerVars == <<dir, regAddr, dataOut, cnt, op, rdWr>>
bridgeVars == <<dataIn, access>>

Empty == [i \in 1 .. 4 |-> {}]

HandlerInit ==
  /\ dir = "none" /\ regAddr = "ADDRESS" /\ dataOut = Empty /\ cnt = 0
  /\ op = FALSE /\ rdWr = "read"
  /\ dataIn = Zero /\ access = "IDLE" /\ answered = "no"

\* The SETUP stage.  A write left over from an earlier request (cnt >= 3) is
\* asked for again as soon as the direction is out.
SetupStage(d, reg) ==
  /\ dir' = d /\ regAddr' = reg
  /\ IF d = "out" /\ cnt >= 3 THEN op' = TRUE /\ rdWr' = "write"
     ELSE UNCHANGED <<op, rdWr>>
  /\ answered' = "no"
  /\ UNCHANGED <<dataOut, cnt, bridgeVars, miimVars>>

\* A data byte.  One after the fourth is shifted out of data_out.
DataByte(byte) ==
  /\ dataOut' = IF cnt < 4 THEN [dataOut EXCEPT ![cnt + 1] = @ \cup byte] ELSE dataOut
  /\ cnt' = (cnt + 1) % CntRange
  /\ IF cnt' >= 3 THEN op' = TRUE /\ rdWr' = "write" ELSE UNCHANGED <<op, rdWr>>
  /\ UNCHANGED <<dir, regAddr, answered, bridgeVars, miimVars>>

\* An IN token: data_requested.
InToken ==
  /\ op' = TRUE /\ rdWr' = "read"
  /\ answered' = "waits"
  /\ UNCHANGED <<dir, regAddr, dataOut, cnt, bridgeVars, miimVars>>

\* The host gives up on the token: an answer from now on finds nobody.
TokenExpires ==
  /\ answered = "waits"
  /\ answered' = "no"
  /\ UNCHANGED <<handlerVars, bridgeVars, miimVars>>

(***************************************************************************)
(* InjectData.                                                              *)
(***************************************************************************)
StartAccess ==
  /\ access = "IDLE" /\ op
  /\ access' = IF rdWr = "write" THEN "WRITE_REG" ELSE "READ_REG"
  /\ UNCHANGED <<dataIn, handlerVars, answered, miimVars>>

\* Register and value are taken from the handler when the bus acknowledges.
WriteReg ==
  /\ access = "WRITE_REG"
  /\ WriteMii(regAddr, <<dataOut[1], dataOut[2]>>)
  /\ access' = "REG_END"
  /\ UNCHANGED <<dataIn, handlerVars, answered, starts, miiOp, miiReg, phy>>

ReadReg ==
  /\ access = "READ_REG"
  /\ dataIn' = RegValue(regAddr)
  /\ access' = "REG_END"
  /\ UNCHANGED <<handlerVars, answered, miimVars>>

\* Mutant: data_out keeps its bits.
RegFinishKeeps ==
  /\ access = "REG_END"
  /\ access' = "IDLE"
  /\ CASE dir = "in"  -> /\ op' = FALSE
                         /\ answered' = IF answered = "waits" THEN "sent" ELSE answered
                         /\ UNCHANGED <<dataOut, cnt>>
       [] dir = "out" /\ cnt > 3 -> /\ op' = FALSE /\ cnt' = 0
                                    /\ UNCHANGED <<dataOut, answered>>
       [] OTHER -> UNCHANGED <<op, dataOut, cnt, answered>>
  /\ UNCHANGED <<dir, regAddr, rdWr, dataIn, miimVars>>

\* Mutant: the write is cleared away a byte too early.
RegFinishEarly ==
  /\ access = "REG_END"
  /\ access' = "IDLE"
  /\ CASE dir = "in" -> /\ op' = FALSE
                        /\ answered' = IF answered = "waits" THEN "sent" ELSE answered
                        /\ UNCHANGED <<dataOut, cnt>>
       [] dir = "out" /\ cnt >= 3 -> /\ op' = FALSE /\ dataOut' = Empty /\ cnt' = 0
                                     /\ UNCHANGED answered
       [] OTHER -> UNCHANGED <<op, dataOut, cnt, answered>>
  /\ UNCHANGED <<dir, regAddr, rdWr, dataIn, miimVars>>

\* Mutant: the read request stays up.
RegFinishLoops ==
  /\ access = "REG_END"
  /\ access' = "IDLE"
  /\ CASE dir = "in" -> UNCHANGED <<op, dataOut, cnt, answered>>
       [] dir = "out" /\ cnt > 3 -> /\ op' = FALSE /\ dataOut' = Empty /\ cnt' = 0
                                    /\ UNCHANGED answered
       [] OTHER -> UNCHANGED <<op, dataOut, cnt, answered>>
  /\ UNCHANGED <<dir, regAddr, rdWr, dataIn, miimVars>>

\* op_finish: the answer goes out, or the write is cleared away, and with it the
\* bytes of the next one that have come; after a request of another kind nothing
\* looks at it.
RegFinish ==
  /\ access = "REG_END"
  /\ access' = "IDLE"
  /\ CASE dir = "in" -> /\ op' = FALSE
                        /\ answered' = IF answered = "waits" THEN "sent" ELSE answered
                        /\ UNCHANGED <<dataOut, cnt>>
       [] dir = "out" /\ cnt > 3 -> /\ op' = FALSE /\ dataOut' = Empty /\ cnt' = 0
                                    /\ UNCHANGED answered
       [] OTHER -> UNCHANGED <<op, dataOut, cnt, answered>>
  /\ UNCHANGED <<dir, regAddr, rdWr, dataIn, miimVars>>

AccessStep == StartAccess \/ WriteReg \/ ReadReg \/ RegFinish
=============================================================================
