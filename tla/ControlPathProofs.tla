-------------------------- MODULE ControlPathProofs --------------------------
(***************************************************************************)
(* Proofs about the driver's PHY accesses (ControlPath), for any registers, *)
(* values and numbers of polls and retries: a call that begins at rest and  *)
(* without traffic reads, or writes, the right value, and leaves everything *)
(* at rest again.                                                           *)
(***************************************************************************)
EXTENDS ControlPath, TLAPS

(***************************************************************************)
(* The inductive invariant.                                                 *)
(***************************************************************************)
MiiTypes ==
  /\ mii \in [ADDRESS : Word, COMMAND : Word, TX_DATA : Word, RX_DATA : Word]
  /\ starts \subseteq {RStat, WCtrlData} /\ miiOp \in {"none", "read", "write"}
  /\ miiReg \in Word \cup {<<>>} /\ (miiOp = "none" => miiReg = <<>>)
  /\ phy \in [PhyRegs -> Word]

MiiRegs == {"ADDRESS", "COMMAND", "TX_DATA", "RX_DATA", "STATUS"}

HandlerTypes ==
  /\ dir \in {"none", "in", "out"} /\ op \in BOOLEAN /\ rdWr \in {"read", "write"}
  /\ regAddr \in MiiRegs /\ dataOut \in [1 .. 4 -> Byte] /\ cnt \in Nat
  /\ access \in {"IDLE", "WRITE_REG", "READ_REG", "REG_END"}
  /\ answered \in {"no", "waits", "sent"}

CallTypes ==
  /\ call \in Calls /\ pc \in 0 .. 4 /\ sent \in 0 .. 3
  /\ stage \in {"setup", "data", "token", "idle", "failed"}
  /\ traffic \in BOOLEAN /\ (Clean => ~traffic)

CpTypes == MiiTypes /\ HandlerTypes /\ CallTypes

\* The place of the command in the program: the last write.
CommandAt == IF call.kind = "read" THEN 2 ELSE 3

\* What each stage says of the transfer.
Stages ==
  /\ stage \notin {"idle", "failed"} => pc < 4
  /\ stage = "idle" => pc \in {0, 4}
  /\ stage = "data" => pc < CommandAt
  /\ stage = "token" => pc >= CommandAt
  /\ stage # "data" => sent = 0
  /\ answered # "no" => stage = "token"
  /\ Clean =>
       /\ stage = "idle" => pc = 4
       /\ stage = "data" => dir = "out"
       /\ stage = "token" => dir = "in"
       /\ stage \in {"data", "token"} => regAddr = Access.reg

\* The first n bytes of a value.
Part(value, n) == [i \in 1 .. 4 |-> IF i <= n /\ i <= 2 THEN value[i] ELSE {}]

\* The handler has nothing to do; it has this write to do.
Rest == ~op /\ access = "IDLE" /\ cnt = 0 /\ dataOut = Empty
Writes(a, n) == /\ op /\ rdWr = "write" /\ access # "READ_REG" /\ cnt = n
                /\ dataOut = Part(a.value, n)
Pending == /\ pc \in 1 .. CommandAt /\ dir = "out"
           /\ regAddr = Program(call)[pc].reg /\ Writes(Program(call)[pc], 4)

Tidy ==
  Clean =>
    /\ stage = "setup" => Rest \/ Pending
    /\ stage = "data" /\ sent < 3 => /\ ~op /\ access = "IDLE"
                                     /\ cnt = sent /\ dataOut = Part(Access.value, sent)
    /\ stage = "data" /\ sent = 3 => Writes(Access, 3)
    /\ stage \in {"idle", "failed"} => Rest
    /\ stage = "token" =>
         /\ cnt = 0 /\ dataOut = Empty
         /\ answered # "waits" => ~op /\ access = "IDLE"
         /\ answered = "waits" => op /\ rdWr = "read" /\ access # "WRITE_REG"

\* A status was read that does not say busy.
Answer == stage = "token" /\ (access = "REG_END" \/ answered = "sent")
StatusRead == pc > CommandAt \/ (Answer /\ Access.reg = "STATUS" /\ BusyBit \notin dataIn[1])

Waited == Clean /\ StatusRead => ~Busy

(***************************************************************************)
(* The values.                                                              *)
(***************************************************************************)
\* The writes that may have reached their register, and those that have.
Begun == IF stage = "data" /\ sent = 3 THEN pc + 1 ELSE pc
Written == IF ((stage = "data" /\ sent = 3) \/ Pending) /\ access # "REG_END" THEN Begun - 1 ELSE Begun

TheCommand == IF call.kind = "read" THEN RStat ELSE WCtrlData

\* The command waits, or its frame is under way; it is done.
Underway ==
  \/ Command = {TheCommand} /\ starts = {} /\ miiOp = "none"
  \/ /\ Command = {} /\ starts = {TheCommand} /\ miiOp = call.kind
     /\ miiReg \in {<<>>, PhyAddress(call)}

Finished ==
  /\ ~Busy
  /\ call.kind = "read" => mii.RX_DATA = phy[call.idx]
  /\ call.kind = "write" => phy[call.idx] = call.val

Carried ==
  Clean =>
    /\ Written >= 1 => mii.ADDRESS = PhyAddress(call)
    /\ Written >= 2 /\ call.kind = "write" => mii.TX_DATA = call.val
    /\ Begun < CommandAt => ~Busy
    /\ Begun >= CommandAt => ~Busy \/ Underway
    /\ Written >= CommandAt => Underway \/ Finished
    /\ Answer /\ pc = 3 /\ call.kind = "read" => dataIn = phy[call.idx]
    /\ stage = "idle" /\ pc = 4 /\ call.kind = "read" => got = phy[call.idx]

CpIInv == CpTypes /\ Stages /\ Tidy /\ Waited /\ Carried

(***************************************************************************)
(* Values and programs.                                                     *)
(***************************************************************************)
LEMMA WordFacts ==
  /\ {} \in Byte /\ Zero \in Word /\ Empty \in [1 .. 4 -> Byte]
  /\ Only(RStat) \in Word /\ Only(WCtrlData) \in Word /\ Ones \in Word
<1>1. {} \in Byte /\ {RStat} \in Byte /\ {WCtrlData} \in Byte /\ 0 .. 7 \in Byte
  BY DEF Byte, RStat, WCtrlData
<1> QED
  BY <1>1 DEF Word, Zero, Empty, Only, Ones

LEMMA Halves ==
  ASSUME NEW value \in Word
  PROVE  value[1] \in Byte /\ value[2] \in Byte /\ value = <<value[1], value[2]>>
  BY DEF Word

LEMMA CallParts ==
  ASSUME call \in Calls
  PROVE  /\ call.kind \in {"read", "write"} /\ call.idx \in PhyRegs
         /\ PhyAddress(call) \in Word /\ call.val \in Word
         /\ CommandAt \in {2, 3} /\ (CommandAt = 2 <=> call.kind = "read")
<1>1. /\ call.kind \in {"read", "write"} /\ call.idx \in PhyRegs
      /\ call.val \in {Zero} \cup PhyValues
  BY DEF Calls
<1>2. PhyId \in Byte /\ call.idx \in Byte
  <2>1. 0 .. 3 \subseteq 0 .. 7 /\ 0 .. 4 \subseteq 0 .. 7
    OBVIOUS
  <2> QED
    BY <1>1, <2>1, PhyAssumption DEF Byte
<1> QED
  BY <1>1, <1>2, WordFacts, PhyAssumption DEF Word, PhyAddress, CommandAt

LEMMA Programs ==
  ASSUME call \in Calls
  PROVE  /\ Len(Program(call)) = 4
         /\ Program(call)[1] = Set("ADDRESS", PhyAddress(call))
         /\ call.kind = "read" =>
              /\ Program(call)[2] = Set("COMMAND", Only(RStat))
              /\ Program(call)[3] = Get("STATUS") /\ Program(call)[4] = Get("RX_DATA")
         /\ call.kind = "write" =>
              /\ Program(call)[2] = Set("TX_DATA", call.val)
              /\ Program(call)[3] = Set("COMMAND", Only(WCtrlData))
              /\ Program(call)[4] = Get("STATUS")
<1>1. CASE call.kind = "read"
  BY <1>1 DEF Program
<1>2. CASE call.kind = "write"
  BY <1>2 DEF Program
<1> QED
  BY <1>1, <1>2, CallParts

\* The writes of a program, the command the last of them.
LEMMA WriteIs ==
  ASSUME call \in Calls, NEW k \in 1 .. CommandAt
  PROVE  /\ Program(call)[k].dir = "out" /\ Program(call)[k].value \in Word
         /\ Program(call)[k].reg =
              IF k = 1 THEN "ADDRESS" ELSE IF k = CommandAt THEN "COMMAND" ELSE "TX_DATA"
         /\ Program(call)[k].value =
              IF k = 1 THEN PhyAddress(call)
              ELSE IF k = CommandAt THEN Only(TheCommand) ELSE call.val
<1>1. CASE k = 1
  BY <1>1, Programs, CallParts DEF Set
<1>2. CASE k = 2 /\ call.kind = "read"
  BY <1>2, Programs, CallParts, WordFacts DEF Set, CommandAt, TheCommand
<1>3. CASE k = 2 /\ call.kind = "write"
  BY <1>3, Programs, CallParts, WordFacts DEF Set, CommandAt
<1>4. CASE k = 3 /\ call.kind = "write"
  BY <1>4, Programs, CallParts, WordFacts DEF Set, CommandAt, TheCommand
<1> QED
  BY <1>1, <1>2, <1>3, <1>4, CallParts DEF CommandAt

\* Writes up to the command, then the status, then what was read.
LEMMA AccessIs ==
  ASSUME CpTypes, pc < 4
  PROVE  /\ Access.value \in Word /\ Access.reg \in MiiRegs
         /\ Access.dir = IF pc < CommandAt THEN "out" ELSE "in"
         /\ pc < CommandAt => Access.reg # "STATUS"
         /\ pc >= CommandAt => Access.reg = IF pc = CommandAt THEN "STATUS" ELSE "RX_DATA"
<1>1. call \in Calls /\ pc \in {0, 1, 2, 3} /\ CommandAt \in {2, 3}
  BY CallParts DEF CpTypes, CallTypes
<1>2. CASE pc < CommandAt
  <2>1. pc + 1 \in 1 .. CommandAt
    BY <1>1, <1>2
  <2> QED
    BY <1>1, <1>2, <2>1, WriteIs DEF Access, MiiRegs
<1>3. CASE pc >= CommandAt
  <2>1. CASE pc = 2
    BY <1>1, <1>3, <2>1, Programs, CallParts, WordFacts DEF Access, Get, MiiRegs
  <2>2. CASE pc = 3 /\ call.kind = "read"
    BY <1>1, <1>3, <2>2, Programs, CallParts, WordFacts DEF Access, Get, MiiRegs
  <2>3. CASE pc = 3 /\ call.kind = "write"
    BY <1>1, <1>3, <2>3, Programs, CallParts, WordFacts DEF Access, Get, MiiRegs
  <2> QED
    BY <1>1, <1>3, <2>1, <2>2, <2>3, CallParts
<1> QED
  BY <1>1, <1>2, <1>3

\* data_out fills byte by byte; with three of them it has all that is not zero.
LEMMA PartFacts ==
  ASSUME NEW value \in Word
  PROVE  /\ Part(value, 0) = Empty
         /\ \A n \in 0 .. 3 :
              [Part(value, n) EXCEPT ![n + 1] = @ \cup (IF n < 2 THEN value[n + 1] ELSE {})]
                = Part(value, n + 1)
         /\ \A n \in {3, 4} : <<Part(value, n)[1], Part(value, n)[2]>> = value
<1>1. Part(value, 0) = Empty
  BY DEF Part, Empty
<1>2. ASSUME NEW n \in 0 .. 3
      PROVE  [Part(value, n) EXCEPT ![n + 1] = @ \cup (IF n < 2 THEN value[n + 1] ELSE {})]
               = Part(value, n + 1)
  <2> DEFINE f == [Part(value, n) EXCEPT ![n + 1] = @ \cup (IF n < 2 THEN value[n + 1] ELSE {})]
  <2>1. f = [i \in 1 .. 4 |-> IF i = n + 1
                               THEN Part(value, n)[n + 1] \cup (IF n < 2 THEN value[n + 1] ELSE {})
                               ELSE Part(value, n)[i]]
    BY DEF Part
  <2>2. ASSUME NEW i \in 1 .. 4 PROVE f[i] = Part(value, n + 1)[i]
    <3>1. CASE i = n + 1
      <4>1. Part(value, n)[n + 1] = {}
        BY <3>1 DEF Part
      <4>2. f[i] = IF n < 2 THEN value[n + 1] ELSE {}
        BY <2>1, <3>1, <4>1
      <4>3. Part(value, n + 1)[n + 1] = IF n < 2 THEN value[n + 1] ELSE {}
        BY <3>1 DEF Part
      <4> QED
        BY <3>1, <4>2, <4>3
    <3>2. CASE i # n + 1
      BY <2>1, <3>2 DEF Part
    <3> QED
      BY <3>1, <3>2
  <2>3. Part(value, n + 1) = [i \in 1 .. 4 |-> Part(value, n + 1)[i]]
    BY DEF Part
  <2> QED
    BY <2>1, <2>2, <2>3
<1>3. ASSUME NEW n \in {3, 4} PROVE <<Part(value, n)[1], Part(value, n)[2]>> = value
  BY <1>3, Halves DEF Part
<1> QED
  BY <1>1, <1>2, <1>3

\* What a register keeps of a value.
LEMMA MaskedTypes ==
  ASSUME NEW reg, NEW value \in Word
  PROVE  Masked(reg, value) \in Word
<1>1. value[1] \in Byte /\ value[2] \in Byte
  BY Halves
<1>2. CASE reg = "ADDRESS"
  <2>1. value[1] \cap 0 .. 4 \in Byte /\ value[2] \cap 0 .. 4 \in Byte
    BY <1>1 DEF Byte
  <2> QED
    BY <1>2, <2>1 DEF Masked, Word
<1>3. CASE reg = "COMMAND"
  <2>1. (value[1] \cap 0 .. 2) \ starts \in Byte
    BY <1>1 DEF Byte
  <2> QED
    BY <1>3, <2>1, WordFacts DEF Masked, Word
<1>4. CASE reg \notin {"ADDRESS", "COMMAND"}
  BY <1>4 DEF Masked
<1> QED
  BY <1>2, <1>3, <1>4

LEMMA MaskedIs ==
  ASSUME call \in Calls
  PROVE  /\ Masked("ADDRESS", PhyAddress(call)) = PhyAddress(call)
         /\ Masked("COMMAND", Only(TheCommand)) = <<{TheCommand} \ starts, {}>>
         /\ Masked("TX_DATA", call.val) = call.val
<1>1. PhyId \cap 0 .. 4 = PhyId /\ call.idx \cap 0 .. 4 = call.idx
  <2>1. PhyId \subseteq 0 .. 4
    <3>1. 0 .. 3 \subseteq 0 .. 4
      OBVIOUS
    <3> QED
      BY <3>1, PhyAssumption
  <2>2. call.idx \subseteq 0 .. 4
    BY CallParts, PhyAssumption
  <2> QED
    BY <2>1, <2>2
<1>2. {TheCommand} \cap 0 .. 2 = {TheCommand}
  <2>1. TheCommand \in 0 .. 2
    BY DEF TheCommand, RStat, WCtrlData
  <2> QED
    BY <2>1
<1> QED
  BY <1>1, <1>2 DEF Masked, PhyAddress, Only

(***************************************************************************)
(* Types.                                                                   *)
(***************************************************************************)
LEMMA InitTypes == CpInit => CpTypes
<1> SUFFICES ASSUME CpInit PROVE CpTypes
  OBVIOUS
<1>1. MiiTypes
  <2>1. /\ mii = [ADDRESS |-> Zero, COMMAND |-> Zero, TX_DATA |-> Zero, RX_DATA |-> Zero]
        /\ starts = {} /\ miiOp = "none" /\ miiReg = <<>> /\ phy = [r \in PhyRegs |-> <<{}, r>>]
    BY DEF CpInit, MiimInit
  <2>2. mii \in [ADDRESS : Word, COMMAND : Word, TX_DATA : Word, RX_DATA : Word]
    BY <2>1, WordFacts
  <2>3. ASSUME NEW r \in PhyRegs PROVE <<{}, r>> \in Word
    <3>1. 0 .. 4 \subseteq 0 .. 7
      OBVIOUS
    <3>2. r \in Byte
      BY <3>1, PhyAssumption DEF Byte
    <3> QED
      BY <3>2, WordFacts DEF Word
  <2>4. phy \in [PhyRegs -> Word]
    BY <2>1, <2>3
  <2> QED
    BY <2>1, <2>2, <2>4 DEF MiiTypes
<1>2. HandlerTypes
  BY WordFacts DEF CpInit, HandlerInit, HandlerTypes, MiiRegs
<1>3. CallTypes
  BY DEF CpInit, CallTypes, Clean
<1> QED
  BY <1>1, <1>2, <1>3 DEF CpTypes

LEMMA SameMii == MiiTypes /\ UNCHANGED miimVars => MiiTypes'
  BY DEF MiiTypes, miimVars

LEMMA SameHandler ==
  HandlerTypes /\ UNCHANGED <<handlerVars, bridgeVars, answered>> => HandlerTypes'
  BY DEF HandlerTypes, handlerVars, bridgeVars

LEMMA SameCall == CallTypes /\ UNCHANGED <<driverVars, trafficVars>> => CallTypes'
  BY DEF CallTypes, Clean, driverVars, trafficVars

LEMMA SetupTypes ==
  ASSUME HandlerTypes, NEW d \in {"none", "in", "out"}, NEW reg \in MiiRegs, SetupStage(d, reg)
  PROVE  HandlerTypes'
  BY DEF HandlerTypes, SetupStage, bridgeVars

\* An access is done again, or has a next one, or was the last.
LEMMA NextIs ==
  ASSUME CpTypes, pc < 4, NEW value, NextAccess(value)
  PROVE  /\ pc' \in {pc, pc + 1} /\ stage' \in {"idle", "setup", "failed"}
         /\ (stage' = "idle" <=> pc' = 4) /\ (stage' = "failed" => pc' = pc)
         /\ (pc' = pc <=> Access.reg = "STATUS" /\ BusyBit \in value[1])
<1>1. call \in Calls /\ pc \in 0 .. 4
  BY DEF CpTypes, CallTypes
<1>2. Len(Program(call)) = 4
  BY <1>1, Programs
<1> QED
  BY <1>1, <1>2 DEF NextAccess

\* What a byte of the data stage is, and does.
LEMMA SendIs ==
  ASSUME CpTypes, Stages, SendByte
  PROVE  /\ stage = "data" /\ pc < CommandAt /\ pc < 4
         /\ cnt' = (cnt + 1) % CntRange
         /\ dataOut' = IF cnt < 4
                       THEN [dataOut EXCEPT ![cnt + 1] =
                               @ \cup (IF sent < 2 THEN Access.value[sent + 1] ELSE {})]
                       ELSE dataOut
         /\ IF cnt' >= 3 THEN op' /\ rdWr' = "write" ELSE op' = op /\ rdWr' = rdWr
         /\ sent < 3 => sent' = sent + 1 /\ UNCHANGED <<pc, stage>>
         /\ sent = 3 => /\ sent' = 0 /\ pc' = pc + 1
                        /\ stage' = "setup"
         /\ UNCHANGED <<miimVars, dir, regAddr, answered, dataIn, access, call, got, traffic, begun>>
<1>1. /\ stage = "data" /\ pc < CommandAt /\ pc < 4 /\ sent \in 0 .. 3
  BY DEF SendByte, Stages, CpTypes, CallTypes
<1>2. DataByte(IF sent < 2 THEN Access.value[sent + 1] ELSE {})
  BY DEF SendByte
<1>3. /\ sent' = (sent + 1) % 4
      /\ IF sent' = 0 THEN NextAccess(Zero) ELSE UNCHANGED <<pc, stage, polls>>
      /\ UNCHANGED <<call, got, tries, traffic, begun>>
  BY DEF SendByte, trafficVars
<1>4. sent < 3 => sent' = sent + 1 /\ UNCHANGED <<pc, stage>>
  BY <1>1, <1>3
<1>5. ASSUME sent = 3 PROVE sent' = 0 /\ pc' = pc + 1 /\ stage' = "setup"
  <2>1. sent' = 0 /\ NextAccess(Zero)
    BY <1>3, <1>5
  <2>2. Access.reg # "STATUS"
    BY <1>1, AccessIs
  <2>3. CommandAt \in {2, 3} /\ pc \in 0 .. 4
    BY CallParts DEF CpTypes, CallTypes
  <2> QED
    BY <1>1, <2>1, <2>2, <2>3, NextIs
<1> QED
  BY <1>1, <1>2, <1>3, <1>4, <1>5 DEF DataByte, bridgeVars

LEMMA SendTypes ==
  ASSUME CpTypes, Stages, SendByte
  PROVE  CpTypes'
<1> USE DEF CpTypes
<1>1. MiiTypes'
  BY SendIs, SameMii
<1>2. sent \in 0 .. 3 /\ cnt \in Nat /\ pc \in 0 .. 4
  BY DEF CallTypes, HandlerTypes
<1>3. (IF sent < 2 THEN Access.value[sent + 1] ELSE {}) \in Byte
  <2>1. Access.value \in Word
    BY SendIs, AccessIs
  <2>2. sent < 2 => sent + 1 \in {1, 2}
    BY <1>2
  <2> QED
    BY <2>1, <2>2, Halves, WordFacts
<1>4. dataOut' \in [1 .. 4 -> Byte]
  <2>1. ASSUME cnt < 4
        PROVE  dataOut[cnt + 1] \cup (IF sent < 2 THEN Access.value[sent + 1] ELSE {}) \in Byte
    <3>1. dataOut[cnt + 1] \in Byte
      BY <1>2, <2>1 DEF HandlerTypes
    <3> QED
      BY <1>3, <3>1 DEF Byte
  <2> QED
    BY <1>2, <2>1, SendIs DEF HandlerTypes
<1>5. cnt' \in Nat
  BY <1>2, CntRangeAssumption, SendIs
<1>6. HandlerTypes'
  BY <1>4, <1>5, SendIs DEF HandlerTypes
<1>7. CallTypes'
  <2>1. sent' \in 0 .. 3 /\ pc' \in 0 .. 4 /\ stage' \in {"data", "setup"}
    BY <1>2, SendIs
  <2> QED
    BY <2>1, SendIs DEF CallTypes, Clean
<1> QED
  BY <1>1, <1>6, <1>7

\* What op_finish does after a read, a write and a request of another kind.
LEMMA Finish ==
  ASSUME RegFinish
  PROVE  /\ access = "REG_END" /\ access' = "IDLE"
         /\ UNCHANGED <<dir, regAddr, rdWr, dataIn, miimVars>>
         /\ dir = "in" => /\ ~op' /\ UNCHANGED <<dataOut, cnt>>
                          /\ answered' = IF answered = "waits" THEN "sent" ELSE answered
         /\ dir = "out" /\ cnt > 3 => ~op' /\ dataOut' = Empty /\ cnt' = 0 /\ UNCHANGED answered
         /\ dir # "in" /\ ~(dir = "out" /\ cnt > 3) => UNCHANGED <<op, dataOut, cnt, answered>>
<1>1. /\ access = "REG_END" /\ access' = "IDLE"
      /\ UNCHANGED <<dir, regAddr, rdWr, dataIn, miimVars>>
  BY DEF RegFinish
<1>2. dir = "in" => /\ ~op' /\ UNCHANGED <<dataOut, cnt>>
                    /\ answered' = IF answered = "waits" THEN "sent" ELSE answered
  BY DEF RegFinish
<1>3. dir = "out" /\ cnt > 3 => ~op' /\ dataOut' = Empty /\ cnt' = 0 /\ UNCHANGED answered
  BY DEF RegFinish
<1>4. dir # "in" /\ ~(dir = "out" /\ cnt > 3) => UNCHANGED <<op, dataOut, cnt, answered>>
  BY DEF RegFinish
<1> QED
  BY <1>1, <1>2, <1>3, <1>4

LEMMA DriverTypes ==
  ASSUME CpTypes, Stages, DriverStep \/ Call \/ OtherSetup \/ TrafficEnds \/ Expire
  PROVE  CpTypes'
<1> USE DEF CpTypes
<1>1. CASE Call
  <2>1. MiiTypes' /\ HandlerTypes'
    BY <1>1, SameMii, SameHandler DEF Call
  <2>2. CallTypes'
    BY <1>1 DEF Call, CallTypes, Clean
  <2> QED
    BY <2>1, <2>2
<1>2. CASE OtherSetup
  <2>1. MiiTypes' /\ CallTypes'
    BY <1>2, SameMii, SameCall DEF OtherSetup, SetupStage
  <2>2. HandlerTypes'
    BY <1>2, SetupTypes DEF OtherSetup, HandlerTypes
  <2> QED
    BY <2>1, <2>2
<1>3. CASE TrafficEnds
  <2>1. MiiTypes' /\ HandlerTypes'
    BY <1>3, SameMii, SameHandler DEF TrafficEnds
  <2>2. CallTypes'
    BY <1>3 DEF TrafficEnds, CallTypes, Clean, driverVars
  <2> QED
    BY <2>1, <2>2
<1>4. CASE Expire
  <2>1. MiiTypes'
    BY <1>4, SameMii DEF Expire, TokenExpires
  <2>2. HandlerTypes'
    BY <1>4 DEF Expire, TokenExpires, HandlerTypes, handlerVars, bridgeVars
  <2>3. CallTypes'
    BY <1>4 DEF Expire, CallTypes, Clean, trafficVars
  <2> QED
    BY <2>1, <2>2, <2>3
<1>5. CASE Setup
  <2>1. Access.reg \in MiiRegs /\ Access.dir \in {"in", "out"}
    BY <1>5, AccessIs DEF Setup, Stages
  <2>2. MiiTypes' /\ HandlerTypes'
    BY <1>5, <2>1, SameMii, SetupTypes DEF Setup, SetupStage
  <2>3. CallTypes'
    BY <1>5 DEF Setup, CallTypes, Clean, trafficVars
  <2> QED
    BY <2>2, <2>3
<1>6. CASE SendByte
  BY <1>6, SendTypes
<1>7. CASE SendToken
  <2>1. MiiTypes' /\ CallTypes'
    BY <1>7, SameMii, SameCall DEF SendToken, InToken
  <2>2. HandlerTypes'
    BY <1>7 DEF SendToken, InToken, HandlerTypes, bridgeVars
  <2> QED
    BY <2>1, <2>2
<1>8. CASE Receive
  <2>1. MiiTypes' /\ HandlerTypes'
    BY <1>8, SameMii DEF Receive, HandlerTypes, handlerVars, bridgeVars
  <2>2. /\ pc < 4 /\ NextAccess(dataIn) /\ UNCHANGED <<call, sent, traffic, begun>>
    BY <1>8 DEF Receive, Stages, trafficVars
  <2>3. pc' \in {pc, pc + 1} /\ stage' \in {"idle", "setup", "failed"}
    BY <2>2, NextIs
  <2>4. CallTypes'
    BY <2>2, <2>3 DEF CallTypes, Clean
  <2> QED
    BY <2>1, <2>4
<1> QED
  BY <1>1, <1>2, <1>3, <1>4, <1>5, <1>6, <1>7, <1>8 DEF DriverStep

LEMMA WriteTypes ==
  ASSUME MiiTypes, NEW reg \in MiiRegs, NEW value \in Word, WriteMii(reg, value),
         UNCHANGED <<starts, miiOp, miiReg, phy>>
  PROVE  MiiTypes'
<1>1. Masked(reg, value) \in Word
  BY MaskedTypes
<1>2. CASE reg \in {"ADDRESS", "COMMAND", "TX_DATA"}
  BY <1>1, <1>2 DEF WriteMii, MiiTypes
<1>3. CASE reg \notin {"ADDRESS", "COMMAND", "TX_DATA"}
  BY <1>3 DEF WriteMii, MiiTypes
<1> QED
  BY <1>2, <1>3

LEMMA ManagementTypes ==
  ASSUME MiiTypes, MiiStep
  PROVE  MiiTypes'
<1>1. CASE MiiStart
  <2>1. Command \in Byte
    BY Halves DEF Command, MiiTypes
  <2>2. <<Command \ {RStat, WCtrlData}, {}>> \in Word
    BY <2>1, WordFacts DEF Byte, Word
  <2>3. mii' \in [ADDRESS : Word, COMMAND : Word, TX_DATA : Word, RX_DATA : Word]
    BY <1>1, <2>2 DEF MiiStart, MiiTypes
  <2>4. starts' \subseteq {RStat, WCtrlData}
    BY <1>1 DEF MiiStart, MiiTypes
  <2> QED
    BY <1>1, <2>3, <2>4 DEF MiiStart, MiiTypes
<1>2. CASE ScanStart
  BY <1>2 DEF ScanStart, MiiTypes
<1>3. CASE MiiAddress
  BY <1>3 DEF MiiAddress, MiiTypes
<1>4. CASE MiiEnd
  <2>1. phy' \in [PhyRegs -> Word]
    BY <1>4 DEF MiiEnd, MiiTypes
  <2>2. (IF Answers(miiReg) THEN phy[miiReg[2]] ELSE Ones) \in Word
    BY WordFacts DEF Answers, MiiTypes
  <2>3. mii' \in [ADDRESS : Word, COMMAND : Word, TX_DATA : Word, RX_DATA : Word]
    BY <1>4, <2>2 DEF MiiEnd, MiiTypes
  <2> QED
    BY <1>4, <2>1, <2>3 DEF MiiEnd, MiiTypes
<1> QED
  BY <1>1, <1>2, <1>3, <1>4 DEF MiiStep

LEMMA DeviceTypes ==
  ASSUME CpTypes, BridgeStep \/ ManagementStep
  PROVE  CpTypes'
<1> USE DEF CpTypes
<1>1. CallTypes'
  BY SameCall DEF BridgeStep, ManagementStep
<1>2. CASE StartAccess
  BY <1>1, <1>2, SameMii DEF StartAccess, HandlerTypes, handlerVars
<1>3. CASE WriteReg
  <2>1. <<dataOut[1], dataOut[2]>> \in Word
    BY DEF HandlerTypes, Word
  <2>2. MiiTypes'
    BY <1>3, <2>1, WriteTypes DEF WriteReg, HandlerTypes
  <2> QED
    BY <1>1, <1>3, <2>2 DEF WriteReg, HandlerTypes, handlerVars
<1>4. CASE ReadReg
  BY <1>1, <1>4, SameMii DEF ReadReg, HandlerTypes, handlerVars
<1>5. CASE RegFinish
  <2>1. MiiTypes'
    BY <1>5, SameMii, Finish
  <2>2. HandlerTypes'
    <3>1. CASE dir = "in"
      <4>1. op' = FALSE
        BY <1>5, <3>1 DEF RegFinish
      <4> QED
        BY <1>5, <3>1, <4>1, Finish DEF HandlerTypes
    <3>2. CASE dir = "out" /\ cnt > 3
      <4>1. op' = FALSE
        BY <1>5, <3>2 DEF RegFinish
      <4>2. /\ dataOut' = Empty /\ cnt' = 0 /\ access' = "IDLE"
            /\ UNCHANGED <<dir, regAddr, rdWr, answered>>
        BY <1>5, <3>2, Finish
      <4>3. dataOut' \in [1 .. 4 -> Byte] /\ cnt' \in Nat
        BY <4>2, WordFacts
      <4> QED
        BY <4>1, <4>2, <4>3 DEF HandlerTypes
    <3>3. CASE dir # "in" /\ ~(dir = "out" /\ cnt > 3)
      BY <1>5, <3>3, Finish DEF HandlerTypes
    <3> QED
      BY <3>1, <3>2, <3>3
  <2> QED
    BY <1>1, <2>1, <2>2
<1>6. CASE ManagementStep
  BY <1>1, <1>6, SameHandler, ManagementTypes DEF ManagementStep
<1> QED
  BY <1>2, <1>3, <1>4, <1>5, <1>6 DEF BridgeStep, AccessStep

(***************************************************************************)
(* The driver's steps.                                                      *)
(***************************************************************************)
\* The invariant's facts on the state before a step.
LEMMA Before ==
  ASSUME CpIInv
  PROVE  /\ call \in Calls /\ pc \in 0 .. 4 /\ sent \in 0 .. 3 /\ cnt \in Nat
         /\ stage \in {"setup", "data", "token", "idle", "failed"} /\ (Clean => ~traffic)
         /\ CommandAt \in {2, 3} /\ (CommandAt = 2 <=> call.kind = "read")
         /\ call.kind \in {"read", "write"} /\ call.idx \in PhyRegs
  BY CallParts DEF CpIInv, CpTypes, CallTypes, HandlerTypes

\* With the call where it was, so is all that is defined from it.
LEMMA CallStays ==
  ASSUME UNCHANGED <<call, pc, stage, sent, begun>>
  PROVE  /\ Access' = Access /\ CommandAt' = CommandAt /\ Begun' = Begun
         /\ TheCommand' = TheCommand /\ Program(call)' = Program(call) /\ (Clean' <=> Clean)
  BY DEF Access, CommandAt, Begun, TheCommand, Clean

\* With the management interface where it was, so is what has been carried out.
LEMMA MiiStays ==
  ASSUME UNCHANGED <<miimVars, call>>
  PROVE  (Busy' <=> Busy) /\ (Underway' <=> Underway) /\ (Finished' <=> Finished)
<1>1. (Busy' <=> Busy) /\ Command' = Command /\ TheCommand' = TheCommand
      /\ PhyAddress(call)' = PhyAddress(call)
  BY DEF miimVars, Busy, Command, TheCommand, PhyAddress
<1> QED
  BY <1>1 DEF miimVars, Underway, Finished

\* Of a call that did not begin at rest, only the types and the stages are known.
LEMMA NotClean ==
  ASSUME CpTypes', Stages', ~Clean'
  PROVE  CpIInv'
  BY DEF CpIInv, Tidy, Waited, Carried

LEMMA CpInitInv == CpInit => CpIInv
<1> SUFFICES ASSUME CpInit PROVE CpIInv
  OBVIOUS
<1>1. /\ pc = 0 /\ stage = "idle" /\ sent = 0 /\ answered = "no" /\ begun = "traffic"
  BY DEF CpInit, HandlerInit
<1>2. Stages /\ ~Clean
  BY <1>1 DEF Stages, Clean
<1> QED
  BY <1>2, InitTypes DEF CpIInv, Tidy, Waited, Carried

LEMMA TrafficKeeps ==
  ASSUME CpIInv, CpTypes', TrafficEnds \/ Expire
  PROVE  CpIInv'
<1>1. ~Clean'
  BY Before DEF TrafficEnds, Expire, Clean, trafficVars
<1>2. CASE TrafficEnds
  <2>1. UNCHANGED <<dir, regAddr, answered, call, pc, stage, sent, begun>>
    BY <1>2 DEF TrafficEnds, handlerVars, driverVars
  <2>2. Stages'
    BY <1>1, <2>1, CallStays DEF CpIInv, Stages
  <2> QED
    BY <1>1, <2>2, NotClean
<1>3. CASE Expire
  <2>1. stage = "token" /\ answered' = "no" /\ stage' \in {"failed", "token"}
    BY <1>3 DEF Expire, TokenExpires, CpIInv, Stages
  <2>2. pc' = pc /\ CommandAt' = CommandAt /\ sent' = sent
    BY <1>3 DEF Expire, CommandAt
  <2>3. Stages'
    BY <1>1, <2>1, <2>2 DEF CpIInv, Stages
  <2> QED
    BY <1>1, <2>3, NotClean
<1> QED
  BY <1>2, <1>3

\* A call that begins at rest finds what the invariant asks of its start.
LEMMA CallKeeps ==
  ASSUME CpIInv, CpTypes', Call
  PROVE  CpIInv'
<1>1. /\ stage \in {"idle", "failed"} /\ pc' = 0 /\ stage' = "setup"
      /\ (begun' = "rest" => AtRest)
      /\ UNCHANGED <<miimVars, dir, regAddr, dataOut, cnt, op, rdWr, access, answered, sent>>
  BY DEF Call, handlerVars, bridgeVars
<1>2. call' \in Calls /\ CommandAt' \in {2, 3}
  BY DEF Call, CommandAt
<1>3. Stages'
  BY <1>1, <1>2 DEF CpIInv, Stages
<1>4. CASE ~Clean'
  BY <1>3, <1>4, NotClean
<1>5. CASE Clean'
  <2>1. AtRest
    BY <1>1, <1>5 DEF Clean
  <2>2. Rest' /\ ~Busy'
    BY <1>1, <2>1 DEF AtRest, Rest, Busy, Command, miimVars
  <2>3. Tidy' /\ Waited'
    BY <1>1, <2>2 DEF Tidy, Waited
  <2>4. Begun' = 0 /\ Written' = 0 /\ ~Answer'
    BY <1>1, <2>2 DEF Begun, Written, Pending, Writes, Rest, Answer
  <2>5. Carried'
    BY <1>1, <1>2, <2>2, <2>4 DEF Carried
  <2> QED
    BY <1>3, <2>3, <2>5 DEF CpIInv
<1> QED
  BY <1>4, <1>5

\* A SETUP finds the handler at rest: a pending write is waited for.
LEMMA SetupFinds ==
  ASSUME CpIInv, MaySetup, stage = "setup", Clean
  PROVE  Rest /\ ~Pending /\ Written = pc /\ Begun = pc
<1>1. Repeats \/ (~op /\ access = "IDLE")
  BY Before DEF MaySetup
<1>2. ~Pending
  BY <1>1 DEF Pending, Writes, Repeats
<1>3. Rest
  BY <1>2 DEF CpIInv, Tidy
<1>4. Begun = pc
  BY DEF Begun
<1> QED
  BY <1>2, <1>3, <1>4 DEF Written

LEMMA SetupKeeps ==
  ASSUME CpIInv, CpTypes', Setup
  PROVE  CpIInv'
<1>1. /\ stage = "setup" /\ MaySetup /\ pc < 4 /\ sent = 0
      /\ dir' = Access.dir /\ regAddr' = Access.reg /\ answered' = "no"
      /\ stage' = IF Access.dir = "out" THEN "data" ELSE "token"
      /\ IF Access.dir = "out" /\ cnt >= 3 THEN op' = TRUE /\ rdWr' = "write"
         ELSE UNCHANGED <<op, rdWr>>
      /\ UNCHANGED <<miimVars, dataOut, cnt, dataIn, access, call, pc, sent, got, begun>>
  BY DEF CpIInv, Stages, Setup, SetupStage, bridgeVars, trafficVars
<1>2. /\ Access.dir = (IF pc < CommandAt THEN "out" ELSE "in") /\ Access.value \in Word
      /\ Access' = Access /\ CommandAt' = CommandAt /\ (Clean' <=> Clean)
  BY <1>1, AccessIs DEF Access, CommandAt, CpIInv, Clean
<1>3. Stages'
  BY <1>1, <1>2, Before DEF CpIInv, Stages
<1>4. CASE ~Clean
  BY <1>2, <1>3, <1>4, NotClean
<1>5. CASE Clean
  <2>1. Rest /\ Written = pc /\ Begun = pc
    BY <1>1, <1>5, SetupFinds
  <2>2. ~op' /\ access' = "IDLE" /\ cnt' = 0 /\ dataOut' = Empty
    BY <1>1, <2>1 DEF Rest
  <2>3. Empty = Part(Access.value, 0)
    BY <1>2, PartFacts
  <2>4. Tidy'
    BY <1>1, <1>2, <2>2, <2>3 DEF Tidy
  <2>5. ~Answer' /\ ~Pending' /\ Begun' = pc /\ Written' = pc
    BY <1>1, <2>2 DEF Answer, Pending, Writes, Begun, Written
  <2>6. Waited'
    BY <1>1, <1>2, <1>5, <2>5, MiiStays DEF CpIInv, Waited, StatusRead
  <2>7. Carried'
    BY <1>1, <1>2, <1>5, <2>1, <2>5, MiiStays DEF CpIInv, Carried, miimVars, PhyAddress
  <2> QED
    BY <1>3, <2>4, <2>6, <2>7 DEF CpIInv
<1> QED
  BY <1>4, <1>5

LEMMA OtherSetupKeeps ==
  ASSUME CpIInv, CpTypes', OtherSetup
  PROVE  CpIInv'
<1>1. /\ stage = "setup" /\ MaySetup /\ dir' = "none" /\ answered' = "no"
      /\ UNCHANGED <<miimVars, regAddr, op, rdWr, dataOut, cnt, dataIn, access, call, pc, stage,
                     sent, got, begun>>
  BY DEF OtherSetup, SetupStage, bridgeVars, driverVars, trafficVars
<1>2. /\ CommandAt' = CommandAt /\ Begun' = Begun /\ (Clean' <=> Clean)
  BY <1>1, CallStays
<1>3. Stages'
  BY <1>1, <1>2 DEF CpIInv, Stages
<1>4. CASE ~Clean
  BY <1>2, <1>3, <1>4, NotClean
<1>5. CASE Clean
  <2>1. Rest /\ Written = pc /\ Begun = pc
    BY <1>1, <1>5, SetupFinds
  <2>2. Rest' /\ ~Answer' /\ ~Pending'
    BY <1>1, <2>1 DEF Rest, Answer, Pending
  <2>3. Tidy'
    BY <1>1, <2>2 DEF Tidy
  <2>4. Written' = pc
    BY <1>1, <1>2, <2>1, <2>2 DEF Written
  <2>5. Waited'
    BY <1>1, <1>2, <1>5, <2>2, MiiStays DEF CpIInv, Waited, StatusRead
  <2>6. Carried'
    BY <1>1, <1>2, <1>5, <2>1, <2>2, <2>4, MiiStays DEF CpIInv, Carried, miimVars, PhyAddress
  <2> QED
    BY <1>3, <2>3, <2>5, <2>6 DEF CpIInv
<1> QED
  BY <1>4, <1>5

\* With the third byte the write may begin; with the fourth it is pending.
LEMMA SendByteKeeps ==
  ASSUME CpIInv, CpTypes', SendByte
  PROVE  CpIInv'
<1> DEFINE byte == IF sent < 2 THEN Access.value[sent + 1] ELSE {}
<1>1. /\ stage = "data" /\ pc < CommandAt /\ pc < 4 /\ cnt' = (cnt + 1) % CntRange
      /\ dataOut' = (IF cnt < 4 THEN [dataOut EXCEPT ![cnt + 1] = @ \cup byte] ELSE dataOut)
      /\ IF cnt' >= 3 THEN op' /\ rdWr' = "write" ELSE op' = op /\ rdWr' = rdWr
      /\ sent < 3 => sent' = sent + 1 /\ UNCHANGED <<pc, stage>>
      /\ sent = 3 => sent' = 0 /\ pc' = pc + 1 /\ stage' = "setup"
      /\ UNCHANGED <<miimVars, dir, regAddr, answered, dataIn, access, call, got, begun>>
  BY SendIs DEF CpIInv
<1>2. CommandAt' = CommandAt /\ Program(call)' = Program(call) /\ (Clean' <=> Clean)
  BY <1>1 DEF CommandAt, Clean
<1>3. sent \in 0 .. 3 /\ pc \in 0 .. 4 /\ CommandAt \in {2, 3} /\ (sent < 3 \/ sent = 3)
  BY Before
<1>4. sent < 3 => Access' = Access
  BY <1>1 DEF Access
<1>5. answered = "no"
  BY <1>1, <1>3 DEF CpIInv, Stages, CpTypes, HandlerTypes
<1>6. Stages'
  BY <1>1, <1>2, <1>3, <1>4, <1>5 DEF CpIInv, Stages
<1>7. CASE ~Clean
  BY <1>2, <1>6, <1>7, NotClean
<1>8. CASE Clean
  <2>1. /\ Access.value \in Word /\ Access = Program(call)[pc + 1]
        /\ dir = "out" /\ regAddr = Access.reg
    BY <1>1, <1>8, AccessIs DEF Access, CpIInv, Stages
  <2>2. cnt = sent /\ dataOut = Part(Access.value, sent)
    BY <1>1, <1>3, <1>8 DEF CpIInv, Tidy, Writes
  <2>3. cnt' = sent + 1 /\ dataOut' = Part(Access.value, sent + 1)
    <3>1. cnt' = sent + 1
      BY <1>1, <1>3, <2>2, CntRangeAssumption
    <3>2. dataOut' = [Part(Access.value, sent) EXCEPT ![sent + 1] = @ \cup byte]
      BY <1>1, <1>3, <2>2
    <3> QED
      BY <1>3, <2>1, <3>1, <3>2, PartFacts
  <2>4. ~Answer' /\ ~StatusRead'
    BY <1>1, <1>2, <1>3 DEF Answer, StatusRead
  <2>5. Waited'
    BY <2>4 DEF Waited
  <2>6. CASE sent < 3
    <3>1. ~op /\ access = "IDLE" /\ ~Pending
      BY <1>1, <1>8, <2>6 DEF CpIInv, Tidy, Pending, Writes
    <3>2. stage' = "data" /\ sent' = sent + 1 /\ pc' = pc
      BY <1>1, <2>6
    <3>3. sent' < 3 => ~op'
      BY <1>1, <1>3, <2>3, <3>1, <3>2
    <3>4. sent' = 3 => op' /\ rdWr' = "write"
      BY <1>1, <2>3, <3>2
    <3>5. Tidy'
      BY <1>1, <1>4, <2>3, <2>6, <3>1, <3>2, <3>3, <3>4 DEF Tidy, Writes
    <3>6. Begun = pc /\ Written = pc
      BY <2>6, <3>1 DEF Begun, Written
    <3>7. (Begun' = pc \/ Begun' = pc + 1) /\ Written' = pc
      <4>1. CASE sent' = 3
        <5>1. Begun' = pc + 1
          BY <3>2, <4>1 DEF Begun
        <5> QED
          BY <1>1, <1>3, <3>1, <3>2, <4>1, <5>1 DEF Written
      <4>2. CASE sent' # 3
        <5>1. sent' < 3
          BY <1>3, <2>6, <3>2, <4>2
        <5> QED
          BY <3>2, <3>3, <4>2, <5>1 DEF Begun, Written, Pending, Writes
      <4> QED
        BY <4>1, <4>2
    <3>8. Begun < CommandAt /\ ~Busy
      BY <1>1, <1>8, <3>6 DEF CpIInv, Carried
    <3>9. Carried'
      BY <1>1, <1>2, <1>3, <1>8, <2>4, <3>2, <3>6, <3>7, <3>8, MiiStays
         DEF CpIInv, Carried, miimVars, PhyAddress
    <3> QED
      BY <1>6, <2>5, <3>5, <3>9 DEF CpIInv
  <2>7. CASE sent = 3
    <3>1. stage' = "setup" /\ sent' = 0 /\ pc' = pc + 1
      BY <1>1, <2>7
    <3>2. Writes(Access, 3)
      BY <1>1, <1>8, <2>7 DEF CpIInv, Tidy
    <3>3. /\ op' /\ rdWr' = "write" /\ access' # "READ_REG" /\ cnt' = 4
          /\ dataOut' = Part(Access.value, 4)
      <4>1. sent + 1 = 4
        BY <2>7
      <4> QED
        BY <1>1, <2>3, <3>2, <4>1 DEF Writes
    <3>4. Pending'
      <4>1. Program(call)'[pc'] = Access /\ pc' \in 1 .. CommandAt'
        BY <1>1, <1>2, <1>3, <2>1, <3>1
      <4> QED
        BY <1>1, <2>1, <3>3, <4>1 DEF Pending, Writes
    <3>5. Tidy'
      BY <3>1, <3>4 DEF Tidy
    <3>6. Begun = pc + 1 /\ Begun' = pc + 1 /\ Written' = Written
      BY <1>1, <2>7, <3>1, <3>4 DEF Begun, Written
    <3>7. Carried'
      BY <1>1, <1>2, <1>8, <2>4, <3>1, <3>6, MiiStays
         DEF CpIInv, Carried, miimVars, PhyAddress
    <3> QED
      BY <1>6, <2>5, <3>5, <3>7 DEF CpIInv
  <2> QED
    BY <1>3, <2>6, <2>7
<1> QED
  BY <1>7, <1>8

\* What is known while the host waits for an answer.
LEMMA TokenFacts ==
  ASSUME CpIInv, stage = "token", Clean
  PROVE  /\ dir = "in" /\ ~Pending /\ pc >= CommandAt /\ pc < 4 /\ cnt = 0 /\ dataOut = Empty
         /\ Begun = pc /\ Written = pc
         /\ answered # "waits" => ~op /\ access = "IDLE"
         /\ answered = "waits" => op /\ rdWr = "read" /\ access # "WRITE_REG"
<1>1. dir = "in" /\ pc >= CommandAt /\ pc < 4
  BY DEF CpIInv, Stages
<1>2. ~Pending /\ Begun = pc
  BY <1>1 DEF Pending, Begun
<1>3. Written = pc
  BY <1>2 DEF Written
<1> QED
  BY <1>1, <1>2, <1>3 DEF CpIInv, Tidy

LEMMA SendTokenKeeps ==
  ASSUME CpIInv, CpTypes', SendToken
  PROVE  CpIInv'
<1>1. /\ stage = "token" /\ answered = "no" /\ op' /\ rdWr' = "read" /\ answered' = "waits"
      /\ UNCHANGED <<miimVars, dir, regAddr, dataOut, cnt, dataIn, access, call, pc, stage, sent,
                     got, begun>>
  BY DEF SendToken, InToken, bridgeVars, driverVars, trafficVars
<1>2. /\ Access' = Access /\ CommandAt' = CommandAt /\ Begun' = Begun /\ (Clean' <=> Clean)
  BY <1>1, CallStays
<1>3. Stages'
  BY <1>1, <1>2 DEF CpIInv, Stages
<1>4. CASE ~Clean
  BY <1>2, <1>3, <1>4, NotClean
<1>5. CASE Clean
  <2>1. /\ dir = "in" /\ cnt = 0 /\ dataOut = Empty /\ access = "IDLE" /\ Written = pc
        /\ Begun = pc
    BY <1>1, <1>5, TokenFacts
  <2>2. ~Answer' /\ ~Pending'
    BY <1>1, <2>1 DEF Answer, Pending
  <2>3. Tidy'
    BY <1>1, <2>1 DEF Tidy
  <2>4. Waited'
    BY <1>1, <1>2, <1>5, <2>2, MiiStays DEF CpIInv, Waited, StatusRead
  <2>5. Written' = pc
    BY <1>1, <1>2, <2>1, <2>2 DEF Written
  <2>6. Carried'
    BY <1>1, <1>2, <1>5, <2>1, <2>2, <2>5, MiiStays DEF CpIInv, Carried, miimVars, PhyAddress
  <2> QED
    BY <1>3, <2>3, <2>4, <2>6 DEF CpIInv
<1> QED
  BY <1>4, <1>5

LEMMA ReceiveKeeps ==
  ASSUME CpIInv, CpTypes', Receive
  PROVE  CpIInv'
<1>1. /\ stage = "token" /\ answered = "sent" /\ answered' = "no" /\ pc < 4 /\ pc >= CommandAt
      /\ sent = 0 /\ got' = (IF stage' = "idle" THEN dataIn ELSE Zero) /\ NextAccess(dataIn)
      /\ UNCHANGED <<miimVars, dir, regAddr, dataOut, cnt, op, rdWr, dataIn, access, call, sent,
                     begun>>
  BY DEF CpIInv, Stages, Receive, handlerVars, bridgeVars, trafficVars
<1>2. /\ pc' \in {pc, pc + 1} /\ stage' \in {"idle", "setup", "failed"}
      /\ (stage' = "idle" <=> pc' = 4)
      /\ (pc' = pc <=> Access.reg = "STATUS" /\ BusyBit \in dataIn[1])
  BY <1>1, NextIs DEF CpIInv
<1>3. CommandAt' = CommandAt /\ (Clean' <=> Clean) /\ pc \in 0 .. 4 /\ CommandAt \in {2, 3}
  BY <1>1, Before DEF CommandAt, Clean
<1>4. Stages'
  BY <1>1, <1>2, <1>3 DEF CpIInv, Stages
<1>5. CASE ~Clean
  BY <1>3, <1>4, <1>5, NotClean
<1>6. CASE Clean
  <2>1. /\ dir = "in" /\ cnt = 0 /\ dataOut = Empty /\ access = "IDLE" /\ ~op
        /\ Written = pc /\ Begun = pc
    BY <1>1, <1>6, TokenFacts
  <2>2. Answer /\ Rest' /\ ~Answer' /\ ~Pending'
    BY <1>1, <1>2, <2>1 DEF Answer, Pending, Rest
  <2>3. Tidy'
    BY <1>2, <2>2 DEF Tidy
  <2>4. Begun' = pc' /\ Written' = pc' /\ pc' >= CommandAt
    BY <1>1, <1>2, <1>3, <2>2 DEF Begun, Written
  <2>5. StatusRead' => StatusRead
    <3>1. pc = CommandAt => Access.reg = "STATUS"
      BY <1>1, AccessIs DEF CpIInv
    <3> QED
      BY <1>1, <1>2, <1>3, <2>2, <3>1 DEF StatusRead
  <2>6. Waited'
    BY <1>1, <1>3, <1>6, <2>5, MiiStays DEF CpIInv, Waited
  <2>7. stage' = "idle" /\ call.kind = "read" => dataIn = phy[call.idx]
    <3>1. stage' = "idle" => pc = 3
      BY <1>1, <1>2, <1>3
    <3> QED
      BY <1>6, <2>2, <3>1 DEF CpIInv, Carried
  <2>8. Carried'
    <3>1. /\ mii.ADDRESS = PhyAddress(call) /\ (call.kind = "write" => mii.TX_DATA = call.val)
          /\ (~Busy \/ Underway) /\ (Underway \/ Finished)
      <4>1. Written >= CommandAt /\ Begun >= CommandAt /\ Written >= 1
            /\ (call.kind = "write" => Written >= 2)
        BY <1>1, <1>3, <2>1
      <4> QED
        BY <1>6, <4>1 DEF CpIInv, Carried
    <3>2. ~(Begun' < CommandAt')
      BY <1>1, <1>2, <1>3, <2>4
    <3>3. stage' = "idle" /\ call'.kind = "read" => got' = phy'[call'.idx]
      BY <1>1, <2>7 DEF miimVars
    <3>4. (Underway' <=> Underway) /\ (Finished' <=> Finished) /\ (Busy' <=> Busy)
      BY <1>1, MiiStays
    <3> QED
      BY <1>1, <2>2, <3>1, <3>2, <3>3, <3>4 DEF Carried, miimVars, PhyAddress
  <2> QED
    BY <1>4, <2>3, <2>6, <2>8 DEF CpIInv
<1> QED
  BY <1>5, <1>6

(***************************************************************************)
(* The device's steps.                                                      *)
(***************************************************************************)
LEMMA StartAccessKeeps ==
  ASSUME CpIInv, CpTypes', BridgeStep, StartAccess
  PROVE  CpIInv'
<1>1. /\ access = "IDLE" /\ op /\ access' = (IF rdWr = "write" THEN "WRITE_REG" ELSE "READ_REG")
      /\ UNCHANGED <<miimVars, dir, regAddr, dataOut, cnt, op, rdWr, dataIn, answered, call, pc,
                     stage, sent, got, begun>>
  BY DEF BridgeStep, StartAccess, handlerVars, driverVars, trafficVars
<1>2. /\ Access' = Access /\ CommandAt' = CommandAt /\ Begun' = Begun /\ (Clean' <=> Clean)
      /\ Program(call)' = Program(call)
  BY <1>1, CallStays
<1>3. Stages'
  BY <1>1, <1>2 DEF CpIInv, Stages
<1>4. CASE ~Clean
  BY <1>2, <1>3, <1>4, NotClean
<1>5. CASE Clean
  <2>1. Pending' <=> Pending
    BY <1>1, <1>2 DEF Pending, Writes
  <2>2. ~Rest /\ (Answer' => Answer)
    BY <1>1 DEF Rest, Answer
  <2>3. Tidy'
    BY <1>1, <1>2, <1>5, <2>1, <2>2 DEF CpIInv, Tidy, Writes
  <2>4. Waited'
    BY <1>1, <1>2, <1>5, <2>2, MiiStays DEF CpIInv, Waited, StatusRead
  <2>5. Written' = Written
    BY <1>1, <1>2, <2>1 DEF Written
  <2>6. Carried'
    BY <1>1, <1>2, <1>5, <2>2, <2>5, MiiStays DEF CpIInv, Carried, miimVars, PhyAddress
  <2> QED
    BY <1>3, <2>3, <2>4, <2>6 DEF CpIInv
<1> QED
  BY <1>4, <1>5

\* The register and the value that InjectData finds are those of the write begun.
LEMMA WriteFound ==
  ASSUME CpIInv, Clean, access = "WRITE_REG"
  PROVE  /\ stage \in {"setup", "data"} /\ (stage = "data" => sent = 3)
         /\ stage = "setup" => Pending
         /\ pc <= CommandAt /\ Begun \in 1 .. CommandAt /\ Written = Begun - 1
         /\ regAddr = Program(call)[Begun].reg
         /\ <<dataOut[1], dataOut[2]>> = Program(call)[Begun].value
<1>1. ~Rest /\ CommandAt \in {2, 3} /\ pc \in 0 .. 4 /\ sent \in 0 .. 3
      /\ stage \in {"setup", "data", "token", "idle", "failed"} /\ call \in Calls
  BY Before DEF Rest
<1>2. stage \in {"setup", "data"} /\ (stage = "data" => sent = 3) /\ (stage = "setup" => Pending)
  <2>1. stage # "token"
    BY DEF CpIInv, Tidy
  <2>2. stage = "data" => ~(sent < 3)
    BY DEF CpIInv, Tidy
  <2> QED
    BY <1>1, <2>1, <2>2 DEF CpIInv, Tidy
<1>3. CASE stage = "data"
  <2>1. /\ Begun = pc + 1 /\ pc < CommandAt /\ regAddr = Access.reg /\ Writes(Access, 3)
    BY <1>2, <1>3 DEF Begun, CpIInv, Stages, Tidy
  <2>2. Begun \in 1 .. CommandAt /\ pc <= CommandAt /\ Written = Begun - 1
    BY <1>1, <1>2, <1>3, <2>1 DEF Written
  <2>3. Program(call)[Begun].value \in Word
    BY <1>1, <2>2, WriteIs
  <2>4. dataOut = Part(Program(call)[Begun].value, 3)
    BY <2>1 DEF Access, Writes
  <2> QED
    BY <1>2, <2>1, <2>2, <2>3, <2>4, PartFacts DEF Access
<1>4. CASE stage = "setup"
  <2>1. Pending /\ Begun = pc
    BY <1>2, <1>4 DEF Begun
  <2>2. Begun \in 1 .. CommandAt /\ pc <= CommandAt /\ Written = Begun - 1
    BY <1>1, <2>1 DEF Written, Pending
  <2>3. Program(call)[Begun].value \in Word
    BY <1>1, <2>2, WriteIs
  <2>4. dataOut = Part(Program(call)[Begun].value, 4) /\ regAddr = Program(call)[Begun].reg
    BY <2>1 DEF Pending, Writes
  <2> QED
    BY <1>2, <1>4, <2>1, <2>2, <2>3, <2>4, PartFacts
<1> QED
  BY <1>2, <1>3, <1>4

\* The address, the data and the command reach their registers in this order.
LEMMA WriteRegKeeps ==
  ASSUME CpIInv, CpTypes', BridgeStep, WriteReg
  PROVE  CpIInv'
<1>1. /\ access = "WRITE_REG" /\ WriteMii(regAddr, <<dataOut[1], dataOut[2]>>)
      /\ access' = "REG_END"
      /\ UNCHANGED <<starts, miiOp, miiReg, phy, dir, regAddr, dataOut, cnt, op, rdWr, dataIn,
                     answered, call, pc, stage, sent, got, begun>>
  BY DEF BridgeStep, WriteReg, handlerVars, driverVars, trafficVars
<1>2. /\ Access' = Access /\ CommandAt' = CommandAt /\ Begun' = Begun /\ (Clean' <=> Clean)
      /\ TheCommand' = TheCommand /\ Program(call)' = Program(call)
  BY <1>1, CallStays
<1>3. Stages'
  BY <1>1, <1>2 DEF CpIInv, Stages
<1>4. CASE ~Clean
  BY <1>2, <1>3, <1>4, NotClean
<1>5. CASE Clean
  <2>1. /\ stage \in {"setup", "data"} /\ (stage = "data" => sent = 3)
        /\ stage = "setup" => Pending
        /\ pc <= CommandAt /\ Begun \in 1 .. CommandAt /\ Written = Begun - 1
        /\ regAddr = Program(call)[Begun].reg
        /\ <<dataOut[1], dataOut[2]>> = Program(call)[Begun].value
    BY <1>1, <1>5, WriteFound
  <2>2. Pending' <=> Pending
    BY <1>1, <1>2 DEF Pending, Writes
  <2>3. Tidy'
    BY <1>1, <1>2, <1>5, <2>1, <2>2 DEF CpIInv, Tidy, Writes
  <2>4. ~Answer' /\ ~StatusRead'
    BY <1>1, <1>2, <2>1, Before DEF Answer, StatusRead
  <2>5. Waited'
    BY <2>4 DEF Waited
  <2>6. Written' = Begun
    BY <1>1, <1>2 DEF Written
  <2>7. call \in Calls /\ CommandAt \in {2, 3} /\ (CommandAt = 2 <=> call.kind = "read")
        /\ call.kind \in {"read", "write"}
    BY Before
  <2>8. mii \in [ADDRESS : Word, COMMAND : Word, TX_DATA : Word, RX_DATA : Word]
    BY DEF CpIInv, CpTypes, MiiTypes
  <2>9. /\ Begun >= 2 => mii.ADDRESS = PhyAddress(call)
        /\ Begun >= 3 => mii.TX_DATA = call.val
        /\ Begun < CommandAt => ~Busy
        /\ Begun = CommandAt => ~Busy \/ Underway
    BY <1>5, <2>1, <2>7 DEF CpIInv, Carried
  <2>10. stage # "idle" /\ (Begun' < CommandAt' <=> Begun < CommandAt)
         /\ PhyAddress(call)' = PhyAddress(call)
    BY <1>1, <1>2, <2>1 DEF PhyAddress
  <2>11. CASE Begun = 1
    <3>1. mii' = [mii EXCEPT !.ADDRESS = PhyAddress(call)]
      <4>1. regAddr = "ADDRESS" /\ Program(call)[1].value = PhyAddress(call)
        BY <2>1, <2>7, <2>11, WriteIs
      <4> QED
        BY <1>1, <2>1, <2>7, <2>11, <4>1, MaskedIs DEF WriteMii
    <3>2. mii'.ADDRESS = PhyAddress(call) /\ Command' = Command
      BY <2>8, <3>1 DEF Command
    <3>3. ~Busy'
      BY <1>1, <2>7, <2>9, <2>11, <3>2 DEF Busy
    <3> QED
      BY <1>1, <1>2, <1>3, <2>3, <2>4, <2>5, <2>6, <2>7, <2>10, <2>11, <3>2, <3>3
         DEF CpIInv, Carried
  <2>12. CASE Begun = 2 /\ CommandAt = 3
    <3>1. mii' = [mii EXCEPT !.TX_DATA = call.val]
      <4>1. regAddr = "TX_DATA" /\ Program(call)[2].value = call.val
        BY <2>1, <2>7, <2>12, WriteIs
      <4> QED
        BY <1>1, <2>1, <2>7, <2>12, <4>1, MaskedIs DEF WriteMii
    <3>2. mii'.ADDRESS = mii.ADDRESS /\ mii'.TX_DATA = call.val /\ Command' = Command
      BY <2>8, <3>1 DEF Command
    <3>3. ~Busy'
      BY <1>1, <2>9, <2>12, <3>2 DEF Busy
    <3> QED
      BY <1>1, <1>2, <1>3, <2>3, <2>4, <2>5, <2>6, <2>7, <2>9, <2>10, <2>12, <3>2, <3>3
         DEF CpIInv, Carried
  <2>13. CASE Begun = CommandAt
    <3>1. mii' = [mii EXCEPT !.COMMAND = <<{TheCommand} \ starts, {}>>]
      <4>1. regAddr = "COMMAND" /\ Program(call)[Begun].value = Only(TheCommand)
        BY <2>1, <2>7, <2>13, WriteIs
      <4> QED
        BY <1>1, <2>1, <4>1, <2>7, MaskedIs DEF WriteMii
    <3>2. mii'.ADDRESS = mii.ADDRESS /\ mii'.TX_DATA = mii.TX_DATA
          /\ Command' = {TheCommand} \ starts
      BY <2>8, <3>1 DEF Command
    <3>3. Underway'
      <4>1. CASE ~Busy
        BY <1>1, <1>2, <3>2, <4>1 DEF Busy, Underway
      <4>2. CASE Underway
        BY <1>1, <1>2, <2>10, <3>2, <4>2 DEF Underway
      <4> QED
        BY <2>9, <2>13, <4>1, <4>2
    <3> QED
      BY <1>1, <1>2, <1>3, <2>3, <2>4, <2>5, <2>6, <2>7, <2>9, <2>10, <2>13, <3>2, <3>3
         DEF CpIInv, Carried
  <2> QED
    BY <2>1, <2>7, <2>11, <2>12, <2>13
<1> QED
  BY <1>4, <1>5

\* The status says what is, and RX_DATA is read when the command is done.
LEMMA ReadRegKeeps ==
  ASSUME CpIInv, CpTypes', BridgeStep, ReadReg
  PROVE  CpIInv'
<1>1. /\ access = "READ_REG" /\ dataIn' = RegValue(regAddr) /\ access' = "REG_END"
      /\ UNCHANGED <<miimVars, dir, regAddr, dataOut, cnt, op, rdWr, answered, call, pc, stage,
                     sent, got, begun>>
  BY DEF BridgeStep, ReadReg, handlerVars, driverVars, trafficVars
<1>2. /\ Access' = Access /\ CommandAt' = CommandAt /\ Begun' = Begun /\ (Clean' <=> Clean)
  BY <1>1, CallStays
<1>3. Stages'
  BY <1>1, <1>2 DEF CpIInv, Stages
<1>4. CASE ~Clean
  BY <1>2, <1>3, <1>4, NotClean
<1>5. CASE Clean
  <2>1. stage = "token"
    BY <1>1, <1>5, Before DEF CpIInv, Tidy, Rest, Pending, Writes
  <2>2. /\ dir = "in" /\ pc >= CommandAt /\ pc < 4 /\ cnt = 0 /\ dataOut = Empty
        /\ Begun = pc /\ Written = pc /\ answered = "waits" /\ op /\ rdWr = "read"
    BY <1>1, <1>5, <2>1, TokenFacts
  <2>3. /\ pc \in 0 .. 4 /\ CommandAt \in {2, 3} /\ (CommandAt = 2 <=> call.kind = "read")
    BY Before
  <2>4. Access.reg = (IF pc = CommandAt THEN "STATUS" ELSE "RX_DATA") /\ regAddr = Access.reg
    BY <1>5, <2>1, <2>2, AccessIs DEF CpIInv, Stages
  <2>5. Tidy'
    BY <1>1, <2>1, <2>2 DEF Tidy
  <2>6. Written' = pc
    BY <1>1, <1>2, <2>1, <2>2 DEF Written
  <2>7. Waited'
    <3>1. pc > CommandAt => ~Busy
      BY <1>5 DEF CpIInv, Waited, StatusRead
    <3>2. pc = CommandAt /\ BusyBit \notin dataIn'[1] => ~Busy
      BY <1>1, <2>4 DEF RegValue
    <3>3. StatusRead' => ~Busy
      BY <1>1, <1>2, <2>2, <2>3, <2>4, <3>1, <3>2 DEF StatusRead
    <3> QED
      BY <1>1, <3>3, MiiStays DEF Waited
  <2>8. pc = 3 /\ call.kind = "read" => dataIn' = phy[call.idx]
    <3> HAVE pc = 3 /\ call.kind = "read"
    <3>1. pc > CommandAt /\ regAddr = "RX_DATA"
      BY <2>3, <2>4
    <3>2. ~Busy
      BY <1>5, <3>1 DEF CpIInv, Waited, StatusRead
    <3>3. Underway \/ Finished
      BY <1>5, <2>2, <2>3 DEF CpIInv, Carried
    <3>4. Underway => Busy
      BY DEF Underway, Busy
    <3>5. mii.RX_DATA = phy[call.idx]
      BY <3>2, <3>3, <3>4 DEF Finished
    <3> QED
      BY <1>1, <3>1, <3>5 DEF RegValue
  <2>9. Carried'
    BY <1>1, <1>2, <1>5, <2>1, <2>2, <2>6, <2>8, MiiStays
       DEF CpIInv, Carried, miimVars, PhyAddress
  <2> QED
    BY <1>3, <2>5, <2>7, <2>9 DEF CpIInv
<1> QED
  BY <1>4, <1>5

\* With the fourth byte there the write is cleared away, with three it is not.
LEMMA OpFinishKeeps ==
  ASSUME CpIInv, CpTypes', BridgeStep, RegFinish
  PROVE  CpIInv'
<1>1. /\ access = "REG_END" /\ access' = "IDLE"
      /\ UNCHANGED <<miimVars, dir, regAddr, rdWr, dataIn, call, pc, stage, sent, got, begun>>
      /\ dir = "in" => /\ ~op' /\ UNCHANGED <<dataOut, cnt>>
                       /\ answered' = IF answered = "waits" THEN "sent" ELSE answered
      /\ dir = "out" /\ cnt > 3 => ~op' /\ dataOut' = Empty /\ cnt' = 0 /\ UNCHANGED answered
      /\ dir # "in" /\ ~(dir = "out" /\ cnt > 3) => UNCHANGED <<op, dataOut, cnt, answered>>
  BY Finish DEF BridgeStep, driverVars, trafficVars
<1>2. /\ Access' = Access /\ CommandAt' = CommandAt /\ Begun' = Begun /\ (Clean' <=> Clean)
      /\ Program(call)' = Program(call)
  BY <1>1, CallStays
<1>3. answered' # "no" => answered # "no"
  BY <1>1
<1>4. Stages'
  BY <1>1, <1>2, <1>3 DEF CpIInv, Stages
<1>5. CASE ~Clean
  BY <1>2, <1>4, <1>5, NotClean
<1>6. CASE Clean
  <2>1. ~Rest /\ CommandAt \in {2, 3} /\ pc \in 0 .. 4 /\ sent \in 0 .. 3
        /\ stage \in {"setup", "data", "token", "idle", "failed"}
    BY <1>1, Before DEF Rest
  <2>2. CASE stage = "setup"
    <3>1. Pending /\ Begun = pc
      BY <1>6, <2>1, <2>2 DEF CpIInv, Tidy, Begun
    <3>2. Rest'
      BY <1>1, <3>1 DEF Pending, Writes, Rest
    <3>3. Tidy' /\ ~Pending' /\ (Answer' <=> Answer)
      BY <1>1, <2>2, <3>2 DEF Tidy, Pending, Writes, Rest, Answer
    <3>4. Written = pc /\ Written' = pc
      BY <1>1, <1>2, <2>2, <3>1, <3>3 DEF Written
    <3>5. Waited'
      BY <1>1, <1>2, <1>6, <3>3, MiiStays DEF CpIInv, Waited, StatusRead
    <3>6. Carried'
      BY <1>1, <1>2, <1>6, <3>3, <3>4, MiiStays DEF CpIInv, Carried, miimVars, PhyAddress
    <3> QED
      BY <1>4, <3>3, <3>5, <3>6 DEF CpIInv
  <2>3. CASE stage = "data"
    <3>1. ~(sent < 3)
      BY <1>1, <1>6, <2>3 DEF CpIInv, Tidy
    <3>2. sent = 3 /\ Writes(Access, 3) /\ dir = "out"
      BY <1>6, <2>1, <2>3, <3>1 DEF CpIInv, Tidy, Stages
    <3>3. UNCHANGED <<op, dataOut, cnt, answered>>
      BY <1>1, <3>2 DEF Writes
    <3>4. Tidy' /\ ~Answer'
      BY <1>1, <1>2, <2>3, <3>2, <3>3 DEF Tidy, Writes, Answer
    <3>5. Begun = pc + 1 /\ Written = pc + 1 /\ Written' = pc
      <4>1. Begun = pc + 1
        BY <2>3, <3>2 DEF Begun
      <4> QED
        BY <1>1, <1>2, <2>1, <2>3, <3>2, <4>1 DEF Written
    <3>6. Waited'
      BY <1>1, <1>2, <1>6, <3>4, MiiStays DEF CpIInv, Waited, StatusRead
    <3>7. Carried'
      BY <1>1, <1>2, <1>6, <2>1, <2>3, <3>4, <3>5, MiiStays
         DEF CpIInv, Carried, miimVars, PhyAddress
    <3> QED
      BY <1>4, <3>4, <3>6, <3>7 DEF CpIInv
  <2>4. CASE stage = "token"
    <3>1. /\ dir = "in" /\ cnt = 0 /\ dataOut = Empty /\ answered = "waits"
          /\ Begun = pc /\ Written = pc
      BY <1>1, <1>6, <2>4, TokenFacts
    <3>2. ~op' /\ answered' = "sent" /\ cnt' = 0 /\ dataOut' = Empty
      BY <1>1, <3>1
    <3>3. Tidy' /\ Answer /\ Answer'
      BY <1>1, <2>4, <3>2 DEF Tidy, Answer
    <3>4. Written' = pc
      BY <1>1, <1>2, <2>4, <3>1, <3>2 DEF Written, Pending
    <3>5. Waited'
      BY <1>1, <1>2, <1>6, <3>3, MiiStays DEF CpIInv, Waited, StatusRead
    <3>6. Carried'
      BY <1>1, <1>2, <1>6, <3>1, <3>3, <3>4, MiiStays DEF CpIInv, Carried, miimVars, PhyAddress
    <3> QED
      BY <1>4, <3>3, <3>5, <3>6 DEF CpIInv
  <2>5. CASE stage \in {"idle", "failed"}
    BY <1>6, <2>1, <2>5 DEF CpIInv, Tidy
  <2> QED
    BY <2>1, <2>2, <2>3, <2>4, <2>5
<1> QED
  BY <1>5, <1>6

\* A management step carries the command on: it starts it, takes its address, ends it.
LEMMA CommandGoesOn ==
  ASSUME MiiTypes, call \in Calls, MiiStep, Underway, mii.ADDRESS = PhyAddress(call),
         call.kind = "write" => mii.TX_DATA = call.val, UNCHANGED call
  PROVE  /\ mii'.ADDRESS = PhyAddress(call) /\ mii'.TX_DATA = mii.TX_DATA
         /\ Underway' \/ Finished'
<1>1. mii \in [ADDRESS : Word, COMMAND : Word, TX_DATA : Word, RX_DATA : Word]
      /\ (miiOp = "none" => miiReg = <<>>) /\ phy \in [PhyRegs -> Word]
  BY DEF MiiTypes
<1>2. call.kind \in {"read", "write"} /\ call.idx \in PhyRegs
  BY CallParts
<1>3. TheCommand' = TheCommand /\ PhyAddress(call)' = PhyAddress(call)
  BY DEF TheCommand, PhyAddress
<1>4. /\ TheCommand \in {RStat, WCtrlData} /\ TheCommand # ScanStat
      /\ (TheCommand = WCtrlData <=> call.kind = "write") /\ RStat # WCtrlData
  BY <1>2 DEF TheCommand, RStat, WCtrlData, ScanStat
<1>5. CASE MiiStart
  <2>1. Command = {TheCommand} /\ starts = {} /\ miiOp = "none"
    BY <1>5 DEF MiiStart, Underway
  <2>2. starts' = {TheCommand} /\ miiOp' = call.kind /\ miiReg' = <<>>
    <3>1. starts' = {TheCommand}
      BY <1>4, <1>5, <2>1 DEF MiiStart
    <3>2. miiOp' = IF WCtrlData \in starts' THEN "write" ELSE "read"
      BY <1>5, <2>1 DEF MiiStart
    <3> QED
      BY <1>1, <1>2, <1>4, <1>5, <2>1, <3>1, <3>2 DEF MiiStart
  <2>3. mii' = [mii EXCEPT !.COMMAND = <<{}, {}>>]
    BY <1>4, <1>5, <2>1 DEF MiiStart
  <2>4. mii'.ADDRESS = mii.ADDRESS /\ mii'.TX_DATA = mii.TX_DATA /\ Command' = {}
    BY <1>1, <2>3 DEF Command
  <2> QED
    BY <1>3, <2>2, <2>4 DEF Underway
<1>6. CASE ScanStart
  BY <1>4, <1>6 DEF ScanStart, Underway
<1>7. CASE MiiAddress
  <2>1. Command = {} /\ starts = {TheCommand} /\ miiOp = call.kind
    BY <1>7 DEF MiiAddress, Underway
  <2>2. miiReg' = PhyAddress(call) /\ Command' = Command /\ UNCHANGED <<mii, starts, miiOp, phy>>
    BY <1>7 DEF MiiAddress, Command
  <2> QED
    BY <1>3, <2>1, <2>2 DEF Underway
<1>8. CASE MiiEnd
  <2>1. Command = {} /\ starts = {TheCommand} /\ miiOp = call.kind /\ miiReg = PhyAddress(call)
    BY <1>8 DEF MiiEnd, Underway
  <2>2. Answers(miiReg) /\ miiReg[2] = call.idx
    BY <1>2, <2>1 DEF Answers, PhyAddress
  <2>3. CASE call.kind = "read"
    <3>1. mii' = [mii EXCEPT !.RX_DATA = phy[call.idx]] /\ phy' = phy
      BY <1>4, <1>8, <2>1, <2>2, <2>3 DEF MiiEnd
    <3>2. /\ mii'.ADDRESS = mii.ADDRESS /\ mii'.TX_DATA = mii.TX_DATA /\ Command' = Command
          /\ mii'.RX_DATA = phy[call.idx]
      BY <1>1, <3>1 DEF Command
    <3>3. ~Busy'
      BY <1>8, <2>1, <3>2 DEF MiiEnd, Busy
    <3> QED
      BY <2>3, <3>1, <3>2, <3>3 DEF Finished
  <2>4. CASE call.kind = "write"
    <3>1. mii' = mii /\ phy' = [phy EXCEPT ![call.idx] = call.val]
      BY <1>8, <2>1, <2>2, <2>4 DEF MiiEnd
    <3>2. phy'[call.idx] = call.val /\ Command' = Command
      BY <1>1, <1>2, <3>1 DEF Command
    <3>3. ~Busy'
      BY <1>8, <2>1, <3>2 DEF MiiEnd, Busy
    <3> QED
      BY <2>4, <3>1, <3>2, <3>3 DEF Finished
  <2> QED
    BY <1>2, <2>3, <2>4
<1> QED
  BY <1>5, <1>6, <1>7, <1>8 DEF MiiStep

LEMMA ManagementKeeps ==
  ASSUME CpIInv, CpTypes', ManagementStep
  PROVE  CpIInv'
<1>1. /\ MiiStep
      /\ UNCHANGED <<dir, regAddr, dataOut, cnt, op, rdWr, dataIn, access, answered, call, pc,
                     stage, sent, got, begun>>
  BY DEF ManagementStep, handlerVars, bridgeVars, driverVars, trafficVars
<1>2. /\ Access' = Access /\ CommandAt' = CommandAt /\ Begun' = Begun /\ (Clean' <=> Clean)
      /\ Program(call)' = Program(call)
  BY <1>1, CallStays
<1>3. Stages'
  BY <1>1, <1>2 DEF CpIInv, Stages
<1>4. CASE ~Clean
  BY <1>2, <1>3, <1>4, NotClean
<1>5. CASE Clean
  <2>1. Busy
    BY <1>1 DEF MiiStep, MiiStart, ScanStart, MiiAddress, MiiEnd, Busy
  <2>2. ~StatusRead
    BY <1>5, <2>1 DEF CpIInv, Waited
  <2>3. (Pending' <=> Pending) /\ (Answer' <=> Answer) /\ (StatusRead' <=> StatusRead)
    BY <1>1, <1>2 DEF Pending, Writes, Answer, StatusRead
  <2>4. Written' = Written
    BY <1>1, <1>2, <2>3 DEF Written
  <2>5. Tidy'
    BY <1>1, <1>2, <1>5, <2>3 DEF CpIInv, Tidy, Rest, Writes
  <2>6. Waited'
    BY <2>2, <2>3 DEF Waited
  <2>7. /\ call \in Calls /\ pc \in 0 .. 4 /\ sent \in 0 .. 3 /\ CommandAt \in {2, 3}
        /\ (CommandAt = 2 <=> call.kind = "read") /\ call.kind \in {"read", "write"}
    BY Before
  <2>8. Begun \in 0 .. 5 /\ Written \in {Begun, Begun - 1}
    BY <2>7 DEF Begun, Written
  <2>9. Begun >= CommandAt
    BY <1>5, <2>1, <2>7, <2>8 DEF CpIInv, Carried
  <2>10. Underway
    BY <1>5, <2>1, <2>9 DEF CpIInv, Carried
  <2>11. mii.ADDRESS = PhyAddress(call) /\ (call.kind = "write" => mii.TX_DATA = call.val)
    <3>1. Written >= 1 /\ (call.kind = "write" => Written >= 2)
      BY <2>7, <2>8, <2>9
    <3> QED
      BY <1>5, <3>1 DEF CpIInv, Carried
  <2>12. /\ mii'.ADDRESS = PhyAddress(call) /\ mii'.TX_DATA = mii.TX_DATA
         /\ Underway' \/ Finished'
    BY <1>1, <2>7, <2>10, <2>11, CommandGoesOn DEF CpIInv, CpTypes
  <2>13. Finished' => ~Busy'
    BY DEF Finished
  <2>14. ~(call.kind = "read" /\ pc >= 3) /\ pc # 4
    BY <2>2, <2>7 DEF StatusRead
  <2>15. ~(Begun' < CommandAt')
    BY <1>2, <2>7, <2>8, <2>9
  <2>16. Carried'
    BY <1>1, <2>7, <2>11, <2>12, <2>13, <2>14, <2>15 DEF Carried, PhyAddress
  <2> QED
    BY <1>3, <2>5, <2>6, <2>16 DEF CpIInv
<1> QED
  BY <1>4, <1>5

(***************************************************************************)
(* The invariant and the theorems.                                          *)
(***************************************************************************)
LEMMA CpNextInv == CpIInv /\ [CpNext]_vars => CpIInv'
<1> SUFFICES ASSUME CpIInv, [CpNext]_vars PROVE CpIInv'
  OBVIOUS
<1>1. CpTypes /\ Stages
  BY DEF CpIInv
<1>2. CASE Call
  BY <1>1, <1>2, DriverTypes, CallKeeps
<1>3. CASE OtherSetup
  BY <1>1, <1>3, DriverTypes, OtherSetupKeeps
<1>4. CASE TrafficEnds \/ Expire
  BY <1>1, <1>4, DriverTypes, TrafficKeeps
<1>5. CASE DriverStep
  <2>1. CpTypes'
    BY <1>1, <1>5, DriverTypes
  <2> QED
    BY <1>5, <2>1, SetupKeeps, SendByteKeeps, SendTokenKeeps, ReceiveKeeps DEF DriverStep
<1>6. CASE BridgeStep
  <2>1. CpTypes' /\ AccessStep
    BY <1>1, <1>6, DeviceTypes DEF BridgeStep
  <2> QED
    BY <1>6, <2>1, StartAccessKeeps, WriteRegKeeps, ReadRegKeeps, OpFinishKeeps DEF AccessStep
<1>7. CASE ManagementStep
  BY <1>1, <1>7, DeviceTypes, ManagementKeeps
<1>8. CASE UNCHANGED vars
  <2>1. UNCHANGED <<miimVars, dir, regAddr, dataOut, cnt, op, rdWr, dataIn, access, answered, call,
                    pc, stage, sent, got, traffic, begun>>
    BY <1>8 DEF vars, handlerVars, bridgeVars, driverVars, trafficVars
  <2>2. CpTypes'
    BY <1>8, SameMii, SameHandler, SameCall DEF vars, CpIInv, CpTypes
  <2>3. /\ Access' = Access /\ CommandAt' = CommandAt /\ Begun' = Begun /\ (Clean' <=> Clean)
        /\ Program(call)' = Program(call)
    BY <2>1, CallStays
  <2>4. Stages' /\ (Pending' <=> Pending) /\ (Answer' <=> Answer) /\ (StatusRead' <=> StatusRead)
    BY <2>1, <2>3 DEF CpIInv, Stages, Pending, Writes, Answer, StatusRead
  <2>5. Tidy' /\ Written' = Written
    BY <2>1, <2>3, <2>4 DEF CpIInv, Tidy, Rest, Writes, Written
  <2>6. Waited' /\ Carried'
    BY <2>1, <2>3, <2>4, <2>5, MiiStays DEF CpIInv, Waited, Carried, miimVars, PhyAddress
  <2> QED
    BY <2>2, <2>4, <2>5, <2>6 DEF CpIInv
<1> QED
  BY <1>2, <1>3, <1>4, <1>5, <1>6, <1>7, <1>8 DEF CpNext

LEMMA CpInvariant == CpSpec => []CpIInv
  BY CpInitInv, CpNextInv, PTL DEF CpSpec

\* A call that began at rest and returned: the handler is at rest, its frame is over.
LEMMA ReturnedFinished ==
  ASSUME CpIInv, Clean, Returned
  PROVE  /\ AtRest /\ Finished
         /\ call.kind = "read" => got = phy[call.idx]
<1>1. stage = "idle" /\ pc = 4 /\ CommandAt \in {2, 3}
  BY Before, Programs DEF Returned
<1>2. Rest /\ ~Busy
  BY <1>1 DEF CpIInv, Tidy, Waited, StatusRead
<1>3. Written = 4
  BY <1>1, <1>2 DEF Written, Begun, Pending, Writes, Rest
<1>4. Underway \/ Finished
  BY <1>1, <1>3 DEF CpIInv, Carried
<1>5. Finished
  BY <1>2, <1>4 DEF Underway, Busy
<1> QED
  BY <1>1, <1>2, <1>5 DEF CpIInv, Carried, AtRest, Rest

\* A call that began at rest and without traffic, and succeeds, has done what it was
\* asked: read_mii_word returns what the PHY's register holds, and after write_mii_word
\* the register holds the value.
THEOREM CallsAreRight == CpSpec => []MiiCallRight
<1>1. CpIInv => MiiCallRight
  <2> SUFFICES ASSUME CpIInv, Clean, Returned
               PROVE  IF call.kind = "read" THEN got = phy[call.idx] ELSE phy[call.idx] = call.val
    BY DEF MiiCallRight
  <2>1. call.kind \in {"read", "write"}
    BY Before
  <2> QED
    BY <2>1, ReturnedFinished DEF Finished
<1> QED
  BY <1>1, CpInvariant, PTL

\* And when it returns, the handler, InjectData and the management interface are
\* at rest: nothing of it reaches into the next call.
THEOREM CallsLeaveRest == CpSpec => []RestAgain
<1>1. CpIInv => RestAgain
  BY ReturnedFinished DEF RestAgain
<1> QED
  BY <1>1, CpInvariant, PTL

\* While such a call is under way the PHY is written only by it, before it returns,
\* and only as it asks.
THEOREM PhyOnlyAsAsked == CpSpec => PhyWrittenAsAsked
<1> DEFINE Asked == phy' # phy /\ Clean => /\ call.kind = "write" /\ ~Returned
                                           /\ phy' = [phy EXCEPT ![call.idx] = call.val]
<1>1. CpIInv /\ [CpNext]_vars => [Asked]_vars
  <2> SUFFICES ASSUME CpIInv, CpNext, phy' # phy, Clean
               PROVE  /\ call.kind = "write" /\ ~Returned
                      /\ phy' = [phy EXCEPT ![call.idx] = call.val]
    OBVIOUS
  <2>1. ManagementStep /\ MiiEnd
    <3>1. ~(Call \/ OtherSetup \/ TrafficEnds \/ Expire)
      BY DEF Call, OtherSetup, SetupStage, TrafficEnds, Expire, TokenExpires, miimVars
    <3>2. ~DriverStep
      BY DEF DriverStep, Setup, SetupStage, SendByte, DataByte, SendToken, InToken, Receive, miimVars
    <3>3. ~BridgeStep
      <4>1. ~RegFinish
        BY Finish DEF miimVars
      <4> QED
        BY <4>1 DEF BridgeStep, AccessStep, StartAccess, WriteReg, ReadReg, miimVars
    <3> QED
      BY <3>1, <3>2, <3>3
         DEF CpNext, ManagementStep, MiiStep, MiiStart, ScanStart, MiiAddress
  <2>2. Busy
    BY <2>1 DEF MiiEnd, Busy
  <2>3. /\ call \in Calls /\ pc \in 0 .. 4 /\ sent \in 0 .. 3 /\ CommandAt \in {2, 3}
        /\ (CommandAt = 2 <=> call.kind = "read") /\ call.kind \in {"read", "write"}
        /\ call.idx \in PhyRegs
    BY Before
  <2>4. Begun \in 0 .. 5 /\ Written \in {Begun, Begun - 1}
    BY <2>3 DEF Begun, Written
  <2>5. Begun >= CommandAt /\ Underway
    BY <2>2, <2>3, <2>4 DEF CpIInv, Carried
  <2>6. call.kind = "write" => mii.TX_DATA = call.val
    <3>1. call.kind = "write" => Written >= 2
      BY <2>3, <2>4, <2>5
    <3> QED
      BY <3>1 DEF CpIInv, Carried
  <2>7. miiOp = call.kind /\ miiReg = PhyAddress(call)
    BY <2>1, <2>5 DEF MiiEnd, Underway
  <2>8. call.kind = "write"
    BY <2>1, <2>7 DEF MiiEnd
  <2>9. ~Returned
    BY <2>2, ReturnedFinished DEF AtRest
  <2>10. miiReg[2] = call.idx
    BY <2>7 DEF PhyAddress
  <2> QED
    BY <2>1, <2>6, <2>7, <2>8, <2>9, <2>10 DEF MiiEnd
<1> QED
  BY <1>1, CpInvariant, PTL DEF CpSpec, PhyWrittenAsAsked
=============================================================================
