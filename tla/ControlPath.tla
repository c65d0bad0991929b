----------------------------- MODULE ControlPath -----------------------------
(***************************************************************************)
(* The driver's access to the PHY (deca_eth_interface.c: read_mii_word and   *)
(* write_mii_word over set_register and get_register), one control transfer *)
(* after the other: callers hold the RTNL lock, usb_control_msg waits.      *)
(***************************************************************************)
EXTENDS VendorRequests

CONSTANTS MaxRep,        \* status reads of a call (50)
          MaxTries,      \* tokens the host sends before it gives up (3)
          MaxBusyCalls,  \* bound: calls begun under traffic
          MaxLoose       \* bound: calls begun under traffic, or not at rest

ASSUME CpAssumption == /\ MaxRep \in Nat \ {0} /\ MaxTries \in Nat \ {0}
                       /\ MaxBusyCalls \in Nat /\ MaxLoose \in Nat

VARIABLES
  call,       \* the request: [kind, idx, val]
  pc,         \* how many register accesses of it are done
  stage,      \* control transfer: "setup", "data", "token"; "idle", "failed"
  sent,       \* data bytes of this transfer that are sent
  polls,      \* status reads of this call that said busy
  got,        \* what read_mii_word returns
  tries,      \* tokens of this transfer that expired
  traffic,    \* frames keep InjectData from IDLE: an access may take longer than
              \* the host waits for a token, or than it takes to the next SETUP
  begun,      \* history: how this call was begun: under "traffic", without it at
              \* "rest", else "first" or, after one that returned, "later"
  loose       \* calls begun under traffic, or not at rest

driverVars == <<call, pc, stage, sent, polls, got, tries>>
trafficVars == <<traffic, begun, loose>>
vars == <<miimVars, handlerVars, bridgeVars, answered, driverVars, trafficVars>>

Set(reg, value) == [dir |-> "out", reg |-> reg, value |-> value]
Get(reg) == [dir |-> "in", reg |-> reg, value |-> Zero]

PhyAddress(c) == <<PhyId, c.idx>>
Only(bit) == <<{bit}, {}>>

\* Mutant: the status register is not polled.
ProgramNoPoll(c) ==
  IF c.kind = "read"
  THEN <<Set("ADDRESS", PhyAddress(c)), Set("COMMAND", Only(RStat)), Get("RX_DATA")>>
  ELSE <<Set("ADDRESS", PhyAddress(c)), Set("TX_DATA", c.val), Set("COMMAND", Only(WCtrlData))>>

\* Mutant: the command is written before the data.
ProgramCommandFirst(c) ==
  IF c.kind = "read"
  THEN <<Set("ADDRESS", PhyAddress(c)), Set("COMMAND", Only(RStat)), Get("STATUS"), Get("RX_DATA")>>
  ELSE <<Set("ADDRESS", PhyAddress(c)), Set("COMMAND", Only(WCtrlData)), Set("TX_DATA", c.val), Get("STATUS")>>

\* The register accesses of read_mii_word and write_mii_word.
Program(c) ==
  IF c.kind = "read"
  THEN <<Set("ADDRESS", PhyAddress(c)), Set("COMMAND", Only(RStat)), Get("STATUS"), Get("RX_DATA")>>
  ELSE <<Set("ADDRESS", PhyAddress(c)), Set("TX_DATA", c.val), Set("COMMAND", Only(WCtrlData)), Get("STATUS")>>

Calls == [kind : {"read"}, idx : PhyRegs, val : {Zero}]
           \cup [kind : {"write"}, idx : PhyRegs, val : PhyValues]

\* The handler and the management interface have nothing left to do.
AtRest == ~op /\ access = "IDLE" /\ cnt = 0 /\ dataOut = Empty /\ ~Busy

CpInit ==
  /\ MiimInit /\ HandlerInit
  /\ call \in Calls /\ pc = 0 /\ stage = "idle" /\ sent = 0 /\ polls = 0
  /\ got = Zero /\ tries = 0
  /\ traffic \in BOOLEAN /\ begun = "traffic" /\ loose = 0

Access == Program(call)[pc + 1]
Returned == stage = "idle" /\ pc = Len(Program(call))

\* The access is done; a status that says busy is read again, so many times.
NextAccess(value) ==
  LET busy == Access.reg = "STATUS" /\ BusyBit \in value[1]
  IN /\ pc' = IF busy THEN pc ELSE pc + 1
     /\ polls' = IF busy /\ polls + 1 < MaxRep THEN polls + 1 ELSE 0
     /\ stage' = IF pc' = Len(Program(call)) THEN "idle"
                 ELSE IF busy /\ polls' = 0 THEN "failed" ELSE "setup"

Call ==
  /\ stage \in {"idle", "failed"}
  /\ call' \in Calls
  /\ pc' = 0 /\ stage' = "setup"
  /\ begun' = IF traffic THEN "traffic" ELSE IF AtRest THEN "rest"
              ELSE IF Returned /\ begun \in {"first", "later"} THEN "later" ELSE "first"
  /\ IF begun' = "rest" THEN UNCHANGED loose
     ELSE /\ loose < IF traffic THEN MaxBusyCalls ELSE MaxLoose
          /\ loose' = loose + 1
  /\ got' = Zero
  /\ UNCHANGED <<sent, polls, tries, traffic, miimVars, handlerVars, bridgeVars, answered>>

TrafficEnds ==
  /\ traffic
  /\ traffic' = FALSE
  /\ UNCHANGED <<begun, loose, miimVars, handlerVars, bridgeVars, answered, driverVars>>

\* Without traffic an access is done before the next SETUP.  (An op that is not
\* taken down at op_finish is up all the time, and the access repeated.)
Repeats == dir = "none" \/ (dir = "out" /\ cnt <= 3)
MaySetup == traffic \/ Repeats \/ (~op /\ access = "IDLE")

Setup ==
  /\ stage = "setup" /\ MaySetup
  /\ SetupStage(Access.dir, Access.reg)
  /\ stage' = IF Access.dir = "out" THEN "data" ELSE "token"
  /\ UNCHANGED <<call, pc, sent, polls, got, tries, trafficVars>>

\* The USB core sends a request of its own before an access.
OtherSetup ==
  /\ stage = "setup" /\ MaySetup
  /\ dir # "none"
  /\ SetupStage("none", regAddr)
  /\ UNCHANGED <<driverVars, trafficVars>>

\* A write: four bytes of data, of which the values fill two.  The status stage
\* is acknowledged at once.
SendByte ==
  /\ stage = "data"
  /\ DataByte(IF sent < 2 THEN Access.value[sent + 1] ELSE {})
  /\ sent' = (sent + 1) % 4
  /\ IF sent' = 0 THEN NextAccess(Zero) ELSE UNCHANGED <<pc, stage, polls>>
  /\ UNCHANGED <<call, got, tries, trafficVars>>

\* A read: an IN token, repeated when it expires, until the answer comes or the
\* host gives up.
SendToken ==
  /\ stage = "token" /\ answered = "no"
  /\ InToken
  /\ UNCHANGED <<driverVars, trafficVars>>

Expire ==
  /\ traffic
  /\ TokenExpires
  /\ tries' = (tries + 1) % MaxTries
  /\ stage' = IF tries' = 0 THEN "failed" ELSE "token"
  /\ polls' = IF tries' = 0 THEN 0 ELSE polls
  /\ UNCHANGED <<call, pc, sent, got, trafficVars>>

Receive ==
  /\ stage = "token" /\ answered = "sent"
  /\ NextAccess(dataIn)
  /\ got' = IF stage' = "idle" THEN dataIn ELSE Zero
  /\ answered' = "no"
  /\ tries' = 0
  /\ UNCHANGED <<call, sent, trafficVars, miimVars, handlerVars, bridgeVars>>

DriverStep == Setup \/ SendByte \/ SendToken \/ Receive

BridgeStep == AccessStep /\ UNCHANGED <<driverVars, trafficVars>>

ManagementStep ==
  MiiStep /\ UNCHANGED <<handlerVars, bridgeVars, answered, driverVars, trafficVars>>

CpNext == \/ Call \/ OtherSetup \/ TrafficEnds \/ Expire \/ DriverStep
          \/ BridgeStep \/ ManagementStep

CpSpec == CpInit /\ [][CpNext]_vars

\* The driver waits for its transfers, InjectData comes back to IDLE and the
\* management interface is clocked.
CpFairSpec == CpSpec /\ WF_vars(DriverStep) /\ WF_vars(BridgeStep)
                     /\ WF_vars(ManagementStep)

(***************************************************************************)
(* Properties.                                                              *)
(***************************************************************************)
Clean == begun = "rest"

\* A call that begins at rest and without traffic, and succeeds, has done what it was
\* asked: read_mii_word returns what the PHY's register holds, and after write_mii_word
\* the register holds the value.
MiiCallRight ==
  Clean /\ Returned => IF call.kind = "read" THEN got = phy[call.idx]
                                             ELSE phy[call.idx] = call.val

\* And when it returns, nothing of it is left behind: without traffic the next call
\* begins at rest again.
RestAgain == Clean /\ Returned => AtRest

\* From the start of a call at rest on, the PHY is written only as that call says.
PhyWrittenAsAsked ==
  [][phy' # phy /\ Clean => /\ call.kind = "write" /\ ~Returned
                            /\ phy' = [phy EXCEPT ![call.idx] = call.val]]_vars

\* A call ends, with a result or an error, whatever the traffic and whatever was
\* left behind.
CallsEnd == []<>(stage \in {"idle", "failed"})

\* Once the traffic is over and a call has cleared away what it left, the next one
\* reads what the PHY's register holds.
MiiReadSettles ==
  begun = "later" /\ Returned /\ call.kind = "read" => got = phy[call.idx]
=============================================================================
