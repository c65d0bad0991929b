-------------------------------- MODULE EthMiim --------------------------------
(***************************************************************************)
(* The MAC's MII management (eth_miim.v, eth_shiftreg.v and the MII         *)
(* registers of eth_registers.v).  A byte is the set of its one bits, a     *)
(* register's value a pair of bytes, the low one first.  A management frame *)
(* is three steps: start, the address shifted out, the data and the end.    *)
(***************************************************************************)
EXTENDS Integers, Sequences

Byte == SUBSET (0 .. 7)
Word == Byte \X Byte

CONSTANTS PhyId,      \* the address the PHY answers to
          PhyRegs,    \* numbers of its registers
          PhyValues   \* values of its registers

ASSUME PhyAssumption == /\ PhyId \in SUBSET (0 .. 3) /\ PhyRegs \subseteq SUBSET (0 .. 4)
                        /\ PhyValues \subseteq Word

VARIABLES
  mii,        \* ADDRESS, COMMAND, TX_DATA, RX_DATA
  starts,     \* RStatStart, WCtrlDataStart, as the bits that raised them
  miiOp,      \* "none", "read", "write": InProgress, WriteOp
  miiReg,     \* ADDRESS as it was shifted out; <<>>: not yet
  phy         \* the PHY's registers

miimVars == <<mii, starts, miiOp, miiReg, phy>>

\* Bits of COMMAND, and of STATUS.
ScanStat == 0
RStat == 1
WCtrlData == 2
BusyBit == 1

Zero == <<{}, {}>>

MiimInit ==
  /\ mii = [ADDRESS |-> Zero, COMMAND |-> Zero, TX_DATA |-> Zero, RX_DATA |-> Zero]
  /\ starts = {} /\ miiOp = "none" /\ miiReg = <<>>
  /\ phy = [r \in PhyRegs |-> <<{}, r>>]     \* no two alike

Command == mii.COMMAND[1]

Busy == Command # {} \/ starts # {} \/ miiOp # "none"

RegValue(reg) == IF reg = "STATUS" THEN <<IF Busy THEN {BusyBit} ELSE {}, {}>> ELSE mii[reg]

\* The bits a register has.  A command bit is held down while its start is up.
Masked(reg, value) ==
  CASE reg = "ADDRESS" -> <<value[1] \cap 0 .. 4, value[2] \cap 0 .. 4>>
    [] reg = "COMMAND" -> <<(value[1] \cap 0 .. 2) \ starts, {}>>
    [] OTHER -> value

\* RX_DATA and STATUS cannot be written.
WriteMii(reg, value) ==
  mii' = IF reg \in {"ADDRESS", "COMMAND", "TX_DATA"}
         THEN [mii EXCEPT ![reg] = Masked(reg, value)] ELSE mii

\* A command bit raises its start signal, which clears the bit.
MiiStart ==
  /\ Command \cap {RStat, WCtrlData} # {}
  /\ starts' = starts \cup (Command \cap {RStat, WCtrlData})
  /\ mii' = [mii EXCEPT !.COMMAND = <<Command \ {RStat, WCtrlData}, {}>>]
  /\ miiOp' = IF miiOp # "none" THEN miiOp ELSE IF WCtrlData \in starts' THEN "write" ELSE "read"
  /\ UNCHANGED <<miiReg, phy>>

\* The scan bit stays, and starts a read whenever none is under way.
ScanStart ==
  /\ ScanStat \in Command /\ miiOp = "none"
  /\ miiOp' = "read"
  /\ UNCHANGED <<mii, starts, miiReg, phy>>

MiiAddress ==
  /\ miiOp # "none" /\ miiReg = <<>>
  /\ miiReg' = mii.ADDRESS
  /\ UNCHANGED <<mii, starts, miiOp, phy>>

Answers(addr) == addr[1] = PhyId /\ addr[2] \in PhyRegs

\* Nobody drives the line: it is pulled up.
Ones == <<0 .. 7, 0 .. 7>>

\* EndBusy drops every start signal, and RX_DATA is updated after a read.
MiiEnd ==
  /\ miiOp # "none" /\ miiReg # <<>>
  /\ phy' = IF miiOp = "write" /\ Answers(miiReg)
            THEN [phy EXCEPT ![miiReg[2]] = mii.TX_DATA] ELSE phy
  /\ mii' = IF miiOp = "read" /\ WCtrlData \notin starts
            THEN [mii EXCEPT !.RX_DATA = IF Answers(miiReg) THEN phy[miiReg[2]] ELSE Ones]
            ELSE mii
  /\ starts' = {} /\ miiOp' = "none" /\ miiReg' = <<>>

MiiStep == MiiStart \/ ScanStart \/ MiiAddress \/ MiiEnd
=============================================================================
