-------------------------------- MODULE WbBus --------------------------------
(***************************************************************************)
(* The Wishbone bus of eth_interface.py clock by clock: three masters, the  *)
(* arbiter, WishboneRAM, and the MAC's registers and descriptor memory,     *)
(* which the bus shares with the MAC's two engines.                         *)
(*                                                                         *)
(* Tick is a clock edge.  Between two edges a master that rests may start   *)
(* an access (its strobe is combinational), and the MAC may change what is  *)
(* its own.  EthInterface takes an access as one step; this module and the  *)
(* refinement of AtomicBus say why it may.                                  *)
(***************************************************************************)
EXTENDS Naturals

CONSTANTS RamCells, BdCells, RegCells, Values,
          MaxBurst     \* ETH_BURST_LENGTH

ASSUME BusAssumption ==
  /\ RamCells # {} /\ BdCells # {} /\ RegCells # {} /\ MaxBurst \in Nat \ {0}
  /\ RamCells \cap BdCells = {} /\ RegCells \cap (RamCells \cup BdCells) = {}
  /\ "x" \notin BdCells    \* the mark X is not an address

VARIABLES
  mem,       \* every register, descriptor and memory word
  req,       \* the access each master asks for
  grant,     \* the arbiter's grant register
  burst,     \* words of the MAC's burst that went before
  cycCleared,        \* the MAC's master keeps cyc low for this clock
  flag, ramAck,      \* WishboneRAM: flag, bus.ack
  ramIn,     \* WishboneRAM: the access in the registers of the memory's ports
  ramOut,    \* WishboneRAM: bus.dat_r
  macAck, macDat,    \* temp_wb_ack_o_reg, temp_wb_dat_o_reg of eth_top
  en, enQ,   \* whose stage it is at the descriptor memory, and was a clock ago
  needed,    \* the engines that need it: RxEn_needed, TxEn_needed
  bdOp, bdAdr, bdDi, \* BDRead or BDWrite, ram_addr, ram_di
  bdRaddr,   \* the address register in the memory
  bdAck      \* WB_ACK_O

masterVars == <<req, grant, burst, cycCleared>>
ramVars == <<flag, ramAck, ramIn, ramOut>>
macVars == <<macAck, macDat>>
bdVars  == <<en, enQ, needed, bdOp, bdAdr, bdDi, bdRaddr, bdAck>>
vars == <<mem, masterVars, ramVars, macVars, bdVars>>

Cells   == RamCells \cup BdCells \cup RegCells
Masters == {"hmi", "id", "mac"}
Reach   == [hmi |-> RegCells, id |-> Cells, mac |-> RamCells]

X       == "x"   \* an address or a word that nothing makes valid
Idle    == [is |-> "idle"]
Asks(m) == [is : {"write"}, cell : Reach[m], val : Values]
             \cup [is : {"read"}, cell : Reach[m]]

Init ==
  /\ mem \in [Cells -> Values]
  /\ req = [m \in Masters |-> Idle] /\ grant = "hmi" /\ burst = 0
  /\ cycCleared = FALSE
  /\ flag = FALSE /\ ramAck = FALSE /\ ramIn = Idle /\ ramOut = X
  /\ macAck = FALSE /\ macDat = X
  /\ en = "wb" /\ enQ = "none" /\ needed = {} /\ bdOp = "none"
  /\ bdAdr = X /\ bdDi = X /\ bdRaddr = X /\ bdAck = FALSE

(***************************************************************************)
(* Masters and arbiter.                                                     *)
(***************************************************************************)
\* The decoder hands the slaves' acknowledges on.
BusAck == ramAck \/ macAck

\* SimplePortsToWb lowers cyc and stb in the acknowledge cycle; the MAC's
\* master, which has them in registers, does not.
Cyc(m) == req[m] # Idle /\ ~(m \in {"hmi", "id"} /\ m = grant /\ BusAck)

NextMaster(m) == CASE m = "hmi" -> "id" [] m = "id" -> "mac" [] m = "mac" -> "hmi"

\* Round robin, while the granted master does not hold cyc.
Arbiter ==
  LET n == NextMaster(grant)
  IN grant' = IF Cyc(grant) THEN grant
              ELSE IF Cyc(n) THEN n
              ELSE IF Cyc(NextMaster(n)) THEN NextMaster(n) ELSE grant

\* A master that rests starts an access.
Start(m) ==
  /\ req[m] = Idle /\ ~(m = "mac" /\ cycCleared)
  /\ \E a \in Asks(m) : req' = [req EXCEPT ![m] = a]
  /\ UNCHANGED <<mem, grant, burst, cycCleared, ramVars, macVars, bdVars>>

Ends(m) == req[m] # Idle /\ m = grant /\ BusAck

\* The granted master sees the acknowledge.  The MAC goes on with its burst or
\* clears cyc for a clock; the others start again in a later state.  (A burst of
\* the code is of reads or of writes only, one of the model may mix them.)
MasterTick ==
  \/ /\ Ends(grant)
     /\ req' = [req EXCEPT ![grant] = Idle]
     /\ burst' = 0 /\ cycCleared' = (grant = "mac")
  \/ /\ Ends("mac") /\ burst + 1 < MaxBurst
     /\ \E a \in Asks("mac") : req' = [req EXCEPT !["mac"] = a]
     /\ burst' = burst + 1 /\ cycCleared' = FALSE
  \/ /\ ~Ends(grant)
     /\ cycCleared' = FALSE
     /\ UNCHANGED <<req, burst>>

\* The access that the slaves of one kind see.
Strobe(cells) == Cyc(grant) /\ req[grant].cell \in cells
WriteStrobe(cells) == Strobe(cells) /\ req[grant].is = "write"
ReadStrobe(cells)  == Strobe(cells) /\ req[grant].is = "read"

(***************************************************************************)
(* WishboneRAM: address, data and write enable are registered, then the     *)
(* memory's port is; flag delays the acknowledge by the clock that takes.   *)
(***************************************************************************)
\* Mutant: acknowledged without the clock that the memory's port takes.
EarlyRamAck ==
  /\ flag' = FALSE
  /\ ramAck' = (Strobe(RamCells) /\ ~ramAck)

RamAck ==
  /\ flag' = (Strobe(RamCells) /\ ~flag /\ ~ramAck)
  /\ ramAck' = (Strobe(RamCells) /\ flag /\ ~ramAck)

RamTick ==
  /\ RamAck
  /\ ramIn' = IF Strobe(RamCells) THEN req[grant] ELSE Idle
  /\ ramOut' = IF ramAck' /\ ramIn # Idle THEN mem'[ramIn.cell] ELSE X

(***************************************************************************)
(* The MAC's slave port: registers answer at once, descriptors after bdAck. *)
(***************************************************************************)
\* Mutant: the answer does not end after a clock.
MacAckStays == macAck' = (bdAck \/ (req[grant] # Idle /\ req[grant].cell \in RegCells))

MacAck == macAck' = ((Strobe(RegCells) \/ bdAck) /\ ~macAck)

MacTick ==
  /\ MacAck
  /\ macDat' = IF ReadStrobe(RegCells) THEN mem[req[grant].cell]
             ELSE IF bdRaddr # X THEN mem[bdRaddr] ELSE X

(***************************************************************************)
(* The descriptor memory has one port.  It goes round the bus ("wb"), the   *)
(* receive engine and the transmit engine as they need it, and a clock of   *)
(* rest ("none").  The stage is decided by its value a clock ago, enQ.      *)
(***************************************************************************)
InWb == en = "wb" /\ enQ = "wb"

\* A rest with a need has no case in the code: the stage holds.
Stage ==
  IF enQ = "wb" /\ "rx" \in needed THEN "rx"
  ELSE IF enQ \in {"wb", "rx"} /\ "tx" \in needed THEN "tx"
  ELSE IF enQ = "wb" THEN (IF en = "wb" THEN "none" ELSE en)
  ELSE IF enQ = "none" /\ needed # {} THEN en
  ELSE "wb"

\* An engine's need ends in its own stage.
NeedEnds == needed \subseteq needed' \cup (IF en = enQ THEN {en} ELSE {})

\* Mutant: a need may begin at any time.
NeedsAnyTime == needed' \in SUBSET {"rx", "tx"} /\ NeedEnds

\* A need begins in the first clock of the bus's stage.
Needs ==
  /\ needed' \in SUBSET (IF en = "wb" /\ enQ # "wb" THEN {"rx", "tx"} ELSE needed)
  /\ NeedEnds

\* What the way into a stage latches; the data of the engines is in MacChanges.
Latch ==
  LET granted == Strobe(BdCells)
  IN CASE Stage = "wb" /\ ~(enQ = "none" /\ needed # {}) ->
            /\ bdOp' = IF granted THEN req[grant].is ELSE "none"
            /\ bdAdr' = IF granted THEN req[grant].cell ELSE X
            /\ bdDi' = IF WriteStrobe(BdCells) THEN req[grant].val ELSE X
       [] Stage \in {"rx", "tx"} -> bdAdr' \in BdCells /\ UNCHANGED <<bdOp, bdDi>>
       [] OTHER -> UNCHANGED <<bdOp, bdAdr, bdDi>>

\* A write is done in the second clock of the stage, a read is on its way in
\* the first.
BdAck ==
  bdAck' = (en = "wb" /\ bdOp = (IF enQ = "wb" THEN "write" ELSE "read"))

BdTick ==
  /\ Needs /\ Latch /\ BdAck
  /\ en' = Stage /\ enQ' = en /\ bdRaddr' = IF en = "wb" /\ bdOp = "read" THEN bdAdr ELSE X

(***************************************************************************)
(* The clock edge.                                                          *)
(***************************************************************************)
Stores ==
  mem' = [c \in Cells |->
            CASE ramIn.is = "write" /\ c = ramIn.cell -> ramIn.val
              [] WriteStrobe(RegCells) /\ c = req[grant].cell -> req[grant].val
              [] bdOp = "write" /\ InWb /\ c = bdAdr -> bdDi
              [] OTHER -> mem[c]]

Tick == Stores /\ MasterTick /\ Arbiter /\ RamTick /\ MacTick /\ BdTick

\* The engine whose stage it is writes a status; registers (interrupt sources,
\* MII status) change of themselves.
MacChanges ==
  /\ \E c \in RegCells \cup (IF en = enQ /\ en \in {"rx", "tx"}
                               THEN {bdAdr} ELSE {}), v \in Values :
       mem' = [mem EXCEPT ![c] = v]
  /\ UNCHANGED <<masterVars, ramVars, macVars, bdVars>>

Next == Tick \/ MacChanges \/ \E m \in Masters : Start(m)

Spec == Init /\ [][Next]_vars

(***************************************************************************)
(* Properties.                                                              *)
(***************************************************************************)
\* An acknowledge, in the slave's answer register (ramAck, macAck) or on its
\* way there (bdAck), always belongs to the access that the granted master
\* asks for at that moment: memory.py, eth_top.v and eth_wishbone.v delay it by
\* different numbers of clocks, and each must have ended before the next access.
NoStrayAck ==
  /\ ramAck => req[grant] # Idle /\ req[grant].cell \in RamCells
  /\ macAck => req[grant] # Idle /\ req[grant].cell \notin RamCells
  /\ bdAck  => req[grant] # Idle /\ req[grant].cell \in BdCells
  /\ ~(ramAck /\ macAck)

BusDat == IF req[grant].cell \in RamCells THEN ramOut ELSE macDat

\* An access has taken effect once it is acknowledged; a write to a descriptor
\* already when the acknowledge is on its way.
Port(m) ==
  IF req[m] = Idle \/ m # grant THEN req[m]
  ELSE IF BusAck \/ (bdAck /\ req[m].is = "write")
    THEN [is |-> "done",
          val |-> IF req[m].is = "write" THEN req[m].val ELSE BusDat]
  ELSE req[m]

\* Every access is atomic (AtomicBus): whatever the clocks it takes and the
\* engines that use the descriptor memory in between, it reads or writes its
\* own cell once, with its own data.
Atomic == INSTANCE AtomicBus WITH
  port <- [m \in Masters |-> Port(m)], Volatile <- BdCells \cup RegCells

AtomicSpec == Atomic!Spec

\* The stage machine of the descriptor memory has no case for an engine that
\* needs the memory in a rest; in that clock none does.
RestWithoutNeed == enQ = "none" => needed = {}
=============================================================================
