----------------------------- MODULE WbBusProofs -----------------------------
(***************************************************************************)
(* Proofs about the clocked bus (WbBus), for any cells, words and burst     *)
(* length: the slaves' acknowledges never outlive their access, the stage   *)
(* machine of the descriptor memory never meets a need in a rest, and every *)
(* access is atomic (the bus implements AtomicBus).                         *)
(***************************************************************************)
EXTENDS WbBus, TLAPS

(***************************************************************************)
(* The inductive invariant.                                                 *)
(***************************************************************************)
BusTypes ==
  /\ mem \in [Cells -> Values]
  /\ grant \in Masters /\ DOMAIN req = Masters
  /\ \A m \in Masters : req[m] = Idle \/ req[m] \in Asks(m)
  /\ flag \in BOOLEAN /\ ramAck \in BOOLEAN
  /\ macAck \in BOOLEAN /\ bdAck \in BOOLEAN
  /\ ramIn = Idle \/ \E m \in Masters : ramIn \in Asks(m)
  /\ needed \in SUBSET {"rx", "tx"}

\* What the memory's port holds is the access asked for or has been stored.
RamInv ==
  /\ ramIn # Idle => ramIn.cell \in RamCells
  /\ flag => Strobe(RamCells) /\ ramIn = req[grant] /\ ~ramAck
  /\ ramAck => req[grant] # Idle /\ ramIn = req[grant]
  /\ ~flag /\ ramIn.is = "write" => mem[ramIn.cell] = ramIn.val

\* The stages that the round goes through, with the needs they may meet.
StageInv ==
  CASE en = "wb" -> /\ enQ \in {"wb", "none", "rx", "tx"}
                    /\ enQ = "none" => needed = {}
                    /\ enQ = "rx" => "tx" \notin needed
    [] en = "rx" -> enQ = "rx" \/ (enQ = "wb" /\ "rx" \in needed)
    [] en = "tx" -> \/ enQ = "tx"
                    \/ (enQ = "rx" /\ "tx" \in needed)
                    \/ (enQ = "wb" /\ "tx" \in needed /\ "rx" \notin needed)
    [] en = "none" -> enQ \in {"wb", "none"} /\ needed = {}
    [] OTHER -> FALSE

\* What the bus's stage has latched is the access that waits; the engines'
\* stages latch a descriptor's address; an acknowledge comes after a read's
\* first clock or a write's second.
BdInv ==
  /\ bdOp \in {"none", "read", "write"}
  /\ en = "wb" /\ bdOp # "none" =>
       /\ Strobe(BdCells)
       /\ bdOp = req[grant].is /\ bdAdr = req[grant].cell
       /\ bdOp = "write" => bdDi = req[grant].val
  /\ en \in {"rx", "tx"} => bdAdr \in BdCells
  /\ bdAck => /\ Strobe(BdCells) /\ enQ = "wb"
              /\ en = "wb" => req[grant].is = "read" /\ bdRaddr = req[grant].cell
              /\ en # "wb" => req[grant].is = "write"

MacInv == macAck => req[grant] # Idle /\ req[grant].cell \notin RamCells

BusIInv == BusTypes /\ RamInv /\ StageInv /\ BdInv /\ MacInv

(***************************************************************************)
(* Accesses.                                                                *)
(***************************************************************************)
USE BusAssumption

\* An access is a read or a write of a cell that the master reaches.
LEMMA AskType ==
  ASSUME NEW m \in Masters, NEW a \in Asks(m)
  PROVE  /\ a # Idle /\ a.is \in {"read", "write"}
         /\ a.cell \in Reach[m] /\ a.cell \in Cells
         /\ a.is = "write" => a.val \in Values
         /\ m = "mac" => a.cell \in RamCells
  BY DEF Asks, Idle, Masters, Reach, Cells

\* A cell belongs to one slave.
LEMMA OneSlave ==
  \A c : /\ ~(c \in RamCells /\ c \in BdCells)
         /\ ~(c \in RegCells /\ c \in BdCells)
         /\ ~(c \in RamCells /\ c \in RegCells)
  OBVIOUS

\* While the MAC's slave answers, no access is on its way to it: only
\* SimplePortsToWb's masters reach it, and they lower cyc.
LEMMA QuietWhenAcked ==
  ASSUME BusIInv, BusAck
  PROVE  ~Strobe(BdCells) /\ ~Strobe(RegCells)
<1>1. grant \in Masters /\ (Cyc(grant) => grant = "mac" /\ req[grant] \in Asks("mac"))
  BY DEF BusIInv, BusTypes, Cyc, Masters
<1> QED
  BY <1>1, AskType, OneSlave DEF Strobe, Masters

\* The grant stays while its master holds cyc; an access that is not
\* acknowledged stays.
LEMMA Waits ==
  ASSUME BusIInv, Tick, Cyc(grant), ~BusAck
  PROVE  grant' = grant /\ req' = req
  BY DEF Tick, Arbiter, MasterTick, Ends

LEMMA GrantType ==
  ASSUME BusIInv, Tick
  PROVE  grant' \in Masters
  BY DEF BusIInv, BusTypes, Tick, Arbiter, NextMaster, Masters

LEMMA ReqType ==
  ASSUME BusIInv, Tick
  PROVE  /\ DOMAIN req' = Masters
         /\ \A m \in Masters : req'[m] = Idle \/ req'[m] \in Asks(m)
         /\ \A m \in Masters : m # grant => req'[m] = req[m]
  BY DEF BusIInv, BusTypes, Tick, MasterTick, Ends, Masters

\* Without a strobe of its own, no slave has an acknowledge under way.
LEMMA NoAckWithout ==
  ASSUME BusIInv, Tick
  PROVE  /\ ramAck' => Strobe(RamCells) /\ flag /\ ~BusAck
         /\ flag' => Strobe(RamCells) /\ ~BusAck
         /\ bdAck' => Strobe(BdCells) /\ ~BusAck /\ ~bdAck
         /\ macAck' => (Strobe(RegCells) \/ Strobe(BdCells)) /\ ~BusAck
<1>1. ~macAck \/ ~Strobe(RamCells)
  BY OneSlave DEF BusIInv, MacInv, Strobe
<1>2. bdAck' => en = "wb" /\ bdOp # "none"
  BY DEF Tick, BdTick, BdAck
<1>3. bdAck' => ~bdAck
  BY DEF Tick, BdTick, BdAck, BusIInv, BdInv
<1>4. ramAck' => Strobe(RamCells) /\ flag /\ ~ramAck
  BY DEF Tick, RamTick, RamAck
<1>5. flag' => Strobe(RamCells) /\ ~ramAck
  BY DEF Tick, RamTick, RamAck
<1>6. macAck' => (Strobe(RegCells) \/ bdAck)
  BY DEF Tick, MacTick, MacAck
<1>7. bdAck => Strobe(BdCells)
  BY DEF BusIInv, BdInv
<1>8. (en = "wb" /\ bdOp # "none") => Strobe(BdCells)
  BY DEF BusIInv, BdInv
<1> QED
  BY <1>1, <1>2, <1>3, <1>4, <1>5, <1>6, <1>7, <1>8, QuietWhenAcked DEF BusAck

(***************************************************************************)
(* What a clock stores.                                                     *)
(***************************************************************************)
\* A slave that stores has an access of the granted master to do so.
LEMMA Granted ==
  ASSUME BusIInv, Cyc(grant)
  PROVE  /\ grant \in Masters /\ req[grant] \in Asks(grant) /\ req[grant] # Idle
         /\ req[grant].is \in {"read", "write"} /\ req[grant].cell \in Cells
         /\ req[grant].is = "write" => req[grant].val \in Values
  BY AskType DEF BusIInv, BusTypes, Cyc

\* The memory's words change from its port only.
LEMMA RamStores ==
  ASSUME BusIInv, Stores, NEW c \in RamCells
  PROVE  mem'[c] = IF ramIn.is = "write" /\ c = ramIn.cell THEN ramIn.val ELSE mem[c]
<1>1. c \in Cells
  BY DEF Cells
<1>2. ~(WriteStrobe(RegCells) /\ c = req[grant].cell)
  BY OneSlave DEF WriteStrobe, Strobe
<1>3. ~(bdOp = "write" /\ InWb /\ c = bdAdr)
  BY OneSlave DEF BusIInv, BdInv, Strobe, InWb
<1> QED
  BY <1>1, <1>2, <1>3 DEF Stores

\* The port of the memory stores what it has stored, unless its access is new.
LEMMA RamStoresOld ==
  ASSUME BusIInv, ~flag, ramIn.is = "write"
  PROVE  ramIn.cell \in RamCells /\ mem[ramIn.cell] = ramIn.val
  BY DEF BusIInv, RamInv, Idle

\* A clock changes the words in one of three ways, or not at all.
RamWrites == flag /\ req[grant].is = "write"
RegWrites == WriteStrobe(RegCells)
BdWrites  == bdOp = "write" /\ InWb

LEMMA StoresOne ==
  ASSUME BusIInv, Stores
  PROVE  /\ RamWrites \/ RegWrites \/ BdWrites =>
              mem' = [mem EXCEPT ![req[grant].cell] = req[grant].val]
         /\ ~RamWrites /\ ~RegWrites /\ ~BdWrites => mem' = mem
<1> DEFINE cell == req[grant].cell
<1>1. mem \in [Cells -> Values] /\ mem' = [c \in Cells |-> mem'[c]]
  BY DEF Stores, BusIInv, BusTypes
<1>2. flag => Strobe(RamCells) /\ ramIn = req[grant]
  BY DEF BusIInv, RamInv
<1>3. BdWrites => Strobe(BdCells) /\ req[grant].is = "write" /\ bdAdr = cell /\ bdDi = req[grant].val
  BY DEF BusIInv, BdInv, BdWrites, InWb
<1>4. RegWrites => Strobe(RegCells) /\ req[grant].is = "write"
  BY DEF RegWrites, WriteStrobe
<1>5. \A c \in Cells : ~flag /\ ramIn.is = "write" /\ c = ramIn.cell => ramIn.val = mem[c]
  BY RamStoresOld
<1>6. ASSUME RamWrites PROVE mem' = [mem EXCEPT ![cell] = req[grant].val]
  <2>1. ~RegWrites /\ ~BdWrites
    BY <1>2, <1>3, <1>4, <1>6, OneSlave DEF Strobe, RamWrites
  <2>2. \A c \in Cells : mem'[c] = IF c = cell THEN req[grant].val ELSE mem[c]
    BY <1>2, <1>6, <2>1 DEF Stores, RegWrites, BdWrites, RamWrites
  <2> QED
    BY <1>1, <2>2
<1>7. ASSUME RegWrites PROVE mem' = [mem EXCEPT ![cell] = req[grant].val]
  <2>1. ~flag /\ ~BdWrites
    BY <1>2, <1>3, <1>4, <1>7, OneSlave DEF Strobe
  <2>2. cell \in RegCells
    BY <1>4, <1>7 DEF Strobe
  <2>3. ramIn.is = "write" => ramIn.cell # cell
    BY <2>1, <2>2, RamStoresOld, OneSlave
  <2>4. \A c \in Cells : mem'[c] = IF c = cell THEN req[grant].val ELSE mem[c]
    BY <1>5, <1>7, <2>1, <2>3 DEF Stores, RegWrites, BdWrites
  <2> QED
    BY <1>1, <2>4
<1>8. ASSUME BdWrites PROVE mem' = [mem EXCEPT ![cell] = req[grant].val]
  <2>1. ~flag /\ ~RegWrites
    BY <1>2, <1>3, <1>4, <1>8, OneSlave DEF Strobe
  <2>2. cell \in BdCells
    BY <1>3, <1>8 DEF Strobe
  <2>3. ramIn.is = "write" => ramIn.cell # cell
    BY <2>1, <2>2, RamStoresOld, OneSlave
  <2>4. \A c \in Cells : mem'[c] = IF c = cell THEN req[grant].val ELSE mem[c]
    BY <1>3, <1>5, <1>8, <2>1, <2>3 DEF Stores, RegWrites, BdWrites
  <2> QED
    BY <1>1, <2>4
<1>9. ASSUME ~RamWrites, ~RegWrites, ~BdWrites PROVE mem' = mem
  <2>1. \A c \in Cells : ramIn.is = "write" /\ c = ramIn.cell => ramIn.val = mem[c]
    BY <1>2, <1>5, <1>9 DEF RamWrites
  <2>2. \A c \in Cells : mem'[c] = mem[c]
    BY <1>9, <2>1 DEF Stores, RegWrites, BdWrites
  <2> QED
    BY <1>1, <2>2
<1> QED
  BY <1>6, <1>7, <1>8, <1>9

(***************************************************************************)
(* A clock edge preserves the invariant.                                    *)
(***************************************************************************)
LEMMA TickTypes == BusIInv /\ Tick => BusTypes'
<1> SUFFICES ASSUME BusIInv, Tick PROVE BusTypes'
  OBVIOUS
<1>1. mem' \in [Cells -> Values]
  <2>1. RamWrites \/ RegWrites \/ BdWrites => Cyc(grant) /\ req[grant].is = "write"
    BY DEF BusIInv, RamInv, BdInv, RamWrites, RegWrites, BdWrites, InWb, WriteStrobe, Strobe
  <2>2. RamWrites \/ RegWrites \/ BdWrites => req[grant].cell \in Cells /\ req[grant].val \in Values
    BY <2>1, Granted
  <2>3. mem \in [Cells -> Values]
    BY DEF BusIInv, BusTypes
  <2> QED
    BY <2>2, <2>3, StoresOne DEF Tick
<1>2. flag' \in BOOLEAN /\ ramAck' \in BOOLEAN /\ macAck' \in BOOLEAN /\ bdAck' \in BOOLEAN
  BY DEF Tick, RamTick, RamAck, MacTick, MacAck, BdTick, BdAck
<1>3. ramIn' = Idle \/ \E m \in Masters : ramIn' \in Asks(m)
  BY Granted DEF Tick, RamTick, Strobe
<1>4. needed' \in SUBSET {"rx", "tx"}
  BY DEF Tick, BdTick, Needs, BusIInv, BusTypes
<1> QED
  BY <1>1, <1>2, <1>3, <1>4, GrantType, ReqType DEF BusTypes

LEMMA TickRam == BusIInv /\ Tick => RamInv'
<1> SUFFICES ASSUME BusIInv, Tick PROVE RamInv'
  OBVIOUS
<1>1. ramIn' = IF Strobe(RamCells) THEN req[grant] ELSE Idle
  BY DEF Tick, RamTick
<1>2. ramIn' # Idle => ramIn'.cell \in RamCells
  BY <1>1 DEF Strobe
<1>3. flag' => Strobe(RamCells)' /\ ramIn' = req'[grant'] /\ ~ramAck'
  <2> SUFFICES ASSUME flag' PROVE Strobe(RamCells)' /\ ramIn' = req'[grant'] /\ ~ramAck'
    OBVIOUS
  <2>1. Strobe(RamCells) /\ ~BusAck
    BY NoAckWithout
  <2>2. ~ramAck'
    BY DEF Tick, RamTick, RamAck
  <2>3. ~macAck'
    BY <2>1, NoAckWithout, OneSlave DEF Strobe
  <2>4. req' = req /\ grant' = grant
    BY <2>1, Waits DEF Strobe
  <2> QED
    BY <1>1, <2>1, <2>2, <2>3, <2>4 DEF Strobe, Cyc, BusAck
<1>4. ramAck' => req'[grant'] # Idle /\ ramIn' = req'[grant']
  <2> SUFFICES ASSUME ramAck' PROVE req'[grant'] # Idle /\ ramIn' = req'[grant']
    OBVIOUS
  <2>1. Strobe(RamCells) /\ ~BusAck
    BY NoAckWithout
  <2>2. req' = req /\ grant' = grant
    BY <2>1, Waits DEF Strobe
  <2> QED
    BY <1>1, <2>1, <2>2 DEF Strobe, Cyc
<1>5. ~flag' /\ ramIn'.is = "write" => mem'[ramIn'.cell] = ramIn'.val
  <2> SUFFICES ASSUME ~flag', ramIn'.is = "write" PROVE mem'[ramIn'.cell] = ramIn'.val
    OBVIOUS
  <2>1. Strobe(RamCells) /\ ramIn' = req[grant]
    BY <1>1 DEF Idle
  <2>2. flag \/ ramAck
    BY <2>1 DEF Tick, RamTick, RamAck
  <2>3. ramIn = req[grant]
    BY <2>2 DEF BusIInv, RamInv
  <2>4. mem'[ramIn.cell] = ramIn.val
    BY <2>1, <2>3, RamStores DEF Tick, Strobe
  <2> QED
    BY <2>1, <2>3, <2>4
<1> QED
  BY <1>2, <1>3, <1>4, <1>5 DEF RamInv

LEMMA TickMac == BusIInv /\ Tick => MacInv'
<1> SUFFICES ASSUME BusIInv, Tick, macAck' PROVE (req[grant] # Idle /\ req[grant].cell \notin RamCells)'
  BY DEF MacInv
<1>1. (Strobe(RegCells) \/ Strobe(BdCells)) /\ ~BusAck
  BY NoAckWithout
<1>2. req' = req /\ grant' = grant
  BY <1>1, Waits DEF Strobe
<1> QED
  BY <1>1, <1>2, OneSlave DEF Strobe, Cyc

LEMMA TickStage == BusIInv /\ Tick => StageInv'
<1> SUFFICES ASSUME BusIInv, Tick PROVE StageInv'
  OBVIOUS
<1>1. needed \in SUBSET {"rx", "tx"}
  BY DEF BusIInv, BusTypes
<1>2. StageInv /\ en' = Stage /\ enQ' = en /\ Needs
  BY DEF BusIInv, Tick, BdTick
<1>3. CASE en = "wb" /\ enQ = "wb"
  <2>1. needed' \subseteq needed
    BY <1>2, <1>3 DEF Needs
  <2>2. \A e \in {"rx", "tx"} : e \in needed => e \in needed'
    BY <1>2, <1>3 DEF Needs, NeedEnds
  <2>3. ("rx" \in needed' <=> "rx" \in needed) /\ ("tx" \in needed' <=> "tx" \in needed)
    BY <2>1, <2>2
  <2>4. "rx" \notin needed /\ "tx" \notin needed => needed' = {}
    BY <1>1, <2>1
  <2>5. en' = IF "rx" \in needed THEN "rx" ELSE IF "tx" \in needed THEN "tx" ELSE "none"
    BY <1>2, <1>3 DEF Stage
  <2> QED
    BY <1>2, <1>3, <2>3, <2>4, <2>5 DEF StageInv
<1>4. CASE en = "wb" /\ enQ # "wb"
  BY <1>1, <1>2, <1>4 DEF StageInv, Stage, Needs, NeedEnds
<1>5. CASE en = "rx"
  BY <1>1, <1>2, <1>5 DEF StageInv, Stage, Needs, NeedEnds
<1>6. CASE en = "tx"
  BY <1>1, <1>2, <1>6 DEF StageInv, Stage, Needs, NeedEnds
<1>7. CASE en = "none"
  BY <1>1, <1>2, <1>7 DEF StageInv, Stage, Needs, NeedEnds
<1> QED
  BY <1>2, <1>3, <1>4, <1>5, <1>6, <1>7 DEF StageInv

\* An access that waits for the MAC's descriptors waits for one clock more, and
\* the bus goes on without an acknowledge, unless one was under way.
LEMMA BdWaits ==
  ASSUME BusIInv, Tick, Strobe(BdCells), ~bdAck
  PROVE  req' = req /\ grant' = grant /\ Strobe(BdCells)'
<1>1. ~BusAck
  BY QuietWhenAcked
<1>2. req' = req /\ grant' = grant
  BY <1>1, Waits DEF Strobe
<1>3. ~ramAck'
  BY NoAckWithout, OneSlave DEF Strobe
<1>4. ~macAck'
  BY OneSlave DEF Tick, MacTick, MacAck, Strobe
<1> QED
  BY <1>2, <1>3, <1>4 DEF Strobe, Cyc, BusAck

LEMMA TickBd == BusIInv /\ Tick => BdInv'
<1> SUFFICES ASSUME BusIInv, Tick PROVE BdInv'
  OBVIOUS
<1>1. StageInv /\ BdInv /\ StageInv' /\ en' = Stage /\ enQ' = en /\ Latch /\ BdAck
  BY TickStage DEF BusIInv, Tick, BdTick
<1>2. needed \in SUBSET {"rx", "tx"}
  BY DEF BusIInv, BusTypes
<1>3. Strobe(BdCells) => req[grant].is \in {"read", "write"}
  BY Granted DEF Strobe
<1>4. Stage = "wb" => ~(enQ = "none" /\ needed # {})
  BY <1>1, <1>2 DEF StageInv, Stage
<1>5. Stage = "wb" => /\ bdOp' = IF Strobe(BdCells) THEN req[grant].is ELSE "none"
                      /\ bdAdr' = IF Strobe(BdCells) THEN req[grant].cell ELSE X
                      /\ bdDi' = IF WriteStrobe(BdCells) THEN req[grant].val ELSE X
  BY <1>1, <1>4 DEF Latch
<1>6. Stage # "wb" => bdOp' = bdOp
  BY <1>1, <1>4 DEF Latch
<1>7. bdOp' \in {"none", "read", "write"}
  BY <1>1, <1>3, <1>5, <1>6 DEF BdInv
<1>8. en' \in {"rx", "tx"} => bdAdr' \in BdCells
  BY <1>1 DEF Latch
<1>9. en' = "wb" => ~bdAck
  BY <1>1, <1>2 DEF BdInv, StageInv, Stage
<1>10. en' = "wb" /\ bdOp' # "none" =>
         /\ Strobe(BdCells)'
         /\ bdOp' = req'[grant'].is /\ bdAdr' = req'[grant'].cell
         /\ bdOp' = "write" => bdDi' = req'[grant'].val
  <2> SUFFICES ASSUME en' = "wb", bdOp' # "none"
               PROVE  /\ Strobe(BdCells)'
                      /\ bdOp' = req'[grant'].is /\ bdAdr' = req'[grant'].cell
                      /\ bdOp' = "write" => bdDi' = req'[grant'].val
    OBVIOUS
  <2>1. Strobe(BdCells) /\ ~bdAck
    BY <1>1, <1>5, <1>9
  <2>2. req' = req /\ grant' = grant /\ Strobe(BdCells)'
    BY <2>1, BdWaits
  <2> QED
    BY <1>1, <1>5, <2>1, <2>2 DEF WriteStrobe
<1>11. bdAck' => /\ Strobe(BdCells)' /\ enQ' = "wb"
                 /\ en' = "wb" => req'[grant'].is = "read" /\ bdRaddr' = req'[grant'].cell
                 /\ en' # "wb" => req'[grant'].is = "write"
  <2> SUFFICES ASSUME bdAck'
               PROVE  /\ Strobe(BdCells)' /\ enQ' = "wb"
                      /\ en' = "wb" => req'[grant'].is = "read" /\ bdRaddr' = req'[grant'].cell
                      /\ en' # "wb" => req'[grant'].is = "write"
    OBVIOUS
  <2>1. Strobe(BdCells) /\ ~bdAck
    BY NoAckWithout
  <2>2. req' = req /\ grant' = grant /\ Strobe(BdCells)'
    BY <2>1, BdWaits
  <2>3. en = "wb" /\ bdOp = (IF enQ = "wb" THEN "write" ELSE "read")
    BY <1>1 DEF BdAck
  <2>4. bdOp = req[grant].is /\ bdAdr = req[grant].cell
    BY <1>1, <2>3 DEF BdInv
  <2>5. en' = "wb" <=> enQ # "wb"
    BY <1>1, <1>2, <2>3 DEF StageInv, Stage
  <2>6. bdOp = "read" => bdRaddr' = bdAdr
    BY <2>3 DEF Tick, BdTick
  <2> QED
    BY <1>1, <2>2, <2>3, <2>4, <2>5, <2>6
<1> QED
  BY <1>7, <1>8, <1>10, <1>11 DEF BdInv

LEMMA TickInv == BusIInv /\ Tick => BusIInv'
  BY TickTypes, TickRam, TickMac, TickStage, TickBd DEF BusIInv

(***************************************************************************)
(* Between two edges a master that rests starts, or the MAC changes a word. *)
(***************************************************************************)
\* The access of the granted master, where there is one, is not replaced.
LEMMA StartKeeps ==
  ASSUME BusIInv, NEW m \in Masters, Start(m)
  PROVE  /\ grant' = grant /\ req[m] = Idle
         /\ req[grant] # Idle => req'[grant] = req[grant]
         /\ \A c \in Masters : c # m => req'[c] = req[c]
         /\ DOMAIN req' = Masters /\ req'[m] \in Asks(m)
  BY DEF Start, BusIInv, BusTypes

LEMMA StartInv == \A m \in Masters : BusIInv /\ Start(m) => BusIInv'
<1> SUFFICES ASSUME NEW m \in Masters, BusIInv, Start(m) PROVE BusIInv'
  OBVIOUS
<1>1. UNCHANGED <<mem, grant, burst, cycCleared, ramVars, macVars, bdVars>>
  BY DEF Start
<1> USE DEF ramVars, macVars, bdVars
<1>2. Cyc(grant) => Cyc(grant)' /\ req'[grant] = req[grant]
  BY <1>1, StartKeeps DEF Cyc, BusAck
<1>3. BusTypes'
  <2>1. \A c \in Masters : req'[c] = Idle \/ req'[c] \in Asks(c)
    BY StartKeeps DEF BusIInv, BusTypes
  <2> QED
    BY <1>1, <2>1, StartKeeps DEF BusIInv, BusTypes
<1>4. RamInv'
  BY <1>1, <1>2, StartKeeps DEF BusIInv, RamInv, Strobe
<1>5. StageInv'
  BY <1>1 DEF BusIInv, StageInv
<1>6. BdInv'
  <2>1. Strobe(BdCells) => Strobe(BdCells)' /\ req'[grant'] = req[grant]
    BY <1>1, <1>2 DEF Strobe
  <2> QED
    BY <1>1, <2>1 DEF BusIInv, BdInv
<1>7. MacInv'
  BY <1>1, StartKeeps DEF BusIInv, MacInv
<1> QED
  BY <1>3, <1>4, <1>5, <1>6, <1>7 DEF BusIInv

\* What the MAC changes of itself is a register or a descriptor.
LEMMA MacChangesWhat ==
  ASSUME BusIInv, MacChanges
  PROVE  \E c \in BdCells \cup RegCells, v \in Values : mem' = [mem EXCEPT ![c] = v]
<1>1. en \in {"rx", "tx"} => bdAdr \in BdCells
  BY DEF BusIInv, BdInv
<1> QED
  BY <1>1 DEF MacChanges

LEMMA MacChangesInv == BusIInv /\ MacChanges => BusIInv'
<1> SUFFICES ASSUME BusIInv, MacChanges PROVE BusIInv'
  OBVIOUS
<1>1. UNCHANGED <<masterVars, ramVars, macVars, bdVars>>
  BY DEF MacChanges
<1> USE DEF masterVars, ramVars, macVars, bdVars
<1>2. PICK c \in BdCells \cup RegCells, v \in Values : mem' = [mem EXCEPT ![c] = v]
  BY MacChangesWhat
<1>3. mem' \in [Cells -> Values]
  BY <1>2 DEF BusIInv, BusTypes, Cells
<1>4. \A a \in RamCells : mem'[a] = mem[a]
  BY <1>2, OneSlave DEF BusIInv, BusTypes, Cells
<1>5. Strobe(RamCells)' = Strobe(RamCells) /\ Strobe(BdCells)' = Strobe(BdCells)
  BY <1>1 DEF Strobe, Cyc, BusAck
<1>6. BusTypes'
  BY <1>1, <1>3 DEF BusIInv, BusTypes
<1>7. RamInv'
  <2>1. ~flag /\ ramIn.is = "write" => mem'[ramIn.cell] = ramIn.val
    BY <1>4, RamStoresOld
  <2> QED
    BY <1>1, <1>5, <2>1 DEF BusIInv, RamInv
<1>8. StageInv' /\ BdInv' /\ MacInv'
  BY <1>1, <1>5 DEF BusIInv, StageInv, BdInv, MacInv
<1> QED
  BY <1>6, <1>7, <1>8 DEF BusIInv

\* The initial state: no acknowledge under way, no access latched.
LEMMA InitInv == Init => BusIInv
<1> SUFFICES ASSUME Init PROVE BusIInv
  OBVIOUS
<1>1. BusTypes
  BY DEF Init, BusTypes, Masters
<1>2. RamInv /\ StageInv /\ BdInv /\ MacInv
  BY DEF Init, RamInv, StageInv, BdInv, MacInv, Idle
<1> QED
  BY <1>1, <1>2 DEF BusIInv

\* The invariant holds in every state, for any cells, words and burst length.
THEOREM BusInvariant == Spec => []BusIInv
<1>1. BusIInv /\ [Next]_vars => BusIInv'
  <2> SUFFICES ASSUME BusIInv, [Next]_vars PROVE BusIInv'
    OBVIOUS
  <2>1. CASE Tick
    BY <2>1, TickInv
  <2>2. CASE MacChanges
    BY <2>2, MacChangesInv
  <2>3. CASE \E m \in Masters : Start(m)
    BY <2>3, StartInv
  <2>4. CASE UNCHANGED vars
    BY <2>4 DEF vars, masterVars, ramVars, macVars, bdVars, BusIInv, BusTypes, RamInv, StageInv,
                BdInv, MacInv, Strobe, Cyc, BusAck
  <2> QED
    BY <2>1, <2>2, <2>3, <2>4 DEF Next
<1> QED
  BY <1>1, InitInv, PTL DEF Spec

\* An acknowledge of WishboneRAM, of the MAC's registers or of its descriptor
\* memory always belongs to the access the granted master asks for
\* (memory.py:94, eth_top.v, eth_wishbone.v).
THEOREM AcknowledgesBelong == Spec => []NoStrayAck
<1>1. BusIInv => NoStrayAck
  <2> SUFFICES ASSUME BusIInv PROVE NoStrayAck
    OBVIOUS
  <2>1. ramAck => req[grant] # Idle /\ req[grant].cell \in RamCells
    BY DEF BusIInv, RamInv
  <2>2. bdAck => req[grant] # Idle /\ req[grant].cell \in BdCells
    BY DEF BusIInv, BdInv, Strobe, Cyc
  <2> QED
    BY <2>1, <2>2 DEF BusIInv, MacInv, NoStrayAck
<1> QED
  BY <1>1, BusInvariant, PTL

\* The stage machine of the descriptor memory never meets the one case that
\* eth_wishbone.v leaves out, a need in a clock of rest.
THEOREM RestsAreIdle == Spec => []RestWithoutNeed
<1>1. BusIInv => RestWithoutNeed
  BY DEF BusIInv, StageInv, RestWithoutNeed
<1> QED
  BY <1>1, BusInvariant, PTL

(***************************************************************************)
(* The refinement of AtomicBus: a clock is one step of the granted master's *)
(* access, or none.                                                         *)
(***************************************************************************)
Ports == [m \in Masters |-> Port(m)]

\* A master that is not granted waits with its access or rests.
LEMMA PortOther == \A m \in Masters : m # grant => Ports[m] = req[m]
  BY DEF Ports, Port

\* After a clock the ports of the other masters are as they were.
LEMMA PortsOtherwise ==
  ASSUME BusIInv, Tick, NEW m \in Masters, m # grant
  PROVE  Ports'[m] = Ports[m]
<1>1. req'[m] = req[m] /\ Ports[m] = req[m]
  BY ReqType, PortOther
<1>2. CASE m # grant'
  BY <1>1, <1>2 DEF Ports, Port
<1>3. CASE m = grant'
  <2>1. ~Cyc(grant) \/ BusAck
    BY <1>3, Waits
  <2>2. ~BusAck' /\ ~bdAck'
    BY <2>1, NoAckWithout DEF Strobe, BusAck
  <2> QED
    BY <1>1, <1>3, <2>2 DEF Ports, Port
<1> QED
  BY <1>2, <1>3

\* So the ports change at the granted master only.
LEMMA PortsChange ==
  ASSUME BusIInv, Tick
  PROVE  Ports' = [Ports EXCEPT ![grant] = Ports'[grant]]
<1>1. grant \in Masters
  BY DEF BusIInv, BusTypes
<1>2. DOMAIN Ports = Masters /\ Ports' = [m \in Masters |-> Ports'[m]]
  BY DEF Ports
<1> QED
  BY <1>1, <1>2, PortsOtherwise DEF Ports

\* The port of the granted master while its access waits.
LEMMA PortGranted ==
  ASSUME BusIInv, Cyc(grant), ~BusAck
  PROVE  Ports[grant] = IF bdAck /\ req[grant].is = "write"
                          THEN [is |-> "done", val |-> req[grant].val] ELSE req[grant]
  BY Granted DEF Ports, Port

\* ... and after the clock.
LEMMA PortGrantedNext ==
  ASSUME BusIInv, Tick, Cyc(grant), ~BusAck
  PROVE  Ports'[grant] =
           IF BusAck' \/ (bdAck' /\ req[grant].is = "write")
             THEN [is |-> "done",
                   val |-> IF req[grant].is = "write" THEN req[grant].val
                           ELSE IF req[grant].cell \in RamCells THEN ramOut' ELSE macDat']
             ELSE req[grant]
<1>1. grant' = grant /\ req' = req
  BY Waits
<1> QED
  BY <1>1, Granted DEF Ports, Port, BusDat

\* The asks of both modules are the same.
LEMMA SameAsks ==
  ASSUME NEW m \in Masters
  PROVE  /\ Atomic!Asks(m) = Asks(m) /\ Atomic!Idle = Idle
         /\ \A a \in Asks(m) : a.is = "read" => a \in Atomic!Reads(m)
         /\ \A a \in Asks(m) : a.is = "write" => a \in Atomic!Writes(m)
  BY DEF Atomic!Asks, Atomic!Idle, Atomic!Reads, Atomic!Writes, Asks, Idle

\* A clock with an acknowledge stores nothing new and takes it back.
LEMMA TakeStep ==
  ASSUME BusIInv, Tick, BusAck
  PROVE  Atomic!Take(grant) /\ grant \in Masters
<1>1. grant \in Masters /\ req[grant] # Idle
  BY DEF BusIInv, BusTypes, RamInv, MacInv, BusAck
<1>2. ~RamWrites /\ ~RegWrites /\ ~BdWrites
  BY QuietWhenAcked, OneSlave
     DEF BusIInv, RamInv, BdInv, MacInv, BusAck, RamWrites, RegWrites, BdWrites, WriteStrobe, InWb, Strobe
<1>3. mem' = mem
  BY <1>2, StoresOne DEF Tick
<1>4. Ports[grant].is = "done"
  BY <1>1 DEF Ports, Port
<1>5. ~BusAck' /\ ~bdAck'
  BY NoAckWithout DEF BusAck
<1>6. Ports'[grant] = req'[grant]
  BY <1>1, <1>5 DEF Ports, Port
<1>7. req'[grant] \in {Idle} \cup Asks(grant)
  BY <1>1, ReqType
<1>8. Ports' = [Ports EXCEPT ![grant] = req'[grant]]
  BY <1>6, PortsChange
<1> QED
  BY <1>1, <1>3, <1>4, <1>7, <1>8, SameAsks DEF Atomic!Take, Ports

\* The clock in which an access takes effect, at whatever slave: the answer is
\* the word of its cell, or its own data, which are stored.
LEMMA EffectStep ==
  ASSUME BusIInv, Tick, Cyc(grant), Ports[grant] = req[grant],
         req[grant].is = "read" => /\ mem' = mem
                                   /\ Ports'[grant] = [is |-> "done", val |-> mem[req[grant].cell]],
         req[grant].is = "write" => /\ mem' = [mem EXCEPT ![req[grant].cell] = req[grant].val]
                                    /\ Ports'[grant] = [is |-> "done", val |-> req[grant].val]
  PROVE  grant \in Masters /\ (Atomic!Read(grant) \/ Atomic!Write(grant))
<1>1. grant \in Masters /\ req[grant] \in Asks(grant) /\ req[grant].is \in {"read", "write"}
  BY Granted
<1>2. CASE req[grant].is = "read"
  <2>1. Ports[grant] \in Atomic!Reads(grant)
    BY <1>1, <1>2, SameAsks
  <2>2. Ports' = [Ports EXCEPT ![grant] = Atomic!Done(mem[Ports[grant].cell])]
    BY <1>2, PortsChange DEF Atomic!Done
  <2> QED
    BY <1>1, <1>2, <2>1, <2>2 DEF Atomic!Read, Ports
<1>3. CASE req[grant].is = "write"
  <2>1. Ports[grant] \in Atomic!Writes(grant)
    BY <1>1, <1>3, SameAsks
  <2>2. Ports' = [Ports EXCEPT ![grant] = Atomic!Done(Ports[grant].val)]
    BY <1>3, PortsChange DEF Atomic!Done
  <2> QED
    BY <1>1, <1>3, <2>1, <2>2 DEF Atomic!Write, Ports
<1> QED
  BY <1>1, <1>2, <1>3

\* A clock that stores nothing and leaves the granted port is no step.
LEMMA NoStep ==
  ASSUME BusIInv, Tick, mem' = mem, Ports'[grant] = Ports[grant]
  PROVE  UNCHANGED <<mem, Ports>>
<1>1. DOMAIN Ports = Masters /\ DOMAIN Ports' = Masters
  BY DEF Ports
<1>2. \A m \in Masters : Ports'[m] = Ports[m]
  BY PortsOtherwise
<1> QED
  BY <1>1, <1>2 DEF Ports

AtomicStep == \E m \in Masters : Atomic!Read(m) \/ Atomic!Write(m)

\* An access to the memory takes effect in the clock that flag delays the
\* acknowledge by.
LEMMA RamStep ==
  ASSUME BusIInv, Tick, Strobe(RamCells), ~BusAck
  PROVE  AtomicStep \/ UNCHANGED <<mem, Ports>>
<1>1. Cyc(grant) /\ req[grant].cell \in RamCells
  BY DEF Strobe
<1>2. req[grant].is \in {"read", "write"}
  BY <1>1, Granted
<1>3. ~RegWrites /\ ~BdWrites
  BY <1>1, OneSlave DEF BusIInv, BdInv, RegWrites, BdWrites, WriteStrobe, InWb, Strobe
<1>4. ~bdAck /\ ~bdAck' /\ ~macAck'
  BY <1>1, NoAckWithout, OneSlave DEF Strobe, BusIInv, BdInv
<1>5. ramAck' = flag
  BY DEF Tick, RamTick, RamAck, BusAck, BusIInv, BusTypes
<1>6. Ports[grant] = req[grant]
  BY <1>1, <1>4, PortGranted
<1>7. Ports'[grant] = IF flag THEN [is |-> "done",
                                    val |-> IF req[grant].is = "write" THEN req[grant].val ELSE ramOut']
                      ELSE req[grant]
  BY <1>1, <1>4, <1>5, PortGrantedNext DEF BusAck
<1>8. CASE ~flag
  <2>1. mem' = mem
    BY <1>3, <1>8, StoresOne DEF Tick, RamWrites
  <2> QED
    BY <1>6, <1>7, <1>8, <2>1, NoStep
<1>9. CASE flag
  <2>1. req[grant].is = "write" => mem' = [mem EXCEPT ![req[grant].cell] = req[grant].val]
    BY <1>9, StoresOne DEF Tick, RamWrites
  <2>2. req[grant].is = "read" => mem' = mem
    BY <1>3, StoresOne DEF Tick, RamWrites
  <2>3. ramOut' = mem'[req[grant].cell]
    <3>1. ramIn = req[grant] /\ ramIn # Idle /\ ramAck'
      BY <1>1, <1>5, <1>9, Granted DEF BusIInv, RamInv
    <3> QED
      BY <3>1 DEF Tick, RamTick
  <2> QED
    BY <1>1, <1>2, <1>6, <1>7, <1>9, <2>1, <2>2, <2>3, EffectStep DEF AtomicStep
<1> QED
  BY <1>8, <1>9

\* A register answers, and is written, in the clock that it is asked in.
LEMMA RegStep ==
  ASSUME BusIInv, Tick, Strobe(RegCells), ~BusAck
  PROVE  AtomicStep
<1>1. Cyc(grant) /\ req[grant].cell \in RegCells
  BY DEF Strobe
<1>2. req[grant].is \in {"read", "write"}
  BY <1>1, Granted
<1>3. ~RamWrites /\ ~BdWrites
  BY <1>1, OneSlave DEF BusIInv, RamInv, BdInv, RamWrites, BdWrites, InWb, Strobe
<1>4. ~bdAck /\ macAck'
  BY <1>1, OneSlave DEF Strobe, BusIInv, BdInv, Tick, MacTick, MacAck, BusAck
<1>5. Ports[grant] = req[grant]
  BY <1>1, <1>4, PortGranted
<1>6. Ports'[grant] = [is |-> "done",
                       val |-> IF req[grant].is = "write" THEN req[grant].val ELSE macDat']
  BY <1>1, <1>4, OneSlave, PortGrantedNext DEF BusAck
<1>7. req[grant].is = "write" => mem' = [mem EXCEPT ![req[grant].cell] = req[grant].val]
  BY StoresOne DEF Tick, RegWrites, WriteStrobe
<1>8. req[grant].is = "read" => mem' = mem /\ macDat' = mem[req[grant].cell]
  <2>1. req[grant].is = "read" => ~RegWrites
    BY DEF RegWrites, WriteStrobe
  <2> QED
    BY <1>3, <2>1, StoresOne DEF Tick, MacTick, ReadStrobe
<1> QED
  BY <1>1, <1>2, <1>5, <1>6, <1>7, <1>8, EffectStep DEF AtomicStep

\* A descriptor is written in the second clock of the bus's stage, and read in
\* the clock after that: whatever engines have the memory in between.
LEMMA BdStep ==
  ASSUME BusIInv, Tick, Strobe(BdCells), ~BusAck
  PROVE  AtomicStep \/ UNCHANGED <<mem, Ports>>
<1>1. Cyc(grant) /\ req[grant].cell \in BdCells
  BY DEF Strobe
<1>2. req[grant].is \in {"read", "write"}
  BY <1>1, Granted
<1>3. ~RamWrites /\ ~RegWrites
  BY <1>1, OneSlave DEF BusIInv, RamInv, RamWrites, RegWrites, WriteStrobe, Strobe
<1>4. ~ramAck' /\ macAck' = bdAck
  <2>1. ~ramAck'
    BY <1>1, NoAckWithout, OneSlave DEF Strobe
  <2>2. ~Strobe(RegCells) /\ ~macAck
    BY <1>1, OneSlave DEF Strobe, BusAck
  <2> QED
    BY <2>1, <2>2 DEF Tick, MacTick, MacAck, BusIInv, BusTypes
<1>5. bdAck' => ~bdAck
  BY NoAckWithout
<1>6. CASE bdAck /\ req[grant].is = "write"
  <2>1. ~BdWrites
    BY <1>6 DEF BdWrites, InWb, BusIInv, BdInv
  <2>2. mem' = mem
    BY <1>3, <2>1, StoresOne DEF Tick
  <2>3. Ports'[grant] = Ports[grant]
    BY <1>1, <1>4, <1>6, PortGranted, PortGrantedNext DEF BusAck
  <2> QED
    BY <2>2, <2>3, NoStep
<1>7. CASE bdAck /\ req[grant].is = "read"
  <2>1. ~BdWrites /\ bdRaddr = req[grant].cell
    BY <1>7 DEF BdWrites, InWb, BusIInv, BdInv
  <2>2. mem' = mem
    BY <1>3, <2>1, StoresOne DEF Tick
  <2>3. macDat' = mem[req[grant].cell]
    <3>1. ~ReadStrobe(RegCells)
      BY <1>1, OneSlave DEF ReadStrobe, Strobe
    <3>2. bdRaddr # X
      BY <1>1, <2>1 DEF X
    <3> QED
      BY <2>1, <3>1, <3>2 DEF Tick, MacTick
  <2>4. Ports[grant] = req[grant]
    BY <1>1, <1>7, PortGranted
  <2>5. Ports'[grant] = [is |-> "done", val |-> macDat']
    BY <1>1, <1>4, <1>7, OneSlave, PortGrantedNext DEF BusAck
  <2> QED
    BY <1>1, <1>7, <2>2, <2>3, <2>4, <2>5, EffectStep DEF AtomicStep
<1>8. CASE ~bdAck
  <2>1. Ports[grant] = req[grant]
    BY <1>1, <1>8, PortGranted
  <2>2. bdAck' = (en = "wb" /\ bdOp = (IF enQ = "wb" THEN "write" ELSE "read"))
    BY DEF Tick, BdTick, BdAck
  <2>3. en = "wb" /\ bdOp # "none" => bdOp = req[grant].is
    BY DEF BusIInv, BdInv
  <2>4. CASE BdWrites
    <3>1. bdAck' /\ req[grant].is = "write"
      BY <2>2, <2>3, <2>4 DEF BdWrites, InWb
    <3>2. mem' = [mem EXCEPT ![req[grant].cell] = req[grant].val]
      BY <2>4, StoresOne DEF Tick
    <3>3. Ports'[grant] = [is |-> "done", val |-> req[grant].val]
      BY <1>1, <3>1, PortGrantedNext
    <3> QED
      BY <1>1, <2>1, <3>1, <3>2, <3>3, EffectStep DEF AtomicStep
  <2>5. CASE ~BdWrites
    <3>1. mem' = mem
      BY <1>3, <2>5, StoresOne DEF Tick
    <3>2. ~(bdAck' /\ req[grant].is = "write")
      BY <2>2, <2>3, <2>5 DEF BdWrites, InWb
    <3>3. Ports'[grant] = req[grant]
      BY <1>1, <1>4, <1>8, <3>2, PortGrantedNext DEF BusAck
    <3> QED
      BY <2>1, <3>1, <3>3, NoStep
  <2> QED
    BY <2>4, <2>5
<1> QED
  BY <1>2, <1>6, <1>7, <1>8

\* Without an access of the granted master nothing takes effect.
LEMMA RestStep ==
  ASSUME BusIInv, Tick, req[grant] = Idle
  PROVE  UNCHANGED <<mem, Ports>>
<1>1. grant \in Masters /\ ~Cyc(grant) /\ ~BusAck
  BY DEF BusIInv, BusTypes, RamInv, MacInv, BusAck, Cyc
<1>2. ~RamWrites /\ ~RegWrites /\ ~BdWrites
  BY <1>1 DEF BusIInv, RamInv, BdInv, RamWrites, RegWrites, BdWrites, WriteStrobe, InWb, Strobe
<1>3. ~BusAck' /\ ~bdAck'
  BY <1>1, NoAckWithout DEF Strobe, BusAck
<1>4. req' = req
  BY <1>1 DEF Tick, MasterTick, Ends
<1>5. Ports[grant] = Idle /\ Ports'[grant] = Idle
  BY <1>1, <1>3, <1>4 DEF Ports, Port
<1> QED
  BY <1>2, <1>5, StoresOne, NoStep DEF Tick

LEMMA TickRefines == BusIInv /\ Tick => Atomic!Next \/ UNCHANGED <<mem, Ports>>
<1> SUFFICES ASSUME BusIInv, Tick PROVE Atomic!Next \/ UNCHANGED <<mem, Ports>>
  OBVIOUS
<1>1. CASE BusAck
  BY <1>1, TakeStep DEF Atomic!Next
<1>2. CASE req[grant] = Idle
  BY <1>2, RestStep
<1>3. CASE ~BusAck /\ req[grant] # Idle
  <2>1. Cyc(grant)
    BY <1>3 DEF Cyc
  <2>2. Strobe(RamCells) \/ Strobe(RegCells) \/ Strobe(BdCells)
    BY <2>1, Granted DEF Strobe, Cells
  <2>3. AtomicStep => Atomic!Next
    BY DEF AtomicStep, Atomic!Next
  <2> QED
    BY <1>3, <2>2, <2>3, RamStep, RegStep, BdStep
<1> QED
  BY <1>1, <1>2, <1>3

\* A master that starts asks, and what the MAC changes changes of itself.
LEMMA StartRefines == \A m \in Masters : BusIInv /\ Start(m) => Atomic!Ask(m)
<1> SUFFICES ASSUME NEW m \in Masters, BusIInv, Start(m) PROVE Atomic!Ask(m)
  OBVIOUS
<1>1. UNCHANGED <<mem, grant, ramVars, macVars, bdVars>>
  BY DEF Start
<1>2. m = grant => ~BusAck /\ ~bdAck
  BY StartKeeps DEF BusIInv, RamInv, BdInv, MacInv, BusAck, Strobe, Cyc
<1>3. Ports[m] = Idle /\ Ports'[m] = req'[m]
  BY <1>1, <1>2, StartKeeps DEF Ports, Port, BusAck, ramVars, macVars, bdVars
<1>4. \A c \in Masters : c # m => Ports'[c] = Ports[c]
  BY <1>1, StartKeeps DEF Ports, Port, BusAck, BusDat, ramVars, macVars, bdVars
<1>5. Ports' = [Ports EXCEPT ![m] = req'[m]]
  BY <1>3, <1>4 DEF Ports
<1>6. req'[m] \in Atomic!Asks(m)
  BY StartKeeps, SameAsks
<1> QED
  BY <1>1, <1>3, <1>5, <1>6, SameAsks DEF Atomic!Ask, Ports

LEMMA ChangesRefine ==
  BusIInv /\ MacChanges => \E c \in BdCells \cup RegCells : Atomic!Change(c)
<1> SUFFICES ASSUME BusIInv, MacChanges PROVE \E c \in BdCells \cup RegCells : Atomic!Change(c)
  OBVIOUS
<1>1. Ports' = Ports
  BY DEF MacChanges, Ports, Port, BusAck, BusDat, masterVars, ramVars, macVars, bdVars
<1> QED
  BY <1>1, MacChangesWhat DEF Atomic!Change, Ports

\* The bus implements AtomicBus, for any cells, words and burst length: every
\* access takes effect once, at one instant between its strobe and its
\* acknowledge.
THEOREM BusIsAtomic == Spec => AtomicSpec
<1>1. Init => Atomic!Init
  BY DEF Init, Atomic!Init, Atomic!Idle, Port, Idle, Masters
<1>2. BusIInv /\ [Next]_vars => [Atomic!Next]_<<mem, Ports>>
  <2> SUFFICES ASSUME BusIInv, [Next]_vars PROVE Atomic!Next \/ UNCHANGED <<mem, Ports>>
    OBVIOUS
  <2>1. CASE Tick
    BY <2>1, TickRefines
  <2>2. CASE MacChanges
    BY <2>2, ChangesRefine DEF Atomic!Next
  <2>3. CASE \E m \in Masters : Start(m)
    BY <2>3, StartRefines DEF Atomic!Next
  <2>4. CASE UNCHANGED vars
    BY <2>4 DEF vars, masterVars, ramVars, macVars, bdVars, Ports, Port, BusAck, BusDat
  <2> QED
    BY <2>1, <2>2, <2>3, <2>4 DEF Next
<1> QED
  BY <1>1, <1>2, BusInvariant, PTL DEF Spec, AtomicSpec, Atomic!Spec, Ports
=============================================================================
