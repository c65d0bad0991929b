---------------------------- MODULE DriverLifeProofs ----------------------------
(***************************************************************************)
(* The receive URB's skb is the driver's own and the interface outlives its *)
(* URBs, for every number of skbs, opens, faults and transmit URBs.         *)
(***************************************************************************)
EXTENDS DriverLife, FiniteSetTheorems, TLAPS

USE LifeAssumption

LEMMA LifeInit == Init => LifeInv
<1> SUFFICES ASSUME Init PROVE LifeInv
  OBVIOUS
<1>1. CoreInv
  BY DEF Init, CoreInv, PcStates, Registered
<1>2. SkbOwned
  BY DEF Init, SkbOwned
<1>3. UrbsEndFirst
  BY DEF Init, UrbsEndFirst
<1> QED
  BY <1>1, <1>2, <1>3 DEF LifeInv

\* The core's thread: URBs have ended before anything is freed.
LEMMA CoreSteps ==
  LifeInv /\ ~oops /\ (Probe \/ InitMii \/ Disable \/ Disconnect \/ Unregister \/ Release)
    => LifeInv'
<1> SUFFICES ASSUME LifeInv, ~oops,
                    Probe \/ InitMii \/ Disable \/ Disconnect \/ Unregister \/ Release
             PROVE  LifeInv'
  OBVIOUS
<1> USE DEF LifeInv, CoreInv, PcStates, SkbOwned, UrbsEndFirst, Registered, Reachable,
            coreVars, netVars, usbVars, rxVars
<1>1. CASE Probe
  BY <1>1 DEF Probe, Parts
<1>2. CASE InitMii
  BY <1>2 DEF InitMii
<1>3. CASE Disable
  BY <1>3 DEF Disable
<1>4. CASE Disconnect
  <2>1. CoreInv'
    BY <1>4 DEF Disconnect
  <2>2. SkbOwned' /\ UrbsEndFirst'
    BY <1>4 DEF Disconnect
  <2> QED
    BY <2>1, <2>2
<1>5. CASE Unregister
  BY <1>5 DEF Unregister
<1>6. CASE Release
  <2>1. CoreInv'
    BY <1>6 DEF Release, Killed
  <2>2. SkbOwned'
    BY <1>6 DEF Release, Killed
  <2>3. UrbsEndFirst'
    BY <1>6 DEF Release, Killed
  <2> QED
    BY <2>1, <2>2, <2>3
<1> QED
  BY <1>1, <1>2, <1>3, <1>4, <1>5, <1>6

\* open, close and start_xmit.
LEMMA UserSteps == LifeInv /\ ~oops /\ (Open \/ Close \/ EndClose \/ Xmit) => LifeInv'
<1> SUFFICES ASSUME LifeInv, ~oops,
                    Open \/ Close \/ EndClose \/ Xmit
             PROVE  LifeInv'
  OBVIOUS
<1> USE DEF LifeInv, CoreInv, PcStates, SkbOwned, UrbsEndFirst, Registered, Reachable,
            coreVars, netVars, usbVars, rxVars
<1>1. CASE Open
  BY <1>1 DEF Open, SubmitRx, NewSkb, Fault, NoFault
<1>2. CASE Close
  BY <1>2 DEF Close
<1>3. CASE EndClose
  BY <1>3 DEF EndClose, Killed
<1>4. CASE Xmit
  <2>1. UNCHANGED <<pc, has, up, plugged, endpoints, urb, urbSkb, rxSkb, owned, oops>>
    BY <1>4 DEF Xmit
  <2>2. present' \in BOOLEAN
    BY <1>4, Zenon DEF Xmit
  <2>3. tx' = tx + 1 \/ tx' = tx
    BY <1>4, Zenon DEF Xmit
  <2>4. ~endpoints => tx' = tx
    BY <1>4, Zenon DEF Xmit
  <2>5. pc \notin {"unbound", "gone"}
    BY <1>4 DEF Xmit
  <2>6. CoreInv'
    BY <2>1, <2>2, <2>4, <2>3
  <2>7. SkbOwned' /\ UrbsEndFirst'
    BY <2>1, <2>4, <2>5
  <2> QED
    BY <2>6, <2>7
<1> QED
  BY <1>1, <1>2, <1>3, <1>4

\* The device, the host controller and the callbacks.
LEMMA InterruptSteps ==
  LifeInv /\ ~oops
    /\ (\/ Unplug \/ UrbDone \/ UrbFails \/ UrbUnlinked \/ TxDone
        \/ CallbackDetached \/ Callback \/ CallbackNoMemory)
    => LifeInv'
<1> SUFFICES ASSUME LifeInv, ~oops,
                    \/ Unplug \/ UrbDone \/ UrbFails \/ UrbUnlinked \/ TxDone
                    \/ CallbackDetached \/ Callback \/ CallbackNoMemory
             PROVE  LifeInv'
  OBVIOUS
<1> USE DEF LifeInv, CoreInv, PcStates, SkbOwned, UrbsEndFirst, Registered, Reachable,
            coreVars, netVars, usbVars, rxVars
<1>1. CASE Unplug
  BY <1>1 DEF Unplug
<1>2. CASE UrbDone
  BY <1>2 DEF UrbDone
<1>3. CASE UrbFails
  BY <1>3 DEF UrbFails
<1>4. CASE UrbUnlinked
  BY <1>4 DEF UrbUnlinked
<1>5. CASE TxDone
  BY <1>5 DEF TxDone
<1>6. CASE CallbackDetached
  BY <1>6 DEF CallbackDetached
<1>7. CASE Callback
  BY <1>7 DEF Callback, SubmitRx, NewSkb, Fault, NoFault
<1>8. CASE CallbackNoMemory
  BY <1>8 DEF CallbackNoMemory
<1> QED
  BY <1>1, <1>2, <1>3, <1>4, <1>5, <1>6, <1>7, <1>8

LEMMA LifeInvariant == Spec => []LifeInv
<1>1. LifeInv /\ [Next]_vars => LifeInv'
  <2> SUFFICES ASSUME LifeInv, [Next]_vars PROVE LifeInv'
    OBVIOUS
  <2>1. CASE Next
    BY <2>1, CoreSteps, UserSteps, InterruptSteps DEF Next, Core, Interrupts
  <2>2. CASE UNCHANGED vars
    BY <2>2 DEF vars, LifeInv, CoreInv, SkbOwned, UrbsEndFirst, Registered, coreVars,
                netVars, usbVars, rxVars
  <2> QED
    BY <2>1, <2>2
<1> QED
  BY LifeInit, <1>1, PTL DEF Spec

\* However open, close, disconnect and callbacks meet, the URB's buffer is the
\* driver's own skb, for every number of skbs.
THEOREM SkbIsOwned == Spec => []SkbOwned
<1>1. LifeInv => SkbOwned
  BY DEF LifeInv
<1> QED
  BY LifeInvariant, <1>1, PTL

\* The interface is not freed before its URBs have ended, except for transmit
\* URBs after a failed init_mii.
THEOREM InterfaceOutlivesUrbs == Spec => []UrbsEndFirst
<1>1. LifeInv => UrbsEndFirst
  BY DEF LifeInv
<1> QED
  BY LifeInvariant, <1>1, PTL

(***************************************************************************)
(* What is left when the driver has let go.                                 *)
(***************************************************************************)
\* The skbs that are the driver's: rx_skb, and those that open has overwritten.
SkbsCounted ==
  /\ opens \in Nat /\ IsFiniteSet(owned)
  /\ Cardinality(owned) <= (IF rxSkb = None /\ opens > 0 THEN opens - 1 ELSE opens)

\* What is allocated before probe and after disconnect.
NothingLeft ==
  /\ has \subseteq Parts
  /\ pc \in {"unbound", "gone"} => rxSkb = None
  /\ pc = "gone" => has \subseteq {"intrBuff"}

ReleaseInv == LifeInv /\ SkbsCounted /\ NothingLeft

\* A new skb in the place of rx_skb, or beside it when open has it overwritten.
LEMMA NewSkbCounted ==
  ASSUME NEW S, IsFiniteSet(S), NEW s, s \notin S
  PROVE  /\ IsFiniteSet(S \cup {s}) /\ Cardinality(S) \in Nat
         /\ Cardinality(S \cup {s}) = Cardinality(S) + 1
  BY FS_AddElement, FS_CardinalityType

LEMMA FreedSkbCounted ==
  ASSUME NEW S, IsFiniteSet(S), NEW s
  PROVE  /\ IsFiniteSet(S \ {s}) /\ Cardinality(S) \in Nat /\ Cardinality(S \ {s}) \in Nat
         /\ Cardinality(S \ {s}) = IF s \in S THEN Cardinality(S) - 1 ELSE Cardinality(S)
  BY FS_RemoveElement, FS_CardinalityType

LEMMA CoreReleases == ReleaseInv /\ ~oops /\ Core => SkbsCounted' /\ NothingLeft'
<1> SUFFICES ASSUME ReleaseInv, ~oops, Core PROVE SkbsCounted' /\ NothingLeft'
  OBVIOUS
<1> USE DEF ReleaseInv
<1>1. CASE Probe
  <2>1. UNCHANGED <<rxSkb, owned, opens>> /\ pc = "unbound"
    BY <1>1 DEF Probe, rxVars
  <2>2. has' \subseteq Parts /\ (pc' = "gone" => has' \subseteq {"intrBuff"})
    BY <1>1 DEF Probe, Parts
  <2> QED
    BY <2>1, <2>2 DEF SkbsCounted, NothingLeft
<1>2. CASE Release
  <2>1. /\ owned' = owned \ {rxSkb} /\ rxSkb' = None /\ opens' = opens
        /\ has' = has \ {"urbs", "netdev"}
    BY <1>2 DEF Release
  <2>2. has' \subseteq {"intrBuff"} /\ has' \subseteq Parts
    BY <2>1 DEF NothingLeft, Parts
  <2>3. NothingLeft'
    BY <2>1, <2>2 DEF NothingLeft
  <2>4. rxSkb # None => rxSkb \in owned
    BY DEF LifeInv, SkbOwned
  <2>5. /\ IsFiniteSet(owned') /\ Cardinality(owned) \in Nat /\ Cardinality(owned') \in Nat
        /\ Cardinality(owned') = IF rxSkb \in owned THEN Cardinality(owned) - 1
                                 ELSE Cardinality(owned)
    BY <2>1, FreedSkbCounted DEF SkbsCounted
  <2>6. opens \in Nat /\ Cardinality(owned) <= (IF rxSkb = None /\ opens > 0 THEN opens - 1 ELSE opens)
    BY DEF SkbsCounted
  <2>7. Cardinality(owned') <= (IF opens > 0 THEN opens - 1 ELSE opens)
    BY <2>4, <2>5, <2>6
  <2> QED
    BY <2>1, <2>3, <2>5, <2>6, <2>7 DEF SkbsCounted
<1>3. CASE InitMii \/ Disable \/ Disconnect \/ Unregister
  <2>1. UNCHANGED <<has, rxSkb, owned, opens>> /\ pc' \notin {"unbound", "gone"}
    BY <1>3 DEF InitMii, Disable, Disconnect, Unregister, rxVars
  <2> QED
    BY <2>1 DEF SkbsCounted, NothingLeft
<1> QED
  BY <1>1, <1>2, <1>3 DEF Core

LEMMA OpenReleases == ReleaseInv /\ ~oops /\ Open => SkbsCounted' /\ NothingLeft'
<1> SUFFICES ASSUME ReleaseInv, ~oops, Open PROVE SkbsCounted' /\ NothingLeft'
  OBVIOUS
<1> USE DEF ReleaseInv
<1>1. PICK s \in Skbs \ owned : rxSkb' = s /\ owned' = owned \cup {s}
  BY DEF Open, NewSkb
<1>2. opens' = opens + 1 /\ UNCHANGED <<pc, has>> /\ pc \notin {"unbound", "gone"}
  BY DEF Open, coreVars, Registered
<1>3. /\ IsFiniteSet(owned') /\ Cardinality(owned) \in Nat
      /\ Cardinality(owned') = Cardinality(owned) + 1
  BY <1>1, NewSkbCounted DEF SkbsCounted
<1>4. opens \in Nat /\ Cardinality(owned) <= opens
  BY <1>3 DEF SkbsCounted
<1>5. s # None
  BY <1>1
<1> QED
  BY <1>1, <1>2, <1>3, <1>4, <1>5 DEF SkbsCounted, NothingLeft

LEMMA CallbackReleases ==
  ReleaseInv /\ ~oops /\ (Callback \/ CallbackDetached \/ CallbackNoMemory)
    => SkbsCounted' /\ NothingLeft'
<1> SUFFICES ASSUME ReleaseInv, ~oops, Callback \/ CallbackDetached \/ CallbackNoMemory
             PROVE  SkbsCounted' /\ NothingLeft'
  OBVIOUS
<1> USE DEF ReleaseInv
<1>1. urb # "idle" /\ UNCHANGED <<pc, has, opens>>
  BY DEF Callback, CallbackDetached, CallbackNoMemory, coreVars
<1>2. rxSkb # None /\ rxSkb \in owned /\ pc \notin {"unbound", "gone"}
  BY <1>1 DEF LifeInv, SkbOwned, CoreInv
<1>3. /\ IsFiniteSet(owned \ {rxSkb}) /\ Cardinality(owned) \in Nat
      /\ Cardinality(owned \ {rxSkb}) = Cardinality(owned) - 1
  BY <1>2, FreedSkbCounted DEF SkbsCounted
<1>4. opens \in Nat /\ Cardinality(owned) <= opens
  BY <1>2 DEF SkbsCounted
<1>5. CASE Callback
  <2>1. PICK s \in Skbs \ owned : rxSkb' = s /\ owned' = (owned \ {rxSkb}) \cup {s}
    BY <1>5 DEF Callback, NewSkb
  <2>2. IsFiniteSet(owned') /\ Cardinality(owned') = Cardinality(owned)
    BY <1>3, <2>1, NewSkbCounted
  <2>3. s # None
    BY <2>1
  <2> QED
    BY <1>1, <1>2, <1>4, <2>1, <2>2, <2>3 DEF SkbsCounted, NothingLeft
<1>6. CASE CallbackDetached \/ CallbackNoMemory
  <2>1. owned' = owned \ {rxSkb} /\ rxSkb' = None
    BY <1>6 DEF CallbackDetached, CallbackNoMemory
  <2> QED
    BY <1>1, <1>2, <1>3, <1>4, <2>1 DEF SkbsCounted, NothingLeft
<1> QED
  BY <1>5, <1>6

LEMMA OthersRelease ==
  ReleaseInv
    /\ (\/ Close \/ EndClose \/ Xmit \/ Unplug \/ UrbDone \/ UrbFails \/ UrbUnlinked \/ TxDone
        \/ UNCHANGED vars)
    => SkbsCounted' /\ NothingLeft'
<1> SUFFICES ASSUME ReleaseInv,
                    \/ Close \/ EndClose \/ Xmit \/ Unplug \/ UrbDone \/ UrbFails
                    \/ UrbUnlinked \/ TxDone \/ UNCHANGED vars
             PROVE  SkbsCounted' /\ NothingLeft'
  OBVIOUS
<1>1. UNCHANGED <<pc, has, rxSkb, owned, opens>>
  BY DEF Close, EndClose, Xmit, Unplug, UrbDone, UrbFails, UrbUnlinked, TxDone, vars,
         coreVars, rxVars
<1> QED
  BY <1>1 DEF ReleaseInv, SkbsCounted, NothingLeft

LEMMA ReleaseInit == Init => SkbsCounted /\ NothingLeft
<1> SUFFICES ASSUME Init PROVE SkbsCounted /\ NothingLeft
  OBVIOUS
<1>1. opens = 0 /\ owned = {} /\ rxSkb = None /\ has = {} /\ pc = "unbound"
  BY DEF Init
<1>2. IsFiniteSet({}) /\ Cardinality({}) = 0
  BY FS_EmptySet
<1> QED
  BY <1>1, <1>2 DEF SkbsCounted, NothingLeft

\* When the driver has let go of the device nothing is left but intr_buff and
\* one skb for each time the interface was opened again over an skb it still had
\* (fill_rx overwrites dev->rx_skb), for every number of opens, URBs and faults.
THEOREM NothingElseLeaks == Spec => []AllReleased
<1>1. ReleaseInv /\ [Next]_vars => SkbsCounted' /\ NothingLeft'
  BY CoreReleases, OpenReleases, CallbackReleases, OthersRelease DEF Next, Interrupts, ReleaseInv
<1>2. ReleaseInv => AllReleased
  <2> SUFFICES ASSUME ReleaseInv, pc = "gone"
               PROVE  has \subseteq {"intrBuff"} /\ Cardinality(owned) <= (IF opens = 0 THEN 0 ELSE opens - 1)
    BY DEF AllReleased
  <2>1. rxSkb = None /\ has \subseteq {"intrBuff"}
    BY DEF ReleaseInv, NothingLeft
  <2> QED
    BY <2>1 DEF ReleaseInv, SkbsCounted
<1> QED
  BY LifeInvariant, ReleaseInit, <1>1, <1>2, PTL DEF Spec, ReleaseInv
=============================================================================
