----------------------------- MODULE HandleMacInt -----------------------------
(***************************************************************************)
(* handle_mac_int.py: waits for the MAC's interrupt line, reads the source  *)
(* register over the bus, hands what it read to InjectData in a one-clock   *)
(* new_irq pulse, and clears the register by writing ones to every bit.     *)
(***************************************************************************)
EXTENDS EthMac

VARIABLES
  hmiState,   \* FSM state
  newIrq      \* irq_state while new_irq is high, else {}

hmiVars == <<hmiState, newIrq>>

HmiStates == {"IDLE", "READ_IRQ", "CLEAR_IRQ"}

HmiInit == hmiState = "IDLE" /\ newIrq = {}

HmiRequests == hmiState \in {"READ_IRQ", "CLEAR_IRQ"}

SeeInt ==
  /\ hmiState = "IDLE"
  /\ IntOut
  /\ hmiState' = "READ_IRQ"
  /\ UNCHANGED <<newIrq, irq>>

ReadIrq ==
  /\ hmiState = "READ_IRQ"
  /\ newIrq' = irq
  /\ hmiState' = "CLEAR_IRQ"
  /\ UNCHANGED irq

\* The write clears all sources, those raised since ReadIrq included.  The
\* pulse has ended by then: a bus transaction takes longer than one clock.
ClearIrq ==
  /\ hmiState = "CLEAR_IRQ"
  /\ newIrq = {}
  /\ irq' = irq \ IrqBits
  /\ hmiState' = "IDLE"
  /\ UNCHANGED newIrq

HmiBusStep == ReadIrq \/ ClearIrq
=============================================================================
