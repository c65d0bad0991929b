---------------------------- MODULE LedMultiplexer ----------------------------
(***************************************************************************)
(* led_multiplexer.py: the act button steps through the sources of the      *)
(* board's LEDs (deca_usb2_eth_interface.py).  A bouncing button must not   *)
(* step twice: after a step, do_switch has to be low for CoolDown clocks    *)
(* and one before it counts again.                                          *)
(***************************************************************************)
EXTENDS Integers

CONSTANTS Inputs,        \* 2 ** width: 4 sources
          CoolDown,      \* cool_down_time
          CounterRange   \* values of counter: 2 ** ceil(log2(cool_down_time))

\* A power of two would not fit into the counter and load it with 0; the cool
\* down time in use, 10 000 000, is none.
MuxConstants ==
  /\ Inputs \in Nat \ {0} /\ CoolDown \in Nat \ {0}
  /\ CounterRange \in Nat /\ CoolDown < CounterRange

VARIABLES
  state, selected, counter,
  doSwitch,   \* start_usb, the button through a register
  low         \* history: clocks that do_switch has been low, up to CoolDown + 1

vars == <<state, selected, counter, doSwitch, low>>

Init ==
  /\ state = "RESET" /\ selected = 0 /\ counter = 0
  /\ doSwitch = FALSE /\ low = CoolDown + 1

\* reset = cool_down_time, in as many bits as counter has.
Load == IF CoolDown < CounterRange THEN CoolDown ELSE CoolDown - CounterRange

\* counter - 1.
Down == IF counter = 0 THEN CounterRange - 1 ELSE counter - 1

Leave == state = "RESET" /\ state' = "SWITCH" /\ UNCHANGED <<selected, counter>>

Switch ==
  /\ state = "SWITCH"
  /\ IF doSwitch
     THEN selected' = (selected + 1) % Inputs /\ counter' = Load /\ state' = "COOL_DOWN"
     ELSE UNCHANGED <<state, selected, counter>>

\* Mutant: the counter goes on while the button bounces.
CoolDownRuns ==
  /\ state = "COOL_DOWN"
  /\ counter' = Down
  /\ state' = IF counter = 0 /\ ~doSwitch THEN "SWITCH" ELSE state
  /\ UNCHANGED selected

\* Every clock with the button down starts the counter again.
Cool ==
  /\ state = "COOL_DOWN"
  /\ IF doSwitch THEN counter' = Load /\ UNCHANGED state
     ELSE /\ counter' = Down
          /\ state' = IF counter = 0 THEN "SWITCH" ELSE state
  /\ UNCHANGED selected

\* A clock; the button does what it likes.
Next ==
  /\ Leave \/ Switch \/ Cool
  /\ doSwitch' \in BOOLEAN
  /\ low' = IF doSwitch THEN 0 ELSE IF low <= CoolDown THEN low + 1 ELSE low

Spec == Init /\ [][Next]_vars

\* Whatever the button does, the source changes once per press, and a press
\* begins when the button goes down after more than CoolDown clocks up: the
\* counter's width, its reload and its end at zero agree.
OneStepPerPress ==
  [][ state # "RESET" =>
        selected' = IF doSwitch /\ low > CoolDown THEN (selected + 1) % Inputs
                    ELSE selected ]_vars
=============================================================================
