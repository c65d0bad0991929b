------------------------------ MODULE DriverLife ------------------------------
(***************************************************************************)
(* The life of the interface in deca_eth_interface.c: probe, open, close    *)
(* and disconnect, and who owns the receive URB and its skb meanwhile.      *)
(* DriverRx says what the skbs hold; here they are only memory.             *)
(*                                                                         *)
(* The USB core's side is that of usb_kill_urb (submissions are refused     *)
(* until the callback has returned) and of usb_unbind_interface, which      *)
(* flushes the endpoints before it calls disconnect.                        *)
(***************************************************************************)
EXTENDS Naturals, FiniteSets

CONSTANTS Skbs,        \* what dev_alloc_skb may return, more than are ever in use
          MaxOpens,    \* bound: calls of fill_rx that get an skb
          MaxTx,       \* bound: transmit URBs under way
          MaxFaults    \* bound: failed allocations, transfers, submissions

None == 0

ASSUME LifeAssumption ==
  /\ MaxOpens \in Nat /\ MaxTx \in Nat /\ MaxFaults \in Nat
  /\ None \notin Skbs

VARIABLES
  pc,        \* the USB core's thread, in probe and disconnect
  has,       \* what probe has allocated and nobody has freed
  up, present,         \* netif_running, netif_device_present
  closer,    \* who is in close: "none", "user", "core" (unregister_netdev)
  plugged, endpoints,  \* the device is there; its endpoints accept URBs
  urb,       \* rx_urb: "idle", "active"; "done", "failed" (callback to come)
  urbSkb,    \* the skb whose data the URB was filled with
  rxSkb,     \* dev->rx_skb
  owned,     \* skbs that are the driver's
  tx,        \* transmit URBs under way
  opens, faults,
  oops       \* the callback has used a null pointer: nothing goes on

coreVars == <<pc, has>>
netVars  == <<up, present, closer>>
usbVars  == <<plugged, endpoints>>
rxVars   == <<urb, urbSkb, rxSkb, owned>>
vars == <<coreVars, netVars, usbVars, rxVars, tx, opens, faults, oops>>

Parts == {"netdev", "intrBuff", "urbs"}

Init ==
  /\ pc = "unbound" /\ has = {}
  /\ up = FALSE /\ present = TRUE /\ closer = "none"
  /\ plugged = TRUE /\ endpoints = TRUE
  /\ urb = "idle" /\ urbSkb = None /\ rxSkb = None /\ owned = {}
  /\ tx = 0 /\ opens = 0 /\ faults = 0 /\ oops = FALSE

Fault == faults < MaxFaults /\ faults' = faults + 1
NoFault == UNCHANGED faults

(***************************************************************************)
(* usb_submit_urb: refused without the device, with disabled endpoints,     *)
(* during usb_kill_urb of the same URB, and for lack of memory.  A missing  *)
(* device (ENODEV) detaches the interface.                                  *)
(***************************************************************************)
Reachable == plugged /\ endpoints

SubmitRx ==
  \/ /\ Reachable /\ closer = "none" /\ NoFault
     /\ urb' = "active" /\ UNCHANGED present
  \/ /\ \/ (~Reachable \/ closer # "none") /\ NoFault
        \/ Fault
     /\ urb' = "idle" /\ present' = (present /\ plugged)

\* Mutant: usb_kill_urb is not called.
KilledAtOnce == TRUE

\* usb_kill_urb has returned.
Killed == urb = "idle"

\* dev_alloc_skb, and usb_fill_bulk_urb with its data; kept is what the driver
\* still owns.
NewSkb(kept) ==
  \E s \in Skbs \ owned :
    rxSkb' = s /\ urbSkb' = s /\ owned' = kept \cup {s}

(***************************************************************************)
(* probe.  Each failure undoes what its line undoes; intr_buff is not freed *)
(* by any.                                                                  *)
(***************************************************************************)
Probe ==
  /\ pc = "unbound"
  /\ \/ pc' = "registered" /\ has' = Parts /\ NoFault
     \/ pc' = "gone" /\ has' \in {{}, {"intrBuff"}} /\ Fault
  /\ UNCHANGED <<netVars, usbVars, rxVars, tx, opens, oops>>

\* init_mii; meanwhile the interface may be opened and used.
InitMii ==
  /\ pc = "registered"
  /\ \/ plugged /\ pc' = "bound" /\ NoFault
     \/ ~plugged /\ pc' = "failed" /\ NoFault
     \/ pc' = "failed" /\ Fault
  /\ UNCHANGED <<has, netVars, usbVars, rxVars, tx, opens, oops>>

(***************************************************************************)
(* disconnect, after the core has disabled and flushed the endpoints.       *)
(***************************************************************************)
Disable ==
  /\ pc = "bound"
  /\ pc' = "flush" /\ endpoints' = FALSE
  /\ UNCHANGED <<has, netVars, plugged, rxVars, tx, opens, faults, oops>>

Disconnect ==
  /\ pc = "flush" /\ urb = "idle" /\ tx = 0
  /\ pc' = "unregister"
  /\ UNCHANGED <<has, netVars, usbVars, rxVars, tx, opens, faults, oops>>

\* unregister_netdev closes an open interface.
Unregister ==
  /\ pc \in {"failed", "unregister"} /\ closer = "none"
  /\ pc' = "release"
  /\ IF up THEN up' = FALSE /\ closer' = "core" ELSE UNCHANGED <<up, closer>>
  /\ UNCHANGED <<has, present, usbVars, rxVars, tx, opens, faults, oops>>

\* Mutant: the skb is not freed.
ReleaseKeepsSkb ==
  /\ pc = "release" /\ closer = "none" /\ Killed
  /\ pc' = "gone" /\ has' = has \ {"urbs", "netdev"}
  /\ UNCHANGED <<netVars, usbVars, rxVars, tx, opens, faults, oops>>

\* unlink_urb, free_urb, free_rx_skb, free_netdev.
Release ==
  /\ pc = "release" /\ closer = "none" /\ Killed
  /\ owned' = owned \ {rxSkb} /\ rxSkb' = None
  /\ pc' = "gone" /\ has' = has \ {"urbs", "netdev"}
  /\ UNCHANGED <<netVars, usbVars, urb, urbSkb, tx, opens, faults, oops>>

(***************************************************************************)
(* open and close, by the user, under the lock that unregister_netdev takes *)
(* too.                                                                     *)
(***************************************************************************)
Registered == pc \in {"registered", "bound", "failed", "flush", "unregister"}

Open ==
  /\ Registered /\ ~up /\ closer = "none" /\ present
  /\ opens < MaxOpens /\ opens' = opens + 1
  /\ NewSkb(owned)
  /\ SubmitRx /\ up' = (urb' = "active")
  /\ UNCHANGED <<coreVars, closer, usbVars, tx, oops>>

\* Mutant: the skb is freed before the URB is killed.
CloseFrees ==
  /\ up /\ closer = "none"
  /\ up' = FALSE /\ closer' = "user"
  /\ owned' = owned \ {rxSkb} /\ rxSkb' = None
  /\ UNCHANGED <<coreVars, present, usbVars, urb, urbSkb, tx, opens, faults, oops>>

Close ==
  /\ up /\ closer = "none"
  /\ up' = FALSE /\ closer' = "user"
  /\ UNCHANGED <<coreVars, present, usbVars, rxVars, tx, opens, faults, oops>>

\* close returns when the URB is killed.
EndClose ==
  /\ closer # "none" /\ Killed
  /\ closer' = "none"
  /\ UNCHANGED <<coreVars, up, present, usbVars, rxVars, tx, opens, faults, oops>>

(***************************************************************************)
(* The device, the host controller and the callbacks.                       *)
(***************************************************************************)
Unplug ==
  /\ plugged /\ pc \notin {"unbound", "gone"}
  /\ plugged' = FALSE
  /\ UNCHANGED <<coreVars, netVars, endpoints, rxVars, tx, opens, faults, oops>>

UrbDone ==
  /\ urb = "active" /\ Reachable
  /\ urb' = "done"
  /\ UNCHANGED <<coreVars, netVars, usbVars, urbSkb, rxSkb, owned, tx, opens, faults, oops>>

\* A transfer fails; the URB is unlinked, or its endpoint is gone.
UrbFails ==
  /\ urb = "active" /\ Fault
  /\ urb' = "failed"
  /\ UNCHANGED <<coreVars, netVars, usbVars, urbSkb, rxSkb, owned, tx, opens, oops>>

UrbUnlinked ==
  /\ urb = "active" /\ (~Reachable \/ closer # "none")
  /\ urb' = "failed"
  /\ UNCHANGED <<coreVars, netVars, usbVars, urbSkb, rxSkb, owned, tx, opens, faults, oops>>

\* The interface is detached: the skb is freed and the URB left alone.
CallbackDetached ==
  /\ urb \in {"done", "failed"} /\ ~present
  /\ owned' = owned \ {rxSkb} /\ rxSkb' = None
  /\ urb' = "idle"
  /\ UNCHANGED <<coreVars, netVars, usbVars, urbSkb, tx, opens, faults, oops>>

\* Mutant: a failed URB is tried again until it is accepted.
CallbackRetries ==
  /\ urb \in {"done", "failed"} /\ present
  /\ urb = "failed" => Reachable /\ closer = "none"
  /\ NewSkb(owned \ {rxSkb})
  /\ SubmitRx
  /\ UNCHANGED <<coreVars, up, closer, usbVars, tx, opens, oops>>

\* The skb goes to the stack or is freed; the URB is filled with a new one and
\* submitted again, also while it is killed and after the device has gone.
Callback ==
  /\ urb \in {"done", "failed"} /\ present
  /\ NewSkb(owned \ {rxSkb})
  /\ SubmitRx
  /\ UNCHANGED <<coreVars, up, closer, usbVars, tx, opens, oops>>

\* dev_alloc_skb fails: rx_skb is NULL, and its data is asked for.
CallbackNoMemory ==
  /\ urb \in {"done", "failed"} /\ present
  /\ Fault /\ oops' = TRUE
  /\ owned' = owned \ {rxSkb} /\ rxSkb' = None
  /\ UNCHANGED <<coreVars, netVars, usbVars, urb, urbSkb, tx, opens>>

\* start_xmit and write_bulk_callback.
Xmit ==
  /\ up /\ present /\ tx < MaxTx
  /\ IF Reachable THEN tx' = tx + 1 /\ UNCHANGED present
     ELSE present' = plugged /\ UNCHANGED tx
  /\ UNCHANGED <<coreVars, up, closer, usbVars, rxVars, opens, faults, oops>>

TxDone ==
  /\ tx > 0 /\ tx' = tx - 1
  /\ UNCHANGED <<coreVars, netVars, usbVars, rxVars, opens, faults, oops>>

Core == Probe \/ InitMii \/ Disable \/ Disconnect \/ Unregister \/ Release
Interrupts == \/ UrbFails \/ UrbUnlinked \/ TxDone
              \/ CallbackDetached \/ Callback \/ CallbackNoMemory

Next ==
  /\ ~oops
  /\ Core \/ Open \/ Close \/ EndClose \/ Unplug \/ UrbDone \/ Xmit \/ Interrupts

\* The core's thread goes on (and unbinds a driver whose device has gone), URBs
\* complete, callbacks run.  Nobody has to open, close or send.
CoreGoesOn == ~oops /\ (InitMii \/ Unregister \/ Release \/ Disconnect)
CoreUnbinds == ~oops /\ ~plugged /\ Disable
CloseGoesOn == ~oops /\ EndClose
UrbEnds == ~oops /\ UrbUnlinked
CallbackRuns == ~oops /\ (CallbackDetached \/ Callback)
TxEnds == ~oops /\ TxDone

Fairness ==
  /\ WF_vars(CoreGoesOn) /\ WF_vars(CoreUnbinds) /\ WF_vars(CloseGoesOn)
  /\ WF_vars(UrbEnds) /\ WF_vars(CallbackRuns) /\ WF_vars(TxEnds)

Spec == Init /\ [][Next]_vars /\ Fairness

(***************************************************************************)
(* Properties.                                                              *)
(***************************************************************************)
\* The skb that the device writes into, and the one that the callback frees or
\* hands up next, is one and is the driver's: nothing is freed twice, nor while
\* the URB is under way, whenever close, open, disconnect and callbacks meet.
SkbOwned ==
  ~oops => /\ urb # "idle" => rxSkb = urbSkb
           /\ rxSkb # None => rxSkb \in owned
           /\ urb # "idle" => rxSkb # None

\* The interface's memory outlives the URBs that refer to it.  Only after a
\* failed init_mii are transmit URBs not waited for.
UrbsEndFirst ==
  "netdev" \notin has => urb = "idle" /\ (endpoints \/ tx = 0)

\* What makes UrbsEndFirst inductive: where the core's thread is tells what is
\* allocated, who may use it, and whether the transmit URBs have ended.
PcStates == {"unbound", "registered", "bound", "failed", "flush", "unregister",
             "release", "gone"}
CoreInv ==
  /\ pc \in PcStates /\ tx \in Nat
  /\ plugged \in BOOLEAN /\ up \in BOOLEAN /\ present \in BOOLEAN /\ oops \in BOOLEAN
  /\ urb \in {"idle", "active", "done", "failed"}
  /\ "netdev" \in has <=> pc \notin {"unbound", "gone"}
  /\ up => Registered
  /\ endpoints \in BOOLEAN
  /\ pc \in {"flush", "unregister"} => ~endpoints
  /\ ~endpoints => pc \in {"flush", "unregister", "release", "gone"}
  /\ ~endpoints /\ pc # "flush" => tx = 0
  /\ pc \in {"unbound", "gone"} => urb = "idle"

LifeInv == CoreInv /\ SkbOwned /\ UrbsEndFirst

\* What probe and the callbacks allocate is released, but for intr_buff, and one
\* skb for each time the interface is opened again.
AllReleased ==
  pc = "gone" =>
    /\ has \subseteq {"intrBuff"}
    /\ Cardinality(owned) <= (IF opens = 0 THEN 0 ELSE opens - 1)

\* Whenever the device is pulled out the driver lets go of it, unless it has
\* run out of memory in the callback.
UnplugEnds == ~plugged ~> (pc = "gone" \/ oops)
=============================================================================
