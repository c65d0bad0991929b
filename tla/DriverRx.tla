------------------------------- MODULE DriverRx -------------------------------
(***************************************************************************)
(* The receive side of deca_eth_interface.c over the device's path of       *)
(* UsbOutFifo: one URB, its buffer (an skb), the completion callback that   *)
(* hands the skb up and submits the URB again, and open and close.          *)
(*                                                                         *)
(* close stops the URB, not the device: the FIFOs and the packet buffers    *)
(* keep what they hold, so that a break in the URB may cut a frame in two.  *)
(***************************************************************************)
EXTENDS UsbOutFifo, FiniteSets

CONSTANTS UrbBytes,     \* length of the URB's buffer (DECA_MTU, 1536)
          MinBytes,     \* least length handed up (4)
          MaxFaults,    \* bound: transfers that fail and submissions refused
          MaxOpens      \* bound: times the interface is opened

ASSUME RxAssumption ==
  /\ UrbBytes \in Nat \ {0} /\ UrbBytes % PacketBytes = 0
  /\ MinBytes \in Nat \ {0}
  /\ \A n \in OutLens : MinBytes <= n /\ n <= UrbBytes
  /\ MaxFaults \in Nat /\ MaxOpens \in Nat

VARIABLES
  up,        \* the interface is open
  urb,       \* idle | active | done | failed (the last two: callback pending)
  buffer,    \* bytes received into the URB's buffer
  received,  \* skbs handed to the network stack, as byte sequences
  rxSkb,     \* dev->rx_skb points to an skb
  leaked,    \* skbs that nothing points to any more
  opens,     \* opens so far
  faults,    \* failed transfers and submissions so far
  refused,   \* the latest submission of the URB was refused
  cuts       \* URBs that ended before the transfer they were in

driverVars ==
  <<up, urb, buffer, received, rxSkb, leaked, opens, faults, refused, cuts>>
rxVars == <<outVars, driverVars>>
deviceVars == <<fsmVars, outData, outSize, writerVars, filling>>

RxInit ==
  /\ OutInit
  /\ up = FALSE /\ urb = "idle" /\ buffer = <<>> /\ received = <<>>
  /\ rxSkb = FALSE /\ leaked = 0 /\ opens = 0 /\ faults = 0
  /\ refused = FALSE /\ cuts = 0

(***************************************************************************)
(* The host controller: a packet goes to the buffer; a short packet or a    *)
(* full buffer completes the URB.  A transfer may also fail.                *)
(***************************************************************************)
UrbPacket ==
  /\ urb = "active" /\ packets # <<>>
  /\ buffer' = buffer \o Head(packets).bytes
  /\ packets' = AfterPacket
  /\ urb' = IF Len(Head(packets).bytes) < PacketBytes \/ Len(buffer') = UrbBytes
            THEN "done" ELSE "active"
  /\ UNCHANGED <<deviceVars, up, received, rxSkb, leaked, opens, faults, refused, cuts>>

UrbFails ==
  /\ urb = "active" /\ faults < MaxFaults
  /\ urb' = "failed"
  /\ faults' = faults + 1
  /\ UNCHANGED <<outVars, up, buffer, received, rxSkb, leaked, opens, refused, cuts>>

(***************************************************************************)
(* read_bulk_callback.  A refused submission is logged and forgotten: the   *)
(* URB stays idle with a fresh skb in rx_skb.                               *)
(***************************************************************************)
\* Mutant: the status of the URB is not looked at.
DeliverFailed ==
  received' = IF Len(buffer) >= MinBytes THEN Append(received, buffer) ELSE received

Deliver ==
  received' = IF urb = "done" /\ Len(buffer) >= MinBytes
              THEN Append(received, buffer) ELSE received

\* usb_submit_urb takes the URB, or refuses it and leaves it where it is.
Accepted == urb' = "active" /\ refused' = FALSE /\ UNCHANGED faults
Refused == faults < MaxFaults /\ faults' = faults + 1 /\ refused' = TRUE

Cut == cuts' = IF urb # "done" /\ buffer # <<>> THEN cuts + 1 ELSE cuts

\* Mutant: an error ends the callback before the URB is submitted again.
CallbackNoResubmit ==
  /\ urb \in {"done", "failed"}
  /\ Deliver /\ Cut
  /\ buffer' = <<>> /\ rxSkb' = TRUE
  /\ \/ urb = "done" /\ Len(buffer) >= MinBytes /\ Accepted
     \/ urb = "done" /\ Len(buffer) >= MinBytes /\ Refused /\ urb' = "idle"
     \/ ~(urb = "done" /\ Len(buffer) >= MinBytes)
        /\ urb' = "idle" /\ UNCHANGED <<faults, refused>>
  /\ UNCHANGED <<outVars, up, leaked, opens>>

Callback ==
  /\ urb \in {"done", "failed"}
  /\ Deliver /\ Cut
  /\ buffer' = <<>> /\ rxSkb' = TRUE
  /\ Accepted \/ (Refused /\ urb' = "idle")
  /\ UNCHANGED <<outVars, up, leaked, opens>>

(***************************************************************************)
(* open: fill_rx puts a new skb in rx_skb, whatever was there.  A refused   *)
(* submission makes open fail; the skb stays.                               *)
(***************************************************************************)
FillRx ==
  /\ leaked' = IF rxSkb THEN leaked + 1 ELSE leaked
  /\ rxSkb' = TRUE

Open ==
  /\ ~up /\ opens < MaxOpens
  /\ FillRx
  /\ opens' = opens + 1
  /\ (Accepted /\ up' = TRUE) \/ (Refused /\ UNCHANGED <<urb, up>>)
  /\ UNCHANGED <<outVars, buffer, received, cuts>>

(***************************************************************************)
(* close: usb_kill_urb ends an active URB and waits for its callback, whose *)
(* submission is refused meanwhile.                                         *)
(***************************************************************************)
Close ==
  /\ up /\ up' = FALSE
  /\ urb' = "idle"
  /\ refused' = (refused \/ urb # "idle")
  /\ Deliver /\ Cut
  /\ buffer' = <<>>
  /\ UNCHANGED <<outVars, rxSkb, leaked, opens, faults>>

Device == (WriterStep \/ OutStep) /\ UNCHANGED driverVars

RxNext == Device \/ UrbPacket \/ UrbFails \/ Callback \/ Open \/ Close

RxSpec == RxInit /\ [][RxNext]_rxVars

\* The device is clocked, the controller polls an active URB and callbacks run.
\* Nobody has to receive, open or close anything.
RxFairSpec ==
  /\ RxSpec
  /\ WF_rxVars((StoreWord \/ OutStep) /\ UNCHANGED driverVars)
  /\ WF_rxVars(UrbPacket) /\ WF_rxVars(Callback)

(***************************************************************************)
(* Properties.                                                              *)
(***************************************************************************)
\* The bytes i .. j of frame k.
Part(k, i, j) == [b \in 1 .. j - i + 1 |-> <<k, i + b - 1>>]
FrameOf(skb) == skb[1][1]
EndOf(skb) ==
  \E i \in 1 .. rxLens[FrameOf(skb)] :
    skb = Part(FrameOf(skb), i, rxLens[FrameOf(skb)])
Whole(skb) == skb = Part(FrameOf(skb), 1, rxLens[FrameOf(skb)])

\* An skb never holds bytes of two frames, nor a frame without its end: the
\* padding of the last word, the frame that fills a packet or the whole buffer,
\* and the empty packet after it are all told apart.
SkbsAreFrames == \A n \in DOMAIN received : received[n] # <<>> /\ EndOf(received[n])

\* Frames come in the order they were received, none twice.
SkbsInOrder ==
  \A m, n \in DOMAIN received :
    m < n => FrameOf(received[m]) < FrameOf(received[n])

\* A frame arrives torn only where an URB was cut off inside it.
TornOnlyByCuts == Cardinality({n \in DOMAIN received : ~Whole(received[n])}) <= cuts

\* While the interface is open the URB is idle only after the USB core refused to
\* take it: no completion, failed or not, ends the receive path by itself.
IdleOnlyRefused == (up /\ urb = "idle") => refused

\* While the URB is kept going, every frame received gets to the stack, but for
\* one for each URB that was cut off.
Settled(k) == Len(received) + cuts >= k
FramesDelivered ==
  \A k \in 1 .. MaxFrames :
    (Received >= k) ~> (Settled(k) \/ urb = "idle")
=============================================================================
