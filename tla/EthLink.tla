-------------------------------- MODULE EthLink --------------------------------
(***************************************************************************)
(* What the bridge promises: two independent queues of whole frames.        *)
(* Towards the wire nothing is lost but by a transmit error; from the wire  *)
(* a frame may be missed on arrival, and is never lost once accepted.       *)
(***************************************************************************)
EXTENDS Naturals, Sequences

CONSTANTS LinkFrame(_)     \* the frame with a given number

VARIABLES sent,    \* frames the host has handed over
          txQueue, \* those not yet on the wire
          wire,    \* frames on the wire
          seen,    \* frames that arrived
          rxQueue, \* those accepted and not yet read by the host
          host     \* frames the host has read

linkVars == <<sent, txQueue, wire, seen, rxQueue, host>>

LinkInit ==
  /\ sent = 0 /\ seen = 0
  /\ txQueue = <<>> /\ wire = <<>> /\ rxQueue = <<>> /\ host = <<>>

Send ==
  /\ sent' = sent + 1
  /\ txQueue' = Append(txQueue, LinkFrame(sent'))
  /\ UNCHANGED <<wire, seen, rxQueue, host>>

Transmit ==
  /\ txQueue # <<>>
  /\ txQueue' = Tail(txQueue)
  /\ wire' \in {Append(wire, Head(txQueue)), wire}
  /\ UNCHANGED <<sent, seen, rxQueue, host>>

Arrive ==
  /\ seen' = seen + 1
  /\ UNCHANGED <<sent, txQueue, wire, rxQueue, host>>

\* The frame that arrived last is accepted, at most once.
Accept ==
  /\ rxQueue' = Append(rxQueue, LinkFrame(seen))
  /\ \A k \in DOMAIN rxQueue : rxQueue[k] # LinkFrame(seen)
  /\ \A k \in DOMAIN host : host[k] # LinkFrame(seen)
  /\ UNCHANGED <<sent, txQueue, wire, seen, host>>

Deliver ==
  /\ rxQueue # <<>>
  /\ rxQueue' = Tail(rxQueue)
  /\ host' = Append(host, Head(rxQueue))
  /\ UNCHANGED <<sent, txQueue, wire, seen>>

LinkNext == Send \/ Transmit \/ Arrive \/ Accept \/ Deliver

LinkSpec == LinkInit /\ [][LinkNext]_linkVars
=============================================================================
