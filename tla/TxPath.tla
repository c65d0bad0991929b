-------------------------------- MODULE TxPath --------------------------------
(***************************************************************************)
(* The way of a frame from the network stack to InjectData: start_xmit and  *)
(* the completion callback (DriverTx), the host controller and the OUT      *)
(* endpoint, and the byte stream that USBInToFifo packs into words          *)
(* (UsbInFifo).  A URB is called back when the endpoint has taken its last  *)
(* byte, so the count that stops the queue depends on FIFOs that drain.     *)
(* Transfers run to their end: a URB is cut only when the device is gone.   *)
(***************************************************************************)
EXTENDS DriverTx, UsbInFifo

LOCAL INSTANCE FiniteSetsExt

CONSTANT EpBuffer    \* bytes the OUT endpoint holds before the stream

ASSUME EpBufferAssumption == EpBuffer \in Nat

VARIABLE urbs        \* lengths of the frames in the URBs submitted, in order

pathVars == <<vars, inVars, urbs>>

PathInit == DtInit /\ InInit /\ urbs = <<>>

\* URBs called back.
CalledBack == Len(urbs) - inFlight

\* Bytes of the URBs up to the n-th that are not on the stream yet.
Unstreamed(n) ==
  (IF Current = 0 THEN 0 ELSE CurLen + 2 - pos)
    + MapThenSumSet(LAMBDA k : urbs[k] + 2, Current + 1 .. n)

\* The endpoint has taken the last byte of the oldest URB under way, or the device
\* is gone and the URB ends with an error.
OldestEnds == \/ CalledBack + 1 < Current
              \/ Unstreamed(CalledBack + 1) <= EpBuffer
              \/ ~present

(***************************************************************************)
(* start_xmit, open and close: nothing moves on the bus.                    *)
(***************************************************************************)
PathSubmit ==
  /\ Submit
  /\ Len(urbs) < MaxFrames
  /\ \E n \in Lens : urbs' = Append(urbs, n)
  /\ UNCHANGED inVars

StackStep ==
  /\ Open \/ Close \/ SubmitFails
  /\ UNCHANGED <<inVars, urbs>>

PathXmitStep == XmitStep /\ UNCHANGED <<inVars, urbs>>

PathCallbackStep ==
  /\ CallbackStep
  /\ CallbackLoad => OldestEnds
  /\ UNCHANGED <<inVars, urbs>>

(***************************************************************************)
(* The bytes of the URBs, one after the other, and the FIFOs.               *)
(***************************************************************************)
PathTransfer ==
  /\ HostTransfer
  /\ present /\ Current < Len(urbs)
  /\ sentLens' = Append(sentLens, urbs[Current + 1])
  /\ UNCHANGED <<vars, urbs>>

PathUsbInStep == UsbInStep /\ UNCHANGED <<vars, urbs>>
PathReaderStep == ReaderStep /\ UNCHANGED <<vars, urbs>>

PathNext ==
  \/ PathSubmit \/ StackStep \/ PathXmitStep \/ PathCallbackStep
  \/ PathTransfer \/ PathUsbInStep \/ PathReaderStep

PathSpec == PathInit /\ [][PathNext]_pathVars

\* start_xmit and the callback run to their ends, the host controller goes on with
\* the URBs it has, and the gateware is clocked; InjectData comes back to IDLE
\* because the MAC frees its descriptors (TxDrains in EthReset).  The stack need
\* not send, open or close.
PathFairSpec ==
  /\ PathSpec
  /\ WF_pathVars(PathXmitStep) /\ WF_pathVars(PathCallbackStep)
  /\ WF_pathVars(PathTransfer)
  /\ WF_pathVars(PathUsbInStep) /\ WF_pathVars(PathReaderStep)
=============================================================================
