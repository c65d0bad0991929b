------------------------------- MODULE DriverTx -------------------------------
(***************************************************************************)
(* The transmit side of the Linux driver: start_xmit submits a URB per      *)
(* frame and stops the queue when TX_QUEUE_LIMIT of them are under way, the *)
(* completion callback wakes it.  tx_queue_cnt is a plain int that both     *)
(* change with no lock, on two processors if need be, so an increment is a  *)
(* load and a store and the callback may come between any two steps of      *)
(* start_xmit.  The network stack calls start_xmit one at a time on a       *)
(* running queue; the host controller completes URBs one at a time.         *)
(* (tx_timeout only logs.)                                                  *)
(***************************************************************************)
EXTENDS Integers

CONSTANT QueueLimit    \* TX_QUEUE_LIMIT

ASSUME QueueLimitAssumption == QueueLimit \in Nat \ {0}

VARIABLES
  up,         \* the interface is open
  present,    \* netif_device_present
  stopped,    \* netif_queue_stopped
  cnt,        \* tx_queue_cnt
  inFlight,   \* URBs submitted whose callback has not begun
  xmit,       \* start_xmit: "idle", "load", "store" (of the increment), "stop"
  xmitCnt,    \* the value it loaded (0 when it has none)
  done,       \* write_bulk_callback: "idle", "store" (of the decrement), "wake"
  doneCnt,    \* the value it loaded (0 when it has none)
  races,      \* history: stores that came between the other side's load and store
  missed,     \* history: a callback looked at the queue just before it was stopped
  startedFull \* history: the queue was started with the count at the limit

netVars == <<up, present, stopped>>
histVars == <<races, missed, startedFull>>
xmitVars == <<xmit, xmitCnt>>
doneVars == <<done, doneCnt>>
vars == <<netVars, histVars, cnt, inFlight, xmitVars, doneVars>>

DtInit ==
  /\ up = FALSE /\ present = TRUE /\ stopped = TRUE
  /\ races = 0 /\ missed = FALSE /\ startedFull = FALSE
  /\ cnt = 0 /\ inFlight = 0
  /\ xmit = "idle" /\ xmitCnt = 0
  /\ done = "idle" /\ doneCnt = 0

\* What the histories record: a store of the count while the other side is between
\* its load and its store, and a start of the queue.
StoresOver(other) == races' = IF other = "store" THEN races + 1 ELSE races
Starts == startedFull' = (startedFull \/ cnt >= QueueLimit)

(***************************************************************************)
(* open and close.  close leaves the URBs of the transmit side under way.   *)
(***************************************************************************)
\* Mutant: the queue is not started.
OpenNoStart ==
  /\ ~up /\ present
  /\ up' = TRUE
  /\ UNCHANGED <<stopped, present, histVars, cnt, inFlight, xmitVars, doneVars>>

Open ==
  /\ ~up /\ present
  /\ up' = TRUE /\ stopped' = FALSE
  /\ Starts
  /\ UNCHANGED <<present, races, missed, cnt, inFlight, xmitVars, doneVars>>

\* The stack waits for start_xmit to return before it calls close.
Close ==
  /\ up /\ xmit = "idle"
  /\ up' = FALSE /\ stopped' = TRUE
  /\ UNCHANGED <<present, histVars, cnt, inFlight, xmitVars, doneVars>>

(***************************************************************************)
(* start_xmit.                                                              *)
(***************************************************************************)
MayXmit == up /\ present /\ ~stopped /\ xmit = "idle"

\* usb_submit_urb took the URB.
Submit ==
  /\ MayXmit
  /\ inFlight' = inFlight + 1
  /\ xmit' = "load"
  /\ UNCHANGED <<netVars, histVars, cnt, xmitCnt, doneVars>>

\* Mutant: a frame is counted before its URB is refused.
SubmitFailsCounted ==
  /\ MayXmit /\ cnt < QueueLimit
  /\ cnt' = cnt + 1
  /\ UNCHANGED <<netVars, histVars, inFlight, xmitVars, doneVars>>

\* usb_submit_urb finds the device gone: the frame is dropped, the interface is
\* detached, which stops its queue.  (Other failures, and frames that are too long
\* or too short, are dropped and leave all this as it is.)
SubmitFails ==
  /\ MayXmit
  /\ present' = FALSE /\ stopped' = TRUE
  /\ UNCHANGED <<up, histVars, cnt, inFlight, xmitVars, doneVars>>

XmitLoad ==
  /\ xmit = "load"
  /\ xmitCnt' = cnt
  /\ xmit' = "store"
  /\ UNCHANGED <<netVars, histVars, cnt, inFlight, doneVars>>

\* Mutant: the queue is stopped one frame late.
XmitStoreLate ==
  /\ xmit = "store"
  /\ cnt' = xmitCnt + 1
  /\ xmit' = IF xmitCnt = QueueLimit THEN "stop" ELSE "idle"
  /\ xmitCnt' = 0 /\ StoresOver(done)
  /\ UNCHANGED <<netVars, missed, startedFull, inFlight, doneVars>>

XmitStore ==
  /\ xmit = "store"
  /\ cnt' = xmitCnt + 1
  /\ xmit' = IF xmitCnt + 1 = QueueLimit THEN "stop" ELSE "idle"
  /\ xmitCnt' = 0 /\ StoresOver(done)
  /\ UNCHANGED <<netVars, missed, startedFull, inFlight, doneVars>>

XmitStop ==
  /\ xmit = "stop"
  /\ stopped' = TRUE
  /\ xmit' = "idle"
  /\ UNCHANGED <<up, present, histVars, cnt, inFlight, xmitCnt, doneVars>>

(***************************************************************************)
(* write_bulk_callback, whatever the status of the URB.                     *)
(***************************************************************************)
CallbackLoad ==
  /\ inFlight > 0 /\ done = "idle"
  /\ inFlight' = inFlight - 1
  /\ doneCnt' = cnt
  /\ done' = "store"
  /\ UNCHANGED <<netVars, histVars, cnt, xmitVars>>

\* Mutant: the decremented count is compared with the limit itself.
CallbackStoreAtLimit ==
  /\ done = "store"
  /\ cnt' = doneCnt - 1
  /\ done' = IF cnt' = QueueLimit THEN "wake" ELSE "idle"
  /\ doneCnt' = 0 /\ StoresOver(xmit)
  /\ UNCHANGED <<netVars, missed, startedFull, inFlight, xmitVars>>

CallbackStore ==
  /\ done = "store"
  /\ cnt' = doneCnt - 1
  /\ done' = IF doneCnt = QueueLimit THEN "wake" ELSE "idle"
  /\ doneCnt' = 0 /\ StoresOver(xmit)
  /\ UNCHANGED <<netVars, missed, startedFull, inFlight, xmitVars>>

\* Only a queue that is found stopped is woken: one that start_xmit is about to
\* stop is left to itself.
CallbackWake ==
  /\ done = "wake"
  /\ stopped' = FALSE
  /\ done' = "idle"
  /\ missed' = (missed \/ xmit = "stop")
  /\ Starts
  /\ UNCHANGED <<up, present, races, cnt, inFlight, xmitVars, doneCnt>>

XmitStep == XmitLoad \/ XmitStore \/ XmitStop
CallbackStep == CallbackLoad \/ CallbackStore \/ CallbackWake

DtNext == Open \/ Close \/ Submit \/ SubmitFails \/ XmitStep \/ CallbackStep

DtSpec == DtInit /\ [][DtNext]_vars

(***************************************************************************)
(* Properties.                                                              *)
(***************************************************************************)
DtTypeOK ==
  /\ up \in BOOLEAN /\ present \in BOOLEAN /\ stopped \in BOOLEAN
  /\ races \in Nat /\ missed \in BOOLEAN /\ startedFull \in BOOLEAN
  /\ cnt \in Int /\ inFlight \in Nat
  /\ xmit \in {"idle", "load", "store", "stop"} /\ xmitCnt \in Int
  /\ done \in {"idle", "store", "wake"} /\ doneCnt \in Int

\* URBs submitted and not yet counted, called back and not yet discounted.
Uncounted == IF xmit \in {"load", "store"} THEN 1 ELSE 0
Undiscounted == IF done = "store" THEN 1 ELSE 0
Counted == inFlight - Uncounted + Undiscounted

Within(n, m) == n - m <= races /\ m - n <= races

\* tx_queue_cnt is the number of URBs under way, also after refused URBs, after a
\* close that left some behind and with callbacks that run in start_xmit.  Only
\* stores that come between the other side's load and store put it off, each by
\* one at most, and what is lost is never made up for.
CountExact == Within(cnt, Counted)

\* No more than TX_QUEUE_LIMIT URBs are under way, and one more for each such store,
\* until the queue is started with the count at the limit: open does not look at it.
LimitHeld == ~startedFull => inFlight <= QueueLimit + races

\* A queue that start_xmit stopped has a callback to come that will wake it, if no
\* store was lost and no callback looked at the queue just before it was stopped.
Stalls == up /\ present /\ stopped
StopHasWaker ==
  Stalls /\ races = 0 /\ ~missed =>
    \/ done = "wake"
    \/ cnt = QueueLimit /\ (inFlight > 0 \/ done = "store")

\* With these an inductive invariant: what a side loaded is as far off as the
\* count, and a running queue is below the limit unless it was started at it.
Loaded == /\ xmit = "store" => Within(xmitCnt, Counted)
          /\ done = "store" => Within(doneCnt, Counted)
          /\ xmit # "idle" => up /\ ~stopped
BelowLimit == ~startedFull =>
  /\ cnt <= QueueLimit /\ (done = "store" => doneCnt <= QueueLimit)
  /\ xmit \in {"load", "store"} => cnt < QueueLimit
  /\ xmit = "store" => xmitCnt < QueueLimit
  /\ xmit = "idle" /\ up /\ present /\ ~stopped => cnt < QueueLimit
StopsFull == xmit = "stop" /\ races = 0 /\ ~missed =>
               cnt = QueueLimit \/ done = "wake"

DtIInv == DtTypeOK /\ CountExact /\ StopHasWaker /\ Loaded /\ BelowLimit /\ StopsFull

\* A stopped queue does not stay stopped, unless a store was lost or a callback came
\* just before the stop: nothing else ends transmission.
WakesUnlessRaced == []<>(~Stalls \/ races > 0 \/ missed)

\* A stopped queue does not stay stopped: what README.md:3 ("fully supporting 100Mbps
\* duplex speed") needs of a queue of TX_QUEUE_LIMIT URBs.  Nothing keeps the callback
\* at deca_eth_interface.c:392 out of the increment and the stop at 459-461.
QueueWakes == []<>~Stalls
=============================================================================
