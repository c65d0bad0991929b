------------------------------ MODULE AtomicBus ------------------------------
(***************************************************************************)
(* What a master of the bus relies on: it asks for one access, the access   *)
(* takes effect at one instant, and the master takes the answer.  This is   *)
(* the bus that EthInterface composes its components with.                  *)
(***************************************************************************)
EXTENDS Naturals

CONSTANTS Masters, Cells, Values,
          Reach,       \* the cells that a master addresses
          Volatile     \* cells that also change of themselves

VARIABLES
  mem,       \* every register, descriptor and memory word on the bus
  port       \* what each master waits for

Idle == [is |-> "idle"]

Writes(m) == [is : {"write"}, cell : Reach[m], val : Values]
Reads(m)  == [is : {"read"}, cell : Reach[m]]
Asks(m)   == Writes(m) \cup Reads(m)

Done(v) == [is |-> "done", val |-> v]

Init == mem \in [Cells -> Values] /\ port = [m \in Masters |-> Idle]

Ask(m) ==
  /\ port[m] = Idle
  /\ \E a \in Asks(m) : port' = [port EXCEPT ![m] = a]
  /\ UNCHANGED mem

Read(m) ==
  /\ port[m] \in Reads(m)
  /\ port' = [port EXCEPT ![m] = Done(mem[port[m].cell])]
  /\ UNCHANGED mem

Write(m) ==
  /\ port[m] \in Writes(m)
  /\ mem' = [mem EXCEPT ![port[m].cell] = port[m].val]
  /\ port' = [port EXCEPT ![m] = Done(port[m].val)]

\* The answer is taken; the next access of a burst follows at once.
Take(m) ==
  /\ port[m].is = "done"
  /\ \E a \in {Idle} \cup Asks(m) : port' = [port EXCEPT ![m] = a]
  /\ UNCHANGED mem

Change(c) ==
  /\ \E v \in Values : mem' = [mem EXCEPT ![c] = v]
  /\ UNCHANGED port

Next ==
  \/ \E m \in Masters : Ask(m) \/ Read(m) \/ Write(m) \/ Take(m)
  \/ \E c \in Volatile : Change(c)

Spec == Init /\ [][Next]_<<mem, port>>
=============================================================================
