# A verification model of the DECA USB Ethernet interface

The device is a bridge: a USB 2.0 core (LUNA) on one side, an Ethernet MAC
(OpenCores *ethmac*) on the other, and between them a handful of state machines
written in Amaranth (`gateware/*.py`). A Linux driver
(`driver/deca_eth_interface.c`) makes a network interface of it. This directory
holds TLA+ modules of the bridge, of the parts of the MAC it works with and of
the driver, the TLC configurations that check them, and TLAPS proofs.

## 1. The system

    network stack
      | start_xmit, write_bulk_callback        netif_rx, read_bulk_callback ^
    Linux driver  ---- usb_control_msg (PHY access) --------+               |
      | EP3 OUT                                             | EP0           | EP2 IN
    USBInToFifo                               VendorRequestHandlers    USBOutFromFifo
      | data FIFO, length FIFO                              | op, rd_wr     ^ data FIFO, length FIFO
      +----------------------------> InjectData <-----------+               |
                                       |  ^  +------------------------------+
                     SimplePortsToWb   |  | new_irq
                                       |  HandleMacInt
                                       v    v
                             Wishbone arbiter  <---- DMA master of ethmac
                               |           |
                          WishboneRAM    ethmac: descriptors, registers, MII management
                                           |
                                         PHY / wire

| Component | State | Operations | Talks to |
|---|---|---|---|
| `InjectData` | FSM of 19 states; `head`, `tail`, `rd_head`, `rd_tail`; flags `send_packet`, `clear_tx_desc`; word counters; `pass_data` | initialise the MAC and both rings; take a frame from USB, write buffer and descriptor; reclaim descriptors; copy received frames out; register accesses for the host | in/out FIFOs, the bus, HandleMacInt, VendorRequestHandlers |
| `HandleMacInt` | FSM of 3 states; `new_irq` | on `int_o`: read ETH_INT_SOURCE, hand the bits over, clear | bus, InjectData |
| `EthInterface` | the arbiter's grant | round robin over three masters | all of the above |
| `SimplePortsToWb`, `WishboneRAM` | strobes, acknowledge counter, memory | one bus transaction at a time | bus |
| `USBInToFifo` | FSM of 4 states; `counterr`, `tx_pkt_len`, `payload` | bytes of EP3 to words and lengths | stream of EP3, in FIFOs |
| `USBOutFromFifo` | FSM of 3 states; `packet_size`, `counter` | words and lengths to bytes of EP2 | out FIFOs, stream of EP2 |
| `VendorRequestHandlers` | `reg_addr`, `data_out`, `cnt`, `op`, `rd_wr` | register reads and writes of the host; posts writes | EP0, InjectData |
| ethmac, Wishbone side | 2 rings of 16 descriptors, `TxBDAddress`, `RxBDAddress`, engines, ETH_INT_SOURCE | polls descriptors, DMA, status write, interrupt pulses | bus, MAC proper |
| ethmac, MII management | MII registers, start signals, shift register | management frames to the PHY | registers, PHY |
| ethmac, the rest | MAC proper | third-party; CRC, collisions, flow control, address filter | wire |
| driver, transmit | `tx_queue_cnt`, stopped flag, URBs under way | open, close, `start_xmit`, `write_bulk_callback` | EP3 |
| driver, receive | `rx_urb`, `rx_skb` | `fill_rx`, `read_bulk_callback`, open, close | EP2 |
| driver, PHY | none between calls | `read_mii_word`, `write_mii_word` | EP0 |
| driver, probe/disconnect | allocations | register, initialise, tear down | USB core |
| LED multiplexer | FSM of 3 states, `selected`, `counter` | one source further per press, cool-down after a bounce | button, LEDs |
| reset button | - | resets the USB clock domain and, by `wb_rst`, the MAC; block RAM keeps its content | all of the gateware |
| test programs | counters | a TCP and a UDP sender and receiver | sockets |
| platform, benches | - | pins, PLL; stimuli for simulation | - |

What is hard here: three bus masters interleave over shared rings and buffers;
interrupts are edge-like flags that are read and cleared in two transactions;
the FSM of InjectData does one thing at a time, so that a full FIFO on one side
holds up the other; writes of the host are acknowledged before they are done;
the driver's counter is shared between contexts; transfers fail, URBs are
killed and submitted again while the device keeps what it had. PROJECT.json
lists these hazards one by one with their lines and the properties that cover
them.

What makes it correct, per part:

- rings: a descriptor, and its buffer, has one owner at any time; nothing is
  lost, torn, duplicated or overtaken; work that is there gets noticed;
- FIFO converters: the framing on both sides agrees, whatever the padding of
  the last word, the packet size and the moment a FIFO fills up;
- register access: the value read or written is that of the access asked for,
  and every request ends;
- driver: the window is respected, a stopped queue is woken, the receive path
  is not stopped by anything but a refused submission.

## 2. Modules

| Module | Models | Sources |
|---|---|---|
| `AtomicBus` | abstract: accesses to memory cells that take effect at once, between request and answer | - |
| `WbBus` | the bus clock by clock: masters, arbiter, SimplePortsToWb, WishboneRAM, the MAC's slave port, the stages of the descriptor memory, the burst master | `eth_interface.py`, `simple_ports_to_wb.py`, `memory.py`, `eth_top.v`, `eth_wishbone.v` |
| `Rings` | ring arithmetic: `Succ`, `Plus`, `Dist`, `InRing` | `inject_data.py` |
| `EthMac` | descriptor rings, DMA engines, interrupt sources | `eth_wishbone.v`, `eth_registers.v` |
| `HandleMacInt` | interrupt reader | `handle_mac_int.py` |
| `InjectData` | the bridge's FSM, one action per state (several where a state has several exits) | `inject_data.py` |
| `EthInterface` | arbiter and composition of the four above with host and wire; properties | `eth_interface.py` |
| `EthLink` | abstract: two independent queues of whole frames | - |
| `EthReset` | `EthInterface` with the reset button | `deca_usb2_eth_interface.py`, `inject_data.py` |
| `UsbInFifo` | EP3 stream, in FIFOs and their reader | `usb_in_to_fifo.py`, `inject_data.py` |
| `DriverTx` | the driver's transmit side | `deca_eth_interface.c` |
| `TxPath` | composition of the two above: the URBs of the one are the transfers of the other | both, and the host controller |
| `UsbOutFifo` | out FIFOs, their writer, EP2's packet buffers | `usb_out_from_fifo.py`, `inject_data.py` |
| `DriverRx` | what the driver's receive side hands up, over `UsbOutFifo` | `deca_eth_interface.c` |
| `DriverLife` | probe, open, close, unplugging, disconnect and the receive callback: who owns the skb, what is allocated and released | `deca_eth_interface.c` |
| `EthMiim` | MII registers, management frames, scan mode | `eth_miim.v`, `eth_shiftreg.v`, `eth_registers.v` |
| `VendorRequests` | request handler and InjectData's register states, over `EthMiim` | `requesthandlers.py`, `inject_data.py` |
| `ControlPath` | the driver's PHY accesses, over `VendorRequests` | `deca_eth_interface.c` |
| `RegWriteBytes` | a register write of the host byte by byte and clock by clock | `requesthandlers.py`, `inject_data.py` |
| `LedMultiplexer` | the LED selector with its cool-down counter | `led_multiplexer.py` |
| `TcpTest`, `UdpTest` | the test programs with the socket between them | `test_progs/*.py` |
| `EthInterfaceProofs`, `EthResetProofs`, `WbBusProofs`, `TxPathProofs`, `DriverRxProofs`, `DriverLifeProofs`, `ControlPathProofs`, `SmallPartsProofs` | theorems, see 4 | - |
| `MC*` | instances for TLC; `MCSmallParts` runs one of five parts that share no state: the driver's life cycle, the LEDs, the register write and the two pairs of test programs | - |

Conventions. Variables and states keep the names of the code (camel case for
snake case). A definition that ends a comment "Mutant:" is a plausible bug of
the definition after it; no specification uses it, and it serves to show that a
property notices. History variables are marked as such where they are declared.

**Frames.** In `EthInterface` a frame is a number and its data `FrameWords`
words that each carry the number: a buffer that mixes two frames shows. In
`UsbInFifo`, `UsbOutFifo` and `DriverRx` a byte is the pair of its frame and
its place in it, and a word the bytes it holds.

**Time.** In `EthInterface` a bus transaction is one step, at its acknowledge.
`WbBus` says why it may be: it has the clocks, the acknowledges that memory,
registers and descriptors delay by different numbers of them, and the
descriptor memory that the bus shares with both engines, and it implements
`AtomicBus`. The grant register is part of the state, and a step that is not on
the bus leaves the grant where it settles. Clocked machines otherwise
interleave; for the properties checked this only adds behaviours.

**EthMac.** TX and RX engines poll the descriptor, move words over the bus,
write the status and pulse an interrupt; setting a source bit wins over
clearing it, as in `eth_registers.v`. Bursts are single transactions (more
interleavings than the bus allows). A frame may be aborted or end with an error
pulse; a frame without a ready descriptor is dropped with `busy`. The initial
state is power-up; `MODER` starts the engines before the descriptors are
written, as in the code.

**InjectData.** `LatchFlags` is in every step: bits that HandleMacInt hands over
set `send_packet` and `clear_tx_desc` in whatever state the FSM is, and the order
of assignments in the code decides when a state clears the flag in the same
cycle. `GET_PACKET_DATA` has its two ways on: a word from the bus with room in
the FIFOs, and the wait with `pass_data`.

**EthMiim, VendorRequests, ControlPath.** A byte is the set of its one bits, so
that the or-ing of `data_out` is a union, and a register's value a pair of
bytes. `MaxRep` and `MaxTries` are the driver's polls and the host's tokens. The
four data bytes of a write are four steps (`SendByte`), and InjectData, whose
`op` rises with the third, may come between any two of them. `traffic` says that
frames keep InjectData from IDLE: an access may then take longer than the host
waits for a token or than it takes to the next SETUP; without it an access is
over before the next SETUP (`MaySetup`).

An access that is overtaken by the next SETUP is done with the register and the
direction of that one, and leaves `cnt` and `data_out` behind. The next write
fires it again, or'ed with its own first bytes, and `op_finish` clears `cnt` and
`data_out` once `cnt` is 4 or more. If that falls between two data bytes, the
remaining ones are counted from 0, and `cnt` stays at 1, 2 or 3 with a value
that is shifted by the missing bytes. At full speed, where the bus is faster
than the bytes, such a count reproduces itself in every later write, traffic or
not, until a write happens not to be cut or the FPGA is reset: `MiiReadSettles`,
that calls are right once the traffic is over and a call has run, is refuted
(`mii_traffic`). What holds is said of calls that begin at rest, `begun =
"rest"`: `AtRest` (handler, InjectData and management interface have nothing
left to do) and no traffic. Such a call is right (`MiiCallRight`), the PHY is
written by nobody else (`PhyWrittenAsAsked`), and it leaves everything at rest
again (`RestAgain`), so that the next one is such a call too. After power-up the
handler is at rest. `CallsEnd` is said of every call.

Left out of `EthMiim`: `Nvalid` and `LinkFail`, which the driver does not look at,
the clocks of the synchronisers, so also a command bit that is set in the very
clock of `EndBusy`, and the single bits of a frame.

`RegWriteBytes` has the bytes of one write clock by clock, from a handler at
rest. `HighGap` and `FullGap` bound the clocks from one byte to the next, 2 at
high speed (bit stuffing) and 12 in place of about 40 at full speed. With
`HighGap = 3` the whole write is already refuted, with 2 it holds: the design
relies on the bus speed, and at full speed only the low three bytes are safe.

**DriverTx, TxPath.** `++` and `--` of the plain `int` are a load and a store,
and the callback, on another processor, may come between any two steps of
start_xmit. Three histories say what went wrong so far: `races` counts the
stores that came between the load and the store of the other side, `missed` says
that a callback looked at the queue just before start_xmit stopped it,
`startedFull` that the queue was started with the count at the limit.
`CountExact`, `LimitHeld`, `StopHasWaker` and `WakesUnlessRaced` say how far
each of them reaches, `QueueWakes` makes no exception and is refuted
(`tx_overlap`). In `TxPath` a URB is called back once the OUT endpoint has its
last byte, of which it holds at most `EpBuffer` bytes that the stream has not
passed on; so a full FIFO holds back the callback that wakes the queue. URBs run
to their end, or fail once the device is gone.

**DriverRx.** A URB takes packets until a short one, a full buffer or a failure.
`refused` says that the USB core did not take the latest submission, apart from
`faults`, which also counts failed transfers and is the bound.
`close` kills the URB: the callback runs, its submission is refused. The device is
not told, so that it goes on where it was.

**DriverLife.** What the driver calls is modelled by its contract: `usb_kill_urb`
refuses submissions until the callback has returned; the USB core disables the
endpoints, which ends every URB, before it calls `disconnect`;
`unregister_netdev` closes an open interface. Skbs are few model values, so that
one freed and one in use cannot be confused.

**EthReset.** The button sets registers and FIFOs to their initial values; the
descriptors and the frame buffers are in block RAM and stay. `DrainedReset` has
it pressed only while no transmit descriptor is ready, `OneWay` has frames in
one direction (either), which 6.1 makes necessary for liveness.

## 3. Runs

| Run | Question | Instance | Result |
|---|---|---|---|
| `duplex` | ownership, framing, refinement of `EthLink` (hence order), both directions and register accesses at once | 2 descriptors, 2-word frames, 2 frames each way, 3-word out FIFO | holds, 650 000 states |
| `one_way` | with a reset at any moment at which nothing waits to be sent: ownership, order, nothing unnoticed, everything delivered and answered | 3 descriptors, 2 frames out or 4 frames in, spaced; 1 reset | holds, 210 000 states |
| `bus` | does an access of several clocks behave like one step | 1 RAM word, 2 descriptor words, 1 register, 2 values, bursts of 2 | holds, 390 000 states |
| `tx_path` | from start_xmit to InjectData, callbacks in any step of start_xmit: frames, framing, count, window, wake-up | limit 2; 3 frames of 5 or 8 bytes, packets of 7, 8 bytes in the endpoint, 4-word and 1-entry FIFOs | holds, 760 000 states |
| `rx_path` | frames to skbs through packets, URBs, failures, close and open | lengths 5, 8, 12; packets of 4, URB of 12; 3 frames, 2 faults, 2 opens | holds, 250 000 states |
| `mii_calls` | PHY accesses that begin at rest right, alone with the PHY and leaving rest; all of them ending | 2 PHY registers, 1 value, 2 polls, 2 tokens, 1 call under traffic and 2 that do not begin at rest | holds, 1 640 000 states |
| `small` | driver's life cycle: who owns the skb, what outlives what, what is released, does unplugging end in a release; LEDs; register write by bytes; test programs | 4 skbs, 2 opens, 2 transmit URBs, 2 faults; counter of 4 bits, cool-down 13; gaps 2 and 12; 4 packets of up to 3 bytes, window 4; 9 datagrams | holds, 23 000 states |
| `duplex_lost_irq` | do received frames reach the host with one frame in each direction | 1 + 1 frames | **violated**, see 6.1 |
| `ctl_unread` | are register accesses served before the interface is opened | 2 received frames, nobody reads | **violated**, 6.2 |
| `mii_traffic` | PHY reads right once traffic is over and a call has run | 2 registers, reads only, 1 call under traffic | **violated**, 6.3 |
| `tx_overlap` | is a stopped queue woken, whatever the callback meets | as `tx_path` | **violated**, 6.5 |
| `reset_pending` | are frames sent after a reset with one waiting | 2 descriptors, 3 frames, 1 reset | **violated**, 6.4 |

Bounds. Two descriptors are the smallest ring with the one-free rule, and wrap
after every second frame, so that every pointer passes every other; three let
two frames be outstanding. Frames of two words can be torn and can be half
written into the out FIFO. `MaxTx` and `MaxRx` bound the frames, not the
interleaving; a ring of two is used up and wrapped within them. The lengths of
`tx_path` end at a word, one byte into a word, and at a packet boundary (5 and
the two length bytes are 7), and are shorter and longer than what the endpoint
holds; a limit of 2 is reached, left and reached again within 3 frames, and
passed after a reopen. The lengths of `rx_path` end inside a word, at a packet,
and at the URB's length. The value written in `mii_calls` has the bit that
COMMAND takes for RSTAT, as one of the register numbers has, so that a value in
the wrong register shows; `MaxBusyCalls` and `MaxLoose` bound the calls that are
not at rest, calls at rest are not bounded; two polls make a call fail earlier
than the code's 50, and the next one then meets a frame under way. In `bus` one
cell of a kind and another of the shared descriptor memory are enough to mix up
addresses, and two values to mix up data; cells of a kind and values are alike,
and the run, which checks safety only, uses that symmetry. A cool-down time of
13 in a counter of 16 has a load that is not its largest value.

Deadlock is checked in `bus`, which never stops. The others may stop: frames and
calls that are not at rest are bounded, nobody has to send, call, open or close,
a device is unplugged for good, and the test programs end.

Fairness. The clocked machines (HandleMacInt, InjectData, the MAC's engines one
by one, the FIFO converters, MII management) take a step when they can. That the
bus serves a master follows from the modelled arbiter. `FairSpec` also has the
host read what is there: an open interface always has a URB on endpoint 2;
`ClosedSpec` has not. Callbacks and the rest of start_xmit run. Arrivals, sends,
opens, closes, faults, aborts and requests have no fairness.

In `TxPath` the host controller also goes on with URBs it has, and the reader of
the in FIFOs with what is there: that is `TxDrains` of `one_way`. In
`DriverLife` the callback, close and the core's calls run to their ends, and a
URB whose endpoint is disabled ends.

`one_way` assumes `FrameSpacing`: a frame starts after the interrupt of the one
before has been handled. Minimal frames are 6.7 us apart (some 400 clocks) and
the interrupt takes two bus transactions.

## 4. Proofs

Every theorem is stated for all values of the constants that satisfy the named
assumptions of the modules: at least two descriptors, at least one word to a
frame, FIFOs of the depth that the code's conditions need. TLC checks the
same properties, and checked the invariants before they were proved. None of the
properties is inductive alone; what follows says what was added and why.

**`EthInterfaceProofs`**: `TypeOK`, `TxOwnership`, `RxOwnership`, `OutFraming`,
and the action property `OnlyClearForgets`. `Dist` and `InRing` under `Succ` are
settled once, in the ring lemmas at the start. `IInv` adds

- `WrapBits`: a descriptor in the MAC's hands has its wrap bit exactly at the
  end of the ring, otherwise the MAC's pointer would not follow `Succ`;
- `Progress`: the descriptor an engine works on is still ready, counters are
  below the end of the frame, and a frame is only taken when there is room;
- `Initialising`: what is and is not yet written while the rings are set up,
  because the MAC is enabled before.

There is a lemma for each action. Bus sharing is irrelevant to these
invariants, and the arbiter's guard is dropped early. `OnlyClearForgets` takes
`PulseInv` besides, that HandleMacInt offers bits for exactly one state: each
part of the system is then shown to leave noticed what was noticed, the clearing
of ETH_INT_SOURCE excepted.

The same module proves the refinement `Spec => LinkSpec`. `Contents` says what
each buffer holds, in the transmit direction (`TxContents`) and in the receive
direction (`RxContents`): the frames of the ready descriptors are whole and grow
from the MAC's pointer round the ring (`TxOrder`), those stored and not copied
from `rdTail` on (`RxOrder`); the frames in the out FIFOs are whole, grow, and
come before those in the ring (`OutOrder`); a frame that is being moved is there
as far as its counter says (`TxWords`, `RxWords`). The refinement then maps,
step by step: with the two queues of the abstract link written out as functions
of the state (`TxFrames`, `RxFrames`), the host's send appends, a status write
of the transmit engine takes off the head (to the wire or, after an error, to
nowhere), a frame's end on the wire's side appends, the host's read takes off
the head, and every other step leaves both queues as they are, also those in
which a frame changes hands between FIFO, buffer and descriptor.

**`EthResetProofs`**: `RunningOwnership` and `ResetInOrder`, under the
hypothesis `DrainedReset` (the button is pressed only while no transmit
descriptor is ready); run `reset_pending` shows that without it the rings do
part. Block RAM keeps the descriptors, so that `IInv` does not hold again at
once: until the last receive descriptor is rewritten `Booting` takes its place,
and `History`, what the PHY and the host have had, that of `Contents`.

`RunningNoticed` is proved under two hypotheses more, `OneWay` and
`FrameSpacing` (3; 6.1 shows what happens with both directions at once): a
stored frame or a sent descriptor always has something that makes InjectData
look at it. The hard case is `CLEAR_IRQ`, between HandleMacInt's read of the
interrupt sources and its write that clears all of them. `NoticeInv` says where
the work is in that state. A received frame is in what was read, in the flag
`sendPacket`, or in a scan of the receive ring that has begun (`RxRead`). A sent
descriptor is in what was read, in the flag `clearTxDesc`, or in the scan of the
transmit ring, whose first look is still to come, since HandleMacInt gets the
bus before InjectData does (`TxRead`). The direction without frames is at rest
(`TxIdle`, `RxIdle`), a frame comes in only after the interrupt of the one
before (`Spaced`), and nothing is signalled while the rings are set up
(`Quiet`).

**`WbBusProofs`**: `NoStrayAck`, `RestWithoutNeed`, and the refinement `Spec =>
AtomicSpec`, for any cells, values and burst length. `BusIInv` relates each
slave's latches to the access the granted master asks for: what the RAM's port
holds (`RamInv`), in which stages of the descriptor memory's round a need may be
met (`StageInv`), what the bus's stage has latched and when it acknowledges
(`BdInv`). An access of several clocks then has one step in which it takes
effect, and that step maps to the abstract one.

**`TxPathProofs`**: `InStep` and `FramesIntact` for frames of every length and
FIFOs of every depth; `CountExact`, `LimitHeld` and `StopHasWaker` for every
limit. For the first two, `InIInv` names each word by its frame and place and
says that the data FIFO holds exactly the words between the place the FSM writes
next and the one InjectData reads next (`InOrder`), with the size FIFO's lengths
(`Sizes`) and the word being put together (`Packing`) in agreement. For the
driver's three, `DtIInv` says that what each side loaded is as far off as the
count (`Loaded`), by no more than `races`, that a running queue is below the
limit until it is started at it (`BelowLimit`), and that a start_xmit about to
stop the queue has a callback to come (`StopsFull`); callbacks may meet
start_xmit anywhere, the three theorems have no hypothesis. The two
specifications are parts of `PathSpec` (`PathStreams`), to which the theorems on
the FIFOs apply directly.

**`DriverRxProofs`**: `SkbsAreFrames`, `SkbsInOrder`, `TornOnlyByCuts` and
`IdleOnlyRefused` for frames of every length, packets and URBs of every size,
and any number of failures, closes and opens. `RxInv` follows one chain of bytes
through the FIFOs, the endpoint's packets and the URB's buffer (`WordsInOrder`,
`EndpointInv`, `BufferInv`): each place holds consecutive bytes of one frame and
the next place goes on where it ends. `StackInv` counts the torn frames against
the cuts: a frame that is in part behind the buffer has a cut of its own.

**`DriverLifeProofs`**: `SkbOwned`, `UrbsEndFirst` and `AllReleased` for any
number of skbs, opens, faults and transmit URBs. `LifeInv` adds `CoreInv`: where
each of `close`, `disconnect` and the failing probe is, what it has already
ended, and that the URB is idle whenever it is not the interface's. `ReleaseInv`
counts skbs and says what is left to release at each of those places.

**`ControlPathProofs`**: `MiiCallRight`, `RestAgain` and `PhyWrittenAsAsked` for
any PHY registers and values and any numbers of polls and retries, whatever
calls under traffic came before. Of a call that does not begin at rest `CpIInv`
keeps only its types and the stage it is in (`Stages`). Of one that does: `Tidy`
says that the handler is at rest, has the bytes sent so far (`Part`), has one
write to do (`Writes`, `Pending`), or one read. `Carried` goes through the
driver's program: `Begun` writes may have reached their registers and `Written`
have; with the third byte there a write may be done, cleared away it is only
with the fourth. From then on the command waits or is under way (`Underway`), or
is done (`Finished`). `Waited`: a status that was read without "busy" means that
the management interface is idle. The lemmas on `Part` and `Masked` say what
three bytes, or'ed one by one, put into a register.

**`SmallPartsProofs`**:

- `OneStepPerPress` for every number of LED sources, every cool-down time and every
  counter that holds it. `CoolInv` ties the counter to the clocks for which the
  button has been up; that the load fits the counter is the assumption on the
  constants, which a power of two would break.
- `RegLowBytes` however far apart the bytes of a register write come, and `RegWholeWrite`
  if they are at most two clocks apart, as at high speed (with three TLC
  refutes it). `BytesInv` says that `op` is up only with three bytes in the buffer and
  that what was written has at least these; `HighInv` counts the clocks from
  the third byte to the write.
- `UdpEndsOnlyWithAll` for every number of datagrams and every socket: each datagram
  sent is counted, waits or is lost (`UdpInv`).

Model-checked only:

- liveness under fairness, out of the prover's reach: `TxDrains`, `RxDrains`,
  `CtlServed`, `WakesUnlessRaced`, `CallsEnd`, `AllTaken`, `FramesDelivered`, `UnplugEnds`,
  `TcpBothEnd`. What they rest on is proved where it is safety: `RunningNoticed`,
  `StopHasWaker`, `InStep`, `RestWithoutNeed`.

The runs that are expected to fail (`duplex_lost_irq`, `ctl_unread`,
`mii_traffic`, `reset_pending`, `tx_overlap`) stay with TLC as well: a
counterexample is a trace.

## 5. Not modelled

- The MAC proper: overruns of the receive FIFO and underruns of the transmit
  FIFO, retries, collisions, pause frames. Third-party internals; frames with
  errors are handed on like others, in the code as in the model.
- Registers that are written once at boot; unaligned pointers.
- LUNA and the host controller are external, modelled from what the code relies on
  (packets end when full or at `last`, an empty packet after a full last one,
  tokens are retried, URBs of an endpoint go in order).
- A transmit transfer that ends in the middle. USBInToFifo then takes bytes of
  the next frame for the rest of this one until a length or a short packet ends
  it; where it falls back into step depends on payload bytes that it takes for
  a length, and the model has no payload values.
- Liveness of the bus at clock level: that the rest stage never meets a need
  (`RestWithoutNeed`) and the round robin are what it rests on; with two
  descriptor words the state space is too large to check it without symmetry.
- `init_mii`'s two accesses to MODER; kmalloc failures in register accesses;
  ethtool, which only passes on to the kernel.
- start_xmit does not look at what `usb_alloc_urb` returns
  (`deca_eth_interface.c:439-442`): without memory it dereferences a null pointer.
- A `recv` that returns part of a header word in `tcp_receiving.py`: the rest would
  count as the next word or as payload, and the receiver would wait for another
  number of packets of another size. The sender puts each word into the stream
  with one `send` of four bytes, before any payload.
- Platform (pins, PLL parameters), debug endpoint (switched off), benches
  (stimuli without assertions), `sptw_memory.py` and the VHDL memory (not part of
  the device).

## 6. Where the code and what is said of it part

1. `handle_mac_int.py:56` clears all sources, also those that came up after the
   read. If only transmit bits were read, a received frame is left unnoticed
   until the next one (run `duplex_lost_irq`). With one direction only nothing
   is lost (`one_way`), and `OnlyClearForgets` shows that this write is the only
   step that loses anything.
2. `inject_data.py:298`: with the out FIFOs full and no reader, as between
   power-up and the first open, InjectData waits in GET_PACKET_DATA and answers
   no register access, the driver's `init_mii` among them (`ctl_unread`).
3. `requesthandlers.py:87` acknowledges writes that are not done. Under traffic
   they are overtaken by the next request, and `requesthandlers.py:80` may clear
   them away between two data bytes of a later write. The byte count that
   remains shifts later values, also when the traffic is over: accesses are
   acknowledged, `read_mii_word` succeeds, and the value is wrong
   (`mii_traffic`; the trace ends with a call that follows one that returned).
4. `inject_data.py:193`: the start-up sequence writes the buffer pointers of the
   transmit descriptors but not their ready bits. After a reset with a frame
   waiting, the MAC sends the old frame, its pointer runs one ahead of the
   bridge's, and nothing is sent until a reset with no descriptor ready, or a new
   configuration, puts the pointers in step again (`reset_pending`).
5. `deca_eth_interface.c:459` and `:392`: on two processors the callback may
   decrement between the load and the store of the increment, which leaves the
   count too high for good, or look at the queue after the increment to the
   limit and before the stop. Either way the queue stays stopped with nothing
   under way (`tx_overlap`), until the interface is closed and opened.
   `WakesUnlessRaced` shows that nothing else stops it.

Seen while modelling, without a run of its own:

- `deca_eth_interface.c:459` compares for equality, and a queue that is started
  with the count at the limit (a reopen with URBs under way) steps over it:
  `LimitHeld` ends there. `StopHasWaker` and `WakesUnlessRaced` hold beyond it.
- `tcp_receiving.py:33` counts each return of `recv` as a packet, also a part of
  one, so that the receiver may close the connection early (the state "failed" of
  the sender in `TcpTest`).
- `probe` allocates `intr_buff`, which nothing frees, and an open after a close
  overwrites an skb: `AllReleased` excepts both.
- After a failed `init_mii`, transmit URBs of an interface that was opened in
  the meantime may outlive it: `UrbsEndFirst` excepts that case.

## 7. Plan

Done: the bridge, the bus at clock level, the reset button, the whole transmit
and receive path, PHY access, the driver's life cycle, the LED multiplexer, the
test programs. Proved: every safety property of the passing runs, with the
hypotheses that section 4 names, and the two refinements (`LinkSpec`,
`AtomicSpec`).

Next, in this order:

1. `UsbInFifo` and `UsbOutFifo` implement a queue of frames: an abstract module and
   two refinements, from the invariants already proved.
2. A transmit transfer that is cut: payload bytes from a small set, and the
   property that the converter falls back into step at the next short packet.
3. The MAC's transmit and receive FIFOs: overrun and underrun, and what the
   bridge makes of them.
4. The MAC's line side where its control is worth checking: deferral, collision,
   backoff and retry; the pause timer; address check and frame status.
