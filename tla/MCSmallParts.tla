----------------------------- MODULE MCSmallParts -----------------------------
(***************************************************************************)
(* Model checking instance of five parts that share no state: the life of   *)
(* the driver's interface, the LED multiplexer, the register write byte by  *)
(* byte, and the test programs.  `part` says which of them runs in a        *)
(* behaviour; the others stay in one initial state.                         *)
(***************************************************************************)
EXTENDS DriverLife, Integers, Sequences

CONSTANTS Inputs, CoolDown, CounterRange,
          HighGap, FullGap,
          MaxLoops, MaxSize, Window, TcpPeriod,
          Total, UdpPeriod, Buffer

VARIABLES
  part,
  state, selected, counter, doSwitch, low,
  speed, sent, gap, cnt, dataOut, op, access, opFinish, reg, writes,
  loopsCnt, pktSize, sender, loop, left, stream, header,
  receiver, totalPackets, bufferSize, packets, received, loopCnt,
  udpSender, udpSent, udpReceiver, udpPackets, udpReceived, udpLoopCnt, socket, lost

ledVars == <<state, selected, counter, doSwitch, low>>
regVars == <<speed, sent, gap, cnt, dataOut, op, access, opFinish, reg, writes>>
tcpVars == <<loopsCnt, pktSize, sender, loop, left, stream, header,
             receiver, totalPackets, bufferSize, packets, received, loopCnt>>
udpVars == <<udpSender, udpSent, udpReceiver, udpPackets, udpReceived, udpLoopCnt,
             socket, lost>>

Led == INSTANCE LedMultiplexer

Reg == INSTANCE RegWriteBytes

Tcp == INSTANCE TcpTest WITH Period <- TcpPeriod

Udp == INSTANCE UdpTest WITH
  Period <- UdpPeriod, sender <- udpSender, sent <- udpSent, receiver <- udpReceiver,
  packets <- udpPackets, received <- udpReceived, loopCnt <- udpLoopCnt

ASSUME SmallConstants == Led!MuxConstants /\ Reg!Gaps /\ Tcp!TcpConstants /\ Udp!UdpConstants

Running == {"life", "leds", "reg", "tcp", "udp"}

\* The state a part stays in that does not run.
RegRests == part # "reg" => speed = "high"
TcpRests == part # "tcp" => loopsCnt = 0 /\ pktSize = 1

SmallInit ==
  /\ part \in Running
  /\ Init /\ Led!Init /\ Reg!Init /\ Tcp!Init /\ Udp!Init
  /\ RegRests /\ TcpRests

smallVars == <<part, vars, ledVars, regVars, tcpVars, udpVars>>

Life(A) == part = "life" /\ A /\ UNCHANGED <<part, ledVars, regVars, tcpVars, udpVars>>
LifeStep == Life(Next)
LedsStep == part = "leds" /\ Led!Next /\ UNCHANGED <<part, vars, regVars, tcpVars, udpVars>>
RegStep == part = "reg" /\ Reg!Next /\ UNCHANGED <<part, vars, ledVars, tcpVars, udpVars>>
TcpStep == part = "tcp" /\ Tcp!Next /\ UNCHANGED <<part, vars, ledVars, regVars, udpVars>>
UdpStep == part = "udp" /\ Udp!Next /\ UNCHANGED <<part, vars, ledVars, regVars, tcpVars>>

SmallNext == LifeStep \/ LedsStep \/ RegStep \/ TcpStep \/ UdpStep

\* The fairness of DriverLife, each action with the other parts at rest.
LifeFairness ==
  /\ WF_smallVars(Life(CoreGoesOn)) /\ WF_smallVars(Life(CoreUnbinds))
  /\ WF_smallVars(Life(CloseGoesOn)) /\ WF_smallVars(Life(UrbEnds))
  /\ WF_smallVars(Life(CallbackRuns)) /\ WF_smallVars(Life(TxEnds))

\* The test programs go on while they can; the button and the host need not.
SmallSpec ==
  SmallInit /\ [][SmallNext]_smallVars /\ LifeFairness /\ WF_smallVars(TcpStep)

\* The LED multiplexer steps once per press of the button.
OneStepPerPress == Led!OneStepPerPress

\* At high speed a register is written once, with all four bytes.
RegWholeWrite == Reg!WholeWrite

\* At full speed too, with the three low bytes, and nothing is left over.
RegLowBytes == Reg!LowBytesWritten

\* tcp_sending.py and tcp_receiving.py end, however recv cuts the stream.
TcpBothEnd == part = "tcp" => Tcp!BothEnd

\* udp_receiving.py ends only when no datagram was lost.
UdpEndsOnlyWithAll == Udp!EndsOnlyWithAll
=============================================================================
