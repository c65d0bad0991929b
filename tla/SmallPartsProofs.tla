---------------------------- MODULE SmallPartsProofs ----------------------------
(***************************************************************************)
(* Proofs about the small parts: the LED multiplexer, for every cool-down   *)
(* time that fits the counter; the register write byte by byte, for every   *)
(* distance of the bytes; the datagram test, for every number of datagrams. *)
(***************************************************************************)
EXTENDS MCSmallParts, TLAPS

(***************************************************************************)
(* The LED multiplexer.                                                     *)
(***************************************************************************)
USE SmallConstants DEF Led!MuxConstants

\* In COOL_DOWN the counter and the clocks that the button has been up make up
\* the cool-down time; in SWITCH at least one more has passed.
CoolInv ==
  /\ state \in {"RESET", "SWITCH", "COOL_DOWN"} /\ doSwitch \in BOOLEAN
  /\ state = "RESET" => ~doSwitch
  /\ state # "COOL_DOWN" => low = CoolDown + 1
  /\ state = "COOL_DOWN" => counter \in 0 .. CoolDown /\ low = CoolDown - counter

LEMMA CoolInit == Led!Init => CoolInv
  BY DEF Led!Init, CoolInv

\* A clock keeps the sum: the counter and low start again together.
LEMMA CoolStep == CoolInv /\ Led!Next => CoolInv'
<1> SUFFICES ASSUME CoolInv, Led!Next PROVE CoolInv'
  OBVIOUS
<1> USE DEF CoolInv
<1>1. CASE Led!Leave
  BY <1>1 DEF Led!Leave, Led!Next
<1>2. CASE Led!Switch
  BY <1>2 DEF Led!Switch, Led!Next, Led!Load
<1>3. CASE Led!Cool
  BY <1>3 DEF Led!Cool, Led!Next, Led!Load, Led!Down
<1> QED
  BY <1>1, <1>2, <1>3 DEF Led!Next

LEMMA CoolInvariant == SmallSpec => []CoolInv
<1>1. SmallInit => CoolInv
  BY CoolInit DEF SmallInit
<1>2. CoolInv /\ [SmallNext]_smallVars => CoolInv'
  <2>1. CoolInv /\ UNCHANGED ledVars => CoolInv'
    BY DEF CoolInv, ledVars
  <2> QED
    BY CoolStep, <2>1 DEF SmallNext, Life, LifeStep, LedsStep, RegStep, TcpStep, UdpStep, smallVars
<1> QED
  BY <1>1, <1>2, PTL DEF SmallSpec

\* A clock changes the source exactly when a press begins.
LEMMA OneStep ==
  CoolInv /\ Led!Next =>
    (state # "RESET" =>
       selected' = IF doSwitch /\ low > CoolDown THEN (selected + 1) % Inputs
                   ELSE selected)
<1> SUFFICES ASSUME CoolInv, Led!Next, state # "RESET"
             PROVE  selected' = IF doSwitch /\ low > CoolDown
                                THEN (selected + 1) % Inputs ELSE selected
  OBVIOUS
<1>1. CASE Led!Switch
  <2>1. low > CoolDown
    BY <1>1 DEF Led!Switch, CoolInv
  <2> QED
    BY <1>1, <2>1 DEF Led!Switch
<1>2. CASE Led!Cool
  <2>1. ~(low > CoolDown)
    BY <1>2 DEF Led!Cool, CoolInv
  <2> QED
    BY <1>2, <2>1 DEF Led!Cool
<1> QED
  BY <1>1, <1>2 DEF Led!Next, Led!Leave

\* Whatever the button does, the multiplexer steps once per press, for every
\* cool-down time and every counter that holds it.
THEOREM StepsOncePerPress == SmallSpec => OneStepPerPress
<1>1. [SmallNext]_smallVars => Led!Next \/ UNCHANGED Led!vars
  BY DEF SmallNext, Life, LifeStep, LedsStep, RegStep, TcpStep, UdpStep, smallVars, ledVars,
         Led!vars
<1>2. CoolInv /\ [SmallNext]_smallVars =>
        [ state # "RESET" =>
            selected' = IF doSwitch /\ low > CoolDown THEN (selected + 1) % Inputs
                        ELSE selected ]_Led!vars
  BY <1>1, OneStep
<1> QED
  BY CoolInvariant, <1>2, PTL DEF SmallSpec, OneStepPerPress, Led!OneStepPerPress

(***************************************************************************)
(* The register write.                                                      *)
(***************************************************************************)
\* The request is over, the next one has not come.
Over == sent = 4 /\ cnt = 0

ByteTypes ==
  /\ speed \in {"high", "full"}
  /\ sent \in 0 .. 4 /\ gap \in Nat \ {0} /\ cnt \in 0 .. 4

AccessTypes ==
  /\ op \in BOOLEAN /\ opFinish \in BOOLEAN
  /\ access \in {"IDLE", "WRITE_REG", "ACK", "REG_END"}

\* The handler has the bytes that came; it asks for the access when it has three,
\* and what InjectData writes then has at least these.
BytesInv ==
  /\ ByteTypes /\ AccessTypes
  /\ cnt = sent \/ Over
  /\ dataOut = 1 .. cnt
  /\ op => cnt >= 3
  /\ access # "IDLE" => op /\ ~opFinish
  /\ opFinish => op /\ access = "IDLE"
  /\ access \in {"ACK", "REG_END"} \/ opFinish => {1, 2, 3} \subseteq reg

\* At high speed the fourth byte is there when the write starts.
HighInv ==
  speed = "high" =>
    /\ gap <= HighGap
    /\ op /\ cnt = 3 => gap = HighGap
    /\ access # "IDLE" \/ opFinish => cnt = 4
    /\ access \in {"ACK", "REG_END"} \/ opFinish => writes = 1 /\ reg = Reg!Bytes
    /\ access \in {"IDLE", "WRITE_REG"} /\ ~opFinish /\ ~Over => writes = 0

LEMMA BytesInit == Reg!Init => BytesInv
<1>1. 1 .. 0 = {}
  OBVIOUS
<1>2. Reg!Init => ByteTypes
  BY DEF Reg!Init, ByteTypes
<1>3. Reg!Init => AccessTypes
  BY DEF Reg!Init, AccessTypes
<1>4. Reg!Init => dataOut = 1 .. cnt
  BY <1>1 DEF Reg!Init
<1> QED
  BY <1>2, <1>3, <1>4 DEF Reg!Init, BytesInv, Over

LEMMA BytesStep ==
  ASSUME BytesInv, Reg!Gaps, Reg!Next
  PROVE  BytesInv' /\ (op /\ ~op' => {1, 2, 3} \subseteq reg /\ dataOut' = {} /\ cnt' = 0)
<1> USE DEF BytesInv, ByteTypes, AccessTypes, Over
<1>1. CASE Reg!NewRequest
  BY <1>1 DEF Reg!NewRequest
<1>2. ASSUME NEW comes \in BOOLEAN, Reg!Clock(comes)
      PROVE  BytesInv' /\ (op /\ ~op' => {1, 2, 3} \subseteq reg /\ dataOut' = {} /\ cnt' = 0)
  <2>1. Reg!RxNext(comes) /\ Reg!Handler(comes) /\ Reg!Access
        /\ opFinish' = (access = "REG_END") /\ speed' = speed
    BY <1>2 DEF Reg!Clock
  <2>2. /\ gap' \in Nat \ {0} /\ sent' = (IF comes THEN sent + 1 ELSE sent)
        /\ comes => sent < 4
    BY <2>1 DEF Reg!RxNext
  <2>3. access' \in {"IDLE", "WRITE_REG", "ACK", "REG_END"}
    BY <2>1 DEF Reg!Access, Reg!IdleNext
  <2>4. CASE cnt > 3 /\ opFinish
    <3>1. dataOut' = {} /\ cnt' = 0 /\ op' = FALSE
      BY <2>1, <2>4 DEF Reg!Handler
    <3>2. access' = "IDLE" /\ opFinish' = FALSE /\ {1, 2, 3} \subseteq reg
      BY <2>1, <2>4 DEF Reg!Access, Reg!IdleNext
    <3>3. sent' = 4
      BY <2>2, <2>4
    <3>4. ByteTypes'
      BY <2>1, <2>2, <3>1, <3>3
    <3>5. AccessTypes'
      BY <3>1, <3>2
    <3>6. dataOut' = 1 .. cnt'
      <4>1. 1 .. 0 = {}
        OBVIOUS
      <4> QED
        BY <3>1, <4>1
    <3> HIDE DEF ByteTypes, AccessTypes
    <3>7. BytesInv'
      BY <3>1, <3>2, <3>3, <3>4, <3>5, <3>6
    <3> QED
      BY <3>1, <3>2, <3>7
  <2>5. CASE ~(cnt > 3 /\ opFinish)
    <3>1. /\ dataOut' = (IF comes THEN dataOut \cup {cnt + 1} ELSE dataOut)
          /\ cnt' = (IF comes THEN cnt + 1 ELSE cnt)
      BY <2>1, <2>5 DEF Reg!Handler
    <3>2. (op' <=> op \/ cnt >= 3) /\ op' \in BOOLEAN
      BY <2>1, <2>5 DEF Reg!Handler
    <3>3. cnt' \in 0 .. 4 /\ sent' \in 0 .. 4 /\ cnt' >= cnt
      BY <2>2, <3>1
    <3>4. dataOut' = 1 .. cnt'
      <4>1. 1 .. (cnt + 1) = (1 .. cnt) \cup {cnt + 1}
        OBVIOUS
      <4> QED
        BY <3>1, <4>1
    <3>5. cnt' = sent' \/ (sent' = 4 /\ cnt' = 0)
      BY <2>2, <3>1
    <3>6. /\ access' # "IDLE" => op /\ ~opFinish'
          /\ opFinish' => op /\ access' = "IDLE"
      BY <2>1 DEF Reg!Access, Reg!IdleNext
    <3>7. access' \in {"ACK", "REG_END"} \/ opFinish' => {1, 2, 3} \subseteq reg'
      BY <2>1 DEF Reg!Access, Reg!IdleNext
    <3>8. ByteTypes'
      BY <2>1, <2>2, <3>3
    <3>9. AccessTypes'
      BY <2>1, <2>3, <3>2
    <3>10. op /\ ~op' => FALSE
      BY <3>2
    <3>11. op' => cnt' >= 3
      BY <3>2, <3>3
    <3> HIDE DEF ByteTypes, AccessTypes
    <3>12. BytesInv'
      BY <3>2, <3>3, <3>4, <3>5, <3>6, <3>7, <3>8, <3>9, <3>11
    <3> QED
      BY <3>10, <3>12
  <2> QED
    BY <2>4, <2>5
<1> QED
  BY <1>1, <1>2 DEF Reg!Next

\* Two clocks from byte to byte at most: the third byte raises op one clock later,
\* InjectData is in WRITE_REG one clock after that, and the fourth byte is there.
LEMMA HighStep ==
  ASSUME BytesInv, HighInv, Reg!Gaps, HighGap <= 2, Reg!Next
  PROVE  HighInv'
<1> USE DEF BytesInv, ByteTypes, AccessTypes, Over, Reg!Gaps
<1>1. CASE Reg!NewRequest
  BY <1>1 DEF HighInv, Reg!NewRequest
<1>2. ASSUME NEW comes \in BOOLEAN, Reg!Clock(comes), speed = "high"
      PROVE  HighInv'
  <2>1. Reg!RxNext(comes) /\ Reg!Handler(comes) /\ Reg!Access
        /\ opFinish' = (access = "REG_END")
    BY <1>2 DEF Reg!Clock
  <2>2. /\ gap' <= HighGap /\ (~comes /\ 0 < sent => gap' >= gap)
        /\ ~comes /\ 0 < sent /\ sent < 4 => gap < HighGap /\ gap' = gap + 1
    BY <1>2, <2>1 DEF HighInv, Reg!RxNext, Reg!MaxGap
  <2>3. comes => sent < 4
    BY <2>1 DEF Reg!RxNext
  <2>4. sent' = IF comes THEN sent + 1 ELSE sent
    BY <2>1 DEF Reg!RxNext
  <2>5. CASE cnt > 3 /\ opFinish
    <3>1. cnt' = 0 /\ ~op' /\ access' = "IDLE" /\ ~opFinish' /\ sent' = 4
      BY <2>1, <2>3, <2>4, <2>5 DEF Reg!Handler, Reg!Access, Reg!IdleNext
    <3> QED
      BY <2>2, <3>1 DEF HighInv
  <2>6. CASE ~(cnt > 3 /\ opFinish)
    <3>1. cnt' = (IF comes THEN cnt + 1 ELSE cnt)
      BY <2>1, <2>6 DEF Reg!Handler
    <3>2. op' <=> (op \/ cnt >= 3)
      BY <2>1, <2>6 DEF Reg!Handler
    <3>3. ~opFinish
      BY <1>2, <2>6 DEF HighInv
    <3>4. op' /\ cnt' = 3 => gap' = HighGap
      BY <1>2, <2>2, <2>3, <3>1, <3>2 DEF HighInv
    <3>5. op => cnt' = 4
      BY <1>2, <2>2, <2>3, <3>1 DEF HighInv
    <3>6. access' # "IDLE" \/ opFinish' => cnt' = 4
      BY <2>1, <3>5 DEF Reg!Access, Reg!IdleNext
    <3>7. access' \in {"ACK", "REG_END"} \/ opFinish' => writes' = 1 /\ reg' = Reg!Bytes
      BY <1>2, <2>1, <3>3 DEF HighInv, Reg!Access, Reg!IdleNext, Reg!Bytes
    <3>8. Over' => Over
      BY <2>3, <2>4, <3>1
    <3>9. access' \in {"IDLE", "WRITE_REG"} /\ ~opFinish' /\ ~Over' => writes' = 0
      BY <1>2, <2>1, <2>3, <2>4, <3>1, <3>3 DEF HighInv, Reg!Access, Reg!IdleNext
    <3> QED
      BY <2>2, <3>4, <3>6, <3>7, <3>9 DEF HighInv
  <2> QED
    BY <2>5, <2>6
<1>3. ASSUME NEW comes \in BOOLEAN, Reg!Clock(comes), speed # "high"
      PROVE  HighInv'
  BY <1>3 DEF HighInv, Reg!Clock
<1> QED
  BY <1>1, <1>2, <1>3 DEF Reg!Next

\* The steps of the register write, with the four other parts beside it.
RegInv ==
  /\ BytesInv
  /\ HighGap <= 2 => HighInv

LEMMA RegInvariant == SmallSpec => []RegInv
<1>1. SmallInit => RegInv
  <2>1. SmallInit => BytesInv
    BY BytesInit DEF SmallInit
  <2>2. SmallInit /\ HighGap <= 2 => HighInv
    BY SmallConstants DEF SmallInit, Reg!Init, Reg!Gaps, HighInv
  <2> QED
    BY <2>1, <2>2 DEF RegInv
<1>2. RegInv /\ [SmallNext]_smallVars => RegInv'
  <2> SUFFICES ASSUME RegInv, [SmallNext]_smallVars PROVE RegInv'
    OBVIOUS
  <2>1. CASE Reg!Next
    BY <2>1, BytesStep, HighStep, SmallConstants DEF RegInv
  <2>2. CASE UNCHANGED regVars
    BY <2>2 DEF regVars, RegInv, BytesInv, ByteTypes, AccessTypes, Over, HighInv, Reg!Bytes
  <2> QED
    BY <2>1, <2>2 DEF SmallNext, Life, LifeStep, LedsStep, RegStep, TcpStep, UdpStep, smallVars
<1> QED
  BY <1>1, <1>2, PTL DEF SmallSpec

\* Every step of the register write is one of RegWriteBytes.
LEMMA RegSteps ==
  [SmallNext]_smallVars => Reg!Next \/ UNCHANGED Reg!vars
  BY DEF SmallNext, Life, LifeStep, LedsStep, RegStep, TcpStep, UdpStep, smallVars, regVars, Reg!vars

\* requesthandlers.py raises op with the third of four bytes.  However far apart
\* the bytes come, the three low ones are in the register when the request ends,
\* and the next one starts with an empty buffer.
THEOREM LowBytesAreWritten == SmallSpec => RegLowBytes
<1>1. RegInv /\ [SmallNext]_smallVars =>
        [Reg!Ended => {1, 2, 3} \subseteq reg /\ dataOut' = {} /\ cnt' = 0]_Reg!vars
  BY RegSteps, BytesStep, SmallConstants DEF RegInv, Reg!Ended
<1> QED
  BY RegInvariant, <1>1, PTL DEF SmallSpec, RegLowBytes, Reg!LowBytesWritten

\* At high speed a byte comes after one clock, or two when a bit is stuffed: the
\* fourth is there when InjectData takes the value, and it is written once.
THEOREM WholeRegisterAtHighSpeed == HighGap <= 2 => (SmallSpec => RegWholeWrite)
<1> SUFFICES ASSUME HighGap <= 2 PROVE SmallSpec => RegWholeWrite
  OBVIOUS
<1>1. RegInv /\ Reg!Next =>
        (speed = "high" /\ Reg!Ended => reg = Reg!Bytes /\ writes = 1)
  <2> SUFFICES ASSUME RegInv, Reg!Next, speed = "high", op, ~op'
               PROVE  reg = Reg!Bytes /\ writes = 1
    BY DEF Reg!Ended
  <2>1. opFinish
    BY DEF RegInv, BytesInv, AccessTypes, Reg!Next, Reg!NewRequest, Reg!Clock, Reg!Handler
  <2> QED
    BY <2>1 DEF RegInv, HighInv
<1>2. RegInv /\ [SmallNext]_smallVars =>
        [speed = "high" /\ Reg!Ended => reg = Reg!Bytes /\ writes = 1]_Reg!vars
  BY RegSteps, <1>1
<1> QED
  BY RegInvariant, <1>2, PTL DEF SmallSpec, RegWholeWrite, Reg!WholeWrite

(***************************************************************************)
(* The datagram test.                                                       *)
(***************************************************************************)
\* Each datagram that was sent is counted, waits in the socket, or is lost.
UdpInv ==
  /\ udpSent \in Nat /\ udpPackets \in Nat /\ socket \in Nat /\ lost \in Nat
  /\ udpSent <= Total
  /\ udpPackets + socket + lost = udpSent
  /\ udpReceiver = "closed" => udpPackets >= Total

LEMMA UdpInit == Udp!Init => UdpInv
  BY SmallConstants DEF Udp!UdpConstants, Udp!Init, UdpInv

LEMMA UdpNext == UdpInv /\ Udp!Next => UdpInv'
<1> SUFFICES ASSUME UdpInv, Udp!Next PROVE UdpInv'
  OBVIOUS
<1> USE SmallConstants DEF Udp!UdpConstants, UdpInv
<1>1. CASE Udp!SendTo
  <2>1. /\ udpSent < Total /\ udpSent' = udpSent + 1
        /\ udpReceiver' = udpReceiver /\ udpPackets' = udpPackets
    BY <1>1 DEF Udp!SendTo, Udp!recvVars
  <2>2. \/ socket' = socket + 1 /\ lost' = lost
        \/ lost' = lost + 1 /\ socket' = socket
    BY <1>1 DEF Udp!SendTo
  <2> QED
    BY <2>1, <2>2
<1>2. CASE Udp!SenderCloses
  BY <1>2 DEF Udp!SenderCloses, Udp!recvVars
<1>3. CASE Udp!Bind
  BY <1>3 DEF Udp!Bind, Udp!sendVars
<1>4. CASE Udp!RecvFrom
  BY <1>4 DEF Udp!RecvFrom, Udp!sendVars
<1>5. CASE Udp!ReceiverCloses
  BY <1>5 DEF Udp!ReceiverCloses, Udp!AllCounted, Udp!sendVars
<1> QED
  BY <1>1, <1>2, <1>3, <1>4, <1>5 DEF Udp!Next

\* The receiver ends only when all were counted, so that none was lost: for every
\* number of datagrams and every socket buffer.
THEOREM EndsWithAllDatagrams == SmallSpec => []UdpEndsOnlyWithAll
<1>1. SmallInit => UdpInv
  BY UdpInit DEF SmallInit
<1>2. UdpInv /\ [SmallNext]_smallVars => UdpInv'
  <2> SUFFICES ASSUME UdpInv, [SmallNext]_smallVars PROVE UdpInv'
    OBVIOUS
  <2>1. CASE Udp!Next
    BY <2>1, UdpNext
  <2>2. CASE UNCHANGED udpVars
    BY <2>2 DEF udpVars, UdpInv
  <2> QED
    BY <2>1, <2>2 DEF SmallNext, Life, LifeStep, LedsStep, RegStep, TcpStep, UdpStep, smallVars
<1>3. UdpInv => UdpEndsOnlyWithAll
  BY SmallConstants DEF UdpInv, UdpEndsOnlyWithAll, Udp!EndsOnlyWithAll, Udp!UdpConstants
<1> QED
  BY <1>1, <1>2, <1>3, PTL DEF SmallSpec

=============================================================================
