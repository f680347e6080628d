--------------------------- MODULE SendPath_proofs ---------------------------
(* Proofs about the mailboxes between the app808 and the gsm thread.       *)
EXTENDS SendPath, SequenceTheorems, TLAPS

\* The threads start with an empty mailbox.
LEMMA TimeInit == Init => TimeInv
  BY TimingAssumption DEF Init, TimeInv, Timers, TakenInTime, AppPcs, GsmPcs

USE DEF AppPcs, GsmPcs

\* The steps of the gsm thread: it takes the packet, drops it, or comes closer.
LEMMA TimeGsm == TimeInv /\ GsmStep => TimeInv'
<1> SUFFICES ASSUME TimeInv, GsmStep PROVE TimeInv'
  OBVIOUS
<1> USE TimingAssumption DEF TimeInv, Timers, TakenInTime, GsmLeft, AppLeft,
        appVars, mailVars, Checks
<1>1. CASE GsmLine \/ (GsmErrorLine /\ gsmPc' = "check")
  <2>1. /\ UNCHANGED <<appTimer, appPc, Send_DataFlag>>
        /\ gsmPc = "recv" /\ gsmPc' = "check" /\ gsmTimer' = 0
    BY <1>1 DEF GsmLine, GsmErrorLine
  <2>2. Timers'
    BY <2>1
  <2>3. GsmLeft = gsmTimer /\ GsmLeft' = 0 /\ AppLeft' = AppLeft
    BY <2>1
  <2>4. ASSUME Send_DataFlag PROVE appPc \in {"mark", "wait1", "top"} /\ 0 <= AppLeft
    BY <2>1, <2>4
  <2> QED
    BY <2>1, <2>2, <2>3, <2>4 DEF TimeInv, TakenInTime
<1>2. CASE GsmNoLine
  BY <1>2 DEF GsmNoLine
<1>3. CASE Data_Send
  BY <1>3 DEF Data_Send
<1>4. CASE ClearSendFlag
  BY <1>4 DEF ClearSendFlag, EndRound
<1>5. CASE NothingToSend
  BY <1>5 DEF NothingToSend, EndRound
<1>6. CASE NextRound
  BY <1>6 DEF NextRound
<1>7. CASE GsmErrorLine /\ gsmPc' # "check"
  BY <1>7 DEF GsmErrorLine
<1> QED
  BY <1>1, <1>2, <1>3, <1>4, <1>5, <1>6, <1>7 DEF GsmStep

\* The steps of the app808 thread: with a packet in the mailbox it only waits.
LEMMA TimeApp == TimeInv /\ AppStep => TimeInv'
<1> SUFFICES ASSUME TimeInv, AppStep PROVE TimeInv'
  OBVIOUS
<1> USE TimingAssumption DEF TimeInv, Timers, TakenInTime, GsmLeft, AppLeft,
        gsmVars, mailVars, GsmWaits, AppRuns
<1>1. CASE AppTop
  BY <1>1 DEF AppTop
<1>2. CASE Copied
  BY <1>2 DEF Copied
<1>3. CASE TCP_RX_Process
  BY <1>3 DEF TCP_RX_Process
<1>4. ASSUME NEW p \in {Other} \cup Records, Protocol_End(p) PROVE TimeInv'
  BY <1>4 DEF Protocol_End
<1>5. CASE NoPacket
  BY <1>5 DEF NoPacket, AppDelays
<1>6. CASE Gsm_rxAppData_SemRelease
  BY <1>6 DEF Gsm_rxAppData_SemRelease, AppDelays
<1>7. CASE MarkSent
  BY <1>7 DEF MarkSent, AppDelays
<1>8. ASSUME NEW n \in {0, 1}, Save_GPS(n) PROVE TimeInv'
  BY <1>8 DEF Save_GPS, AppDelays
<1> QED
  BY <1>1, <1>2, <1>3, <1>4, <1>5, <1>6, <1>7, <1>8 DEF AppStep

\* A step that moves neither thread nor its timer, and leaves the mailbox flag.
LEMMA TimeKept ==
  ASSUME TimeInv, UNCHANGED <<appTimer, gsmTimer, gsmPc, appPc, Send_DataFlag>>
  PROVE  TimeInv'
<1>1. GsmLeft' = GsmLeft /\ AppLeft' = AppLeft
  BY DEF GsmLeft, AppLeft
<1>2. Timers'
  BY DEF TimeInv, Timers
<1>3. TakenInTime'
  BY <1>1 DEF TimeInv, TakenInTime
<1> QED BY <1>2, <1>3 DEF TimeInv

\* Time passes for both threads alike; the modem and the centre do not matter.
LEMMA TimeSurroundings == TimeInv /\ (Surroundings \/ UNCHANGED vars) => TimeInv'
<1> SUFFICES ASSUME TimeInv, Surroundings \/ UNCHANGED vars PROVE TimeInv'
  OBVIOUS
<1> USE TimingAssumption DEF TimeInv, Timers, TakenInTime, GsmLeft, AppLeft,
        appVars, gsmVars, mailVars
<1>1. CASE Tick
  <2> USE <1>1 DEF Tick, GsmWaits
  <2>1. Timers'
    <3>1. /\ appTimer \in Nat /\ gsmTimer \in Nat \ {0}
          /\ gsmTimer' = gsmTimer - 1
          /\ appTimer' = IF appTimer > 0 THEN appTimer - 1 ELSE 0
          /\ gsmPc' = gsmPc /\ appPc' = appPc
      OBVIOUS
    <3>2. Timers
      OBVIOUS
    <3> HIDE <1>1, TimingAssumption DEF TimeInv, TakenInTime, Tick, GsmWaits, GsmLeft, AppLeft
    <3>3. RecvWait \in Nat /\ LoopDelay + GsmBusy \in Nat
      BY TimingAssumption
    <3>4. gsmPc # "check"
      BY <3>1, <3>2
    <3>5. appTimer' \in Nat /\ gsmTimer' \in Nat /\ gsmTimer' <= gsmTimer
      BY <3>1
    <3> QED
      BY <3>1, <3>2, <3>3, <3>4, <3>5
  <2>2. ASSUME Send_DataFlag, gsmPc \notin {"sent", "closing"}
        PROVE  /\ appPc \in {"mark", "wait1", "top"}
               /\ GsmLeft' = GsmLeft - 1 /\ AppLeft' \in {AppLeft - 1, AppLeft}
               /\ GsmLeft \in Nat \ {0} /\ AppLeft \in Nat
    <3>1. gsmPc \in {"recv", "delay"}
      BY <2>2
    <3>2. /\ GsmLeft' = GsmLeft - 1
          /\ GsmLeft \in Nat \ {0}
      <4>1. gsmPc' = gsmPc /\ gsmTimer' = gsmTimer - 1 /\ gsmTimer \in Nat \ {0}
        OBVIOUS
      <4> HIDE <1>1, TimingAssumption DEF TimeInv, Timers, TakenInTime, Tick, GsmWaits
      <4>2. RecvWait \in Nat
        BY TimingAssumption
      <4>3. CASE gsmPc = "recv"
        BY <4>1, <4>3
      <4>4. CASE gsmPc = "delay"
        BY <4>1, <4>2, <4>4
      <4> QED BY <3>1, <4>3, <4>4
    <3>3. /\ appPc \in {"mark", "wait1", "top"} /\ GsmLeft <= AppLeft
      BY <2>2
    <3>4. AppLeft' \in {AppLeft - 1, AppLeft} /\ AppLeft \in Nat
      <4>1. /\ appPc' = appPc /\ appTimer \in Nat
            /\ appTimer' = IF appTimer > 0 THEN appTimer - 1 ELSE 0
        OBVIOUS
      <4> HIDE <1>1, TimingAssumption DEF TimeInv, Timers, TakenInTime, Tick, GsmWaits
      <4>2. AppDelay1 \in Nat /\ AppDelay2 \in Nat
        BY TimingAssumption
      <4>3. CASE appPc = "mark"
        BY <4>1, <4>2, <4>3
      <4>4. CASE appPc = "wait1"
        BY <4>1, <4>2, <4>4
      <4>5. CASE appPc = "top"
        BY <4>1, <4>5
      <4> QED BY <3>3, <4>3, <4>4, <4>5
    <3> QED
      BY <3>2, <3>3, <3>4
  <2>3. Send_DataFlag' = Send_DataFlag /\ gsmPc' = gsmPc /\ appPc' = appPc
    OBVIOUS
  <2>4. TakenInTime'
    <3>1. Send_DataFlag /\ gsmPc \notin {"sent", "closing"} => GsmLeft <= AppLeft
      OBVIOUS
    <3> HIDE <1>1 DEF GsmLeft, AppLeft
    <3>2. ASSUME Send_DataFlag, gsmPc \notin {"sent", "closing"} PROVE GsmLeft' <= AppLeft'
      BY <2>2, <3>1, <3>2
    <3> QED
      BY <2>2, <2>3, <3>2
  <2> QED
    BY <2>1, <2>4
<1> HIDE TimingAssumption DEF TimeInv, Timers, TakenInTime, GsmLeft, AppLeft
<1>2. CASE CHK_ReadCycle_status \/ AckTimeout
  BY <1>2, TimeKept DEF CHK_ReadCycle_status, AckTimeout
<1>3. CASE ModemSends \/ ModemFails \/ ModemError
  BY <1>3, TimeKept DEF ModemSends, ModemFails, ModemError
<1>4. CASE LinkChange \/ CentreSends
  BY <1>4, TimeKept DEF LinkChange, CentreSends
<1>5. CASE UNCHANGED vars
  BY <1>5, TimeKept DEF vars
<1> QED
  BY <1>1, <1>2, <1>3, <1>4, <1>5 DEF Surroundings

\* Except while the gsm thread waits after closing a failed connection, the app808
\* thread never rewrites GPRS_info over a packet that the gsm thread has not taken,
\* for all delays that satisfy TimingAssumption and any wait after an error.
THEOREM PacketNotOverwritten == Spec => []NoOverwrite
<1>1. TimeInv /\ [Next]_vars => TimeInv'
  BY TimeGsm, TimeApp, TimeSurroundings DEF Next
<1>2. TimeInv => NoOverwrite
  BY DEF TimeInv, TakenInTime, NoOverwrite
<1> QED
  BY TimeInit, <1>1, <1>2, PTL DEF Spec

-----------------------------------------------------------------------------
(* Types, and the order of the frames                                      *)

USE DEF Other, IPSENDX, ErrorLine, IsFrame, NoFrame, Torn, Records, Packets

\* The elements of a sequence, and the sequences with one more or one less.
LEMMA SeqFacts ==
  ASSUME NEW S, NEW s \in Seq(S)
  PROVE  /\ \A i \in 1 .. Len(s) : s[i] \in S
         /\ \A e \in S : Append(s, e) \in Seq(S)
         /\ s # <<>> => Tail(s) \in Seq(S)
  BY ElementOfSeq, AppendProperties, HeadTailProperties

\* What a line added to the queue of the modem's lines does to it.
LEMMA LineQueued ==
  ASSUME QueuesOK, NEW l \in -1 .. MaxFrames, GSM_RxHandler(l)
  PROVE  /\ lines' \in Seq(-1 .. MaxFrames)
         /\ \/ lines' = lines
            \/ /\ Len(lines') = Len(lines) + 1
               /\ lines'[Len(lines) + 1] = l
               /\ \A i \in 1 .. Len(lines) : lines'[i] = lines[i]
<1>1. lines \in Seq(-1 .. MaxFrames)
  BY DEF QueuesOK
<1>2. lines' \in {lines, Append(lines, l)}
  BY DEF GSM_RxHandler
<1>3. CASE lines' = Append(lines, l)
  BY <1>1, <1>3, AppendProperties
<1> QED
  BY <1>1, <1>2, <1>3

\* What the gsm thread does to it.
LEMMA LineTaken ==
  ASSUME NEW s \in Seq(-1 .. MaxFrames), s # <<>>
  PROVE  /\ Head(s) = s[1] /\ s[1] \in -1 .. MaxFrames
         /\ Tail(s) \in Seq(-1 .. MaxFrames) /\ Len(Tail(s)) = Len(s) - 1
         /\ \A i \in 1 .. Len(Tail(s)) : Tail(s)[i] = s[i + 1]
         /\ Len(s) \in Nat \ {0}
<1>1. Len(s) \in Nat \ {0}
  BY EmptySeq
<1>2. s[1] \in -1 .. MaxFrames
  <2>1. 1 \in 1 .. Len(s)
    BY <1>1
  <2> QED
    BY <2>1, SeqFacts
<1>3. Head(s) = s[1]
  OBVIOUS
<1> QED
  BY <1>1, <1>2, <1>3, HeadTailProperties

LEMMA FlagsInit == Init => FlagsOK
  BY DEF Init, FlagsOK

LEMMA TypeInit == Init => ValuesOK /\ QueuesOK /\ ReaderArmed /\ FrameInv
<1> SUFFICES ASSUME Init PROVE ValuesOK /\ QueuesOK /\ ReaderArmed /\ FrameInv
  OBVIOUS
<1>1. lines = <<>> /\ modem = <<>> /\ handled = <<>>
  BY DEF Init
<1>2. QueuesOK
  BY <1>1, EmptySeq DEF QueuesOK
<1>3. Len(lines) = 0 /\ Len(handled) = 0 /\ DOMAIN handled = 1 .. 0
  BY <1>1, <1>2, EmptySeq, LenProperties DEF QueuesOK
<1>4. ValuesOK
  BY TimingAssumption, BoundAssumption DEF Init, ValuesOK
<1>5. ReaderArmed /\ FrameInv
  BY <1>3 DEF Init, ReaderArmed, FrameInv, FramesInOrder, OnlyNewFrames,
     HandledOnceInOrder
<1> QED
  BY <1>2, <1>4, <1>5

\* Every step keeps the flags flags.
LEMMA FlagsStep == FlagsOK /\ [Next]_vars => FlagsOK'
<1> SUFFICES ASSUME FlagsOK, [Next]_vars PROVE FlagsOK'
  OBVIOUS
<1> USE DEF FlagsOK
<1>1. CASE GsmStep
  BY <1>1 DEF GsmStep, GsmLine, GsmErrorLine, SendOk, Get_GSM_HexData, GsmNoLine, Data_Send,
     ClearSendFlag, NothingToSend, NextRound, mailVars, rxVars, ringVars, netVars
<1>2. CASE AppStep
  BY <1>2 DEF AppStep, AppTop, Copied, TCP_RX_Process, Protocol_End, NoPacket,
     Gsm_rxAppData_SemRelease, MarkSent, Save_GPS, mailVars, rxVars, ringVars,
     netVars
<1>3. CASE Surroundings
  BY <1>3 DEF Surroundings, Tick, CHK_ReadCycle_status, AckTimeout, ModemSends,
     ModemFails, ModemError, LinkChange, CentreSends, mailVars, rxVars, ringVars, netVars
<1>4. CASE UNCHANGED vars
  BY <1>4 DEF vars, mailVars, rxVars, ringVars, netVars
<1> QED
  BY <1>1, <1>2, <1>3, <1>4 DEF Next

StepInv == ValuesOK /\ QueuesOK /\ ReaderArmed /\ FrameInv

\* The steps of the gsm thread.
LEMMA TypeGsm == StepInv /\ GsmStep => StepInv'
<1> SUFFICES ASSUME StepInv, GsmStep PROVE StepInv'
  OBVIOUS
<1>t. ValuesOK /\ QueuesOK /\ ReaderArmed /\ FrameInv
  BY DEF StepInv
<1>1. CASE GsmLine
  <2>0. Head(lines) # ErrorLine
    BY <1>1 DEF GsmLine
  <2>1. /\ lines \in Seq(-1 .. MaxFrames) /\ lines # <<>>
        /\ lines' = Tail(lines)
    BY <1>1, <1>t DEF GsmLine, QueuesOK
  <2>2. /\ Head(lines) = lines[1] /\ lines[1] \in -1 .. MaxFrames
        /\ lines' \in Seq(-1 .. MaxFrames) /\ Len(lines') = Len(lines) - 1
        /\ \A i \in 1 .. Len(lines') : lines'[i] = lines[i + 1]
        /\ Len(lines) \in Nat \ {0}
    BY <2>1, LineTaken
  <2>q. QueuesOK'
    BY <1>1, <1>t, <2>2 DEF GsmLine, QueuesOK, appVars
  <2>3. CASE Head(lines) = IPSENDX
    <3>1. ValuesOK'
      BY <1>1, <1>t, <2>3, BoundAssumption
      DEF GsmLine, SendOk, Api_cycle_Update, ValuesOK, ReaderArmed, rxVars, appVars,
          mailVars
    <3>2. ReaderArmed'
      BY <1>1, <1>t, <2>3
      DEF GsmLine, SendOk, Api_cycle_Update, ValuesOK, ReaderArmed, appVars
    <3>3. FramesInOrder'
      BY <1>1, <1>t, <2>2, <2>3
      DEF GsmLine, SendOk, FrameInv, FramesInOrder, rxVars
    <3>4. OnlyNewFrames' /\ HandledOnceInOrder'
      BY <1>1, <1>t, <2>3
      DEF GsmLine, SendOk, FrameInv, OnlyNewFrames, HandledOnceInOrder, rxVars, appVars
    <3> QED
      BY <2>q, <3>1, <3>2, <3>3, <3>4 DEF StepInv, FrameInv
  <2>4. CASE Head(lines) # IPSENDX
    <3> DEFINE f == Head(lines)
    <3>1. /\ GSM_HEX' = f /\ Receive_DataFlag' /\ UNCHANGED <<ringVars, appVars>>
          /\ f \in 1 .. MaxFrames /\ GSM_HEX < f /\ f <= frames /\ frames' = frames
      BY <1>1, <1>t, <2>0, <2>2, <2>4 DEF GsmLine, Get_GSM_HexData, FrameInv, FramesInOrder
    <3>2. ValuesOK' /\ ReaderArmed'
      BY <1>1, <1>t, <2>2, <3>1
      DEF GsmLine, ValuesOK, ReaderArmed, appVars, mailVars, ringVars
    <3>3. FramesInOrder'
      <4>1. \A i \in 1 .. Len(lines') : IsFrame(lines'[i]) => f < lines'[i]
        BY <1>t, <2>0, <2>2, <2>4 DEF FrameInv, FramesInOrder
      <4>2. \A i \in 1 .. Len(lines') : IsFrame(lines'[i]) => lines'[i] <= frames'
        <5> TAKE i \in 1 .. Len(lines')
        <5>1. i + 1 \in 1 .. Len(lines) /\ lines'[i] = lines[i + 1]
          BY <2>2
        <5> QED BY <1>t, <3>1, <5>1 DEF FrameInv, FramesInOrder
      <4>3. ASSUME NEW i \in 1 .. Len(lines'), NEW j \in 1 .. Len(lines'), i < j,
                   IsFrame(lines'[i]), IsFrame(lines'[j])
            PROVE  lines'[i] < lines'[j]
        <5>1. /\ i + 1 \in 1 .. Len(lines) /\ lines'[i] = lines[i + 1]
              /\ j + 1 \in 1 .. Len(lines) /\ lines'[j] = lines[j + 1] /\ i + 1 < j + 1
          BY <2>2, <4>3
        <5> QED BY <1>t, <4>3, <5>1 DEF FrameInv, FramesInOrder
      <4>4. GSM_HEX' <= frames' /\ GSM_HEX' > 0
        BY <3>1
      <4>5. \A i \in 1 .. Len(lines') : IsFrame(lines'[i]) => GSM_HEX' < lines'[i]
        BY <3>1, <4>1
      <4> QED
        BY <4>2, <4>3, <4>4, <4>5 DEF FramesInOrder
    <3>4. HandledOnceInOrder'
      BY <1>t, <3>1 DEF FrameInv, HandledOnceInOrder, appVars
    <3>5. \A i \in 1 .. Len(handled) : handled[i] \in Nat /\ handled[i] < f
      <4>1. \A i \in 1 .. Len(handled) : handled[i] \in 1 .. MaxFrames
        BY <1>t, SeqFacts DEF QueuesOK
      <4>2. \A i \in 1 .. Len(handled) : handled[i] <= GSM_HEX
        BY <1>t DEF FrameInv, OnlyNewFrames
      <4> QED
        BY <1>t, <3>1, <4>1, <4>2, BoundAssumption DEF ValuesOK
    <3>6. OnlyNewFrames'
      BY <1>t, <3>1, <3>5 DEF ValuesOK, FrameInv, OnlyNewFrames, appVars
    <3> QED
      BY <2>q, <3>2, <3>3, <3>4, <3>6 DEF StepInv, FrameInv
  <2> QED
    BY <2>3, <2>4
<1>2. CASE GsmNoLine \/ NextRound \/ NothingToSend \/ ClearSendFlag \/ Data_Send
  <2>1. /\ UNCHANGED <<appVars, rxVars, ringVars, lines, frames>>
        /\ GPRS_info' = GPRS_info /\ transmitted' = transmitted
    BY <1>2 DEF GsmNoLine, NextRound, NothingToSend, ClearSendFlag,
       Data_Send, netVars, mailVars
  <2>2. /\ gsmPc' \in GsmPcs /\ gsmTimer' \in Nat
    BY <1>2, <1>t, TimingAssumption DEF ValuesOK, GsmNoLine, NextRound,
       NothingToSend, ClearSendFlag, Data_Send, EndRound, netVars, gsmVars
  <2>3. modem' \in Seq(Packets)
    <3>1. modem' = modem \/ \E p \in Packets : modem' = Append(modem, p)
      <4>1. CASE GsmNoLine \/ NextRound \/ NothingToSend \/ ClearSendFlag
        BY <4>1 DEF GsmNoLine, NextRound, NothingToSend, ClearSendFlag, netVars
      <4>2. CASE Data_Send
        <5> DEFINE p == IF appPc = "build" THEN Torn ELSE GPRS_info
        <5>1. p \in Packets
          BY <1>t DEF ValuesOK, Packets
        <5>2. modem' = modem \/ modem' = Append(modem, p)
          BY <4>2 DEF Data_Send
        <5> QED BY <5>1, <5>2
      <4> QED BY <1>2, <4>1, <4>2
    <3>2. modem \in Seq(Packets)
      BY <1>t DEF QueuesOK
    <3>3. \A e \in Packets : Append(modem, e) \in Seq(Packets)
      BY <3>2, SeqFacts
    <3> QED
      BY <3>1, <3>2, <3>3, Zenon
  <2>4. ValuesOK'
    BY <1>t, <2>1, <2>2 DEF ValuesOK, appVars, rxVars, ringVars
  <2>5. QueuesOK'
    BY <1>t, <2>1, <2>3 DEF QueuesOK, appVars
  <2>6. ReaderArmed' /\ FrameInv'
    BY <1>t, <2>1 DEF ReaderArmed, FrameInv,
       FramesInOrder, OnlyNewFrames, HandledOnceInOrder, appVars, rxVars, ringVars
  <2> QED
    BY <2>4, <2>5, <2>6 DEF StepInv
<1>3. CASE GsmErrorLine
  <2>1. /\ lines \in Seq(-1 .. MaxFrames) /\ lines # <<>> /\ lines' = Tail(lines)
        /\ UNCHANGED <<appVars, mailVars, rxVars, ringVars, modem, frames, transmitted>>
        /\ gsmPc' \in GsmPcs /\ gsmTimer' \in Nat
    BY <1>3, <1>t, TimingAssumption DEF GsmErrorLine, QueuesOK
  <2>2. /\ lines' \in Seq(-1 .. MaxFrames) /\ Len(lines') = Len(lines) - 1
        /\ \A i \in 1 .. Len(lines') : lines'[i] = lines[i + 1]
        /\ Len(lines) \in Nat \ {0}
    BY <2>1, LineTaken
  <2>3. ValuesOK' /\ QueuesOK' /\ ReaderArmed'
    BY <1>t, <2>1, <2>2 DEF ValuesOK, QueuesOK, ReaderArmed, appVars, mailVars,
       rxVars, ringVars
  <2>4. FramesInOrder'
    <3>1. \A i \in 1 .. Len(lines') : i + 1 \in 1 .. Len(lines)
      BY <2>2
    <3> QED
      BY <1>t, <2>1, <2>2, <3>1 DEF FrameInv, FramesInOrder, rxVars
  <2>5. OnlyNewFrames' /\ HandledOnceInOrder'
    BY <1>t, <2>1 DEF FrameInv, OnlyNewFrames, HandledOnceInOrder, rxVars, appVars
  <2> QED
    BY <2>3, <2>4, <2>5 DEF StepInv, FrameInv
<1> QED
  BY <1>1, <1>2, <1>3 DEF GsmStep

\* The steps of the app808 thread.
LEMMA TypeApp == StepInv /\ AppStep => StepInv'
<1> SUFFICES ASSUME StepInv, AppStep PROVE StepInv'
  OBVIOUS
<1>t. ValuesOK /\ QueuesOK /\ ReaderArmed /\ FrameInv
  BY DEF StepInv
<1>h. /\ handled \in Seq(1 .. MaxFrames) /\ Len(handled) \in Nat
      /\ DOMAIN handled = 1 .. Len(handled)
      /\ \A i \in 1 .. Len(handled) : handled[i] \in 1 .. MaxFrames
  BY <1>t, SeqFacts, LenProperties DEF QueuesOK
<1>1. CASE AppTop
  <2>1. ValuesOK' /\ QueuesOK' /\ ReaderArmed'
    BY <1>1, <1>t, BoundAssumption DEF AppTop, AppRuns, ValuesOK, QueuesOK,
       ReaderArmed, gsmVars, mailVars, rxVars, ringVars, netVars
  <2>2. FramesInOrder' /\ HandledOnceInOrder'
    BY <1>1, <1>t DEF AppTop, FrameInv, FramesInOrder, HandledOnceInOrder, rxVars,
       netVars
  <2>3. OnlyNewFrames'
    BY <1>1, <1>t, <1>h DEF AppTop, AppRuns, ValuesOK, FrameInv, FramesInOrder,
       OnlyNewFrames, rxVars
  <2> QED
    BY <2>1, <2>2, <2>3 DEF StepInv, FrameInv
<1>2. CASE Copied
  <2>1. ValuesOK' /\ QueuesOK' /\ ReaderArmed'
    BY <1>2, <1>t, BoundAssumption DEF Copied, AppRuns, ValuesOK, QueuesOK,
       ReaderArmed, gsmVars, mailVars, rxVars, ringVars, netVars
  <2>2. FramesInOrder' /\ HandledOnceInOrder'
    BY <1>2, <1>t DEF Copied, FrameInv, FramesInOrder, HandledOnceInOrder, rxVars,
       netVars
  <2>3. OnlyNewFrames'
    <3>1. /\ appPc = "copy" /\ appPc' = "handle" /\ UNCHANGED <<handled, rxVars>>
          /\ UDP_HEX_Rx' \in {UDP_HEX_Rx, GSM_HEX, Torn}
          /\ UDP_HEX_Rx' = Torn => UDP_HEX_Rx = Torn \/ UDP_HEX_Rx # GSM_HEX
      BY <1>2, <1>t DEF Copied, AppRuns, ValuesOK
    <3>2. /\ Receive_DataFlag /\ GSM_HEX > 0
          /\ UDP_HEX_Rx # Torn => /\ UDP_HEX_Rx \in 1 .. GSM_HEX
                                 /\ \A i \in 1 .. Len(handled) : handled[i] < UDP_HEX_Rx
      BY <1>t, <3>1 DEF FrameInv, FramesInOrder, OnlyNewFrames
    <3>3. \A i \in 1 .. Len(handled) : handled[i] < GSM_HEX
      <4>1. UDP_HEX_Rx # Torn
        BY <1>t, <3>1 DEF FrameInv, OnlyNewFrames
      <4> QED
        BY <1>t, <1>h, <3>2, <4>1 DEF ValuesOK
    <3> QED
      BY <1>t, <1>h, <3>1, <3>2, <3>3 DEF ValuesOK, FrameInv, OnlyNewFrames, rxVars
  <2> QED
    BY <2>1, <2>2, <2>3 DEF StepInv, FrameInv
<1>3. CASE TCP_RX_Process
  <2>1. ValuesOK' /\ ReaderArmed'
    BY <1>3, <1>t, BoundAssumption DEF TCP_RX_Process, AppRuns, ValuesOK,
       ReaderArmed, gsmVars, mailVars, ringVars, netVars
  <2>2. CASE UDP_HEX_Rx = Torn
    <3>1. handled' = handled /\ GSM_HEX' = GSM_HEX /\ ~Receive_DataFlag'
          /\ appPc' = "send" /\ UNCHANGED netVars
      BY <1>3, <2>2 DEF TCP_RX_Process
    <3> QED
      BY <1>t, <2>1, <3>1 DEF StepInv, QueuesOK, FrameInv, FramesInOrder,
         OnlyNewFrames, HandledOnceInOrder, netVars
  <2>3. CASE UDP_HEX_Rx # Torn
    <3>1. /\ handled' = Append(handled, UDP_HEX_Rx) /\ GSM_HEX' = GSM_HEX
          /\ ~Receive_DataFlag' /\ appPc = "handle" /\ appPc' = "send"
          /\ UNCHANGED netVars
      BY <1>3, <2>3 DEF TCP_RX_Process, AppRuns
    <3>2. /\ UDP_HEX_Rx \in 1 .. GSM_HEX /\ UDP_HEX_Rx \in 1 .. MaxFrames
          /\ \A i \in 1 .. Len(handled) : handled[i] < UDP_HEX_Rx
      BY <1>t, <2>3, <3>1, BoundAssumption DEF FrameInv, OnlyNewFrames, ValuesOK
    <3>3. /\ handled' \in Seq(1 .. MaxFrames) /\ Len(handled') = Len(handled) + 1
          /\ \A i \in 1 .. Len(handled) : handled'[i] = handled[i]
          /\ handled'[Len(handled) + 1] = UDP_HEX_Rx
      BY <1>h, <3>1, <3>2, AppendProperties
    <3>4. DOMAIN handled' = 1 .. Len(handled) + 1
      BY <3>3, LenProperties
    <3>5. QueuesOK'
      BY <1>t, <3>1, <3>3 DEF QueuesOK, netVars
    <3>6. FramesInOrder'
      BY <1>t, <3>1 DEF FrameInv, FramesInOrder, netVars
    <3>7. HandledOnceInOrder'
      <4>1. \A i, j \in 1 .. Len(handled) : i < j => handled[i] < handled[j]
        BY <1>t, <1>h DEF FrameInv, HandledOnceInOrder
      <4> QED
        BY <1>h, <3>2, <3>3, <3>4, <4>1 DEF HandledOnceInOrder
    <3>8. OnlyNewFrames'
      <4>1. \A i \in 1 .. Len(handled') : handled'[i] <= GSM_HEX'
        BY <1>t, <1>h, <3>1, <3>2, <3>3 DEF FrameInv, OnlyNewFrames
      <4> QED
        BY <3>1, <4>1 DEF OnlyNewFrames
    <3> QED
      BY <2>1, <3>5, <3>6, <3>7, <3>8 DEF StepInv, FrameInv
  <2> QED
    BY <2>2, <2>3
<1>4. CASE \/ \E p \in {Other} \cup Records : Protocol_End(p)
           \/ NoPacket \/ Gsm_rxAppData_SemRelease \/ MarkSent
           \/ \E n \in {0, 1} : Save_GPS(n)
  <2>1. /\ UNCHANGED <<handled, UDP_HEX_Rx, rxVars, netVars, gsmVars>>
        /\ appPc \notin {"copy", "handle"} /\ appPc' \notin {"copy", "handle"}
    BY <1>4 DEF Protocol_End, NoPacket, Gsm_rxAppData_SemRelease, MarkSent,
       Save_GPS, AppRuns, AppDelays
  <2>2. QueuesOK' /\ FrameInv'
    BY <1>t, <2>1 DEF QueuesOK, FrameInv, FramesInOrder, OnlyNewFrames,
       HandledOnceInOrder, rxVars, netVars
  <2> USE <1>t, TimingAssumption, BoundAssumption
  <2>3. ASSUME NEW p \in {Other} \cup Records, Protocol_End(p)
        PROVE  ValuesOK' /\ ReaderArmed'
    BY <2>1, <2>3 DEF Protocol_End, AppRuns, ValuesOK, ReaderArmed,
       mailVars, ringVars, netVars, rxVars, gsmVars
  <2>4. ASSUME NoPacket PROVE ValuesOK' /\ ReaderArmed'
    BY <2>1, <2>4 DEF NoPacket, AppRuns, AppDelays, ValuesOK, ReaderArmed,
       mailVars, ringVars, netVars, rxVars, gsmVars
  <2>5. ASSUME Gsm_rxAppData_SemRelease PROVE ValuesOK' /\ ReaderArmed'
    BY <2>1, <2>5 DEF Gsm_rxAppData_SemRelease, AppRuns, AppDelays, ValuesOK,
       ReaderArmed, ringVars, netVars, rxVars, gsmVars
  <2>6. ASSUME MarkSent PROVE ValuesOK' /\ ReaderArmed'
    BY <2>1, <2>6 DEF MarkSent, AppRuns, AppDelays, ValuesOK, ReaderArmed,
       mailVars, netVars, rxVars, gsmVars
  <2>7. ASSUME NEW n \in {0, 1}, Save_GPS(n)
        PROVE  ValuesOK' /\ ReaderArmed'
    BY <2>1, <2>7 DEF Save_GPS, AppRuns, AppDelays, ValuesOK, ReaderArmed,
       mailVars, netVars, rxVars, gsmVars
  <2> QED
    BY <1>4, <2>2, <2>3, <2>4, <2>5, <2>6, <2>7 DEF StepInv
<1> QED
  BY <1>1, <1>2, <1>3, <1>4 DEF AppStep

\* Ticks, timers, the modem and the centre.
LEMMA TypeSurroundings == StepInv /\ (Surroundings \/ UNCHANGED vars) => StepInv'
<1> SUFFICES ASSUME StepInv, Surroundings \/ UNCHANGED vars PROVE StepInv'
  OBVIOUS
<1>t. ValuesOK /\ QueuesOK /\ ReaderArmed /\ FrameInv
  BY DEF StepInv
<1>1. CASE Tick \/ CHK_ReadCycle_status \/ AckTimeout \/ ModemFails \/ LinkChange
           \/ UNCHANGED vars
  <2>1. /\ UNCHANGED <<handled, UDP_HEX_Rx, appPc, packet, GPRS_info, rxVars, gsmPc,
                       lines, frames, transmitted, cycle_write, cycle_read>>
    BY <1>1 DEF Tick, CHK_ReadCycle_status, AckTimeout, ModemFails, LinkChange,
       vars, appVars, gsmVars, mailVars, ringVars, netVars
  <2>2. /\ appTimer' \in Nat /\ gsmTimer' \in Nat
        /\ ReadCycle_status' \in {"Idle", "RdytoSD", "SdOver"}
        /\ ReaderArmed'
    BY <1>1, <1>t, <2>1 DEF Tick, GsmWaits, CHK_ReadCycle_status, AckTimeout,
       ModemFails, LinkChange, vars, appVars, gsmVars, ringVars, ValuesOK, ReaderArmed
  <2>3. modem' \in Seq(Packets)
    <3>1. modem' = modem \/ (modem # <<>> /\ modem' = Tail(modem))
      BY <1>1 DEF Tick, CHK_ReadCycle_status, AckTimeout, ModemFails, LinkChange,
         vars, netVars
    <3> QED
      BY <1>t, <3>1, SeqFacts DEF QueuesOK
  <2>4. ValuesOK' /\ QueuesOK' /\ FrameInv'
    BY <1>t, <2>1, <2>2, <2>3 DEF ValuesOK, QueuesOK, FrameInv, FramesInOrder,
       OnlyNewFrames, HandledOnceInOrder, rxVars
  <2> QED
    BY <2>2, <2>4 DEF StepInv
<1>2. CASE ModemSends \/ ModemError \/ CentreSends
  <2>1. PICK l \in -1 .. MaxFrames :
          /\ GSM_RxHandler(l)
          /\ \/ ~IsFrame(l) /\ frames' = frames
             \/ l = frames + 1 /\ frames' = frames + 1
    <3>1. CASE ModemSends
      BY <3>1, BoundAssumption DEF ModemSends
    <3>2. CASE ModemError
      BY <3>2, BoundAssumption DEF ModemError
    <3>3. CASE CentreSends
      BY <1>t, <3>3, BoundAssumption DEF CentreSends, ValuesOK
    <3> QED BY <1>2, <3>1, <3>2, <3>3
  <2>2. UNCHANGED <<appVars, gsmVars, mailVars, rxVars, ringVars, online>>
    BY <1>2 DEF ModemSends, ModemError, CentreSends
  <2>3. /\ lines' \in Seq(-1 .. MaxFrames)
        /\ \/ lines' = lines
           \/ /\ Len(lines') = Len(lines) + 1
              /\ lines'[Len(lines) + 1] = l
              /\ \A i \in 1 .. Len(lines) : lines'[i] = lines[i]
    BY <1>t, <2>1, LineQueued
  <2>4. modem' \in Seq(Packets)
    <3>1. modem' = modem \/ (modem # <<>> /\ modem' = Tail(modem))
      BY <1>2 DEF ModemSends, ModemError, CentreSends
    <3> QED
      BY <1>t, <3>1, SeqFacts DEF QueuesOK
  <2>5. frames' \in 0 .. MaxFrames /\ transmitted' \subseteq Records
    <3>1. frames' \in 0 .. MaxFrames
      BY <1>t, <2>1, BoundAssumption DEF ValuesOK
    <3>2. \/ transmitted' = transmitted
          \/ transmitted' = transmitted \cup ({Head(modem)} \cap Records)
      BY <1>2 DEF ModemSends, ModemError, CentreSends
    <3>3. transmitted' \subseteq Records
      BY <1>t, <3>2, Zenon DEF ValuesOK
    <3> QED
      BY <3>1, <3>3
  <2>6. ValuesOK' /\ QueuesOK' /\ ReaderArmed'
    BY <1>t, <2>2, <2>3, <2>4, <2>5 DEF ValuesOK, QueuesOK, ReaderArmed, appVars,
       gsmVars, mailVars, rxVars, ringVars
  <2>7. OnlyNewFrames' /\ HandledOnceInOrder'
    BY <1>t, <2>2 DEF FrameInv, OnlyNewFrames, HandledOnceInOrder, appVars, rxVars
  <2>8. FramesInOrder'
    <3>1. /\ Len(lines) \in Nat /\ Len(lines') \in Nat
          /\ \A i \in 1 .. Len(lines) : lines[i] \in -1 .. MaxFrames
      BY <1>t, <2>3, SeqFacts, LenProperties DEF QueuesOK
    <3>2. /\ GSM_HEX' = GSM_HEX /\ (Receive_DataFlag' <=> Receive_DataFlag)
          /\ frames \in Nat /\ frames' \in Nat /\ frames <= frames' /\ GSM_HEX \in Nat
      BY <1>t, <2>1, <2>2, <2>5, BoundAssumption DEF rxVars, ValuesOK
    <3>3. CASE lines' = lines
      BY <1>t, <3>1, <3>2, <3>3 DEF FrameInv, FramesInOrder
    <3>4. CASE /\ Len(lines') = Len(lines) + 1
               /\ lines'[Len(lines) + 1] = l
               /\ \A i \in 1 .. Len(lines) : lines'[i] = lines[i]
      <4>1. IsFrame(l) => l = frames + 1 /\ frames' = frames + 1
        BY <2>1
      <4>2. /\ \A i \in 1 .. Len(lines) :
                 IsFrame(lines[i]) => GSM_HEX < lines[i] /\ lines[i] <= frames
            /\ GSM_HEX <= frames /\ (Receive_DataFlag => GSM_HEX > 0)
        BY <1>t DEF FrameInv, FramesInOrder
      <4>3. ASSUME NEW i \in 1 .. Len(lines'), IsFrame(lines'[i])
            PROVE  GSM_HEX' < lines'[i] /\ lines'[i] <= frames'
        <5>1. CASE i = Len(lines) + 1
          BY <3>2, <3>4, <4>1, <4>2, <4>3, <5>1
        <5>2. CASE i # Len(lines) + 1
          <6>1. i \in 1 .. Len(lines) /\ lines'[i] = lines[i]
            BY <3>1, <3>4, <5>2
          <6> QED BY <3>1, <3>2, <4>2, <4>3, <6>1
        <5> QED BY <5>1, <5>2
      <4>4. ASSUME NEW i \in 1 .. Len(lines'), NEW j \in 1 .. Len(lines'), i < j,
                   IsFrame(lines'[i]), IsFrame(lines'[j])
            PROVE  lines'[i] < lines'[j]
        <5>1. i \in 1 .. Len(lines) /\ lines'[i] = lines[i] /\ lines[i] \in Nat
          BY <3>1, <3>4, <4>4
        <5>2. CASE j = Len(lines) + 1
          BY <3>2, <3>4, <4>1, <4>2, <4>4, <5>1, <5>2
        <5>3. CASE j # Len(lines) + 1
          <6>1. j \in 1 .. Len(lines) /\ lines'[j] = lines[j]
            BY <3>1, <3>4, <5>3
          <6> QED BY <1>t, <4>4, <5>1, <6>1 DEF FrameInv, FramesInOrder
        <5> QED BY <5>2, <5>3
      <4>5. GSM_HEX' <= frames' /\ (Receive_DataFlag' => GSM_HEX' > 0)
        BY <3>2, <4>2
      <4> QED BY <4>3, <4>4, <4>5 DEF FramesInOrder
    <3> QED
      BY <2>3, <3>3, <3>4
  <2> QED
    BY <2>6, <2>7, <2>8 DEF StepInv, FrameInv
<1> QED
  BY <1>1, <1>2 DEF Surroundings

\* Both theorems below rest on this one.
LEMMA Inductive == Spec => [](FlagsOK /\ StepInv)
<1>1. StepInv /\ [Next]_vars => StepInv'
  BY TypeGsm, TypeApp, TypeSurroundings DEF Next
<1>2. Init => StepInv
  BY TypeInit DEF StepInv
<1> QED
  BY FlagsInit, FlagsStep, <1>1, <1>2, PTL DEF Spec

\* The variables keep their types; in particular the read pointer never passes
\* the write pointer, whatever report of the modem comes when.
THEOREM MailTypes == Spec => []TypeOK
<1>1. FlagsOK /\ StepInv => TypeOK
  BY DEF StepInv, TypeOK
<1> QED
  BY Inductive, <1>1, PTL

\* Frames of the centre are handled in order and none is handled twice.
THEOREM FramesHandledOnce == Spec => []HandledOnceInOrder
<1>1. StepInv => HandledOnceInOrder
  BY DEF StepInv, FrameInv
<1> QED
  BY Inductive, <1>1, PTL
=============================================================================
