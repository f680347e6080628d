--------------------------- MODULE Replies_proofs ---------------------------
(***************************************************************************)
(* Proofs about the answers of the terminal, for every number of frames,   *)
(* of packets of its own and of faults.                                    *)
(*                                                                         *)
(* The four properties hold together.  That a common answer names a new    *)
(* frame (AnswersInOrder) needs that the flag of the answer is only set    *)
(* while the number in Centre_FloatID has not been named (Fresh); that it  *)
(* covers the last command (CommandAnswered) needs that Centre_FloatID is  *)
(* not older than that command.  OwnNumber rests on the numbers that are   *)
(* kept with a question and with a collection (OwnKept).                   *)
(***************************************************************************)
EXTENDS Replies, TLAPS

\* While the flag of the common answer is set, the answer is still owed: to a
\* frame that no answer has named, and that is the last command or came later.
Fresh ==
    f_CentreCMDack # 0 =>
        Centre_FloatID > named /\ Centre_FloatID >= command

\* Every answer names a new frame, so there are no more answers than frames.
Counted == answers <= named

\* The numbers kept with a question and with a collection.
OwnKept ==
    /\ question # None => question \in questions
    /\ ASK_SdFlag # 0 => ASK_floatID \in questions
    /\ effic => ASK_floatID \in questions
    /\ "0700" \in flags => Float_ID \in collects

\* The type invariant in parts.
BoolOK ==
    /\ Receive_DataFlag \in BOOLEAN /\ effic \in BOOLEAN /\ upload \in BOOLEAN
    /\ online \in BOOLEAN /\ loggedIn \in BOOLEAN /\ DataLink_EndFlag \in BOOLEAN
    /\ SleepState \in BOOLEAN /\ resetDue \in BOOLEAN /\ forgotten \in BOOLEAN

PacketOK == packet \in [kind : Packets, number : 0 .. frames]

AddressesOK ==
    /\ latest \in 0 .. frames /\ dialled \in 0 .. frames

RestOK ==
    /\ appPc \in {"rx", "tx"}
    /\ frames \in Nat /\ Centre_FloatID \in 0 .. frames
    /\ f_CentreCMDack \in {0, 1, Redial, Reset, Close} /\ flags \subseteq Flags
    /\ ASK_SdFlag \in 0 .. 2 /\ ASK_floatID \in 0 .. frames
    /\ question \in 0 .. frames /\ Float_ID \in 0 .. frames
    /\ CallState \in {"Idle", "rdytoDialLis", "Dialing"}
    /\ own \in 0 .. MaxOwn /\ faults \in 0 .. MaxFaults
    /\ AddressesOK
    /\ questions \subseteq 1 .. frames /\ collects \subseteq 1 .. frames
    /\ answers \in 0 .. frames /\ named \in 0 .. frames
    /\ command \in 0 .. frames

\* The inductive invariant.
IInv ==
    /\ BoolOK /\ PacketOK /\ RestOK
    /\ Fresh /\ Counted /\ CommandAnswered /\ OwnKept /\ OwnNumber

LEMMA TypeParts == TypeOK <=> BoolOK /\ PacketOK /\ RestOK
BY Zenon DEF TypeOK, BoolOK, PacketOK, RestOK, AddressesOK

LEMMA PacketKinds ==
    Packets = {"0102", "0002", "0201", "0302", "0805", "0500", "0700", "0800",
               "0900", "0802", "0701", "0001", "0104"}
BY DEF Packets, Rank

\* The number a packet names is that of a frame, and for the two that keep
\* theirs, of the right kind.
LEMMA Numbers ==
    ASSUME NEW k, IInv, Due(k)
    PROVE  /\ NumberIn(k) \in 0 .. frames
           /\ k = "0302" => NumberIn(k) \in questions
           /\ k = "0700" => NumberIn(k) \in collects
BY DEF IInv, RestOK, OwnKept, NumberIn, Due, None

LEMMA InitIInv == Init => IInv
<1> SUFFICES ASSUME Init PROVE IInv
  OBVIOUS
<1>1. BoolOK
  BY Zenon DEF Init, BoolOK
<1>2. PacketOK
  BY DEF Init, PacketOK, Packets, Rank, None
<1>3. RestOK
  BY RepliesAssumption
     DEF Init, RestOK, AddressesOK, None, Redial, Reset, Close, Flags
<1>4. Fresh /\ Counted /\ CommandAnswered /\ OwnKept /\ OwnNumber
  BY DEF Init, Fresh, Counted, CommandAnswered, OwnKept, OwnNumber, None
<1> QED BY <1>1, <1>2, <1>3, <1>4 DEF IInv

\* A record stays one when more frames are known.
LEMMA PacketGrows ==
    ASSUME PacketOK, frames \in Nat, packet' = packet, frames' = frames + 1
    PROVE  PacketOK'
BY DEF PacketOK

\* So do those of the frames that set an address.
LEMMA AddressesGrow ==
    ASSUME AddressesOK, frames \in Nat, frames' = frames + 1,
           dialled' = dialled, latest' \in {latest, This}
    PROVE  AddressesOK'
BY DEF AddressesOK, This

\* A frame that wants the common answer.
LEMMA CommandKeeps ==
    ASSUME IInv, Received, NEW f \in {1, Redial, Reset, Close}, Wants(f),
           UNCHANGED <<flags, Float_ID, loggedIn, collects>>,
           CallState' \in {CallState, "rdytoDialLis"},
           latest' \in {latest, This},
           \/ UNCHANGED <<askVars, questions>>
           \/ /\ ASK_SdFlag' = 1 /\ ASK_floatID' = This /\ question' = This
              /\ questions' = questions \cup {This}
    PROVE  IInv'
<1> USE DEF IInv
<1>1. BoolOK'
  <2>1. forgotten' \in BOOLEAN
    BY DEF Wants
  <2> QED BY <2>1 DEF BoolOK, Received
<1>2. PacketOK'
  BY PacketGrows DEF RestOK, Received, This
<1>3. RestOK'
  <2>1. questions' \subseteq 1 .. frames' /\ collects' \subseteq 1 .. frames'
    <3>1. frames \in Nat /\ frames' = frames + 1
      BY DEF RestOK, Received, This
    <3>2. questions \subseteq 1 .. frames' /\ collects \subseteq 1 .. frames'
      BY <3>1 DEF RestOK
    <3>3. This \in 1 .. frames'
      BY <3>1 DEF This
    <3>4. questions' \in {questions, questions \cup {This}}
      OBVIOUS
    <3>5. collects' \in {collects, collects \cup {This}}
      OBVIOUS
    <3> QED BY <3>2, <3>3, <3>4, <3>5
  <2>2. /\ ASK_SdFlag' \in 0 .. 2 /\ ASK_floatID' \in 0 .. frames'
        /\ question' \in 0 .. frames' /\ Float_ID' \in 0 .. frames'
    BY DEF RestOK, Received, This, askVars
  <2>3. /\ AddressesOK' /\ answers' \in 0 .. frames'
        /\ named' \in 0 .. frames' /\ command' \in 0 .. frames'
    <3>0. frames \in Nat /\ frames' = frames + 1
      BY DEF RestOK, Received, This
    <3>1. AddressesOK'
      BY <3>0, AddressesGrow DEF RestOK, Received
    <3>2. answers' \in 0 .. frames'
      BY <3>0 DEF RestOK, Received
    <3>3. named' \in 0 .. frames' /\ command' \in 0 .. frames'
      BY <3>0 DEF RestOK, Received, Wants, This
    <3> QED BY <3>1, <3>2, <3>3
  <2>4. /\ frames' \in Nat /\ Centre_FloatID' \in 0 .. frames'
        /\ own' \in 0 .. MaxOwn /\ faults' \in 0 .. MaxFaults
    BY DEF RestOK, Received, This
  <2>5. /\ appPc' \in {"rx", "tx"} /\ flags' \subseteq Flags
        /\ f_CentreCMDack' \in {0, 1, Redial, Reset, Close}
        /\ CallState' \in {"Idle", "rdytoDialLis", "Dialing"}
    BY DEF RestOK, Received, Wants
  <2> QED BY <2>1, <2>2, <2>3, <2>4, <2>5 DEF RestOK
<1>4. Fresh' /\ Counted' /\ CommandAnswered'
  BY DEF RestOK, Received, Wants, This, Fresh, Counted, CommandAnswered, None,
         Redial, Reset, Close
<1>5. OwnKept' /\ OwnNumber'
  BY DEF OwnKept, OwnNumber, Received, askVars
<1> QED BY <1>1, <1>2, <1>3, <1>4, <1>5

\* A frame that does not.
LEMMA NoCommandKeeps ==
    ASSUME IInv, Received, WantsNothing,
           UNCHANGED <<askVars, CallState, latest, questions>>,
           loggedIn' \in BOOLEAN,
           \/ /\ flags' \in SUBSET Flags /\ ("0700" \in flags' => "0700" \in flags)
              /\ UNCHANGED <<Float_ID, collects>>
           \/ /\ flags' \in SUBSET Flags
              /\ Float_ID' = This /\ collects' = collects \cup {This}
    PROVE  IInv'
<1> USE DEF IInv
<1>1. BoolOK'
  BY DEF BoolOK, Received, WantsNothing
<1>2. PacketOK'
  BY PacketGrows DEF RestOK, Received, This
<1>3. RestOK'
  <2>1. questions' \subseteq 1 .. frames' /\ collects' \subseteq 1 .. frames'
    <3>1. frames \in Nat /\ frames' = frames + 1
      BY DEF RestOK, Received, This
    <3>2. questions \subseteq 1 .. frames' /\ collects \subseteq 1 .. frames'
      BY <3>1 DEF RestOK
    <3>3. This \in 1 .. frames'
      BY <3>1 DEF This
    <3>4. questions' \in {questions, questions \cup {This}}
      OBVIOUS
    <3>5. collects' \in {collects, collects \cup {This}}
      OBVIOUS
    <3> QED BY <3>2, <3>3, <3>4, <3>5
  <2>2. /\ ASK_SdFlag' \in 0 .. 2 /\ ASK_floatID' \in 0 .. frames'
        /\ question' \in 0 .. frames' /\ Float_ID' \in 0 .. frames'
    BY DEF RestOK, Received, This, askVars
  <2>3. /\ AddressesOK' /\ answers' \in 0 .. frames'
        /\ named' \in 0 .. frames' /\ command' \in 0 .. frames'
    <3>0. frames \in Nat /\ frames' = frames + 1
      BY DEF RestOK, Received, This
    <3>1. AddressesOK'
      BY <3>0, AddressesGrow DEF RestOK, Received
    <3>2. answers' \in 0 .. frames'
      BY <3>0 DEF RestOK, Received
    <3>3. named' \in 0 .. frames' /\ command' \in 0 .. frames'
      BY <3>0 DEF RestOK, Received, WantsNothing, This
    <3> QED BY <3>1, <3>2, <3>3
  <2>4. /\ frames' \in Nat /\ Centre_FloatID' \in 0 .. frames'
        /\ own' \in 0 .. MaxOwn /\ faults' \in 0 .. MaxFaults
    BY DEF RestOK, Received, This
  <2>5. /\ appPc' \in {"rx", "tx"} /\ flags' \subseteq Flags
        /\ f_CentreCMDack' \in {0, 1, Redial, Reset, Close}
        /\ CallState' \in {"Idle", "rdytoDialLis", "Dialing"}
    BY DEF RestOK, Received, WantsNothing
  <2> QED BY <2>1, <2>2, <2>3, <2>4, <2>5 DEF RestOK
<1>4. Fresh' /\ Counted' /\ CommandAnswered'
  BY DEF RestOK, Received, WantsNothing, This, Fresh, Counted, CommandAnswered
<1>5. OwnKept' /\ OwnNumber'
  BY DEF OwnKept, OwnNumber, Received, askVars, This
<1> QED BY <1>1, <1>2, <1>3, <1>4, <1>5

\* The steps that handle no frame and do not send the common answer.
LEMMA QuietKeeps ==
    ASSUME IInv, BoolOK', PacketOK', OwnNumber',
           UNCHANGED <<Centre_FloatID, f_CentreCMDack, frames, questions,
                       collects, answers, named, command>>,
           UNCHANGED <<question, Float_ID>>, AddressesOK',
           appPc' \in {"rx", "tx"},
           CallState' \in {"Idle", "rdytoDialLis", "Dialing"},
           own' \in 0 .. MaxOwn, faults' \in 0 .. MaxFaults,
           flags' \subseteq Flags, "0700" \in flags' => "0700" \in flags,
           ASK_SdFlag' \in 0 .. 2, ASK_floatID' \in {ASK_floatID, question},
           ASK_SdFlag' # 0 \/ effic' => ASK_floatID' \in questions
    PROVE  IInv'
<1> USE DEF IInv
<1>1. RestOK'
  <2>1. ASK_floatID' \in 0 .. frames'
    BY DEF RestOK
  <2> QED BY <2>1 DEF RestOK
<1>2. Fresh' /\ Counted' /\ CommandAnswered'
  BY DEF Fresh, Counted, CommandAnswered
<1>3. OwnKept'
  BY DEF OwnKept
<1> QED BY <1>1, <1>2, <1>3

\* A packet that is put together names a frame of the right kind.
LEMMA StuffKeeps ==
    ASSUME IInv, NEW k \in Packets, Stuff(k)
    PROVE  PacketOK' /\ OwnNumber'
<1>1. Due(k)
  BY DEF Stuff, First
<1>2. /\ NumberIn(k) \in 0 .. frames
      /\ k = "0302" => NumberIn(k) \in questions
      /\ k = "0700" => NumberIn(k) \in collects
  BY <1>1, Numbers
<1>3. packet' = [kind |-> k, number |-> NumberIn(k)]
  BY DEF Stuff
<1>4. frames' = frames /\ questions' = questions /\ collects' = collects
  BY DEF Stuff
<1>5. PacketOK'
  BY <1>2, <1>3, <1>4 DEF PacketOK
<1>6. OwnNumber'
  BY <1>2, <1>3, <1>4 DEF OwnNumber
<1> QED BY <1>5, <1>6

\* A packet whose flag is cleared, and the driver's choice.
LEMMA FlaggedKeeps ==
    ASSUME IInv, NEW k \in Packets \ {"0001", "0302"}, SendFlagged(k)
    PROVE  IInv'
<1> USE DEF IInv
<1>1. Stuff(k) /\ flags' = flags \ {k}
  BY DEF SendFlagged
<1>2. PacketOK' /\ OwnNumber'
  BY <1>1, StuffKeeps
<1>3. BoolOK'
  BY DEF BoolOK, SendFlagged, Stuff
<1>4. ASK_SdFlag' # 0 \/ effic' => ASK_floatID' \in questions
  BY DEF OwnKept, SendFlagged, Stuff
<1>5. flags' \subseteq Flags /\ ("0700" \in flags' => "0700" \in flags)
  BY <1>1 DEF RestOK
<1>6. AddressesOK'
  BY <1>1 DEF Stuff, RestOK, AddressesOK
<1> QED
  BY <1>2, <1>3, <1>4, <1>5, <1>6, QuietKeeps DEF SendFlagged, Stuff, RestOK

LEMMA SendChoiceKeeps ==
    ASSUME IInv, SendChoice
    PROVE  IInv'
<1> USE DEF IInv
<1>1. PacketOK' /\ OwnNumber'
  BY StuffKeeps, PacketKinds DEF SendChoice
<1>2. BoolOK'
  BY DEF BoolOK, SendChoice, Stuff
<1>3. ASK_SdFlag' # 0 \/ effic' => ASK_floatID' \in questions
  BY DEF OwnKept, SendChoice, Stuff
<1>4. AddressesOK'
  BY DEF SendChoice, Stuff, RestOK, AddressesOK
<1> QED
  BY <1>1, <1>2, <1>3, <1>4, QuietKeeps DEF SendChoice, Stuff, RestOK

\* The common answer: its number is new, and covers the last command.
LEMMA AnswerKeeps ==
    ASSUME IInv, SendAnswer
    PROVE  IInv' /\ named' > named
<1> USE DEF IInv
<1>1. f_CentreCMDack # 0
  BY DEF SendAnswer, Stuff, First, Due
<1>2. Centre_FloatID > named /\ Centre_FloatID >= command
  BY <1>1 DEF Fresh
<1>3. /\ frames' = frames /\ Centre_FloatID' = Centre_FloatID /\ command' = command
      /\ f_CentreCMDack' = 0 /\ answers' = answers + 1 /\ named' = Centre_FloatID
  BY DEF SendAnswer, Stuff
<1>4. PacketOK' /\ OwnNumber'
  BY StuffKeeps, PacketKinds DEF SendAnswer
<1>5. BoolOK'
  <2>1. DataLink_EndFlag' \in BOOLEAN /\ resetDue' \in BOOLEAN
    BY DEF SendAnswer
  <2> QED BY <2>1 DEF BoolOK, SendAnswer, Stuff
<1>6. Fresh' /\ Counted' /\ CommandAnswered' /\ named' > named
  BY <1>2, <1>3 DEF Fresh, Counted, CommandAnswered, RestOK
<1>7. answers' \in 0 .. frames' /\ named' \in 0 .. frames'
  BY <1>2, <1>3 DEF Counted, RestOK
<1>8. RestOK'
  <2>1. AddressesOK'
    BY DEF SendAnswer, Stuff, RestOK, AddressesOK
  <2> QED BY <1>3, <1>7, <2>1 DEF RestOK, SendAnswer, Stuff
<1>9. OwnKept'
  BY DEF OwnKept, SendAnswer, Stuff
<1> QED BY <1>4, <1>5, <1>6, <1>8, <1>9

\* The steps of the timers, the driver, the link and the centre.
LEMMA OthersKeep ==
    ASSUME IInv,
           \/ NoFrame \/ SendNothing \/ \E k \in OwnPackets : OwnPacket(k)
           \/ ShowQuestion \/ QuestionKey \/ UploadStarts \/ UploadEnds
           \/ CallEnds \/ End_Datalink \/ Connect \/ LinkLost \/ SleepOrWake
           \/ FrameArrives \/ UNCHANGED vars
    PROVE  IInv'
<1> USE DEF IInv
<1>1. packet' = packet /\ frames' = frames /\ questions' = questions
      /\ collects' = collects
  BY DEF NoFrame, SendNothing, OwnPacket, ShowQuestion, QuestionKey,
         UploadStarts, UploadEnds, CallEnds, End_Datalink, Connect, LinkLost,
         SleepOrWake, FrameArrives, vars, histVars
<1>2. PacketOK' /\ OwnNumber'
  BY <1>1 DEF PacketOK, OwnNumber
<1>3. UNCHANGED <<Centre_FloatID, f_CentreCMDack, answers, named, command>>
      /\ UNCHANGED <<question, Float_ID, latest>>
  BY DEF NoFrame, SendNothing, OwnPacket, ShowQuestion, QuestionKey,
         UploadStarts, UploadEnds, CallEnds, End_Datalink, Connect, LinkLost,
         SleepOrWake, FrameArrives, vars, histVars, askVars
<1> DEFINE Asks == ASK_SdFlag' # 0 \/ effic' => ASK_floatID' \in questions
           Free ==
             /\ appPc' \in {"rx", "tx"}
             /\ CallState' \in {"Idle", "rdytoDialLis", "Dialing"}
             /\ own' \in 0 .. MaxOwn /\ faults' \in 0 .. MaxFaults
             /\ dialled' \in {dialled, latest}
             /\ flags' \subseteq Flags /\ ("0700" \in flags' => "0700" \in flags)
             /\ ASK_SdFlag' \in 0 .. 2 /\ ASK_floatID' \in {ASK_floatID, question}
<1>4. BoolOK' /\ Asks /\ Free
  <2>1. CASE NoFrame
    <3>1. BoolOK'
      BY <2>1, Zenon DEF NoFrame, BoolOK, askVars, linkVars, histVars
    <3> QED BY <2>1, <3>1 DEF NoFrame, RestOK, OwnKept, askVars, linkVars, histVars
  <2>2. CASE SendNothing
    <3>1. BoolOK'
      BY <2>2, Zenon DEF SendNothing, BoolOK, askVars, linkVars, histVars
    <3> QED BY <2>2, <3>1 DEF SendNothing, RestOK, OwnKept, askVars, linkVars, histVars
  <2>3. CASE \E k \in OwnPackets : OwnPacket(k)
    <3>1. PICK k \in OwnPackets : OwnPacket(k)
      BY <2>3
    <3>2. k \in Flags /\ k # "0700"
      BY RepliesAssumption DEF Flags
    <3>3. own' \in 0 .. MaxOwn
      BY <3>1, RepliesAssumption DEF OwnPacket, RestOK
    <3> QED
      BY <3>1, <3>2, <3>3 DEF OwnPacket, BoolOK, RestOK, OwnKept, askVars,
                              linkVars, histVars
  <2>4. CASE ShowQuestion
    BY <2>4 DEF ShowQuestion, BoolOK, RestOK, OwnKept, linkVars, histVars
  <2>5. CASE QuestionKey
    <3>1. own' \in 0 .. MaxOwn
      BY <2>5, RepliesAssumption DEF QuestionKey, RestOK
    <3>2. BoolOK'
      BY <2>5 DEF QuestionKey, BoolOK, linkVars, histVars
    <3> QED BY <2>5, <3>1, <3>2 DEF QuestionKey, RestOK, OwnKept, linkVars
  <2>6. CASE UploadStarts
    <3>1. faults' \in 0 .. MaxFaults
      BY <2>6, RepliesAssumption DEF UploadStarts, RestOK
    <3> QED
      BY <2>6, <3>1 DEF UploadStarts, BoolOK, RestOK, OwnKept, askVars, linkVars,
                        histVars
  <2>7. CASE UploadEnds
    <3>1. BoolOK'
      BY <2>7, Zenon DEF UploadEnds, BoolOK, askVars, linkVars, histVars
    <3> QED BY <2>7, <3>1 DEF UploadEnds, RestOK, OwnKept, askVars, linkVars, histVars
  <2>8. CASE CallEnds
    BY <2>8 DEF CallEnds, BoolOK, RestOK, OwnKept, askVars, linkVars, histVars
  <2>9. CASE End_Datalink
    <3>1. BoolOK'
      BY <2>9, Zenon DEF End_Datalink, BoolOK, askVars, histVars
    <3> QED BY <2>9, <3>1 DEF End_Datalink, RestOK, OwnKept, askVars, histVars
  <2>10. CASE Connect
    BY <2>10 DEF Connect, BoolOK, RestOK, OwnKept, askVars
  <2>11. CASE LinkLost
    <3>1. faults' \in 0 .. MaxFaults
      BY <2>11, RepliesAssumption DEF LinkLost, RestOK
    <3>2. BoolOK'
      BY <2>11, Zenon DEF LinkLost, BoolOK, askVars, histVars
    <3> QED BY <2>11, <3>1, <3>2 DEF LinkLost, RestOK, OwnKept, askVars, histVars
  <2>12. CASE FrameArrives
    BY <2>12 DEF FrameArrives, BoolOK, RestOK, OwnKept, askVars, linkVars, histVars
  <2>13. CASE SleepOrWake
    <3>1. faults' \in 0 .. MaxFaults
      BY <2>13, RepliesAssumption DEF SleepOrWake, RestOK
    <3>2. BoolOK'
      BY <2>13 DEF SleepOrWake, BoolOK, askVars, linkVars, histVars
    <3> QED
      BY <2>13, <3>1, <3>2 DEF SleepOrWake, RestOK, OwnKept, askVars, linkVars,
                               histVars
  <2>14. CASE UNCHANGED vars
    BY <2>14 DEF vars, BoolOK, RestOK, OwnKept, askVars, linkVars, histVars
  <2> QED
    BY <2>1, <2>2, <2>3, <2>4, <2>5, <2>6, <2>7, <2>8, <2>9, <2>10, <2>11, <2>12,
       <2>13, <2>14
<1>5. AddressesOK'
  BY <1>1, <1>3, <1>4 DEF RestOK, AddressesOK
<1> QED BY <1>1, <1>2, <1>3, <1>4, <1>5, QuietKeeps

\* A restart forgets what was due, and the last command with it.
LEMMA StartKeeps ==
    ASSUME IInv, App808_tick_counter \/ PowerCut
    PROVE  IInv'
<1> USE DEF IInv
<1>1. Starts
  BY DEF App808_tick_counter, PowerCut
<1>2. BoolOK'
  BY <1>1 DEF Starts, BoolOK
<1>3. PacketOK' /\ OwnNumber'
  BY <1>1 DEF Starts, PacketOK, OwnNumber
<1>4. faults' \in 0 .. MaxFaults
  BY RepliesAssumption DEF App808_tick_counter, PowerCut, RestOK
<1>5. RestOK'
  BY <1>1, <1>4 DEF Starts, RestOK, AddressesOK, None
<1>6. Fresh' /\ Counted' /\ CommandAnswered' /\ OwnKept'
  BY <1>1 DEF Starts, Fresh, Counted, CommandAnswered, OwnKept, None
<1> QED BY <1>2, <1>3, <1>5, <1>6

\* One case for each kind of frame.
LEMMA FrameKeeps ==
    ASSUME IInv, TCP_RX_Process
    PROVE  IInv'
<1>1. CASE Command
  BY <1>1, CommandKeeps DEF Command
<1>2. CASE CallBack
  BY <1>2, CommandKeeps DEF CallBack
<1>3. Kept \in {1, Redial, Reset, Close}
  BY DEF Kept, IInv, RestOK
<1>4. CASE SetParameters
  BY <1>3, <1>4, CommandKeeps DEF SetParameters
<1>5. CASE SetAddress
  BY <1>5, CommandKeeps DEF SetAddress
<1>6. CASE Control
  <2>1. PICK f \in {Close, Reset, Kept} : Wants(f)
    BY <1>6 DEF Control
  <2>2. f \in {1, Redial, Reset, Close}
    BY <1>3
  <2> QED BY <1>6, <2>1, <2>2, CommandKeeps DEF Control
<1>7. CASE Ask
  BY <1>7, CommandKeeps DEF Ask
<1>8. CASE \E k \in {"0201", "0104", "0500", "0802"} : Query(k)
  <2>1. PICK k \in {"0201", "0104", "0500", "0802"} : Query(k)
    BY <1>8
  <2>2. flags' \in SUBSET Flags /\ ("0700" \in flags' => "0700" \in flags)
    BY <2>1 DEF Query, IInv, RestOK, Flags
  <2>3. loggedIn' \in BOOLEAN
    BY <2>1 DEF Query, IInv, BoolOK
  <2> QED BY <2>1, <2>2, <2>3, NoCommandKeeps DEF Query
<1>9. CASE Collect
  <2>1. flags' \in SUBSET Flags
    BY <1>9 DEF Collect, IInv, RestOK, Flags
  <2>2. loggedIn' \in BOOLEAN
    BY <1>9 DEF Collect, IInv, BoolOK
  <2> QED BY <1>9, <2>1, <2>2, NoCommandKeeps DEF Collect
<1>10. CASE NoCommand
  <2>1. flags' \in SUBSET Flags /\ flags' = flags
    BY <1>10 DEF NoCommand, IInv, RestOK
  <2>2. loggedIn' \in BOOLEAN
    BY <1>10 DEF NoCommand, IInv, BoolOK
  <2> QED BY <1>10, <2>1, <2>2, NoCommandKeeps DEF NoCommand
<1>11. CASE CallRefused
  <2>1. flags' \in SUBSET Flags /\ flags' = flags
    BY <1>11 DEF CallRefused, IInv, RestOK
  <2>2. loggedIn' \in BOOLEAN
    BY <1>11 DEF CallRefused, IInv, BoolOK
  <2> QED BY <1>11, <2>1, <2>2, NoCommandKeeps DEF CallRefused
<1> QED
  BY <1>1, <1>2, <1>4, <1>5, <1>6, <1>7, <1>8, <1>9, <1>10, <1>11
  DEF TCP_RX_Process

\* Every step keeps the invariant, and a step that answers names a new frame.
LEMMA StepKeeps ==
    ASSUME IInv, [Next]_vars
    PROVE  IInv' /\ (answers' # answers => named' > named)
<1>1. CASE TCP_RX_Process
  <2>1. answers' = answers
    BY <1>1 DEF TCP_RX_Process, Command, CallBack, CallRefused, SetParameters,
                SetAddress, Control, Ask, Query, Collect, NoCommand, Received
  <2> QED BY <1>1, <2>1, FrameKeeps
<1>2. CASE \E k \in Packets \ {"0001", "0302"} : SendFlagged(k)
  BY <1>2, FlaggedKeeps DEF SendFlagged
<1>3. CASE SendChoice
  BY <1>3, SendChoiceKeeps DEF SendChoice
<1>4. CASE SendAnswer
  BY <1>4, AnswerKeeps
<1>5. CASE \/ NoFrame \/ SendNothing \/ \E k \in OwnPackets : OwnPacket(k)
           \/ ShowQuestion \/ QuestionKey \/ UploadStarts \/ UploadEnds
           \/ CallEnds \/ End_Datalink \/ Connect \/ LinkLost \/ SleepOrWake
           \/ FrameArrives \/ UNCHANGED vars
  <2>1. answers' = answers
    BY <1>5 DEF NoFrame, SendNothing, OwnPacket, ShowQuestion, QuestionKey,
                UploadStarts, UploadEnds, CallEnds, End_Datalink, Connect,
                LinkLost, SleepOrWake, FrameArrives, vars, histVars
  <2> QED BY <1>5, <2>1, OthersKeep
<1>6. CASE App808_tick_counter \/ PowerCut
  <2>1. answers' = answers
    BY <1>6 DEF App808_tick_counter, PowerCut, Starts
  <2> QED BY <1>6, <2>1, StartKeeps
<1> QED
  BY <1>1, <1>2, <1>3, <1>4, <1>5, <1>6 DEF Next, Do_SendGPSReport_GPRS

LEMMA InvariantHolds == Spec => []IInv
<1>1. IInv /\ [Next]_vars => IInv'
  BY StepKeeps
<1> QED BY InitIInv, <1>1, PTL DEF Spec

\* The variables stay in their types: no step leaves a number beyond the
\* frames that came, or a value of f_CentreCMDack_0001H that
\* Do_SendGPSReport_GPRS does not know.
THEOREM RepliesTypes == Spec => []TypeOK
<1>1. IInv => TypeOK
  BY TypeParts DEF IInv
<1> QED BY InvariantHolds, <1>1, PTL

\* When no common answer is due, the last command that was carried out has been
\* answered (a 0x8400 that is refused is not answered), however uploads, calls, lost links and restarts delayed it.
THEOREM LastCommandAnswered == Spec => []CommandAnswered
<1>1. IInv => CommandAnswered
  BY DEF IInv
<1> QED BY InvariantHolds, <1>1, PTL

\* A driver's answer names a question, and the recorder's data the command
\* that collected them.
THEOREM OwnNumbersNamed == Spec => []OwnNumber
<1>1. IInv => OwnNumber
  BY DEF IInv
<1> QED BY InvariantHolds, <1>1, PTL

\* The common answers name frames in the order in which these came, each at
\* most once.
THEOREM AnswersNeverRepeat == Spec => AnswersInOrder
<1>1. IInv /\ [Next]_vars => [answers' # answers => named' > named]_vars
  BY StepKeeps
<1> QED BY InvariantHolds, <1>1, PTL DEF Spec, AnswersInOrder

=============================================================================
