------------------------------ MODULE Replies ------------------------------
(***************************************************************************)
(* What the terminal answers, and what it does after it has answered.      *)
(*                                                                         *)
(* In each of its rounds the app808 thread handles at most one frame of    *)
(* the centre (TCP_RX_Process) and then sends at most one packet           *)
(* (Do_SendGPSReport_GPRS).  A handler does not answer: it sets a flag,    *)
(* and the sender looks at the flags in a fixed order.  Only the last      *)
(* frame's number is kept, in Centre_FloatID, and most answers take the    *)
(* number they name from there when they are sent.  The flag of the        *)
(* common answer 0x0001 also says what follows it: a redial when the       *)
(* address of the centre was set, a reset, or an end of communication.     *)
(* While an upload runs, during a call and off line the answers wait.      *)
(*                                                                         *)
(* A frame is its number, from 1 on in the order in which they are         *)
(* handled; SendPath shows that each is handled once and in that order.    *)
(* Position reports, which have the lowest rank, are left to CycleStore.   *)
(* The terminal is registered; Session models how it becomes so.           *)
(***************************************************************************)
EXTENDS Integers, FiniteSets

CONSTANTS
    MaxFrames,   \* bound: frames of the centre
    MaxOwn,      \* bound: packets the terminal sends by itself
    MaxFaults,   \* bound: uploads, sleeps, link losses and power cuts
    OwnPackets   \* which packets it sends by itself

\* The packets, by rank: a smaller one is sent first.
Rank == [k \in {"0102", "0002", "0201", "0302", "0805", "0500", "0700", "0800",
                "0900", "0802", "0701", "0001", "0104"} |->
    CASE k = "0102" -> 1  [] k = "0002" -> 2  [] k = "0201" -> 3
      [] k = "0302" -> 4  [] k = "0805" -> 5  [] k = "0500" -> 6
      [] k = "0700" -> 7  [] k = "0800" -> 8  [] k = "0900" -> 9
      [] k = "0802" -> 10 [] k = "0701" -> 11 [] k = "0001" -> 12
      [] k = "0104" -> 13]

Packets == DOMAIN Rank

ASSUME RepliesAssumption ==
    /\ MaxFrames \in Nat /\ MaxOwn \in Nat /\ MaxFaults \in Nat
    /\ OwnPackets \subseteq {"0102", "0002", "0805", "0800", "0900", "0701"}

VARIABLES
    appPc,             \* "rx": looks for a frame, "tx": sends
    Receive_DataFlag,
    Centre_FloatID,    \* number of the last frame
    f_CentreCMDack,    \* f_CentreCMDack_0001H: 0, 1, or what follows
    flags,             \* the other packets whose flag is set
    ASK_SdFlag, ASK_floatID,   \* the question the terminal works on
    question,          \* number of the question in the flash, 0 if none
    effic,             \* the menu shows a question
    Float_ID,          \* Recode_Obj.Float_ID
    upload,            \* Media_transmittingFlag is 2
    CallState,
    online,            \* DataLink_Status
    loggedIn,          \* DEV_Login.Operate_enable is 2
    DataLink_EndFlag,
    SleepState,
    resetDue,          \* Systerm_Reset_counter was set to its maximum
    packet,            \* the last packet put together, and the number in it
    frames,            \* number of frames handled
    own, faults,       \* counters
    latest, dialled,   \* history: the last frame that set an address, and the
                       \* last one before the last connection
    questions, collects,   \* history: numbers of frames 0x8302, 0x8700
    answers, named,    \* history: common answers, and the number in the last
    command,           \* history: the last command since the start
    forgotten          \* history: the redial for it was forgotten

askVars  == <<ASK_SdFlag, ASK_floatID, question, effic>>
linkVars == <<online, loggedIn, DataLink_EndFlag, dialled>>
histVars == <<questions, collects, answers, named, command, forgotten>>
vars == <<appPc, Receive_DataFlag, Centre_FloatID, f_CentreCMDack, flags,
          askVars, Float_ID, upload, CallState, linkVars, SleepState, resetDue,
          latest, packet, frames, own, faults, histVars>>

Redial == 2      \* values of f_CentreCMDack_0001H, besides 0 and 1
Reset  == 3
Close  == 5
None   == 0

Init ==
    /\ appPc = "rx" /\ Receive_DataFlag = FALSE /\ Centre_FloatID = None
    /\ f_CentreCMDack = 0 /\ flags = {}
    /\ ASK_SdFlag = 0 /\ ASK_floatID = None /\ question = None /\ effic = FALSE
    /\ Float_ID = None /\ upload = FALSE /\ CallState = "Idle"
    /\ online = FALSE /\ loggedIn = FALSE /\ DataLink_EndFlag = FALSE
    /\ SleepState = FALSE /\ resetDue = FALSE
    /\ latest = None /\ dialled = None
    /\ packet = [kind |-> "0102", number |-> None]
    /\ frames = 0 /\ own = 0 /\ faults = 0
    /\ questions = {} /\ collects = {} /\ answers = 0 /\ named = None
    /\ command = None /\ forgotten = FALSE

-----------------------------------------------------------------------------
(* TCP_RX_Process                                                          *)

This == frames + 1

\* The head of a frame: its number is kept, whatever the frame is.
Received ==
    /\ appPc = "rx" /\ Receive_DataFlag
    /\ appPc' = "tx" /\ Receive_DataFlag' = FALSE
    /\ frames' = This /\ Centre_FloatID' = This
    /\ UNCHANGED <<effic, upload, online, DataLink_EndFlag, dialled,
                   SleepState, resetDue, packet, own, faults, answers, named>>

\* A command wants the common answer, and f tells what follows it.
Wants(f) ==
    /\ f_CentreCMDack' = f
    /\ command' = This
    /\ forgotten' = /\ f # Redial
                    /\ forgotten \/ (f_CentreCMDack = Redial /\ f = 1)

WantsNothing == UNCHANGED <<f_CentreCMDack, command, forgotten>>

\* Most commands: the answer is due, whatever was due before.
Command ==
    /\ Received /\ Wants(1)
    /\ UNCHANGED <<flags, askVars, Float_ID, CallState, loggedIn, latest,
                   questions, collects>>

\* 0x8400 for a call or for listening: the number is kept and will be called.
CallBack ==
    /\ Received /\ Wants(1)
    /\ CallState' = "rdytoDialLis"
    /\ UNCHANGED <<flags, askVars, Float_ID, loggedIn, latest, questions,
                   collects>>

\* 0x8400 without a body or of another kind: nothing is done, and no answer
\* is due for it.
CallRefused ==
    /\ Received /\ WantsNothing
    /\ UNCHANGED <<flags, askVars, Float_ID, CallState, loggedIn, latest,
                   questions, collects>>

\* The flag that 0x8103 and 0x8105 leave: not over one that is there.
Kept == IF f_CentreCMDack = 0 THEN 1 ELSE f_CentreCMDack

\* 0x8103 with settings that do not concern the link; 0x0048 is a number to
\* call.
SetParameters ==
    /\ Received /\ Wants(Kept)
    /\ CallState' \in {CallState, "rdytoDialLis"}
    /\ UNCHANGED <<flags, askVars, Float_ID, loggedIn, latest, questions,
                   collects>>

\* Mutant: the redial is not asked for.
SetAddressOnly ==
    /\ Received /\ Wants(Kept) /\ latest' = This
    /\ UNCHANGED <<flags, askVars, Float_ID, CallState, loggedIn, questions,
                   collects>>

\* 0x8103 with an address or a port of the centre.
SetAddress ==
    /\ Received /\ Wants(Redial) /\ latest' = This
    /\ UNCHANGED <<flags, askVars, Float_ID, CallState, loggedIn, questions,
                   collects>>

\* Mutant: only a control that is carried out is answered.
ControlKnown ==
    /\ Received
    /\ \E f \in {Close, Reset, f_CentreCMDack} : Wants(f)
    /\ UNCHANGED <<flags, askVars, Float_ID, CallState, loggedIn, latest,
                   questions, collects>>

\* Mutant: the flag is set to the control word.
ControlWord ==
    /\ Received
    /\ \E f \in 1 .. 7 : Wants(f)
    /\ UNCHANGED <<flags, askVars, Float_ID, CallState, loggedIn, latest,
                   questions, collects>>

\* 0x8105: end of communication, reset, or a control without effect.
Control ==
    /\ Received
    /\ \E f \in {Close, Reset, Kept} : Wants(f)
    /\ UNCHANGED <<flags, askVars, Float_ID, CallState, loggedIn, latest,
                   questions, collects>>

\* 0x8302: the question is kept with its number and stored.
Ask ==
    /\ Received /\ Wants(1)
    /\ ASK_SdFlag' = 1 /\ ASK_floatID' = This /\ question' = This
    /\ questions' = questions \cup {This}
    /\ UNCHANGED <<flags, Float_ID, CallState, loggedIn, latest, collects>>

\* 0x8201, 0x8104, 0x8500 and 0x8802 have answers of their own.
Query(k) ==
    /\ Received /\ WantsNothing
    /\ flags' = flags \cup {k}
    /\ UNCHANGED <<askVars, Float_ID, CallState, loggedIn, latest, questions,
                   collects>>

\* 0x8700 and 0x8701 keep the number.
Collect ==
    /\ Received /\ WantsNothing
    /\ flags' = flags \cup {"0700"} /\ Float_ID' = This
    /\ collects' = collects \cup {This}
    /\ UNCHANGED <<askVars, CallState, loggedIn, latest, questions>>

\* 0x8001, 0x8100, 0x8800, 0xFF02, a wrong check byte: nothing is answered.
\* The 0x8001 to a login logs the terminal in.
NoCommand ==
    /\ Received /\ WantsNothing
    /\ loggedIn' \in {loggedIn, TRUE}
    /\ UNCHANGED <<flags, askVars, Float_ID, CallState, latest, questions,
                   collects>>

TCP_RX_Process ==
    \/ Command \/ CallBack \/ CallRefused \/ SetParameters \/ SetAddress
    \/ Control \/ Ask
    \/ \E k \in {"0201", "0104", "0500", "0802"} : Query(k)
    \/ Collect \/ NoCommand

\* No frame has come, or what has come does not start like one.
NoFrame ==
    /\ appPc = "rx"
    /\ appPc' = "tx" /\ Receive_DataFlag' = FALSE
    /\ UNCHANGED <<Centre_FloatID, f_CentreCMDack, flags, askVars, Float_ID,
                   upload, CallState, linkVars, SleepState, resetDue, latest,
                   packet, frames, own, faults, histVars>>

-----------------------------------------------------------------------------
(* Do_SendGPSReport_GPRS                                                   *)

MaySend == online /\ CallState = "Idle"

Blocked == upload /\ loggedIn

\* What the sender would send if nothing came before it.
Due(k) ==
    CASE k = "0001" -> f_CentreCMDack # 0
      [] k = "0302" -> ASK_SdFlag = 2
      [] k = "0102" -> k \in flags /\ ~loggedIn
      [] k = "0002" -> k \in flags /\ ~SleepState
      [] k = "0800" -> k \in flags /\ loggedIn
      [] OTHER -> k \in flags

First(k) ==
    /\ Due(k) /\ ~Blocked
    /\ \A j \in Packets : Due(j) => Rank[k] <= Rank[j]

\* Mutant: the number of the last frame for the recorder's data, too.
NumberInLast(k) ==
    CASE k \in {"0001", "0201", "0104", "0802", "0805", "0700"} -> Centre_FloatID
      [] k = "0302" -> ASK_floatID
      [] OTHER -> None

\* The number that a packet names.  That of 0x0500 is never set.
NumberIn(k) ==
    CASE k \in {"0001", "0201", "0104", "0802", "0805"} -> Centre_FloatID
      [] k = "0302" -> ASK_floatID
      [] k = "0700" -> Float_ID
      [] OTHER -> None

Stuff(k) ==
    /\ appPc = "tx" /\ MaySend /\ First(k)
    /\ appPc' = "rx"
    /\ packet' = [kind |-> k, number |-> NumberIn(k)]
    /\ UNCHANGED <<Receive_DataFlag, Centre_FloatID, ASK_floatID, question,
                   effic, Float_ID, upload, CallState, online, loggedIn,
                   dialled, SleepState, latest, frames, own,
                   faults, questions, collects, command, forgotten>>

\* Mutant: the flag of a query stays set.
SendFlaggedKeeps(k) ==
    /\ Stuff(k)
    /\ flags' = IF k = "0201" THEN flags ELSE flags \ {k}
    /\ UNCHANGED <<f_CentreCMDack, ASK_SdFlag, DataLink_EndFlag, resetDue,
                   answers, named>>

\* A packet with a flag, which is cleared.
SendFlagged(k) ==
    /\ Stuff(k)
    /\ flags' = flags \ {k}
    /\ UNCHANGED <<f_CentreCMDack, ASK_SdFlag, DataLink_EndFlag, resetDue,
                   answers, named>>

\* The driver's answer to a question.
SendChoice ==
    /\ Stuff("0302")
    /\ ASK_SdFlag' = 0
    /\ UNCHANGED <<f_CentreCMDack, flags, DataLink_EndFlag, resetDue, answers,
                   named>>

\* Mutant: the flag stays set when nothing follows.
SendAnswerKeeps ==
    /\ Stuff("0001")
    /\ DataLink_EndFlag' = (DataLink_EndFlag \/ f_CentreCMDack \in {Redial, Close})
    /\ resetDue' = (resetDue \/ f_CentreCMDack = Reset)
    /\ f_CentreCMDack' = IF f_CentreCMDack = 1 THEN 1 ELSE 0
    /\ answers' = answers + 1 /\ named' = Centre_FloatID
    /\ UNCHANGED <<flags, ASK_SdFlag>>

\* The common answer, and what follows it.
SendAnswer ==
    /\ Stuff("0001")
    /\ DataLink_EndFlag' = (DataLink_EndFlag \/ f_CentreCMDack \in {Redial, Close})
    /\ resetDue' = (resetDue \/ f_CentreCMDack = Reset)
    /\ f_CentreCMDack' = 0
    /\ answers' = answers + 1 /\ named' = Centre_FloatID
    /\ UNCHANGED <<flags, ASK_SdFlag>>

\* Nothing is due, or only packets of the upload may be sent; off line and
\* during a call nothing is sent, and a call that is wanted starts.
SendNothing ==
    /\ appPc = "tx"
    /\ ~(MaySend /\ \E k \in Packets : First(k))
    /\ appPc' = "rx"
    /\ CallState' = IF CallState = "rdytoDialLis" THEN "Dialing" ELSE CallState
    /\ UNCHANGED <<Receive_DataFlag, Centre_FloatID, f_CentreCMDack, flags,
                   askVars, Float_ID, upload, linkVars, SleepState, resetDue,
                   latest, packet, frames, own, faults, histVars>>

Do_SendGPSReport_GPRS ==
    \/ \E k \in Packets \ {"0001", "0302"} : SendFlagged(k)
    \/ SendChoice \/ SendAnswer \/ SendNothing

-----------------------------------------------------------------------------
(* Timers, the driver, the link and the centre                             *)

\* A flag that a timer, the 485 thread, the CAN bus or a menu sets.
OwnPacket(k) ==
    /\ own < MaxOwn /\ own' = own + 1
    /\ flags' = flags \cup {k}
    /\ UNCHANGED <<appPc, Receive_DataFlag, Centre_FloatID, f_CentreCMDack,
                   askVars, Float_ID, upload, CallState, linkVars, SleepState,
                   resetDue, latest, packet, frames, faults, histVars>>

\* The menu shows the question: it is read from the flash, as it was when it
\* came, also when it has been answered.
ShowQuestion ==
    /\ question # None
    /\ ASK_SdFlag' = 1 /\ ASK_floatID' = question /\ effic' = TRUE
    /\ UNCHANGED <<appPc, Receive_DataFlag, Centre_FloatID, f_CentreCMDack,
                   flags, question, Float_ID, upload, CallState, linkVars,
                   SleepState, resetDue, latest, packet, frames, own, faults,
                   histVars>>

\* A key in that menu: the answer is due, or the menu is left.
QuestionKey ==
    /\ effic
    /\ own < MaxOwn /\ own' = own + 1
    /\ \/ ASK_SdFlag' = 2 /\ effic' = TRUE
       \/ ASK_SdFlag' = ASK_SdFlag /\ effic' = FALSE
    /\ UNCHANGED <<appPc, Receive_DataFlag, Centre_FloatID, f_CentreCMDack,
                   flags, ASK_floatID, question, Float_ID, upload, CallState,
                   linkVars, SleepState, resetDue, latest, packet, frames,
                   faults, histVars>>

\* An upload starts or ends.
UploadStarts ==
    /\ ~upload /\ faults < MaxFaults
    /\ upload' = TRUE /\ faults' = faults + 1
    /\ UNCHANGED <<appPc, Receive_DataFlag, Centre_FloatID, f_CentreCMDack,
                   flags, askVars, Float_ID, CallState, linkVars, SleepState,
                   resetDue, latest, packet, frames, own, histVars>>

UploadEnds ==
    /\ upload /\ upload' = FALSE
    /\ UNCHANGED <<appPc, Receive_DataFlag, Centre_FloatID, f_CentreCMDack,
                   flags, askVars, Float_ID, CallState, linkVars, SleepState,
                   resetDue, latest, packet, frames, own, faults, histVars>>

\* NO CARRIER or an error ends a call.
CallEnds ==
    /\ CallState = "Dialing" /\ CallState' = "Idle"
    /\ UNCHANGED <<appPc, Receive_DataFlag, Centre_FloatID, f_CentreCMDack,
                   flags, askVars, Float_ID, upload, linkVars, SleepState,
                   resetDue, latest, packet, frames, own, faults, histVars>>

\* A request to close: off line at once, and after ten seconds a new dial.
End_Datalink ==
    /\ DataLink_EndFlag /\ online' = FALSE /\ DataLink_EndFlag' = online
    /\ UNCHANGED <<appPc, Receive_DataFlag, Centre_FloatID, f_CentreCMDack,
                   flags, askVars, Float_ID, upload, CallState, loggedIn,
                   dialled, SleepState, resetDue, latest, packet,
                   frames, own, faults, histVars>>

\* A dial has ended in a connection; a login is due.  To which server is left
\* open: the name that is stored, when it resolves, comes before the address
\* that was set.
Connect ==
    /\ ~online /\ ~DataLink_EndFlag
    /\ online' = TRUE /\ loggedIn' = FALSE
    /\ dialled' = latest /\ forgotten' = FALSE
    /\ UNCHANGED <<appPc, Receive_DataFlag, Centre_FloatID, f_CentreCMDack,
                   flags, askVars, Float_ID, upload, CallState,
                   DataLink_EndFlag, SleepState, resetDue, latest, packet,
                   frames, own, faults, questions, collects, answers, named,
                   command>>

LinkLost ==
    /\ online /\ faults < MaxFaults
    /\ online' = FALSE /\ faults' = faults + 1
    /\ UNCHANGED <<appPc, Receive_DataFlag, Centre_FloatID, f_CentreCMDack,
                   flags, askVars, Float_ID, upload, CallState, loggedIn,
                   DataLink_EndFlag, dialled, SleepState, resetDue,
                   latest, packet, frames, own, histVars>>

\* The ignition is turned off or on, for long enough.
SleepOrWake ==
    /\ faults < MaxFaults /\ faults' = faults + 1
    /\ SleepState' = ~SleepState
    /\ UNCHANGED <<appPc, Receive_DataFlag, Centre_FloatID, f_CentreCMDack,
                   flags, askVars, Float_ID, upload, CallState, linkVars,
                   resetDue, latest, packet, frames, own, histVars>>

\* The gsm thread hands a frame over.
FrameArrives ==
    /\ online /\ ~Receive_DataFlag /\ frames < MaxFrames
    /\ Receive_DataFlag' = TRUE
    /\ UNCHANGED <<appPc, Centre_FloatID, f_CentreCMDack, flags, askVars,
                   Float_ID, upload, CallState, linkVars, SleepState, resetDue,
                   latest, packet, frames, own, faults, histVars>>

\* What a start leaves of all this.
Starts ==
    /\ appPc' = "rx" /\ Receive_DataFlag' = FALSE /\ Centre_FloatID' = None
    /\ f_CentreCMDack' = 0 /\ flags' = {}
    /\ ASK_SdFlag' = 0 /\ ASK_floatID' = None /\ effic' = FALSE
    /\ Float_ID' = None /\ upload' = FALSE /\ CallState' = "Idle"
    /\ online' = FALSE /\ loggedIn' = FALSE /\ DataLink_EndFlag' = FALSE
    /\ SleepState' = FALSE /\ resetDue' = FALSE
    /\ command' = None
    /\ UNCHANGED <<question, latest, packet, frames, own,
                   dialled, questions, collects, answers, named,
                   forgotten>>

\* App808_tick_counter, one second after the counter was set.
App808_tick_counter == resetDue /\ Starts /\ UNCHANGED faults

PowerCut == faults < MaxFaults /\ faults' = faults + 1 /\ Starts

-----------------------------------------------------------------------------
Next ==
    \/ TCP_RX_Process \/ NoFrame \/ Do_SendGPSReport_GPRS
    \/ \E k \in OwnPackets : OwnPacket(k)
    \/ ShowQuestion \/ QuestionKey \/ UploadStarts \/ UploadEnds \/ CallEnds
    \/ End_Datalink \/ Connect \/ LinkLost \/ SleepOrWake
    \/ FrameArrives \/ App808_tick_counter \/ PowerCut

\* The thread runs and the timers tick.  Nothing is said of the end of an
\* upload or of a call, nor of a dial: some never end (Camera, Session).
Fairness ==
    /\ WF_vars(NoFrame) /\ WF_vars(Do_SendGPSReport_GPRS)
    /\ WF_vars(End_Datalink) /\ WF_vars(App808_tick_counter)

Spec == Init /\ [][Next]_vars

FairSpec == Spec /\ Fairness

Flags == {"0102", "0002", "0201", "0805", "0500", "0700", "0800", "0900",
          "0802", "0701", "0104"}

TypeOK ==
    /\ appPc \in {"rx", "tx"} /\ Receive_DataFlag \in BOOLEAN
    /\ frames \in Nat /\ Centre_FloatID \in 0 .. frames
    /\ f_CentreCMDack \in {0, 1, Redial, Reset, Close} /\ flags \subseteq Flags
    /\ ASK_SdFlag \in 0 .. 2 /\ ASK_floatID \in 0 .. frames
    /\ question \in 0 .. frames /\ effic \in BOOLEAN /\ Float_ID \in 0 .. frames
    /\ upload \in BOOLEAN /\ CallState \in {"Idle", "rdytoDialLis", "Dialing"}
    /\ online \in BOOLEAN /\ loggedIn \in BOOLEAN /\ DataLink_EndFlag \in BOOLEAN
    /\ SleepState \in BOOLEAN /\ resetDue \in BOOLEAN
    /\ packet \in [kind : Packets, number : 0 .. frames]
    /\ own \in 0 .. MaxOwn /\ faults \in 0 .. MaxFaults
    /\ latest \in 0 .. frames /\ dialled \in 0 .. frames
    /\ questions \subseteq 1 .. frames /\ collects \subseteq 1 .. frames
    /\ answers \in 0 .. frames /\ named \in 0 .. frames
    /\ command \in 0 .. frames /\ forgotten \in BOOLEAN

\* No command is acknowledged twice, and acknowledgements name frames in the
\* order they came: the number in a common answer (Stuff_DevCommmonACK_0001H)
\* is greater than in all earlier ones, across uploads, calls, lost links and
\* restarts.
AnswersInOrder == [][answers' # answers => named' > named]_vars

\* When no common answer is due, the last command that was carried out has
\* been answered: the last answer names that command or a frame handled after
\* it.  0x8103 and 0x8105 look at the flag before they set it, the others do
\* not.  A 0x8400 that is refused is no such command: it gets no answer.
CommandAnswered ==
    f_CentreCMDack = 0 /\ command # None => named >= command

\* The answer to a question (0x0302) names a question, and the recorder's data
\* (0x0700) the command that collected them, whatever frames were handled
\* before the packet went out, and after a restart, too.
OwnNumber ==
    /\ packet.kind = "0302" => packet.number \in questions
    /\ packet.kind = "0700" => packet.number \in collects

\* The answers may go out: on line, with no upload and no call.
Unhindered == online /\ ~upload /\ CallState # "Dialing"

\* A terminal that is on line and free of uploads and calls again and again
\* sends whatever waits: no flag that Do_SendGPSReport_GPRS looks at stays set
\* for ever behind the packets that are sent before it, a redial or a reset.
\* A login and the announcement of an upload need more: the one a terminal
\* that is not logged in, the other one that is.
NothingWaits == \A k \in Packets \ {"0102", "0800"} : ~Due(k)

EverythingSent == []<>Unhindered => []<>NothingWaits

\* A new address makes the terminal dial again, whatever frames are handled and
\* whatever packets are sent before the answer that the redial follows, unless
\* a command has taken the place of that answer.
RedialsForAddress ==
    []<>Unhindered => (latest # dialled ~> latest = dialled \/ forgotten)

=============================================================================
