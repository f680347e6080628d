------------------------------ MODULE SendPath ------------------------------
(***************************************************************************)
(* The two mailboxes between the app808 thread and the gsm thread, with    *)
(* the waits of both threads in ticks.                                     *)
(*                                                                         *)
(* To send, the app808 thread rewrites the buffer GPRS_info and sets       *)
(* Send_DataFlag; the gsm thread, of higher priority, looks at the flag    *)
(* once a round, hands the buffer to the modem, waits, and clears the      *)
(* flag.  To receive, the gsm thread writes GSM_HEX and sets               *)
(* Receive_DataFlag; the app808 thread copies the buffer, handles the      *)
(* frame and clears the flag.  There is no lock and nobody waits for a     *)
(* free mailbox: what keeps packets apart is that one loop is slower than  *)
(* the other, as long as the gsm thread does not stop to close a           *)
(* connection that the modem has reported as failed.                       *)
(*                                                                         *)
(* A packet is a stored record (its number), or Other: a position, an      *)
(* answer, a heartbeat.  A frame of the centre is its number.              *)
(***************************************************************************)
EXTENDS Integers, Sequences

CONSTANTS
    RecvWait,      \* GSM_Buffer_Read_Process waits for a line (5 ticks)
    SendDelay,     \* after the output of a packet (10)
    ErrorDelay,    \* after an error of a connection (10)
    LoopDelay,     \* at the end of a round of the gsm thread (20)
    GsmBusy,       \* the most a round of the gsm thread computes
    AppDelay1,     \* before and
    AppDelay2,     \* after Save_GPS in the app808 thread (10 and 22)
    MaxLines,      \* lines that mq_GSM holds (6)
    MaxModem,      \* bound: packets that the modem holds
    MaxRecords,    \* bound: records stored
    MaxFrames,     \* bound: frames of the centre
    Faults         \* the link drops and the modem fails to send

ASSUME TimingAssumption ==
    /\ RecvWait \in Nat /\ SendDelay \in Nat \ {0} /\ LoopDelay \in Nat \ {0}
    /\ GsmBusy \in Nat /\ ErrorDelay \in Nat
    /\ AppDelay1 \in Nat /\ AppDelay2 \in Nat
    /\ LoopDelay + GsmBusy + RecvWait <= AppDelay1 + AppDelay2

ASSUME BoundAssumption ==
    /\ MaxLines \in Nat /\ MaxModem \in Nat
    /\ MaxRecords \in Nat /\ MaxFrames \in Nat /\ Faults \in BOOLEAN

VARIABLES
    appPc, appTimer,      \* the app808 thread and what it still waits
    packet,               \* the packet that Protocol_End encodes
    GPRS_info,            \* the last one it has encoded
    Send_DataFlag,
    gsmPc, gsmTimer,      \* the gsm thread and what it still waits
    lines,                \* mq_GSM: IPSENDX, ErrorLine, or the number of a frame
    modem,                \* packets the modem has yet to send
    online,               \* DataLink_Status
    cycle_write, cycle_read, ReadCycle_status, Send_Rdy4ok,
    GSM_HEX, Receive_DataFlag,
    UDP_HEX_Rx,           \* the frame that the app808 thread works on
    handled,              \* history: frames handled, in order
    frames,               \* history: frames the centre has sent
    transmitted           \* history: records the modem has sent

appVars  == <<appPc, appTimer, packet, UDP_HEX_Rx, handled>>
gsmVars  == <<gsmPc, gsmTimer>>
mailVars == <<GPRS_info, Send_DataFlag>>
rxVars   == <<GSM_HEX, Receive_DataFlag>>
ringVars == <<cycle_write, cycle_read, ReadCycle_status, Send_Rdy4ok>>
netVars  == <<lines, modem, online, frames, transmitted>>
vars     == <<appVars, gsmVars, mailVars, rxVars, ringVars, netVars>>

Other   == 0                 \* a packet that is no stored record
IPSENDX == 0                 \* the line that reports a packet as sent
ErrorLine == -1              \* the line that reports an error of a connection
NoFrame == 0
Torn    == -1                \* a mixture of two packets, or of two frames
Records == 1 .. MaxRecords
Packets == Records \cup {Other, Torn}

Init ==
    /\ appPc = "top" /\ appTimer = 0 /\ packet = Other
    /\ GPRS_info = Other /\ Send_DataFlag = FALSE
    /\ gsmPc = "recv" /\ gsmTimer = RecvWait
    /\ lines = <<>> /\ modem = <<>> /\ online = TRUE
    /\ cycle_write = 0 /\ cycle_read = 0
    /\ ReadCycle_status = "Idle" /\ Send_Rdy4ok = FALSE
    /\ GSM_HEX = NoFrame /\ Receive_DataFlag = FALSE /\ UDP_HEX_Rx = NoFrame
    /\ handled = <<>> /\ frames = 0 /\ transmitted = {}

-----------------------------------------------------------------------------
(* The gsm thread                                                          *)

\* It is blocked: in a delay, or waiting for a line that has not come.
GsmWaits == gsmTimer > 0 /\ ~(gsmPc = "recv" /\ lines # <<>>)

\* Mutant: the state of the reader is not looked at.
Api_cycle_UpdateAlways ==
    cycle_read' = cycle_read + 1 /\ ReadCycle_status' = "Idle"

\* Api_cycle_Update
Api_cycle_Update ==
    IF ReadCycle_status = "SdOver"
      THEN cycle_read' = cycle_read + 1 /\ ReadCycle_status' = "Idle"
      ELSE UNCHANGED <<cycle_read, ReadCycle_status>>

\* GSM_Process on %IPSENDX:1, for whichever packet it may be.
SendOk ==
    /\ Send_Rdy4ok' = FALSE
    /\ IF Send_Rdy4ok THEN Api_cycle_Update
       ELSE UNCHANGED <<cycle_read, ReadCycle_status>>
    /\ UNCHANGED <<cycle_write, rxVars>>

\* GSM_Process on %IPDATA:1: Get_GSM_HexData overwrites what is there.
Get_GSM_HexData(f) ==
    /\ GSM_HEX' = f /\ Receive_DataFlag' = TRUE
    /\ UNCHANGED ringVars

\* GSM_Buffer_Read_Process with a line.
GsmLine ==
    /\ gsmPc = "recv" /\ lines # <<>> /\ Head(lines) # ErrorLine
    /\ lines' = Tail(lines)
    /\ IF Head(lines) = IPSENDX THEN SendOk ELSE Get_GSM_HexData(Head(lines))
    /\ gsmPc' = "check" /\ gsmTimer' = 0
    /\ UNCHANGED <<appVars, mailVars, modem, online, frames, transmitted>>

\* GSM_Process on ERROR: 8 and its like: after a dialling that went through a
\* name query, which Dial_jump_State still tells when the link has long been up,
\* the connection is closed and the thread waits.
GsmErrorLine ==
    /\ gsmPc = "recv" /\ lines # <<>> /\ Head(lines) = ErrorLine
    /\ lines' = Tail(lines)
    /\ \/ gsmPc' = "closing" /\ gsmTimer' = ErrorDelay
       \/ gsmPc' = "check" /\ gsmTimer' = 0
    /\ UNCHANGED <<appVars, mailVars, rxVars, ringVars, modem, online, frames,
                   transmitted>>

\* ... and without one in time.
GsmNoLine ==
    /\ gsmPc = "recv" /\ lines = <<>> /\ gsmTimer = 0
    /\ gsmPc' = "check"
    /\ UNCHANGED <<appVars, gsmTimer, mailVars, rxVars, ringVars, netVars>>

\* The wait at the end of a round; what the round computed is counted here.
EndRound ==
    /\ gsmPc' = "delay"
    /\ gsmTimer' \in LoopDelay .. LoopDelay + GsmBusy

\* The thread is done with the line and looks at Send_DataFlag.
Checks == gsmPc = "check" \/ (gsmPc = "closing" /\ gsmTimer = 0)

\* Data_Send: the buffer as it is at this moment.
Data_Send ==
    /\ Checks /\ Send_DataFlag /\ online
    /\ modem' = IF Len(modem) < MaxModem
                  THEN Append(modem, IF appPc = "build" THEN Torn ELSE GPRS_info)
                  ELSE modem
    /\ gsmPc' = "sent" /\ gsmTimer' = SendDelay
    /\ UNCHANGED <<appVars, mailVars, rxVars, ringVars, lines, online, frames,
                   transmitted>>

\* The flag is cleared after the wait in Data_Send; off line at once.
ClearSendFlag ==
    /\ \/ gsmPc = "sent" /\ gsmTimer = 0
       \/ Checks /\ Send_DataFlag /\ ~online
    /\ Send_DataFlag' = FALSE
    /\ EndRound
    /\ UNCHANGED <<appVars, GPRS_info, rxVars, ringVars, netVars>>

NothingToSend ==
    /\ Checks /\ ~Send_DataFlag
    /\ EndRound
    /\ UNCHANGED <<appVars, mailVars, rxVars, ringVars, netVars>>

NextRound ==
    /\ gsmPc = "delay" /\ gsmTimer = 0
    /\ gsmPc' = "recv" /\ gsmTimer' = RecvWait
    /\ UNCHANGED <<appVars, mailVars, rxVars, ringVars, netVars>>

-----------------------------------------------------------------------------
(* The app808 thread, which runs while the gsm thread waits                *)

AppRuns(pc) == appPc = pc /\ appTimer = 0 /\ GsmWaits

\* The top of the loop: the copy of a frame begins, if there is one.
AppTop ==
    /\ AppRuns("top")
    /\ IF Receive_DataFlag
         THEN appPc' = "copy" /\ UDP_HEX_Rx' = GSM_HEX
         ELSE appPc' = "send" /\ UNCHANGED UDP_HEX_Rx
    /\ UNCHANGED <<appTimer, packet, handled, gsmVars, mailVars, rxVars,
                   ringVars, netVars>>

\* memcpy ends; a frame that came meanwhile may be in the copy, in part or whole.
Copied ==
    /\ AppRuns("copy")
    /\ \/ UDP_HEX_Rx' \in {UDP_HEX_Rx, GSM_HEX}
       \/ UDP_HEX_Rx # GSM_HEX /\ UDP_HEX_Rx' = Torn
    /\ appPc' = "handle"
    /\ UNCHANGED <<appTimer, packet, handled, gsmVars, mailVars, rxVars,
                   ringVars, netVars>>

\* Mutant: the flag is only cleared for a frame with a wrong check byte.
TCP_RX_ProcessKeeps ==
    /\ AppRuns("handle")
    /\ handled' = IF UDP_HEX_Rx = Torn THEN handled
                  ELSE Append(handled, UDP_HEX_Rx)
    /\ UDP_HEX_Rx' = NoFrame
    /\ Receive_DataFlag' = (UDP_HEX_Rx # Torn)
    /\ appPc' = "send"
    /\ UNCHANGED <<appTimer, packet, gsmVars, mailVars, GSM_HEX, ringVars, netVars>>

\* TCP_RX_Process, which drops a frame with a wrong check byte, and the clearing
\* of the flag after it.
TCP_RX_Process ==
    /\ AppRuns("handle")
    /\ handled' = IF UDP_HEX_Rx = Torn THEN handled
                  ELSE Append(handled, UDP_HEX_Rx)
    /\ UDP_HEX_Rx' = NoFrame
    /\ Receive_DataFlag' = FALSE
    /\ appPc' = "send"
    /\ UNCHANGED <<appTimer, packet, gsmVars, mailVars, GSM_HEX, ringVars, netVars>>

AppDelays(pc, ticks) == appPc' = pc /\ appTimer' = ticks

\* Do_SendGPSReport_GPRS sends at most one packet: Protocol_End begins to
\* rewrite GPRS_info.
Protocol_End(p) ==
    /\ AppRuns("send") /\ online
    /\ p # Other => ReadCycle_status = "RdytoSD" /\ p = cycle_read + 1
    /\ packet' = p /\ appPc' = "build"
    /\ UNCHANGED <<appTimer, UDP_HEX_Rx, handled, gsmVars, mailVars, rxVars,
                   ringVars, netVars>>

\* It has nothing to send, or there is no link.
NoPacket ==
    /\ AppRuns("send")
    /\ AppDelays("wait1", AppDelay1)
    /\ UNCHANGED <<packet, UDP_HEX_Rx, handled, gsmVars, mailVars, rxVars,
                   ringVars, netVars>>

\* The end of Protocol_End.
Gsm_rxAppData_SemRelease ==
    /\ AppRuns("build")
    /\ GPRS_info' = packet /\ Send_DataFlag' = TRUE
    /\ packet' = Other
    /\ IF packet = Other THEN AppDelays("wait1", AppDelay1)
                         ELSE AppDelays("mark", 0)
    /\ UNCHANGED <<UDP_HEX_Rx, handled, gsmVars, rxVars, ringVars, netVars>>

\* The assignments after Stuff_Normal_Data_0200H.
MarkSent ==
    /\ AppRuns("mark")
    /\ ReadCycle_status' = "SdOver" /\ Send_Rdy4ok' = TRUE
    /\ AppDelays("wait1", AppDelay1)
    /\ UNCHANGED <<packet, UDP_HEX_Rx, handled, gsmVars, mailVars, rxVars,
                   cycle_write, cycle_read, netVars>>

\* Mutant: there is no wait after Save_GPS.
Save_GPSNoWait(n) ==
    /\ AppRuns("wait1")
    /\ cycle_write + n <= MaxRecords
    /\ cycle_write' = cycle_write + n
    /\ AppDelays("top", 0)
    /\ UNCHANGED <<packet, UDP_HEX_Rx, handled, gsmVars, mailVars, rxVars,
                   cycle_read, ReadCycle_status, Send_Rdy4ok, netVars>>

\* Save_GPS between the two waits stores a record, or does not.
Save_GPS(n) ==
    /\ AppRuns("wait1")
    /\ cycle_write + n <= MaxRecords
    /\ cycle_write' = cycle_write + n
    /\ AppDelays("top", AppDelay2)
    /\ UNCHANGED <<packet, UDP_HEX_Rx, handled, gsmVars, mailVars, rxVars,
                   cycle_read, ReadCycle_status, Send_Rdy4ok, netVars>>

-----------------------------------------------------------------------------
(* Timers, the modem and the centre                                        *)

\* A tick of the clock.  A gsm thread that is ready runs before the next one.
Tick ==
    /\ GsmWaits
    /\ gsmTimer' = gsmTimer - 1
    /\ appTimer' = IF appTimer > 0 THEN appTimer - 1 ELSE 0
    /\ UNCHANGED <<appPc, packet, UDP_HEX_Rx, handled, gsmPc, mailVars, rxVars,
                   ringVars, netVars>>

\* Api_CHK_ReadCycle_status
CHK_ReadCycle_status ==
    /\ ReadCycle_status = "Idle" /\ cycle_write # cycle_read
    /\ ReadCycle_status' = "RdytoSD"
    /\ UNCHANGED <<appVars, gsmVars, mailVars, rxVars, cycle_write, cycle_read,
                   Send_Rdy4ok, netVars>>

\* timeout_app gives up waiting for the report.
AckTimeout ==
    /\ ReadCycle_status = "SdOver"
    /\ ReadCycle_status' = "Idle"
    /\ UNCHANGED <<appVars, gsmVars, mailVars, rxVars, cycle_write, cycle_read,
                   Send_Rdy4ok, netVars>>

\* GSM_RxHandler: a line that finds the queue full is dropped.
GSM_RxHandler(l) ==
    lines' = IF Len(lines) < MaxLines THEN Append(lines, l) ELSE lines

ModemSends ==
    /\ modem # <<>>
    /\ modem' = Tail(modem)
    /\ transmitted' = transmitted \cup ({Head(modem)} \cap Records)
    /\ GSM_RxHandler(IPSENDX)
    /\ UNCHANGED <<appVars, gsmVars, mailVars, rxVars, ringVars, online, frames>>

ModemFails ==
    /\ Faults /\ modem # <<>>
    /\ modem' = Tail(modem)
    /\ UNCHANGED <<appVars, gsmVars, mailVars, rxVars, ringVars, lines, online,
                   frames, transmitted>>

\* A connection fails: the second one, or one that an earlier error had the
\* terminal dial while the first is up.
ModemError ==
    /\ Faults
    /\ GSM_RxHandler(ErrorLine)
    /\ UNCHANGED <<appVars, gsmVars, mailVars, rxVars, ringVars, modem, online,
                   frames, transmitted>>

LinkChange ==
    /\ Faults
    /\ online' = ~online
    /\ UNCHANGED <<appVars, gsmVars, mailVars, rxVars, ringVars, lines, modem,
                   frames, transmitted>>

CentreSends ==
    /\ frames < MaxFrames
    /\ frames' = frames + 1
    /\ GSM_RxHandler(frames + 1)
    /\ UNCHANGED <<appVars, gsmVars, mailVars, rxVars, ringVars, modem, online,
                   transmitted>>

GsmStep == GsmLine \/ GsmErrorLine \/ GsmNoLine \/ Data_Send \/ ClearSendFlag
           \/ NothingToSend \/ NextRound
AppStep == \/ AppTop \/ Copied \/ TCP_RX_Process
           \/ (\E p \in {Other} \cup Records : Protocol_End(p))
           \/ NoPacket \/ Gsm_rxAppData_SemRelease \/ MarkSent
           \/ (\E n \in {0, 1} : Save_GPS(n))
Surroundings == Tick \/ CHK_ReadCycle_status \/ AckTimeout \/ ModemSends
                \/ ModemFails \/ ModemError \/ LinkChange \/ CentreSends

Next == GsmStep \/ AppStep \/ Surroundings

Spec == Init /\ [][Next]_vars

-----------------------------------------------------------------------------
(* Properties                                                              *)

AppPcs == {"top", "copy", "handle", "send", "build", "mark", "wait1"}
GsmPcs == {"recv", "closing", "check", "sent", "delay"}

FlagsOK ==
    /\ Send_DataFlag \in BOOLEAN /\ Receive_DataFlag \in BOOLEAN
    /\ Send_Rdy4ok \in BOOLEAN /\ online \in BOOLEAN

ValuesOK ==
    /\ appPc \in AppPcs /\ appTimer \in Nat
    /\ packet \in Records \cup {Other} /\ GPRS_info \in Records \cup {Other}
    /\ gsmPc \in GsmPcs /\ gsmTimer \in Nat
    /\ cycle_write \in 0 .. MaxRecords /\ cycle_read \in 0 .. cycle_write
    /\ ReadCycle_status \in {"Idle", "RdytoSD", "SdOver"}
    /\ GSM_HEX \in 0 .. MaxFrames /\ UDP_HEX_Rx \in -1 .. MaxFrames
    /\ frames \in 0 .. MaxFrames /\ transmitted \subseteq Records

QueuesOK ==
    /\ lines \in Seq(-1 .. MaxFrames) /\ modem \in Seq(Packets)
    /\ handled \in Seq(1 .. MaxFrames)

TypeOK == FlagsOK /\ ValuesOK /\ QueuesOK

\* When the app808 thread rewrites GPRS_info, the packet posted before has left
\* it: the gsm thread has handed it to the modem, or dropped it.  A packet is
\* overwritten in the mailbox, or goes out torn, only while the gsm thread waits
\* after closing a failed connection.  Nothing in the code checks this; it rests
\* on the delays in the two loops.
NoOverwrite == appPc = "build" /\ Send_DataFlag => gsmPc \in {"sent", "closing"}

\* The frames of the centre are handled in the order they came and none is
\* handled twice, although a frame that comes while another one is copied or
\* handled may be lost.
HandledOnceInOrder ==
    \A i, j \in DOMAIN handled : i < j => handled[i] < handled[j]

\* The read pointer passes a stored record only when that record was sent: it
\* has left the modem, or is on its way in the modem or in the mailbox
\* (Api_cycle_Update: the pointer moves only when the answer has come).
NoRecordLost ==
    \A r \in 1 .. cycle_read :
      \/ r \in transmitted
      \/ \E i \in DOMAIN modem : modem[i] = r
      \/ Send_DataFlag /\ GPRS_info = r /\ gsmPc # "sent"

-----------------------------------------------------------------------------
(* The inductive invariant behind NoOverwrite                              *)

\* The longest time until the gsm thread looks at Send_DataFlag ...
GsmLeft == CASE gsmPc = "recv"  -> gsmTimer
             [] gsmPc = "delay" -> gsmTimer + RecvWait
             [] OTHER           -> 0

\* ... and the shortest until the app808 thread may build a packet.
AppLeft == CASE appPc = "mark"  -> AppDelay1 + AppDelay2
             [] appPc = "wait1" -> appTimer + AppDelay2
             [] appPc = "top"   -> appTimer
             [] OTHER           -> 0

Timers ==
    /\ appTimer \in Nat /\ gsmTimer \in Nat
    /\ gsmPc \in GsmPcs /\ appPc \in AppPcs
    /\ gsmPc = "recv" => gsmTimer <= RecvWait
    /\ gsmPc = "delay" => gsmTimer <= LoopDelay + GsmBusy
    /\ gsmPc = "check" => gsmTimer = 0

\* A packet in the mailbox is taken before the next one is built.
TakenInTime ==
    Send_DataFlag /\ gsmPc \notin {"sent", "closing"} =>
      appPc \in {"mark", "wait1", "top"} /\ GsmLeft <= AppLeft

TimeInv == Timers /\ TakenInTime

-----------------------------------------------------------------------------
(* The inductive invariants behind TypeOK and HandledOnceInOrder           *)

\* The reader is armed with a record ahead of it, also while it posts one.
ReaderArmed ==
    /\ ReadCycle_status # "Idle" => cycle_read < cycle_write
    /\ (appPc = "build" /\ packet # Other) \/ appPc = "mark" =>
         ReadCycle_status = "RdytoSD"

IsFrame(l) == l > 0

\* The frames on their way, from the centre to the app808 thread, are in order.
FramesInOrder ==
    /\ \A i, j \in 1 .. Len(lines) :
         i < j /\ IsFrame(lines[i]) /\ IsFrame(lines[j]) => lines[i] < lines[j]
    /\ \A i \in 1 .. Len(lines) :
         IsFrame(lines[i]) => GSM_HEX < lines[i] /\ lines[i] <= frames
    /\ GSM_HEX <= frames
    /\ Receive_DataFlag => GSM_HEX > 0

\* A frame that will be handled is newer than every one handled so far.
OnlyNewFrames ==
    LET Newer(f) == \A i \in 1 .. Len(handled) : handled[i] < f IN
    /\ \A i \in 1 .. Len(handled) : handled[i] <= GSM_HEX
    /\ Receive_DataFlag /\ appPc \notin {"copy", "handle"} => Newer(GSM_HEX)
    /\ appPc \in {"copy", "handle"} =>
         /\ Receive_DataFlag
         /\ UDP_HEX_Rx # Torn =>
              UDP_HEX_Rx \in 1 .. GSM_HEX /\ Newer(UDP_HEX_Rx)
    /\ appPc = "copy" => UDP_HEX_Rx # Torn

FrameInv == FramesInOrder /\ OnlyNewFrames /\ HandledOnceInOrder
=============================================================================
