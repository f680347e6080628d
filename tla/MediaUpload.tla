---------------------------- MODULE MediaUpload ----------------------------
(***************************************************************************)
(* The upload of pictures and voice files to the centre.                   *)
(*                                                                         *)
(* One object, MediaObj, serves every kind of file: it is announced        *)
(* (0x0800), cut into packets of 512 bytes that are sent one at a time     *)
(* (0x0801), and after the last packet waits for the centre to ask for     *)
(* packets again or to close the upload (0x8800).  The centre, the 485     *)
(* thread, the menu, the voice recorder in the gsm thread and, in          *)
(* interrupt context, three timers all write it without a lock.            *)
(*                                                                         *)
(* The video branches of the code are dead: nothing starts a video.        *)
(***************************************************************************)
EXTENDS Integers, Sequences

CONSTANTS
    MaxPackets,      \* packets of the largest file
    EmptyFiles,      \* a stored file may have size 0
    Mp3Packets,      \* packets of the built-in sound, mp3_fsize (11)
    VoiceUploads,    \* voice files and the built-in sound are uploaded
    MenuUploads,     \* the menu item for an upload is used
    MaxRequests      \* bound: 0x8800 lists in a behaviour

ASSUME UploadAssumption ==
    /\ MaxPackets \in Nat /\ MaxPackets > 0
    /\ Mp3Packets \in Nat /\ MaxRequests \in Nat
    /\ EmptyFiles \in BOOLEAN /\ VoiceUploads \in BOOLEAN
    /\ MenuUploads \in BOOLEAN

VARIABLES
    Media_Type,              \* the medium MediaObj works on
    SD_media_Flag,           \* 1: announce it; 2: announced
    SD_Data_Flag,            \* a packet is due
    Media_transmittingFlag,  \* 1: announced; 2: packets are sent
    RSD_State,               \* 0: in order; 1: on request; 2: waits
    resend,                  \* the rest of Media_ReSdList
    photo_sending,           \* of Photo_sdState and Sound_sdState
    SD_flag,                 \* likewise
    SD_packetNum, Total_packetNum,
    fileSize,                \* PicFileSize and SrcFileSize, in packets
    Duomeiti_sdFlag,         \* the menu asked for an upload
    link,                    \* "down", "online" or "login"
    startPc,                 \* where the 485 thread is in Photo_send_start
    stuff,                   \* what Protocol_Head has put into the packet
    requests,                \* number of 0x8800 lists so far
    sent                     \* history: packets of this upload

objVars  == <<Media_Type, SD_media_Flag, SD_Data_Flag,
              Media_transmittingFlag, RSD_State, resend>>
fileVars == <<photo_sending, SD_flag, SD_packetNum, Total_packetNum>>
uploadVars == <<objVars, fileVars, fileSize, Duomeiti_sdFlag, link, startPc,
                stuff, requests, sent>>

Media   == {"photo", "sound"}
Sizes   == (IF EmptyFiles THEN 0 ELSE 1) .. MaxPackets
NoStuff == [m |-> "none", cur |-> 0, tot |-> 0]

\* The app808 thread is inside Stuff_MultiMedia_Data_0801H
Stuffing == stuff # NoStuff

Init ==
    /\ Media_Type = "photo" /\ SD_media_Flag = 0 /\ SD_Data_Flag = FALSE
    /\ Media_transmittingFlag = 0 /\ RSD_State = 0 /\ resend = <<>>
    /\ photo_sending = [m \in Media |-> "disable"]
    /\ SD_flag = [m \in Media |-> FALSE]
    /\ SD_packetNum = [m \in Media |-> 0]
    /\ Total_packetNum = [m \in Media |-> 0]
    /\ fileSize = [m \in Media |-> 0]
    /\ Duomeiti_sdFlag = FALSE /\ link = "down"
    /\ startPc = "idle" /\ stuff = NoStuff
    /\ requests = 0
    /\ sent = [m \in Media |-> {}]

-----------------------------------------------------------------------------
(* Helpers                                                                 *)

\* Everything of MediaObj but its type.
Media_Clear_State ==
    /\ SD_media_Flag' = 0 /\ SD_Data_Flag' = FALSE
    /\ Media_transmittingFlag' = 0
    /\ RSD_State' = 0 /\ resend' = <<>>

Media_Start_Init(m) ==
    /\ Media_Type' = m
    /\ SD_media_Flag' = 1 /\ SD_Data_Flag' = FALSE
    /\ Media_transmittingFlag' = 0
    /\ RSD_State' = 0 /\ resend' = <<>>

\* Photo_send_end and Sound_send_end without the Media_Clear_State at their end.
FilesEnd(ms) ==
    /\ photo_sending' = [m \in Media |->
                           IF m \in ms THEN "disable" ELSE photo_sending[m]]
    /\ SD_flag' = [m \in Media |-> m \notin ms /\ SD_flag[m]]
    /\ SD_packetNum' = [m \in Media |-> IF m \in ms THEN 0 ELSE SD_packetNum[m]]
    /\ Total_packetNum' = [m \in Media |->
                             IF m \in ms THEN 0 ELSE Total_packetNum[m]]

\* Photo_send_end and Sound_send_end.
SendEnd(ms) ==
    /\ FilesEnd(ms)
    /\ Media_Clear_State
    /\ UNCHANGED Media_Type

-----------------------------------------------------------------------------
(* Starting an upload                                                      *)

\* Photo_send_start up to the query of the picture's size in the flash.
Photo_send_start ==
    /\ startPc = "idle" /\ ~Stuffing
    /\ photo_sending' = [photo_sending EXCEPT !["photo"] = "other"]
    /\ SD_flag' = [SD_flag EXCEPT !["photo"] = FALSE]
    /\ SD_packetNum' = [SD_packetNum EXCEPT !["photo"] = 1]
    /\ startPc' = "query"
    /\ UNCHANGED <<objVars, Total_packetNum, fileSize, Duomeiti_sdFlag, link,
                   stuff, requests, sent>>

\* The rest of it: an empty picture ends the upload, but is announced as well.
Photo_send_started(n) ==
    /\ startPc = "query" /\ ~Stuffing
    /\ startPc' = "idle"
    /\ fileSize' = [fileSize EXCEPT !["photo"] = n]
    /\ IF n = 0
         THEN FilesEnd({"photo"})
         ELSE /\ Total_packetNum' = [Total_packetNum EXCEPT !["photo"] = n]
              /\ UNCHANGED <<photo_sending, SD_flag, SD_packetNum>>
    /\ Media_Start_Init("photo")
    /\ sent' = [sent EXCEPT !["photo"] = {}]
    /\ UNCHANGED <<Duomeiti_sdFlag, link, stuff, requests>>

\* Mutant: a sound that is still being sent is not stopped first.
SoundStartsBusy(total) ==
    /\ SD_packetNum' = [SD_packetNum EXCEPT !["sound"] = 1]
    /\ Total_packetNum' = [Total_packetNum EXCEPT !["sound"] = total]
    /\ Media_Start_Init("sound")
    /\ sent' = [sent EXCEPT !["sound"] = {}]
    /\ UNCHANGED <<photo_sending, SD_flag, Duomeiti_sdFlag, link, startPc,
                   stuff, requests>>

\* What Sound_send_start and MP3_send_start have in common.
SoundStarts(total) ==
    /\ photo_sending' = [photo_sending EXCEPT !["sound"] = "disable"]
    /\ SD_flag' = [SD_flag EXCEPT !["sound"] = FALSE]
    /\ SD_packetNum' = [SD_packetNum EXCEPT !["sound"] = 1]
    /\ Total_packetNum' = [Total_packetNum EXCEPT !["sound"] = total]
    /\ Media_Start_Init("sound")
    /\ sent' = [sent EXCEPT !["sound"] = {}]
    /\ UNCHANGED <<Duomeiti_sdFlag, link, startPc, stuff, requests>>

\* After a recording, from VOC_REC_dataGet in the gsm thread, which preempts
\* the app808 thread.
Sound_send_start(n) ==
    /\ VoiceUploads
    /\ SoundStarts(n)
    /\ fileSize' = [fileSize EXCEPT !["sound"] = n]

\* 0x8803; the size of the voice file stays what it was.
MP3_send_start ==
    /\ VoiceUploads /\ ~Stuffing
    /\ SoundStarts(Mp3Packets)
    /\ UNCHANGED fileSize

\* The menu item "multimedia event": an announcement without a picture.
MultimediaTrans ==
    /\ MenuUploads /\ ~Stuffing
    /\ Media_Type' = "photo" /\ SD_media_Flag' = 1
    /\ Duomeiti_sdFlag' = TRUE
    /\ UNCHANGED <<SD_Data_Flag, Media_transmittingFlag, RSD_State, resend,
                   fileVars, fileSize, link, startPc, stuff, requests, sent>>

-----------------------------------------------------------------------------
(* Do_SendGPSReport_GPRS                                                   *)

\* 0x0800
Stuff_MultiMedia_InfoSD_0800H ==
    /\ link = "login" /\ ~Stuffing
    /\ Media_transmittingFlag # 2
    /\ SD_media_Flag = 1
    /\ SD_media_Flag' = 2
    /\ UNCHANGED <<Media_Type, SD_Data_Flag, Media_transmittingFlag, RSD_State,
                   resend, fileVars, fileSize, Duomeiti_sdFlag, link, startPc,
                   stuff, requests, sent>>

\* 0x0801: Protocol_Head takes the numbers of the packet.
Protocol_Head ==
    /\ link = "login" /\ ~Stuffing
    /\ Media_transmittingFlag = 2
    /\ SD_Data_Flag
    /\ stuff' = [m |-> Media_Type, cur |-> SD_packetNum[Media_Type],
                 tot |-> Total_packetNum[Media_Type]]
    /\ UNCHANGED <<objVars, fileVars, fileSize, Duomeiti_sdFlag, link, startPc,
                   requests, sent>>

\* The returns of Stuff_MultiMedia_Data_0801H without a packet.
Refused(m) ==
    \/ photo_sending[m] # "enable" \/ ~SD_flag[m]
    \/ SD_packetNum[m] = 0 \/ fileSize[m] < SD_packetNum[m]
    \/ stuff.cur > stuff.tot

\* Mutant: the wait begins one packet early.
NextPacketShort ==
    \/ /\ RSD_State = 0 /\ stuff.cur + 1 >= stuff.tot
       /\ RSD_State' = 2
       /\ UNCHANGED <<resend, SD_packetNum>>
    \/ /\ RSD_State = 0 /\ stuff.cur + 1 < stuff.tot
       /\ SD_packetNum' = [m \in Media |-> IF photo_sending[m] = "enable"
                                             THEN SD_packetNum[m] + 1
                                             ELSE SD_packetNum[m]]
       /\ UNCHANGED <<RSD_State, resend>>
    \/ /\ RSD_State = 1
       /\ resend' = Tail(resend)
       /\ RSD_State' = IF resend' = <<>> THEN 2 ELSE 1
       /\ UNCHANGED SD_packetNum
    \/ /\ RSD_State = 2
       /\ UNCHANGED <<RSD_State, resend, SD_packetNum>>

\* Mutant: the end of the centre's list is not noticed.
NextPacketForever ==
    \/ /\ RSD_State = 0 /\ stuff.cur >= stuff.tot
       /\ RSD_State' = 2
       /\ UNCHANGED <<resend, SD_packetNum>>
    \/ /\ RSD_State = 0 /\ stuff.cur < stuff.tot
       /\ SD_packetNum' = [SD_packetNum EXCEPT ![Media_Type] = @ + 1]
       /\ UNCHANGED <<RSD_State, resend>>
    \/ /\ RSD_State = 1
       /\ resend' = Tail(resend)
       /\ UNCHANGED <<RSD_State, SD_packetNum>>
    \/ /\ RSD_State = 2
       /\ UNCHANGED <<RSD_State, resend, SD_packetNum>>

\* The numbers after a packet was sent: the next one, for every file that is
\* being sent; the wait after the last one; the next one on the centre's list.
NextPacket ==
    \/ /\ RSD_State = 0 /\ stuff.cur >= stuff.tot
       /\ RSD_State' = 2
       /\ UNCHANGED <<resend, SD_packetNum>>
    \/ /\ RSD_State = 0 /\ stuff.cur < stuff.tot
       /\ SD_packetNum' = [m \in Media |-> IF photo_sending[m] = "enable"
                                             THEN SD_packetNum[m] + 1
                                             ELSE SD_packetNum[m]]
       /\ UNCHANGED <<RSD_State, resend>>
    \/ /\ RSD_State = 1
       /\ resend' = Tail(resend)
       /\ RSD_State' = IF resend' = <<>> THEN 2 ELSE 1
       /\ UNCHANGED SD_packetNum
    \/ /\ RSD_State = 2
       /\ UNCHANGED <<RSD_State, resend, SD_packetNum>>

\* 0x0801: the rest, after whatever interrupted it.
Stuff_MultiMedia_Data_0801H ==
    LET m == Media_Type IN
    /\ Stuffing
    /\ stuff' = NoStuff
    /\ SD_Data_Flag' = FALSE
    /\ SD_flag' = IF photo_sending[m] = "enable"
                    THEN [SD_flag EXCEPT ![m] = FALSE] ELSE SD_flag
    /\ IF Refused(m)
         THEN UNCHANGED <<RSD_State, resend, SD_packetNum, sent>>
         ELSE /\ NextPacket
              /\ sent' = [sent EXCEPT ![m] = @ \cup {stuff.cur}]
    /\ UNCHANGED <<Media_Type, SD_media_Flag, Media_transmittingFlag,
                   photo_sending, Total_packetNum, fileSize, Duomeiti_sdFlag,
                   link, startPc, requests>>

-----------------------------------------------------------------------------
(* Timers, in interrupt context                                            *)

\* timeout_app, once a second: the announcement needs no answer; an upload
\* that the menu asked for ends here.
timeout_app ==
    LET byMenu == Media_transmittingFlag = 1 /\ Duomeiti_sdFlag IN
    /\ Media_transmittingFlag = 1 \/ SD_media_Flag = 2
    /\ Duomeiti_sdFlag' = (Duomeiti_sdFlag /\ ~byMenu)
    /\ IF byMenu
         THEN SendEnd(Media)
         ELSE IF SD_media_Flag = 2
         THEN \* Multimedia_0800H_ACK_process
              /\ photo_sending' = [photo_sending EXCEPT ![Media_Type] = "enable"]
              /\ SD_packetNum' = [SD_packetNum EXCEPT ![Media_Type] = 1]
              /\ SD_media_Flag' = 0 /\ SD_Data_Flag' = FALSE
              /\ Media_transmittingFlag' = 1
              /\ RSD_State' = 0 /\ resend' = <<>>
              /\ UNCHANGED <<Media_Type, SD_flag, Total_packetNum>>
         ELSE /\ Media_transmittingFlag' = 2
              /\ UNCHANGED <<Media_Type, SD_media_Flag, SD_Data_Flag, RSD_State,
                             resend, fileVars>>
    /\ UNCHANGED <<fileSize, link, startPc, stuff, requests, sent>>

\* The file whose timer Media_Timer_Service runs; a picture goes first.
Served == CHOOSE m \in Media :
            photo_sending[m] = "enable" /\ (m = "sound" => photo_sending["photo"] # "enable")

Sending == \E m \in Media : photo_sending[m] = "enable"

\* The conditions of Photo_Timer and Sound_Timer.
PacketTimerRuns ==
    /\ link # "down" /\ Sending
    /\ Media_Type = Served
    /\ SD_packetNum[Served] <= Total_packetNum[Served] + 1
    /\ RSD_State # 2

\* Photo_Timer and Sound_Timer, every two seconds or so.
PacketTimer ==
    /\ PacketTimerRuns
    /\ SD_flag' = [SD_flag EXCEPT ![Served] = TRUE]
    /\ SD_Data_Flag' = TRUE
    /\ UNCHANGED <<Media_Type, SD_media_Flag, Media_transmittingFlag, RSD_State,
                   resend, photo_sending, SD_packetNum, Total_packetNum,
                   fileSize, Duomeiti_sdFlag, link, startPc, stuff, requests,
                   sent>>

\* Meida_Trans_Exception: 50 seconds without the packet timer.
Meida_Trans_Exception ==
    /\ Sending
    /\ ~PacketTimerRuns
    /\ SendEnd({Served})
    /\ UNCHANGED <<fileSize, Duomeiti_sdFlag, link, startPc, stuff, requests, sent>>

\* Media_RSdMode_Timer while packets are sent on request.
ResendTimer ==
    /\ link # "down" /\ RSD_State = 1
    /\ SD_Data_Flag' = TRUE
    /\ SD_packetNum' = [SD_packetNum EXCEPT ![Media_Type] = Head(resend)]
    /\ SD_flag' = [SD_flag EXCEPT ![Media_Type] = TRUE]
    /\ UNCHANGED <<Media_Type, SD_media_Flag, Media_transmittingFlag, RSD_State,
                   resend, photo_sending, Total_packetNum, fileSize,
                   Duomeiti_sdFlag, link, startPc, stuff, requests, sent>>

\* Mutant: the timeout forgets the file.
WaitTimeoutKeepsFile ==
    /\ link # "down" /\ RSD_State = 2
    /\ Media_Clear_State
    /\ UNCHANGED <<Media_Type, fileVars, fileSize, Duomeiti_sdFlag, link,
                   startPc, stuff, requests, sent>>

\* Media_RSdMode_Timer while the upload waits for the centre.
WaitTimeout ==
    /\ link # "down" /\ RSD_State = 2
    /\ SendEnd({Media_Type})
    /\ UNCHANGED <<fileSize, Duomeiti_sdFlag, link, startPc, stuff, requests, sent>>

-----------------------------------------------------------------------------
(* The centre and the link                                                 *)

\* 0x8800 without a list: the centre has everything.
UploadAcknowledged ==
    /\ link # "down" /\ ~Stuffing
    /\ SendEnd({Media_Type})
    /\ UNCHANGED <<fileSize, Duomeiti_sdFlag, link, startPc, stuff, requests, sent>>

\* 0x8800 with a list, at any time, also late; the packets exist.
RetransmitRequest(list) ==
    /\ link # "down" /\ ~Stuffing
    /\ requests < MaxRequests
    /\ requests' = requests + 1
    /\ RSD_State' = 1 /\ resend' = list
    /\ UNCHANGED <<Media_Type, SD_media_Flag, SD_Data_Flag,
                   Media_transmittingFlag, fileVars, fileSize, Duomeiti_sdFlag,
                   link, startPc, stuff, sent>>

LinkChange(l) ==
    /\ link' = l /\ l # link
    /\ UNCHANGED <<objVars, fileVars, fileSize, Duomeiti_sdFlag, startPc, stuff,
                   requests, sent>>

Lists == {<<n>> : n \in 1 .. fileSize[Media_Type]}
         \cup {<<n, n + 1>> : n \in 1 .. fileSize[Media_Type] - 1}

\* The timers, which interrupt every thread, and the link.
InterruptStep ==
    \/ timeout_app
    \/ PacketTimer
    \/ Meida_Trans_Exception
    \/ ResendTimer
    \/ WaitTimeout
    \/ \E l \in {"down", "online", "login"} : LinkChange(l)

ThreadStep ==
    \/ \E n \in Sizes : Photo_send_started(n)
    \/ \E n \in Sizes : Sound_send_start(n)
    \/ MP3_send_start
    \/ MultimediaTrans
    \/ Stuff_MultiMedia_InfoSD_0800H
    \/ Protocol_Head
    \/ Stuff_MultiMedia_Data_0801H
    \/ UploadAcknowledged
    \/ \E list \in Lists : RetransmitRequest(list)

\* By itself, with pictures that appear whenever the camera may take one.
Next ==
    \/ photo_sending["photo"] = "disable" /\ Photo_send_start
    \/ ThreadStep
    \/ InterruptStep

Spec == Init /\ [][Next]_uploadVars

-----------------------------------------------------------------------------
(* Properties                                                              *)

TypeOK ==
    /\ Media_Type \in Media
    /\ SD_media_Flag \in 0 .. 2 /\ Media_transmittingFlag \in 0 .. 2
    /\ RSD_State \in 0 .. 2 /\ (RSD_State = 1 <=> resend # <<>>)
    /\ SD_Data_Flag \in BOOLEAN
    /\ resend \in Seq(Nat)
    /\ photo_sending \in [Media -> {"disable", "enable", "other"}]
    /\ photo_sending["sound"] # "other"
    /\ SD_flag \in [Media -> BOOLEAN]
    /\ SD_packetNum \in [Media -> Nat] /\ Total_packetNum \in [Media -> Nat]
    /\ fileSize \in [Media -> 0 .. MaxPackets]
    /\ Duomeiti_sdFlag \in BOOLEAN
    /\ link \in {"down", "online", "login"}
    /\ startPc \in {"idle", "query"}
    /\ requests \in 0 .. MaxRequests
    /\ \A m \in Media : sent[m] \subseteq Nat

\* An upload only starts to wait for the centre, at the end of the packets
\* sent in order, once every packet of the file has gone out, whatever other
\* upload, timer or report came in between.
CompleteBeforeWait ==
    [][RSD_State = 0 /\ RSD_State' = 2
         => 1 .. Total_packetNum[Media_Type] \subseteq sent'[Media_Type]]_uploadVars

\* A packet goes out with the numbers of the file its content comes from, even
\* when another upload starts while it is put together.
NoMixedPackets ==
    [][Stuffing /\ ~Stuffing' /\ ~Refused(Media_Type)
         => stuff.m = Media_Type]_uploadVars

\* photo_sending is, by its declaration, the state of sending a picture.  The
\* camera takes no picture while it is set, so whenever it is, MediaObj really
\* works on a picture that is announced or being sent.
PhotoBusyMeansTransfer ==
    photo_sending["photo"] # "disable" =>
      \/ startPc = "query"
      \/ Media_Type = "photo" /\ (SD_media_Flag # 0 \/ Media_transmittingFlag # 0)
=============================================================================
