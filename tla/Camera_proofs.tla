---------------------------- MODULE Camera_proofs ----------------------------
(***************************************************************************)
(* Proofs about the upload of pictures and voice files, for every size of  *)
(* the files, every number of lists from the centre and every combination  *)
(* of uploads, and about taking a picture, for every set of cameras, every *)
(* number of pages and every upload that goes on at the same time.         *)
(*                                                                         *)
(* The steps of the uploads are those of UploadStep, in which a picture    *)
(* may start at any time: the specification of MediaUpload restricts that  *)
(* to a camera that is free, and the take of Camera does not, so both      *)
(* specifications are covered.                                             *)
(***************************************************************************)
EXTENDS Camera, SequenceTheorems, TLAPS

(***************************************************************************)
(* PART 1.  MediaUpload                                                    *)
(***************************************************************************)

UploadStep == Photo_send_start \/ ThreadStep \/ InterruptStep

-----------------------------------------------------------------------------
(* Types                                                                   *)

\* MediaObj.
ObjOK ==
    /\ Media_Type \in Media
    /\ SD_media_Flag \in 0 .. 2 /\ Media_transmittingFlag \in 0 .. 2
    /\ RSD_State \in 0 .. 2 /\ (RSD_State = 1 <=> resend # <<>>)
    /\ resend \in Seq(Nat)

\* Photo_sdState and Sound_sdState.
FilesOK ==
    /\ photo_sending \in [Media -> {"disable", "enable", "other"}]
    /\ photo_sending["sound"] # "other"
    /\ SD_packetNum \in [Media -> Nat] /\ Total_packetNum \in [Media -> Nat]

FlagsOK ==
    /\ SD_Data_Flag \in BOOLEAN /\ Duomeiti_sdFlag \in BOOLEAN
    /\ SD_flag \in [Media -> BOOLEAN]

\* A packet under way has the numbers of a file.
StuffOK == stuff = NoStuff \/ stuff \in [m : Media, cur : Nat, tot : Nat]

RestOK ==
    /\ fileSize \in [Media -> 0 .. MaxPackets]
    /\ link \in {"down", "online", "login"}
    /\ startPc \in {"idle", "query"}
    /\ requests \in 0 .. MaxRequests
    /\ sent \in [Media -> SUBSET Nat]

UploadTypes == ObjOK /\ FilesOK /\ FlagsOK /\ StuffOK /\ RestOK

LEMMA TypesImply == UploadTypes => TypeOK
<1> SUFFICES ASSUME UploadTypes PROVE TypeOK
  OBVIOUS
<1>1. \A m \in Media : sent[m] \subseteq Nat
  BY DEF UploadTypes, RestOK
<1> QED
  BY <1>1, Zenon DEF TypeOK, UploadTypes, ObjOK, FilesOK, FlagsOK, RestOK

LEMMA InitTypes == Init => UploadTypes
<1> SUFFICES ASSUME Init PROVE UploadTypes
  OBVIOUS
<1>1. ObjOK
  BY DEF Init, ObjOK, Media
<1>2. FilesOK
  BY DEF Init, FilesOK, Media
<1>3. FlagsOK
  BY DEF Init, FlagsOK
<1>4. StuffOK /\ RestOK
  BY UploadAssumption DEF Init, StuffOK, RestOK
<1> QED BY <1>1, <1>2, <1>3, <1>4 DEF UploadTypes

\* The file a timer serves is one that is being sent.
LEMMA ServedIsSent ==
    ASSUME Sending
    PROVE  Served \in Media /\ photo_sending[Served] = "enable"
<1>1. \E m \in Media :
        photo_sending[m] = "enable" /\ (m = "sound" => photo_sending["photo"] # "enable")
  BY DEF Sending, Media
<1> QED BY <1>1 DEF Served

\* The end of an upload, Photo_send_end and Sound_send_end.
LEMMA FilesEndTypes ==
    ASSUME FilesOK, FlagsOK, NEW ms, FilesEnd(ms)
    PROVE  FilesOK' /\ SD_flag' \in [Media -> BOOLEAN]
<1>1. FilesOK'
  BY DEF FilesOK, FilesEnd, Media
<1>2. SD_flag' \in [Media -> BOOLEAN]
  BY DEF FlagsOK, FilesEnd
<1> QED BY <1>1, <1>2

LEMMA ClearTypes ==
    ASSUME Media_Clear_State, Media_Type' \in Media
    PROVE  ObjOK' /\ SD_Data_Flag' \in BOOLEAN
<1>1. ObjOK'
  BY DEF Media_Clear_State, ObjOK
<1>2. SD_Data_Flag' \in BOOLEAN
  BY Zenon DEF Media_Clear_State
<1> QED BY <1>1, <1>2

LEMMA StartTypes ==
    ASSUME NEW m \in Media, Media_Start_Init(m)
    PROVE  ObjOK' /\ SD_Data_Flag' \in BOOLEAN
<1>1. ObjOK'
  BY DEF Media_Start_Init, ObjOK
<1>2. SD_Data_Flag' \in BOOLEAN
  BY Zenon DEF Media_Start_Init
<1> QED BY <1>1, <1>2

LEMMA SizesTypes == Sizes \subseteq 0 .. MaxPackets
BY UploadAssumption DEF Sizes

LEMMA ListTypes ==
    ASSUME UploadTypes, NEW list \in Lists
    PROVE  list \in Seq(Nat) /\ list # <<>>
<1>1. fileSize[Media_Type] \in Nat
  BY UploadAssumption DEF UploadTypes, RestOK, ObjOK
<1>2. \A n \in 1 .. fileSize[Media_Type] : <<n>> \in Seq(Nat) /\ <<n>> # <<>>
  BY <1>1
<1>3. \A n \in 1 .. fileSize[Media_Type] - 1 :
        <<n, n + 1>> \in Seq(Nat) /\ <<n, n + 1>> # <<>>
  BY <1>1
<1> QED BY <1>2, <1>3, Zenon DEF Lists

\* The start of an upload, and the announcement.
LEMMA StartsKeepTypes ==
    ASSUME UploadTypes,
           \/ Photo_send_start
           \/ \E n \in Sizes : Photo_send_started(n)
           \/ \E n \in Sizes : Sound_send_start(n)
           \/ MP3_send_start
           \/ MultimediaTrans
           \/ Stuff_MultiMedia_InfoSD_0800H
    PROVE  UploadTypes'
<1> USE DEF UploadTypes, objVars, fileVars
<1>1. CASE Photo_send_start
  <2>1. ObjOK' /\ StuffOK'
    BY <1>1 DEF Photo_send_start, ObjOK, StuffOK
  <2>2. FilesOK'
    BY <1>1 DEF Photo_send_start, FilesOK, Media
  <2>3. FlagsOK'
    BY <1>1 DEF Photo_send_start, FlagsOK, Media
  <2>4. RestOK'
    BY <1>1 DEF Photo_send_start, RestOK
  <2> QED BY <2>1, <2>2, <2>3, <2>4
<1>2. ASSUME NEW n \in Sizes, Photo_send_started(n) PROVE UploadTypes'
  <2>1. ObjOK' /\ SD_Data_Flag' \in BOOLEAN
    BY <1>2, StartTypes DEF Photo_send_started, Media
  <2>2. FilesOK' /\ SD_flag' \in [Media -> BOOLEAN]
    <3>1. CASE n = 0
      BY <1>2, <3>1, FilesEndTypes DEF Photo_send_started
    <3>2. CASE n # 0
      BY <1>2, <3>2, SizesTypes DEF Photo_send_started, FilesOK, FlagsOK, Media
    <3> QED BY <3>1, <3>2
  <2>3. Duomeiti_sdFlag' \in BOOLEAN
    BY <1>2, Zenon DEF Photo_send_started, FlagsOK
  <2>4. RestOK'
    BY <1>2, SizesTypes DEF Photo_send_started, RestOK, Media
  <2>5. StuffOK'
    BY <1>2 DEF Photo_send_started, StuffOK
  <2> QED BY <2>1, <2>2, <2>3, <2>4, <2>5 DEF FlagsOK
<1>3. ASSUME NEW n \in Nat, SoundStarts(n), fileSize' \in [Media -> 0 .. MaxPackets]
      PROVE  UploadTypes'
  <2>1. ObjOK' /\ SD_Data_Flag' \in BOOLEAN
    BY <1>3, StartTypes DEF SoundStarts, Media
  <2>2. FilesOK'
    BY <1>3 DEF SoundStarts, FilesOK, Media
  <2>3. SD_flag' \in [Media -> BOOLEAN] /\ Duomeiti_sdFlag' \in BOOLEAN
    BY <1>3 DEF SoundStarts, FlagsOK
  <2>4. StuffOK' /\ RestOK'
    BY <1>3 DEF SoundStarts, StuffOK, RestOK, Media
  <2> QED BY <2>1, <2>2, <2>3, <2>4 DEF FlagsOK
<1>4. ASSUME NEW n \in Sizes, Sound_send_start(n) PROVE UploadTypes'
  <2>1. n \in 0 .. MaxPackets
    BY SizesTypes
  <2>2. n \in Nat /\ fileSize' \in [Media -> 0 .. MaxPackets]
    BY <1>4, <2>1, UploadAssumption DEF Sound_send_start, RestOK, Media
  <2> QED BY <1>3, <1>4, <2>2 DEF Sound_send_start
<1>5. CASE MP3_send_start
  BY <1>3, <1>5, UploadAssumption DEF MP3_send_start, RestOK
<1>6. CASE MultimediaTrans
  <2>1. ObjOK' /\ FilesOK' /\ StuffOK' /\ RestOK'
    BY <1>6 DEF MultimediaTrans, ObjOK, FilesOK, StuffOK, RestOK, Media
  <2>2. FlagsOK'
    BY <1>6, Zenon DEF MultimediaTrans, FlagsOK
  <2> QED BY <2>1, <2>2
<1>7. CASE Stuff_MultiMedia_InfoSD_0800H
  <2>1. ObjOK' /\ FilesOK' /\ StuffOK' /\ RestOK'
    BY <1>7 DEF Stuff_MultiMedia_InfoSD_0800H, ObjOK, FilesOK, StuffOK, RestOK
  <2>2. FlagsOK'
    BY <1>7, Zenon DEF Stuff_MultiMedia_InfoSD_0800H, FlagsOK
  <2> QED BY <2>1, <2>2
<1> QED BY <1>1, <1>2, <1>4, <1>5, <1>6, <1>7

\* The packets, and the centre.
LEMMA PacketsKeepTypes ==
    ASSUME UploadTypes,
           \/ Protocol_Head
           \/ Stuff_MultiMedia_Data_0801H
           \/ UploadAcknowledged
           \/ \E list \in Lists : RetransmitRequest(list)
    PROVE  UploadTypes'
<1> USE DEF UploadTypes, objVars, fileVars
<1>1. CASE Protocol_Head
  <2>1. ObjOK' /\ FilesOK' /\ RestOK'
    BY <1>1 DEF Protocol_Head, ObjOK, FilesOK, RestOK
  <2>2. FlagsOK'
    BY <1>1, Zenon DEF Protocol_Head, FlagsOK
  <2>3. StuffOK'
    BY <1>1 DEF Protocol_Head, StuffOK, ObjOK, FilesOK
  <2> QED BY <2>1, <2>2, <2>3
<1>2. CASE Stuff_MultiMedia_Data_0801H
  <2>1. FlagsOK'
    <3>1. SD_Data_Flag' \in BOOLEAN /\ Duomeiti_sdFlag' \in BOOLEAN
      BY <1>2, Zenon DEF Stuff_MultiMedia_Data_0801H, FlagsOK
    <3>2. SD_flag' \in [Media -> BOOLEAN]
      BY <1>2 DEF Stuff_MultiMedia_Data_0801H, FlagsOK, ObjOK
    <3> QED BY <3>1, <3>2 DEF FlagsOK
  <2>2. StuffOK'
    BY <1>2 DEF Stuff_MultiMedia_Data_0801H, StuffOK
  <2>3. CASE Refused(Media_Type)
    BY <1>2, <2>1, <2>2, <2>3
       DEF Stuff_MultiMedia_Data_0801H, ObjOK, FilesOK, RestOK
  <2>4. CASE ~Refused(Media_Type)
    <3>1. NextPacket
      BY <1>2, <2>4 DEF Stuff_MultiMedia_Data_0801H
    <3>2. FilesOK'
      <4>1. SD_packetNum' \in [Media -> Nat]
        BY <3>1 DEF NextPacket, FilesOK
      <4> QED BY <1>2, <4>1 DEF Stuff_MultiMedia_Data_0801H, FilesOK
    <3>3. ObjOK'
      <4>1. CASE RSD_State = 1
        <5>1. resend \in Seq(Nat) /\ resend # <<>>
          BY <4>1 DEF ObjOK
        <5>2. Tail(resend) \in Seq(Nat)
          BY <5>1, HeadTailProperties
        <5>3. resend' = Tail(resend) /\ RSD_State' = IF resend' = <<>> THEN 2 ELSE 1
          BY <3>1, <4>1 DEF NextPacket
        <5>4. UNCHANGED <<Media_Type, SD_media_Flag, Media_transmittingFlag>>
          BY <1>2 DEF Stuff_MultiMedia_Data_0801H
        <5> QED BY <5>2, <5>3, <5>4 DEF ObjOK
      <4>2. CASE RSD_State # 1
        BY <1>2, <3>1, <4>2
           DEF Stuff_MultiMedia_Data_0801H, NextPacket, ObjOK
      <4> QED BY <4>1, <4>2
    <3>4. RestOK'
      <4>1. stuff.cur \in Nat
        BY <1>2 DEF Stuff_MultiMedia_Data_0801H, Stuffing, StuffOK
      <4>2. sent' \in [Media -> SUBSET Nat]
        BY <1>2, <2>4, <4>1 DEF Stuff_MultiMedia_Data_0801H, RestOK, ObjOK
      <4> QED BY <1>2, <4>2 DEF Stuff_MultiMedia_Data_0801H, RestOK
    <3> QED BY <2>1, <2>2, <3>2, <3>3, <3>4
  <2> QED BY <2>3, <2>4
<1>3. CASE UploadAcknowledged
  <2>1. ObjOK' /\ SD_Data_Flag' \in BOOLEAN
    BY <1>3, ClearTypes DEF UploadAcknowledged, SendEnd, ObjOK
  <2>2. FilesOK' /\ SD_flag' \in [Media -> BOOLEAN]
    BY <1>3, FilesEndTypes DEF UploadAcknowledged, SendEnd
  <2>3. StuffOK' /\ RestOK' /\ Duomeiti_sdFlag' \in BOOLEAN
    BY <1>3 DEF UploadAcknowledged, StuffOK, RestOK, FlagsOK
  <2> QED BY <2>1, <2>2, <2>3 DEF FlagsOK
<1>4. ASSUME NEW list \in Lists, RetransmitRequest(list) PROVE UploadTypes'
  <2>1. ObjOK'
    BY <1>4, ListTypes DEF RetransmitRequest, ObjOK
  <2>2. FilesOK' /\ StuffOK' /\ RestOK'
    BY <1>4, UploadAssumption DEF RetransmitRequest, FilesOK, StuffOK, RestOK
  <2>3. FlagsOK'
    BY <1>4, Zenon DEF RetransmitRequest, FlagsOK
  <2> QED BY <2>1, <2>2, <2>3
<1> QED BY <1>1, <1>2, <1>3, <1>4

\* The timers and the link.
LEMMA InterruptsKeepTypes ==
    ASSUME UploadTypes, InterruptStep
    PROVE  UploadTypes'
<1> USE DEF UploadTypes, objVars, fileVars
<1>1. ASSUME NEW ms, SendEnd(ms), UNCHANGED <<fileSize, link, startPc, stuff,
                                              requests, sent>>,
             Duomeiti_sdFlag' \in BOOLEAN
      PROVE  UploadTypes'
  <2>1. ObjOK' /\ SD_Data_Flag' \in BOOLEAN
    BY <1>1, ClearTypes DEF SendEnd, ObjOK
  <2>2. FilesOK' /\ SD_flag' \in [Media -> BOOLEAN]
    BY <1>1, FilesEndTypes DEF SendEnd
  <2>3. StuffOK' /\ RestOK'
    BY <1>1 DEF StuffOK, RestOK
  <2> QED BY <1>1, <2>1, <2>2, <2>3 DEF FlagsOK
<1>2. CASE timeout_app
  <2> DEFINE byMenu == Media_transmittingFlag = 1 /\ Duomeiti_sdFlag
  <2>1. Duomeiti_sdFlag' \in BOOLEAN
    BY <1>2, Zenon DEF timeout_app
  <2>2. CASE byMenu
    BY <1>1, <1>2, <2>1, <2>2 DEF timeout_app
  <2>3. CASE ~byMenu /\ SD_media_Flag = 2
    <3>3. ObjOK'
      <4>1. /\ SD_media_Flag' = 0 /\ Media_transmittingFlag' = 1
            /\ RSD_State' = 0 /\ resend' = <<>> /\ Media_Type' = Media_Type
        BY <1>2, <2>3, Zenon DEF timeout_app
      <4> QED BY <4>1 DEF ObjOK
    <3>4. StuffOK' /\ RestOK'
      BY <1>2 DEF timeout_app, StuffOK, RestOK
    <3>1. FilesOK'
      BY <1>2, <2>3 DEF timeout_app, ObjOK, FilesOK, Media
    <3>2. SD_Data_Flag' \in BOOLEAN /\ SD_flag' \in [Media -> BOOLEAN]
      BY <1>2, <2>3, Zenon DEF timeout_app, FlagsOK
    <3> QED BY <2>1, <3>1, <3>2, <3>3, <3>4 DEF FlagsOK
  <2>4. CASE ~byMenu /\ SD_media_Flag # 2
    <3>1. ObjOK' /\ FilesOK' /\ StuffOK' /\ RestOK'
      BY <1>2, <2>4 DEF timeout_app, ObjOK, FilesOK, StuffOK, RestOK
    <3>2. SD_Data_Flag' \in BOOLEAN /\ SD_flag' \in [Media -> BOOLEAN]
      BY <1>2, <2>4, Zenon DEF timeout_app, FlagsOK
    <3> QED BY <2>1, <3>1, <3>2 DEF FlagsOK
  <2> QED BY <2>2, <2>3, <2>4
<1>3. CASE PacketTimer
  <2>1. Served \in Media
    BY <1>3, ServedIsSent DEF PacketTimer, PacketTimerRuns
  <2>2. ObjOK' /\ FilesOK' /\ StuffOK' /\ RestOK'
    BY <1>3 DEF PacketTimer, ObjOK, FilesOK, StuffOK, RestOK
  <2>3. SD_flag' \in [Media -> BOOLEAN]
    BY <1>3, <2>1 DEF PacketTimer, FlagsOK
  <2>4. SD_Data_Flag' \in BOOLEAN /\ Duomeiti_sdFlag' \in BOOLEAN
    BY <1>3, Zenon DEF PacketTimer, FlagsOK
  <2> QED BY <2>2, <2>3, <2>4 DEF FlagsOK
<1>4. CASE Meida_Trans_Exception
  BY <1>1, <1>4 DEF Meida_Trans_Exception, FlagsOK
<1>5. CASE ResendTimer
  <2>1. Head(resend) \in Nat
    BY <1>5, HeadTailProperties DEF ResendTimer, ObjOK
  <2>2. ObjOK' /\ FilesOK' /\ StuffOK' /\ RestOK'
    BY <1>5, <2>1 DEF ResendTimer, ObjOK, FilesOK, StuffOK, RestOK
  <2>3. SD_flag' \in [Media -> BOOLEAN]
    BY <1>5 DEF ResendTimer, FlagsOK, ObjOK
  <2>4. SD_Data_Flag' \in BOOLEAN /\ Duomeiti_sdFlag' \in BOOLEAN
    BY <1>5, Zenon DEF ResendTimer, FlagsOK
  <2> QED BY <2>2, <2>3, <2>4 DEF FlagsOK
<1>6. CASE WaitTimeout
  BY <1>1, <1>6 DEF WaitTimeout, FlagsOK
<1>7. ASSUME NEW l \in {"down", "online", "login"}, LinkChange(l) PROVE UploadTypes'
  <2>1. ObjOK' /\ FilesOK' /\ StuffOK' /\ RestOK'
    BY <1>7 DEF LinkChange, ObjOK, FilesOK, StuffOK, RestOK
  <2>2. FlagsOK'
    BY <1>7, Zenon DEF LinkChange, FlagsOK
  <2> QED BY <2>1, <2>2
<1> QED BY <1>2, <1>3, <1>4, <1>5, <1>6, <1>7 DEF InterruptStep

LEMMA StepTypes == UploadTypes /\ [UploadStep]_uploadVars => UploadTypes'
<1> SUFFICES ASSUME UploadTypes, [UploadStep]_uploadVars PROVE UploadTypes'
  OBVIOUS
<1>1. CASE Photo_send_start \/ ThreadStep
  BY <1>1, StartsKeepTypes, PacketsKeepTypes DEF ThreadStep
<1>2. CASE InterruptStep
  BY <1>2, InterruptsKeepTypes
<1>3. CASE UNCHANGED uploadVars
  BY <1>3 DEF uploadVars, objVars, fileVars, UploadTypes, ObjOK, FilesOK,
              FlagsOK, StuffOK, RestOK
<1> QED BY <1>1, <1>2, <1>3 DEF UploadStep

LEMMA NextIsUploadStep == [Next]_uploadVars => [UploadStep]_uploadVars
BY DEF Next, UploadStep

\* Whatever starts, ends or interrupts an upload, the numbers, states and lists
\* of MediaObj and of the two files stay in their ranges; in particular the
\* list of packets is not empty exactly while packets are sent on request, so
\* that Media_RSdMode_Timer never takes the head of an empty one.
THEOREM UploadTypeCorrect == Spec => []TypeOK
<1>1. Init => UploadTypes
  BY InitTypes
<1>2. UploadTypes /\ [Next]_uploadVars => UploadTypes'
  BY StepTypes, NextIsUploadStep
<1>3. UploadTypes => TypeOK
  BY TypesImply
<1> QED BY <1>1, <1>2, <1>3, PTL DEF Spec

-----------------------------------------------------------------------------
(* A packet and its file                                                   *)

\* While an announcement waits for its second, no packet is due or under way.
NotYet == SD_media_Flag = 2 => Media_transmittingFlag # 2 /\ ~Stuffing

\* A packet under way has the numbers of the file MediaObj works on, or
\* nothing of that file is sent: a sound that starts has stopped the last one.
Own == Stuffing => stuff.m = Media_Type \/ photo_sending[Media_Type] # "enable"

MixInv == UploadTypes /\ NotYet /\ Own

\* Where an upload starts or ends, the announcement is over and the file at
\* work is not being sent.
LEMMA EndIsOwn ==
    ASSUME FilesOK, ObjOK, Own, NEW ms, SendEnd(ms), UNCHANGED stuff
    PROVE  NotYet' /\ Own'
<1>1. NotYet'
  BY DEF SendEnd, Media_Clear_State, NotYet
<1>2. Own'
  BY DEF SendEnd, FilesEnd, Own, Stuffing, ObjOK
<1> QED BY <1>1, <1>2

LEMMA MixInvStep == MixInv /\ [UploadStep]_uploadVars => MixInv'
<1> SUFFICES ASSUME MixInv, [UploadStep]_uploadVars PROVE MixInv'
  OBVIOUS
<1> USE DEF MixInv, NotYet, Own, Stuffing, objVars, fileVars
<1>0. UploadTypes'
  BY StepTypes
<1>t. ObjOK /\ FilesOK
  BY DEF UploadTypes
<1>1. CASE Photo_send_start
  BY <1>0, <1>1 DEF Photo_send_start
<1>2. ASSUME NEW n \in Sizes, Photo_send_started(n) PROVE MixInv'
  BY <1>0, <1>2 DEF Photo_send_started, Media_Start_Init
<1>3. ASSUME NEW n, SoundStarts(n) PROVE MixInv'
  <2>1. SD_media_Flag' = 1 /\ Media_Type' = "sound"
    BY <1>3 DEF SoundStarts, Media_Start_Init
  <2>2. photo_sending'["sound"] = "disable"
    BY <1>3, <1>t DEF SoundStarts, FilesOK, Media
  <2> QED BY <1>0, <2>1, <2>2
<1>4. (\E n \in Sizes : Sound_send_start(n)) \/ MP3_send_start => MixInv'
  BY <1>3 DEF Sound_send_start, MP3_send_start
<1>5. CASE MultimediaTrans
  BY <1>0, <1>5 DEF MultimediaTrans
<1>6. CASE Stuff_MultiMedia_InfoSD_0800H
  BY <1>0, <1>6 DEF Stuff_MultiMedia_InfoSD_0800H
<1>7. CASE Protocol_Head
  BY <1>0, <1>7 DEF Protocol_Head
<1>8. CASE Stuff_MultiMedia_Data_0801H
  BY <1>0, <1>8 DEF Stuff_MultiMedia_Data_0801H
<1>9. CASE UploadAcknowledged
  BY <1>0, <1>t, <1>9, EndIsOwn DEF UploadAcknowledged
<1>10. ASSUME NEW list \in Lists, RetransmitRequest(list) PROVE MixInv'
  BY <1>0, <1>10 DEF RetransmitRequest
<1>11. CASE timeout_app
  <2> DEFINE byMenu == Media_transmittingFlag = 1 /\ Duomeiti_sdFlag
  <2>1. CASE byMenu
    <3>1. SendEnd(Media) /\ UNCHANGED stuff
      BY <1>11, <2>1, Zenon DEF timeout_app
    <3> QED BY <1>0, <1>t, <3>1, EndIsOwn
  <2>2. CASE ~byMenu /\ SD_media_Flag = 2
    <3>1. SD_media_Flag' = 0 /\ stuff' = stuff
      BY <1>11, <2>2, Zenon DEF timeout_app
    <3> QED BY <1>0, <2>2, <3>1
  <2>3. CASE ~byMenu /\ SD_media_Flag # 2
    <3>1. SD_media_Flag' = SD_media_Flag /\ UNCHANGED <<Media_Type, photo_sending, stuff>>
      BY <1>11, <2>3 DEF timeout_app
    <3> QED BY <1>0, <2>3, <3>1
  <2> QED BY <2>1, <2>2, <2>3
<1>12. CASE PacketTimer
  BY <1>0, <1>12 DEF PacketTimer
<1>13. CASE Meida_Trans_Exception
  BY <1>0, <1>t, <1>13, EndIsOwn DEF Meida_Trans_Exception
<1>14. CASE ResendTimer
  BY <1>0, <1>14 DEF ResendTimer
<1>15. CASE WaitTimeout
  BY <1>0, <1>t, <1>15, EndIsOwn DEF WaitTimeout
<1>16. ASSUME NEW l, LinkChange(l) PROVE MixInv'
  BY <1>0, <1>16 DEF LinkChange
<1>17. CASE UNCHANGED uploadVars
  BY <1>0, <1>17 DEF uploadVars
<1>18. CASE ThreadStep
  BY <1>2, <1>4, <1>5, <1>6, <1>7, <1>8, <1>9, <1>10, <1>18 DEF ThreadStep
<1>19. CASE InterruptStep
  BY <1>11, <1>12, <1>13, <1>14, <1>15, <1>16, <1>19 DEF InterruptStep
<1> QED BY <1>1, <1>17, <1>18, <1>19 DEF UploadStep

LEMMA InitMix == Init => MixInv
<1>1. Init => NotYet /\ Own
  BY DEF Init, NotYet, Own, Stuffing
<1> QED BY <1>1, InitTypes DEF MixInv

\* No packet carries the content of one file under the numbers of another,
\* whichever upload starts between Protocol_Head and the rest of
\* Stuff_MultiMedia_Data_0801H.
THEOREM PacketsNotMixed == Spec => NoMixedPackets
<1>1. Init => MixInv
  BY InitMix
<1>2. MixInv /\ [Next]_uploadVars => MixInv'
  BY MixInvStep, NextIsUploadStep
<1>3. MixInv => (Stuffing /\ ~Stuffing' /\ ~Refused(Media_Type) => stuff.m = Media_Type)
  BY DEF MixInv, Own, Refused
<1> QED BY <1>1, <1>2, <1>3, PTL DEF Spec, NoMixedPackets

-----------------------------------------------------------------------------
(* Pictures alone                                                          *)
(*                                                                         *)
(* A sound that starts takes MediaObj away from a picture that has not     *)
(* been sent yet, so the rest holds where no voice files are uploaded.     *)

PhotoOnly == Media_Type = "photo" /\ photo_sending["sound"] = "disable"

\* A packet under way, of a picture still being sent, is part of a transfer.
Going ==
    Stuffing /\ photo_sending["photo"] = "enable" => Media_transmittingFlag = 2

\* While packets are sent in order, the ones before the next have gone out, and
\* the one under way is the next.
InOrder ==
    Media_transmittingFlag # 0 /\ RSD_State = 0 /\ photo_sending["photo"] = "enable"
      => /\ 1 .. SD_packetNum["photo"] - 1 \subseteq sent["photo"]
         /\ Stuffing => /\ stuff.cur = SD_packetNum["photo"]
                        /\ stuff.tot = Total_packetNum["photo"]

PhotoInv ==
    ~VoiceUploads /\ MixInv /\ PhotoOnly /\ Going /\ InOrder /\ PhotoBusyMeansTransfer

LEMMA InitPhoto == ~VoiceUploads /\ Init => PhotoInv
<1> SUFFICES ASSUME ~VoiceUploads, Init PROVE PhotoInv
  OBVIOUS
<1>1. MixInv
  BY InitMix
<1>2. PhotoOnly /\ Going /\ InOrder /\ PhotoBusyMeansTransfer
  BY DEF Init, PhotoOnly, Going, InOrder, PhotoBusyMeansTransfer, Stuffing, Media
<1> QED BY <1>1, <1>2 DEF PhotoInv

\* A timer that serves a file serves the picture.
LEMMA ServedIsPhoto ==
    ASSUME PhotoInv, Sending
    PROVE  Served = "photo"
BY ServedIsSent DEF PhotoInv, PhotoOnly, Media

LEMMA PhotoEnds ==
    ASSUME PhotoInv, NEW ms, "photo" \in ms, SendEnd(ms)
    PROVE  PhotoOnly' /\ Going' /\ InOrder' /\ PhotoBusyMeansTransfer'
<1>1. photo_sending'["photo"] = "disable" /\ photo_sending'["sound"] = "disable"
  BY DEF SendEnd, FilesEnd, Media, PhotoInv, PhotoOnly
<1>2. Media_Type' = "photo"
  BY DEF SendEnd, PhotoInv, PhotoOnly
<1> QED BY <1>1, <1>2 DEF PhotoOnly, Going, InOrder, PhotoBusyMeansTransfer

\* The packet that has gone out is the next one in order, and is counted.
LEMMA PacketInOrder ==
    ASSUME PhotoInv, Stuff_MultiMedia_Data_0801H
    PROVE  /\ PhotoOnly' /\ Going' /\ InOrder' /\ PhotoBusyMeansTransfer'
           /\ RSD_State = 0 /\ RSD_State' = 2
                => 1 .. Total_packetNum["photo"] \subseteq sent'["photo"]
<1>1. PhotoOnly' /\ Going' /\ PhotoBusyMeansTransfer'
  BY DEF Stuff_MultiMedia_Data_0801H, PhotoInv, PhotoOnly, Going,
         PhotoBusyMeansTransfer, Stuffing
<1>2. ~Stuffing' /\ UNCHANGED <<photo_sending, Media_transmittingFlag>>
  BY DEF Stuff_MultiMedia_Data_0801H, Stuffing
<1>3. CASE Refused(Media_Type)
  <2>1. UNCHANGED <<SD_packetNum, sent, RSD_State>>
    BY <1>3 DEF Stuff_MultiMedia_Data_0801H
  <2> QED BY <1>1, <1>2, <2>1 DEF InOrder, PhotoInv
<1>4. CASE ~Refused(Media_Type)
  <2> DEFINE k == SD_packetNum["photo"]
             t == Total_packetNum["photo"]
  <2>1. NextPacket /\ sent' = [sent EXCEPT !["photo"] = @ \cup {stuff.cur}]
    BY <1>4 DEF Stuff_MultiMedia_Data_0801H, PhotoInv, PhotoOnly
  <2>2. photo_sending["photo"] = "enable" /\ ~(stuff.cur > stuff.tot)
    BY <1>4 DEF Refused, PhotoInv, PhotoOnly
  <2>3. Media_transmittingFlag = 2
    BY <2>2 DEF Stuff_MultiMedia_Data_0801H, PhotoInv, Going
  <2>4. k \in Nat /\ t \in Nat /\ sent'["photo"] = sent["photo"] \cup {stuff.cur}
    BY <2>1 DEF PhotoInv, MixInv, UploadTypes, FilesOK, RestOK, Media
  <2>5. CASE RSD_State = 0
    <3>1. 1 .. k - 1 \subseteq sent["photo"] /\ stuff.cur = k /\ stuff.tot = t
      BY <2>2, <2>3, <2>5 DEF Stuff_MultiMedia_Data_0801H, PhotoInv, InOrder
    <3>2. 1 .. k \subseteq sent'["photo"]
      <4>1. 1 .. k \subseteq (1 .. k - 1) \cup {k}
        BY <2>4
      <4> QED BY <2>4, <3>1, <4>1
    <3>3. CASE stuff.cur >= stuff.tot
      <4>1. RSD_State' = 2 /\ k = t
        BY <2>1, <2>2, <2>4, <2>5, <3>1, <3>3 DEF NextPacket
      <4> QED BY <1>1, <3>2, <4>1 DEF InOrder
    <3>4. CASE ~(stuff.cur >= stuff.tot)
      <4>1. RSD_State' = 0
        BY <2>1, <2>4, <2>5, <3>1, <3>4 DEF NextPacket
      <4>2. SD_packetNum'["photo"] = k + 1
        BY <2>1, <2>2, <2>4, <2>5, <3>1, <3>4 DEF NextPacket, Media
      <4>3. 1 .. SD_packetNum'["photo"] - 1 \subseteq sent'["photo"]
        BY <2>4, <3>2, <4>2
      <4> QED BY <1>1, <1>2, <4>1, <4>3 DEF InOrder
    <3> QED BY <3>3, <3>4
  <2>6. CASE RSD_State # 0
    <3>1. RSD_State' # 0
      BY <2>1, <2>6 DEF NextPacket
    <3> QED BY <1>1, <2>6, <3>1 DEF InOrder
  <2> QED BY <2>5, <2>6
<1> QED BY <1>3, <1>4

LEMMA PhotoInvStep ==
    PhotoInv /\ [UploadStep]_uploadVars
      => /\ PhotoInv'
         /\ RSD_State = 0 /\ RSD_State' = 2
              => 1 .. Total_packetNum[Media_Type] \subseteq sent'[Media_Type]
<1> DEFINE Complete == RSD_State = 0 /\ RSD_State' = 2
              => 1 .. Total_packetNum["photo"] \subseteq sent'["photo"]
           Goal == PhotoOnly' /\ Going' /\ InOrder' /\ PhotoBusyMeansTransfer' /\ Complete
<1> SUFFICES ASSUME PhotoInv, [UploadStep]_uploadVars PROVE Goal
  BY MixInvStep DEF PhotoInv, PhotoOnly
<1> USE DEF PhotoOnly, Going, InOrder, PhotoBusyMeansTransfer, objVars, fileVars
<1>t. ObjOK /\ FilesOK /\ NotYet /\ ~VoiceUploads
      /\ PhotoOnly /\ Going /\ InOrder /\ PhotoBusyMeansTransfer
  BY DEF PhotoInv, MixInv, UploadTypes
<1>0. ASSUME NEW ms, "photo" \in ms, SendEnd(ms) PROVE Goal
  <2>1. RSD_State' = 0
    BY <1>0 DEF SendEnd, Media_Clear_State
  <2> QED BY <1>0, <2>1, PhotoEnds
<1>1. CASE Photo_send_start
  BY <1>1, <1>t DEF Photo_send_start, FilesOK, Media
<1>2. ASSUME NEW n \in Sizes, Photo_send_started(n) PROVE Goal
  <2>1. /\ Media_Type' = "photo" /\ SD_media_Flag' = 1
        /\ Media_transmittingFlag' = 0 /\ RSD_State' = 0 /\ ~Stuffing'
    BY <1>2 DEF Photo_send_started, Media_Start_Init, Stuffing
  <2>2. photo_sending'["sound"] = "disable"
    BY <1>2, <1>t DEF Photo_send_started, FilesEnd, Media
  <2> QED BY <2>1, <2>2
<1>3. ~(\E n \in Sizes : Sound_send_start(n)) /\ ~MP3_send_start
  BY <1>t DEF Sound_send_start, MP3_send_start
<1>4. CASE MultimediaTrans
  <2>1. /\ Media_Type' = "photo" /\ SD_media_Flag' = 1 /\ ~Stuffing /\ ~Stuffing'
        /\ UNCHANGED <<Media_transmittingFlag, RSD_State, photo_sending,
                       SD_packetNum, Total_packetNum, sent>>
    BY <1>4 DEF MultimediaTrans, Stuffing
  <2> QED BY <1>t, <2>1
<1>5. CASE Stuff_MultiMedia_InfoSD_0800H
  <2>1. /\ SD_media_Flag' = 2 /\ ~Stuffing /\ ~Stuffing' /\ SD_media_Flag = 1
        /\ UNCHANGED <<Media_Type, Media_transmittingFlag, RSD_State, photo_sending,
                       SD_packetNum, Total_packetNum, sent>>
    BY <1>5 DEF Stuff_MultiMedia_InfoSD_0800H, Stuffing
  <2> QED BY <1>t, <2>1
<1>6. CASE Protocol_Head
  BY <1>6, <1>t DEF Protocol_Head
<1>7. CASE Stuff_MultiMedia_Data_0801H
  BY <1>7, PacketInOrder
<1>8. CASE UploadAcknowledged
  BY <1>0, <1>8, <1>t DEF UploadAcknowledged
<1>9. ASSUME NEW list \in Lists, RetransmitRequest(list) PROVE Goal
  BY <1>9, <1>t DEF RetransmitRequest, Stuffing
<1>10. CASE timeout_app
  <2> DEFINE byMenu == Media_transmittingFlag = 1 /\ Duomeiti_sdFlag
  <2>1. CASE byMenu
    <3>1. SendEnd(Media)
      BY <1>10, <2>1, Zenon DEF timeout_app
    <3> QED BY <1>0, <3>1 DEF Media
  <2>2. CASE ~byMenu /\ SD_media_Flag = 2
    <3>1. /\ photo_sending' = [photo_sending EXCEPT ![Media_Type] = "enable"]
          /\ SD_packetNum' = [SD_packetNum EXCEPT ![Media_Type] = 1]
          /\ Media_transmittingFlag' = 1 /\ RSD_State' = 0
          /\ UNCHANGED <<Media_Type, stuff>>
      BY <1>10, <2>2, Zenon DEF timeout_app
    <3>2. SD_packetNum'["photo"] = 1 /\ photo_sending'["sound"] = "disable"
      BY <1>t, <3>1 DEF FilesOK, Media
    <3>3. ~Stuffing'
      BY <1>t, <2>2, <3>1 DEF NotYet, Stuffing
    <3>4. 1 .. SD_packetNum'["photo"] - 1 = {}
      BY <3>2
    <3> QED BY <1>t, <3>1, <3>2, <3>3, <3>4
  <2>3. CASE ~byMenu /\ SD_media_Flag # 2
    <3>1. /\ Media_transmittingFlag = 1 /\ Media_transmittingFlag' = 2
          /\ UNCHANGED <<Media_Type, SD_media_Flag, RSD_State, fileVars, stuff, sent>>
      BY <1>10, <2>3 DEF timeout_app
    <3> QED BY <1>t, <3>1 DEF Stuffing
  <2> QED BY <2>1, <2>2, <2>3
<1>11. CASE PacketTimer
  <2>1. UNCHANGED <<Media_Type, SD_media_Flag, Media_transmittingFlag, RSD_State,
                    photo_sending, SD_packetNum, Total_packetNum, startPc, stuff, sent>>
    BY <1>11 DEF PacketTimer
  <2> QED BY <1>t, <2>1 DEF Stuffing
<1>12. CASE Meida_Trans_Exception
  BY <1>0, <1>12, ServedIsPhoto DEF Meida_Trans_Exception
<1>13. CASE ResendTimer
  <2>1. /\ RSD_State = 1
        /\ UNCHANGED <<Media_Type, SD_media_Flag, Media_transmittingFlag, RSD_State,
                       photo_sending, startPc, stuff>>
    BY <1>13 DEF ResendTimer
  <2> QED BY <1>t, <2>1 DEF Stuffing
<1>14. CASE WaitTimeout
  BY <1>0, <1>14, <1>t DEF WaitTimeout
<1>15. ASSUME NEW l, LinkChange(l) PROVE Goal
  BY <1>15, <1>t DEF LinkChange, Stuffing
<1>16. CASE UNCHANGED uploadVars
  BY <1>16, <1>t DEF uploadVars, Stuffing
<1>17. CASE ThreadStep
  BY <1>2, <1>3, <1>4, <1>5, <1>6, <1>7, <1>8, <1>9, <1>17 DEF ThreadStep
<1>18. CASE InterruptStep
  BY <1>10, <1>11, <1>12, <1>13, <1>14, <1>15, <1>18 DEF InterruptStep
<1> QED BY <1>1, <1>16, <1>17, <1>18 DEF UploadStep

\* Where no voice files are uploaded, a picture waits for the centre only after
\* every one of its packets went out, in whatever order the timers, the menu,
\* the centre's lists and new pictures come, for a picture of any size.
THEOREM PicturesComplete == ~VoiceUploads => (Spec => CompleteBeforeWait)
<1>1. ~VoiceUploads /\ Init => PhotoInv
  BY InitPhoto
<1>2. PhotoInv /\ [Next]_uploadVars
        => /\ PhotoInv'
           /\ RSD_State = 0 /\ RSD_State' = 2
                => 1 .. Total_packetNum[Media_Type] \subseteq sent'[Media_Type]
  BY PhotoInvStep, NextIsUploadStep
<1> QED BY <1>1, <1>2, PTL DEF Spec, CompleteBeforeWait

\* Where no voice files are uploaded, photo_sending never blocks the camera
\* without a picture that is really being announced or sent.
THEOREM PictureBusy == ~VoiceUploads => (Spec => []PhotoBusyMeansTransfer)
<1>1. ~VoiceUploads /\ Init => PhotoInv
  BY InitPhoto
<1>2. PhotoInv /\ [Next]_uploadVars => PhotoInv'
  BY PhotoInvStep, NextIsUploadStep
<1>3. PhotoInv => PhotoBusyMeansTransfer
  BY DEF PhotoInv
<1> QED BY <1>1, <1>2, <1>3, PTL DEF Spec

(***************************************************************************)
(* PART 2.  Camera                                                         *)
(***************************************************************************)

-----------------------------------------------------------------------------
(* Types                                                                   *)

StatusOK ==
    /\ status \in {"other", "enable", "transfer"}
    /\ timeoutCounter \in 0 .. 6 /\ SingleCamera_TakeRetry \in 0 .. 2
    /\ pc485 \in {"loop", "stored", "send"}

ChannelsOK ==
    /\ Camera_Number \in CameraNums /\ command \in CameraNums
    /\ centre \in CameraNums \cup {0}

SwitchesOK ==
    /\ camera_running \in BOOLEAN /\ create_Flag \in BOOLEAN
    /\ last_package \in BOOLEAN /\ TX_485const_Enable \in BOOLEAN
    /\ powered \in BOOLEAN /\ isp \in BOOLEAN

BusOK ==
    /\ frame \in Pages /\ data \in Pages
    /\ wire \in [kind : {"none", "enable", "transfer"}, cam : CameraNums \cup {0}]

FlashOK ==
    /\ area \in [CameraNums -> [Places -> Pages]]
    /\ pos \in [area : CameraNums, place : 1 .. PicturePages + 1]

CamTypes == StatusOK /\ ChannelsOK /\ SwitchesOK /\ BusOK /\ FlashOK

-----------------------------------------------------------------------------
(* Where a take is                                                         *)

\* Without a take the bus is free; only the hand-over of the last picture may
\* still be under way.
Idle ==
    ~camera_running =>
      /\ status = "other" /\ ~TX_485const_Enable /\ wire = NoWire
      /\ timeoutCounter = 0 /\ ~create_Flag
      /\ pc485 \in {"loop", "send"} /\ (data # NoPage => pc485 = "send")

\* Before the take command is sent, and while the centre's command is between
\* its check and its start, nothing is on the bus and no page is being stored.
Quiet ==
    status = "other" \/ centre # 0 \/ TX_485const_Enable =>
      /\ wire = NoWire /\ ~create_Flag
      /\ pc485 = "send" \/ (pc485 = "loop" /\ data = NoPage)

\* A take that starts during a hand-over has not sent its command yet.
HandOver ==
    pc485 = "send" =>
      /\ wire = NoWire
      /\ camera_running =>
           /\ TX_485const_Enable
           /\ status \in {"enable", "other"} /\ timeoutCounter <= 3

\* The supervision switches the camera off only when nothing is under way.
Late ==
    timeoutCounter >= 4 => camera_running /\ wire = NoWire /\ ThreadHasRun

\* The command on the bus is the one of the take.
Asked ==
    wire # NoWire =>
      /\ wire.kind = status /\ wire.cam = command
      /\ data = NoPage /\ pc485 = "loop"
      /\ wire.kind = "enable" <=> create_Flag

\* A take that waits for its first page.
First ==
    status = "enable" /\ ~TX_485const_Enable /\ pc485 = "loop" =>
      /\ create_Flag /\ ~last_package
      /\ data # NoPage => /\ data = [cam |-> command, page |-> 1]
                          /\ frame \in {NoPage, data}

\* A take that fetches a page: the one that its place in the flash is next for.
More ==
    status = "transfer" /\ pc485 = "loop" =>
      /\ ~create_Flag /\ ~last_package /\ pos.place \in 2 .. PicturePages
      /\ data # NoPage => /\ data = [cam |-> command, page |-> pos.place]
                          /\ frame \in {NoPage, data}
      /\ data = NoPage =>
           frame \in {NoPage, [cam |-> command, page |-> pos.place - 1]}

\* A take between a page stored and what follows it.
Stored ==
    pc485 = "stored" =>
      /\ status # "other" /\ wire = NoWire /\ ~create_Flag
      /\ pos.place \in 2 .. PicturePages + 1
      /\ data = [cam |-> command, page |-> pos.place - 1]
      /\ frame \in {NoPage, data}
      /\ last_package <=> (pos.place = PicturePages + 1)

Flow == Idle /\ Quiet /\ HandOver /\ Late /\ Asked /\ First /\ More /\ Stored

CamInv == CamTypes /\ Flow

\* No page of a camera is the empty one.
LEMMA PagesDiffer ==
    /\ \A c \in CameraNums : \A p : [cam |-> c, page |-> p] # NoPage
    /\ \A k, c : k # "none" => [kind |-> k, cam |-> c] # NoWire
BY CameraAssumption DEF NoPage, NoWire

LEMMA CamInitInv == CamInit => CamInv
<1> SUFFICES ASSUME CamInit PROVE CamInv
  OBVIOUS
<1>1. StatusOK /\ ChannelsOK
  BY CameraAssumption DEF CamInit, StatusOK, ChannelsOK
<1>2. SwitchesOK
  BY Zenon DEF CamInit, SwitchesOK
<1>3. BusOK
  BY CameraAssumption DEF CamInit, BusOK, Pages, NoPage, NoWire
<1>4. FlashOK
  BY CameraAssumption DEF CamInit, FlashOK, Pages, Places, Blank
<1>5. Flow
  BY DEF CamInit, Flow, Idle, Quiet, HandOver, Late, Asked, First, More, Stored
<1> QED BY <1>1, <1>2, <1>3, <1>4, <1>5 DEF CamInv, CamTypes

-----------------------------------------------------------------------------
(* Starting a take                                                         *)

\* Whoever starts a take, and in whatever state of the bus the invariant
\* allows for it, leaves the invariant.
LEMMA StartFlow ==
    ASSUME CamInv, NEW n \in CameraNums, StartUnlessUpdating(n),
           status = "other" \/ centre # 0,
           UNCHANGED <<timeoutCounter, last_package, busVars, fileVars485, isp>>,
           centre' = centre \/ centre' = 0
    PROVE  Flow' /\ status' \in {"other", "enable", "transfer"}
           /\ command' \in CameraNums /\ camera_running' \in BOOLEAN
           /\ create_Flag' \in BOOLEAN /\ TX_485const_Enable' \in BOOLEAN
<1> USE DEF CamInv, CamTypes, StatusOK, ChannelsOK, SwitchesOK, busVars, fileVars485
<1>1. CASE isp
  <2>1. UNCHANGED <<command, create_Flag, camera_running, status, TX_485const_Enable>>
    BY <1>1 DEF StartUnlessUpdating
  <2> QED BY <2>1 DEF Flow, Idle, Quiet, HandOver, Late, Asked, First, More, Stored, ThreadHasRun
<1>2. CASE ~isp /\ ~camera_running /\ photo_sending["photo"] = "disable"
  <2>1. /\ command' = n /\ ~create_Flag' /\ camera_running' /\ status' = "enable"
        /\ TX_485const_Enable' /\ create_Flag' \in BOOLEAN /\ camera_running' \in BOOLEAN
        /\ TX_485const_Enable' \in BOOLEAN
    BY <1>2, Zenon DEF StartUnlessUpdating, Start_Camera
  <2> QED BY <1>2, <2>1 DEF Flow, Idle, Quiet, HandOver, Late, Asked, First, More, Stored, ThreadHasRun
<1>3. CASE ~isp /\ ~(~camera_running /\ photo_sending["photo"] = "disable")
  <2>1. /\ command' = n /\ ~create_Flag' /\ camera_running' = camera_running
        /\ status' = "other" /\ TX_485const_Enable' = TX_485const_Enable
        /\ create_Flag' \in BOOLEAN
    BY <1>3, Zenon DEF StartUnlessUpdating, Start_Camera
  <2> QED BY <1>3, <2>1 DEF Flow, Idle, Quiet, HandOver, Late, Asked, First, More, Stored, ThreadHasRun
<1> QED BY <1>1, <1>2, <1>3

LEMMA StartsKeep ==
    ASSUME CamInv,
           \/ \E n \in CameraNums : CentreTake(n)
           \/ CentreStart
           \/ OpenDoor_TakePhoto
           \/ \E n \in CameraNums : takephoto(n)
    PROVE  CamInv'
<1> USE DEF CamInv, CamTypes, stateVars, takeVars, busVars, fileVars485
<1>1. ASSUME NEW n \in CameraNums, CentreTake(n) PROVE CamInv'
  <2>1. status = "other" /\ Camera_Number' = n /\ centre' = n
    BY <1>1 DEF CentreTake, Camera_Take_Enable
  <2>2. StatusOK' /\ ChannelsOK' /\ BusOK' /\ FlashOK'
    BY <1>1, <2>1 DEF CentreTake, StatusOK, ChannelsOK, BusOK, FlashOK
  <2>3. SwitchesOK'
    BY <1>1, Zenon DEF CentreTake, SwitchesOK
  <2>4. Flow'
    BY <1>1, <2>1 DEF CentreTake, Flow, Idle, Quiet, HandOver, Late, Asked, First,
                      More, Stored, ThreadHasRun
  <2> QED BY <2>2, <2>3, <2>4
<1>2. CASE CentreStart
  <2>1. centre # 0 /\ centre \in CameraNums /\ centre' = 0
    BY <1>2 DEF CentreStart, ChannelsOK
  <2>2. /\ Flow' /\ status' \in {"other", "enable", "transfer"}
        /\ command' \in CameraNums /\ camera_running' \in BOOLEAN
        /\ create_Flag' \in BOOLEAN /\ TX_485const_Enable' \in BOOLEAN
    BY <1>2, <2>1, StartFlow DEF CentreStart
  <2>3. StatusOK' /\ ChannelsOK' /\ BusOK' /\ FlashOK'
    BY <1>2, <2>1, <2>2 DEF CentreStart, StatusOK, ChannelsOK, BusOK, FlashOK
  <2>4. SwitchesOK'
    BY <1>2, <2>2, Zenon DEF CentreStart, SwitchesOK
  <2> QED BY <2>2, <2>3, <2>4
<1>3. CASE OpenDoor_TakePhoto
  <2>1. status = "other" /\ 1 \in CameraNums
    BY <1>3, CameraAssumption DEF OpenDoor_TakePhoto, Camera_Take_Enable
  <2>2. /\ Flow' /\ status' \in {"other", "enable", "transfer"}
        /\ command' \in CameraNums /\ camera_running' \in BOOLEAN
        /\ create_Flag' \in BOOLEAN /\ TX_485const_Enable' \in BOOLEAN
    BY <1>3, <2>1, StartFlow DEF OpenDoor_TakePhoto
  <2>3. StatusOK' /\ ChannelsOK' /\ BusOK' /\ FlashOK'
    BY <1>3, <2>1, <2>2 DEF OpenDoor_TakePhoto, StatusOK, ChannelsOK, BusOK, FlashOK
  <2>4. SwitchesOK'
    BY <1>3, <2>2, Zenon DEF OpenDoor_TakePhoto, SwitchesOK
  <2> QED BY <2>2, <2>3, <2>4
<1>4. ASSUME NEW n \in CameraNums, takephoto(n) PROVE CamInv'
  <2>1. CASE Camera_Take_Enable
    <3>1. status = "other"
      BY <2>1 DEF Camera_Take_Enable
    <3>2. /\ Flow' /\ status' \in {"other", "enable", "transfer"}
          /\ command' \in CameraNums /\ camera_running' \in BOOLEAN
          /\ create_Flag' \in BOOLEAN /\ TX_485const_Enable' \in BOOLEAN
      BY <1>4, <2>1, <3>1, StartFlow DEF takephoto
    <3>3. StatusOK' /\ ChannelsOK' /\ BusOK' /\ FlashOK'
      BY <1>4, <3>2 DEF takephoto, StatusOK, ChannelsOK, BusOK, FlashOK
    <3>4. SwitchesOK'
      BY <1>4, <3>2, Zenon DEF takephoto, SwitchesOK
    <3> QED BY <3>2, <3>3, <3>4
  <2>2. CASE ~Camera_Take_Enable
    <3>1. UNCHANGED <<command, create_Flag, camera_running, status, TX_485const_Enable>>
      BY <1>4, <2>2 DEF takephoto
    <3>2. StatusOK' /\ ChannelsOK' /\ BusOK' /\ FlashOK'
      BY <1>4, <3>1 DEF takephoto, StatusOK, ChannelsOK, BusOK, FlashOK
    <3>3. SwitchesOK'
      BY <1>4, <3>1, Zenon DEF takephoto, SwitchesOK
    <3>4. Flow'
      BY <1>4, <3>1 DEF takephoto, Flow, Idle, Quiet, HandOver, Late, Asked, First,
                        More, Stored, ThreadHasRun
    <3> QED BY <3>2, <3>3, <3>4
  <2> QED BY <2>1, <2>2
<1> QED BY <1>1, <1>2, <1>3, <1>4

-----------------------------------------------------------------------------
(* The 485 thread                                                          *)

LEMMA SendKeeps ==
    ASSUME CamInv, Send_const485
    PROVE  CamInv'
<1> USE DEF CamInv, CamTypes, busVars, fileVars485
<1>1. /\ pc485 = "loop" /\ centre = 0 /\ TX_485const_Enable /\ ~TX_485const_Enable'
      /\ wire = NoWire /\ data = NoPage /\ ~create_Flag
  BY DEF Send_const485, Runs485, Flow, Quiet
<1>2. UNCHANGED <<status, camera_running, SingleCamera_TakeRetry, command, powered,
                  frame, data, pc485, area, pos, handed, Camera_Number, centre, isp>>
  BY DEF Send_const485
<1>3. CASE status = "other"
  <2>1. UNCHANGED <<wire, create_Flag, last_package, timeoutCounter>>
    BY <1>3 DEF Send_const485
  <2>2. StatusOK' /\ ChannelsOK' /\ BusOK' /\ FlashOK'
    BY <1>2, <2>1 DEF StatusOK, ChannelsOK, BusOK, FlashOK
  <2>3. SwitchesOK'
    BY <1>2, <2>1, Zenon DEF Send_const485, SwitchesOK
  <2>4. Flow'
    BY <1>1, <1>2, <1>3, <2>1 DEF Flow, Idle, Quiet, HandOver, Late, Asked, First,
                      More, Stored, ThreadHasRun
  <2> QED BY <2>2, <2>3, <2>4
<1>4. CASE status # "other"
  <2>1. /\ wire' \in {NoWire, [kind |-> status, cam |-> command]}
        /\ timeoutCounter' = 0
    BY <1>4 DEF Send_const485
  <2>2. /\ create_Flag' \in BOOLEAN /\ last_package' \in BOOLEAN
        /\ create_Flag' <=> (status = "enable" \/ create_Flag)
        /\ last_package' <=> (status # "enable" /\ last_package)
    BY <1>4, Zenon DEF Send_const485
  <2>3. StatusOK' /\ ChannelsOK' /\ FlashOK'
    BY <1>2, <2>1 DEF StatusOK, ChannelsOK, FlashOK
  <2>4. BusOK'
    BY <1>2, <1>4, <2>1 DEF StatusOK, ChannelsOK, BusOK, NoWire
  <2>5. SwitchesOK'
    BY <1>2, <2>2, Zenon DEF Send_const485, SwitchesOK
  <2>6. Flow'
    BY <1>1, <1>2, <1>4, <2>1, <2>2
       DEF Flow, Idle, Quiet, HandOver, Late, Asked, First, More, Stored, ThreadHasRun,
           StatusOK
  <2> QED BY <2>3, <2>4, <2>5, <2>6
<1> QED BY <1>3, <1>4

\* A page that the 485 thread finds is the next page of the take under way.
LEMMA PageIsNext ==
    ASSUME CamInv, pc485 = "loop", data # NoPage
    PROVE  /\ centre = 0 /\ ~TX_485const_Enable /\ wire = NoWire
           /\ status \in {"enable", "transfer"} /\ camera_running
           /\ frame \in {NoPage, data} /\ ~last_package
           /\ status = "enable" =>
                create_Flag /\ data = [cam |-> command, page |-> 1]
           /\ status = "transfer" =>
                /\ ~create_Flag /\ pos.place \in 2 .. PicturePages
                /\ data = [cam |-> command, page |-> pos.place]
BY DEF CamInv, CamTypes, StatusOK, Flow, Idle, Quiet, Asked, First, More

LEMMA StoreKeeps ==
    ASSUME CamInv, StorePage
    PROVE  CamInv'
<1> USE DEF CamInv, CamTypes, busVars
<1> DEFINE first == [area |-> Camera_Number, place |-> 1]
           p     == IF create_Flag THEN first ELSE pos
<1>1. /\ pc485 = "loop" /\ data # NoPage /\ pc485' = "stored"
      /\ UNCHANGED <<status, camera_running, timeoutCounter, TX_485const_Enable,
                     SingleCamera_TakeRetry, command, powered, wire, frame, data,
                     Camera_Number, centre, isp>>
      /\ pos' = [p EXCEPT !.place = @ + 1]
      /\ area' = WritePage(IF create_Flag THEN Erased ELSE area, p)
  BY DEF StorePage
<1>2. /\ create_Flag' = FALSE /\ create_Flag' \in BOOLEAN /\ last_package' \in BOOLEAN
      /\ last_package' <=> (last_package \/ data.page = PicturePages)
  BY Zenon DEF StorePage
<1>3. /\ p \in [area : CameraNums, place : 1 .. PicturePages]
      /\ data = [cam |-> command, page |-> p.place]
      /\ pos' \in [area : CameraNums, place : 2 .. PicturePages + 1]
      /\ pos'.place = p.place + 1
  <2>1. CASE status = "enable"
    <3>1. p = first
      BY <1>1, <2>1, PageIsNext
    <3> QED BY <1>1, <2>1, <3>1, PageIsNext, CameraAssumption DEF ChannelsOK
  <2>2. CASE status = "transfer"
    <3>1. p = pos
      BY <1>1, <2>2, PageIsNext
    <3> QED BY <1>1, <2>2, <3>1, PageIsNext, CameraAssumption DEF FlashOK
  <2> QED BY <1>1, <2>1, <2>2, PageIsNext
<1>4. area' \in [CameraNums -> [Places -> Pages]]
  <2>1. Blank \in Pages /\ Garbled \in Pages /\ data \in Pages
    BY CameraAssumption DEF Blank, Garbled, Pages, BusOK
  <2>2. (IF create_Flag THEN Erased ELSE area) \in [CameraNums -> [Places -> Pages]]
    BY <2>1 DEF Erased, FlashOK
  <2> QED BY <1>1, <1>3, <2>1, <2>2 DEF WritePage
<1>5. StatusOK' /\ ChannelsOK' /\ BusOK'
  BY <1>1 DEF StatusOK, ChannelsOK, BusOK
<1>6. FlashOK'
  BY <1>3, <1>4, CameraAssumption DEF FlashOK
<1>7. SwitchesOK'
  BY <1>1, <1>2, Zenon DEF SwitchesOK
<1>8. Stored'
  <2>1. pos'.place \in 2 .. PicturePages + 1 /\ data' = [cam |-> command', page |-> pos'.place - 1]
    BY <1>1, <1>3, CameraAssumption
  <2>2. last_package' <=> (pos'.place = PicturePages + 1)
    BY <1>1, <1>2, <1>3, PageIsNext, CameraAssumption
  <2> QED BY <1>1, <1>2, <2>1, <2>2, PageIsNext DEF Stored
<1>9. Flow'
  BY <1>1, <1>2, <1>8, PageIsNext
     DEF Flow, Idle, Quiet, HandOver, Late, Asked, First, More, ThreadHasRun
<1> QED BY <1>5, <1>6, <1>7, <1>9

LEMMA FetchKeeps ==
    ASSUME CamInv, FetchNext
    PROVE  CamInv'
<1> USE DEF CamInv, CamTypes
<1>1. /\ pc485 = "stored" /\ ~last_package /\ status' = "transfer"
      /\ data' = NoPage /\ pc485' = "loop"
      /\ UNCHANGED <<camera_running, create_Flag, timeoutCounter, last_package,
                     SingleCamera_TakeRetry, command, powered, wire, frame, area, pos,
                     Camera_Number, centre, isp>>
  BY DEF FetchNext
<1>2. TX_485const_Enable' /\ TX_485const_Enable' \in BOOLEAN
  BY Zenon DEF FetchNext
<1>3. StatusOK' /\ ChannelsOK' /\ FlashOK'
  BY <1>1 DEF StatusOK, ChannelsOK, FlashOK
<1>4. BusOK'
  BY <1>1, CameraAssumption DEF BusOK, NoPage, Pages
<1>5. SwitchesOK'
  BY <1>1, <1>2, Zenon DEF SwitchesOK
<1>6. More'
  <2>1. /\ ~create_Flag /\ pos.place \in 2 .. PicturePages + 1
        /\ data = [cam |-> command, page |-> pos.place - 1] /\ frame \in {NoPage, data}
        /\ last_package <=> (pos.place = PicturePages + 1)
    BY <1>1 DEF Flow, Stored
  <2>2. pos.place \in 2 .. PicturePages
    BY <1>1, <2>1, CameraAssumption
  <2>3. frame' \in {NoPage, [cam |-> command', page |-> pos'.place - 1]}
    BY <1>1, <2>1
  <2> QED BY <1>1, <2>1, <2>2, <2>3 DEF More
<1>7. Flow'
  BY <1>1, <1>2, <1>6
     DEF Flow, Idle, Quiet, HandOver, Late, Asked, First, Stored, ThreadHasRun
<1> QED BY <1>3, <1>4, <1>5, <1>7

LEMMA EndKeeps ==
    ASSUME CamInv, PictureEnds
    PROVE  CamInv'
<1> USE DEF CamInv, CamTypes, takeVars, busVars
<1>1. /\ pc485 = "stored" /\ pc485' = "send" /\ status' = "other" /\ timeoutCounter' = 0
      /\ UNCHANGED <<last_package, TX_485const_Enable, SingleCamera_TakeRetry, command,
                     powered, wire, frame, data, area, pos, Camera_Number, centre, isp>>
  BY DEF PictureEnds, End_Camera
<1>2. ~camera_running' /\ ~create_Flag' /\ camera_running' \in BOOLEAN /\ create_Flag' \in BOOLEAN
  BY Zenon DEF PictureEnds, End_Camera
<1>3. StatusOK' /\ ChannelsOK' /\ BusOK' /\ FlashOK'
  BY <1>1 DEF StatusOK, ChannelsOK, BusOK, FlashOK
<1>4. SwitchesOK'
  BY <1>1, <1>2, Zenon DEF SwitchesOK
<1>5. Flow'
  BY <1>1, <1>2
     DEF Flow, Idle, Quiet, HandOver, Late, Asked, First, More, Stored, ThreadHasRun
<1> QED BY <1>3, <1>4, <1>5

LEMMA HandedKeeps ==
    ASSUME CamInv, PictureHanded
    PROVE  CamInv'
<1> USE DEF CamInv, CamTypes, stateVars, takeVars
<1>1. /\ pc485 = "send" /\ pc485' = "loop" /\ data' = NoPage
      /\ UNCHANGED <<status, camera_running, create_Flag, timeoutCounter, last_package,
                     TX_485const_Enable, SingleCamera_TakeRetry, command, powered, wire,
                     frame, area, pos, Camera_Number, centre, isp>>
  BY DEF PictureHanded
<1>2. StatusOK' /\ ChannelsOK' /\ FlashOK'
  BY <1>1 DEF StatusOK, ChannelsOK, FlashOK
<1>3. BusOK'
  BY <1>1, CameraAssumption DEF BusOK, NoPage, Pages
<1>4. SwitchesOK'
  BY <1>1, Zenon DEF SwitchesOK
<1>5. Flow'
  BY <1>1
     DEF Flow, Idle, Quiet, HandOver, Late, Asked, First, More, Stored, ThreadHasRun
<1> QED BY <1>2, <1>3, <1>4, <1>5

-----------------------------------------------------------------------------
(* The supervision and the camera                                          *)

LEMMA ExceptionKeeps ==
    ASSUME CamInv, Camra_Take_Exception
    PROVE  CamInv'
<1> USE DEF CamInv, CamTypes, fileVars485
<1>1. /\ camera_running /\ (timeoutCounter >= 3 => ThreadHasRun)
      /\ wire' \in {wire, NoWire} /\ frame' \in {frame, NoPage}
      /\ timeoutCounter = 3 => wire' = NoWire
      /\ UNCHANGED <<last_package, data, pc485, area, pos, Camera_Number, centre, isp>>
  <2>1. timeoutCounter = 3 => powered' = FALSE
    BY DEF Camra_Take_Exception
  <2> QED BY <2>1 DEF Camra_Take_Exception
<1>2. powered' \in BOOLEAN
  BY DEF Camra_Take_Exception, SwitchesOK
<1>3. BusOK' /\ FlashOK'
  BY <1>1, CameraAssumption DEF BusOK, FlashOK, NoPage, NoWire, Pages
<1>4. CASE timeoutCounter = 6
  <2>1. Retry /\ wire' = NoWire
    BY <1>1, <1>4 DEF Camra_Take_Exception, Flow, Late
  <2>2. SingleCamera_TakeRetry' \in 0 .. 2
    BY <2>1 DEF Retry, StatusOK
  <2>3. timeoutCounter' = 0
    BY <2>1, Zenon DEF Retry, End_Camera
  <2>4. \/ /\ status' = "other" /\ ~camera_running' /\ command' = command
           /\ TX_485const_Enable' = TX_485const_Enable
        \/ /\ status' = "other" /\ ~camera_running' /\ command' = Camera_Number
           /\ TX_485const_Enable' = TX_485const_Enable
        \/ /\ status' = "enable" /\ camera_running' /\ command' = Camera_Number
           /\ TX_485const_Enable'
    BY <2>1, Zenon DEF Retry, End_Camera, Start_Camera
  <2>5. /\ ~create_Flag' /\ create_Flag' \in BOOLEAN /\ camera_running' \in BOOLEAN
        /\ TX_485const_Enable' \in BOOLEAN
    BY <2>1, Zenon DEF Retry, End_Camera, Start_Camera, SwitchesOK
  <2>6. StatusOK' /\ ChannelsOK'
    BY <1>1, <2>2, <2>3, <2>4 DEF StatusOK, ChannelsOK
  <2>7. SwitchesOK'
    BY <1>1, <1>2, <2>5, Zenon DEF SwitchesOK
  <2>8. Flow'
    BY <1>1, <1>4, <2>1, <2>3, <2>4, <2>5
       DEF Flow, Idle, Quiet, HandOver, Late, Asked, First, More, Stored, ThreadHasRun
  <2> QED BY <1>3, <2>6, <2>7, <2>8
<1>5. CASE timeoutCounter # 6
  <2>1. /\ timeoutCounter' = timeoutCounter + 1
        /\ UNCHANGED <<status, camera_running, create_Flag, command,
                       TX_485const_Enable, SingleCamera_TakeRetry>>
    BY <1>5 DEF Camra_Take_Exception
  <2>2. StatusOK' /\ ChannelsOK'
    BY <1>1, <1>5, <2>1 DEF StatusOK, ChannelsOK
  <2>3. SwitchesOK'
    BY <1>1, <1>2, <2>1, Zenon DEF SwitchesOK
  <2>4. Late'
    BY <1>1, <2>1 DEF StatusOK, Flow, Late, ThreadHasRun
  <2>5. Idle' /\ Quiet' /\ Asked'
    BY <1>1, <2>1 DEF Flow, Idle, Quiet, Asked
  <2>6. HandOver'
    BY <1>1, <2>1 DEF StatusOK, Flow, HandOver, ThreadHasRun
  <2>7. First' /\ More' /\ Stored'
    BY <1>1, <2>1 DEF Flow, First, More, Stored
  <2> QED BY <1>3, <2>2, <2>3, <2>4, <2>5, <2>6, <2>7 DEF Flow
<1> QED BY <1>4, <1>5

LEMMA AnswerKeeps ==
    ASSUME CamInv, CameraAnswers \/ CameraSilent
    PROVE  CamInv'
<1> USE DEF CamInv, CamTypes, stateVars, takeVars, fileVars485
<1>1. /\ wire # NoWire /\ wire' = NoWire
      /\ UNCHANGED <<status, camera_running, create_Flag, timeoutCounter, last_package,
                     TX_485const_Enable, SingleCamera_TakeRetry, command, powered,
                     pc485, area, pos, Camera_Number, centre, isp>>
  BY DEF CameraAnswers, CameraSilent
<1>2. /\ wire.kind = status /\ wire.cam = command /\ data = NoPage /\ pc485 = "loop"
      /\ status \in {"enable", "transfer"} /\ ~TX_485const_Enable /\ centre = 0
      /\ timeoutCounter < 4 /\ camera_running
  BY <1>1 DEF StatusOK, Flow, Asked, Quiet, Late, Idle
<1>3. StatusOK' /\ ChannelsOK' /\ FlashOK'
  BY <1>1 DEF StatusOK, ChannelsOK, FlashOK
<1>4. SwitchesOK'
  BY <1>1, Zenon DEF SwitchesOK
<1>5. ASSUME frame' \in Pages, data' \in Pages,
             status = "enable" /\ data' # NoPage =>
               data' = [cam |-> command, page |-> 1] /\ frame' = data',
             status = "transfer" /\ data' # NoPage =>
               data' = [cam |-> command, page |-> pos.place] /\ frame' = data',
             data' = NoPage => frame' = frame
      PROVE  CamInv'
  <2>1. BusOK'
    BY <1>1, <1>5 DEF BusOK, NoWire
  <2>2. First' /\ More'
    BY <1>1, <1>2, <1>5 DEF Flow, First, More
  <2>3. Idle' /\ Quiet' /\ HandOver' /\ Late' /\ Asked' /\ Stored'
    BY <1>1, <1>2 DEF Flow, Idle, Quiet, HandOver, Late, Asked, Stored
  <2> QED BY <1>3, <1>4, <2>1, <2>2, <2>3 DEF Flow
<1>6. CASE CameraSilent
  BY <1>2, <1>5, <1>6 DEF CameraSilent, BusOK
<1>7. CASE CameraAnswers /\ status = "enable"
  <2>1. data' = [cam |-> command, page |-> 1] /\ frame' = data'
    BY <1>2, <1>7 DEF CameraAnswers
  <2>2. data' \in Pages /\ data' # NoPage
    BY <2>1, CameraAssumption, PagesDiffer DEF Pages, ChannelsOK
  <2> QED BY <1>5, <1>7, <2>1, <2>2
<1>8. CASE CameraAnswers /\ status = "transfer"
  <2>1. /\ frame.cam = command /\ frame.page < PicturePages
        /\ data' = [frame EXCEPT !.page = @ + 1] /\ frame' = data'
    BY <1>2, <1>8 DEF CameraAnswers
  <2>2. frame # NoPage
    BY <2>1, CameraAssumption DEF ChannelsOK, NoPage
  <2>3. frame = [cam |-> command, page |-> pos.place - 1]
    BY <1>2, <1>8, <2>2 DEF Flow, More
  <2>4. data' = [cam |-> command, page |-> pos.place]
    BY <2>1, <2>3 DEF FlashOK
  <2>5. data' \in Pages /\ data' # NoPage
    BY <2>1, <2>4, CameraAssumption, PagesDiffer DEF BusOK, Pages, ChannelsOK
  <2> QED BY <1>5, <1>8, <2>1, <2>4, <2>5
<1> QED BY <1>2, <1>6, <1>7, <1>8

LEMMA OthersKeep ==
    ASSUME CamInv, UNCHANGED cameraVars \/ \E b \in BOOLEAN : RemoteUpdate(b)
    PROVE  CamInv'
<1> USE DEF CamInv, CamTypes, cameraVars, stateVars, takeVars, busVars, fileVars485
<1>1. UNCHANGED <<stateVars, takeVars, busVars, pc485, area, pos, Camera_Number, centre>>
  BY DEF RemoteUpdate
<1>2. isp' \in BOOLEAN
  BY Zenon DEF RemoteUpdate, SwitchesOK
<1>3. StatusOK' /\ ChannelsOK' /\ BusOK' /\ FlashOK'
  BY <1>1 DEF StatusOK, ChannelsOK, BusOK, FlashOK
<1>4. SwitchesOK'
  BY <1>1, <1>2 DEF SwitchesOK
<1>5. Flow'
  BY <1>1
     DEF Flow, Idle, Quiet, HandOver, Late, Asked, First, More, Stored, ThreadHasRun
<1> QED BY <1>3, <1>4, <1>5

LEMMA CamInvStep == CamInv /\ [CamNext]_camVars => CamInv'
<1> SUFFICES ASSUME CamInv, [CamNext]_camVars PROVE CamInv'
  OBVIOUS
<1>1. CASE UNCHANGED camVars
  BY <1>1, OthersKeep DEF camVars
<1>2. CASE AppSteps(ThreadStep)
  BY <1>2, OthersKeep DEF AppSteps
<1>3. CASE InterruptStep /\ UNCHANGED cameraVars
  BY <1>3, OthersKeep
<1> QED BY <1>1, <1>2, <1>3, StartsKeep, SendKeeps, StoreKeeps, FetchKeeps, EndKeeps,
           HandedKeeps, ExceptionKeeps, AnswerKeeps, OthersKeep DEF CamNext

\* To the upload, a step of the camera is the start of a picture or a step of
\* its own.
LEMMA CamStepIsUploadStep == [CamNext]_camVars => [UploadStep]_uploadVars
<1> SUFFICES ASSUME [CamNext]_camVars PROVE [UploadStep]_uploadVars
  OBVIOUS
<1>1. CASE UNCHANGED camVars
  BY <1>1 DEF camVars
<1>2. ((\E n \in CameraNums : CentreTake(n) \/ takephoto(n)) \/ CentreStart
         \/ OpenDoor_TakePhoto) => UNCHANGED uploadVars
  BY Zenon DEF CentreTake, takephoto, CentreStart, OpenDoor_TakePhoto
<1>3. (Send_const485 \/ StorePage \/ FetchNext \/ PictureEnds) => UNCHANGED uploadVars
  BY Zenon DEF Send_const485, StorePage, FetchNext, PictureEnds
<1>4. (Camra_Take_Exception \/ CameraAnswers \/ CameraSilent
         \/ \E b \in BOOLEAN : RemoteUpdate(b)) => UNCHANGED uploadVars
  BY Zenon DEF Camra_Take_Exception, CameraAnswers, CameraSilent, RemoteUpdate
<1>5. PictureHanded => UploadStep
  BY DEF PictureHanded, UploadStep
<1>6. AppSteps(ThreadStep) \/ InterruptStep => UploadStep
  BY DEF AppSteps, UploadStep
<1> QED BY <1>1, <1>2, <1>3, <1>4, <1>5, <1>6, Zenon DEF CamNext

\* Every state the 485 thread, the supervision, the door, the centre, the
\* console and the camera can bring a take into has its fields in range.
THEOREM CamTypeCorrect == CamSpec => []CamTypeOK
<1>1. CamInit => UploadTypes /\ CamInv
  BY InitTypes, CamInitInv DEF CamInit
<1>2. UploadTypes /\ CamInv /\ [CamNext]_camVars => (UploadTypes /\ CamInv)'
  BY CamStepIsUploadStep, StepTypes, CamInvStep
<1>3. UploadTypes /\ CamInv => CamTypeOK
  <2> SUFFICES ASSUME UploadTypes, CamInv PROVE CamTypeOK
    OBVIOUS
  <2>1. TypeOK
    BY TypesImply
  <2> QED BY <2>1, Zenon DEF CamInv, CamTypes, StatusOK, ChannelsOK, SwitchesOK,
                             BusOK, FlashOK, CamTypeOK
<1> QED BY <1>1, <1>2, <1>3, PTL DEF CamSpec

\* No order of commands, door openings, retries and remote updates leaves the
\* bus in use for a picture without the supervision that would end it.
THEOREM TakeIsSupervised == CamSpec => []TakeSupervised
<1>1. CamInv => TakeSupervised
  BY DEF CamInv, Flow, Idle, TakeSupervised
<1> QED BY <1>1, CamInitInv, CamInvStep, PTL DEF CamSpec

-----------------------------------------------------------------------------
(* What the flash holds                                                    *)
(*                                                                         *)
(* The console changes the channel in the middle of a take, and channel 4  *)
(* erases the area of channel 3: the rest is about the other commands.     *)

\* While a picture is received, the pages so far are in the area of its
\* channel, in order, all of one frame; the rest of the area is erased.
Content ==
    status = "transfer" \/ pc485 = "stored" =>
      /\ pos.area = Camera_Number
      /\ \A i \in Places :
           area[Camera_Number][i] =
             IF i < pos.place THEN [cam |-> command, page |-> i] ELSE Blank

WholeInv == ~Console /\ 4 \notin CameraNums /\ CamInv /\ Content /\ PictureWhole

LEMMA StoreContent ==
    ASSUME WholeInv, StorePage
    PROVE  Content'
<1> USE DEF WholeInv, CamInv, CamTypes
<1> DEFINE n == Camera_Number
           first == [area |-> n, place |-> 1]
           p     == IF create_Flag THEN first ELSE pos
           a     == IF create_Flag THEN Erased ELSE area
<1>1. /\ pc485 = "loop" /\ data # NoPage
      /\ UNCHANGED <<command, data, Camera_Number>>
      /\ pos' = [p EXCEPT !.place = @ + 1] /\ area' = WritePage(a, p)
  BY DEF StorePage, busVars
<1>2. n \in CameraNums /\ ErasedFor(n) = n
  BY DEF ChannelsOK, ErasedFor
<1>3. /\ p.area = n /\ p.place \in Places /\ data = [cam |-> command, page |-> p.place]
      /\ pos'.area = n /\ pos'.place = p.place + 1
      /\ a \in [CameraNums -> [Places -> Pages]]
      /\ \A i \in Places :
           a[n][i] = IF i < p.place THEN [cam |-> command, page |-> i] ELSE Blank
  <2>1. CASE status = "enable"
    <3>1. p = first /\ a = Erased /\ data = [cam |-> command, page |-> 1]
      BY <1>1, <2>1, PageIsNext
    <3>2. a \in [CameraNums -> [Places -> Pages]]
      BY <3>1, CameraAssumption DEF Erased, FlashOK, Blank, Pages
    <3>3. \A i \in Places : a[n][i] = Blank
      BY <1>2, <3>1 DEF Erased
    <3>4. \A i \in Places : ~(i < 1)
      BY DEF Places
    <3> QED BY <1>1, <3>1, <3>2, <3>3, <3>4, CameraAssumption DEF Places
  <2>2. CASE status = "transfer"
    <3>1. p = pos /\ a = area /\ data = [cam |-> command, page |-> pos.place]
          /\ pos.place \in 2 .. PicturePages
      BY <1>1, <2>2, PageIsNext
    <3>2. pos.area = n /\ \A i \in Places :
           area[n][i] = IF i < pos.place THEN [cam |-> command, page |-> i] ELSE Blank
      BY <2>2 DEF Content
    <3>3. pos' = [pos EXCEPT !.place = @ + 1]
      BY <1>1, <3>1
    <3>4. pos'.area = n /\ pos'.place = pos.place + 1
      BY <3>2, <3>3 DEF FlashOK
    <3> QED BY <3>1, <3>2, <3>4, CameraAssumption DEF FlashOK, Places
  <2> QED BY <1>1, <2>1, <2>2, PageIsNext
<1>4. area'[n] = [i \in Places |-> IF i # p.place THEN a[n][i]
                                   ELSE IF a[n][i] = Blank THEN data ELSE Garbled]
  BY <1>1, <1>2, <1>3 DEF WritePage
<1>5. a[n][p.place] = Blank
  BY <1>3 DEF Places
<1>6. ASSUME NEW i \in Places
      PROVE  area'[n][i] = IF i < p.place + 1 THEN [cam |-> command, page |-> i] ELSE Blank
  <2>1. CASE i = p.place
    BY <1>3, <1>4, <1>5, <2>1 DEF Places
  <2>2. CASE i # p.place
    <3>1. area'[n][i] = a[n][i] /\ (i < p.place <=> i < p.place + 1)
      BY <1>3, <1>4, <2>2 DEF Places
    <3> QED BY <1>3, <3>1
  <2> QED BY <2>1, <2>2
<1> QED BY <1>1, <1>3, <1>6 DEF Content

LEMMA WholeInvStep == WholeInv /\ [CamNext]_camVars => WholeInv'
<1> SUFFICES ASSUME WholeInv, [CamNext]_camVars PROVE Content' /\ PictureWhole'
  BY CamInvStep DEF WholeInv
<1> USE DEF cameraVars, stateVars, takeVars, busVars, fileVars485
<1>t. ~Console /\ Flow /\ CamTypes /\ Content /\ PictureWhole
  BY DEF WholeInv, CamInv
<1>a. ASSUME UNCHANGED <<command, area, pos, Camera_Number, handed>>,
             status' = "transfer" \/ pc485' = "stored"
               => status = "transfer" \/ pc485 = "stored"
      PROVE  Content' /\ PictureWhole'
  BY <1>a, <1>t DEF Content, PictureWhole
<1>b. ASSUME status' # "transfer", pc485' # "stored", UNCHANGED handed
      PROVE  Content' /\ PictureWhole'
  BY <1>b, <1>t DEF Content, PictureWhole
<1>s. ASSUME NEW n, StartUnlessUpdating(n), status = "other" \/ centre # 0,
             UNCHANGED <<area, pos, Camera_Number, handed, pc485>>
      PROVE  Content' /\ PictureWhole'
  <2>1. pc485 # "stored"
    BY <1>s, <1>t DEF Flow, Quiet
  <2>2. CASE isp
    <3>1. UNCHANGED <<command, status>>
      BY <1>s, <2>2 DEF StartUnlessUpdating
    <3> QED BY <1>a, <1>s, <3>1
  <2>3. CASE ~isp
    <3>1. status' \in {"other", "enable"}
      BY <1>s, <2>3, Zenon DEF StartUnlessUpdating, Start_Camera
    <3> QED BY <1>b, <1>s, <2>1, <3>1
  <2> QED BY <2>2, <2>3
<1>1. ASSUME NEW n, CentreTake(n) PROVE Content' /\ PictureWhole'
  <2>1. status = "other" /\ UNCHANGED <<status, pc485, handed>>
    BY <1>1 DEF CentreTake, Camera_Take_Enable
  <2>2. pc485 # "stored"
    BY <1>t, <2>1 DEF Flow, Stored
  <2> QED BY <1>b, <2>1, <2>2
<1>2. CASE CentreStart
  BY <1>2, <1>s DEF CentreStart
<1>3. CASE OpenDoor_TakePhoto
  BY <1>3, <1>s DEF OpenDoor_TakePhoto, Camera_Take_Enable
<1>4. \A n : ~takephoto(n)
  BY <1>t DEF takephoto
<1>5. CASE Send_const485
  BY <1>5, <1>a DEF Send_const485
<1>6. CASE StorePage
  BY <1>6, <1>t, StoreContent DEF StorePage, PictureWhole
<1>7. CASE FetchNext
  BY <1>7, <1>a DEF FetchNext
<1>8. CASE PictureEnds
  <2>1. /\ pc485 = "stored" /\ last_package /\ handed' = {area[Camera_Number]}
        /\ status' = "other" /\ pc485' = "send"
    BY <1>8 DEF PictureEnds, End_Camera
  <2>2. pos.place = PicturePages + 1
    BY <1>t, <2>1 DEF Flow, Stored
  <2>3. \A i \in Places : area[Camera_Number][i] = [cam |-> command, page |-> i]
    <3>1. \A i \in Places : i < pos.place
      BY <2>2, CameraAssumption DEF Places
    <3> QED BY <1>t, <2>1, <3>1 DEF Content
  <2>4. area[Camera_Number] \in [Places -> Pages] /\ command \in CameraNums
    BY <1>t DEF CamTypes, FlashOK, ChannelsOK
  <2>5. area[Camera_Number] = [i \in 1 .. PicturePages |-> [cam |-> command, page |-> i]]
    BY <2>3, <2>4 DEF Places
  <2> QED BY <2>1, <2>4, <2>5 DEF Content, PictureWhole
<1>9. CASE PictureHanded
  BY <1>9, <1>a DEF PictureHanded
<1>10. CASE Camra_Take_Exception
  <2>1. UNCHANGED <<area, pos, Camera_Number, handed, pc485>>
    BY <1>10 DEF Camra_Take_Exception
  <2>2. CASE timeoutCounter = 6
    <3>1. pc485 # "stored" /\ Retry
      BY <1>10, <1>t, <2>2 DEF Camra_Take_Exception, ThreadHasRun
    <3>2. status' \in {"other", "enable"}
      BY <3>1, Zenon DEF Retry, End_Camera, Start_Camera
    <3> QED BY <1>b, <2>1, <3>1, <3>2
  <2>3. CASE timeoutCounter # 6
    <3>1. UNCHANGED <<command, status>>
      BY <1>10, <2>3 DEF Camra_Take_Exception
    <3> QED BY <1>a, <2>1, <3>1
  <2> QED BY <2>2, <2>3
<1>11. CASE CameraAnswers \/ CameraSilent
  BY <1>11, <1>a DEF CameraAnswers, CameraSilent
<1>12. ASSUME NEW b, RemoteUpdate(b) PROVE Content' /\ PictureWhole'
  BY <1>12, <1>a DEF RemoteUpdate
<1>13. CASE UNCHANGED cameraVars
  BY <1>13, <1>a
<1>14. CASE UNCHANGED camVars
  BY <1>13, <1>14 DEF camVars
<1>15. CASE AppSteps(ThreadStep)
  BY <1>13, <1>15 DEF AppSteps
<1> QED BY <1>1, <1>2, <1>3, <1>4, <1>5, <1>6, <1>7, <1>8, <1>9, <1>10, <1>11, <1>12,
           <1>13, <1>14, <1>15 DEF CamNext

\* Without the console and channel 4, a picture handed over for upload is one
\* whole frame of one camera, for any number of cameras and pages, whatever
\* timeouts, retries, power cycles, door openings and commands came before.
THEOREM PicturesWhole ==
    ~Console /\ 4 \notin CameraNums => (CamSpec => []PictureWhole)
<1>1. ~Console /\ 4 \notin CameraNums /\ CamInit => WholeInv
  <2>1. CamInit => Content /\ PictureWhole
    BY DEF CamInit, Content, PictureWhole
  <2> QED BY <2>1, CamInitInv DEF WholeInv
<1>2. WholeInv => PictureWhole
  BY DEF WholeInv
<1> QED BY <1>1, <1>2, WholeInvStep, PTL DEF CamSpec

-----------------------------------------------------------------------------
(* The uploads of the pictures taken                                       *)

\* Also when the pictures come from the cameras, no packet mixes two files.
THEOREM CamPacketsNotMixed == CamSpec => NoMixedPackets
<1>1. CamInit => MixInv
  BY InitMix DEF CamInit
<1>2. MixInv /\ [CamNext]_camVars => MixInv'
  BY MixInvStep, CamStepIsUploadStep
<1>3. MixInv => (Stuffing /\ ~Stuffing' /\ ~Refused(Media_Type) => stuff.m = Media_Type)
  BY DEF MixInv, Own, Refused
<1> QED BY <1>1, <1>2, <1>3, PTL DEF CamSpec, NoMixedPackets

\* A picture taken waits for the centre only once all its packets went out,
\* where no voice files are uploaded.
THEOREM CamPicturesComplete == ~VoiceUploads => (CamSpec => CompleteBeforeWait)
<1>1. ~VoiceUploads /\ CamInit => PhotoInv
  BY InitPhoto DEF CamInit
<1>2. PhotoInv /\ [CamNext]_camVars
        => /\ PhotoInv'
           /\ RSD_State = 0 /\ RSD_State' = 2
                => 1 .. Total_packetNum[Media_Type] \subseteq sent'[Media_Type]
  BY PhotoInvStep, CamStepIsUploadStep
<1> QED BY <1>1, <1>2, PTL DEF CamSpec, CompleteBeforeWait

\* The camera is never refused a take because of a picture that nothing works
\* on, where no voice files are uploaded.
THEOREM CamPictureBusy == ~VoiceUploads => (CamSpec => []PhotoBusyMeansTransfer)
<1>1. ~VoiceUploads /\ CamInit => PhotoInv
  BY InitPhoto DEF CamInit
<1>2. PhotoInv /\ [CamNext]_camVars => PhotoInv'
  BY PhotoInvStep, CamStepIsUploadStep
<1>3. PhotoInv => PhotoBusyMeansTransfer
  BY DEF PhotoInv
<1> QED BY <1>1, <1>2, <1>3, PTL DEF CamSpec

=============================================================================
