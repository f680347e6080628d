------------------------------- MODULE Camera -------------------------------
(***************************************************************************)
(* Taking a picture over the RS-485 bus.                                   *)
(*                                                                         *)
(* A command of the centre (0x8801, app808 thread), an opening door (timer *)
(* interrupt) or the console starts a take; the 485 thread sends the take  *)
(* command, receives the picture page by page, stores the pages in the     *)
(* area of the camera and hands the picture to MediaUpload.  A timer       *)
(* interrupt supervises the take, cycles the camera's power and tries      *)
(* again.  CameraState, Camera_Number and photo_sending are shared without *)
(* a lock: an interrupt may come between a check and its use.              *)
(***************************************************************************)
EXTENDS MediaUpload

CONSTANTS
    CameraNums,      \* camera channels; the door takes from channel 1
    PicturePages,    \* pages of a picture
    Console          \* the console command takephoto is used

ASSUME CameraAssumption ==
    /\ 1 \in CameraNums /\ 0 \notin CameraNums
    /\ PicturePages \in Nat /\ PicturePages > 0
    /\ Console \in BOOLEAN

VARIABLES
    status, camera_running, create_Flag, timeoutCounter,   \* CameraState
    last_package,
    TX_485const_Enable,        \* the 485 thread has a command to send
    Camera_Number,             \* the channel a picture is stored under
    SingleCamera_TakeRetry,
    command,                   \* channel in the take and fetch commands
    powered,                   \* Power_485CH1
    wire,                      \* the command on the bus
    frame,                     \* the page the camera has sent last
    data,                      \* the page received, _485_CameraData_Enable
    pc485,                     \* where the 485 thread is
    centre,                    \* 0x8801 has passed its check
    isp,                       \* a remote update is running
    area,                      \* what the picture areas of the flash hold
    pos,                       \* the next page: its area and its place in it
    handed                     \* history: the last picture handed over

stateVars == <<status, camera_running, create_Flag, timeoutCounter>>
takeVars  == <<last_package, TX_485const_Enable, SingleCamera_TakeRetry, command>>
busVars   == <<powered, wire, frame, data>>
fileVars485 == <<pc485, area, pos, handed>>
cameraVars == <<stateVars, takeVars, busVars, fileVars485, Camera_Number, centre,
                isp>>

NoWire  == [kind |-> "none", cam |-> 0]
NoPage  == [cam |-> 0, page |-> 0]

\* A page of the flash that is erased, and one that was programmed twice
Blank   == [cam |-> 0, page |-> 0]
Garbled == [cam |-> 0, page |-> 1]
Places  == 1 .. PicturePages

CamInit ==
    /\ Init
    /\ status = "other" /\ camera_running = FALSE /\ create_Flag = FALSE
    /\ timeoutCounter = 0
    /\ last_package = FALSE /\ TX_485const_Enable = FALSE
    /\ SingleCamera_TakeRetry = 0 /\ command = 1
    /\ Camera_Number = 1 /\ centre = 0 /\ isp = FALSE
    /\ powered = TRUE /\ wire = NoWire /\ frame = NoPage /\ data = NoPage
    /\ pc485 = "loop" /\ handed = {}
    /\ area = [n \in CameraNums |-> [i \in Places |-> Blank]]
    /\ pos = [area |-> 1, place |-> 1]

-----------------------------------------------------------------------------
(* Starting a take                                                         *)

\* Start_Camera when camera_running is running; it clears create_Flag and makes
\* out the commands before it decides.
Start_Camera(n, running) ==
    /\ command' = n
    /\ create_Flag' = FALSE
    /\ IF ~running /\ photo_sending["photo"] = "disable"
         THEN /\ camera_running' = TRUE /\ status' = "enable"
              /\ TX_485const_Enable' = TRUE
         ELSE /\ camera_running' = running /\ status' = "other"
              /\ UNCHANGED TX_485const_Enable

\* No picture is taken during a remote update.
StartUnlessUpdating(n) ==
    IF isp THEN UNCHANGED <<command, create_Flag, camera_running, status,
                            TX_485const_Enable>>
           ELSE Start_Camera(n, camera_running)

\* Camera_Take_Enable (no take of several cameras is ever under way) and the
\* check of photo_sending that goes with it.
Camera_Take_Enable == status = "other" /\ photo_sending["photo"] = "disable"

\* Threads below app808 run when it waits; startPc is the 485 thread's own.
Runs485 == ~Stuffing /\ centre = 0 /\ startPc = "idle"

\* 0x8801: the check, and the channel.
CentreTake(n) ==
    /\ link # "down" /\ ~Stuffing /\ centre = 0
    /\ Camera_Take_Enable
    /\ Camera_Number' = n /\ centre' = n
    /\ UNCHANGED <<stateVars, takeVars, busVars, fileVars485, isp, uploadVars>>

\* 0x8801: the start.
CentreStart ==
    /\ centre # 0
    /\ StartUnlessUpdating(centre)
    /\ SingleCamera_TakeRetry' = 0
    /\ centre' = 0
    /\ UNCHANGED <<timeoutCounter, last_package, busVars, fileVars485,
                   Camera_Number, isp, uploadVars>>

\* The door, in interrupt context; Camera_Number is not set.
OpenDoor_TakePhoto ==
    /\ link # "down"
    /\ Camera_Take_Enable
    /\ StartUnlessUpdating(1)
    /\ UNCHANGED <<timeoutCounter, last_package, SingleCamera_TakeRetry,
                   busVars, fileVars485, Camera_Number, centre, isp, uploadVars>>

\* The console sets the channel even when it then refuses.
takephoto(n) ==
    /\ Console /\ Runs485 /\ pc485 = "loop"
    /\ Camera_Number' = n
    /\ IF Camera_Take_Enable
         THEN StartUnlessUpdating(n)
         ELSE UNCHANGED <<command, create_Flag, camera_running, status,
                          TX_485const_Enable>>
    /\ UNCHANGED <<timeoutCounter, last_package, SingleCamera_TakeRetry,
                   busVars, fileVars485, centre, isp, uploadVars>>

-----------------------------------------------------------------------------
(* The 485 thread, which runs when the app808 thread waits                 *)

\* Send_const485
Send_const485 ==
    /\ Runs485 /\ pc485 = "loop"
    /\ TX_485const_Enable
    /\ TX_485const_Enable' = FALSE
    /\ \/ /\ status = "other"
          /\ UNCHANGED <<wire, create_Flag, last_package, timeoutCounter>>
       \/ /\ status # "other"
          /\ wire' = IF powered
                       THEN [kind |-> status, cam |-> command] ELSE NoWire
          /\ timeoutCounter' = 0
          /\ create_Flag' = (status = "enable" \/ create_Flag)
          /\ last_package' = (status # "enable" /\ last_package)
    /\ UNCHANGED <<status, camera_running, SingleCamera_TakeRetry, command,
                   powered, frame, data, fileVars485, Camera_Number, centre,
                   isp, uploadVars>>

\* Api_DFdirectory_Delete in the branches for the four cameras.
ErasedFor(n) == IF n = 4 THEN 3 ELSE n

\* Mutant: the area is not erased for a new picture.
NotErased == area

\* The areas once the one for a new picture is erased.
Erased == [n \in CameraNums |-> IF n = ErasedFor(Camera_Number)
                                  THEN [i \in Places |-> Blank] ELSE area[n]]

\* DF_WriteFlashDirect of the page received, at place p of the areas a.
WritePage(a, p) ==
    [a EXCEPT ![p.area] =
       [i \in Places |-> IF i # p.place THEN @[i]
                         ELSE IF @[i] = Blank THEN data ELSE Garbled]]

\* Pic_Data_Process: the first page of a take starts a new file.
StorePage ==
    LET first == [area |-> Camera_Number, place |-> 1]
        p     == IF create_Flag THEN first ELSE pos
    IN  /\ Runs485 /\ pc485 = "loop"
        /\ data # NoPage
        /\ last_package' = (last_package \/ data.page = PicturePages)
        /\ area' = WritePage(IF create_Flag THEN Erased ELSE area, p)
        /\ pos' = [p EXCEPT !.place = @ + 1]
        /\ create_Flag' = FALSE
        /\ pc485' = "stored"
        /\ UNCHANGED <<status, camera_running, timeoutCounter,
                       TX_485const_Enable, SingleCamera_TakeRetry, command,
                       busVars, handed, Camera_Number, centre, isp, uploadVars>>

\* Pic_Data_Process with more pages to come.
FetchNext ==
    /\ Runs485 /\ pc485 = "stored" /\ ~last_package
    /\ status' = "transfer" /\ TX_485const_Enable' = TRUE
    /\ data' = NoPage /\ pc485' = "loop"
    /\ UNCHANGED <<camera_running, create_Flag, timeoutCounter, last_package,
                   SingleCamera_TakeRetry, command, powered, wire, frame,
                   area, pos, handed, Camera_Number, centre, isp, uploadVars>>

\* Mutant: the status is left as it was.
End_CameraKeepsStatus ==
    /\ camera_running' = FALSE
    /\ timeoutCounter' = 0 /\ create_Flag' = FALSE
    /\ UNCHANGED status

\* The assignments of End_Camera to CameraState.
End_Camera ==
    /\ status' = "other" /\ camera_running' = FALSE
    /\ timeoutCounter' = 0 /\ create_Flag' = FALSE

\* Pic_Data_Process after the last page, up to End_Camera.
PictureEnds ==
    /\ Runs485 /\ pc485 = "stored" /\ last_package
    /\ handed' = {area[Camera_Number]}
    /\ End_Camera
    /\ pc485' = "send"
    /\ UNCHANGED <<takeVars, busVars, area, pos, Camera_Number, centre, isp, uploadVars>>

\* ... and the call of Photo_send_start.
PictureHanded ==
    /\ Runs485 /\ pc485 = "send"
    /\ Photo_send_start
    /\ data' = NoPage /\ pc485' = "loop"
    /\ UNCHANGED <<stateVars, takeVars, powered, wire, frame, area, pos, handed,
                   Camera_Number, centre, isp>>

-----------------------------------------------------------------------------
(* Supervision, in interrupt context                                       *)

\* The 485 thread comes round in well under the three seconds after which the
\* supervision acts: what it could do by then, it has done.
ThreadHasRun == data = NoPage /\ pc485 = "loop" /\ ~TX_485const_Enable

\* Mutant: the tries are not counted.
RetryForever ==
    /\ timeoutCounter' = 0
    /\ Start_Camera(Camera_Number, FALSE)
    /\ UNCHANGED SingleCamera_TakeRetry

\* Mutant: one try too many.
RetryOnceMore ==
    /\ SingleCamera_TakeRetry' = (SingleCamera_TakeRetry + 1) % 4
    /\ IF SingleCamera_TakeRetry' = 0 \/ isp
         THEN /\ End_Camera
              /\ UNCHANGED <<command, TX_485const_Enable>>
         ELSE /\ timeoutCounter' = 0
              /\ Start_Camera(Camera_Number, FALSE)

\* End_Camera, and either another try or, after the third, the end.
Retry ==
    /\ SingleCamera_TakeRetry' = (SingleCamera_TakeRetry + 1) % 3
    /\ IF SingleCamera_TakeRetry' = 0 \/ isp
         THEN /\ End_Camera
              /\ UNCHANGED <<command, TX_485const_Enable>>
         ELSE /\ timeoutCounter' = 0
              /\ Start_Camera(Camera_Number, FALSE)

\* Camra_Take_Exception, every 1.1 seconds of a take.
Camra_Take_Exception ==
    /\ camera_running
    /\ timeoutCounter >= 3 => ThreadHasRun
    /\ powered' = IF timeoutCounter = 3 THEN FALSE
                  ELSE powered \/ timeoutCounter \in {4, 6}
    /\ wire' = IF powered' THEN wire ELSE NoWire
    /\ frame' = IF powered' THEN frame ELSE NoPage
    /\ IF timeoutCounter = 6
         THEN Retry
         ELSE /\ timeoutCounter' = timeoutCounter + 1
              /\ UNCHANGED <<status, camera_running, create_Flag, command,
                             TX_485const_Enable, SingleCamera_TakeRetry>>
    /\ UNCHANGED <<last_package, data, fileVars485, Camera_Number, centre,
                   isp, uploadVars>>

-----------------------------------------------------------------------------
(* The camera                                                              *)

\* The camera answers: a take with the first page, a fetch with the next.
CameraAnswers ==
    LET answer == IF wire.kind = "enable" THEN [cam |-> wire.cam, page |-> 1]
                  ELSE [frame EXCEPT !.page = @ + 1]
    IN  /\ wire # NoWire
        /\ wire.kind = "transfer" =>
             frame.cam = wire.cam /\ frame.page < PicturePages
        /\ frame' = answer /\ data' = answer
        /\ wire' = NoWire
        /\ UNCHANGED <<stateVars, takeVars, powered, fileVars485, Camera_Number,
                       centre, isp, uploadVars>>

\* It does not.
CameraSilent ==
    /\ wire # NoWire
    /\ wire' = NoWire
    /\ UNCHANGED <<stateVars, takeVars, powered, frame, data, fileVars485,
                   Camera_Number, centre, isp, uploadVars>>

RemoteUpdate(b) ==
    /\ isp' = b /\ b # isp
    /\ UNCHANGED <<stateVars, takeVars, busVars, fileVars485, Camera_Number,
                   centre, uploadVars>>

\* A step of the app808 thread or of a thread that it lets run.
AppSteps(A) == centre = 0 /\ A /\ UNCHANGED cameraVars

CamNext ==
    \/ \E n \in CameraNums : CentreTake(n)
    \/ CentreStart
    \/ OpenDoor_TakePhoto
    \/ \E n \in CameraNums : takephoto(n)
    \/ Send_const485
    \/ StorePage
    \/ FetchNext
    \/ PictureEnds
    \/ PictureHanded
    \/ Camra_Take_Exception
    \/ CameraAnswers
    \/ CameraSilent
    \/ \E b \in BOOLEAN : RemoteUpdate(b)
    \/ AppSteps(ThreadStep)
    \/ InterruptStep /\ UNCHANGED cameraVars

camVars == <<uploadVars, cameraVars>>
CamSpec == CamInit /\ [][CamNext]_camVars

\* The threads and the timers run, the 485 thread also between the packets that
\* the app808 thread goes on sending (strong fairness); neither the centre, the
\* door nor the camera is bound to do anything.
CamFairness ==
    /\ WF_camVars(CentreStart)
    /\ WF_camVars(Send_const485)
    /\ WF_camVars(StorePage)
    /\ WF_camVars(FetchNext)
    /\ WF_camVars(PictureEnds)
    /\ WF_camVars(PictureHanded)
    /\ WF_camVars(Camra_Take_Exception)
    /\ SF_camVars(AppSteps(\E n \in Sizes : Photo_send_started(n)))
    /\ WF_camVars(AppSteps(Stuff_MultiMedia_InfoSD_0800H))
    /\ WF_camVars(AppSteps(Protocol_Head))
    /\ WF_camVars(AppSteps(Stuff_MultiMedia_Data_0801H))
    /\ WF_camVars(timeout_app /\ UNCHANGED cameraVars)
    /\ WF_camVars(PacketTimer /\ UNCHANGED cameraVars)
    /\ WF_camVars(Meida_Trans_Exception /\ UNCHANGED cameraVars)
    /\ WF_camVars(ResendTimer /\ UNCHANGED cameraVars)
    /\ WF_camVars(WaitTimeout /\ UNCHANGED cameraVars)

FairCamSpec == CamSpec /\ CamFairness

-----------------------------------------------------------------------------
(* Properties                                                              *)

Pages == [cam : CameraNums \cup {0}, page : 0 .. PicturePages]

CamTypeOK ==
    /\ TypeOK
    /\ status \in {"other", "enable", "transfer"}
    /\ camera_running \in BOOLEAN /\ create_Flag \in BOOLEAN
    /\ timeoutCounter \in 0 .. 6
    /\ last_package \in BOOLEAN /\ TX_485const_Enable \in BOOLEAN
    /\ Camera_Number \in CameraNums /\ command \in CameraNums
    /\ SingleCamera_TakeRetry \in 0 .. 2
    /\ powered \in BOOLEAN
    /\ frame \in Pages /\ data \in Pages
    /\ wire \in [kind : {"none", "enable", "transfer"}, cam : CameraNums \cup {0}]
    /\ pc485 \in {"loop", "stored", "send"}
    /\ centre \in CameraNums \cup {0} /\ isp \in BOOLEAN
    /\ area \in [CameraNums -> [Places -> Pages]]
    /\ pos \in [area : CameraNums, place : 1 .. PicturePages + 1]

\* A picture that is handed over for upload, in the area of its channel, is one
\* whole frame of one camera, its pages in order, after any number of timeouts,
\* retries, power cycles and commands that come while another take is starting.
PictureWhole ==
    \A picture \in handed : \E c \in CameraNums :
        picture = [i \in 1 .. PicturePages |-> [cam |-> c, page |-> i]]

\* A take is supervised: as long as the bus is in use for a picture, the
\* timer that ends a take which gets stuck is running.
TakeSupervised == status # "other" => camera_running

\* With a link that stays up, and unless the centre goes on asking for pictures,
\* the camera is free for the next take again and again, even if neither the
\* camera nor the centre ever answers and the door keeps opening.
CameraFreeAgain ==
    <>[](link = "login" /\ centre = 0) =>
      []<>(~camera_running /\ photo_sending["photo"] = "disable")
=============================================================================
