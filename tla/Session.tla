------------------------------ MODULE Session ------------------------------
(***************************************************************************)
(* How the terminal gets, keeps and regains its connection to the centre.  *)
(*                                                                         *)
(* The gsm thread sends the commands of the dial steps (DataLink_Process)  *)
(* and handles one line of the modem at a time (GSM_Process).  Timer       *)
(* interrupts close the link and start a new dial (End_Datalink), watch    *)
(* the dial (DialLink_TimeOut_Process) and ask for registration and login. *)
(* The app808 thread sends those requests and handles the answers.         *)
(*                                                                         *)
(* faults counts what the modem, the network, the centre and the user do   *)
(* beyond what a connection needs; an answer that does not come is one of  *)
(* them.  Times are not modelled, but a dial whose commands are answered   *)
(* ends before the watch bites.                                            *)
(***************************************************************************)
EXTENDS Integers

CONSTANTS
    InitSteps,     \* dial steps before the name query (7)
    StepRetries,   \* Dial_Step_MAXRetries (4)
    MainRetries,   \* retries of the main server (2)
    ErrorLimit,    \* errors of the modem that are borne (3)
    SdLimit,       \* requests to the centre without an answer (3)
    EndTicks,      \* seconds from the close request to the new dial (10)
    CutTicks,      \* seconds at which the link is cut ({2, 3, 5, 8})
    ResetTicks,    \* seconds from the watch's close to its reset (8)
    MaxFaults      \* bound: faults in a behaviour

ASSUME SessionAssumption ==
    /\ InitSteps \in Nat /\ InitSteps > 1
    /\ StepRetries \in Nat /\ MainRetries \in Nat /\ ErrorLimit \in Nat
    /\ SdLimit \in Nat /\ MaxFaults \in Nat
    /\ EndTicks \in Nat /\ EndTicks > 0 /\ CutTicks \subseteq 1 .. EndTicks
    /\ ResetTicks \in 1 .. EndTicks - 1

\* Dial_step, in the order of the enumeration.
DNSR1 == InitSteps
DNSR2 == InitSteps + 1
MainLnk == InitSteps + 2
AuxLnk == InitSteps + 3
Dial_Idle == InitSteps + 4

VARIABLES
    boot,                   \* "power", "initial" (Total_initial) or "done"
    Dial_ON,
    Dial_step,
    Dial_step_Retry,
    RetryTimer,             \* Dial_step_RetryTimer is running
    asked,                  \* the command of this step was sent, no answer yet
    start_dial_stateFLAG,
    start_dial_counter,     \* seconds since the watch's close request, or 0
    Dial_jump_State,
    Dnsr_state,
    dns,                    \* the modem owes the answer to a name query
    DataLink_Online,
    DataLink_EndFlag,
    DataLink_EndCounter,
    Online_error_counter,
    CallState,
    gsmPc,                  \* "connect": CONNECT was read, not yet acted on
    appPc,                  \* "linkok": before DataLinkOK_Process
    Regsiter_Status,        \* kept in the flash
    Operate_enable,
    Enable_sd,              \* per request: to be sent
    Sd_add,                 \* per request: times sent in vain
    onAir,                  \* requests the centre has not answered
    tcp,                    \* the connection really exists
    authed,                 \* history: the centre accepted a login on it
    faults

stepVars == <<Dial_step, Dial_step_Retry, RetryTimer, asked>>
watchVars == <<start_dial_stateFLAG, start_dial_counter>>
dnsVars == <<Dial_jump_State, Dnsr_state, dns>>
endVars == <<DataLink_EndFlag, DataLink_EndCounter>>
loginVars == <<Regsiter_Status, Operate_enable>>
askVars == <<Enable_sd, Sd_add>>
netVars == <<onAir, tcp, authed>>
vars == <<boot, Dial_ON, stepVars, watchVars, dnsVars, DataLink_Online,
          endVars, Online_error_counter, CallState, gsmPc, appPc, loginVars,
          askVars, netVars, faults>>

Requests == {"register", "login"}

-----------------------------------------------------------------------------
\* What a start or a reset leaves; the registration is in the flash.
Init ==
    /\ boot = "power" /\ Dial_ON = FALSE
    /\ Dial_step = 0 /\ Dial_step_Retry = 0 /\ RetryTimer = FALSE /\ asked = FALSE
    /\ start_dial_stateFLAG = TRUE /\ start_dial_counter = 0
    /\ Dial_jump_State = 0 /\ Dnsr_state = FALSE /\ dns = FALSE
    /\ DataLink_Online = FALSE
    /\ DataLink_EndFlag = FALSE /\ DataLink_EndCounter = 0
    /\ Online_error_counter = 0 /\ CallState = "Idle"
    /\ gsmPc = "loop" /\ appPc = "loop"
    /\ Regsiter_Status \in BOOLEAN /\ Operate_enable = 0
    /\ Enable_sd = [r \in Requests |-> FALSE] /\ Sd_add = [r \in Requests |-> 0]
    /\ onAir = {} /\ tcp = FALSE /\ authed = FALSE
    /\ faults = 0

\* reset(): all but the registration is as in Init.
Reset ==
    /\ boot' = "power" /\ Dial_ON' = FALSE
    /\ Dial_step' = 0 /\ Dial_step_Retry' = 0 /\ RetryTimer' = FALSE /\ asked' = FALSE
    /\ start_dial_stateFLAG' = TRUE /\ start_dial_counter' = 0
    /\ Dial_jump_State' = 0 /\ Dnsr_state' = FALSE /\ dns' = FALSE
    /\ DataLink_Online' = FALSE
    /\ DataLink_EndFlag' = FALSE /\ DataLink_EndCounter' = 0
    /\ Online_error_counter' = 0 /\ CallState' = "Idle"
    /\ gsmPc' = "loop" /\ appPc' = "loop" /\ Operate_enable' = 0
    /\ Enable_sd' = [r \in Requests |-> FALSE] /\ Sd_add' = [r \in Requests |-> 0]
    /\ onAir' = {} /\ tcp' = FALSE /\ authed' = FALSE
    /\ UNCHANGED Regsiter_Status

Fault == faults < MaxFaults /\ faults' = faults + 1

\* Before the SIM is read there is no link, and the errors of the modem are
\* taken not to add up to a close request.
SimRead == boot # "power"

\* A fault, unless it is what has to happen.
FaultUnless(due) == IF due THEN UNCHANGED faults ELSE Fault

-----------------------------------------------------------------------------
(* Dialling                                                                *)

Dial_Stage(step) ==
    /\ Dial_step' = step /\ Dial_step_Retry' = 0
    /\ RetryTimer' = TRUE /\ asked' = FALSE

\* The modem is powered, the SIM is read: its set-up begins.
ImsiRead ==
    /\ boot = "power" /\ gsmPc = "loop"
    /\ boot' = "initial"
    /\ UNCHANGED <<Dial_ON, stepVars, watchVars, dnsVars, DataLink_Online,
                   endVars, Online_error_counter, CallState, gsmPc, appPc,
                   loginVars, askVars, netVars, faults>>

\* The last step of GSM_Module_TotalInitial.
TotalInitial ==
    /\ boot = "initial" /\ gsmPc = "loop"
    /\ boot' = "done"
    /\ Dial_ON' = TRUE /\ Dial_Stage(0)
    /\ UNCHANGED <<watchVars, dnsVars, DataLink_Online, endVars,
                   Online_error_counter, CallState, gsmPc, appPc, loginVars,
                   askVars, netVars, faults>>

\* The wait of a step is over; if its command was sent, the answer is missing.
Dial_step_Single_10ms_timer ==
    /\ Dial_ON /\ Dial_step # Dial_Idle /\ gsmPc = "loop"
    /\ RetryTimer /\ RetryTimer' = FALSE
    /\ FaultUnless(~asked)
    /\ UNCHANGED <<boot, Dial_ON, Dial_step, Dial_step_Retry, asked, watchVars,
                   dnsVars, DataLink_Online, endVars, Online_error_counter,
                   CallState, gsmPc, appPc, loginVars, askVars, netVars>>

DialDue ==
    /\ Dial_ON /\ Dial_step # Dial_Idle /\ ~RetryTimer /\ gsmPc = "loop"

\* Mutant: the count of retries is kept.
DialOverKeepsRetry ==
    /\ DialDue /\ Dial_step_Retry >= StepRetries
    /\ Dial_step' = IF Dial_step = DNSR1 THEN MainLnk ELSE 0
    /\ asked' = FALSE
    /\ UNCHANGED <<boot, Dial_ON, Dial_step_Retry, RetryTimer, watchVars, dnsVars,
                   DataLink_Online, endVars, Online_error_counter, CallState,
                   gsmPc, appPc, loginVars, askVars, netVars, faults>>

\* DataLink_Process, too many retries.
DialOver ==
    /\ DialDue /\ Dial_step_Retry >= StepRetries
    /\ Dial_step' = IF Dial_step = DNSR1 THEN MainLnk ELSE 0
    /\ Dial_step_Retry' = 0 /\ asked' = FALSE
    /\ UNCHANGED <<boot, Dial_ON, RetryTimer, watchVars, dnsVars,
                   DataLink_Online, endVars, Online_error_counter, CallState,
                   gsmPc, appPc, loginVars, askVars, netVars, faults>>

\* DataLink_Process, the command of the step; the main server is given up
\* for the other one unless its address came from a name query.
DialCommand ==
    /\ DialDue /\ Dial_step_Retry < StepRetries
    /\ LET again == Dial_step = MainLnk /\ Dial_step_Retry > MainRetries
           step == IF again /\ ~Dnsr_state THEN AuxLnk ELSE Dial_step
       IN /\ Dial_step' = step
          /\ Dial_step_Retry' = IF again THEN 1 ELSE Dial_step_Retry + 1
          /\ start_dial_stateFLAG' = (start_dial_stateFLAG \/ step = 0)
          /\ IF step \in {DNSR1, DNSR2}
               THEN /\ Dial_jump_State' = IF step = DNSR1 THEN 7 ELSE 8
                    /\ Dnsr_state' = TRUE /\ dns' = TRUE
               ELSE UNCHANGED dnsVars
    /\ RetryTimer' = TRUE /\ asked' = TRUE
    /\ UNCHANGED <<boot, Dial_ON, start_dial_counter, DataLink_Online, endVars,
                   Online_error_counter, CallState, gsmPc, appPc, loginVars,
                   askVars, netVars, faults>>

-----------------------------------------------------------------------------
(* GSM_Process: one line of the modem                                      *)

\* The switch at its end, which every line comes to unless it returned.
Dispatch(line) ==
    /\ IF Dial_step = InitSteps - 1 /\ line # "failed"
         THEN Sd_add' = [r \in Requests |-> 0]
         ELSE UNCHANGED Sd_add
    /\ \/ /\ line = "failed" /\ Dial_step # MainLnk
          /\ Dial_Stage(Dial_Idle)
       \/ /\ line = "ok" /\ Dial_step \in 0 .. DNSR2
          /\ Dial_Stage(Dial_step + 1)
       \/ /\ line \in {"failed", "error"}
          /\ Dial_step \in {MainLnk, AuxLnk} /\ (line = "failed" => Dial_step = MainLnk)
          /\ RetryTimer' = TRUE /\ asked' = FALSE
          /\ UNCHANGED <<Dial_step, Dial_step_Retry>>
       \/ /\ \/ line = "other" /\ Dial_step # Dial_Idle
             \/ line = "ok" /\ Dial_step \in {MainLnk, AuxLnk}
             \/ line = "error" /\ Dial_step \in 0 .. DNSR2
          /\ UNCHANGED stepVars
       \/ /\ Dial_step = Dial_Idle /\ line # "failed"
          /\ Dial_Stage(Dial_Idle)

\* What no line changes, except CONNECT.
LineFrame ==
    /\ gsmPc = "loop"
    /\ UNCHANGED <<boot, Dial_ON, watchVars, gsmPc, appPc, Enable_sd>>

LineOk ==
    /\ LineFrame
    /\ Dispatch("ok")
    /\ Online_error_counter' = IF DataLink_Online THEN 0 ELSE Online_error_counter
    /\ UNCHANGED <<dnsVars, DataLink_Online, endVars, CallState, loginVars,
                   netVars, faults>>

\* A line that is not about the link.
LineOther ==
    /\ LineFrame
    /\ Dispatch("other")
    /\ UNCHANGED <<dnsVars, DataLink_Online, endVars, Online_error_counter,
                   CallState, loginVars, netVars, faults>>

\* NO CARRIER ends a call; without one it is a fault.
LineFailed ==
    /\ LineFrame
    /\ FaultUnless(CallState = "Dialing")
    /\ CallState' = "Idle"
    /\ Dispatch("failed")
    /\ UNCHANGED <<dnsVars, DataLink_Online, endVars, Online_error_counter,
                   loginVars, netVars>>

\* Mutant: the count goes on after the close request.
CountErrorsOn(n) ==
    /\ Online_error_counter' = Online_error_counter + n
    /\ DataLink_EndFlag' = (DataLink_EndFlag \/ Online_error_counter + n > ErrorLimit)
    /\ UNCHANGED DataLink_EndCounter

\* n errors are counted; one too many closes the link.
CountErrors(n) ==
    /\ Online_error_counter' = (Online_error_counter + n) % (ErrorLimit + 1)
    /\ DataLink_EndFlag' = (DataLink_EndFlag \/ Online_error_counter + n > ErrorLimit)
    /\ UNCHANGED DataLink_EndCounter

\* ERROR is counted while online unless the speech output takes it, ERROR: 13
\* once more at any time.  Unknown does not end a call.
LineError(n) ==
    /\ LineFrame /\ Fault /\ SimRead
    /\ n = 2 => DataLink_Online
    /\ CallState' \in {"Idle"} \cup (IF n = 0 THEN {CallState} ELSE {})
    /\ CountErrors(n)
    /\ Dispatch("error")
    /\ UNCHANGED <<dnsVars, DataLink_Online, loginVars, netVars>>

\* The errors of the network (6, 7, 8, 10, 14, 19, 20, 30); with no dial to
\* go on with they are counted, and so is ERROR:13, at any time.
LineLinkError ==
    /\ LineFrame /\ Fault /\ SimRead
    /\ \/ /\ Dial_jump_State \in {7, 8}
          /\ Dial_Stage(IF Dial_jump_State = 7 THEN DNSR1 ELSE MainLnk)
          /\ Dial_jump_State' = IF Dial_jump_State = 7 THEN 7 ELSE 0
          /\ Dnsr_state' = FALSE
          /\ tcp' = FALSE /\ onAir' = {}
          /\ UNCHANGED <<dns, Sd_add, endVars, Online_error_counter, authed>>
       \/ /\ Dial_jump_State = 0 /\ Dial_step = MainLnk
          /\ Dial_Stage(AuxLnk)
          /\ UNCHANGED <<dnsVars, Sd_add, endVars, Online_error_counter, netVars>>
       \/ /\ CountErrors(1)
          /\ Dispatch("other")
          /\ UNCHANGED <<dnsVars, netVars>>
    /\ UNCHANGED <<DataLink_Online, CallState, loginVars>>

\* %DNSR with an address.
LineDnsr ==
    /\ LineFrame
    /\ dns /\ dns' = FALSE
    /\ Dial_Stage(MainLnk)
    /\ UNCHANGED <<Dial_jump_State, Dnsr_state, DataLink_Online, endVars,
                   Online_error_counter, CallState, loginVars, Sd_add, netVars,
                   faults>>

\* %DNSR:0.0.0.0
LineDnsrFails ==
    /\ LineFrame /\ Fault
    /\ dns /\ dns' = FALSE
    /\ Dial_jump_State' = 0 /\ Dnsr_state' = FALSE
    /\ Dispatch("other")
    /\ UNCHANGED <<DataLink_Online, endVars, Online_error_counter, CallState,
                   loginVars, netVars>>

\* %IPCLOSE: the connection is closed; it is left alone during a call.
LineClosed ==
    /\ LineFrame /\ Fault /\ SimRead
    /\ DataLink_Online' = FALSE
    /\ tcp' = FALSE /\ onAir' = {}
    /\ IF CallState = "Idle"
         THEN DataLink_EndFlag' = TRUE /\ Operate_enable' = 1
         ELSE UNCHANGED <<DataLink_EndFlag, Operate_enable>>
    /\ Dispatch("other")
    /\ UNCHANGED <<dnsVars, DataLink_EndCounter, Online_error_counter, CallState,
                   Regsiter_Status, authed>>

\* IPCLOSE: all connections are closed; Pre_Dial_flag, which is set here, is
\* not read anywhere.
LineAllClosed ==
    /\ LineFrame /\ Fault /\ SimRead
    /\ DataLink_Online' = FALSE
    /\ tcp' = FALSE /\ onAir' = {}
    /\ Dispatch("other")
    /\ UNCHANGED <<dnsVars, endVars, Online_error_counter, CallState, loginVars,
                   authed>>

\* CONNECT is read at a link step; interrupts may come before the rest.
LineConnect ==
    /\ gsmPc = "loop"
    /\ SimRead /\ asked /\ Dial_step \in {MainLnk, AuxLnk} /\ ~dns
    /\ gsmPc' = "connect"
    /\ tcp' = TRUE /\ authed' = FALSE /\ onAir' = {}
    /\ UNCHANGED <<boot, Dial_ON, stepVars, watchVars, dnsVars, DataLink_Online,
                   endVars, Online_error_counter, CallState, appPc, loginVars,
                   askVars, faults>>

\* Mutant: a new connection does not start a new login.
ConnectDoneLoggedIn ==
    /\ gsmPc = "connect" /\ gsmPc' = "loop"
    /\ Dial_Stage(Dial_Idle)
    /\ DataLink_Online' = TRUE
    /\ start_dial_stateFLAG' = FALSE /\ start_dial_counter' = 0
    /\ UNCHANGED <<boot, Dial_ON, dnsVars, endVars, Online_error_counter,
                   CallState, appPc, loginVars, askVars, netVars, faults>>

\* Mutant: DialLink_TimeOut_Clear is forgotten.
ConnectDoneWatched ==
    /\ gsmPc = "connect" /\ gsmPc' = "loop"
    /\ Operate_enable' = IF Regsiter_Status THEN 1 ELSE Operate_enable
    /\ Dial_Stage(Dial_Idle)
    /\ DataLink_Online' = TRUE
    /\ UNCHANGED <<boot, Dial_ON, watchVars, dnsVars, endVars,
                   Online_error_counter, CallState, appPc, Regsiter_Status,
                   askVars, netVars, faults>>

\* The rest of CONNECT: a login is due, the dial and its watch are over.
ConnectDone ==
    /\ gsmPc = "connect" /\ gsmPc' = "loop"
    /\ Operate_enable' = IF Regsiter_Status THEN 1 ELSE Operate_enable
    /\ Dial_Stage(Dial_Idle)
    /\ DataLink_Online' = TRUE
    /\ start_dial_stateFLAG' = FALSE /\ start_dial_counter' = 0
    /\ UNCHANGED <<boot, Dial_ON, dnsVars, endVars, Online_error_counter,
                   CallState, appPc, Regsiter_Status, askVars, netVars, faults>>

-----------------------------------------------------------------------------
(* Interrupts                                                              *)

\* End_Datalink ends with Redial_Init.
Redials == DataLink_EndFlag /\ DataLink_EndCounter + 1 > EndTicks

\* Offline at once, the link is cut on the way, then a new dial.
End_Datalink ==
    /\ DataLink_Online' = (DataLink_Online /\ ~DataLink_EndFlag)
    /\ DataLink_EndCounter' =
         IF Redials \/ ~DataLink_EndFlag THEN 0 ELSE DataLink_EndCounter + 1
    /\ IF Redials
         THEN /\ Dial_Stage(0) /\ Dial_ON' = TRUE
              /\ boot' = IF boot = "initial" THEN "done" ELSE boot
         ELSE /\ IF DataLink_EndFlag /\ DataLink_EndCounter + 1 \in CutTicks
                   THEN Dial_step_Retry' = 0 /\ RetryTimer' = TRUE
                   ELSE UNCHANGED <<Dial_step_Retry, RetryTimer>>
              /\ UNCHANGED <<Dial_step, asked, Dial_ON, boot>>
    /\ IF DataLink_EndFlag /\ DataLink_EndCounter + 1 \in CutTicks
         THEN tcp' = FALSE /\ onAir' = {}
         ELSE UNCHANGED <<tcp, onAir>>

\* Every second: End_Datalink, then DialLink_TimeOut_Process.  late: the watch
\* has come to its close request; that is no surprise when nothing is dialled.
\* The app808 thread is never held up between two ticks.
timeout_gsm(late) ==
    /\ DataLink_EndCounter > 0 => appPc = "loop"
    /\ FaultUnless(late => Dial_step = Dial_Idle)
    /\ late => start_dial_stateFLAG /\ start_dial_counter = 0 /\ ~Redials
    /\ IF ~Redials /\ start_dial_counter + 1 > ResetTicks
         THEN Reset
         ELSE /\ End_Datalink
              /\ start_dial_stateFLAG' = (start_dial_stateFLAG \/ Redials)
              /\ start_dial_counter' =
                   IF Redials THEN 0
                   ELSE IF late \/ start_dial_counter > 0
                     THEN start_dial_counter + 1 ELSE 0
              /\ DataLink_EndFlag' = ((DataLink_EndFlag /\ ~Redials) \/ late)
              /\ UNCHANGED <<dnsVars, Online_error_counter, CallState, gsmPc,
                             appPc, loginVars, askVars, authed>>

\* Device_RegisterTimer and Device_LoginTimer, when their six seconds are
\* over.  It is a fault if the last request is not answered, or not even sent
\* though no call bars it.
RequestTimer(r) ==
    /\ DataLink_Online
    /\ IF r = "register" THEN ~Regsiter_Status
                         ELSE Regsiter_Status /\ Operate_enable = 1
    /\ FaultUnless(/\ tcp => r \notin onAir
                   /\ Enable_sd[r] => CallState # "Idle")
    /\ Enable_sd' = [Enable_sd EXCEPT ![r] = TRUE]
    /\ Sd_add' = [Sd_add EXCEPT ![r] = IF @ + 1 > SdLimit THEN 0 ELSE @ + 1]
    /\ DataLink_EndFlag' = (DataLink_EndFlag \/ Sd_add[r] + 1 > SdLimit)
    /\ UNCHANGED <<boot, Dial_ON, stepVars, watchVars, dnsVars, DataLink_Online,
                   DataLink_EndCounter, Online_error_counter, CallState, gsmPc,
                   appPc, loginVars, netVars>>

\* App808_tick_counter: every eight hours the link is closed and the terminal
\* reset; the centre can have either, too.
CloseRequested ==
    /\ Fault /\ SimRead
    /\ DataLink_EndFlag' = TRUE
    /\ UNCHANGED <<boot, Dial_ON, stepVars, watchVars, dnsVars, DataLink_Online,
                   DataLink_EndCounter, Online_error_counter, CallState, gsmPc,
                   appPc, loginVars, askVars, netVars>>

ResetRequested == Fault /\ Reset

-----------------------------------------------------------------------------
(* The app808 thread, the menu and the centre                              *)

\* The gsm thread, of higher priority, is not in the middle of a line.
AppFrame ==
    /\ gsmPc = "loop"
    /\ UNCHANGED <<boot, Dial_ON, stepVars, watchVars, dnsVars, endVars,
                   Online_error_counter, gsmPc>>

\* Do_SendGPSReport_GPRS: a login first, then a registration.
SendRequest(r) ==
    /\ AppFrame
    /\ DataLink_Online /\ CallState = "Idle" /\ appPc = "loop"
    /\ Enable_sd[r]
    /\ LET sendsLogin == Operate_enable # 2 /\ Enable_sd["login"]
       IN IF r = "login" THEN sendsLogin ELSE ~sendsLogin
    /\ Enable_sd' = [Enable_sd EXCEPT ![r] = FALSE]
    /\ onAir' = IF tcp THEN onAir \cup {r} ELSE onAir
    /\ UNCHANGED <<DataLink_Online, CallState, appPc, loginVars, Sd_add, tcp,
                   authed, faults>>

Answered(r) ==
    /\ r \in onAir /\ appPc = "loop"
    /\ onAir' = onAir \ {r}

\* 0x8001 for a login; the link is marked as good only if it is online.
LoginAccepted ==
    /\ AppFrame /\ Answered("login")
    /\ Operate_enable' = 2 /\ authed' = TRUE
    /\ Sd_add' = [Sd_add EXCEPT !["login"] = 0]
    /\ appPc' = IF DataLink_Online THEN "linkok" ELSE "loop"
    /\ UNCHANGED <<DataLink_Online, CallState, Regsiter_Status, Enable_sd, tcp, faults>>

DataLinkOK_Process ==
    /\ AppFrame
    /\ appPc = "linkok" /\ appPc' = "loop"
    /\ DataLink_Online' = TRUE
    /\ UNCHANGED <<CallState, loginVars, askVars, netVars, faults>>

\* 0x8100, registered.
RegisterAccepted ==
    /\ AppFrame /\ Answered("register")
    /\ Regsiter_Status' = TRUE /\ Operate_enable' = 1
    /\ Sd_add' = [Sd_add EXCEPT !["register"] = 0]
    /\ UNCHANGED <<DataLink_Online, CallState, appPc, Enable_sd, tcp, authed, faults>>

\* A login or a registration is refused; "the terminal is registered already"
\* starts a login if the terminal thinks so, too.
Refused(r) ==
    /\ AppFrame /\ Answered(r) /\ Fault
    /\ Operate_enable' \in
         {Operate_enable} \cup (IF r = "register" /\ Regsiter_Status THEN {1} ELSE {})
    /\ UNCHANGED <<DataLink_Online, CallState, appPc, Regsiter_Status, askVars, tcp, authed>>

\* The menu items that clear the registration, send a login, send a
\* registration.
MenuLogOut(item) ==
    /\ AppFrame /\ Fault /\ appPc = "loop"
    /\ Regsiter_Status' = (Regsiter_Status /\ item # "clear")
    /\ Operate_enable' = IF item = "login" THEN 1 ELSE Operate_enable
    /\ Enable_sd' = IF item \in Requests THEN [Enable_sd EXCEPT ![item] = TRUE]
                                         ELSE Enable_sd
    /\ UNCHANGED <<DataLink_Online, CallState, appPc, Sd_add, netVars>>

\* 0x8400, a parameter or the menu wants a call; the app808 loop starts it.
CallWanted ==
    /\ AppFrame /\ Fault
    /\ CallState' = "rdytoDialLis"
    /\ UNCHANGED <<DataLink_Online, appPc, loginVars, askVars, netVars>>

CallStarts ==
    /\ AppFrame /\ appPc = "loop"
    /\ CallState = "rdytoDialLis" /\ CallState' = "Dialing"
    /\ UNCHANGED <<DataLink_Online, appPc, loginVars, askVars, netVars, faults>>

-----------------------------------------------------------------------------
Next ==
    \/ ImsiRead \/ TotalInitial
    \/ Dial_step_Single_10ms_timer \/ DialOver \/ DialCommand
    \/ LineOk \/ LineOther \/ LineFailed \/ LineLinkError \/ LineDnsr \/ LineDnsrFails
    \/ \E n \in 0 .. 2 : LineError(n)
    \/ LineClosed \/ LineAllClosed \/ LineConnect \/ ConnectDone
    \/ \E late \in BOOLEAN : timeout_gsm(late)
    \/ \E r \in Requests : RequestTimer(r) \/ SendRequest(r) \/ Refused(r)
    \/ CloseRequested \/ ResetRequested
    \/ LoginAccepted \/ DataLinkOK_Process \/ RegisterAccepted
    \/ \E item \in {"clear"} \cup Requests : MenuLogOut(item)
    \/ CallWanted \/ CallStarts

\* What the firmware does by itself, and a modem and a centre that answer.
Fairness ==
    /\ WF_vars(ImsiRead) /\ WF_vars(TotalInitial)
    /\ WF_vars(Dial_step_Single_10ms_timer /\ ~asked)
    /\ WF_vars(DialOver \/ DialCommand)
    /\ WF_vars(LineOk /\ asked) /\ WF_vars(LineDnsr)
    /\ WF_vars(LineConnect) /\ WF_vars(ConnectDone)
    /\ SF_vars(LineFailed /\ CallState = "Dialing")
    /\ WF_vars(timeout_gsm(FALSE))
    /\ WF_vars(timeout_gsm(TRUE) /\ Dial_step = Dial_Idle)
    /\ \A r \in Requests : /\ WF_vars(RequestTimer(r) /\ faults' = faults)
                            /\ WF_vars(SendRequest(r))
    /\ WF_vars(LoginAccepted) /\ WF_vars(DataLinkOK_Process)
    /\ WF_vars(RegisterAccepted) /\ SF_vars(CallStarts)

Spec == Init /\ [][Next]_vars /\ Fairness

-----------------------------------------------------------------------------
TypeOK ==
    /\ boot \in {"power", "initial", "done"}
    /\ Dial_ON \in BOOLEAN /\ RetryTimer \in BOOLEAN /\ asked \in BOOLEAN
    /\ Dial_step \in 0 .. Dial_Idle
    /\ Dial_step_Retry \in 0 .. StepRetries
    /\ start_dial_stateFLAG \in BOOLEAN
    /\ start_dial_counter \in 0 .. ResetTicks
    /\ Dial_jump_State \in {0, 7, 8} /\ Dnsr_state \in BOOLEAN /\ dns \in BOOLEAN
    /\ DataLink_Online \in BOOLEAN /\ DataLink_EndFlag \in BOOLEAN
    /\ DataLink_EndCounter \in 0 .. EndTicks
    /\ Online_error_counter \in 0 .. ErrorLimit
    /\ CallState \in {"Idle", "rdytoDialLis", "Dialing"}
    /\ gsmPc \in {"loop", "connect"} /\ appPc \in {"loop", "linkok"}
    /\ Regsiter_Status \in BOOLEAN /\ Operate_enable \in 0 .. 2
    /\ Enable_sd \in [Requests -> BOOLEAN] /\ Sd_add \in [Requests -> 0 .. SdLimit]
    /\ onAir \subseteq Requests /\ tcp \in BOOLEAN /\ authed \in BOOLEAN
    /\ faults \in 0 .. MaxFaults

\* A registered terminal that takes itself for logged in (Operate_enable 2, on
\* which Do_SendGPSReport_GPRS sends reports) while online has had a login
\* accepted on this very connection, whatever closes, redials, late answers,
\* menu commands and registrations came before.
LoggedInHere ==
    DataLink_Online /\ Operate_enable = 2 /\ Regsiter_Status /\ gsmPc = "loop"
      => authed

\* The watch that resets a terminal which does not get online
\* (DialLink_TimeOut_Process) is off while the connection works, through all
\* the ways in which GSM_Process and End_Datalink start a dial.
WatchOffWhileLinked ==
    DataLink_Online /\ tcp /\ gsmPc = "loop" => ~start_dial_stateFLAG

\* There is no connection, and nothing that would bring it back: no close
\* request, no dial, no watch, no request to the centre that would time out.
Stranded ==
    /\ ~tcp /\ boot = "done" /\ gsmPc = "loop" /\ appPc = "loop"
    /\ Dial_step = Dial_Idle
    /\ ~DataLink_EndFlag /\ ~start_dial_stateFLAG
    /\ DataLink_Online => Regsiter_Status /\ Operate_enable # 1

\* A terminal whose connection was closed dials again: GSM_Process sets
\* Pre_Dial_flag, "enable preparing to dial", when all connections are closed.
RedialsWhenClosed == ~Stranded

\* When the faults end, the terminal gets back online and logs in for good,
\* by a new dial, a new registration or the watch's reset, unless it was
\* stranded by a close in a call or of all connections.
ComesBack ==
    [](~Stranded) => <>[](DataLink_Online /\ tcp /\ Operate_enable = 2)
=============================================================================
