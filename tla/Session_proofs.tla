--------------------------- MODULE Session_proofs ---------------------------
(***************************************************************************)
(* Proofs about Session, for every number of dial steps, retries, limits   *)
(* and faults.                                                             *)
(***************************************************************************)
EXTENDS Session, TLAPS

\* LoggedInHere without the condition that the terminal is online: a close and
\* a late DataLinkOK_Process may turn DataLink_Online off and on again without
\* a new connection.
LoggedInInv ==
    Operate_enable = 2 /\ Regsiter_Status /\ gsmPc = "loop" => authed

-----------------------------------------------------------------------------
\* A start, a reset or a reset request: no login is claimed.
LEMMA ResetLoggedIn ==
    ASSUME Reset
    PROVE LoggedInInv'
BY DEF Reset, LoggedInInv

\* Nothing that the invariant is about changes.
LEMMA SameLoggedIn ==
    ASSUME LoggedInInv, UNCHANGED <<Operate_enable, Regsiter_Status, gsmPc, authed>>
    PROVE LoggedInInv'
BY DEF LoggedInInv

\* A new login is asked for.
LEMMA AskedLoggedIn ==
    ASSUME Operate_enable' = 1
    PROVE LoggedInInv'
<1>1. Operate_enable' # 2
    OBVIOUS
<1> QED
    BY <1>1 DEF LoggedInInv

\* The steps of the gsm thread that leave the login and the connection alone.
LEMMA GsmLoggedIn ==
    ASSUME LoggedInInv,
           \/ ImsiRead \/ TotalInitial \/ Dial_step_Single_10ms_timer
           \/ DialOver \/ DialCommand \/ LineOk \/ LineOther \/ LineFailed
           \/ LineLinkError \/ LineDnsr \/ LineDnsrFails
           \/ (\E n \in 0 .. 2 : LineError(n))
           \/ LineClosed \/ LineAllClosed
    PROVE LoggedInInv'
<1>1. CASE ImsiRead \/ TotalInitial \/ Dial_step_Single_10ms_timer
    BY <1>1 DEF ImsiRead, TotalInitial, Dial_step_Single_10ms_timer,
                LoggedInInv, loginVars, netVars
<1>2. CASE DialOver \/ DialCommand
    BY <1>2 DEF DialOver, DialCommand, LoggedInInv, loginVars, netVars
<1>3. CASE LineOk \/ LineOther \/ LineFailed \/ LineDnsr \/ LineDnsrFails
    BY <1>3 DEF LineOk, LineOther, LineFailed, LineDnsr, LineDnsrFails,
                LineFrame, LoggedInInv, loginVars, netVars
<1>4. CASE LineLinkError
    <2>1. UNCHANGED <<Operate_enable, Regsiter_Status, gsmPc>>
        BY <1>4 DEF LineLinkError, LineFrame, loginVars
    <2>2. UNCHANGED authed
        BY <1>4 DEF LineLinkError, netVars
    <2> QED
        BY <2>1, <2>2, SameLoggedIn
<1>5. CASE \E n \in 0 .. 2 : LineError(n)
    BY <1>5 DEF LineError, LineFrame, LoggedInInv, loginVars, netVars
<1>6. CASE LineClosed \/ LineAllClosed
    <2>1. UNCHANGED <<Regsiter_Status, gsmPc, authed>>
        BY <1>6 DEF LineClosed, LineAllClosed, LineFrame, loginVars
    <2>2. Operate_enable' = 1 \/ UNCHANGED Operate_enable
        BY <1>6 DEF LineClosed, LineAllClosed, loginVars
    <2> QED
        BY <2>1, <2>2, SameLoggedIn, AskedLoggedIn
<1> QED
    BY <1>1, <1>2, <1>3, <1>4, <1>5, <1>6

\* A connection starts without a login and, if the terminal is registered,
\* CONNECT asks for one before the gsm thread goes on.
LEMMA ConnectLoggedIn ==
    ASSUME LoggedInInv, LineConnect \/ ConnectDone
    PROVE LoggedInInv'
<1>1. CASE LineConnect
    BY <1>1 DEF LineConnect, LoggedInInv
<1>2. CASE ConnectDone /\ Regsiter_Status
    BY <1>2, AskedLoggedIn DEF ConnectDone
<1>3. CASE ConnectDone /\ ~Regsiter_Status
    BY <1>3 DEF ConnectDone, LoggedInInv
<1> QED
    BY <1>1, <1>2, <1>3

\* The interrupts.
LEMMA InterruptLoggedIn ==
    ASSUME LoggedInInv,
           \/ \E late \in BOOLEAN : timeout_gsm(late)
           \/ \E r \in Requests : RequestTimer(r)
           \/ CloseRequested \/ ResetRequested
    PROVE LoggedInInv'
<1>1. CASE \E late \in BOOLEAN : timeout_gsm(late)
    <2>1. PICK late \in BOOLEAN : timeout_gsm(late)
        BY <1>1
    <2>2. CASE Reset
        BY <2>2, ResetLoggedIn
    <2>3. CASE ~Reset
        BY <2>1, <2>3 DEF timeout_gsm, LoggedInInv, loginVars
    <2> QED
        BY <2>2, <2>3
<1>2. CASE \E r \in Requests : RequestTimer(r)
    BY <1>2 DEF RequestTimer, LoggedInInv, loginVars, netVars
<1>3. CASE CloseRequested
    BY <1>3 DEF CloseRequested, LoggedInInv, loginVars, netVars
<1>4. CASE ResetRequested
    BY <1>4, ResetLoggedIn DEF ResetRequested
<1> QED
    BY <1>1, <1>2, <1>3, <1>4

\* The app808 thread, the menu and the centre.  A registration, which could
\* make an old login count again, asks for a new one.
LEMMA AppLoggedIn ==
    ASSUME LoggedInInv,
           \/ \E r \in Requests : SendRequest(r) \/ Refused(r)
           \/ LoginAccepted \/ DataLinkOK_Process \/ RegisterAccepted
           \/ \E item \in {"clear"} \cup Requests : MenuLogOut(item)
           \/ CallWanted \/ CallStarts
    PROVE LoggedInInv'
<1>1. CASE \E r \in Requests : SendRequest(r) \/ Refused(r)
    <2>1. PICK r \in Requests : SendRequest(r) \/ Refused(r)
        BY <1>1
    <2>2. UNCHANGED <<Regsiter_Status, gsmPc, authed>>
        BY <2>1 DEF SendRequest, Refused, AppFrame, loginVars
    <2>3. Operate_enable' = 1 \/ UNCHANGED Operate_enable
        BY <2>1 DEF SendRequest, Refused, loginVars
    <2> QED
        BY <2>2, <2>3, SameLoggedIn, AskedLoggedIn
<1>2. CASE LoginAccepted \/ RegisterAccepted
    BY <1>2 DEF LoginAccepted, RegisterAccepted, AppFrame, LoggedInInv
<1>3. CASE DataLinkOK_Process \/ CallWanted \/ CallStarts
    BY <1>3 DEF DataLinkOK_Process, CallWanted, CallStarts, AppFrame,
                LoggedInInv, loginVars, netVars
<1>4. CASE \E item \in {"clear"} \cup Requests : MenuLogOut(item)
    <2>1. PICK item \in {"clear"} \cup Requests : MenuLogOut(item)
        BY <1>4
    <2>2. UNCHANGED <<gsmPc, authed>> /\ (Regsiter_Status' => Regsiter_Status)
        BY <2>1 DEF MenuLogOut, AppFrame, netVars
    <2>3. Operate_enable' = 1 \/ UNCHANGED Operate_enable
        BY <2>1 DEF MenuLogOut
    <2>4. CASE UNCHANGED Operate_enable
        BY <2>2, <2>4 DEF LoggedInInv
    <2> QED
        BY <2>3, <2>4, AskedLoggedIn
<1> QED
    BY <1>1, <1>2, <1>3, <1>4

LEMMA StepLoggedIn ==
    ASSUME LoggedInInv, [Next]_vars
    PROVE LoggedInInv'
<1>1. CASE UNCHANGED vars
    BY <1>1 DEF vars, loginVars, netVars, LoggedInInv
<1>2. CASE Next
    BY <1>2, GsmLoggedIn, ConnectLoggedIn, InterruptLoggedIn, AppLoggedIn DEF Next
<1> QED
    BY <1>1, <1>2

\* A registered terminal that is online and takes itself for logged in has had
\* a login accepted on this connection.
THEOREM LoginBelongsToLink == Spec => []LoggedInHere
<1>1. Init => LoggedInInv
    BY DEF Init, LoggedInInv
<1>2. LoggedInInv /\ [Next]_vars => LoggedInInv'
    BY StepLoggedIn
<1>3. LoggedInInv => LoggedInHere
    BY DEF LoggedInInv, LoggedInHere
<1> QED
    BY <1>1, <1>2, <1>3, PTL DEF Spec

-----------------------------------------------------------------------------
(* The watch                                                               *)

\* Nothing is being dialled, and nothing is about to be.
Quiet ==
    /\ boot = "done" /\ Dial_step = Dial_Idle
    /\ ~dns /\ ~start_dial_stateFLAG

\* With a connection, also one that DataLinkOK_Process is about to mark as
\* good, there is no dial.
LinkedQuiet ==
    (DataLink_Online \/ appPc = "linkok") /\ tcp /\ gsmPc = "loop" => Quiet

\* CONNECT comes only after the answers to the name queries.
ConnectReady == gsmPc = "connect" => boot = "done" /\ ~dns

\* Until the modem is set up nothing is dialled.
NotUp ==
    /\ boot \in {"power", "initial", "done"}
    /\ boot # "done" => ~Dial_ON /\ ~asked /\ ~DataLink_Online /\ appPc = "loop"

\* Before the SIM is read only the watch asks for a close, and it resets the
\* terminal before End_Datalink dials.
WatchFirst ==
    boot = "power" /\ DataLink_EndFlag => start_dial_counter > DataLink_EndCounter

Counters ==
    /\ start_dial_counter \in 0 .. ResetTicks
    /\ DataLink_EndCounter \in 0 .. EndTicks

WatchInv == LinkedQuiet /\ ConnectReady /\ NotUp /\ WatchFirst /\ Counters

\* The steps of a dial are numbers below Dial_Idle.
LEMMA IdleIsLast ==
    /\ Dial_Idle \notin 0 .. DNSR2
    /\ Dial_Idle # MainLnk /\ Dial_Idle # AuxLnk /\ Dial_Idle # 0
BY SessionAssumption DEF SessionAssumption, Dial_Idle, DNSR2, MainLnk, AuxLnk

\* The switch at the end of GSM_Process does not leave Dial_Idle.
LEMMA DispatchWatch ==
    ASSUME NEW line, Dispatch(line)
    PROVE /\ Dial_step = Dial_Idle => Dial_step' = Dial_Idle
          /\ asked' => asked
<1>1. Dial_step = Dial_Idle => Dial_step' = Dial_Idle
    BY IdleIsLast DEF Dispatch, Dial_Stage, stepVars
<1>2. asked' = asked \/ asked' = FALSE
    BY DEF Dispatch, Dial_Stage, stepVars
<1> QED
    BY <1>1, <1>2

\* A step that brings up no link, starts no dial and, before the SIM is read,
\* requests no close.
LEMMA SameWatch ==
    ASSUME WatchInv,
           UNCHANGED <<boot, Dial_ON, gsmPc>>, UNCHANGED watchVars,
           UNCHANGED DataLink_EndCounter,
           UNCHANGED DataLink_EndFlag \/ boot # "power",
           (DataLink_Online' \/ appPc' = "linkok")
             => DataLink_Online \/ appPc = "linkok",
           appPc' # "linkok" => appPc' = appPc \/ appPc' = "loop",
           tcp' => tcp, dns' => dns, asked' => asked,
           Dial_step = Dial_Idle => Dial_step' = Dial_Idle
    PROVE WatchInv'
<1> USE DEF watchVars
<1>1. LinkedQuiet'
    BY DEF WatchInv, LinkedQuiet, Quiet, Dial_Idle
<1>2. ConnectReady'
    BY DEF WatchInv, ConnectReady
<1>3. NotUp'
    BY DEF WatchInv, NotUp
<1>4. WatchFirst'
    BY DEF WatchInv, WatchFirst
<1>5. Counters'
    BY DEF WatchInv, Counters
<1> QED
    BY <1>1, <1>2, <1>3, <1>4, <1>5 DEF WatchInv

\* After a reset nothing is up and nothing counts.
LEMMA ResetWatch ==
    ASSUME Reset
    PROVE WatchInv'
<1>1. (LinkedQuiet /\ ConnectReady /\ NotUp /\ WatchFirst)'
    BY DEF Reset, LinkedQuiet, ConnectReady, NotUp, WatchFirst
<1>2. Counters'
    BY SessionAssumption DEF Reset, Counters, SessionAssumption
<1> QED
    BY <1>1, <1>2 DEF WatchInv

\* Until the modem is set up there is no link; a step of the dial is taken
\* only when Dial_step is not Dial_Idle.
LEMMA DialWatch ==
    ASSUME WatchInv,
           \/ ImsiRead \/ TotalInitial \/ Dial_step_Single_10ms_timer
           \/ DialOver \/ DialCommand
    PROVE WatchInv'
<1>1. CASE ImsiRead \/ TotalInitial
    <2>1. /\ boot # "done" /\ boot' \in {"initial", "done"}
          /\ UNCHANGED <<DataLink_Online, appPc, gsmPc>> /\ gsmPc = "loop"
          /\ UNCHANGED <<start_dial_counter, DataLink_EndCounter>>
        BY <1>1 DEF ImsiRead, TotalInitial, watchVars, endVars
    <2>2. boot' = "done" \/ UNCHANGED <<Dial_ON, asked>>
        BY <1>1 DEF ImsiRead, TotalInitial, stepVars
    <2> QED
        BY <2>1, <2>2 DEF WatchInv, LinkedQuiet, ConnectReady, NotUp, WatchFirst,
                          Counters
<1>2. CASE Dial_step_Single_10ms_timer
    BY <1>2, SameWatch DEF Dial_step_Single_10ms_timer, dnsVars, endVars, netVars
<1>3. CASE DialOver \/ DialCommand
    <2>1. Dial_step # Dial_Idle /\ Dial_ON /\ gsmPc = "loop"
        BY <1>3 DEF DialOver, DialCommand, DialDue
    <2>2. /\ UNCHANGED <<boot, DataLink_Online, appPc, gsmPc, tcp>>
          /\ UNCHANGED <<start_dial_counter, DataLink_EndCounter, DataLink_EndFlag>>
        BY <1>3 DEF DialOver, DialCommand, endVars, netVars, watchVars
    <2> QED
        BY <2>1, <2>2 DEF WatchInv, LinkedQuiet, Quiet, ConnectReady, NotUp,
                          WatchFirst, Counters
<1> QED
    BY <1>1, <1>2, <1>3

\* The lines that start no dial.
LEMMA LineWatch ==
    ASSUME WatchInv,
           \/ LineOk \/ LineOther \/ LineFailed \/ LineDnsrFails
           \/ (\E n \in 0 .. 2 : LineError(n))
           \/ LineClosed \/ LineAllClosed
    PROVE WatchInv'
<1>1. /\ UNCHANGED <<boot, Dial_ON, gsmPc, appPc>> /\ UNCHANGED watchVars
      /\ UNCHANGED DataLink_EndCounter
    BY DEF LineOk, LineOther, LineFailed, LineDnsrFails, LineError, LineClosed,
           LineAllClosed, LineFrame, endVars, CountErrors
<1>2. \E line \in {"ok", "other", "failed", "error"} : Dispatch(line)
    BY DEF LineOk, LineOther, LineFailed, LineDnsrFails, LineError, LineClosed,
           LineAllClosed
<1>3. /\ Dial_step = Dial_Idle => Dial_step' = Dial_Idle
      /\ asked' => asked
    BY <1>2, DispatchWatch
<1>4. UNCHANGED DataLink_EndFlag \/ boot # "power"
    BY DEF LineOk, LineOther, LineFailed, LineDnsrFails, LineError, LineClosed,
           LineAllClosed, SimRead, endVars
<1>5. /\ UNCHANGED DataLink_Online \/ DataLink_Online' = FALSE
      /\ UNCHANGED tcp \/ tcp' = FALSE
      /\ UNCHANGED dns \/ dns' = FALSE
    BY DEF LineOk, LineOther, LineFailed, LineDnsrFails, LineError, LineClosed,
           LineAllClosed, netVars, dnsVars
<1> QED
    BY <1>1, <1>3, <1>4, <1>5, SameWatch

\* An error of the network goes on with a dial only if there is one, or after
\* it has closed the connection; the answer to a name query is owed only in
\* a dial.
LEMMA LinkErrorWatch ==
    ASSUME WatchInv, LineLinkError \/ LineDnsr
    PROVE WatchInv'
<1>1. /\ UNCHANGED <<boot, Dial_ON, gsmPc, appPc, DataLink_Online>>
      /\ UNCHANGED watchVars /\ gsmPc = "loop"
      /\ UNCHANGED DataLink_EndCounter
      /\ UNCHANGED DataLink_EndFlag \/ boot # "power"
      /\ UNCHANGED dns \/ dns' = FALSE
    BY DEF LineLinkError, LineDnsr, LineFrame, SimRead, endVars, dnsVars, CountErrors
<1>2. \/ tcp' = FALSE /\ asked' = FALSE
      \/ UNCHANGED tcp /\ asked' = FALSE /\ (Dial_step = MainLnk \/ dns)
      \/ UNCHANGED tcp /\ Dispatch("other")
    BY DEF LineLinkError, LineDnsr, Dial_Stage, netVars
<1>3. CASE UNCHANGED tcp /\ Dispatch("other")
    BY <1>1, <1>3, DispatchWatch, SameWatch
<1>4. CASE asked' = FALSE /\ (tcp' = FALSE \/ (UNCHANGED tcp /\ (Dial_step = MainLnk \/ dns)))
    <2>1. LinkedQuiet'
        BY <1>1, <1>4, IdleIsLast DEF WatchInv, LinkedQuiet, Quiet
    <2>2. (ConnectReady /\ NotUp)'
        BY <1>1, <1>4 DEF WatchInv, ConnectReady, NotUp
    <2>3. (WatchFirst /\ Counters)'
        BY <1>1 DEF WatchInv, WatchFirst, Counters, watchVars
    <2> QED
        BY <2>1, <2>2, <2>3 DEF WatchInv
<1> QED
    BY <1>2, <1>3, <1>4

\* CONNECT: the watch is over.
LEMMA ConnectWatch ==
    ASSUME WatchInv, LineConnect \/ ConnectDone
    PROVE WatchInv'
<1>1. CASE LineConnect
    <2>1. /\ asked /\ ~dns /\ gsmPc' = "connect"
          /\ UNCHANGED <<boot, Dial_ON, asked, dns, DataLink_Online, appPc>>
          /\ UNCHANGED <<start_dial_counter, DataLink_EndFlag, DataLink_EndCounter>>
        BY <1>1 DEF LineConnect, stepVars, dnsVars, watchVars, endVars
    <2> QED
        BY <2>1 DEF WatchInv, LinkedQuiet, ConnectReady, NotUp, WatchFirst, Counters
<1>2. CASE ConnectDone
    <2>1. /\ boot = "done" /\ boot' = "done" /\ ~dns' /\ gsmPc' = "loop"
          /\ Dial_step' = Dial_Idle /\ ~start_dial_stateFLAG'
        BY <1>2 DEF WatchInv, ConnectReady, ConnectDone, Dial_Stage, dnsVars
    <2>2. (LinkedQuiet /\ ConnectReady /\ NotUp /\ WatchFirst)'
        BY <2>1 DEF LinkedQuiet, Quiet, ConnectReady, NotUp, WatchFirst, Dial_Idle
    <2>3. Counters'
        BY <1>2, SessionAssumption
        DEF WatchInv, ConnectDone, Counters, endVars, SessionAssumption
    <2> QED
        BY <2>2, <2>3 DEF WatchInv
<1> QED
    BY <1>1, <1>2

\* Before the SIM is read End_Datalink does not come to its new dial: the
\* watch's reset is earlier.
LEMMA NoEarlyRedial ==
    ASSUME WatchInv, Redials
    PROVE boot # "power"
BY SessionAssumption
DEF WatchInv, WatchFirst, Counters, Redials, SessionAssumption

\* A tick without a reset.  The new dial comes ticks after the terminal went
\* offline, when the app808 thread is no longer before DataLinkOK_Process.
LEMMA TickWatch ==
    ASSUME WatchInv, NEW late \in BOOLEAN, timeout_gsm(late), ~Reset
    PROVE WatchInv'
<1>1. /\ End_Datalink
      /\ UNCHANGED <<gsmPc, appPc, dns>>
      /\ start_dial_stateFLAG' = (start_dial_stateFLAG \/ Redials)
      /\ DataLink_EndFlag' = ((DataLink_EndFlag /\ ~Redials) \/ late)
    BY DEF timeout_gsm, dnsVars
<1>2. /\ start_dial_counter' =
           IF Redials THEN 0
           ELSE IF late \/ start_dial_counter > 0 THEN start_dial_counter + 1 ELSE 0
      /\ late => start_dial_counter = 0
      /\ Redials \/ ~(start_dial_counter + 1 > ResetTicks)
      /\ DataLink_EndCounter > 0 => appPc = "loop"
    BY DEF timeout_gsm
<1>3. Redials => appPc = "loop" /\ DataLink_EndFlag
    BY <1>2, SessionAssumption DEF Redials, WatchInv, Counters, SessionAssumption
<1>4. CASE Redials
    <2>1. /\ boot' = (IF boot = "initial" THEN "done" ELSE boot)
          /\ DataLink_Online' = FALSE
        BY <1>1, <1>3, <1>4 DEF End_Datalink
    <2>2. boot # "power"
        BY <1>4, NoEarlyRedial
    <2>3. (LinkedQuiet /\ ConnectReady /\ NotUp /\ WatchFirst)'
        <3>1. LinkedQuiet'
            BY <1>1, <1>3, <1>4, <2>1 DEF LinkedQuiet
        <3>2. boot = "initial" => gsmPc # "connect"
            BY DEF WatchInv, ConnectReady
        <3>3. ConnectReady'
            BY <1>1, <2>1, <3>2 DEF WatchInv, ConnectReady
        <3>4. boot' = "done"
            BY <2>1, <2>2 DEF WatchInv, NotUp
        <3> QED
            BY <3>1, <3>3, <3>4 DEF NotUp, WatchFirst
    <2>4. Counters'
        BY <1>1, <1>2, <1>4, SessionAssumption
        DEF Counters, End_Datalink, SessionAssumption
    <2> QED
        BY <2>3, <2>4 DEF WatchInv
<1>5. CASE ~Redials
    <2>1. /\ UNCHANGED <<boot, Dial_ON, Dial_step, asked>>
          /\ start_dial_stateFLAG' => start_dial_stateFLAG
          /\ DataLink_Online' => DataLink_Online
          /\ UNCHANGED tcp \/ tcp' = FALSE
        BY <1>1, <1>5 DEF End_Datalink
    <2>2. (LinkedQuiet /\ ConnectReady /\ NotUp)'
        BY <1>1, <2>1
        DEF WatchInv, LinkedQuiet, Quiet, ConnectReady, NotUp, Dial_Idle
    <2>3. DataLink_EndCounter' =
            IF DataLink_EndFlag THEN DataLink_EndCounter + 1 ELSE 0
        BY <1>1, <1>5 DEF End_Datalink
    <2>4. Counters'
        BY <1>2, <1>5, <2>3, SessionAssumption
        DEF WatchInv, Counters, Redials, SessionAssumption
    <2>5. WatchFirst'
        BY <1>1, <1>2, <1>5, <2>1, <2>3, SessionAssumption
        DEF WatchInv, WatchFirst, Counters, SessionAssumption
    <2> QED
        BY <2>2, <2>4, <2>5 DEF WatchInv
<1> QED
    BY <1>4, <1>5

\* The interrupts.
LEMMA InterruptWatch ==
    ASSUME WatchInv,
           \/ \E late \in BOOLEAN : timeout_gsm(late)
           \/ \E r \in Requests : RequestTimer(r)
           \/ CloseRequested \/ ResetRequested
    PROVE WatchInv'
<1>1. CASE \E late \in BOOLEAN : timeout_gsm(late)
    BY <1>1, ResetWatch, TickWatch
<1>2. CASE (\E r \in Requests : RequestTimer(r)) \/ CloseRequested
    <2>1. /\ UNCHANGED <<boot, Dial_ON, gsmPc, appPc, DataLink_Online>>
          /\ UNCHANGED <<Dial_step, asked, dns, tcp, DataLink_EndCounter>>
          /\ UNCHANGED watchVars
        BY <1>2 DEF RequestTimer, CloseRequested, stepVars, dnsVars, netVars
    <2>2. DataLink_Online \/ SimRead
        BY <1>2 DEF RequestTimer, CloseRequested
    <2>3. boot # "power"
        BY <2>2 DEF SimRead, WatchInv, NotUp
    <2> QED
        BY <2>1, <2>3, SameWatch
<1>3. CASE ResetRequested
    BY <1>3, ResetWatch DEF ResetRequested
<1> QED
    BY <1>1, <1>2, <1>3

\* The app808 thread marks a link as good only if it was online when the login
\* was accepted; nothing else here touches what the invariant is about.
LEMMA AppWatch ==
    ASSUME WatchInv,
           \/ \E r \in Requests : SendRequest(r) \/ Refused(r)
           \/ LoginAccepted \/ DataLinkOK_Process \/ RegisterAccepted
           \/ \E item \in {"clear"} \cup Requests : MenuLogOut(item)
           \/ CallWanted \/ CallStarts
    PROVE WatchInv'
<1>1. AppFrame /\ UNCHANGED tcp
    BY DEF SendRequest, Refused, LoginAccepted, DataLinkOK_Process,
           RegisterAccepted, MenuLogOut, CallWanted, CallStarts, netVars
<1>2. /\ UNCHANGED <<boot, Dial_ON, gsmPc, Dial_step, asked, dns, DataLink_EndFlag,
                     DataLink_EndCounter>>
      /\ UNCHANGED watchVars
    BY <1>1 DEF AppFrame, stepVars, dnsVars, endVars
<1>3. /\ (DataLink_Online' \/ appPc' = "linkok")
           => DataLink_Online \/ appPc = "linkok"
      /\ appPc' # "linkok" => appPc' = appPc \/ appPc' = "loop"
    BY DEF SendRequest, Refused, LoginAccepted, DataLinkOK_Process,
           RegisterAccepted, MenuLogOut, CallWanted, CallStarts
<1> QED
    BY <1>1, <1>2, <1>3, SameWatch

LEMMA StepWatch ==
    ASSUME WatchInv, [Next]_vars
    PROVE WatchInv'
<1>1. CASE UNCHANGED vars
    BY <1>1, SameWatch DEF vars, stepVars, dnsVars, endVars, netVars
<1>2. CASE Next
    BY <1>2, DialWatch, LineWatch, LinkErrorWatch, ConnectWatch, InterruptWatch,
       AppWatch DEF Next
<1> QED
    BY <1>1, <1>2

\* The watch that resets the terminal is off while the connection works.
THEOREM NoResetWhileLinked == Spec => []WatchOffWhileLinked
<1>1. Init => WatchInv
    BY SessionAssumption
    DEF Init, WatchInv, LinkedQuiet, ConnectReady, NotUp, WatchFirst, Counters,
        SessionAssumption
<1>2. WatchInv /\ [Next]_vars => WatchInv'
    BY StepWatch
<1>3. WatchInv => WatchOffWhileLinked
    BY DEF WatchInv, LinkedQuiet, Quiet, WatchOffWhileLinked
<1> QED
    BY <1>1, <1>2, <1>3, PTL DEF Spec

-----------------------------------------------------------------------------
(* The type invariant, part by part                                        *)

Bools ==
    /\ Dial_ON \in BOOLEAN /\ RetryTimer \in BOOLEAN /\ asked \in BOOLEAN
    /\ start_dial_stateFLAG \in BOOLEAN
    /\ Dnsr_state \in BOOLEAN /\ dns \in BOOLEAN
    /\ DataLink_Online \in BOOLEAN /\ DataLink_EndFlag \in BOOLEAN
    /\ Regsiter_Status \in BOOLEAN /\ tcp \in BOOLEAN /\ authed \in BOOLEAN

DialTypes ==
    /\ boot \in {"power", "initial", "done"}
    /\ Dial_step \in 0 .. Dial_Idle
    /\ Dial_step_Retry \in 0 .. StepRetries

LinkTypes ==
    /\ start_dial_counter \in 0 .. ResetTicks
    /\ Dial_jump_State \in {0, 7, 8}
    /\ DataLink_EndCounter \in 0 .. EndTicks
    /\ Online_error_counter \in 0 .. ErrorLimit

LoginTypes ==
    /\ CallState \in {"Idle", "rdytoDialLis", "Dialing"}
    /\ gsmPc \in {"loop", "connect"} /\ appPc \in {"loop", "linkok"}
    /\ Operate_enable \in 0 .. 2 /\ onAir \subseteq Requests
    /\ faults \in 0 .. MaxFaults

EnableTypes == Enable_sd \in [Requests -> BOOLEAN]

AddTypes == Sd_add \in [Requests -> 0 .. SdLimit]

Types == Bools /\ DialTypes /\ LinkTypes /\ LoginTypes /\ EnableTypes /\ AddTypes

LEMMA TypeParts == TypeOK <=> Types
BY Zenon DEF TypeOK, Types, Bools, DialTypes, LinkTypes, LoginTypes, EnableTypes, AddTypes

LEMMA InitTypes == Init => Types
<1> SUFFICES ASSUME Init PROVE Types
    OBVIOUS
<1>0. Bools
    BY Zenon DEF Init, Bools
<1>1. DialTypes
    BY SessionAssumption DEF Init, DialTypes, Dial_Idle
<1>2. LinkTypes
    BY SessionAssumption DEF Init, LinkTypes
<1>3. LoginTypes
    BY SessionAssumption DEF Init, LoginTypes
<1>4. EnableTypes
    BY Zenon DEF Init, EnableTypes
<1>5. AddTypes
    BY SessionAssumption DEF Init, AddTypes
<1> QED BY <1>0, <1>1, <1>2, <1>3, <1>4, <1>5 DEF Types

\* A reset leaves what a start leaves.
LEMMA ResetTypes ==
    ASSUME Reset, Types, faults' \in 0 .. MaxFaults
    PROVE  Types'
<1>0. Bools'
    BY Zenon DEF Reset, Types, Bools
<1>1. DialTypes'
    BY SessionAssumption DEF Reset, DialTypes, Dial_Idle
<1>2. LinkTypes'
    BY SessionAssumption DEF Reset, LinkTypes
<1>3. LoginTypes'
    BY SessionAssumption DEF Reset, LoginTypes
<1>4. EnableTypes'
    BY Zenon DEF Reset, EnableTypes
<1>5. AddTypes'
    BY SessionAssumption DEF Reset, AddTypes
<1> QED BY <1>0, <1>1, <1>2, <1>3, <1>4, <1>5 DEF Types

\* A step of the dial begins.
LEMMA StageTypes ==
    ASSUME NEW s \in 0 .. Dial_Idle, Dial_Stage(s), boot' \in {boot, "done"},
           DialTypes
    PROVE  DialTypes'
BY SessionAssumption DEF Dial_Stage, DialTypes

\* The switch at the end of GSM_Process.
LEMMA DispatchTypes ==
    ASSUME NEW line, Dispatch(line), DialTypes, AddTypes, UNCHANGED boot
    PROVE  DialTypes' /\ AddTypes'
<1>1. AddTypes'
    BY SessionAssumption DEF Dispatch, AddTypes
<1>3. Dial_Idle \in 0 .. Dial_Idle
    BY SessionAssumption DEF Dial_Idle
<1>2. boot' \in {boot, "done"}
    OBVIOUS
<1>4. CASE Dial_Stage(Dial_Idle)
    BY <1>1, <1>2, <1>3, <1>4, StageTypes
<1>5. CASE Dial_step \in 0 .. DNSR2 /\ Dial_Stage(Dial_step + 1)
    <2>1. Dial_step + 1 \in 0 .. Dial_Idle
        BY <1>5, SessionAssumption DEF Dial_Idle, DNSR2
    <2> QED BY <1>1, <1>2, <1>5, <2>1, StageTypes
<1>6. CASE UNCHANGED <<Dial_step, Dial_step_Retry>>
    BY <1>1, <1>6 DEF DialTypes
<1> QED BY <1>4, <1>5, <1>6 DEF Dispatch, stepVars

\* ... and the Boolean variables it sets.
LEMMA DispatchBools ==
    ASSUME NEW line, Dispatch(line), RetryTimer \in BOOLEAN, asked \in BOOLEAN
    PROVE  RetryTimer' \in BOOLEAN /\ asked' \in BOOLEAN
BY Zenon DEF Dispatch, Dial_Stage, stepVars


\* A fault is counted, or nothing is.
LEMMA FaultTypes ==
    ASSUME LoginTypes, Fault \/ UNCHANGED faults
    PROVE  faults' \in 0 .. MaxFaults
BY SessionAssumption DEF Fault, LoginTypes

\* The lines that end in the switch, with what else they set.
LEMMA LineTypes ==
    ASSUME Types,
           \/ LineOk \/ LineOther \/ LineFailed \/ LineDnsrFails
           \/ (\E n \in 0 .. 2 : LineError(n)) \/ LineClosed \/ LineAllClosed
    PROVE  Types'
<1> USE DEF Types
<1>1. LineFrame
    BY DEF LineOk, LineOther, LineFailed, LineDnsrFails, LineError, LineClosed,
           LineAllClosed
<1>2. PICK line : Dispatch(line)
    BY DEF LineOk, LineOther, LineFailed, LineDnsrFails, LineError, LineClosed,
           LineAllClosed
<1>3. DialTypes' /\ AddTypes'
    BY <1>1, <1>2, DispatchTypes DEF LineFrame
<1>4. EnableTypes'
    BY <1>1 DEF LineFrame, EnableTypes
<1>5. faults' \in 0 .. MaxFaults
    BY FaultTypes DEF LineOk, LineOther, LineFailed, LineDnsrFails, LineError,
                      LineClosed, LineAllClosed, FaultUnless
<1>6. Operate_enable' \in 0 .. 2 /\ onAir' \subseteq Requests
    BY DEF LoginTypes, LineOk, LineOther, LineFailed, LineDnsrFails, LineError,
           LineClosed, LineAllClosed, loginVars, netVars
<1>7. CallState' \in {"Idle", "rdytoDialLis", "Dialing"}
    BY DEF LoginTypes, LineOk, LineOther, LineFailed, LineDnsrFails, LineError,
           LineClosed, LineAllClosed
<1>8. LoginTypes'
    BY <1>1, <1>5, <1>6, <1>7 DEF LoginTypes, LineFrame
<1>9. LinkTypes'
    <2>1. start_dial_counter' = start_dial_counter
        BY <1>1 DEF LineFrame, watchVars
    <2>2. DataLink_EndCounter' = DataLink_EndCounter
        BY DEF LineOk, LineOther, LineFailed, LineDnsrFails, LineError,
               LineClosed, LineAllClosed, CountErrors, endVars
    <2>3. Dial_jump_State' \in {0, 7, 8}
        BY DEF LinkTypes, LineOk, LineOther, LineFailed, LineDnsrFails,
               LineError, LineClosed, LineAllClosed, dnsVars
    <2>4. Online_error_counter' \in 0 .. ErrorLimit
        <3>1. CASE \E n \in 0 .. 2 : LineError(n)
            BY <3>1, SessionAssumption DEF LineError, CountErrors, LinkTypes
        <3>2. CASE ~\E n \in 0 .. 2 : LineError(n)
            BY <3>2, SessionAssumption
               DEF LinkTypes, LineOk, LineOther, LineFailed, LineDnsrFails,
                   LineClosed, LineAllClosed
        <3> QED BY <3>1, <3>2
    <2> QED BY <2>1, <2>2, <2>3, <2>4 DEF LinkTypes
<1>10. Bools'
    <2>1. RetryTimer' \in BOOLEAN /\ asked' \in BOOLEAN
        BY <1>2, DispatchBools DEF Bools
    <2>2. UNCHANGED <<Dial_ON, start_dial_stateFLAG>>
        BY <1>1 DEF LineFrame, watchVars
    <2>3. Dnsr_state' \in BOOLEAN /\ dns' \in BOOLEAN
        BY DEF Bools, LineOk, LineOther, LineFailed, LineDnsrFails, LineError,
               LineClosed, LineAllClosed, dnsVars
    <2>4. DataLink_Online' \in BOOLEAN
        BY DEF Bools, LineOk, LineOther, LineFailed, LineDnsrFails, LineError,
               LineClosed, LineAllClosed
    <2>5. DataLink_EndFlag' \in BOOLEAN
        <3>1. CASE \E n \in 0 .. 2 : LineError(n)
            BY <3>1 DEF LineError, CountErrors
        <3>2. CASE ~\E n \in 0 .. 2 : LineError(n)
            BY <3>2, Zenon
               DEF Bools, LineOk, LineOther, LineFailed, LineDnsrFails,
                   LineClosed, LineAllClosed, endVars
        <3> QED BY <3>1, <3>2
    <2>6. Regsiter_Status' \in BOOLEAN /\ tcp' \in BOOLEAN /\ authed' \in BOOLEAN
        BY DEF Bools, LineOk, LineOther, LineFailed, LineDnsrFails, LineError,
               LineClosed, LineAllClosed, loginVars, netVars
    <2> QED BY <2>1, <2>2, <2>3, <2>4, <2>5, <2>6, Zenon DEF Bools
<1> QED BY <1>3, <1>4, <1>8, <1>9, <1>10

\* The other lines.
LEMMA LinkErrorTypes ==
    ASSUME Types, LineLinkError
    PROVE  Types'
<1> USE DEF Types
<1>1. LineFrame
    BY DEF LineLinkError
<1>2. faults' \in 0 .. MaxFaults
    BY FaultTypes DEF LineLinkError
<1>3. UNCHANGED <<DataLink_Online, CallState, Operate_enable, Regsiter_Status>>
    BY DEF LineLinkError, loginVars
<1>4. EnableTypes'
    BY <1>1 DEF LineFrame, EnableTypes
<1>5. /\ DNSR1 \in 0 .. Dial_Idle /\ MainLnk \in 0 .. Dial_Idle
      /\ AuxLnk \in 0 .. Dial_Idle
    BY SessionAssumption DEF DNSR1, MainLnk, AuxLnk, Dial_Idle
<1>6. DialTypes' /\ AddTypes'
    <2>1. boot' \in {boot, "done"} /\ boot' = boot
        BY <1>1 DEF LineFrame
    <2>2. CASE UNCHANGED Sd_add
        <3>1. AddTypes'
            BY <2>2 DEF AddTypes
        <3>2. CASE \E s \in 0 .. Dial_Idle : Dial_Stage(s)
            BY <2>1, <3>1, <3>2, StageTypes
        <3>3. CASE Dispatch("other")
            BY <2>1, <3>3, DispatchTypes
        <3> QED BY <1>5, <3>2, <3>3 DEF LineLinkError
    <2>3. CASE Dispatch("other")
        BY <2>1, <2>3, DispatchTypes
    <2> QED BY <2>2, <2>3 DEF LineLinkError
<1>7. onAir' \subseteq Requests
    BY DEF LineLinkError, LoginTypes, netVars
<1>8. LoginTypes'
    BY <1>1, <1>2, <1>3, <1>7 DEF LineFrame, LoginTypes
<1>9. LinkTypes'
    <2>1. start_dial_counter' = start_dial_counter
        BY <1>1 DEF LineFrame, watchVars
    <2>2. DataLink_EndCounter' = DataLink_EndCounter
        BY DEF LineLinkError, CountErrors, endVars
    <2>3. Dial_jump_State' \in {0, 7, 8}
        BY DEF LinkTypes, LineLinkError, dnsVars
    <2>4. Online_error_counter' \in 0 .. ErrorLimit
        BY SessionAssumption DEF LineLinkError, CountErrors, LinkTypes
    <2> QED BY <2>1, <2>2, <2>3, <2>4 DEF LinkTypes
<1>10. Bools'
    <2>1. RetryTimer' \in BOOLEAN /\ asked' \in BOOLEAN
        <3>1. CASE Dispatch("other")
            BY <3>1, DispatchBools DEF Bools
        <3>2. CASE \E s \in 0 .. Dial_Idle : Dial_Stage(s)
            BY <3>2 DEF Dial_Stage
        <3> QED BY <1>5, <3>1, <3>2 DEF LineLinkError
    <2>2. UNCHANGED <<Dial_ON, start_dial_stateFLAG>>
        BY <1>1 DEF LineFrame, watchVars
    <2>3. Dnsr_state' \in BOOLEAN /\ dns' \in BOOLEAN
        BY DEF Bools, LineLinkError, dnsVars
    <2>4. DataLink_EndFlag' \in BOOLEAN
        BY DEF Bools, LineLinkError, CountErrors, endVars
    <2>5. tcp' \in BOOLEAN /\ authed' \in BOOLEAN
        BY DEF Bools, LineLinkError, netVars
    <2> QED BY <1>3, <2>1, <2>2, <2>3, <2>4, <2>5, Zenon DEF Bools
<1> QED BY <1>4, <1>6, <1>8, <1>9, <1>10

LEMMA ConnectTypes ==
    ASSUME Types, LineDnsr \/ LineConnect \/ ConnectDone
    PROVE  Types'
<1> USE DEF Types
<1>1. EnableTypes' /\ AddTypes'
    BY DEF EnableTypes, AddTypes, LineDnsr, LineConnect, ConnectDone, LineFrame,
           askVars
<1>2. MainLnk \in 0 .. Dial_Idle /\ Dial_Idle \in 0 .. Dial_Idle
    BY SessionAssumption DEF MainLnk, Dial_Idle
<1>3. boot' \in {boot, "done"} /\ boot' = boot
    BY DEF LineDnsr, LineConnect, ConnectDone, LineFrame
<1>4. DialTypes'
    <2>1. CASE LineConnect
        BY <2>1 DEF LineConnect, DialTypes, stepVars
    <2>2. CASE LineDnsr \/ ConnectDone
        BY <1>2, <1>3, <2>2, StageTypes DEF LineDnsr, ConnectDone
    <2> QED BY <2>1, <2>2
<1>5. LinkTypes'
    BY SessionAssumption DEF LinkTypes, LineDnsr, LineConnect, ConnectDone,
       LineFrame, watchVars, dnsVars, endVars
<1>6. LoginTypes'
    BY DEF LoginTypes, LineDnsr, LineConnect, ConnectDone, LineFrame, loginVars,
           netVars
<1>7. Bools'
    <2>1. CASE LineDnsr
        BY <2>1, Zenon DEF Bools, LineDnsr, LineFrame, Dial_Stage, watchVars, endVars,
                           loginVars, netVars
    <2>2. CASE LineConnect
        BY <2>2, Zenon DEF Bools, LineConnect, stepVars, watchVars, dnsVars, endVars,
                           loginVars
    <2>3. CASE ConnectDone
        BY <2>3, Zenon DEF Bools, ConnectDone, Dial_Stage, dnsVars, endVars, netVars
    <2> QED BY <2>1, <2>2, <2>3
<1> QED BY <1>1, <1>4, <1>5, <1>6, <1>7

\* A step that leaves all flags but those of the dial alone, and one that leaves
\* all of them alone.
LEMMA StepBools ==
    ASSUME Bools, RetryTimer' \in BOOLEAN, asked' \in BOOLEAN,
           UNCHANGED <<Dial_ON, start_dial_stateFLAG, Dnsr_state, dns, DataLink_Online,
                       DataLink_EndFlag, Regsiter_Status, tcp, authed>>
    PROVE  Bools'
BY Zenon DEF Bools

LEMMA BoolsKept ==
    ASSUME Bools,
           UNCHANGED <<Dial_ON, RetryTimer, asked, start_dial_stateFLAG, Dnsr_state, dns,
                       DataLink_Online, DataLink_EndFlag, Regsiter_Status, tcp, authed>>
    PROVE  Bools'
BY Zenon DEF Bools

\* Dialling.
LEMMA DialStepTypes ==
    ASSUME Types,
           \/ ImsiRead \/ TotalInitial \/ Dial_step_Single_10ms_timer
           \/ DialOver \/ DialCommand
    PROVE  Types'
<1> USE DEF Types
<1>1. EnableTypes' /\ AddTypes'
    BY DEF EnableTypes, AddTypes, ImsiRead, TotalInitial,
           Dial_step_Single_10ms_timer, DialOver, DialCommand, askVars
<1>2. faults' \in 0 .. MaxFaults
    BY FaultTypes DEF ImsiRead, TotalInitial, Dial_step_Single_10ms_timer,
                      DialOver, DialCommand, FaultUnless
<1>3. LoginTypes'
    BY <1>2 DEF LoginTypes, ImsiRead, TotalInitial, Dial_step_Single_10ms_timer,
                DialOver, DialCommand, loginVars, netVars
<1>4. LinkTypes'
    BY DEF LinkTypes, ImsiRead, TotalInitial, Dial_step_Single_10ms_timer,
           DialOver, DialCommand, watchVars, dnsVars, endVars
<1>5. DialTypes'
    <2>1. CASE ImsiRead \/ Dial_step_Single_10ms_timer
        BY <2>1 DEF DialTypes, ImsiRead, Dial_step_Single_10ms_timer, stepVars
    <2>2. CASE TotalInitial
        BY <2>2, SessionAssumption DEF DialTypes, TotalInitial, Dial_Stage,
                                       Dial_Idle
    <2>3. CASE DialOver
        BY <2>3, SessionAssumption DEF DialTypes, DialOver, MainLnk, Dial_Idle
    <2>4. CASE DialCommand
        BY <2>4, SessionAssumption DEF DialTypes, DialCommand, DialDue, AuxLnk,
                                       Dial_Idle
    <2> QED BY <2>1, <2>2, <2>3, <2>4
<1>6. Bools'
    <2>1. CASE ImsiRead
        BY <2>1, BoolsKept
           DEF ImsiRead, stepVars, watchVars, dnsVars, endVars, loginVars, netVars
    <2>4. CASE TotalInitial
        <3>1. /\ Dial_ON' = TRUE /\ RetryTimer' = TRUE /\ asked' = FALSE
              /\ UNCHANGED <<watchVars, dnsVars, DataLink_Online, endVars,
                             loginVars, netVars>>
            BY <2>4 DEF TotalInitial, Dial_Stage
        <3> QED
            BY <3>1, Zenon DEF Bools, watchVars, dnsVars, endVars, loginVars,
                               netVars
    <2>3. CASE Dial_step_Single_10ms_timer \/ DialOver
        <3>1. /\ RetryTimer' \in {FALSE, RetryTimer} /\ asked' \in {FALSE, asked}
              /\ UNCHANGED <<Dial_ON, watchVars, dnsVars, DataLink_Online, endVars,
                             loginVars, netVars>>
            BY <2>3 DEF Dial_step_Single_10ms_timer, DialOver
        <3>2. RetryTimer' \in BOOLEAN /\ asked' \in BOOLEAN
            BY <3>1, Zenon DEF Bools
        <3> QED
            BY <3>1, <3>2, StepBools DEF watchVars, dnsVars, endVars, loginVars, netVars
    <2>2. CASE DialCommand
        <3>1. start_dial_stateFLAG' \in BOOLEAN
            BY <2>2 DEF DialCommand
        <3>2. Dnsr_state' \in BOOLEAN /\ dns' \in BOOLEAN
            BY <2>2 DEF DialCommand, Bools, dnsVars
        <3>3. /\ UNCHANGED <<Dial_ON, DataLink_Online, endVars, loginVars, netVars>>
              /\ RetryTimer' = TRUE /\ asked' = TRUE
            BY <2>2 DEF DialCommand
        <3> QED
            BY <3>1, <3>2, <3>3, Zenon DEF Bools, endVars, loginVars, netVars
    <2> QED BY <2>1, <2>2, <2>3, <2>4
<1> QED BY <1>1, <1>3, <1>4, <1>5, <1>6

\* Timer interrupts and requests.
LEMMA TickTypes ==
    ASSUME Types, NEW late \in BOOLEAN, timeout_gsm(late)
    PROVE  Types'
<1> USE DEF Types
<1>1. faults' \in 0 .. MaxFaults
    BY FaultTypes DEF timeout_gsm, FaultUnless
<1>2. CASE Reset
    BY <1>1, <1>2, ResetTypes
<1>3. CASE ~(~Redials /\ start_dial_counter + 1 > ResetTicks)
    <2>1. /\ End_Datalink
          /\ start_dial_stateFLAG' = (start_dial_stateFLAG \/ Redials)
          /\ start_dial_counter' =
               IF Redials THEN 0
               ELSE IF late \/ start_dial_counter > 0
                 THEN start_dial_counter + 1 ELSE 0
          /\ DataLink_EndFlag' = ((DataLink_EndFlag /\ ~Redials) \/ late)
          /\ UNCHANGED <<dnsVars, Online_error_counter, CallState, gsmPc,
                         appPc, loginVars, askVars, authed>>
        BY <1>3 DEF timeout_gsm
    <2>2. EnableTypes' /\ AddTypes'
        BY <2>1 DEF EnableTypes, AddTypes, askVars
    <2>3. LoginTypes'
        <3>1. onAir' \subseteq Requests
            BY <2>1 DEF End_Datalink, LoginTypes
        <3> QED BY <1>1, <2>1, <3>1 DEF LoginTypes, loginVars
    <2>4. LinkTypes'
        <3>1. start_dial_counter' \in 0 .. ResetTicks
            BY <1>3, <2>1, SessionAssumption DEF LinkTypes
        <3>2. DataLink_EndCounter' \in 0 .. EndTicks
            BY <2>1, SessionAssumption DEF End_Datalink, Redials, LinkTypes
        <3> QED BY <2>1, <3>1, <3>2 DEF LinkTypes, dnsVars
    <2>5. DialTypes'
        <3>1. CASE Redials
            <4>1. boot' \in {boot, "done"} /\ Dial_Stage(0)
                BY <2>1, <3>1 DEF End_Datalink
            <4>2. 0 \in 0 .. Dial_Idle
                BY SessionAssumption DEF Dial_Idle
            <4> QED BY <4>1, <4>2, StageTypes
        <3>2. CASE ~Redials
            <4>1. Dial_step_Retry' \in {0, Dial_step_Retry}
                  /\ UNCHANGED <<Dial_step, boot>>
                BY <2>1, <3>2 DEF End_Datalink
            <4> QED BY <4>1, SessionAssumption DEF DialTypes
        <3> QED BY <3>1, <3>2
    <2>6. Bools'
        <3>1. start_dial_stateFLAG' \in BOOLEAN /\ DataLink_EndFlag' \in BOOLEAN
            BY <2>1
        <3>2. DataLink_Online' \in BOOLEAN
            BY <2>1 DEF End_Datalink
        <3>3. tcp' \in BOOLEAN
            BY <2>1, Zenon DEF End_Datalink, Bools
        <3>4. Dial_ON' \in BOOLEAN /\ RetryTimer' \in BOOLEAN /\ asked' \in BOOLEAN
            BY <2>1, Zenon DEF End_Datalink, Dial_Stage, Bools
        <3>5. UNCHANGED <<Dnsr_state, dns, Regsiter_Status, authed>>
            BY <2>1 DEF dnsVars, loginVars
        <3> QED BY <3>1, <3>2, <3>3, <3>4, <3>5, Zenon DEF Bools
    <2> QED BY <2>2, <2>3, <2>4, <2>5, <2>6
<1> QED BY <1>2, <1>3 DEF timeout_gsm

LEMMA RequestTypes ==
    ASSUME Types,
           \/ \E r \in Requests : RequestTimer(r)
           \/ CloseRequested \/ ResetRequested
    PROVE  Types'
<1> USE DEF Types
<1>1. faults' \in 0 .. MaxFaults
    BY FaultTypes DEF RequestTimer, CloseRequested, ResetRequested, FaultUnless
<1>2. CASE ResetRequested
    BY <1>1, <1>2, ResetTypes DEF ResetRequested
<1>3. CASE CloseRequested
    <2>1. DialTypes' /\ LinkTypes' /\ EnableTypes' /\ AddTypes'
        BY <1>3 DEF CloseRequested, DialTypes, LinkTypes, EnableTypes, AddTypes,
                    stepVars, watchVars, dnsVars, askVars
    <2>2. LoginTypes'
        BY <1>1, <1>3 DEF CloseRequested, LoginTypes, loginVars, netVars
    <2>3. Bools'
        BY <1>3, Zenon DEF CloseRequested, Bools, stepVars, watchVars, dnsVars,
                           loginVars, netVars
    <2> QED BY <2>1, <2>2, <2>3
<1>4. CASE \E r \in Requests : RequestTimer(r)
    <2>1. PICK r \in Requests : RequestTimer(r)
        BY <1>4
    <2>2. DialTypes' /\ LinkTypes'
        BY <2>1 DEF RequestTimer, DialTypes, LinkTypes, stepVars, watchVars,
                    dnsVars
    <2>3. LoginTypes'
        BY <1>1, <2>1 DEF RequestTimer, LoginTypes, loginVars, netVars
    <2>4. EnableTypes'
        BY <2>1 DEF RequestTimer, EnableTypes
    <2>5. AddTypes'
        BY <2>1, SessionAssumption DEF RequestTimer, AddTypes
    <2>6. DataLink_EndFlag' \in BOOLEAN
        BY <2>1 DEF RequestTimer
    <2>7. Bools'
        BY <2>1, <2>6, Zenon DEF RequestTimer, Bools, stepVars, watchVars,
                                 dnsVars, loginVars, netVars
    <2> QED BY <2>2, <2>3, <2>4, <2>5, <2>7
<1> QED BY <1>2, <1>3, <1>4

\* The app808 thread, the menu and the centre.
LEMMA AppTypes ==
    ASSUME Types,
           \/ \E r \in Requests : SendRequest(r) \/ Refused(r)
           \/ LoginAccepted \/ DataLinkOK_Process \/ RegisterAccepted
           \/ \E item \in {"clear"} \cup Requests : MenuLogOut(item)
           \/ CallWanted \/ CallStarts
    PROVE  Types'
<1> USE DEF Types
<1>1. AppFrame
    BY DEF SendRequest, Refused, LoginAccepted, DataLinkOK_Process,
           RegisterAccepted, MenuLogOut, CallWanted, CallStarts
<1>2. DialTypes' /\ LinkTypes'
    BY <1>1 DEF AppFrame, DialTypes, LinkTypes, stepVars, watchVars, dnsVars,
                endVars
<1>3. faults' \in 0 .. MaxFaults
    BY FaultTypes DEF SendRequest, Refused, LoginAccepted, DataLinkOK_Process,
                      RegisterAccepted, MenuLogOut, CallWanted, CallStarts
<1>4. gsmPc' = gsmPc
    BY <1>1 DEF AppFrame
<1>5. appPc' \in {"loop", "linkok"}
    BY DEF LoginTypes, SendRequest, Refused, LoginAccepted, DataLinkOK_Process,
           RegisterAccepted, MenuLogOut, CallWanted, CallStarts
<1>6. CallState' \in {"Idle", "rdytoDialLis", "Dialing"}
    BY DEF LoginTypes, SendRequest, Refused, LoginAccepted, DataLinkOK_Process,
           RegisterAccepted, MenuLogOut, CallWanted, CallStarts
<1>7. onAir' \subseteq Requests
    BY DEF LoginTypes, SendRequest, Refused, LoginAccepted, DataLinkOK_Process,
           RegisterAccepted, MenuLogOut, CallWanted, CallStarts, Answered,
           netVars
<1>8. Operate_enable' \in 0 .. 2
    BY DEF LoginTypes, SendRequest, Refused, LoginAccepted, DataLinkOK_Process,
           RegisterAccepted, MenuLogOut, CallWanted, CallStarts, loginVars
<1>9. LoginTypes'
    BY <1>3, <1>4, <1>5, <1>6, <1>7, <1>8 DEF LoginTypes
<1>10. EnableTypes'
    BY DEF EnableTypes, SendRequest, Refused, LoginAccepted, DataLinkOK_Process,
           RegisterAccepted, MenuLogOut, CallWanted, CallStarts, askVars
<1>11. AddTypes'
    BY SessionAssumption
       DEF AddTypes, SendRequest, Refused, LoginAccepted, DataLinkOK_Process,
           RegisterAccepted, MenuLogOut, CallWanted, CallStarts, askVars
<1>12. Bools'
    <2>1. UNCHANGED <<Dial_ON, stepVars, watchVars, dnsVars, endVars>>
        BY <1>1 DEF AppFrame
    <2>2. DataLink_Online' \in BOOLEAN /\ tcp' \in BOOLEAN /\ authed' \in BOOLEAN
        BY Zenon DEF Bools, SendRequest, Refused, LoginAccepted,
           DataLinkOK_Process, RegisterAccepted, MenuLogOut, CallWanted,
           CallStarts, netVars
    <2>3. Regsiter_Status' \in BOOLEAN
        BY DEF Bools, SendRequest, Refused, LoginAccepted,
           DataLinkOK_Process, RegisterAccepted, MenuLogOut, CallWanted,
           CallStarts, loginVars
    <2> QED
        BY <2>1, <2>2, <2>3, Zenon DEF Bools, stepVars, watchVars, dnsVars, endVars
<1> QED BY <1>2, <1>9, <1>10, <1>11, <1>12

LEMMA StepTypes ==
    ASSUME Types, [Next]_vars
    PROVE  Types'
<1>1. CASE UNCHANGED vars
    <2> USE DEF Types
    <2>1. UNCHANGED <<boot, Dial_ON, stepVars, watchVars, dnsVars, DataLink_Online,
            endVars, Online_error_counter, CallState, gsmPc, appPc, loginVars,
            askVars, netVars, faults>>
        BY <1>1 DEF vars
    <2>2. DialTypes' /\ LinkTypes'
        BY <2>1 DEF DialTypes, LinkTypes, stepVars, watchVars, dnsVars, endVars
    <2>3. LoginTypes'
        BY <2>1 DEF LoginTypes, loginVars, netVars
    <2>4. EnableTypes' /\ AddTypes'
        BY <2>1 DEF EnableTypes, AddTypes, askVars
    <2>5. Bools'
        BY <2>1, BoolsKept DEF stepVars, watchVars, dnsVars, endVars, loginVars,
                               netVars
    <2> QED BY <2>2, <2>3, <2>4, <2>5
<1>2. CASE Next
    BY <1>2, LineTypes, LinkErrorTypes, ConnectTypes, DialStepTypes, TickTypes,
       RequestTypes, AppTypes DEF Next
<1> QED BY <1>1, <1>2

\* Every counter stays within its limit: retries of a dial step, requests
\* without an answer, errors of the modem and the ticks of a close and of the
\* watch, for every value of these limits.
THEOREM SessionTypes == Spec => []TypeOK
<1>1. Types /\ [Next]_vars => Types'
    BY StepTypes
<1>2. Types => TypeOK
    BY TypeParts
<1> QED BY InitTypes, <1>1, <1>2, PTL DEF Spec

=============================================================================
