---------------------------- MODULE CycleStore ----------------------------
(***************************************************************************)
(* The cyclic store of position records and the way it is emptied.         *)
(*                                                                         *)
(* The app808 thread saves a position fix into a ring of flash slots       *)
(* (Save_GPS, Api_cycle_write, SaveCycleGPS), later reads the records back *)
(* and posts them for transmission (Do_SendGPSReport_GPRS,                 *)
(* Stuff_Normal_Data_0200H, ReadCycleGPS).  The gsm thread, of higher      *)
(* priority, moves the read pointer when the modem reports that a packet   *)
(* was sent; a hard timer rearms the reader.  Power may fail between any   *)
(* two steps: the pointers are then restored from the pointer log.         *)
(*                                                                         *)
(* A record is a member of Fix.  saved, posted and derailed are history    *)
(* variables that no code variable depends on; Fresh reads the first two   *)
(* only to give every record its own identity.                             *)
(***************************************************************************)
EXTENDS Integers, FiniteSets

CONSTANTS
    Fix,              \* the position fixes of a behaviour
    Erased,           \* the content of a slot that reads 0xFF
    Garbage,          \* the content of a slot whose check byte is wrong
    Max_CycleNum,     \* slots of the ring (16384 in the build)
    SectorRecords,    \* slots that are erased together (128 in the build)
    AckLimit,         \* seconds after which a record is posted again (5)
    AbnormalLimit,    \* failed writes in a row that are tolerated (3)
    Trans_GNSS_Flag   \* positions are reported directly while logged in

ASSUME RingAssumption ==
    /\ Max_CycleNum \in Nat /\ Max_CycleNum > 1
    /\ SectorRecords \in Nat /\ SectorRecords > 0
    /\ AckLimit \in Nat
    /\ AbnormalLimit \in Nat
    /\ Trans_GNSS_Flag \in BOOLEAN

ASSUME ContentAssumption ==
    /\ Erased \notin Fix
    /\ Garbage \notin Fix

VARIABLES
    flash,                       \* the slots of the ring
    logged,                      \* the pointers that the pointer log gives
    logWild,                     \* ... and they are bytes from outside the log
    cycle_write, cycle_read,
    cycle_writeAbnormal_counter,
    ReadCycle_status,
    ReadCycle_timer,
    Send_Rdy4ok,                 \* a stored record was posted
    PositionInfo_sdFlag,         \* a position waits to be saved or reported
    Current_UDP_sd,              \* ... and is to be reported at once
    ReadFail_sd_current,         \* a stored record could not be read
    DF_LOCK,                     \* the flash is reserved for a voice file
    link,                        \* "down", "online" or "login"
    appPc,                       \* where the app808 thread is
    saving,                      \* the fix that Save_GPS works on
    attempt,                     \* first or second call of Api_cycle_write
    logArg,                      \* the arguments of DF_Write_RecordAdd
    saved,                       \* fixes stored, with the pointers logged
    posted,                      \* stored fixes read and posted
    derailed                     \* the pointers have lost the records

cntVars  == <<cycle_writeAbnormal_counter, ReadCycle_timer, Send_Rdy4ok>>
posVars  == <<PositionInfo_sdFlag, Current_UDP_sd, ReadFail_sd_current>>
saveVars == <<saving, attempt, logArg>>
envVars  == <<DF_LOCK, link>>
histVars == <<saved, posted, derailed>>
vars == <<flash, logged, logWild, cycle_write, cycle_read, ReadCycle_status,
          appPc, cntVars, posVars, saveVars, envVars, histVars>>

Slots    == 0 .. Max_CycleNum - 1
Content  == Fix \cup {Erased, Garbage}

\* Any 32-bit pointer beyond the ring, 0xFFFFFFFF among them: ++ takes each of
\* them to 0, and they all stand for one slot, next to the ring.
Outside  == -1
Area     == {Outside} \cup Slots
Pointers == [wr : Area, rd : Area]
NoArg    == [wr |-> 0, rd |-> 0]

\* What a blank entry of the pointer log reads as
AllOnes  == [wr |-> Outside, rd |-> Outside]
Statuses == {"Idle", "RdytoSD", "SdOver"}
AppPcs   == {"loop", "erase", "program", "log", "mark"}

\* Mutant: the return to 0 comes one slot late.
Succ_Late(p) == IF p + 1 > Max_CycleNum THEN 0 ELSE p + 1

\* ++ with the return to 0 that follows it wherever a ring pointer moves
Succ(p) == IF p + 1 >= Max_CycleNum THEN 0 ELSE p + 1

\* -- behind a test for 0
Back(p) == IF p = 0 THEN {0} ELSE IF p = Outside THEN {Outside, Max_CycleNum - 1}
           ELSE {p - 1}

\* The slots from rd up to, and not including, wr, going round the ring
InWindow(i, rd, wr) ==
    IF rd <= wr THEN rd <= i /\ i < wr ELSE rd <= i \/ i < wr

SectorOf(i)    == i \div SectorRecords
EraseSector(i) == [j \in Area |->
                     IF SectorOf(j) = SectorOf(i) THEN Erased ELSE flash[j]]

Fresh(f) == /\ f \notin saved \cup posted
            /\ \A i \in Area : flash[i] # f

\* A slot that ReadCycleGPS accepts
Readable(i) == flash[i] \in Fix

Init ==
    /\ flash = [i \in Area |-> Erased]
    /\ logged = NoArg /\ logWild = FALSE
    /\ cycle_write = 0 /\ cycle_read = 0
    /\ cycle_writeAbnormal_counter = 0
    /\ ReadCycle_status = "Idle" /\ ReadCycle_timer = 0
    /\ Send_Rdy4ok = FALSE
    /\ PositionInfo_sdFlag = FALSE
    /\ Current_UDP_sd = FALSE
    /\ ReadFail_sd_current = FALSE
    /\ DF_LOCK = FALSE /\ link = "down"
    /\ appPc = "loop"
    /\ saving = Erased /\ attempt = 1 /\ logArg = NoArg
    /\ saved = {} /\ posted = {} /\ derailed = FALSE

-----------------------------------------------------------------------------
(* The app808 thread: Save_GPS                                             *)

\* Save_GPS up to the call of Api_cycle_write; its early returns are the guard.
Save_GPS(f) ==
    /\ appPc = "loop"
    /\ PositionInfo_sdFlag
    /\ ~DF_LOCK
    /\ ~(ReadFail_sd_current /\ link # "down")
    /\ Fresh(f)
    /\ saving' = f /\ attempt' = 1 /\ appPc' = "erase"
    /\ UNCHANGED <<flash, logged, logWild, cycle_write, cycle_read, ReadCycle_status,
                   cntVars, posVars, logArg, envVars, histVars>>

\* Mutant: the sector is erased for every record.
SaveCycleGPS_EraseAlways ==
    /\ appPc = "erase"
    /\ flash' = EraseSector(cycle_write)
    /\ appPc' = "program"
    /\ UNCHANGED <<logged, logWild, cycle_write, cycle_read, ReadCycle_status,
                   cntVars, posVars, saveVars, envVars, histVars>>

\* SaveCycleGPS, part 1: a pointer at the start of a sector erases it.
SaveCycleGPS_Erase ==
    /\ appPc = "erase"
    /\ flash' = IF cycle_write % SectorRecords = 0
                  THEN EraseSector(cycle_write) ELSE flash
    /\ appPc' = "program"
    /\ UNCHANGED <<logged, logWild, cycle_write, cycle_read, ReadCycle_status,
                   cntVars, posVars, saveVars, envVars, histVars>>

\* Moving the write pointer onto the read pointer makes a full ring look empty.
AdvanceWrite ==
    /\ cycle_write' = Succ(cycle_write)
    /\ derailed' = (derailed \/ Succ(cycle_write) = cycle_read)

\* Back in the loop of App808_thread_entry, with the locals of Save_GPS gone.
SaveReturns == appPc' = "loop" /\ saving' = Erased /\ attempt' = 1

\* SaveCycleGPS, part 2, when the record reads back right.  Flash bits can only
\* be cleared, so this needs an erased slot.
SaveCycleGPS_Good ==
    /\ appPc = "program"
    /\ flash[cycle_write] = Erased
    /\ flash' = [flash EXCEPT ![cycle_write] = saving]
    /\ cycle_writeAbnormal_counter' = 0
    /\ AdvanceWrite
    /\ logArg' = [wr |-> Succ(cycle_write), rd |-> cycle_read]
    /\ appPc' = "log"
    /\ UNCHANGED <<logged, logWild, cycle_read, ReadCycle_status, ReadCycle_timer,
                   Send_Rdy4ok, posVars, saving, attempt, envVars,
                   saved, posted>>

\* SaveCycleGPS, part 2, when it does not (a wrong check byte, or still 0xFF):
\* the slot is skipped, and one failure too many in a row erases
\* its sector.  Save_GPS calls Api_cycle_write twice.
SaveCycleGPS_Bad ==
    /\ appPc = "program"
    /\ IF cycle_writeAbnormal_counter + 1 > AbnormalLimit
         THEN /\ flash' = EraseSector(cycle_write)
              /\ cycle_writeAbnormal_counter' = 0
         ELSE /\ \/ flash' = [flash EXCEPT ![cycle_write] = Garbage]
                 \/ flash[cycle_write] = Erased /\ UNCHANGED flash
              /\ cycle_writeAbnormal_counter' = cycle_writeAbnormal_counter + 1
    /\ AdvanceWrite
    /\ IF attempt = 1
         THEN /\ attempt' = 2 /\ appPc' = "erase"
              /\ UNCHANGED <<PositionInfo_sdFlag, saving>>
         ELSE /\ PositionInfo_sdFlag' = FALSE
              /\ SaveReturns
    /\ UNCHANGED <<logged, logWild, cycle_read, ReadCycle_status, ReadCycle_timer,
                   Send_Rdy4ok, Current_UDP_sd, ReadFail_sd_current,
                   logArg, envVars, saved, posted>>

\* Mutant: the log takes the pointers as they are when it is written.
LogCurrentPointers ==
    /\ appPc = "log"
    /\ logged' = [wr |-> cycle_write, rd |-> cycle_read] /\ logWild' = FALSE
    /\ saved' = saved \cup {saving}
    /\ PositionInfo_sdFlag' = FALSE
    /\ SaveReturns /\ logArg' = NoArg
    /\ UNCHANGED <<flash, cycle_write, cycle_read, ReadCycle_status, cntVars,
                   Current_UDP_sd, ReadFail_sd_current, envVars,
                   posted, derailed>>

\* DF_Write_RecordAdd at the end of Api_cycle_write, and the end of Save_GPS.
LogPointers ==
    /\ appPc = "log"
    /\ logged' = logArg /\ logWild' = FALSE
    /\ saved' = saved \cup {saving}
    /\ PositionInfo_sdFlag' = FALSE
    /\ SaveReturns /\ logArg' = NoArg
    /\ UNCHANGED <<flash, cycle_write, cycle_read, ReadCycle_status, cntVars,
                   Current_UDP_sd, ReadFail_sd_current, envVars,
                   posted, derailed>>

-----------------------------------------------------------------------------
(* The app808 thread: Do_SendGPSReport_GPRS                                *)

\* The position is reported as it is, without the store.
ReportsCurrent ==
    /\ PositionInfo_sdFlag
    /\ Current_UDP_sd \/ DF_LOCK \/ (link = "login" /\ Trans_GNSS_Flag)

SendCurrent ==
    /\ appPc = "loop" /\ link # "down"
    /\ ReportsCurrent
    /\ PositionInfo_sdFlag' = FALSE
    /\ Current_UDP_sd' = FALSE
    /\ ReadFail_sd_current' = FALSE
    /\ UNCHANGED <<flash, logged, logWild, cycle_write, cycle_read, ReadCycle_status,
                   appPc, cntVars, saveVars, envVars, histVars>>

SendsStored ==
    /\ appPc = "loop" /\ link = "login"
    /\ ~ReportsCurrent
    /\ ReadCycle_status = "RdytoSD"

\* ReadCycleGPS accepts the slot and the packet is built and posted.
SendStored ==
    /\ SendsStored
    /\ Readable(cycle_read)
    /\ posted' = posted \cup {flash[cycle_read]}
    /\ appPc' = "mark"
    /\ UNCHANGED <<flash, logged, logWild, cycle_write, cycle_read, ReadCycle_status,
                   cntVars, posVars, saveVars, envVars, saved, derailed>>

\* The assignments after Stuff_Normal_Data_0200H; the gsm thread and the timer
\* may have run since the packet was posted.
MarkSent ==
    /\ appPc = "mark"
    /\ ReadCycle_status' = "SdOver"
    /\ Send_Rdy4ok' = TRUE
    /\ appPc' = "loop"
    /\ UNCHANGED <<flash, logged, logWild, cycle_write, cycle_read,
                   cycle_writeAbnormal_counter, ReadCycle_timer, posVars,
                   saveVars, envVars, histVars>>

\* ReadCycleGPS on a slot it rejects: the slot is skipped and the current
\* position is reported instead.
RejectSlot ==
    /\ cycle_read' = Succ(cycle_read)
    /\ ReadCycle_status' = "Idle"
    /\ PositionInfo_sdFlag' = TRUE
    /\ Current_UDP_sd' = TRUE
    /\ ReadFail_sd_current' = TRUE

SkipStored ==
    /\ SendsStored
    /\ ~Readable(cycle_read)
    /\ RejectSlot
    /\ UNCHANGED <<flash, logged, logWild, cycle_write, appPc, cntVars, saveVars,
                   envVars, histVars>>

-----------------------------------------------------------------------------
(* The gsm thread and the timer                                            *)

\* %IPSENDX:1 in GSM_Process, for whichever packet the modem has sent.
SendOk ==
    /\ link # "down"
    /\ Send_Rdy4ok
    /\ Send_Rdy4ok' = FALSE
    /\ IF ReadCycle_status = "SdOver"
         THEN /\ cycle_read' = Succ(cycle_read)
              /\ ReadCycle_status' = "Idle"
              /\ ReadCycle_timer' = 0
         ELSE UNCHANGED <<cycle_read, ReadCycle_status, ReadCycle_timer>>
    /\ UNCHANGED <<flash, logged, logWild, cycle_write, appPc,
                   cycle_writeAbnormal_counter, posVars, saveVars, envVars,
                   histVars>>

\* Mutant: an empty ring is read, too.
CHK_ReadCycle_statusEmpty ==
    /\ ReadCycle_status = "Idle"
    /\ ReadCycle_status' = "RdytoSD"
    /\ UNCHANGED <<flash, logged, logWild, cycle_write, cycle_read, appPc, cntVars,
                   posVars, saveVars, envVars, histVars>>

\* Api_CHK_ReadCycle_status, every 300 ms.
CHK_ReadCycle_status ==
    /\ ReadCycle_status = "Idle"
    /\ cycle_write # cycle_read
    /\ ReadCycle_status' = "RdytoSD"
    /\ UNCHANGED <<flash, logged, logWild, cycle_write, cycle_read, appPc, cntVars,
                   posVars, saveVars, envVars, histVars>>

\* timeout_app, once a second while a posted record is unanswered.
AckTimer ==
    /\ ReadCycle_status = "SdOver"
    /\ IF ReadCycle_timer + 1 > AckLimit
         THEN ReadCycle_timer' = 0 /\ ReadCycle_status' = "Idle"
         ELSE ReadCycle_timer' = ReadCycle_timer + 1 /\ UNCHANGED ReadCycle_status
    /\ UNCHANGED <<flash, logged, logWild, cycle_write, cycle_read, appPc,
                   cycle_writeAbnormal_counter, Send_Rdy4ok, posVars, saveVars,
                   envVars, histVars>>

-----------------------------------------------------------------------------
(* The surroundings                                                        *)

\* PositionSD_Enable by the report timers, or with Current_UDP_sd by an alarm.
PositionSD_Enable(now) ==
    /\ PositionInfo_sdFlag' = TRUE
    /\ Current_UDP_sd' = (Current_UDP_sd \/ now)
    /\ UNCHANGED <<flash, logged, logWild, cycle_write, cycle_read, ReadCycle_status,
                   appPc, ReadFail_sd_current, cntVars, saveVars, envVars,
                   histVars>>

LinkChange(l) ==
    /\ link' = l
    /\ UNCHANGED <<flash, logged, logWild, cycle_write, cycle_read, ReadCycle_status,
                   appPc, cntVars, posVars, saveVars, DF_LOCK, histVars>>

\* A voice recording takes and releases the flash.
LockFlash(b) ==
    /\ DF_LOCK' = b
    /\ UNCHANGED <<flash, logged, logWild, cycle_write, cycle_read, ReadCycle_status,
                   appPc, cntVars, posVars, saveVars, link, histVars>>

\* What a power cut leaves: the slot being programmed, or the sector being
\* erased, may hold anything.
PowerCutFlash ==
    {flash}
    \cup {[flash EXCEPT ![i] = Garbage] :
            i \in {j \in Area : appPc = "program" /\ j = cycle_write}}
    \cup {[j \in Area |-> IF SectorOf(j) = SectorOf(i) THEN Garbage ELSE flash[j]] :
            i \in {j \in Area : /\ appPc = "erase" /\ j = cycle_write
                                /\ j % SectorRecords = 0}}

\* What the pointer log gives after a power cut.  A cut inside
\* DF_Write_RecordAdd may leave the entry marked as used but blank, or, when
\* the log was full and has just been erased, no flag set at all: the offset
\* wraps and every read, until the next complete write, takes bytes that others
\* keep on a page far behind the log.
PowerCutLog ==
    \/ ~logWild /\ UNCHANGED <<logged, logWild>>
    \/ appPc = "log" /\ logged' = AllOnes /\ logWild' = FALSE
    \/ (appPc = "log" \/ logWild) /\ logged' \in Pointers /\ logWild' = TRUE

\* Api_Read_var_rd_wr and then Get_recent_saveInfo, which reads the slot at the
\* read pointer: a readable one moves the pointer back, an unreadable one on.
\* One step back from outside the ring may be the last slot.
Restart ==
    LET wr     == logged'.wr
        rd     == logged'.rd
        usable == wr # 0 /\ flash'[rd] \in Fix
        failed == wr # 0 /\ flash'[rd] \notin Fix
    IN  /\ flash' \in PowerCutFlash
        /\ PowerCutLog
        /\ cycle_write' = wr
        /\ cycle_read' \in IF usable THEN Back(rd)
                           ELSE IF failed THEN {Succ(rd)} ELSE {rd}
        /\ derailed' = (derailed \/ logged' = AllOnes \/ logWild'
                         \/ (usable /\ cycle_read' = wr))
        /\ PositionInfo_sdFlag' = failed
        /\ Current_UDP_sd' = failed
        /\ ReadFail_sd_current' = failed
        /\ ReadCycle_status' = "Idle" /\ ReadCycle_timer' = 0
        /\ Send_Rdy4ok' = FALSE
        /\ cycle_writeAbnormal_counter' = 0
        /\ DF_LOCK' = FALSE /\ link' = "down"
        /\ SaveReturns /\ logArg' = NoArg
        /\ UNCHANGED <<saved, posted>>

Next ==
    \/ \E f \in Fix : Save_GPS(f)
    \/ SaveCycleGPS_Erase
    \/ SaveCycleGPS_Good
    \/ SaveCycleGPS_Bad
    \/ LogPointers
    \/ SendCurrent
    \/ SendStored
    \/ MarkSent
    \/ SkipStored
    \/ SendOk
    \/ CHK_ReadCycle_status
    \/ AckTimer
    \/ \E now \in BOOLEAN : PositionSD_Enable(now)
    \/ \E l \in {"down", "online", "login"} : LinkChange(l)
    \/ \E b \in BOOLEAN : LockFlash(b)
    \/ Restart

Spec == Init /\ [][Next]_vars

-----------------------------------------------------------------------------
(* Properties                                                              *)

TypeOK ==
    /\ flash \in [Area -> Content]
    /\ logged \in Pointers /\ logArg \in Pointers /\ logWild \in BOOLEAN
    /\ cycle_write \in Area /\ cycle_read \in Area
    /\ cycle_writeAbnormal_counter \in 0 .. AbnormalLimit
    /\ ReadCycle_status \in Statuses
    /\ ReadCycle_timer \in 0 .. AckLimit
    /\ Send_Rdy4ok \in BOOLEAN
    /\ PositionInfo_sdFlag \in BOOLEAN
    /\ Current_UDP_sd \in BOOLEAN
    /\ ReadFail_sd_current \in BOOLEAN
    /\ DF_LOCK \in BOOLEAN
    /\ link \in {"down", "online", "login"}
    /\ appPc \in AppPcs
    /\ saving \in Content
    /\ attempt \in {1, 2}
    /\ saved \subseteq Fix /\ posted \subseteq Fix
    /\ derailed \in BOOLEAN

Unsent(i) == flash[i] \in saved \ posted

\* Until the pointers derail (one runs into the other, or a power cut hits the
\* pointer log while it is written and leaves it blank or without a flag),
\* every stored record that is still in the flash and was never posted lies
\* between the read and the write pointer, so the reader will come to it: no
\* send-ok, resend, rejected slot, failed write or restart makes the reader
\* pass it.
UnsentInWindow ==
    ~derailed => \A i \in Slots :
                  Unsent(i) => InWindow(i, cycle_read, cycle_write)

OnFlash(f) == \E i \in Area : flash[i] = f

\* Slots that the writer can fill before it meets the reader.
FreeSlots == (cycle_read - cycle_write - 1) % Max_CycleNum

\* A stored record that was never posted disappears from the flash only when
\* fewer than a sector of slots is free, or by the erase that follows a run of
\* failed writes.
LostOnlyWhenFullOrFailing ==
    [][\A f \in saved \ posted :
         OnFlash(f) /\ ~OnFlash(f)' =>
           \/ derailed
           \/ FreeSlots < SectorRecords - 1
           \/ cycle_writeAbnormal_counter = AbnormalLimit]_vars

-----------------------------------------------------------------------------
(* The store and the pointer log                                           *)

\* The pair that DF_Write_RecordAdd is writing.
LogBusy == IF appPc = "log" THEN logArg ELSE AllOnes

Register == INSTANCE PointerRegister
              WITH Value <- Pointers \ {AllOnes}, Lost <- AllOnes,
                   stored <- logged, busy <- LogBusy, wild <- logWild

\* What the store has of its pointers after a restart is what the register that
\* PointerLog implements gives: the pair that Api_cycle_write handed to the log,
\* whatever the gsm thread did to the read pointer since, the pair before it, or,
\* after a cut inside the write, a blank entry or bytes from outside the log.
UsesRegister == Register!RegSpec

-----------------------------------------------------------------------------
(* The inductive invariant behind UnsentInWindow                           *)

Saves == {"erase", "program", "log"}

\* The fix being saved is new, and is nowhere in the flash but, once written,
\* just behind the write pointer.
SavingIsNew ==
    appPc \in Saves =>
      /\ saving \in Fix \ (saved \cup posted)
      /\ \A i \in Area :
           flash[i] = saving => appPc = "log" /\ Succ(i) = cycle_write

UnsentBetween(p) == \A i \in Slots : Unsent(i) => InWindow(i, p.rd, p.wr)

\* The reader is only armed with a record ahead of it, and one that it has
\* posted and not yet left behind is not unsent.
ReaderArmed ==
    /\ ReadCycle_status # "Idle" => cycle_read # cycle_write
    /\ ReadCycle_status = "SdOver" => ~Unsent(cycle_read)
    /\ appPc = "mark" => ReadCycle_status = "RdytoSD" /\ ~Unsent(cycle_read)

\* While the pointers are being logged, the gsm thread may move the read
\* pointer, but never past the record just written.
LogInProgress ==
    appPc = "log" =>
      /\ logArg.wr = cycle_write /\ logArg.rd \in Slots \ {cycle_write}
      /\ UnsentBetween(logArg)
      /\ cycle_read # cycle_write
      /\ ReadCycle_status = "SdOver" => Succ(cycle_read) # cycle_write

PointersInRing ==
    /\ cycle_write \in Slots /\ cycle_read \in Slots
    /\ logged.wr \in Slots /\ logged.rd \in Slots

IInv ==
    /\ TypeOK
    /\ SavingIsNew
    /\ UnsentInWindow
    /\ ~derailed => /\ PointersInRing
                    /\ UnsentBetween(logged) /\ ReaderArmed /\ LogInProgress
=============================================================================
