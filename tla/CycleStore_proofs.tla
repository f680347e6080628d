------------------------- MODULE CycleStore_proofs -------------------------
(***************************************************************************)
(* Proofs about CycleStore, for a ring of any size and any set of fixes.   *)
(***************************************************************************)
EXTENDS CycleStore, TLAPS

-----------------------------------------------------------------------------
(* Facts about ring pointers                                               *)

\* Moving a ring pointer keeps it in the ring, and really moves it.
LEMMA SuccType ==
  ASSUME NEW p \in Slots
  PROVE  Succ(p) \in Slots /\ Succ(p) # p
BY RingAssumption DEF Slots, Succ

\* From outside the ring, moving leads into it.
LEMMA SuccArea ==
  ASSUME NEW p \in Area
  PROVE  Succ(p) \in Slots /\ Succ(p) \in Area /\ Slots \subseteq Area
BY RingAssumption DEF Slots, Area, Outside, Succ

\* Moving back leads to the ring or stays outside.
LEMMA BackArea ==
  ASSUME NEW p \in Area
  PROVE  Back(p) \subseteq Area /\ (p \in Slots \ {0} => Back(p) = {p - 1})
BY RingAssumption DEF Slots, Area, Outside, Back

\* Two pointers that meet after both have moved had already met.
LEMMA SuccInjective ==
  ASSUME NEW p \in Slots, NEW q \in Slots, Succ(p) = Succ(q)
  PROVE  p = q
BY RingAssumption DEF Slots, Succ

\* A write pointer that does not run into the read pointer only adds a slot to
\* the window.
LEMMA WindowGrows ==
  ASSUME NEW i \in Slots, NEW rd \in Slots, NEW wr \in Slots,
         InWindow(i, rd, wr), Succ(wr) # rd
  PROVE  InWindow(i, rd, Succ(wr))
BY RingAssumption DEF Slots, Succ, InWindow

\* Moving the read pointer takes only its own slot out of the window.
LEMMA WindowShrinks ==
  ASSUME NEW i \in Slots, NEW rd \in Slots, NEW wr \in Slots,
         InWindow(i, rd, wr), i # rd
  PROVE  InWindow(i, Succ(rd), wr)
BY RingAssumption DEF Slots, Succ, InWindow

\* Moving the read pointer back, not onto the write pointer, loses no slot.
LEMMA WindowBack ==
  ASSUME NEW i \in Slots, NEW rd \in Slots, NEW wr \in Slots,
         InWindow(i, rd, wr), rd > 0, rd - 1 # wr
  PROVE  InWindow(i, rd - 1, wr)
BY RingAssumption DEF Slots, InWindow

\* The slot just behind the write pointer is in any window that is not empty.
LEMMA WindowLast ==
  ASSUME NEW i \in Slots, NEW rd \in Slots, rd # Succ(i)
  PROVE  InWindow(i, rd, Succ(i))
BY RingAssumption DEF Slots, Succ, InWindow

-----------------------------------------------------------------------------
(* Type correctness                                                        *)

\* Erasing a sector leaves a ring of legal contents.
LEMMA EraseSectorType ==
  ASSUME TypeOK, NEW i \in Area
  PROVE  EraseSector(i) \in [Area -> Content]
BY RingAssumption, ContentAssumption DEF TypeOK, EraseSector, Content, Area

\* So does a power cut.
LEMMA PowerCutType ==
  ASSUME TypeOK
  PROVE  \A fl \in PowerCutFlash : fl \in [Area -> Content]
BY RingAssumption, ContentAssumption DEF TypeOK, PowerCutFlash, Content, Area

\* The initial state is well typed.
LEMMA InitType == Init => TypeOK
<1> SUFFICES ASSUME Init PROVE TypeOK
  OBVIOUS
<1>1. 0 \in Area /\ NoArg \in Pointers
  BY RingAssumption DEF Slots, Area, NoArg, Pointers
<1>2. flash \in [Area -> Content]
  BY RingAssumption, ContentAssumption DEF Init, Content, Area
<1>3. 0 \in 0 .. AbnormalLimit /\ 0 \in 0 .. AckLimit
  BY RingAssumption
<1> QED
  BY <1>1, <1>2, <1>3
     DEF Init, TypeOK, Content, Statuses, AppPcs

\* Every step keeps the state well typed: pointers stay in the ring, counters
\* within their limits.
LEMMA StepType ==
  ASSUME TypeOK, SavingIsNew, [Next]_vars
  PROVE  TypeOK'
<1> USE RingAssumption
<1>s. /\ cycle_write \in Area /\ cycle_read \in Area
      /\ Succ(cycle_write) \in Area /\ Succ(cycle_read) \in Area
      /\ NoArg \in Pointers
  <2> HIDE RingAssumption
  <2>1. cycle_write \in Area /\ cycle_read \in Area
    BY DEF TypeOK
  <2>2. Succ(cycle_write) \in Area /\ Succ(cycle_read) \in Area
    BY <2>1, SuccArea
  <2>3. 0 \in Area
    BY RingAssumption DEF Slots, Area
  <2>4. NoArg \in Pointers
    BY <2>3 DEF NoArg, Pointers
  <2> QED BY <2>1, <2>2, <2>4
<1>1. ASSUME NEW f \in Fix, Save_GPS(f) PROVE TypeOK'
  BY <1>1 DEF TypeOK, Save_GPS, AppPcs, Content, cntVars, posVars, envVars, histVars
<1>2. CASE SaveCycleGPS_Erase
  BY <1>2, <1>s, EraseSectorType
     DEF TypeOK, SaveCycleGPS_Erase, AppPcs, cntVars, posVars, saveVars, envVars, histVars
<1>3. CASE SaveCycleGPS_Good
  <2>1. flash' \in [Area -> Content]
    BY <1>3, <1>s DEF TypeOK, SaveCycleGPS_Good, Content
  <2>2. cycle_write' \in Area /\ logArg' \in Pointers
    BY <1>3, <1>s DEF SaveCycleGPS_Good, AdvanceWrite, Pointers
  <2>3. derailed' \in BOOLEAN
    BY <1>3 DEF TypeOK, SaveCycleGPS_Good, AdvanceWrite
  <2>4. cycle_writeAbnormal_counter' \in 0 .. AbnormalLimit /\ appPc' \in AppPcs
    BY <1>3 DEF SaveCycleGPS_Good, AppPcs
  <2> HIDE RingAssumption
  <2> QED
    BY <1>3, <2>1, <2>2, <2>3, <2>4 DEF TypeOK, SaveCycleGPS_Good, posVars, envVars
<1>4. CASE SaveCycleGPS_Bad
  <2>1. flash' \in [Area -> Content]
    <3>1. flash \in [Area -> Content]
      BY DEF TypeOK
    <3>2. Garbage \in Content
      BY DEF Content
    <3>3. \/ flash' = EraseSector(cycle_write)
          \/ flash' = [flash EXCEPT ![cycle_write] = Garbage]
          \/ flash' = flash
      BY <1>4 DEF SaveCycleGPS_Bad
    <3> HIDE RingAssumption
    <3>4. CASE flash' = EraseSector(cycle_write)
      BY <3>4, <1>s, EraseSectorType
    <3>5. CASE flash' = [flash EXCEPT ![cycle_write] = Garbage]
      BY <3>1, <3>2, <3>5
    <3> QED BY <3>1, <3>3, <3>4, <3>5
  <2>2. cycle_writeAbnormal_counter' \in 0 .. AbnormalLimit
    BY <1>4 DEF TypeOK, SaveCycleGPS_Bad
  <2> QED
    BY <1>4, <2>1, <2>2, <1>s
       DEF TypeOK, SaveCycleGPS_Bad, AdvanceWrite, SaveReturns, AppPcs, Content, envVars
<1>5. CASE LogPointers
  BY <1>5, <1>s
     DEF TypeOK, LogPointers, SaveReturns, SavingIsNew, Saves, AppPcs, Content, cntVars, envVars
<1>6. CASE SendCurrent
  BY <1>6 DEF TypeOK, SendCurrent, cntVars, saveVars, envVars, histVars
<1>7. CASE SendStored
  <2>1. posted' \subseteq Fix
    BY <1>7 DEF TypeOK, SendStored, Readable
  <2> QED
    BY <1>7, <2>1 DEF TypeOK, SendStored, Readable, AppPcs, cntVars, posVars, saveVars, envVars
<1>8. CASE MarkSent
  BY <1>8 DEF TypeOK, MarkSent, AppPcs, Statuses, posVars, saveVars, envVars, histVars
<1>9. CASE SkipStored
  BY <1>9, <1>s DEF TypeOK, SkipStored, RejectSlot, Statuses, cntVars, saveVars, envVars, histVars
<1>10. CASE SendOk
  <2>1. /\ cycle_read' \in Area
        /\ ReadCycle_status' \in Statuses
        /\ ReadCycle_timer' \in 0 .. AckLimit
    BY <1>10, <1>s DEF TypeOK, SendOk, Statuses
  <2> QED
    BY <1>10, <2>1 DEF TypeOK, SendOk, posVars, saveVars, envVars, histVars
<1>11. CASE CHK_ReadCycle_status
  BY <1>11 DEF TypeOK, CHK_ReadCycle_status, Statuses, cntVars, posVars, saveVars, envVars, histVars
<1>12. CASE AckTimer
  <2>1. ReadCycle_timer' \in 0 .. AckLimit /\ ReadCycle_status' \in Statuses
    BY <1>12 DEF TypeOK, AckTimer, Statuses
  <2> QED
    BY <1>12, <2>1 DEF TypeOK, AckTimer, posVars, saveVars, envVars, histVars
<1>13. ASSUME NEW now \in BOOLEAN, PositionSD_Enable(now) PROVE TypeOK'
  BY <1>13 DEF TypeOK, PositionSD_Enable, cntVars, saveVars, envVars, histVars
<1>14. ASSUME NEW l \in {"down", "online", "login"}, LinkChange(l) PROVE TypeOK'
  BY <1>14 DEF TypeOK, LinkChange, cntVars, posVars, saveVars, histVars
<1>15. ASSUME NEW b \in BOOLEAN, LockFlash(b) PROVE TypeOK'
  BY <1>15 DEF TypeOK, LockFlash, cntVars, posVars, saveVars, histVars
<1>16. CASE Restart
  <2>1. flash' \in [Area -> Content]
    BY <1>16, PowerCutType DEF Restart
  <2>2. logged' \in Pointers /\ logWild' \in BOOLEAN
    <3>1. AllOnes \in Pointers
      BY DEF AllOnes, Pointers, Area
    <3>2. PowerCutLog /\ logged \in Pointers /\ logWild \in BOOLEAN
      BY <1>16 DEF Restart, TypeOK
    <3> QED
      BY <3>1, <3>2 DEF PowerCutLog
  <2>3. cycle_write' \in Area /\ cycle_read' \in Area
    <3>1. /\ logged'.wr \in Area /\ logged'.rd \in Area
          /\ Succ(logged'.rd) \in Area /\ Back(logged'.rd) \subseteq Area
      BY <2>2, SuccArea, BackArea DEF Pointers
    <3> QED
      BY <1>16, <3>1 DEF Restart
  <2>4. /\ PositionInfo_sdFlag' \in BOOLEAN
        /\ Current_UDP_sd' \in BOOLEAN
        /\ ReadFail_sd_current' \in BOOLEAN
        /\ derailed' \in BOOLEAN
    BY <1>16 DEF Restart, TypeOK
  <2>5. /\ ReadCycle_timer' \in 0 .. AckLimit
        /\ cycle_writeAbnormal_counter' \in 0 .. AbnormalLimit
    BY <1>16 DEF Restart
  <2>6. /\ ReadCycle_status' \in Statuses /\ Send_Rdy4ok' \in BOOLEAN
        /\ DF_LOCK' \in BOOLEAN /\ link' \in {"down", "online", "login"}
        /\ appPc' \in AppPcs /\ saving' \in Content /\ attempt' \in {1, 2}
        /\ logArg' \in Pointers
    BY <1>16, <1>s DEF Restart, SaveReturns, AppPcs, Statuses, Content
  <2>7. saved' \subseteq Fix /\ posted' \subseteq Fix
    BY <1>16 DEF Restart, TypeOK
  <2> QED
    BY <2>1, <2>2, <2>3, <2>4, <2>5, <2>6, <2>7 DEF TypeOK
<1>17. CASE UNCHANGED vars
  BY <1>17 DEF TypeOK, vars, cntVars, posVars, saveVars, envVars, histVars
<1> QED
  BY <1>1, <1>2, <1>3, <1>4, <1>5, <1>6, <1>7, <1>8, <1>9, <1>10, <1>11, <1>12,
     <1>13, <1>14, <1>15, <1>16, <1>17 DEF Next

-----------------------------------------------------------------------------
(* No record is left behind                                                *)

\* Nothing is unsent before anything is saved.
LEMMA InitInv == Init => IInv
<1> SUFFICES ASSUME Init PROVE IInv
  OBVIOUS
<1>1. TypeOK
  BY InitType
<1>2. \A i \in Slots : ~Unsent(i)
  BY DEF Init, Unsent
<1>3. PointersInRing
  BY RingAssumption DEF Init, PointersInRing, Slots, NoArg
<1> QED
  BY <1>1, <1>2, <1>3 DEF Init, IInv, SavingIsNew, Saves, UnsentInWindow,
     UnsentBetween, ReaderArmed, LogInProgress

\* An erase adds no record to the flash.
LEMMA EraseRemoves ==
  ASSUME TypeOK, NEW i \in Area, NEW j \in Area, EraseSector(i)[j] \in Fix
  PROVE  EraseSector(i)[j] = flash[j]
BY ContentAssumption DEF EraseSector, TypeOK

\* A power cut adds no record to the flash.
LEMMA PowerCutRemoves ==
  ASSUME TypeOK, NEW fl \in PowerCutFlash, NEW j \in Area, fl[j] \in Fix
  PROVE  fl[j] = flash[j]
BY ContentAssumption DEF PowerCutFlash, TypeOK

\* A step that moves neither a pointer nor the reader's state, adds nothing to
\* the records, and starts no save, log or mark keeps the invariant.
LEMMA QuietStep ==
  ASSUME IInv, TypeOK',
         cycle_write' = cycle_write, cycle_read' = cycle_read,
         ReadCycle_status' = ReadCycle_status,
         logged' = logged, logArg' = logArg, saving' = saving, appPc' = appPc,
         flash' = flash, saved' = saved, posted' = posted,
         derailed' = derailed
  PROVE  IInv'
BY DEF IInv, SavingIsNew, Saves, UnsentInWindow, UnsentBetween, ReaderArmed,
       LogInProgress, Unsent, PointersInRing

\* Every step keeps the invariant.
LEMMA StepInv == IInv /\ [Next]_vars => IInv'
<1> SUFFICES ASSUME IInv, [Next]_vars PROVE IInv'
  OBVIOUS
<1> USE RingAssumption, ContentAssumption
<1>t. TypeOK /\ SavingIsNew /\ TypeOK'
  BY StepType DEF IInv
<1>a. /\ cycle_write \in Area /\ cycle_read \in Area
      /\ Slots \subseteq Area /\ flash \in [Area -> Content]
  BY <1>t, SuccArea DEF TypeOK
<1>s. ~derailed =>
        /\ cycle_write \in Slots /\ cycle_read \in Slots
        /\ Succ(cycle_write) \in Slots /\ Succ(cycle_read) \in Slots
        /\ logged.wr \in Slots /\ logged.rd \in Slots
        /\ Succ(logged.rd) \in Slots
  BY SuccType DEF IInv, PointersInRing
<1>1. ASSUME NEW f \in Fix, Save_GPS(f) PROVE IInv'
  <2>1. \A i \in Slots : Unsent(i)' <=> Unsent(i)
    BY <1>1 DEF Save_GPS, Unsent, histVars
  <2>2. SavingIsNew'
    BY <1>1 DEF Save_GPS, Fresh, SavingIsNew, Saves, histVars
  <2> QED
    BY <1>1, <1>t, <1>a, <1>s, <2>1, <2>2
       DEF Save_GPS, IInv, UnsentInWindow, UnsentBetween, ReaderArmed,
           LogInProgress, PointersInRing, histVars
<1>2. CASE SaveCycleGPS_Erase
  <2>1. \A i \in Area : flash'[i] \in Fix => flash'[i] = flash[i]
    BY <1>2, <1>t, <1>a, <1>s, EraseRemoves DEF SaveCycleGPS_Erase
  <2>2. \A i \in Slots : Unsent(i)' => Unsent(i)
    BY <1>2, <1>t, <1>a, <2>1 DEF SaveCycleGPS_Erase, Unsent, TypeOK, histVars
  <2>3. SavingIsNew'
    BY <1>2, <1>t, <1>a, <2>1 DEF SaveCycleGPS_Erase, SavingIsNew, Saves, saveVars, histVars
  <2> QED
    BY <1>2, <1>t, <1>a, <1>s, <2>2, <2>3
       DEF SaveCycleGPS_Erase, IInv, UnsentInWindow, UnsentBetween,
           ReaderArmed, LogInProgress, PointersInRing, saveVars, histVars
<1>3. CASE SaveCycleGPS_Good
  <2>1. /\ flash' = [flash EXCEPT ![cycle_write] = saving]
        /\ saving \in Fix \ (saved \cup posted)
        /\ saving' = saving /\ saved' = saved /\ posted' = posted
        /\ \A i \in Area : flash[i] # saving
    BY <1>3, <1>t DEF SaveCycleGPS_Good, SavingIsNew, Saves
  <2>2. \A i \in Slots : Unsent(i)' => Unsent(i)
    BY <2>1, <1>t, <1>a, <1>s DEF Unsent, TypeOK
  <2>3. SavingIsNew'
    <3>1. \A i \in Area : flash'[i] = saving => i = cycle_write
      BY <2>1, <1>t, <1>a, <1>s DEF TypeOK
    <3> QED
      BY <1>3, <2>1, <3>1 DEF SaveCycleGPS_Good, AdvanceWrite, SavingIsNew, Saves
  <2>4. ASSUME ~derailed'
        PROVE  /\ ~derailed /\ cycle_read # Succ(cycle_write)
               /\ cycle_write' = Succ(cycle_write) /\ cycle_read' = cycle_read
               /\ logArg'.wr = cycle_write' /\ logArg'.rd = cycle_read
               /\ logged' = logged /\ ReadCycle_status' = ReadCycle_status
               /\ appPc' = "log"
    BY <1>3, <2>4, <1>t DEF SaveCycleGPS_Good, AdvanceWrite, TypeOK
  <2>5. ASSUME ~derailed', NEW i \in Slots, Unsent(i)'
        PROVE  InWindow(i, cycle_read, cycle_write')
    BY <2>2, <2>4, <2>5, <1>s, WindowGrows DEF IInv, UnsentInWindow
  <2>6. UnsentInWindow'
    BY <2>4, <2>5 DEF UnsentInWindow
  <2>7. ASSUME ~derailed' PROVE UnsentBetween(logged)'
    BY <2>2, <2>4, <2>7 DEF IInv, UnsentBetween
  <2>8. ASSUME ~derailed' PROVE ReaderArmed'
    BY <2>2, <2>4, <2>8, <1>s DEF IInv, ReaderArmed
  <2>9. ASSUME ~derailed' PROVE LogInProgress'
    <3>1. ReadCycle_status' = "SdOver" => Succ(cycle_read) # Succ(cycle_write)
      BY <2>4, <2>9, <1>s, SuccInjective DEF IInv, ReaderArmed
    <3>2. UnsentBetween(logArg)'
      BY <2>4, <2>5, <2>9 DEF UnsentBetween
    <3> QED
      BY <2>4, <2>9, <3>1, <3>2, <1>s DEF LogInProgress
  <2>10. ASSUME ~derailed' PROVE PointersInRing'
    BY <2>4, <2>10, <1>s DEF PointersInRing
  <2> QED
    BY <1>t, <2>3, <2>6, <2>7, <2>8, <2>9, <2>10 DEF IInv
<1>4. CASE SaveCycleGPS_Bad
  <2>1. \A i \in Area : flash'[i] \in Fix => flash'[i] = flash[i]
    BY <1>4, <1>t, <1>a, <1>s, EraseRemoves DEF SaveCycleGPS_Bad, TypeOK
  <2>2. \A i \in Slots : Unsent(i)' => Unsent(i)
    BY <1>4, <1>t, <1>a, <2>1 DEF SaveCycleGPS_Bad, Unsent, TypeOK
  <2>3. SavingIsNew'
    BY <1>4, <1>t, <1>a, <2>1 DEF SaveCycleGPS_Bad, SaveReturns, SavingIsNew, Saves
  <2>4. ASSUME ~derailed'
        PROVE  /\ ~derailed /\ cycle_read # Succ(cycle_write)
               /\ cycle_write' = Succ(cycle_write) /\ cycle_read' = cycle_read
               /\ logged' = logged /\ ReadCycle_status' = ReadCycle_status
               /\ appPc' \notin {"log", "mark"}
    BY <1>4, <2>4, <1>t DEF SaveCycleGPS_Bad, AdvanceWrite, SaveReturns, TypeOK
  <2>5. ASSUME ~derailed', NEW i \in Slots, Unsent(i)'
        PROVE  InWindow(i, cycle_read, cycle_write')
    BY <2>2, <2>4, <2>5, <1>s, WindowGrows DEF IInv, UnsentInWindow
  <2> QED
    BY <1>t, <1>a, <1>s, <2>2, <2>3, <2>4, <2>5
       DEF IInv, UnsentInWindow, UnsentBetween, ReaderArmed, LogInProgress, PointersInRing
<1>5. CASE LogPointers
  <2>1. /\ flash' = flash /\ posted' = posted /\ saved' = saved \cup {saving}
        /\ cycle_write' = cycle_write /\ cycle_read' = cycle_read
        /\ ReadCycle_status' = ReadCycle_status /\ derailed' = derailed
        /\ logged' = logArg /\ appPc = "log" /\ appPc' = "loop"
    BY <1>5 DEF LogPointers, SaveReturns
  <2>2. ASSUME NEW i \in Slots, Unsent(i)'
        PROVE  Unsent(i) \/ Succ(i) = cycle_write
    BY <2>1, <2>2, <1>t, <1>a DEF Unsent, SavingIsNew, Saves
  <2>3. ASSUME ~derailed', NEW i \in Slots, Unsent(i)'
        PROVE  /\ InWindow(i, cycle_read, cycle_write)
               /\ InWindow(i, logArg.rd, logArg.wr)
    BY <2>1, <2>2, <2>3, <1>s, WindowLast
       DEF IInv, UnsentInWindow, UnsentBetween, LogInProgress
  <2>4. ASSUME ~derailed' PROVE ReaderArmed'
    BY <2>1, <2>2, <2>4, <1>s DEF IInv, ReaderArmed, LogInProgress, PointersInRing
  <2> QED
    BY <1>t, <1>s, <2>1, <2>3, <2>4
       DEF IInv, SavingIsNew, Saves, UnsentInWindow, UnsentBetween,
           LogInProgress, PointersInRing
<1>6. CASE SendCurrent
  BY <1>6, <1>t, <1>a, QuietStep DEF SendCurrent, cntVars, saveVars, envVars, histVars
<1>7. CASE SendStored
  <2>1. /\ flash' = flash /\ saved' = saved /\ posted' = posted \cup {flash[cycle_read]}
        /\ cycle_write' = cycle_write /\ cycle_read' = cycle_read
        /\ ReadCycle_status' = "RdytoSD" /\ ReadCycle_status = "RdytoSD"
        /\ derailed' = derailed /\ logged' = logged /\ appPc' = "mark"
    BY <1>7 DEF SendStored, SendsStored
  <2>2. /\ \A i \in Slots : Unsent(i)' => Unsent(i)
        /\ ~Unsent(cycle_read)'
    BY <2>1 DEF Unsent
  <2> QED
    BY <1>t, <1>a, <1>s, <2>1, <2>2
       DEF IInv, SavingIsNew, Saves, UnsentInWindow, UnsentBetween, ReaderArmed, LogInProgress, PointersInRing
<1>8. CASE MarkSent
  <2>1. \A i \in Slots : Unsent(i)' <=> Unsent(i)
    BY <1>8 DEF MarkSent, Unsent, histVars
  <2> QED
    BY <1>8, <1>t, <1>a, <1>s, <2>1
       DEF MarkSent, IInv, SavingIsNew, Saves, UnsentInWindow, UnsentBetween,
           ReaderArmed, LogInProgress, PointersInRing, saveVars, histVars
<1>9. CASE SkipStored
  <2>1. /\ \A i \in Slots : Unsent(i)' <=> Unsent(i)
        /\ ~Unsent(cycle_read)
    BY <1>9, <1>t DEF SkipStored, Readable, Unsent, TypeOK, histVars
  <2>2. /\ cycle_write' = cycle_write /\ cycle_read' = Succ(cycle_read)
        /\ ReadCycle_status' = "Idle"
        /\ derailed' = derailed /\ logged' = logged /\ appPc' = "loop"
    BY <1>9 DEF SkipStored, SendsStored, RejectSlot, histVars
  <2>3. ASSUME ~derailed', NEW i \in Slots, Unsent(i)'
        PROVE  InWindow(i, Succ(cycle_read), cycle_write)
    BY <2>1, <2>2, <2>3, <1>s, WindowShrinks DEF IInv, UnsentInWindow
  <2> QED
    BY <1>t, <1>s, <2>1, <2>2, <2>3
       DEF IInv, SavingIsNew, Saves, UnsentInWindow, UnsentBetween, ReaderArmed,
           LogInProgress, PointersInRing
<1>10. CASE SendOk
  <2>1. CASE ReadCycle_status # "SdOver"
    BY <1>10, <2>1, <1>t, <1>a, QuietStep DEF SendOk, cntVars, saveVars, envVars, histVars
  <2>2. CASE ReadCycle_status = "SdOver"
    <3>1. /\ cycle_write' = cycle_write /\ cycle_read' = Succ(cycle_read)
          /\ ReadCycle_status' = "Idle"
          /\ flash' = flash /\ saved' = saved /\ posted' = posted
          /\ saving' = saving /\ logArg' = logArg
          /\ derailed' = derailed /\ logged' = logged /\ appPc' = appPc
      BY <1>10, <2>2 DEF SendOk, saveVars, histVars
    <3>2. \A i \in Slots : Unsent(i)' <=> Unsent(i)
      BY <3>1 DEF Unsent
    <3>3. ASSUME ~derailed', NEW i \in Slots, Unsent(i)'
          PROVE  InWindow(i, Succ(cycle_read), cycle_write)
      BY <2>2, <3>1, <3>2, <3>3, <1>s, WindowShrinks DEF IInv, UnsentInWindow, ReaderArmed
    <3>4. ASSUME ~derailed' PROVE LogInProgress'
      BY <2>2, <3>1, <3>2, <3>4 DEF IInv, LogInProgress, UnsentBetween
    <3>5. ASSUME ~derailed' PROVE ReaderArmed'
      BY <2>2, <3>1, <3>5 DEF IInv, ReaderArmed
    <3> QED
      BY <1>t, <1>s, <3>1, <3>2, <3>3, <3>4, <3>5
         DEF IInv, SavingIsNew, Saves, UnsentInWindow, UnsentBetween, PointersInRing
  <2> QED
    BY <2>1, <2>2
<1>11. CASE CHK_ReadCycle_status
  <2>1. \A i \in Slots : Unsent(i)' <=> Unsent(i)
    BY <1>11 DEF CHK_ReadCycle_status, Unsent, histVars
  <2> QED
    BY <1>11, <1>t, <1>a, <2>1
       DEF CHK_ReadCycle_status, IInv, SavingIsNew, Saves, UnsentInWindow,
           UnsentBetween, ReaderArmed, LogInProgress, PointersInRing, saveVars, histVars
<1>12. CASE AckTimer
  <2>1. CASE ReadCycle_status' = "SdOver"
    BY <1>12, <2>1, <1>t, <1>a, QuietStep DEF AckTimer, saveVars, histVars
  <2>2. CASE ReadCycle_status' = "Idle"
    <3>1. /\ flash' = flash /\ logged' = logged /\ appPc' = appPc
          /\ cycle_write' = cycle_write /\ cycle_read' = cycle_read
          /\ saving' = saving /\ logArg' = logArg
          /\ saved' = saved /\ posted' = posted /\ derailed' = derailed
      BY <1>12 DEF AckTimer, saveVars, histVars
    <3>2. \A i \in Slots : Unsent(i)' <=> Unsent(i)
      BY <3>1 DEF Unsent
    <3>3. ReadCycle_status = "SdOver"
      BY <1>12 DEF AckTimer
    <3>4. ASSUME ~derailed' PROVE ReaderArmed' /\ LogInProgress'
      BY <2>2, <3>1, <3>2, <3>3, <3>4 DEF IInv, ReaderArmed, LogInProgress, PointersInRing, UnsentBetween
    <3> QED
      BY <1>t, <3>1, <3>2, <3>4
         DEF IInv, SavingIsNew, Saves, UnsentInWindow, UnsentBetween, PointersInRing
  <2> QED
    BY <1>12, <2>1, <2>2 DEF AckTimer
<1>13. ASSUME NEW now \in BOOLEAN, PositionSD_Enable(now) PROVE IInv'
  BY <1>13, <1>t, <1>a, QuietStep DEF PositionSD_Enable, saveVars, histVars
<1>14. ASSUME NEW l \in {"down", "online", "login"}, LinkChange(l) PROVE IInv'
  BY <1>14, <1>t, <1>a, QuietStep DEF LinkChange, saveVars, histVars
<1>15. ASSUME NEW b \in BOOLEAN, LockFlash(b) PROVE IInv'
  BY <1>15, <1>t, <1>a, QuietStep DEF LockFlash, saveVars, histVars
<1>16. CASE Restart
  <2>1. \A i \in Area : flash'[i] \in Fix => flash'[i] = flash[i]
    BY <1>16, <1>t, <1>a, PowerCutRemoves DEF Restart
  <2>2. \A i \in Slots : Unsent(i)' => Unsent(i)
    BY <1>16, <1>t, <1>a, <2>1 DEF Restart, Unsent, TypeOK
  <2>3. ReadCycle_status' = "Idle" /\ appPc' = "loop"
    BY <1>16 DEF Restart, SaveReturns
  <2>4. ASSUME ~derailed'
        PROVE  /\ ~derailed /\ logged' = logged /\ cycle_write' = logged.wr
               /\ \/ cycle_read' = logged.rd
                  \/ /\ cycle_read' = logged.rd - 1
                     /\ logged.rd # 0 /\ logged.rd - 1 # logged.wr
                  \/ cycle_read' = Succ(logged.rd) /\ flash'[logged.rd] \notin Fix
    <3>1. ~derailed /\ logged' # AllOnes /\ ~logWild'
      BY <1>16, <1>t, <2>4 DEF Restart, TypeOK
    <3>2. logged' = logged
      BY <1>16, <3>1 DEF Restart, PowerCutLog
    <3>3. logged.rd \in Slots /\ logged.wr \in Slots
      BY <1>s, <3>1
    <3>4. Back(logged.rd) = IF logged.rd = 0 THEN {0} ELSE {logged.rd - 1}
      <4>1. logged.rd = 0 => Back(logged.rd) = {0}
        BY DEF Back
      <4>2. logged.rd # 0 => Back(logged.rd) = {logged.rd - 1}
        BY <1>a, <3>3, BackArea
      <4> QED
        BY <4>1, <4>2
    <3> HIDE RingAssumption, ContentAssumption
    <3> DEFINE usable == logged.wr # 0 /\ flash'[logged.rd] \in Fix
               failed == logged.wr # 0 /\ flash'[logged.rd] \notin Fix
    <3>5. /\ cycle_write' = logged.wr
          /\ cycle_read' \in IF usable THEN Back(logged.rd)
                             ELSE IF failed THEN {Succ(logged.rd)} ELSE {logged.rd}
          /\ ~(usable /\ cycle_read' = logged.wr)
      BY <1>16, <2>4, <3>2 DEF Restart
    <3>6. CASE usable
      BY <3>1, <3>2, <3>4, <3>5, <3>6
    <3>7. CASE ~usable
      BY <3>1, <3>2, <3>5, <3>7
    <3> QED
      BY <3>6, <3>7
  <2>5. ASSUME ~derailed', NEW i \in Slots, Unsent(i)'
        PROVE  InWindow(i, cycle_read', logged.wr)
    <3>1. InWindow(i, logged.rd, logged.wr) /\ flash'[i] \in Fix
      BY <1>16, <1>t, <2>2, <2>4, <2>5 DEF Restart, IInv, UnsentBetween, TypeOK, Unsent
    <3>2. CASE cycle_read' = logged.rd
      BY <3>1, <3>2
    <3>3. CASE /\ cycle_read' = logged.rd - 1
               /\ logged.rd # 0 /\ logged.rd - 1 # logged.wr
      <4>1. logged.rd > 0
        BY <2>4, <2>5, <3>3, <1>s DEF Slots
      <4> QED
        BY <2>4, <2>5, <3>1, <3>3, <4>1, <1>s, WindowBack
    <3>4. CASE cycle_read' = Succ(logged.rd) /\ flash'[logged.rd] \notin Fix
      BY <2>4, <2>5, <3>1, <3>4, <1>s, WindowShrinks
    <3> QED
      BY <2>4, <2>5, <3>2, <3>3, <3>4
  <2>6. UnsentInWindow'
    BY <2>4, <2>5 DEF UnsentInWindow
  <2>7. ASSUME ~derailed' PROVE UnsentBetween(logged)'
    BY <2>2, <2>4, <2>7 DEF IInv, UnsentBetween
  <2>8. ASSUME ~derailed' PROVE PointersInRing'
    BY <2>4, <2>8, <1>s DEF PointersInRing, Slots
  <2>9. SavingIsNew' /\ ReaderArmed' /\ LogInProgress'
    BY <2>3 DEF SavingIsNew, Saves, ReaderArmed, LogInProgress
  <2> QED
    BY <1>t, <2>6, <2>7, <2>8, <2>9 DEF IInv
<1>17. CASE UNCHANGED vars
  BY <1>17, <1>t, <1>a, QuietStep DEF vars, cntVars, posVars, saveVars, envVars, histVars
<1> QED
  BY <1>1, <1>2, <1>3, <1>4, <1>5, <1>6, <1>7, <1>8, <1>9, <1>10, <1>11, <1>12,
     <1>13, <1>14, <1>15, <1>16, <1>17 DEF Next

\* The state is always well typed: the ring pointers stay in the ring, the
\* failure counter and the resend timer within their limits, whatever the
\* interleaving of the threads, the timer and power cuts.
THEOREM TypeCorrect == Spec => []TypeOK
<1>1. IInv => TypeOK
  BY DEF IInv
<1> QED
  BY <1>1, InitInv, StepInv, PTL DEF Spec

\* For a ring of any size: until one pointer runs into the other, no stored
\* record that was never posted is outside the window the reader has yet to
\* read, restarts and failed writes included.
THEOREM NoRecordLeftBehind == Spec => []UnsentInWindow
<1>1. IInv => UnsentInWindow
  BY DEF IInv
<1> QED
  BY <1>1, InitInv, StepInv, PTL DEF Spec

-----------------------------------------------------------------------------
(* How a record is lost                                                    *)

\* A number divides into whole sectors and a rest.
LEMMA DivMod ==
  ASSUME NEW a \in Nat, NEW b \in Nat, b > 0
  PROVE  /\ a \div b \in Nat /\ a % b \in 0 .. b - 1
         /\ a = b * (a \div b) + (a % b)
BY Z3

\* A sector whose first slot is i ends less than a sector further on.
LEMMA SectorBound ==
  ASSUME NEW i \in Slots, NEW j \in Area, i % SectorRecords = 0,
         SectorOf(j) = SectorOf(i)
  PROVE  j \in Slots /\ i <= j /\ j < i + SectorRecords
<1> USE RingAssumption
<1>1. i \in Nat /\ SectorRecords \in Nat /\ SectorRecords > 0 /\ j \in Int
  BY DEF Slots, Area, Outside
<1>2. i = SectorRecords * (i \div SectorRecords)
  BY <1>1, DivMod
<1>3. j >= 0
  BY <1>1 DEF SectorOf
<1>4. j = SectorRecords * (j \div SectorRecords) + (j % SectorRecords)
      /\ j % SectorRecords \in 0 .. SectorRecords - 1
  BY <1>1, <1>3, DivMod
<1>5. i <= j /\ j < i + SectorRecords
  BY <1>1, <1>2, <1>4 DEF SectorOf
<1> QED BY <1>1, <1>3, <1>5 DEF Slots, Area, Outside

\* The write pointer stands on no record that is still to be sent.
LEMMA HeadNotUnsent ==
  ASSUME IInv, ~derailed
  PROVE  cycle_write \in Slots /\ ~Unsent(cycle_write)
<1>1. cycle_write \in Slots /\ cycle_read \in Slots
  BY DEF IInv, PointersInRing
<1>2. ~InWindow(cycle_write, cycle_read, cycle_write)
  BY <1>1, RingAssumption DEF InWindow, Slots
<1> QED BY <1>1, <1>2 DEF IInv, UnsentInWindow

\* An unsent record in the sector at the write pointer leaves the writer less
\* than that sector.
LEMMA UnsentAhead ==
  ASSUME IInv, ~derailed, cycle_write % SectorRecords = 0,
         NEW j \in Area, SectorOf(j) = SectorOf(cycle_write), Unsent(j)
  PROVE  FreeSlots < SectorRecords - 1
<1> USE RingAssumption
<1>1. cycle_write \in Slots /\ cycle_read \in Slots
  BY DEF IInv, PointersInRing
<1>2. j \in Slots /\ cycle_write <= j /\ j < cycle_write + SectorRecords
  BY <1>1, SectorBound
<1>3. InWindow(j, cycle_read, cycle_write)
  BY <1>2 DEF IInv, UnsentInWindow
<1>4. cycle_write < cycle_read /\ cycle_read <= j
  BY <1>1, <1>2, <1>3 DEF InWindow, Slots
<1> DEFINE x == cycle_read - cycle_write - 1
<1>5. x \in Nat /\ x < Max_CycleNum /\ x < SectorRecords - 1
  BY <1>1, <1>2, <1>4 DEF Slots
<1>6. x % Max_CycleNum = x
  <2> HIDE DEF x
  <2>1. /\ x \div Max_CycleNum \in Nat /\ x % Max_CycleNum \in Nat
        /\ x = Max_CycleNum * (x \div Max_CycleNum) + (x % Max_CycleNum)
    BY <1>5, DivMod
  <2>2. x \div Max_CycleNum = 0
    BY <1>5, <2>1
  <2> QED BY <1>5, <2>1, <2>2
<1> QED BY <1>5, <1>6 DEF FreeSlots

\* Every step that loses an unsent record does so for one of the three reasons.
LEMMA LossStep ==
  ASSUME IInv, [Next]_vars, NEW f \in saved \ posted, OnFlash(f), ~OnFlash(f)'
  PROVE  \/ derailed \/ FreeSlots < SectorRecords - 1
         \/ cycle_writeAbnormal_counter = AbnormalLimit
<1> SUFFICES ASSUME ~derailed,
                    cycle_writeAbnormal_counter # AbnormalLimit
             PROVE  FreeSlots < SectorRecords - 1
  OBVIOUS
<1> USE RingAssumption, ContentAssumption
<1>1. TypeOK /\ f \in Fix
  BY DEF IInv, TypeOK
<1>2. PICK j \in Area : flash[j] = f
  BY DEF OnFlash
<1>3. flash'[j] # f /\ Unsent(j)
  BY <1>2 DEF OnFlash, Unsent
<1>4. cycle_write \in Slots /\ j # cycle_write /\ Slots \subseteq Area
  BY <1>3, HeadNotUnsent DEF Slots, Area
<1>5. ASSUME cycle_write % SectorRecords = 0, SectorOf(j) = SectorOf(cycle_write)
      PROVE  FreeSlots < SectorRecords - 1
  BY <1>3, <1>5, UnsentAhead
<1>6. CASE SaveCycleGPS_Erase
  <2>1. flash' = EraseSector(cycle_write) /\ cycle_write % SectorRecords = 0
    BY <1>2, <1>3, <1>6 DEF SaveCycleGPS_Erase
  <2>2. SectorOf(j) = SectorOf(cycle_write)
    BY <1>2, <1>3, <2>1 DEF EraseSector
  <2> QED BY <1>5, <2>1, <2>2
<1>7. ~SaveCycleGPS_Good
  BY <1>1, <1>2, <1>3, <1>4 DEF SaveCycleGPS_Good, TypeOK
<1>8. ~SaveCycleGPS_Bad
  BY <1>1, <1>2, <1>3, <1>4 DEF SaveCycleGPS_Bad, TypeOK
<1>9. CASE Restart
  <2>1. flash' \in PowerCutFlash
    BY <1>9 DEF Restart
  <2>2. flash' # flash
    BY <1>2, <1>3
  <2>3. flash' # [flash EXCEPT ![cycle_write] = Garbage]
    BY <1>1, <1>2, <1>3, <1>4 DEF TypeOK
  <2>4. /\ cycle_write % SectorRecords = 0
        /\ flash' = [i \in Area |-> IF SectorOf(i) = SectorOf(cycle_write)
                                     THEN Garbage ELSE flash[i]]
    BY <2>1, <2>2, <2>3 DEF PowerCutFlash
  <2>5. SectorOf(j) = SectorOf(cycle_write)
    BY <1>2, <1>3, <2>4
  <2> QED BY <1>5, <2>4, <2>5
<1>10. CASE UNCHANGED flash
  BY <1>2, <1>3, <1>10
<1>11. (\E g \in Fix : Save_GPS(g)) \/ LogPointers \/ SendCurrent \/ SendStored
         \/ MarkSent \/ SkipStored => UNCHANGED flash
  BY DEF Save_GPS, LogPointers, SendCurrent, SendStored, MarkSent, SkipStored
<1>12. SendOk \/ CHK_ReadCycle_status \/ AckTimer
         \/ (\E now \in BOOLEAN : PositionSD_Enable(now))
         \/ (\E l \in {"down", "online", "login"} : LinkChange(l))
         \/ (\E b \in BOOLEAN : LockFlash(b)) => UNCHANGED flash
  BY DEF SendOk, CHK_ReadCycle_status, AckTimer, PositionSD_Enable, LinkChange, LockFlash
<1>13. UNCHANGED vars => UNCHANGED flash
  BY DEF vars
<1> QED BY <1>6, <1>7, <1>8, <1>9, <1>10, <1>11, <1>12, <1>13 DEF Next

\* For a ring and sectors of any size: no erase, failed write, restart or power
\* cut takes an unsent record from the flash, unless the pointers have met, the
\* writer is within a sector of the reader, or writes have kept failing.
THEOREM RecordsLostOnlyWhenFull == Spec => LostOnlyWhenFullOrFailing
<1>1. IInv /\ [Next]_vars =>
        \A f \in saved \ posted :
          OnFlash(f) /\ ~OnFlash(f)' =>
            \/ derailed
            \/ FreeSlots < SectorRecords - 1
            \/ cycle_writeAbnormal_counter = AbnormalLimit
  BY LossStep
<1> QED
  BY <1>1, InitInv, StepInv, PTL DEF Spec, LostOnlyWhenFullOrFailing

-----------------------------------------------------------------------------
(* The pointer log as a register                                           *)

\* The pair being logged is never the one a blank entry reads as.
LogArgReal == appPc = "log" => logArg # AllOnes

RegInv == IInv /\ LogArgReal

LEMMA RegisterStep ==
  ASSUME RegInv, [Next]_vars
  PROVE  RegInv' /\ [Register!RegNext]_(Register!regVars)
<1> USE RingAssumption DEF RegInv
<1>1. TypeOK /\ TypeOK' /\ IInv'
  BY StepInv DEF IInv
<1>2. CASE SaveCycleGPS_Good
  <2>1. /\ logged' = logged /\ logWild' = logWild
        /\ LogBusy = AllOnes /\ LogBusy' = logArg'
        /\ logArg'.wr = Succ(cycle_write) /\ logArg' \in Pointers
    BY <1>1, <1>2 DEF SaveCycleGPS_Good, LogBusy, TypeOK
  <2>2. logArg' # AllOnes
    <3>1. Succ(cycle_write) \in Slots
      BY <1>1, SuccArea DEF TypeOK
    <3> QED BY <2>1, <3>1 DEF Slots, Outside, AllOnes
  <2>3. Register!Begin
    BY <2>1, <2>2 DEF Register!Begin
  <2> QED BY <1>1, <2>1, <2>2, <2>3 DEF LogArgReal, Register!RegNext
<1>3. CASE LogPointers
  <2>1. /\ logged' = logArg /\ logWild' = FALSE
        /\ LogBusy = logArg /\ LogBusy' = AllOnes
        /\ appPc = "log" /\ appPc' # "log"
    BY <1>3 DEF LogPointers, SaveReturns, LogBusy
  <2>2. Register!Finish
    BY <2>1 DEF Register!Finish, LogArgReal
  <2> QED BY <1>1, <2>1, <2>2 DEF LogArgReal, Register!RegNext
<1>4. CASE Restart
  <2>1. LogBusy' = AllOnes /\ appPc' # "log" /\ PowerCutLog
    BY <1>4 DEF Restart, SaveReturns, LogBusy
  <2>2. LogArgReal'
    BY <2>1 DEF LogArgReal
  <2>3. appPc = "log" => LogBusy # AllOnes
    BY DEF LogArgReal, LogBusy
  <2>4. appPc # "log" => LogBusy = AllOnes
    BY DEF LogBusy
  <2>5. CASE UNCHANGED <<logged, logWild>>
    BY <1>1, <2>1, <2>2, <2>3, <2>4, <2>5
       DEF Register!Abandon, Register!RegNext, Register!regVars
  <2>6. CASE appPc = "log" /\ logged' = AllOnes /\ logWild' = FALSE
    BY <1>1, <2>1, <2>2, <2>3, <2>6 DEF Register!Abandon, Register!RegNext
  <2>7. CASE /\ appPc = "log" \/ logWild
             /\ logged' \in Pointers /\ logWild' = TRUE
    BY <1>1, <2>1, <2>2, <2>3, <2>7 DEF Register!Stray, Register!RegNext
  <2> QED BY <2>1, <2>5, <2>6, <2>7 DEF PowerCutLog
<1>5. ASSUME logged' = logged, logWild' = logWild,
             \/ appPc' = appPc /\ logArg' = logArg
             \/ appPc # "log" /\ appPc' # "log"
      PROVE  RegInv' /\ [Register!RegNext]_(Register!regVars)
  <2>1. LogBusy' = LogBusy /\ LogArgReal'
    BY <1>5 DEF LogBusy, LogArgReal
  <2> QED BY <1>1, <1>5, <2>1 DEF Register!regVars
<1>6. (\E f \in Fix : Save_GPS(f)) \/ SaveCycleGPS_Erase \/ SaveCycleGPS_Bad
        \/ SendStored \/ MarkSent
        => /\ logged' = logged /\ logWild' = logWild
           /\ appPc # "log" /\ appPc' # "log"
  BY DEF Save_GPS, SaveCycleGPS_Erase, SaveCycleGPS_Bad, SaveReturns, SendStored,
         SendsStored, MarkSent
<1>7. SendCurrent \/ SkipStored \/ SendOk \/ CHK_ReadCycle_status \/ AckTimer
        \/ (\E now \in BOOLEAN : PositionSD_Enable(now))
        \/ (\E l \in {"down", "online", "login"} : LinkChange(l))
        \/ (\E b \in BOOLEAN : LockFlash(b)) \/ UNCHANGED vars
        => /\ logged' = logged /\ logWild' = logWild
           /\ appPc' = appPc /\ logArg' = logArg
  BY DEF SendCurrent, SkipStored, SendOk, CHK_ReadCycle_status, AckTimer,
         PositionSD_Enable, LinkChange, LockFlash, vars, saveVars
<1> QED BY <1>2, <1>3, <1>4, <1>5, <1>6, <1>7 DEF Next

\* The store and the pointer log fit together: the store treats the log as the
\* register that LogImplementsRegister shows it to be, also when a power cut hits
\* the log and leaves it blank or empty, and for a ring of any size.
THEOREM StoreUsesRegister == Spec => UsesRegister
<1>1. Init => RegInv /\ Register!RegInit
  <2> SUFFICES ASSUME Init PROVE RegInv /\ Register!RegInit
    OBVIOUS
  <2>1. NoArg \in Pointers /\ NoArg # AllOnes
    BY RingAssumption DEF NoArg, AllOnes, Outside, Pointers, Slots, Area
  <2> QED BY <2>1, InitInv DEF Init, RegInv, LogArgReal, LogBusy, Register!RegInit
<1>2. RegInv /\ [Next]_vars => RegInv' /\ [Register!RegNext]_(Register!regVars)
  BY RegisterStep
<1> QED
  BY <1>1, <1>2, PTL DEF Spec, UsesRegister, Register!RegSpec
=============================================================================
