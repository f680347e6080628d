------------------------- MODULE PointerLog_proofs -------------------------
(***************************************************************************)
(* Proofs about PointerLog, for a log of any length and any pointer pairs. *)
(***************************************************************************)
EXTENDS PointerLog, TLAPS

\* The loop over the flag bytes finds the end of the prefix of set flags.
LEMMA FirstClearIs ==
  ASSUME NEW n \in 0 .. Entries, \A i \in Index : used[i] <=> i < n
  PROVE  FirstClear = n
<1> USE EntriesAssumption
<1>1. CASE n = Entries
  BY <1>1 DEF FirstClear, Index
<1>2. CASE n # Entries
  <2> DEFINE P(i) == ~used[i] /\ \A j \in Index : j < i => used[j]
  <2>1. n \in Index /\ P(n)
    BY <1>2 DEF Index
  <2>2. FirstClear = CHOOSE i \in Index : P(i)
    BY <2>1 DEF FirstClear
  <2>3. FirstClear \in Index /\ P(FirstClear)
    BY <2>1, <2>2
  <2>4. ~(FirstClear < n) /\ ~(n < FirstClear)
    BY <2>1, <2>3
  <2> QED
    BY <2>3, <2>4 DEF Index
<1> QED
  BY <1>1, <1>2

\* A read returns the entry before the end of the prefix.
LEMMA ReadBackIs ==
  ASSUME NEW n \in 0 .. Entries, \A i \in Index : used[i] <=> i < n
  PROVE  /\ FirstClear = n
         /\ ReadBack = IF n = 0 THEN beyond ELSE entry[n - 1]
BY FirstClearIs DEF ReadBack

\* The same of the state after a step.
LEMMA ReadBackIsPrimed ==
  ASSUME NEW n \in 0 .. Entries, \A i \in Index : used'[i] <=> i < n
  PROVE  /\ FirstClear' = n
         /\ ReadBack' = IF n = 0 THEN beyond' ELSE entry'[n - 1]
<1> USE EntriesAssumption
<1>1. FirstClear' = n
  <2>1. CASE n = Entries
    BY <2>1 DEF FirstClear, Index
  <2>2. CASE n # Entries
    <3> DEFINE P(i) == ~used'[i] /\ \A j \in Index : j < i => used'[j]
    <3>1. n \in Index /\ P(n)
      BY <2>2 DEF Index
    <3>2. FirstClear' = CHOOSE i \in Index : P(i)
      BY <3>1 DEF FirstClear
    <3>3. FirstClear' \in Index /\ P(FirstClear')
      BY <3>1, <3>2
    <3>4. ~(FirstClear' < n) /\ ~(n < FirstClear')
      BY <3>1, <3>3
    <3> QED
      BY <3>3, <3>4 DEF Index
  <2> QED
    BY <2>1, <2>2
<1> QED
  BY <1>1 DEF ReadBack

\* The log as the first start leaves it.
LEMMA InitLog == Init => LogInv
<1> SUFFICES ASSUME Init PROVE LogInv
  OBVIOUS
<1> USE EntriesAssumption, BlankAssumption
<1>1. PICK v \in Value :
        /\ used = [i \in Index |-> i = 0]
        /\ entry = [i \in Index |-> IF i = 0 THEN v ELSE Blank]
        /\ pc = "idle" /\ offset = 0 /\ arg = Blank
        /\ beyond \in Value \cup {Blank}
        /\ last = v /\ intact = TRUE
  BY DEF Init
<1>2. TypeOK
  <2>1. used \in [Index -> BOOLEAN]
    BY <1>1
  <2>2. entry \in [Index -> Value \cup {Blank}] /\ 0 \in Index
    BY <1>1 DEF Index
  <2> QED
    BY <1>1, <2>1, <2>2 DEF TypeOK
<1>3. Prefix(1) /\ WriteUnderWay(1)
  <2>1. \A i \in Index : (i = 0 <=> i < 1) /\ (i >= 1 => i # 0)
    BY DEF Index
  <2>2. \A i \in Index : used[i] <=> i = 0
    BY <1>1, Zenon
  <2>3. Prefix(1)
    BY <1>1, <2>1, <2>2 DEF Prefix
  <2> QED
    BY <1>1, <2>3 DEF WriteUnderWay
<1>4. ReadBack = v /\ FirstClear = 1
  <2>1. 1 \in 0 .. Entries /\ \A i \in Index : used[i] <=> i < 1
    BY <1>3 DEF Prefix
  <2>2. ReadBack = entry[0] /\ FirstClear = 1
    BY <2>1, ReadBackIs
  <2> QED
    BY <1>1, <2>2 DEF Index
<1> QED
  BY <1>1, <1>2, <1>3, <1>4 DEF LogInv, NeverStale, ReadsLast

\* What a step of the log does to the invariant and, seen through the
\* refinement mapping, to the register.
LEMMA StepLog ==
  ASSUME LogInv, [Next]_vars
  PROVE  LogInv' /\ [Register!RegNext]_<<ReadBack, arg, FirstClear = 0>>
<1> USE EntriesAssumption, BlankAssumption
<1>n. PICK n \in 0 .. Entries : Prefix(n) /\ WriteUnderWay(n)
  BY DEF LogInv
<1>t. TypeOK /\ NeverStale /\ ReadsLast
  BY DEF LogInv
<1>r. FirstClear = n /\ ReadBack = IF n = 0 THEN beyond ELSE entry[n - 1]
  BY <1>n, ReadBackIs DEF Prefix
<1>1. ASSUME NEW v \in Value, DF_Write_RecordAdd(v)
      PROVE  LogInv' /\ [Register!RegNext]_<<ReadBack, arg, FirstClear = 0>>
  <2>1. FirstClear = n
    BY <1>r
  <2>2. ReadBack' = ReadBack /\ FirstClear' = FirstClear /\ used' = used /\ entry' = entry
    BY <1>1 DEF DF_Write_RecordAdd, ReadBack, FirstClear
  <2>3. TypeOK'
    BY <1>1, <1>t, <2>1 DEF DF_Write_RecordAdd, TypeOK, Index
  <2>4. Prefix(n)' /\ WriteUnderWay(n)'
    BY <1>1, <1>n, <2>1, <2>2 DEF DF_Write_RecordAdd, Prefix, WriteUnderWay
  <2>5. NeverStale' /\ ReadsLast'
    BY <1>1, <1>t, <2>2 DEF DF_Write_RecordAdd, NeverStale, ReadsLast
  <2>6. Register!Begin
    BY <1>1, <1>n, <2>2 DEF DF_Write_RecordAdd, WriteUnderWay, Register!Begin
  <2> QED
    BY <2>3, <2>4, <2>5, <2>6 DEF LogInv, Register!RegNext
<1>2. CASE EraseBlock
  <2>1. Prefix(0)' /\ WriteUnderWay(0)' /\ TypeOK'
    BY <1>2, <1>n, <1>t DEF EraseBlock, Prefix, WriteUnderWay, TypeOK, Index
  <2>2. FirstClear' = 0 /\ ReadBack' = beyond'
    BY <2>1, ReadBackIsPrimed DEF Prefix
  <2>3. NeverStale' /\ ReadsLast'
    BY <1>2, <2>2 DEF EraseBlock, NeverStale, ReadsLast
  <2>4. Register!Stray
    BY <1>2, <1>n, <2>1, <2>2 DEF EraseBlock, WriteUnderWay, TypeOK, Register!Stray
  <2> QED
    BY <2>1, <2>3, <2>4 DEF LogInv, Register!RegNext
<1>3. CASE WriteFlag
  <2>1. n \in Index /\ n + 1 \in 0 .. Entries /\ offset = n
    BY <1>3, <1>n, <1>t DEF WriteFlag, WriteUnderWay, TypeOK, Index
  <2>2. Prefix(n + 1)' /\ WriteUnderWay(n + 1)' /\ TypeOK'
    BY <1>3, <1>n, <1>t, <2>1 DEF WriteFlag, Prefix, WriteUnderWay, TypeOK, Index
  <2>3. ReadBack' = entry'[n] /\ FirstClear' = n + 1
    BY <2>1, <2>2, ReadBackIsPrimed DEF Prefix, Index
  <2>4. ReadBack' = Blank /\ FirstClear' # 0
    BY <1>3, <1>n, <2>1, <2>3 DEF WriteFlag, Prefix, Index
  <2>5. NeverStale' /\ ReadsLast'
    BY <1>3, <2>4 DEF WriteFlag, NeverStale, ReadsLast
  <2>6. Register!Vanish
    BY <1>3, <1>n, <2>4 DEF WriteFlag, WriteUnderWay, Register!Vanish
  <2> QED
    BY <2>1, <2>2, <2>5, <2>6 DEF LogInv, Register!RegNext
<1>4. CASE WriteEntry
  <2>1. n > 0 /\ offset = n - 1 /\ entry[offset] = Blank /\ arg \in Value
    BY <1>4, <1>n, <1>t DEF WriteEntry, WriteUnderWay, TypeOK, Index
  <2>2. TypeOK'
    BY <1>4, <1>t, <2>1 DEF WriteEntry, TypeOK, Index
  <2>3. entry' = [entry EXCEPT ![n - 1] = arg]
    BY <1>4, <2>1 DEF WriteEntry
  <2>4. Prefix(n)' /\ WriteUnderWay(n)'
    BY <1>4, <1>n, <1>t, <2>1, <2>3 DEF WriteEntry, Prefix, WriteUnderWay, TypeOK, Index
  <2>5. ReadBack' = arg /\ FirstClear' = n
    BY <2>1, <2>3, <2>4, <1>t, ReadBackIsPrimed DEF Prefix, TypeOK, Index
  <2>6. NeverStale' /\ ReadsLast'
    BY <1>4, <2>5 DEF WriteEntry, NeverStale, ReadsLast
  <2>7. Register!Finish
    BY <1>4, <1>r, <2>1, <2>5 DEF WriteEntry, Register!Finish
  <2> QED
    BY <2>2, <2>4, <2>6, <2>7 DEF LogInv, Register!RegNext
<1>5. CASE PowerCut
  <2>1. ReadBack' = ReadBack /\ FirstClear' = FirstClear /\ used' = used /\ entry' = entry
    BY <1>5 DEF PowerCut, ReadBack, FirstClear
  <2>2. TypeOK'
    <3>1. 0 \in Index /\ pc' = "idle" /\ offset' = 0 /\ arg' = Blank
      BY <1>5 DEF PowerCut, Index
    <3>2. intact' = FALSE /\ used' = used /\ entry' = entry /\ last' = last /\ beyond' = beyond
      BY <1>5 DEF PowerCut
    <3> QED
      BY <1>t, <3>1, <3>2 DEF TypeOK
  <2>5. Prefix(n)' /\ WriteUnderWay(n)'
    BY <1>5, <1>n, <2>1 DEF PowerCut, Prefix, WriteUnderWay
  <2>3. NeverStale' /\ ReadsLast'
    BY <1>5, <1>t, <2>1 DEF PowerCut, NeverStale, ReadsLast
  <2>4. Register!Abandon
    BY <1>5, <1>n, <2>1 DEF PowerCut, WriteUnderWay, Register!Abandon
  <2> QED
    BY <2>2, <2>3, <2>4, <2>5 DEF LogInv, Register!RegNext
<1>6. CASE OtherData
  <2>1. FirstClear' = FirstClear /\ used' = used /\ entry' = entry
    BY <1>6 DEF OtherData, FirstClear
  <2>2. TypeOK' /\ Prefix(n)' /\ WriteUnderWay(n)'
    BY <1>6, <1>n, <1>t DEF OtherData, TypeOK, Prefix, WriteUnderWay
  <2>3. n > 0 => ReadBack' = ReadBack
    BY <1>r, <2>1 DEF ReadBack
  <2>4. n = 0 => ReadBack' = beyond' /\ FirstClear' = 0
    BY <1>r, <2>1 DEF ReadBack
  <2>5. NeverStale'
    BY <1>6, <1>t, <1>r, <2>1, <2>3, <2>4 DEF OtherData, NeverStale
  <2>6. ReadsLast'
    BY <1>6, <1>n, <1>t, <2>3 DEF OtherData, ReadsLast, WriteUnderWay
  <2>7. [Register!RegNext]_<<ReadBack, arg, FirstClear = 0>>
    <3>1. CASE n = 0
      BY <1>6, <1>r, <2>4, <3>1 DEF OtherData, Register!RegNext, Register!Stray
    <3>2. CASE n > 0
      BY <1>6, <2>1, <2>3, <3>2 DEF OtherData
    <3> QED
      BY <3>1, <3>2
  <2> QED
    BY <2>2, <2>5, <2>6, <2>7 DEF LogInv
<1>7. CASE UNCHANGED vars
  <2>1. ReadBack' = ReadBack /\ arg' = arg /\ FirstClear' = FirstClear
    BY <1>7 DEF vars, ReadBack, FirstClear
  <2>2. TypeOK' /\ Prefix(n)' /\ WriteUnderWay(n)'
    BY <1>7, <1>n, <1>t DEF vars, TypeOK, Prefix, WriteUnderWay
  <2>3. NeverStale' /\ ReadsLast'
    BY <1>7, <1>t, <2>1 DEF vars, NeverStale, ReadsLast
  <2> QED
    BY <2>1, <2>2, <2>3 DEF LogInv
<1> QED
  BY <1>1, <1>2, <1>3, <1>4, <1>5, <1>6, <1>7 DEF Next

\* The place of the next entry never leaves the sector: a full log is erased
\* before DF_Write_RecordAdd goes on.
THEOREM LogTypes == Spec => []TypeOK
<1>1. LogInv => TypeOK
  BY DEF LogInv
<1> QED
  BY <1>1, InitLog, StepLog, PTL DEF Spec

\* After a completed write a read returns what was written, for a log of any
\* length and after any number of writes cut short.
THEOREM LogReadsLast == Spec => []ReadsLast
<1>1. LogInv => ReadsLast
  BY DEF LogInv
<1> QED
  BY <1>1, InitLog, StepLog, PTL DEF Spec

\* As long as the first flag is set, a read never returns a pair older than the
\* last one written.
THEOREM LogNeverStale == Spec => []NeverStale
<1>1. LogInv => NeverStale
  BY DEF LogInv
<1> QED
  BY <1>1, InitLog, StepLog, PTL DEF Spec

\* The log implements the register: whatever the steps of a write and the power
\* cuts between them, a read sees the last pair, or nothing from some point of a
\* write on, or, from the erase of a full log until a write completes, bytes that
\* are not the log's.
THEOREM LogImplementsRegister == Spec => ImplementsRegister
<1>1. Init => Register!RegInit
  <2> SUFFICES ASSUME Init PROVE Register!RegInit
    OBVIOUS
  <2>1. LogInv
    BY InitLog
  <2>2. FirstClear # 0
    <3>1. PICK n \in 0 .. Entries : Prefix(n) /\ WriteUnderWay(n)
      BY <2>1 DEF LogInv
    <3>2. FirstClear = n /\ n > 0
      BY <3>1, FirstClearIs DEF Init, Prefix, WriteUnderWay
    <3> QED
      BY <3>2
  <2> QED
    BY <2>1, <2>2 DEF Init, LogInv, ReadsLast, TypeOK, Register!RegInit
<1> QED
  BY <1>1, InitLog, StepLog, PTL DEF Spec, ImplementsRegister, Register!RegSpec, Register!regVars
=============================================================================
