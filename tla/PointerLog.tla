---------------------------- MODULE PointerLog ----------------------------
(***************************************************************************)
(* The log of ring pointers in one flash sector (DF_Write_RecordAdd,       *)
(* DF_Read_RecordAdd).  A head page holds one flag byte per entry; the     *)
(* entries follow.  A write takes the first entry whose flag is clear,     *)
(* erasing the sector when there is none, sets the flag and only then      *)
(* writes the entry.  A read takes the entry before the first clear flag;  *)
(* when that is the first flag, the offset wraps and the read is of a page *)
(* far beyond the log.  Power may fail between the steps.                  *)
(***************************************************************************)
EXTENDS Integers

CONSTANTS Entries,   \* entries of the sector (448 in the build)
          Value,     \* pairs of pointers
          Blank      \* an entry that reads as all ones, or is half written

ASSUME EntriesAssumption == Entries \in Nat /\ Entries > 0
ASSUME BlankAssumption   == Blank \notin Value

VARIABLES
    used,      \* the flag bytes
    entry,     \* the entries
    pc,        \* "idle", "erase", "flag" or "entry"
    offset,    \* the entry the write has chosen
    arg,       \* the pair being written, Blank when there is none
    beyond,    \* the eight bytes that a read with a wrapped offset finds
    last,      \* history: the pair written last
    intact     \* history: no write was cut short since

vars == <<used, entry, pc, offset, arg, beyond, last, intact>>

Index == 0 .. Entries - 1

\* The loop over head[]: the first clear flag, Entries when there is none.
FirstClear ==
    IF \A i \in Index : used[i] THEN Entries
    ELSE CHOOSE i \in Index : ~used[i] /\ \A j \in Index : j < i => used[j]

\* DF_Read_RecordAdd.  With the first flag clear the u16 offset wraps to 0xFFFF:
\* the read is of the end of page Add_offset + 1 + 1023, which for the log of
\* the position ring lies in the ring itself.
ReadBack == IF FirstClear = 0 THEN beyond ELSE entry[FirstClear - 1]

\* Api_WriteInit_var_rd_wr, on the first start, has written one entry.
Init ==
    \E v \in Value :
      /\ used = [i \in Index |-> i = 0]
      /\ entry = [i \in Index |-> IF i = 0 THEN v ELSE Blank]
      /\ pc = "idle" /\ offset = 0 /\ arg = Blank
      /\ beyond \in Value \cup {Blank}
      /\ last = v /\ intact = TRUE

\* Mutant: a full sector is not noticed.
DF_Write_RecordAddFull(v) ==
    /\ pc = "idle"
    /\ arg' = v
    /\ pc' = "flag" /\ offset' = FirstClear
    /\ UNCHANGED <<used, entry, beyond, last, intact>>

\* DF_Write_RecordAdd up to the choice of the entry.
DF_Write_RecordAdd(v) ==
    /\ pc = "idle"
    /\ arg' = v
    /\ IF FirstClear = Entries THEN pc' = "erase" /\ offset' = 0
                               ELSE pc' = "flag" /\ offset' = FirstClear
    /\ UNCHANGED <<used, entry, beyond, last, intact>>

\* Mutant: only the flags are erased.
EraseHeadOnly ==
    /\ pc = "erase"
    /\ used' = [i \in Index |-> FALSE]
    /\ pc' = "flag"
    /\ UNCHANGED <<entry, offset, arg, beyond, last, intact>>

EraseBlock ==
    /\ pc = "erase"
    /\ used' = [i \in Index |-> FALSE]
    /\ entry' = [i \in Index |-> Blank]
    /\ pc' = "flag"
    /\ UNCHANGED <<offset, arg, beyond, last, intact>>

\* Mutant: the entry is not flagged.
WriteFlagNot ==
    /\ pc = "flag"
    /\ pc' = "entry"
    /\ UNCHANGED <<used, entry, offset, arg, beyond, last, intact>>

WriteFlag ==
    /\ pc = "flag"
    /\ used' = [used EXCEPT ![offset] = TRUE]
    /\ pc' = "entry"
    /\ UNCHANGED <<entry, offset, arg, beyond, last, intact>>

\* Programming flash that is not erased only clears bits.
WriteEntry ==
    /\ pc = "entry"
    /\ entry' = [entry EXCEPT ![offset] = IF @ = Blank THEN arg ELSE Blank]
    /\ last' = arg /\ intact' = TRUE
    /\ pc' = "idle" /\ offset' = 0 /\ arg' = Blank
    /\ UNCHANGED <<used, beyond>>

\* The step under way has not happened, but the write is over.
PowerCut ==
    /\ pc # "idle"
    /\ pc' = "idle" /\ offset' = 0 /\ arg' = Blank
    /\ intact' = FALSE
    /\ UNCHANGED <<used, entry, beyond, last>>

\* The page beyond the log belongs to others; the eight bytes may be part of a
\* record, all ones, or happen to form a pair.
OtherData ==
    /\ beyond' \in Value \cup {Blank}
    /\ UNCHANGED <<used, entry, pc, offset, arg, last, intact>>

Next ==
    \/ \E v \in Value : DF_Write_RecordAdd(v)
    \/ EraseBlock
    \/ WriteFlag
    \/ WriteEntry
    \/ PowerCut
    \/ OtherData

Spec == Init /\ [][Next]_vars

-----------------------------------------------------------------------------
TypeOK ==
    /\ used \in [Index -> BOOLEAN]
    /\ entry \in [Index -> Value \cup {Blank}]
    /\ pc \in {"idle", "erase", "flag", "entry"}
    /\ offset \in Index
    /\ arg \in Value \cup {Blank}
    /\ beyond \in Value \cup {Blank}
    /\ last \in Value
    /\ intact \in BOOLEAN

\* After a completed write, and as long as no later one is cut short, a read
\* returns what was written, also when the sector was erased for it and when
\* earlier writes were cut short and left flagged blank entries behind.
ReadsLast == pc = "idle" /\ intact => ReadBack = last

\* No interleaving of writes and power cuts brings back an older pair: as long
\* as its first flag is set, the log returns the last pair written or nothing.
NeverStale == FirstClear # 0 /\ ReadBack \in Value => ReadBack = last

Register == INSTANCE PointerRegister
              WITH Lost <- Blank, stored <- ReadBack, busy <- arg,
                   wild <- FirstClear = 0

\* The log implements the register.
ImplementsRegister == Register!RegSpec

-----------------------------------------------------------------------------
(* The inductive invariant                                                 *)

\* The first n flags are set, and what follows the entries they stand for is
\* erased.
Prefix(n) ==
    /\ \A i \in Index : used[i] <=> i < n
    /\ \A i \in Index : i >= n => entry[i] = Blank

\* Where a write under way is.
WriteUnderWay(n) ==
    /\ pc = "idle" <=> arg = Blank
    /\ pc = "idle" /\ intact => n > 0
    /\ pc = "erase" => offset = 0 /\ n = Entries
    /\ pc = "flag" => offset = n
    /\ pc = "entry" => offset = n - 1 /\ entry[offset] = Blank

LogInv ==
    /\ TypeOK
    /\ \E n \in 0 .. Entries : Prefix(n) /\ WriteUnderWay(n)
    /\ NeverStale
    /\ ReadsLast
=============================================================================
