------------------------- MODULE PointerRegister -------------------------
(***************************************************************************)
(* What the rest of the firmware may expect of the pointer log: a register *)
(* that holds the last pair of pointers written.  While a write is under   *)
(* way the old pair may already be gone, and a power cut then leaves       *)
(* nothing, or leaves the register wild: until the next write completes, a *)
(* read returns bytes that have nothing to do with the log.  A pair older  *)
(* than the last one comes back only from a wild register.                 *)
(***************************************************************************)
CONSTANTS Value,   \* pairs of pointers
          Lost     \* nothing usable is stored

VARIABLES stored,  \* what a read returns
          busy,    \* the pair being written, or Lost
          wild     \* a read returns bytes from outside the log

regVars == <<stored, busy, wild>>

RegInit == stored \in Value /\ busy = Lost /\ wild = FALSE

Begin    == busy = Lost /\ busy' \in Value /\ UNCHANGED <<stored, wild>>
Vanish   == busy # Lost /\ stored' = Lost /\ wild' = FALSE /\ UNCHANGED busy
Finish   == busy # Lost /\ stored' = busy /\ busy' = Lost /\ wild' = FALSE
Abandon  == /\ busy # Lost /\ busy' = Lost
            /\ UNCHANGED <<stored, wild>> \/ (stored' = Lost /\ wild' = FALSE)

\* The log has just been emptied for the write under way, or was left empty by
\* a power cut.
Stray    == /\ busy # Lost \/ wild
            /\ wild' = TRUE /\ stored' \in Value \cup {Lost}
            /\ busy' \in {busy, Lost}

RegNext == Begin \/ Vanish \/ Finish \/ Abandon \/ Stray

RegSpec == RegInit /\ [][RegNext]_regVars
=============================================================================
