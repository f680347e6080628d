--------------------------- MODULE MCCycleStore ---------------------------
(* Small rings for TLC.                                                    *)
EXTENDS CycleStore, TLC

FixSymmetry == Permutations(Fix)

\* What the properties say ends when the pointers derail; so does the search.
NotDerailed == ~derailed

\* Nothing looks at the lock of the flash during a save, nor at more of the link
\* than whether it is there: other changes of the two may as well come after it.
ChangesAfterSave == appPc \in Saves => ~DF_LOCK /\ link # "login"
=============================================================================
