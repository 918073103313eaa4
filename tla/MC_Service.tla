----------------------------- MODULE MC_Service -----------------------------
(* Model values and bounds for checking Service with TLC. *)
EXTENDS Service, TLC

MC_Penalties == {1}
MC_Wcds == {1, 2}
\* One work circle duration, for the runs that need no second one.
MC_Wcd1 == {1}
MC_Fees == {1}
MC_MaxTime == 2
\* A work circle duration as large as the clock itself, for the run where
\* the Moment is two bits wide and now + wcd wraps.
MC_WcdWrap == {3}
MC_InitFree == 1..2
\* With an existential deposit of 2 every account starts alive.
MC_InitFreeED2 == 2..3

\* Accounts are interchangeable: Init ranges over every balance function.
Symmetry == Permutations(Accounts)

=============================================================================
