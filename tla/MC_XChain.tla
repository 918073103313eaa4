------------------------------ MODULE MC_XChain ------------------------------
(* Model values and bounds for checking XChain with TLC. *)
EXTENDS XChain

MC_Penalties == {1}
MC_Wcds == {1}
MC_Fees == {1}
MC_MaxTime == 3
MC_InitFree == 1..2
\* Every account starts with more than two fees, so no fee payment reaps it.
MC_InitFree3 == {3}
MC_MaxOrders == 2
MC_MaxOrders3 == 3

=============================================================================
