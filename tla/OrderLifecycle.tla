--------------------------- MODULE OrderLifecycle ---------------------------
(***************************************************************************)
(* What the service pallet promises about the order of each device (spec  *)
(* sections 3 and 4), with balances, messages and profiles left out.  A    *)
(* device holds at most one order.  An order is opened only before its     *)
(* deadline, possibly accepted at once; it is accepted at most once and    *)
(* only before its deadline, and stays accepted; it ends either completed, *)
(* which only an accepted order can be, or withdrawn (rejected by the      *)
(* device or cancelled by the client).  While it is outstanding nothing    *)
(* about it changes: its client, fee, deadline and the penalty the device  *)
(* put up for it are the ones it was opened with.                          *)
(***************************************************************************)
EXTENDS Naturals

CONSTANTS Devices, Clients, Fees, Penalties, MaxTime, None

VARIABLES
    now,        \* the clock
    order,      \* device -> the outstanding order, or None
    accepted    \* device -> whether its outstanding order was accepted

vars == <<now, order, accepted>>

AOrder == [client : Clients, fee : Fees, until : 0..MaxTime, pen : Penalties]

Init ==
    /\ now = 0
    /\ order = [d \in Devices |-> None]
    /\ accepted = [d \in Devices |-> FALSE]

Open(d) ==
    /\ order[d] = None
    /\ \E o \in AOrder : now < o.until /\ order' = [order EXCEPT ![d] = o]
    /\ \E acc \in BOOLEAN : accepted' = [accepted EXCEPT ![d] = acc]
    /\ UNCHANGED now

Accept(d) ==
    /\ order[d] # None /\ ~accepted[d]
    /\ now < order[d].until
    /\ accepted' = [accepted EXCEPT ![d] = TRUE]
    /\ UNCHANGED <<now, order>>

Complete(d) ==
    /\ order[d] # None /\ accepted[d]
    /\ order' = [order EXCEPT ![d] = None]
    /\ accepted' = [accepted EXCEPT ![d] = FALSE]
    /\ UNCHANGED now

Withdraw(d) ==
    /\ order[d] # None
    /\ order' = [order EXCEPT ![d] = None]
    /\ accepted' = [accepted EXCEPT ![d] = FALSE]
    /\ UNCHANGED now

Tick ==
    /\ now < MaxTime
    /\ now' = now + 1
    /\ UNCHANGED <<order, accepted>>

Next ==
    \/ \E d \in Devices : Open(d) \/ Accept(d) \/ Complete(d) \/ Withdraw(d)
    \/ Tick

Spec == Init /\ [][Next]_vars

=============================================================================
