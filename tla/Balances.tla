------------------------------ MODULE Balances ------------------------------
(***************************************************************************)
(* The reservable currency the pallets escrow with (T::Currency, a         *)
(* ReservableCurrency).  It is not code of this repository: the operators  *)
(* follow the contract the pallets rely on (spec section 6) and the        *)
(* pallet_balances behaviour of the FRAME release the pallets build        *)
(* against: reserve moves free to reserved and fails when free is short,   *)
(* unreserve moves back at most what is reserved, repatriate_reserved      *)
(* moves at most what is reserved to the free balance of a beneficiary and *)
(* fails with DeadAccount when the beneficiary does not exist.  An account *)
(* whose total falls below the existential deposit ED is reaped: its       *)
(* balances are dropped and the OnKilledAccount hook runs.                 *)
(*                                                                         *)
(* A ledger is a function from accounts to [free, reserved].  Operators    *)
(* that may fail return [ok, led, reaped], reaped being the set of         *)
(* accounts killed by the call.                                            *)
(***************************************************************************)
EXTENDS Naturals

CONSTANTS Accounts,   \* account ids (model values)
          ED          \* existential deposit

ASSUME ED \in Nat \ {0}

Total(led, a) == led[a].free + led[a].reserved

\* An account exists while its total balance is at least ED.
Alive(led, a) == Total(led, a) >= ED

LOCAL MinOf(x, y) == IF x <= y THEN x ELSE y

\* can_reserve(who, value): the free balance covers the value (no locks).
CanReserve(led, a, x) == led[a].free >= x

\* reserve(who, value), called only where CanReserve holds.
Reserve(led, a, x) ==
    [led EXCEPT ![a].free = @ - x, ![a].reserved = @ + x]

\* unreserve(who, value): releases min(value, reserved) to free.
Unreserve(led, a, x) ==
    LET m == MinOf(x, led[a].reserved)
    IN  [led EXCEPT ![a].free = @ + m, ![a].reserved = @ - m]

\* Drop an account whose total fell below ED (pallet_balances post_mutation).
Reap(led, a) == [led EXCEPT ![a] = [free |-> 0, reserved |-> 0]]

\* repatriate_reserved(slashed, beneficiary, value, Free).
RepatriateReserved(led, from, to, x) ==
    IF x = 0 THEN [ok |-> TRUE, led |-> led, reaped |-> {}]
    ELSE IF from = to THEN [ok |-> TRUE, led |-> Unreserve(led, from, x), reaped |-> {}]
    ELSE IF ~Alive(led, to) THEN [ok |-> FALSE, led |-> led, reaped |-> {}]
    ELSE LET m    == MinOf(x, led[from].reserved)
             moved == [led EXCEPT ![from].reserved = @ - m, ![to].free = @ + m]
             dies == Alive(led, from) /\ ~Alive(moved, from)
         IN  [ok     |-> TRUE,
              led    |-> IF dies THEN Reap(moved, from) ELSE moved,
              reaped |-> IF dies THEN {from} ELSE {}]

=============================================================================
