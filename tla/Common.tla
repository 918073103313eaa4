------------------------------- MODULE Common -------------------------------
(***************************************************************************)
(* Types shared by the two pallets (src/pallets/common/src/lib.rs): the    *)
(* device states and the XCMP messages exchanged between the client chain  *)
(* and the service chain.  The SCALE encoding is left out: a message is    *)
(* the record it decodes to.  The order payload `data` is left out.        *)
(*                                                                         *)
(* Every order and every message also carries a ghost field `id`, the      *)
(* number the client chain gave the order when it was placed (0 for an     *)
(* order placed on the service chain), and a reply carries a ghost field   *)
(* `at`, the service-chain time it was sent.  The code has neither: they   *)
(* are history, read only by properties, and no guard depends on them.     *)
(***************************************************************************)
EXTENDS Naturals

CONSTANTS
    Devices,            \* accounts that register as devices
    Clients,            \* accounts that place orders
    Fees,               \* fee values offered in orders
    MaxTime,            \* bound on the timestamp
    MomentMax,          \* largest T::Moment (u64::MAX in the runtimes)
    OrderIds,           \* ghost order numbers (0 = placed on the service chain)
    NoDevice, NoOrder   \* sentinels for absent storage entries

ASSUME 0 \in OrderIds /\ MaxTime <= MomentMax

Times == 0..MaxTime

\* `now + dev.wcd` on T::Moment, u64 in both runtimes: the runtime is built
\* in release mode, where `+` on an integer wraps.
MomentAdd(a, b) == (a + b) % (MomentMax + 1)

\* DeviceState (l.18-31); Busy2 is the spec's Accepted, Timewait Abandoned.
States == {"Off", "Ready", "Busy", "Busy2", "Timewait"}

\* `if onoff { Ready } else { Off }`, written out in each pallet.
OnOff(onoff) == IF onoff THEN "Ready" ELSE "Off"

\* XCMPMessage::NewOrder(client, OrderBase{until, data, fee, device}).
NewOrderMsg ==
    [kind : {"NewOrder"}, client : Clients, device : Devices,
     until : Times, fee : Fees, id : OrderIds]

\* XCMPMessage::OrderAccept(client, device), OrderReject(client, device,
\* onoff) and OrderDone(client, device, onoff).
ReplyMsg ==
    [kind : {"OrderAccept"}, client : Clients, device : Devices,
     id : OrderIds, at : Times]
    \cup [kind : {"OrderReject", "OrderDone"}, client : Clients,
          device : Devices, onoff : BOOLEAN, id : OrderIds, at : Times]

\* A blob that XCMPMessage::decode refuses, such as the two bytes the client
\* pallet's `test` sends (variant NewOrder, then too few bytes for an account).
UndecodableMsg == [kind : {"Undecodable"}]

=============================================================================
