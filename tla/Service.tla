------------------------------ MODULE Service ------------------------------
(***************************************************************************)
(* The service pallet (src/pallets/service/src/lib.rs): the chain where    *)
(* devices live.  It keeps one DeviceProfile and at most one Order per     *)
(* device account, escrows the client's fee and the device's penalty in    *)
(* the reservable currency for orders placed on this chain, and talks to   *)
(* the client chain over HRMP for orders whose paraid is another chain.    *)
(*                                                                         *)
(* Every call is one atomic step, as a block executes extrinsics one at a  *)
(* time.  Dispatch is NOT transactional in the FRAME release the pallet is *)
(* built on: writes made before an early `return Err` or `?` stay.  So a   *)
(* call that fails after a write is a step of its own, with lastCall.ok =  *)
(* FALSE; a call that fails before any write changes nothing and is left   *)
(* out (it is a stuttering step).                                          *)
(***************************************************************************)
EXTENDS Integers, Sequences, FiniteSetsExt, Balances, Common

CONSTANTS
    SelfParaId,         \* T::SelfParaId
    RemoteParas,        \* client chains that send NewOrder over HRMP
    Penalties,          \* penalty values offered to register
    Wcds,               \* work circle durations offered to register
    Capacity,           \* HRMP queue capacity towards a remote chain
    OnReceivedResults,  \* states T::OnReceived may return (None = refuse)
    InitFree            \* free balances an account may start with

ASSUME /\ Devices \subseteq Accounts /\ Clients \subseteq Accounts
       /\ SelfParaId \notin RemoteParas
       /\ OnReceivedResults \subseteq {"Busy", "Busy2", "None"}

VARIABLES
    now,        \* pallet_timestamp::Now
    led,        \* the currency ledger, see Balances
    device,     \* Device storage map: account -> DeviceProfile
    orders,     \* Orders storage map: device account -> Order
    outbox,     \* HRMP queues to remote chains: para -> Seq(message)
    lastCall    \* the last call that wrote state: [op, dev, ok]

vars == <<now, led, device, orders, outbox, lastCall>>

Paras == {SelfParaId} \cup RemoteParas

Profile == [state : States, penalty : Penalties, wcd : Wcds]
Order == [until : Times, fee : Fees, client : Clients, paraid : Paras, id : OrderIds]

IsLocal(o) == o.paraid = SelfParaId

(***************************************************************************)
(* Variants of definitions below, each with a slip a programmer could     *)
(* make in the corresponding code.  Mutation checks substitute one for    *)
(* its original to show that the property it targets can fail.            *)
(***************************************************************************)
CanSendIgnoringCapacity(p) == TRUE

PenaltyReleaseToClient(l, o, d, pen) ==
    IF now < o.until
    THEN [ok |-> TRUE, led |-> Unreserve(l, o.client, pen), reaped |-> {}]
    ELSE RepatriateReserved(l, d, o.client, pen)

PenaltyReleaseInclusive(l, o, d, pen) ==
    IF now <= o.until
    THEN [ok |-> TRUE, led |-> Unreserve(l, d, pen), reaped |-> {}]
    ELSE RepatriateReserved(l, d, o.client, pen)

RegisterUnguarded(d) ==
    /\ Alive(led, d)
    /\ \E p \in Penalties, w \in Wcds, onoff \in BOOLEAN :
         device' = [device EXCEPT ![d] = [state |-> IF onoff THEN "Ready" ELSE "Off",
                                          penalty |-> p, wcd |-> w]]
    /\ UNCHANGED <<now, led, orders, outbox>>
    /\ lastCall' = [op |-> "other", dev |-> NoDevice, ok |-> TRUE]

\* send_blob_message fails when the HRMP queue is full.
CanSend(p) == Len(outbox[p]) < Capacity

\* OnKilledAccount::on_killed_account for each reaped account (l.472-478).
OnKilledAccount(dev, reaped) ==
    [a \in DOMAIN dev |->
        IF a \in reaped /\ dev[a] # NoDevice /\ dev[a].state = "Off"
        THEN NoDevice ELSE dev[a]]

\* Only resolutions keep their name and device; other calls keep their result.
Record(op, d, ok) ==
    lastCall' = IF op \in {"done", "reject", "cancel"}
                THEN [op |-> op, dev |-> d, ok |-> ok]
                ELSE [op |-> "other", dev |-> NoDevice, ok |-> ok]

(* The two escrow flows of a local resolution (l.441-447, l.382-389).   *)
(* The fee is given back to the client (reject, cancel); the penalty is  *)
(* given back to the device before the deadline and forfeited to the     *)
(* client from the deadline on.                                           *)
FeeRelease(l, o) == Unreserve(l, o.client, o.fee)

PenaltyRelease(l, o, d, pen) ==
    IF now < o.until
    THEN [ok |-> TRUE, led |-> Unreserve(l, d, pen), reaped |-> {}]
    ELSE RepatriateReserved(l, d, o.client, pen)

-----------------------------------------------------------------------------
(* order_accept (l.407-429): Busy2, and an OrderAccept to a remote client *)
(* chain.  The send error is mapped and dropped, so a full queue loses    *)
(* the message and the call still succeeds.                               *)
OrderAccept(o, d, dev) ==
    /\ device' = [device EXCEPT ![d] = [dev EXCEPT !.state = "Busy2"]]
    /\ outbox' = IF ~IsLocal(o) /\ CanSend(o.paraid)
                 THEN [outbox EXCEPT ![o.paraid] =
                        Append(@, [kind |-> "OrderAccept", client |-> o.client,
                                   device |-> d, id |-> o.id, at |-> now])]
                 ELSE outbox

(* order_received (l.322-363), shared by the order extrinsic and the     *)
(* NewOrder message.  The checks before the policy call write nothing.   *)
(* For a local order the device's penalty is reserved before the         *)
(* client's fee; can_reserve was asked only for the fee, so when client  *)
(* and device are one account the second reserve can fail after the      *)
(* first has been kept.                                                   *)
Receivable(o, d) ==
    /\ now < o.until
    /\ orders[d] = NoOrder
    /\ device[d] # NoDevice
    /\ device[d].state = "Ready"
    /\ o.until >= MomentAdd(now, device[d].wcd)

OrderReceived(o, d, op) ==
    LET dev == device[d] IN
    /\ Receivable(o, d)
    /\ \E st \in OnReceivedResults \ {"None"} :
        LET led1 == Reserve(led, d, dev.penalty)
            dev1 == [dev EXCEPT !.state = st]
            Install ==
                /\ orders' = [orders EXCEPT ![d] = o]
                /\ IF st = "Busy2" THEN OrderAccept(o, d, dev1)
                   ELSE /\ device' = [device EXCEPT ![d] = dev1]
                        /\ UNCHANGED outbox
        IN  IF ~IsLocal(o)
            THEN Install /\ UNCHANGED led /\ Record(op, d, TRUE)
            ELSE /\ CanReserve(led, o.client, o.fee)
                 /\ CanReserve(led, d, dev.penalty)
                 /\ \/ /\ CanReserve(led1, o.client, o.fee)
                       /\ led' = Reserve(led1, o.client, o.fee)
                       /\ Install
                       /\ Record(op, d, TRUE)
                    \/ /\ ~CanReserve(led1, o.client, o.fee)
                       /\ led' = led1
                       /\ UNCHANGED <<device, orders, outbox>>
                       /\ Record(op, d, FALSE)

(* order_reject (l.431-467) with the profile `dev` the caller prepared.  *)
(* The fee is unreserved before the penalty is repatriated, and the      *)
(* order is removed only after that succeeds.                             *)
OrderReject(o, d, dev, onoff, op) ==
    IF o = NoOrder
    THEN /\ orders' = orders
         /\ device' = [device EXCEPT ![d] = dev]
         /\ UNCHANGED <<led, outbox>> /\ Record(op, d, TRUE)
    ELSE IF ~IsLocal(o)
    THEN /\ CanSend(o.paraid)
         /\ outbox' = [outbox EXCEPT ![o.paraid] =
                Append(@, [kind |-> "OrderReject", client |-> o.client,
                           device |-> d, onoff |-> onoff, id |-> o.id, at |-> now])]
         /\ orders' = [orders EXCEPT ![d] = NoOrder]
         /\ device' = [device EXCEPT ![d] = dev]
         /\ UNCHANGED led /\ Record(op, d, TRUE)
    ELSE LET led1 == FeeRelease(led, o)
             r == PenaltyRelease(led1, o, d, dev.penalty)
         IN  /\ led' = r.led
             /\ IF r.ok
                THEN /\ orders' = [orders EXCEPT ![d] = NoOrder]
                     /\ device' = [OnKilledAccount(device, r.reaped) EXCEPT ![d] = dev]
                ELSE UNCHANGED <<orders, device>>
             /\ UNCHANGED outbox /\ Record(op, d, r.ok)

(* order_done (l.365-405).  The order was already taken by done() and    *)
(* the new profile is stored before any transfer or send, so every       *)
(* failure below leaves the order gone and the device Ready/Off.         *)
OrderDone(o, d, dev, onoff) ==
    LET dev1 == [device EXCEPT ![d] = [dev EXCEPT !.state = OnOff(onoff)]] IN
    /\ orders' = [orders EXCEPT ![d] = NoOrder]
    /\ IF IsLocal(o)
       THEN LET r1 == RepatriateReserved(led, o.client, d, o.fee)
                r2 == PenaltyRelease(r1.led, o, d, dev.penalty)
            IN  /\ led' = IF r1.ok THEN r2.led ELSE r1.led
                /\ device' = IF r1.ok
                             THEN OnKilledAccount(OnKilledAccount(dev1, r1.reaped), r2.reaped)
                             ELSE dev1
                /\ UNCHANGED outbox
                /\ Record("done", d, r1.ok /\ r2.ok)
       ELSE /\ device' = dev1
            /\ outbox' = IF CanSend(o.paraid)
                         THEN [outbox EXCEPT ![o.paraid] =
                                Append(@, [kind |-> "OrderDone", client |-> o.client,
                                           device |-> d, onoff |-> onoff,
                                           id |-> o.id, at |-> now])]
                         ELSE outbox
            /\ UNCHANGED led
            /\ Record("done", d, CanSend(o.paraid))

-----------------------------------------------------------------------------
(* Extrinsics.  A signed origin needs an existing account to pay for the *)
(* call; transaction fees themselves are not modelled.                  *)

\* order(origin, order) (l.185-202): an order from this chain.
PlaceOrder(c, d) ==
    /\ Alive(led, c)
    /\ \E until \in Times, fee \in Fees :
        OrderReceived([until |-> until, fee |-> fee, client |-> c,
                       paraid |-> SelfParaId, id |-> 0], d, "order")
    /\ UNCHANGED now

\* cancel(origin, device) (l.205-219): the client, after the deadline.
Cancel(c, d) ==
    /\ Alive(led, c)
    /\ orders[d] # NoOrder
    /\ now >= orders[d].until /\ orders[d].client = c
    /\ device[d] # NoDevice
    /\ OrderReject(orders[d], d, device[d], FALSE, "cancel")
    /\ UNCHANGED now

\* accept without its Overdue check.
AcceptOverdue(d) ==
    /\ Alive(led, d)
    /\ device[d] # NoDevice /\ device[d].state = "Busy"
    /\ orders[d] # NoOrder
    /\ OrderAccept(orders[d], d, device[d])
    /\ UNCHANGED <<now, led, orders>> /\ Record("accept", d, TRUE)

\* accept(origin, false, _) (l.241-251).
Accept(d) ==
    /\ Alive(led, d)
    /\ device[d] # NoDevice /\ device[d].state = "Busy"
    /\ orders[d] # NoOrder /\ now < orders[d].until
    /\ OrderAccept(orders[d], d, device[d])
    /\ UNCHANGED <<now, led, orders>> /\ Record("accept", d, TRUE)

\* accept(origin, true, onoff) (l.230-240): reject, with or without order.
Reject(d, onoff) ==
    /\ Alive(led, d)
    /\ device[d] # NoDevice /\ device[d].state \in {"Busy", "Busy2"}
    /\ OrderReject(orders[d], d, [device[d] EXCEPT !.state = OnOff(onoff)], onoff, "reject")
    /\ UNCHANGED now

\* done(origin, onoff) (l.255-268).
Done(d, onoff) ==
    /\ Alive(led, d)
    /\ device[d] # NoDevice /\ device[d].state = "Busy2"
    /\ orders[d] # NoOrder
    /\ OrderDone(orders[d], d, device[d], onoff)
    /\ UNCHANGED now

\* register(origin, penalty, wcd, onoff) (l.271-298): overwrites any profile.
Register(d) ==
    /\ Alive(led, d)
    /\ orders[d] = NoOrder
    /\ \E p \in Penalties, w \in Wcds, onoff \in BOOLEAN :
         device' = [device EXCEPT ![d] = [state |-> OnOff(onoff), penalty |-> p, wcd |-> w]]
    /\ UNCHANGED <<now, led, orders, outbox>> /\ Record("register", d, TRUE)

\* set_state(origin, onoff) (l.301-317): only Off <-> Ready, Ready -> Off.
SetState(d, onoff) ==
    /\ Alive(led, d)
    /\ device[d] # NoDevice
    /\ \/ ~onoff /\ device[d].state \in {"Ready", "Off"}
       \/ onoff /\ device[d].state = "Off"
    /\ device' = [device EXCEPT ![d].state = OnOff(onoff)]
    /\ UNCHANGED <<now, led, orders, outbox>> /\ Record("set_state", d, TRUE)

\* handle_blob_message (l.500-538) for a NewOrder m from client chain p;
\* the paraid is the sender.  An order_received error is logged and the
\* message dropped: refused before any write (a failed check, or the
\* policy returning None), it changes nothing.
FromNewOrder(p, m) ==
    [until |-> m.until, fee |-> m.fee, client |-> m.client, paraid |-> p, id |-> m.id]

HandleNewOrder(p, m) ==
    /\ \/ OrderReceived(FromNewOrder(p, m), m.device, "new_order")
       \/ /\ ~Receivable(FromNewOrder(p, m), m.device) \/ "None" \in OnReceivedResults
          /\ UNCHANGED <<led, device, orders, outbox, lastCall>>
    /\ UNCHANGED now

\* handle_blob_message for any blob m from p: one that does not decode is
\* logged and dropped (l.502-505).
HandleBlob(p, m) ==
    IF m.kind = "NewOrder" THEN HandleNewOrder(p, m)
    ELSE UNCHANGED <<now, led, device, orders, outbox, lastCall>>

-----------------------------------------------------------------------------
(* Environment: the block timestamp advances; the remote chain takes the *)
(* head of an HRMP queue; a remote client chain sends a NewOrder (only    *)
(* those it installs: a refused one changes nothing here).                *)
Tick ==
    /\ now < MaxTime
    /\ now' = now + 1
    /\ UNCHANGED <<led, device, orders, outbox, lastCall>>

DeliverOut(p) ==
    /\ outbox[p] # <<>>
    /\ outbox' = [outbox EXCEPT ![p] = Tail(@)]
    /\ UNCHANGED <<now, led, device, orders, lastCall>>

RemoteNewOrder ==
    \E p \in RemoteParas, m \in NewOrderMsg :
        OrderReceived(FromNewOrder(p, m), m.device, "new_order") /\ UNCHANGED now

Init ==
    /\ now = 0
    /\ led \in [Accounts -> [free : InitFree, reserved : {0}]]
    /\ device = [a \in Accounts |-> NoDevice]
    /\ orders = [a \in Accounts |-> NoOrder]
    /\ outbox = [p \in RemoteParas |-> <<>>]
    /\ lastCall = [op |-> "none", dev |-> NoDevice, ok |-> TRUE]

Next ==
    \/ \E c \in Clients, d \in Devices : PlaceOrder(c, d) \/ Cancel(c, d)
    \/ \E d \in Devices : Accept(d) \/ Register(d)
    \/ \E d \in Devices, onoff \in BOOLEAN : Reject(d, onoff) \/ Done(d, onoff) \/ SetState(d, onoff)
    \/ RemoteNewOrder
    \/ Tick
    \/ \E p \in RemoteParas : DeliverOut(p)

Spec == Init /\ [][Next]_vars

\* A device is engaged while its profile is Busy or Busy2.
Engaged(d) == device[d] # NoDevice /\ device[d].state \in {"Busy", "Busy2"}

\* accept(origin, true, true) on a device that cancel (l.216-218) left
\* engaged with no order: the only call of its own that frees it for
\* order_received (l.334) again, register aside.
Recover(d) == orders[d] = NoOrder /\ Reject(d, TRUE)

(***************************************************************************)
(* Fairness.  Blocks keep coming, so the timestamp advances; the client    *)
(* chain keeps taking its HRMP queue; a client whose order is past its     *)
(* deadline calls cancel, its only way to get its escrow back; a device    *)
(* engaged with no order calls accept(reject), its only way to take        *)
(* orders again.  Nobody is assumed to accept, reject or complete an       *)
(* order, or to place one.                                                 *)
(***************************************************************************)
Fairness ==
    /\ WF_vars(Tick)
    /\ \A p \in RemoteParas : WF_vars(DeliverOut(p))
    /\ \A c \in Clients, d \in Devices : WF_vars(Cancel(c, d))
    /\ \A d \in Devices : WF_vars(Recover(d))

FairSpec == Spec /\ Fairness

-----------------------------------------------------------------------------
(***************************************************************************)
(* Properties                                                             *)
(***************************************************************************)
TypeOK ==
    /\ now \in Times
    /\ led \in [Accounts -> [free : Nat, reserved : Nat]]
    /\ device \in [Accounts -> Profile \cup {NoDevice}]
    /\ orders \in [Accounts -> Order \cup {NoOrder}]
    /\ outbox \in [RemoteParas -> Seq(ReplyMsg)]
    /\ \A p \in RemoteParas : Len(outbox[p]) <= Capacity

\* An order is only ever held by a device that is Busy or Busy2: register,
\* set_state and the reaping hook can never overwrite or drop the profile
\* of a device while its order is outstanding.
OrderImpliesEngaged ==
    \A d \in Accounts :
        orders[d] # NoOrder => device[d] # NoDevice /\ device[d].state \in {"Busy", "Busy2"}

\* Spec section 3: a device is Busy or Busy2 only while it has an order.
\* cancel (l.216-218) removes the order and keeps the device state.
EngagedImpliesOrder ==
    \A d \in Accounts :
        device[d] # NoDevice /\ device[d].state \in {"Busy", "Busy2"} => orders[d] # NoOrder

LocalOrders == {d \in Accounts : orders[d] # NoOrder /\ IsLocal(orders[d])}

\* What account a must have reserved for the local orders outstanding now:
\* the penalty of its own device's order and the fee of each order it placed.
Obligation(a) ==
    MapThenSumSet(LAMBDA d : (IF d = a /\ device[d] # NoDevice THEN device[d].penalty ELSE 0)
                             + (IF orders[d].client = a THEN orders[d].fee ELSE 0),
                  LocalOrders)

\* The reserved balance of every account covers the escrow of all local
\* orders outstanding, although the currency pools reservations of one
\* account across orders and roles and resolution releases by amount.
EscrowCovered == \A a \in Accounts : led[a].reserved >= Obligation(a)

\* Spec section 3 (escrow symmetry): reserved balances are exactly the
\* escrow of the outstanding local orders, nothing is left reserved.
EscrowExact == \A a \in Accounts : led[a].reserved = Obligation(a)

\* Spec section 4.2 and 8.2/8.3: a successful done, reject or cancel of a
\* local order between distinct accounts removes it and moves, between the
\* two accounts' totals and nowhere else, the fee to the device only on
\* done and the penalty to the client exactly when now >= until.
SettlementRule ==
    [][\A d \in Devices :
         LET o == orders[d] IN
         (/\ lastCall'.ok /\ lastCall'.dev = d
          /\ lastCall'.op \in {"done", "reject", "cancel"}
          /\ o # NoOrder /\ IsLocal(o) /\ o.client # d)
         => LET pay == (IF lastCall'.op = "done" THEN o.fee ELSE 0)
                       - (IF now >= o.until THEN device[d].penalty ELSE 0)
            IN  /\ orders'[d] = NoOrder
                /\ Total(led', d) = Total(led, d) + pay
                /\ Total(led', o.client) = Total(led, o.client) - pay
                /\ \A a \in Accounts \ {d, o.client} : Total(led', a) = Total(led, a)]_vars

\* Spec section 7: a call that returns an error leaves the registry, the
\* orders and the ledger exactly as they were.
FailedCallHasNoEffect ==
    [][~lastCall'.ok => UNCHANGED <<led, device, orders>>]_vars

\* on_killed_account (l.470-480) drops the profile of a reaped device only
\* when it is Off (the `//Timewait` branch the client pallet has is
\* missing), and order_reject stores the new profile after the hook ran.
\* A device offered to clients is one whose account exists: a Ready profile
\* never belongs to a reaped account.
ReadyDeviceAlive ==
    \A d \in Devices : device[d] # NoDevice /\ device[d].state = "Ready" => Alive(led, d)

\* Spec section 4.4: an operation whose required send fails is rejected as a
\* whole.  order_accept (l.407-429) maps the send error and drops it, so
\* accept, or order_received under an auto-accept policy, can make a device
\* Busy2 on a remote order without OrderAccept being queued for its client.
\* Every step that makes a device Busy2 on a remote order queues that reply.
AcceptAnnounced ==
    [][\A d \in Devices :
         (/\ device'[d] # NoDevice /\ device'[d].state = "Busy2"
          /\ (device[d] = NoDevice \/ device[d].state # "Busy2")
          /\ orders'[d] # NoOrder /\ ~IsLocal(orders'[d]))
         => outbox'[orders'[d].paraid] =
                Append(outbox[orders'[d].paraid],
                       [kind |-> "OrderAccept", client |-> orders'[d].client,
                        device |-> d, id |-> orders'[d].id, at |-> now])]_vars

\* No device stays blocked.  A device engaged on a local order, or on none
\* after cancel kept its state (l.216-218), is eventually neither Busy nor
\* Busy2 again, unless its account is gone: the client's cancel must
\* become possible at the deadline and succeed, which needs the client
\* alive and the escrow still reserved, and the device must be able to
\* reject with no order.  A remote order is left out: only its client
\* chain's client cancels it.
DeviceEventuallyFree ==
    \A d \in Devices :
        (Engaged(d) /\ (orders[d] = NoOrder \/ IsLocal(orders[d])))
            ~> (~Engaged(d) \/ ~Alive(led, d))

\* Spec section 8.4: an order whose deadline is before now plus the device's
\* work circle duration always fails BadOrderDetails (l.338-340).  Every
\* step that installs an order leaves the device at least its wcd.
LeadTimeRespected ==
    [][\A d \in Devices :
         orders[d] = NoOrder /\ orders'[d] # NoOrder
         => orders'[d].until >= now + device[d].wcd]_vars

\* The refinement mapping to OrderLifecycle: a device's abstract order is
\* its stored order with the penalty of its profile, and it is accepted
\* while the device is Busy2 with that order.
AbstractOrder(d) ==
    IF orders[d] = NoOrder \/ device[d] = NoDevice THEN NoOrder
    ELSE [client |-> orders[d].client, fee |-> orders[d].fee,
          until |-> orders[d].until, pen |-> device[d].penalty]

Lifecycle == INSTANCE OrderLifecycle WITH
    order <- [d \in Devices |-> AbstractOrder(d)],
    accepted <- [d \in Devices |-> AbstractOrder(d) # NoOrder /\ device[d].state = "Busy2"],
    None <- NoOrder

\* The pallet implements the order lifecycle: order_received opens an order
\* only on a free device before its deadline, accept (l.241-251) accepts it
\* only before the deadline, done (l.255-268) completes only an accepted
\* order, accept(reject) and cancel withdraw it, and no call (register,
\* set_state, the reaping hook, a failed resolution) alters an outstanding
\* order, its penalty or its acceptance.
ImplementsLifecycle == Lifecycle!Spec

=============================================================================
