------------------------------- MODULE Client -------------------------------
(***************************************************************************)
(* The client pallet (src/pallets/client/src/lib.rs): the chain where     *)
(* clients live.  It keeps a mirror DeviceProfile per device account (the  *)
(* device registers it here, naming the para id of its service chain) and *)
(* at most one Order per device.  `order` escrows the client's fee AND the *)
(* device's penalty on this chain and sends NewOrder to the device's       *)
(* chain; OrderReject and OrderDone from that chain settle the escrow,     *)
(* judged by this chain's clock when the message arrives.                  *)
(*                                                                         *)
(* As in Service, dispatch is not transactional: a call that fails after a *)
(* write keeps the write.  Handlers of inbound messages ignore their       *)
(* result, so a message whose handler fails is simply consumed.            *)
(***************************************************************************)
EXTENDS Integers, Sequences, Balances, Common

CONSTANTS
    ServiceParas,   \* para ids a device may register its mirror with
    Penalties,      \* penalty values offered to register
    Wcds,           \* work circle durations offered to register
    Capacity,       \* HRMP queue capacity towards a service chain
    InitFree,       \* free balances an account may start with
    MaxOrders       \* bound on the number of orders placed (ghost ids 1..MaxOrders)

ASSUME /\ Devices \subseteq Accounts /\ Clients \subseteq Accounts
       /\ 1..MaxOrders \subseteq OrderIds

VARIABLES
    now,        \* pallet_timestamp::Now of this chain
    led,        \* the currency ledger of this chain
    device,     \* Device storage map: account -> mirror DeviceProfile
    orders,     \* Orders storage map: device account -> Order
    outbox,     \* HRMP queues to service chains: para -> Seq(message)
    nextId      \* ghost: the number of orders placed so far

vars == <<now, led, device, orders, outbox, nextId>>

\* DeviceProfile (l.42-53): the mirror also names the device's chain.
Profile == [state : States, penalty : Penalties, wcd : Wcds, paraid : ServiceParas]

\* Order as stored by `order` (l.193-197); its paraid is 0 and never read.
COrder == [until : Times, fee : Fees, client : Clients, id : OrderIds]

(***************************************************************************)
(* Variants of definitions below, each with a slip a programmer could     *)
(* make in the corresponding code, for mutation checks.                   *)
(***************************************************************************)
CanSendIgnoringCapacity(p) == TRUE

\* send_blob_message fails when the HRMP queue is full.
CanSend(p) == Len(outbox[p]) < Capacity

\* OnKilledAccount::on_killed_account (l.342-355): an Off mirror is
\* removed, any other becomes Timewait.
OnKilledAccount(dev, reaped) ==
    [a \in DOMAIN dev |->
        IF a \in reaped /\ dev[a] # NoDevice
        THEN IF dev[a].state = "Off" THEN NoDevice
             ELSE [dev[a] EXCEPT !.state = "Timewait"]
        ELSE dev[a]]

(* order_reject (l.319-339): `who`'s fee is unreserved, then the device's *)
(* penalty is given back before the deadline or repatriated to the       *)
(* order's client from it on.  If that fails the fee stays unreserved     *)
(* and the order stays.  `dev` is the profile to store.                   *)
OrderReject(who, o, d, dev) ==
    LET led1 == Unreserve(led, who, o.fee)
        r    == IF now < o.until
                THEN [ok |-> TRUE, led |-> Unreserve(led1, d, dev.penalty), reaped |-> {}]
                ELSE RepatriateReserved(led1, d, o.client, dev.penalty)
    IN  /\ led' = r.led
        /\ IF r.ok
           THEN /\ orders' = [orders EXCEPT ![d] = NoOrder]
                /\ device' = [OnKilledAccount(device, r.reaped) EXCEPT ![d] = dev]
           ELSE UNCHANGED <<orders, device>>

-----------------------------------------------------------------------------
(* Extrinsics.  A signed origin needs an existing account.               *)

\* The NewOrder sent for the stored order o: OrderBase::convert(who) made o
\* (with para id 0, never read on this chain), Order::convert(device) turns
\* it back into the OrderBase the message carries (common l.45-85).
NewOrderOf(o, d) ==
    [kind |-> "NewOrder", client |-> o.client, device |-> d,
     until |-> o.until, fee |-> o.fee, id |-> o.id]

(* order(origin, order) (l.161-216).  The checks write nothing.  The      *)
(* device's penalty is reserved before the client's fee (a self-order can *)
(* fail between them).  The order is stored before the send; a failed     *)
(* send returns CannotReachDestination after that, leaving the order and  *)
(* both reservations in place and the mirror Ready.                       *)
PlaceOrder(c, d) ==
    /\ Alive(led, c)
    /\ nextId < MaxOrders
    /\ \E until \in Times, fee \in Fees :
        LET dev  == device[d]
            o    == [until |-> until, fee |-> fee, client |-> c, id |-> nextId + 1]
            led1 == Reserve(led, d, dev.penalty)
        IN  /\ now < until
            /\ orders[d] = NoOrder
            /\ dev # NoDevice
            /\ dev.state = "Ready"
            /\ until >= MomentAdd(now, dev.wcd)
            /\ CanReserve(led, c, fee)
            /\ CanReserve(led, d, dev.penalty)
            /\ \/ /\ ~CanReserve(led1, c, fee)
                  /\ led' = led1
                  /\ UNCHANGED <<device, orders, outbox, nextId>>
               \/ /\ CanReserve(led1, c, fee)
                  /\ led' = Reserve(led1, c, fee)
                  /\ orders' = [orders EXCEPT ![d] = o]
                  /\ nextId' = nextId + 1
                  /\ IF CanSend(dev.paraid)
                     THEN /\ outbox' = [outbox EXCEPT ![dev.paraid] = Append(@, NewOrderOf(o, d))]
                          /\ device' = [device EXCEPT ![d].state = "Busy"]
                     ELSE UNCHANGED <<outbox, device>>
    /\ UNCHANGED now

\* cancel(origin, device) (l.218-233): the client, after the deadline; the
\* mirror's state is kept.  Nothing is sent to the service chain.
Cancel(c, d) ==
    /\ Alive(led, c)
    /\ orders[d] # NoOrder
    /\ now >= orders[d].until /\ orders[d].client = c
    /\ device[d] # NoDevice
    /\ OrderReject(c, orders[d], d, device[d])
    /\ UNCHANGED <<now, outbox, nextId>>

\* The para id `test` sends its blob to.
TestPara == 200

\* test(origin) (l.150-158): any origin, even unsigned; a blob that does not
\* decode goes to para 200.  Without an open channel or with a full queue
\* the send fails and nothing is written.
Test ==
    /\ TestPara \in ServiceParas
    /\ CanSend(TestPara)
    /\ outbox' = [outbox EXCEPT ![TestPara] = Append(@, [kind |-> "Undecodable"])]
    /\ UNCHANGED <<now, led, device, orders, nextId>>

\* register(origin, paraid, penalty, wcd, onoff) (l.235-266).
Register(d) ==
    /\ Alive(led, d)
    /\ orders[d] = NoOrder
    /\ \E p \in ServiceParas, pen \in Penalties, w \in Wcds, onoff \in BOOLEAN :
         device' = [device EXCEPT ![d] = [state |-> OnOff(onoff), penalty |-> pen,
                                          wcd |-> w, paraid |-> p]]
    /\ UNCHANGED <<now, led, orders, outbox, nextId>>

-----------------------------------------------------------------------------
(* Inbound messages, dispatched by handle_blob_message (l.375-398).  The  *)
(* message names the order only by its device; its client is taken as     *)
(* the caller (the code's TODO: order.client == who is never checked).    *)

\* on_reject (l.277-291): NoOrder or NoDevice fail before any write.
OnReject(m) ==
    LET d == m.device IN
    IF orders[d] = NoOrder \/ device[d] = NoDevice
    THEN UNCHANGED <<led, device, orders>>
    ELSE OrderReject(m.client, orders[d], d, [device[d] EXCEPT !.state = OnOff(m.onoff)])

\* on_done storing the new profile before the transfers instead of after.
OnDoneProfileFirst(m) ==
    LET d   == m.device
        o   == orders[d]
        r1  == RepatriateReserved(led, m.client, d, o.fee)
        r2  == IF now < o.until
               THEN [ok |-> TRUE, led |-> Unreserve(r1.led, d, device[d].penalty), reaped |-> {}]
               ELSE RepatriateReserved(r1.led, d, m.client, device[d].penalty)
        dev0 == [device EXCEPT ![d] = [device[d] EXCEPT !.state = OnOff(m.onoff)]]
    IN  IF o = NoOrder \/ device[d] = NoDevice
        THEN UNCHANGED <<led, device, orders>>
        ELSE IF ~r1.ok
        THEN /\ device' = dev0 /\ UNCHANGED <<led, orders>>
        ELSE /\ led' = r2.led
             /\ device' = OnKilledAccount(OnKilledAccount(dev0, r1.reaped), r2.reaped)
             /\ orders' = IF r2.ok THEN [orders EXCEPT ![d] = NoOrder] ELSE orders

(* on_done (l.293-317): the fee goes from the message's client to the     *)
(* device, then the penalty is given back or forfeited to that client.    *)
(* A failure of the first transfer writes nothing; a failure of the       *)
(* second keeps the first and leaves the order in place.                  *)
OnDone(m) ==
    LET d   == m.device
        o   == orders[d]
        r1  == RepatriateReserved(led, m.client, d, o.fee)
        r2  == IF now < o.until
               THEN [ok |-> TRUE, led |-> Unreserve(r1.led, d, device[d].penalty), reaped |-> {}]
               ELSE RepatriateReserved(r1.led, d, m.client, device[d].penalty)
        dev1 == OnKilledAccount(device, r1.reaped)
    IN  IF o = NoOrder \/ device[d] = NoDevice \/ ~r1.ok
        THEN UNCHANGED <<led, device, orders>>
        ELSE /\ led' = r2.led
             /\ IF r2.ok
                THEN /\ orders' = [orders EXCEPT ![d] = NoOrder]
                     /\ device' = [OnKilledAccount(dev1, r2.reaped) EXCEPT
                                      ![d] = [device[d] EXCEPT !.state = OnOff(m.onoff)]]
                ELSE /\ orders' = orders
                     /\ device' = dev1

\* on_accept (l.271-275): it reads no order and only emits an event.
OnAccept == UNCHANGED <<led, device, orders>>

\* handle_blob_message for an OrderAccept, OrderReject or OrderDone.
HandleReply(m) ==
    /\ CASE m.kind = "OrderAccept" -> OnAccept
         [] m.kind = "OrderReject" -> OnReject(m)
         [] m.kind = "OrderDone"   -> OnDone(m)
    /\ UNCHANGED <<now, outbox, nextId>>

-----------------------------------------------------------------------------
(* Environment: the clock; a service chain takes the head of a queue and  *)
(* answers with any reply.  XChain replaces it by a real service chain.    *)
Tick ==
    /\ now < MaxTime
    /\ now' = now + 1
    /\ UNCHANGED <<led, device, orders, outbox, nextId>>

DeliverOut(p) ==
    /\ outbox[p] # <<>>
    /\ outbox' = [outbox EXCEPT ![p] = Tail(@)]
    /\ UNCHANGED <<now, led, device, orders, nextId>>

Init ==
    /\ now = 0
    /\ led \in [Accounts -> [free : InitFree, reserved : {0}]]
    /\ device = [a \in Accounts |-> NoDevice]
    /\ orders = [a \in Accounts |-> NoOrder]
    /\ outbox = [p \in ServiceParas |-> <<>>]
    /\ nextId = 0

Next ==
    \/ \E c \in Clients, d \in Devices : PlaceOrder(c, d) \/ Cancel(c, d)
    \/ \E d \in Devices : Register(d)
    \/ Test
    \/ \E m \in ReplyMsg : HandleReply(m)
    \/ Tick
    \/ \E p \in ServiceParas : DeliverOut(p)

Spec == Init /\ [][Next]_vars

TypeOK ==
    /\ now \in Times
    /\ led \in [Accounts -> [free : Nat, reserved : Nat]]
    /\ device \in [Accounts -> Profile \cup {NoDevice}]
    /\ orders \in [Accounts -> COrder \cup {NoOrder}]
    /\ outbox \in [ServiceParas -> Seq(NewOrderMsg \cup UndecodableMsg)]
    /\ \A p \in ServiceParas : Len(outbox[p]) <= Capacity
    /\ nextId \in 0..MaxOrders

=============================================================================
