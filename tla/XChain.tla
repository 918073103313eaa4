------------------------------- MODULE XChain -------------------------------
(***************************************************************************)
(* A service chain and a client chain connected by HRMP.  Clients order   *)
(* on the client chain (Client), which sends NewOrder to the service chain *)
(* (Service); the device answers there, which sends OrderAccept,           *)
(* OrderReject and OrderDone back.  Each direction is one FIFO queue with  *)
(* a capacity (ServiceQuality::Ordered); a send to a full queue fails at   *)
(* the sender, a sent message is delivered in order and not lost.          *)
(*                                                                         *)
(* Both chains stamp their blocks with wall-clock time, so one clock `now` *)
(* serves both; what separates the two chains' views of a deadline is the  *)
(* delay of the messages.  Orders placed on the service chain itself are  *)
(* left out here (Service checks them): this module is about the orders    *)
(* that cross.                                                             *)
(***************************************************************************)
EXTENDS Integers, Sequences, Functions, FiniteSetsExt

CONSTANTS
    Accounts, ED, Devices, Clients, Penalties, Wcds, Fees, MaxTime, MomentMax,
    Capacity, OnReceivedResults, InitFree, MaxOrders, NoDevice, NoOrder,
    ServicePara,    \* para id of the service chain
    ClientPara      \* para id of the client chain

VARIABLES
    now,
    sled, sdevice, sorders, slastCall,  \* service chain storage
    cled, cdevice, corders, nextId,     \* client chain storage
    toService,      \* client chain's HRMP queue: [{ServicePara} -> Seq(message)]
    toClient        \* service chain's HRMP queue: [{ClientPara} -> Seq(reply)]

svars == <<sled, sdevice, sorders, slastCall, toClient>>
cvars == <<cled, cdevice, corders, nextId, toService>>
vars == <<now, svars, cvars>>

S == INSTANCE Service WITH led <- sled, device <- sdevice, orders <- sorders,
        outbox <- toClient, lastCall <- slastCall, SelfParaId <- ServicePara,
        RemoteParas <- {ClientPara}, OrderIds <- 0..MaxOrders

C == INSTANCE Client WITH led <- cled, device <- cdevice, orders <- corders,
        outbox <- toService, ServiceParas <- {ServicePara}, OrderIds <- 0..MaxOrders

-----------------------------------------------------------------------------
\* A signed call on the service chain (no orders are placed there).
ServiceCall ==
    /\ \/ \E c \in Clients, d \in Devices : S!Cancel(c, d)
       \/ \E d \in Devices : S!Accept(d) \/ S!Register(d)
       \/ \E d \in Devices, onoff \in BOOLEAN :
            S!Reject(d, onoff) \/ S!Done(d, onoff) \/ S!SetState(d, onoff)
    /\ UNCHANGED cvars

\* A signed call on the client chain.
ClientCall ==
    /\ \/ \E c \in Clients, d \in Devices : C!PlaceOrder(c, d) \/ C!Cancel(c, d)
       \/ \E d \in Devices : C!Register(d)
       \/ C!Test
    /\ UNCHANGED svars

\* The service chain takes the head of the client chain's queue.
DeliverToService ==
    /\ toService[ServicePara] # <<>>
    /\ toService' = [toService EXCEPT ![ServicePara] = Tail(@)]
    /\ S!HandleBlob(ClientPara, Head(toService[ServicePara]))
    /\ UNCHANGED <<cled, cdevice, corders, nextId>>

\* The client chain takes the head of the service chain's queue.
DeliverToClient ==
    /\ toClient[ClientPara] # <<>>
    /\ toClient' = [toClient EXCEPT ![ClientPara] = Tail(@)]
    /\ C!HandleReply(Head(toClient[ClientPara]))
    /\ UNCHANGED <<sled, sdevice, sorders, slastCall>>

Tick ==
    /\ now < MaxTime
    /\ now' = now + 1
    /\ UNCHANGED <<svars, cvars>>

Init == S!Init /\ C!Init

Next ==
    \/ ServiceCall
    \/ ClientCall
    \/ DeliverToService
    \/ DeliverToClient
    \/ Tick

Spec == Init /\ [][Next]_vars

-----------------------------------------------------------------------------
TypeOK == S!TypeOK /\ C!TypeOK

\* The reply at the head of the service chain's queue is being taken.
Delivering(m) ==
    /\ toClient[ClientPara] # <<>>
    /\ m = Head(toClient[ClientPara])
    /\ toClient'[ClientPara] = Tail(toClient[ClientPara])

\* Spec section 4.3: a reply is about the order it answers.  When an
\* OrderReject or OrderDone settles an order on the client chain (on_reject,
\* on_done look it up by device only), that order is the one the device
\* resolved on the service chain.
ReplySettlesItsOrder ==
    [][\A m \in S!ReplyMsg :
         (Delivering(m) /\ corders[m.device] # NoOrder /\ corders'[m.device] = NoOrder)
         => corders[m.device].id = m.id]_vars

\* Replies about order i the service chain has sent and the client chain
\* has not yet taken.
InFlight(i) ==
    {r \in Range(toClient[ClientPara]) : r.id = i /\ r.kind # "OrderAccept"}

\* Spec section 5 (punctuality) and section 4 ("never assume a notification
\* arrives before a timeout elapses"): the client chain forfeits the penalty
\* of an order only when the device did not resolve it before the deadline.
\* on_reject, on_done and cancel judge by the client chain's clock when
\* they run, whatever the service chain sent and when.
PunctualityAcrossChains ==
    [][\A d \in Devices :
         LET o == corders[d] IN
         (/\ o # NoOrder /\ corders'[d] = NoOrder
          /\ \E r \in InFlight(o.id) : r.at < o.until)
         => now < o.until]_vars

\* Spec section 3: a cross-domain resolution sends a resolution message to
\* the client's domain, and section 8.5: an operation whose send fails is
\* rolled back.  A service-chain step that removes an order therefore
\* leaves an OrderReject or OrderDone for it on the queue to the client
\* chain.  done takes the order (l.264) and order_done stores the new
\* profile (l.380) before its send can fail (l.394-399).
ResolutionReported ==
    [][\A d \in Devices :
         sorders[d] # NoOrder /\ sorders'[d] = NoOrder
         => \E r \in Range(toClient'[ClientPara]) :
              r.id = sorders[d].id /\ r.kind \in {"OrderReject", "OrderDone"}]_vars

\* On the client chain an order always has a mirror profile that is not
\* Off, so its client can still cancel it and a reply can still settle it:
\* register, the reaping hook and a half-done on_done or on_reject never
\* drop or switch off the mirror of a device with an outstanding order.
ClientOrderImpliesMirror ==
    \A d \in Devices :
        corders[d] # NoOrder => cdevice[d] # NoDevice /\ cdevice[d].state # "Off"

\* What account a must hold reserved on the client chain: the fee of each
\* outstanding order it placed and the penalty of its own device's order.
ClientObligation(a) ==
    MapThenSumSet(LAMBDA d : (IF d = a THEN cdevice[d].penalty ELSE 0)
                             + (IF corders[d].client = a THEN corders[d].fee ELSE 0),
                  {d \in Devices : corders[d] # NoOrder})

\* The client chain's reservations cover the escrow of its outstanding
\* orders.  on_done and on_reject (l.277-317) take the fee from the client
\* the message names, which the code never compares with the order's
\* client (the TODO at l.280/295), out of a reserve that account pools
\* across all its orders.
ClientEscrowCovered == \A a \in Accounts : cled[a].reserved >= ClientObligation(a)

\* Every order on the client chain is eventually settled, if HRMP delivers,
\* time passes and each client cancels an overdue order whenever it can
\* (cancel after the deadline is the client's way to recover its escrow).
ClientOrderSettles == \A d \in Devices : corders[d] # NoOrder ~> corders[d] = NoOrder

\* The client pallet's on_killed_account (l.342-355) turns the mirror of a
\* reaped device into Timewait so that no client orders from it; but
\* on_done and order_reject store the new mirror after the transfer that
\* reaped the account.  A mirror offered to clients is one whose device
\* account exists: a Ready mirror never belongs to a reaped account.
ClientReadyMirrorAlive ==
    \A d \in Devices : cdevice[d] # NoDevice /\ cdevice[d].state = "Ready" => C!Alive(cled, d)

Fairness ==
    /\ WF_vars(DeliverToService) /\ WF_vars(DeliverToClient) /\ WF_vars(Tick)
    /\ \A c \in Clients, d \in Devices : WF_vars(C!Cancel(c, d) /\ UNCHANGED svars)

FairSpec == Spec /\ Fairness

=============================================================================
