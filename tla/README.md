# TLA+ models of xcm-robobank-prototype

The models cover the device-leasing protocol in `src/pallets`. A client orders
exclusive use of a device and escrows a fee. The device escrows a penalty. The
order is resolved by `done`, by a reject, or by a client `cancel` after the
deadline. Client and device may be on one parachain or on two parachains that
talk over HRMP (XCMP blob messages).

## Inventory

### Components

| Component | Source | State | Operations |
|---|---|---|---|
| Service pallet (the device's chain) | `src/pallets/service/src/lib.rs` | `Device: account -> DeviceProfile{state, penalty, wcd}`, `Orders: device -> Order{until, data, fee, client, paraid}` | extrinsics `order`, `cancel`, `accept(reject, onoff)`, `done(onoff)`, `register(penalty, wcd, onoff)`, `set_state(onoff)`; helpers `order_received`, `order_accept`, `order_reject`, `order_done`; hook `on_killed_account`; HRMP handler `handle_blob_message` (NewOrder only) |
| Client pallet (the client's chain) | `src/pallets/client/src/lib.rs` | a mirror `Device: account -> {state, penalty, wcd, paraid}` and `Orders` | `order` (reserve, store, send NewOrder), `cancel`, `register(paraid, ...)`; handler for OrderAccept / OrderReject / OrderDone (`on_accept`, `on_reject`, `on_done`); `on_killed_account` (Off is removed, anything else becomes Timewait); a `test` send |
| Common types | `src/pallets/common/src/lib.rs` | `DeviceState {Off, Ready, Busy, Busy2, Timewait}`, `OrderBase`, `Order`, `XCMPMessage {NewOrder, OrderAccept, OrderReject, OrderDone}` | SCALE encode/decode |
| Currency (external) | pallet_balances | free and reserved balance per account | `can_reserve`, `reserve`, `unreserve`, `repatriate_reserved`; accounts below the existential deposit are reaped and `OnKilledAccount` runs |
| Clock (external) | pallet_timestamp | `now` per chain | advances each block |
| HRMP channel (external) | cumulus | one FIFO queue per destination | `send_blob_message` fails synchronously when the channel is missing or full |
| Node, keytool | `src/node`, `src/keytool` | none | CLI only |

`Busy2` is the spec's "Accepted" and `Timewait` is the spec's "Abandoned".

### How they interact

- On one chain, the service pallet calls the currency to escrow and settle.
  It reads the timestamp for the deadline rules.
- Across chains, the client pallet reserves the fee and the device's penalty
  on the client chain. It stores the order and sends `NewOrder`. The service
  pallet runs `order_received` for that message with `paraid` set to the
  sender, and reserves nothing. `order_accept`, `order_reject` and
  `order_done` then send `OrderAccept`, `OrderReject` and `OrderDone` back.
  The client chain settles its escrow when each message arrives, using its
  own clock.
- Dispatch is not transactional in the FRAME release these pallets use. An
  extrinsic that returns an error keeps every write made before the error.

### What is hard

- Partial failure: the writes before a `?` stay. This affects the two
  reserves in `order_received`, the fee and penalty transfers in `done`, and
  every HRMP send. The sends handle errors three ways: propagate after the
  writes, propagate before them, or ignore the error.
- Reaping: `repatriate_reserved` can kill the account it takes from. The
  hook then runs in the middle of a handler. A later transfer to a killed
  account fails with `DeadAccount`.
- Deadlines: `now < until` decides acceptance, the penalty refund and
  whether a cancel is allowed. Across chains, each chain has its own clock
  and messages take time.
- Messages name an order only by `(client, device)`. A late message can
  apply to a newer order.
- The currency pools reservations per account. One account can be a device
  and a client at once, so releases by amount can take from another order's
  escrow.

### What makes each component correct

- Registry and order ledger: an order exists only on a Busy or Busy2 device,
  and the spec says this holds both ways. Reserved balances cover the escrow
  of outstanding orders, and the spec says they equal it exactly. A
  resolution moves the fee only on `done` and forfeits the penalty exactly
  from the deadline on. A failed call changes nothing.
- Cross-chain: both chains agree on each order's outcome. Every order on the
  client chain is eventually resolved. A message is applied only to the order
  it was sent for.

## Plan

Modules, in order of importance:

1. `Balances`: operators for the reservable currency. Done.
2. `Service` and `MC_Service`: the service pallet on one chain, with local
   orders, NewOrder messages injected by the environment, and an outbound
   HRMP queue drained by the environment. Done.
3. `Common`: the device states and the XCMP message types both pallets
   use. Done.
4. `Client`: the client pallet on its chain. Its outbox carries NewOrder and
   its handlers take OrderAccept, OrderReject and OrderDone. Done.
5. `XChain` and `MC_XChain`: one Service instance and one Client instance,
   each with its own ledger, one wall clock, and one FIFO per direction with
   a capacity. Done: a reply settles only the order it was sent for, the
   penalty follows when the device resolved, and every client-chain order
   is eventually settled. All three fail. The invariants of each chain hold
   under the composition. A property that the two chains agree on each
   order's outcome is not stated on its own: the failing properties are
   the ways they disagree. `ResolutionReported` is the plainest of them:
   a completion the service chain has recorded can go unreported.
6. `OrderLifecycle`: an abstract specification of each device's order.
   `Service` implements it under a mapping in which "accepted" means
   "Busy2 with an order", because `cancel` leaves devices engaged with no
   order. Done. Inside `XChain` the service chain is the same `Service`
   over a subset of its environment, so the refinement is checked once,
   in `MC_Service`.
7. A run with ED = 2 for escrow below the existential deposit, and runs for
   the reaping hook: a reaped device left Ready, on each chain. Done. The
   ED = 2 configuration is kept outside the run list (see "Further
   configurations").
8. `Codec`: the derived SCALE codec of `XCMPMessage`, byte by byte, checked
   against a reference decoder. The codec is parity-scale-codec's derive,
   library code rather than this repository's, so the check is kept beside
   the runs (see "Further configurations").
9. Larger cross-chain instances: two devices, two clients and four
   accounts for the client chain's escrow. Done. Two devices for the
   passing cross-chain invariants is not checked. That state space did not
   finish within ten minutes, even with one order per client chain. The
   one-device run covers every action of both chains.
10. Liveness on the service chain: no device stays blocked. Not a run:
    what frees a device is a call of its own (see "Fairness").

## Modules

### `Balances`

This module is the currency contract the pallets rely on. Spec section 6
gives the calls. pallet_balances gives the details: `unreserve` and
`repatriate_reserved` move at most what is reserved. `repatriate_reserved`
to the account itself is an `unreserve`. A transfer to an account that does
not exist fails. An account whose total falls below `ED` is reaped.
Operators that may fail return `[ok, led, reaped]`.

### `Service`

This module models `src/pallets/service/src/lib.rs` on one chain.

- Variables: `now`, `led` (the ledger), `device`, `orders`, `outbox` (one
  queue per remote para id) and `lastCall`. `lastCall` records
  `[op, dev, ok]`, the dispatch result of the last call that wrote
  something.
- One action per extrinsic: `PlaceOrder`, `Cancel`, `Accept`, `Reject`
  (which is `accept(true, onoff)`), `Done`, `Register` and `SetState`.
  `HandleNewOrder` is the NewOrder branch of `handle_blob_message`.
  `HandleBlob` is the whole handler: it drops a blob that does not decode.
- The helpers `OrderReceived`, `OrderAccept`, `OrderReject` and `OrderDone`
  follow the code's order of writes. A failure after a write is its own
  disjunct with `ok = FALSE`. A failure before any write is a stuttering
  step and is omitted.
- `OnKilledAccount` runs for each account reaped inside a transfer, at the
  point in the handler where the code reaps it.
- `OnReceivedResults` is the pluggable `T::OnReceived` policy. Its values
  are `Busy` (the default) or `Busy2` (auto-accept).
- A signed call needs an account that exists. Transaction fees are not
  modelled.
- Environment actions: `Tick`, `DeliverOut` (the remote chain takes a
  message) and `RemoteNewOrder`. `RemoteNewOrder` only takes the NewOrder
  messages that install an order, because a refused one changes nothing on
  this chain. `HandleNewOrder`, which `XChain` uses, also consumes refused
  messages.
- `Engaged(d)` is the `Busy | Busy2` test of `accept(true, _)`.
  `Recover(d)` is that call on a device with no order, the way out of the
  state `cancel` leaves behind. `FairSpec` adds the fairness described
  under "Fairness"; only `MC_Service_live.cfg`, beside the runs, uses it.
- `lastCall` keeps the operation and device only for `done`, `reject` and
  `cancel`, the calls `SettlementRule` is about. Every other call is
  recorded as `other`. This keeps the state space small.

`MC_Service` bounds the model:

- two accounts, each both a device and a client, under symmetry;
- penalty 1, fee 1, wcd 1 or 2, time 0..2 (wcd 2 lets an order fail
  `BadOrderDetails`; wcd 1 never does, since `now < until` already gives
  `until >= now + 1`);
- initial free balance 1 or 2, with `ED = 1`;
- one remote para, HRMP capacity 1.

These bounds are enough to reach every case that matters:

- self-orders;
- a client whose balance is exactly the fee;
- a device that is also a client of the other device;
- a full outbound queue;
- resolutions before, at and after the deadline;
- both policy outcomes.

Every account starts with a balance, because an account without one cannot
sign. With that start the model never deadlocks.

`MC_Service_ed.cfg` uses three accounts: devices `a1` and `a2` and a
client `c1`. It sets `ED = 2`, the smallest deposit at which a reserve of
1 can be reaped with its account. The mock runtime uses 500.
`MC_Service_lifecycle.cfg` uses only wcd 1 to keep the refinement run
short. The second wcd only adds refused orders, which are abstract
stuttering steps.

### `OrderLifecycle`

This module is the abstract specification of what the service pallet
promises about each device's order. Its variables are `now`, `order` (the
outstanding order with its client, fee, deadline and penalty) and
`accepted`. Its actions:

- `Open`: before the deadline, possibly accepted at once;
- `Accept`: before the deadline;
- `Complete`: only an accepted order;
- `Withdraw`: a reject or a cancel;
- `Tick`.

`Service!ImplementsLifecycle` checks `Service` against it under this
mapping:

- the abstract order is the stored order together with the profile's
  penalty;
- `accepted` means the device is Busy2 and holds that order.

The mapping can only say that much. `cancel` leaves a device Busy2 with
no order, so the device state alone cannot stand for acceptance.

### `Codec`

This module models the SCALE codec that `#[derive(Encode, Decode)]` gives
`XCMPMessage` and `OrderBase`, with the types both pallets plug in. The
derive belongs to parity-scale-codec, not to this repository, so no run
checks the module and "map" does not count it (see "Further
configurations"):

- the variant is one byte;
- AccountId32, `Balance` (u128) and `Moment` (u64) are fixed-width fields,
  and the numbers are little-endian;
- bool is one byte, 0 or 1, and any other byte is an error;
- `OrderPayload = Vec<u8>` is a compact length followed by the bytes.

`Decode` reads a variant and its fields with the recursive `DecodeFields`.
Like the code's `decode`, it leaves trailing bytes unread. `DecodeRef` is
the reference: a blob decodes to the message whose encoding it starts with,
over every message that fits.

The state is the blob the channel delivers. It is built byte by byte and
handed over.

`MC_Codec` bounds the model:

- fields one byte wide;
- blobs of up to 7 bytes over {0, 1, 2, 4}. The variants NewOrder,
  OrderAccept and OrderReject occur, and so do a variant byte out of range,
  a payload of length 0 or 1, the two- and four-byte compact modes, a bool
  byte that is neither 0 nor 1, and blobs cut short like test's
  `<<0x00, 0x20>>`. OrderDone has the same fields as OrderReject;
- `MaxBlob < 64`, so a length in a multi-byte compact mode never fits in
  the blob, and the decoder may fail it outright.

### `Common`

This module holds the types of `src/pallets/common/src/lib.rs`: the device
states and the NewOrder and reply messages. Orders and messages carry two
ghost fields, which are history and appear in no guard:

- `id`: the number the client chain gave the order, or 0 for an order
  placed on the service chain;
- `at`: the service-chain time a reply was sent.

With these fields a property can name the order a message is about, which
the code cannot.

`MomentAdd` is `+` on `T::Moment`, a u64 that wraps in the release
runtime. Its width is the constant `MomentMax`, the largest Moment. Both
pallets' lead-time checks use it.

### `Client`

This module models `src/pallets/client/src/lib.rs`:

- Variables: `now`, `led`, `device` (the mirror profiles, with `paraid`),
  `orders`, `outbox` (NewOrder queues) and the ghost counter `nextId`.
- `PlaceOrder` reserves the device's penalty, then the client's fee. It
  stores the order, then sends. A failure after a write keeps the write: a
  failed send leaves the order, both reserves and a Ready mirror.
- `Cancel` sends nothing to the service chain.
- `HandleReply` is `handle_blob_message`. It dispatches to `on_accept` (an
  event only), `OnReject` and `OnDone`. These look the order up by device
  and use the message's client.
- `OnKilledAccount` removes an Off mirror and sets any other to Timewait.
- `Test` is the `test` extrinsic. It sends a blob that does not decode
  (`UndecodableMsg`) to para 200, and the blob takes a slot of that queue.
  `MC_XChain` puts the service chain at para 200 so that this can happen.

### `XChain`

This module composes `S == INSTANCE Service` and `C == INSTANCE Client`,
renaming each chain's storage (`sled`, `sdevice`, `sorders`; `cled`,
`cdevice`, `corders`). Its actions:

- A `ServiceCall` or `ClientCall` is a signed call on one chain and leaves
  the other chain unchanged.
- `DeliverToService` and `DeliverToClient` pop the head of a queue and run
  the receiving handler. A message whose handler fails is still consumed.
- Both chains read one clock, since parachain timestamps are wall time.
  Clock skew is not modelled. Message delay is what separates the two
  chains' views of a deadline.
- Orders placed on the service chain itself are left to `MC_Service`.

`MC_XChain` bounds the model:

- one device `d1` and clients `c1` and `c2`;
- penalty, fee and wcd 1;
- time 0..3;
- initial free balance 1 or 2 on each chain;
- at most 2 orders;
- queue capacity 1.

With these bounds the following can happen:

- an order is cancelled, the device re-registers and a second order
  follows;
- a reply is delayed past the deadline;
- a send fails on a full queue;
- a client pays its whole balance as the fee.

## Runs

| Run | cfg | Expect | Shows |
|---|---|---|---|
| `service_safety` | `MC_Service.cfg` | pass (1.9M states, about 1 min) | `OrderImpliesEngaged`: no call can overwrite or drop the profile of a device with an order. `EscrowCovered`: even with pooled reservations, every account's reserve covers the fees and penalties of its outstanding local orders. `SettlementRule`: a successful done, reject or cancel moves exactly the fee (on done) and the penalty (when `now >= until`) between the two parties, and nothing else. |
| `service_failed_call_atomic` | `MC_Service_atomic.cfg` | violation | A self-order whose fee reserve fails after the penalty reserve keeps the penalty reserved. Spec section 7 requires full rollback. |
| `service_dead_device_ready` | `MC_Service_dead.cfg` | violation | `ReadyDeviceAlive`: a reject after the deadline forfeits the device's whole balance and reaps it. The hook removes only Off profiles, and `order_reject` then stores the profile as Ready. The dead device keeps taking orders it can never answer. |
| `service_accept_unannounced` | `MC_Service_accept.cfg` | violation | `AcceptAnnounced`: on a full queue, an auto-accepted remote order makes the device Busy2, but `order_accept` drops the failed OrderAccept send. Spec section 4.4 requires all-or-nothing. |
| `service_refines_lifecycle` | `MC_Service_lifecycle.cfg` | pass (779k states, about 1 min) | `ImplementsLifecycle`: every service behaviour is an `OrderLifecycle` behaviour. Orders open and are accepted only before the deadline, only accepted orders complete, and no call alters an outstanding order or its penalty. |
| `xchain_safety` | `MC_XChain.cfg` | pass (1.4M states, about 45 s) | `ClientOrderImpliesMirror`: on the client chain, no register, reaping or half-done handler drops or switches off the mirror of a device with an order. |
| `xchain_resolution_unreported` | `MC_XChain_report.cfg` | violation | `ResolutionReported`: the auto-accept policy fills the one-slot queue with an OrderAccept, and the device then calls `done`. `done` has taken the order (l.264) and `order_done` has stored the Ready profile (l.380) when the OrderDone send fails (l.399). The service chain forgets the order, and the client chain never hears that it was completed. Its client cancels after the deadline and gets the fee back. Spec sections 3 and 8.5 require the message, or a rollback. |
| `xchain_punctuality` | `MC_XChain_punctual.cfg` | violation | The device resolves before the deadline. The client then cancels at the deadline, or the reply arrives after it. Either way the client chain forfeits the device's penalty. |
| `xchain_stuck_order` | `MC_XChain_stuck.cfg` | violation | Under fairness, `on_done` pays a client's whole balance as the fee, so the client is reaped. The penalty repatriation to it fails. The order then stays forever, because nobody can cancel it. |
| `xchain_client_escrow` | `MC_XChain_escrow.cfg` | violation | `ClientEscrowCovered`, with two devices, two clients, 3 orders and balances of 3, so no fee payment reaps anyone. c1's order on `d1` is rejected, and c1 cancels it on the client chain. c2 then orders `d1`, and the stale OrderReject settles c2's order. It takes c1's fee from the reserve that backs c1's order on `d2`, and c2's fee stays reserved. |
| `xchain_dead_mirror` | `MC_XChain_deadmirror.cfg` | violation | `ClientReadyMirrorAlive`: the client chain's hook sets a reaped device's mirror to Timewait. `on_done` and `order_reject` then overwrite it with Ready. |

Each property of a passing run has a mutant in `Service` or `Client`. Each mutant is a
plausible slip:

- a send that ignores the queue capacity;
- `register` without its order check;
- the penalty refunded to the client's reserve;
- `now <= until` for the refund;
- a client-chain send that ignores the queue capacity;
- `on_done` storing the new profile before its transfers;
- `accept` without its Overdue check.

TLC finds every one of them.

### Further configurations

Seven cfgs stay beside the modules. Five ask questions that the runs above
answer with a more general property, or that share a cause with a listed
run; each of these is still violated. Two pass but are not runs, for the
reasons given with them:

- `MC_Service_engaged.cfg` checks `EngagedImpliesOrder`. `cancel` leaves the
  device Busy2 with no order, although spec section 3 says "iff". The unit
  test `order_cancel` asserts this behaviour, and `OrderLifecycle`'s
  mapping accounts for it.
- `MC_Service_leak.cfg` checks `EscrowExact`. A `done` after the deadline
  reaps a client whose balance was exactly the fee. The penalty
  repatriation then fails, and the penalty stays reserved with no order.
  `xchain_stuck_order` shows the same reaping on the client chain.
- `MC_Service_ed.cfg` checks `EscrowCovered` with `ED = 2`. A client with
  two local orders pays one fee, falls below the deposit and is reaped. The
  fee reserved for its other order goes with the account. The spec's escrow
  rules (section 3) never mention the existential deposit, which is 500 in
  the mock runtime. `xchain_stuck_order` shows reaping by a fee payment on
  the client chain.
- `MC_Service_wcd.cfg` checks `LeadTimeRespected` with a two-bit Moment
  (`MomentMax = 3`) and a device wcd of 3. `order_received` (l.338) and the
  client chain's `order` (l.180) compare `until` with `now + dev.wcd`. In the
  release runtime that u64 sum wraps, so at `now = 1` the check becomes
  `until >= 0` and an order due at 2 is installed. Spec section 8.4 says
  such an order always fails `BadOrderDetails`. In the runtimes the wrap
  needs a wcd within `now` of `u64::MAX`. A debug build panics instead, and
  the call fails. The other cfgs set `MomentMax = 7`, above any
  `now + wcd` they reach.
- `MC_XChain_stale.cfg` checks `ReplySettlesItsOrder`. After a cancel, a
  re-registration and a new order, the reply for the old order settles
  the new one. `xchain_client_escrow` shows what this costs.
- `MC_Service_live.cfg` checks `DeviceEventuallyFree` under
  `Service!FairSpec` and passes. The fairness it needs is of the very
  calls that free the device: the client's `cancel` and the device's own
  `accept(true, _)`. The code schedules neither, so the result says little
  about the code (see "Fairness").
- `MC_Codec.cfg` checks `Codec`'s decoder against a reference decoder built
  from the same encoding, and passes. Both come from parity-scale-codec's
  derive, which is library code, so the check says nothing about this
  repository's code.

## Fairness

`Service!FairSpec` assumes only what each actor does in its own
interest:

- weak fairness of `Tick`, because blocks keep coming;
- weak fairness of `DeliverOut`, because the remote chain takes what is
  queued;
- weak fairness of each client's `cancel`. After the deadline it is the
  client's only way to get its escrow back;
- weak fairness of `Recover`, which is `accept(true, true)` by a device
  that holds no order. A device that `cancel` left Busy or Busy2 has no
  other call of its own, except `register`, that lets it take orders again.

Nobody is assumed to place, accept, reject or complete an order. Under
this fairness `DeviceEventuallyFree` holds. The last two assumptions are
user calls that nothing in the code schedules, and they are exactly the
calls that free a device, so the property is kept beside the runs rather
than claimed as a result. `MC_Service_live.cfg` has no
remote para: a remote order is cancelled on its client chain, which
`Service` alone does not model. Without a remote queue the run takes
seconds, so it uses wcd 1 or 2, time 0..3, starting balances 1 or 2 and
both policy outcomes. It has no symmetry, because symmetry is unsound for
liveness. With a third account the clock bound deadlocks the model once
every device account is reaped, so the run keeps two.

`XChain!FairSpec` assumes the following:

- weak fairness of `Tick`, because blocks keep coming;
- weak fairness of both deliveries, because HRMP delivers what was sent;
- weak fairness of each client's `cancel` on the client chain. Cancelling
  after the deadline is the client's only way to get its escrow back, so a
  client who wants it back calls it.

Even under this fairness `ClientOrderSettles` fails.

## Not modelled

- Events, the `data` payload, and transaction fees.
- Inside the pallet models, messages are the records they decode to, and
  a blob that does not decode is its own kind. The byte-level codec is
  parity-scale-codec's derive; `Codec` describes it but no run checks it. No code sends a message with a tag the receiving handler
  does not know.
- Compact lengths of 64 or more, and AccountId, u128 and u64 at their full
  widths. `Codec` takes the widths as constants and is checked with one-byte
  fields.
- `handle_xcm_message`, which writes only an event.
- Clock skew between the chains.
- Other pallets that move balances. Balances change only through this
  protocol.
- The node and keytool binaries. The node's `main` only hands the command
  line to `command::run`. keytool prints, for a para id, its sovereign
  account: a type tag ("para" or "sibl"), then the id as a little-endian u32,
  then zero padding (`into_account`), in hex and SS58. The SS58 form needs a
  Blake2 checksum. Neither binary holds protocol state, and nothing in the
  runtimes reads their output.
- The unit tests and the mock runtime (`src/pallets/service/src/mock.rs` and the
  pallets' `tests.rs`).
  They fix constants that the models take as parameters: the mock's
  existential deposit is 500, accounts start with 100M, and `OnReceived` is
  the default that answers Busy. Each test is a short sequence of calls,
  and each call is an action of the models.
