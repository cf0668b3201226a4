# tonutils-go in TLA+

A verification development for the parts of tonutils-go in which goroutines,
datagrams, timeouts and a growing chain meet. It holds TLA+ modules translated
from the Go source, TLC configurations that check them on small instances, and
TLAPS proofs of what matters most for every value of the constants.

    tlc -workers 2 -config RldpStream.cfg MCRldpStream     # a run
    tlapm RldpStreamProofs.tla                             # a proof

`PROJECT.json` has the tables: components, runs, the mutant that each property
must catch, the source lines of each definition, findings, hazards, theorems.

## 1. Inventory

tonutils-go is a client and a peer of the TON network. From the bottom up:

| Part | State | What makes it hard |
|---|---|---|
| ADNL peer (`adnl/adnl.go`, `channel.go`) | epochs, seqnos, replay window, channel keys | several listen threads process packets of one peer; packets are lost, copied and reordered; both sides create channels and start epochs at once |
| ADNL queries and split messages | tables of queries, pings, partial messages | late answers against timeouts, limits, Close |
| ADNL gateway (`adnl/gateway.go`) | registered, pending and idle peers | eviction and idle collection against new packets and users |
| RLDP (`adnl/rldp`) | inbound streams, outbound transfers, requests, admission slots, pacing bucket, congestion control | lock-free hand-off of parts, a recovery loop that sleeps, cancellation, expiry, close |
| DHT (`adnl/dht`) | buckets of active and backup nodes, value store, own values | limits, republishing against concurrent stores |
| Overlay (`adnl/overlay`) | broadcasts being received and relayed | duplicates, completion, workers that must end |
| QUIC (`adnl/quic`) | gateway mode, identities, admission of streams | dial against close and removal |
| Liteclient (`liteclient`) | pool of connections, weights, requests in flight; the server's sessions | reconnecting against Stop, late answers, bounded queues |
| API client (`ton`) | cached block, retries, scans of an account | nodes that lag or fail, a chain that grows during a scan |
| toncenter client | limiter of requests | concurrent callers |
| Wallets, jettons, NFTs | messages being built | sending again |
| Cells, TL, TL-B | immutable data | algorithms on trees |
| TVM and transaction emulation (`tvm`) | stack, registers, gas, account | long sequential algorithms |

ADNL carries RLDP, DHT and overlays; RLDP carries queries of overlays and DHT;
the API client uses the liteclient pool. `PROJECT.json` lists each component
with its status, and under `hazards` each thing that can go wrong at the line
where it would.

## 2. How the parts interact, and how the models follow

ADNL delivers datagrams between two peers (`AdnlPeer`, with the replay window of
`PacketWindow`). RLDP cuts a query or an answer into parts and symbols, sends
them as fast as its bucket allows (`TokenBucket`) and again until they are
acknowledged (`RldpTransfer`); on the other side goroutines share the work on one
stream (`RldpStream`). Overlays add broadcasts on top: admitted once
(`SimpleAdmission`, `TwoStepFec`) and relayed (`RelayScheduler`). Liteservers are
reached over connections of their own (`LitePool`); the API client sends messages
and follows accounts through them (`SendWait`, `TxSubscription`), or through
toncenter (`SlidingLimiter`). Dictionaries (`Dict`, `DictOps`) and the transaction
executor (`TxFees`, `TxEmulation`) are computations on what has been received.

A model assumes of the layer below what that layer's model shows or what its code
allows: packets that are lost, copied and late under RLDP, answers that are late,
short or missing under the API client.

## 3. Modules

One step of a model is one critical section or one atomic operation of the code
unless a module's header says otherwise. Definitions marked *Mutant* are
plausible mistakes in the definition that follows; they are used only to show
that a property would notice.

### RldpStream: the receive side of one transfer id

`handleMessagePart` runs concurrently for parts of one transfer. A caller puts
its part into the stream's queue, sets `pending`, and whoever wins the
compare-and-swap on `processing` drains the queue for all. Around it, the
cleaner of `stateCleaner` expires streams, `cancelActiveRequest` and
`closeState` unregister and retire them, and per-IP admission slots are taken
and given back. Variables are the fields of the client (`recvStreams`,
`closed`, `expected`, `cancelled`, `byIP`) and of each stream (`retired`,
`msgBuf`, `pending`, `processing`, `mx`), a program counter per goroutine and
one for the cleaner. Time is abstracted: any cleanup may find a stream expired.
Decoding is one step that keeps the stream or fails; its protocol is
`RldpTransfer`'s subject.

### RldpTransfer and RldpDelivery: one transfer, end to end

Sender goroutines, the recovery loop with its ticker and wake-up channel, the
network and the receiver. A symbol is its part and its seqno, and the last seqno
of the model stands for all later ones; a decoder is a set of symbols, which may
decode once it has `NeedSymbols` and must once it has `Overhead` more. Messages
in flight are a set: delivery does not remove them (`Duplicates`), and `Loss`
removes them. `RldpDelivery` is the service: one outcome per transfer, completed
only if handed over or given up, an answer handed over at most once. A receiver
gives a transfer up when it forgets the stream, or when the data, once complete, is
too long, does not parse or answers another query (`Reject`): the completion has
been sent by then. The receiver takes a symbol in one step; that its goroutines do not disturb each
other is what `RldpStream` shows.

### TokenBucket: pacing

Every load, store and compare-and-swap of `consumeUnits`, `AddTokens`, `SetRate`
and `SetCapacityBytes` is a step. The product of time and rate is computed in
signed words of `Width` bits, as the code does with 64.

### PacketWindow and PacketWindowWords: replay protection of ADNL

`PacketWindow` is the circular window as a set of slots, with the seqnos let
through as history. `PacketWindowWords` extends it with the array of words and the
loop that clears a range of bits by masks. Both are given the same calls and
decide from their own state; `WordsAgree` says that they stay equal.

### AdnlPeer: epochs and channels

Two peers. A received packet is prepared in one critical section of
`lifecycleMx`; its lifecycle message and its data are handled in later ones, and
in between another thread may have applied a new epoch or channel. A packet in a
channel can be read by whoever has the two keys. `lifecycleVersion` appears as
the flag `current` of a job, cleared when somebody else changes epoch or
channel. Packets in flight stay for ever, so they may be late or copied; that
none need arrive is that no receive step is forced.

Both peers run this code, which never sends a `MessageReinit`; the case of
`processLifecycleMessage` that receives one (`adnl.go:464`) is left out. It calls the
same `applyPeerReinitLocked` as a packet with a newer date. The test
`inboundStateCurrent` and the handler it lets the data through to are one step,
although no lock is held between them: the handler is the user's, touches nothing
of this state, and `HandledOnce` is about what the test lets through.

### AccountChain, SendWait, TxSubscription: the scans of an account

`AccountChain` has the constants of both: page size, lag of the nodes, and the
bounds. `SendWait` is `sendExternalMessageWaitTransaction` and `waitConfirmation`.
The account is a sequence of transactions that says of each whether it has our
message; lt and hash are the place in the sequence. Others add transactions, the
message gets lost, nodes answer with short pages, queries fail (a step that
changes nothing). `TxSubscription` is `SubscribeOnTransactions`, with nodes that
answer with older states, short pages, no older transactions or errors, with
cancellation, and with a user who subscribes again from the last transaction
received. The list of transactions found is a set, since it is always sorted by
place.

### SlidingLimiter: requests to toncenter

The clock is read before the lock is taken; `MaxStall` bounds the time between.

### LitePool: connections to liteservers

For every server one goroutine dials (`AddConnectionsFromConfig`, then
`DefaultReconnect`), one listens, and pings are sent and counted; callers run
`QueryADNL` with or without a sticky node, and anybody may `Stop`. A connection
object is its server and a number. Dials, handshakes and links fail, and a peer
may fall silent without closing; `MaxFaults` bounds how often. The load of a node is
charged (`requestStarted`), the query is written, and a failed write is taken back
(`requestSendFailed`) in three steps. `querySticky` holds `nodesMx` for reading over
all three, so that registering and tearing down wait for it (`NodesFree`); the
balancer holds it only while it picks a node. Which of the active
nodes is the best one (weights and latencies) is any choice.

### TxFees and TxEmulation: the transaction executor

`TxFees` has the prices with their rounding. `TxEmulation` runs one transaction
after another on an account: storage and credit, compute, the list of actions one
by one, bounce, commit, with the differences between global versions: among them the
gas a special account gets and the fees a message may suggest for itself. An
external message starts with credit, and is dropped while it runs on that; one that
has a limit of its own beside the credit (a special account since version 5) may
be dropped too. The virtual machine is any outcome its gas allows. Left out or abstracted:

* amounts have grams and one extra currency, and stay below 2^63;
* prices are per cell, the price per bit is left out; the retries with another
  layout of a message are in its number of cells;
* logical times, precompiled gas, the gas override and the `Historical*` options;
* which state exceeds the limits, and which frozen hash is the address, is any
  choice; a suspended address is one more bad initial state;
* an inbound message has at most one flaw.

### Dict and DictOps: dictionaries of cells

`Dict` has the algorithms on the tree as recursive operators: labels and their
three encodings, set and delete, `Multiset`, `CombineWith`, `Filter`, prefix cuts,
lookups, walks and `ScanDiff`. `DictOps` is a dictionary under any sequence of its
mutating calls beside the map (`items`) that the same calls give. Cells are their
content; special, pruned and lazily loaded cells, traces and gas are left out, and
values are small numbers. Keys of three bits make all three label encodings occur.
A dictionary that was loaded may have labels in another than the shortest encoding
(`Loaded`). `Filter` keeps such a label when only one side of its fork changes;
`Canonical` therefore compares whole trees only of dictionaries grown from empty,
and says of loaded ones that `Set` and `Delete` rewrite every label on the path of
their key that is not the writer's choice. One loaded fork label is shortest as
`hml_same`, another is as short in `hml_short` as in `hml_long`. A filter whose
callback fails, or answers with none of the four actions, is an answer like the
others ("fail") and leaves the dictionary as it was.

### SimpleAdmission: simple broadcasts

`processBroadcast` for copies that arrive in goroutines of their own. One owns the
admission, one stands by, the others are dropped. The checks of source,
certificate, signature and date are one step that may fail.

### TwoStepFec: parts of a two-step broadcast

`processBroadcastTwoStepFECPart`, where `state.mx` and `stream.mx` are taken in
turn, and the sweep of `cleanupLocked`, by the ticker or within a section of a
goroutine, one stream at a time. A stream object that nobody refers to is reused.
Age is abstracted: a sweep may find any stream without an admission stale. A
decoder needs `Need` parts and may want more. The verdict, and `committed` as
history, say what the application decided.

### RelayScheduler and RelayQueues: the relay of ordinary broadcasts

The dispatcher with its shared slots, linked lists, ready channel, workers and
counted bodies; `Reserve`, `Submit`, the steps of `runOrdinaryWorker`, and `Close` in
its three steps. A goroutine that has taken the dispatcher may reserve room after
`Close` has begun; what it then submits is refused and given back. `RelayQueues` is what a peer is promised: a queue of its own,
first in first out, one send at a time, and a share of the room.

### Modules for TLC

`MCGates`, `MCAccounts` and `MCBroadcasts` put components side by side that share
no state: a behaviour picks one of them in the initial state and the others rest.
`MCGates` has the window with its words, the bucket, the limiter, simple broadcasts
and two peers, `MCAccounts` the two scans and a dictionary, `MCBroadcasts` the three
broadcast modules. The other `MC` modules give one component its values.

`Gates` (window, limiter, simple broadcasts), `Pacing` (bucket) and `AccountWatch`
(the two scans) have no next-state relation of their own: each has instances of
its components, the assumptions on their constants, and names for their properties,
so that the runs and the proofs speak of the same definitions. Simple broadcasts
are in two runs: their safety in `gates`, that copies end in `broadcasts`.

## 4. Runs

| Run | Instance | Distinct states | Shows |
|---|---|---|---|
| `stream` | 2 goroutines, 2 parts, 2 streams, queue of 1, 1 slot | 109 k | no lost wake-up, each slot given back once and none kept for good, nothing processed after retirement, the ticker is armed; handlers return |
| `transfer_safety` | 2 parts of 2 symbols, 2 goroutines, copies, one dropped stream | 1.0 M | the transfer implements the delivery service; completion is honest; one outcome |
| `transfer_liveness` | 2 parts, lossy | 77 k | the data gets through, the sender learns of it, and a transfer whose deadline passes ends |
| `gates` | window of 2 words of 3 bits, seqnos -1 to 11; bucket with 2 goroutines and 2 rates; limiter with 3 callers, 2 per window of 3, stall of 2; 3 goroutines with 3 copies of 2 simple broadcasts; peers with 2 listen threads, 2 seconds, a new epoch | 1.2 M | a seqno is let through exactly once unless a window behind, and words and masks are the window; no interval is credited twice; no window has more requests than the limit, up to the stall; the application is asked once at a time and not after delivery; nothing handled twice, no channel of an old epoch, and a peer that no longer confirms its channel is understood |
| `accounts` | pages of 2, 6 transactions; 4 transactions of others around ours; dictionaries of 3 bits and 3 entries, batches of 2 | 31 k (608 k transitions) | in order, once, no gap, all received; the scan passes over nothing and a message lost again and again is confirmed; a dictionary is the map of the same calls, canonical also where an update meets foreign encodings, and compared exactly |
| `lite` | 2 servers, 2 queries, one of them sticky, 2 faults | 497 k | no server is lost to the pool, loads are exact, service returns |
| `emulation` | 5 configurations (versions 3 to 15), lists of 3 actions, 12 grams | 340 k | money is conserved, the executor never contradicts itself, a failed list leaves nothing behind, and a bounced message costs its receiver nothing and, since version 14, leaves it nothing |
| `broadcasts` | 3 goroutines with 3 copies of 2 broadcasts; 2 with 3 parts and a sweep, budgets that do not all fit; 3 peers, 4 slots, 2 workers | 126 k | the same of two-step broadcasts; budgets and references are exact; copies and parts end; the relay is a queue per peer |

*Bounds.* They are chosen so that each case of the code occurs. Two goroutines
are the owner of a stream and one that hands its part over or takes the stream
over; a queue of one part is full at once. Two parts are a first and a last one,
and with two symbols a part can be half received. Two words of three bits have
ranges within a word, across words and around the array, which eleven seqnos go
round nearly twice. Two epochs and two seconds give an old and a new of each.
Pages of two are exceeded by the transactions that arrive during a scan. Three
actions are two that move something and one that fails. Three copies are an owner,
the standby that takes over, and a copy that then stands by for it; the cache of
delivered broadcasts has room for one of two. Three messages exceed the share of a
peer, and two of them fill the slots.

*Deadlock* is not checked where the system may stop: all parts have arrived, the
transfer is over, the clock has reached its bound, the call has returned, the
bounded supply of messages is used up.

*Symmetry* is used for goroutines and threads, in runs without liveness only.

### Fairness

* `RldpStream`: strong for goroutines and retirements, since they wait for
  mutexes, which Go hands to each waiter in the end (a waiter starved for a
  millisecond goes first); weak for the cleaner. No part has to arrive.
* `RldpTransfer`: weak for goroutines and the ticker; strong for delivery of a
  symbol and of a completion that is sent again and again. No deadline
  has to pass.
* `SendWait`: polls and sends succeed now and then, and a message sent again and
  again is taken; the context may expire or not.
* `TxSubscription`: now and then a poll is answered with the newest state and a
  page query with a page; the user receives until the channel is closed; a
  worker that sees its context done returns.
* `LitePool`: weak. Goroutines are scheduled, the ticker ticks, a context ends, and
  a peer whose link works answers pings. Faults, answers to queries and `Stop` are
  not forced.
* `SimpleAdmission`, `TwoStepFec`: weak for the goroutine of a copy or a part and for
  a sweep that has begun; the application returns from its handler, which the code
  relies on. No copy and no sweep has to come, and no verdict is forced.

## 5. Proofs

All for arbitrary constants under the named assumptions of the modules
(`ConstantsAssumption`, `TransferAssumption`, `WindowAssumption`, `LimiterAssumption`,
`AdmissionAssumption`, `BucketAssumption`, `PeersAssumption`, `WaitAssumption`,
`SubscriptionAssumption`, `PoolAssumption`, `PricesAreNatural`, `InputsTyped`), which
say no more than that sizes are positive or natural, subsets are subsets, there are
two peers, rates have a greatest one, and null values are not values.

**RldpStreamProofs.** `IInv` is built in layers, each proved with those below:

1. `Typed`: types, what each program point holds, and the slot count;
2. `Owned`: who is past the compare-and-swap on `processing` and who holds
   `stream.mx` is unique (needed since the code has a lock and a flag that are
   taken and given up at different points);
3. `Life`: what a goroutine knows about `retired` at each point, and that a
   stream with a slot can still be retired by somebody;
4. `Watched`: a stream with a queued part is watched by a goroutine before its
   last look at the queue, or has `pending` set and one that will see it;
5. `CleanupNotStranded`.

The lost wake-up property is not inductive by itself: it needs to know that the
owner is unique and that `pending` is set after the queue is filled.

**RldpTransferProofs.** `IInv` is `Typed` (with what each task of a goroutine
implies), `Accounted`, `Handed` (what was handed over against what is
remembered) and `Ahead`: until the data is handed over or given up, the receiver
has decoded every part the sender has left, and every completion in flight or
being handled is for a part that is decoded. The last is what makes a stale
completion harmless. `TransferImplementsDelivery` maps each step to one of the
service or to a stutter.

**GateProofs.** The components of `Gates` and of `AccountWatch`.

*Simple broadcasts.* `SimpleInv` is the type, `AdmissionOwned` (who is past
`beginSimpleAdmission` is the one registered), `Undelivered` (what is under
admission is not remembered as delivered; without it a copy that takes over could
ask again) and `Counted` (who waits was counted in an admission that is still
open, and waits alone).

*The scans.* Of the subscription: what has been found is an interval that ends where
the next page begins (`FoundSoFar`), what is to be sent follows what the user has
(`StillToSend`), and a worker that is not sending has sent all that it has marked
(`Settled`). Of the call that waits: what was scanned before, and what the present
scan has looked through, meet (`ScannedBefore` up to the offset, `ScannedNow` from
the next page up to the start of the scan).

*The window* is exact: the bit of a slot says whether the one seqno of the last
`Size` with that slot was let through. The lemma behind it is that two of `Size`
successive numbers never share a slot. `NoReplay` and `NoFalseReplay`, properties
of steps, follow from it.

*The limiter.* `RateBound` compares starts that are `max` apart, of which the list
may have forgotten the first. `LimiterInv` therefore says what the list is: its
entries are the latest starts in order, each recorded at most `MaxStall` before the
start (`Remembered`), and a start that was dropped from it is so old that no caller
at the lock can come too close to it (`Left`, `Fresh`).

**BucketProofs.** `PacingBound` is not inductive: between the compare-and-swap that
claims an interval and the one that adds its tokens, the credit is in a local of the
goroutine. `BucketInv` has the bound with all such credits counted as if they were in
the bucket, and with `lastRefill` in the place of the present time (`Paced`), and
what the locals mean at each point (`Running`): before the claim that the credit is
worth no more than the interval, before a compare-and-swap how the new value relates
to the one that was read. The claim succeeds only if `lastRefill` is still the start
of that interval, so that what is owed and the time that is used up grow together. The
sum over goroutines is written as the cardinality of a set of pairs, which needs no
induction. The proof is for any width of the product: a product that overflows and
turns negative credits nothing, and one that stays positive is at most the true one.

**AdnlPeerProofs.** Two peers need `PeerInv`, for any listen threads, any number of
epochs and of packets in flight:

* `PacketsOK`: what the keys in a packet say about its sender, now and not only when
  it was sent. `Issued` says that a key of the present epoch is the key of the
  channel, since an epoch generates one; `Agreed` says that a peer that has sent a
  confirmation, or a packet in a channel, still has that channel unless one of the
  two has started a new epoch.
* `ChannelsOK`: a channel has the keys of the epochs both sides know of, and a peer
  that no longer wants a confirmation has one behind it (`Agreed` of the other side).
* `WorkOK`: a thread whose work will still count has a packet of the known epoch that
  the window let through, no other thread has work on that packet, and it is not yet
  handled; what was handled in the known epoch is in the window.

`HandledOnce` rests on the last: a copy may be prepared before the epoch changes and
be looked at after, and what stops it is that the change makes the work of the
other threads stale. `NoBlackHole` rests on the second: a late confirmation may be
applied to a channel made anew, and `Issued` says why it is then of the same keys.

**LitePoolProofs.** `SoundAt` says of one server how the goroutine that dials it, the
one that listens and the flags of the connection go together: what a dialling
goroutine has found out still holds, and a connection whose listener has ended is
dialled again if it ever was registered. A step of one server leaves the others
alone (`LocalSound`), which reduces each action to one server. `InflightIsExact` is
about cardinalities: each step moves one call to or from one node, and the calls a
node is charged with are those that write to it, are to take a failed write back, or
wait for its answer (`Charged`).

**TxPhaseProofs, TxEmulationProofs.** The first has the invariant and the steps that
prepare, compute and fail, the second the actions, the bounce, the commit and the
theorems. `Inv` is `Typed`, `Ledger`, `Solvent`, `Fresh`, `Returnable`,
`Emptied` and `NoneWrong`. `Ledger` says at every step of a transaction where the
money is: in the account, in the message, in fees, or in what is to be sent; it is
the reason why `Conserved` holds whichever actions run or are rolled back.
`Solvent` says that what is still to be paid is covered, which rests on a lemma on
rounding: gas bought for an amount never costs more than that amount. `Returnable`
is what a bounce needs to know of the message's value after fines. `Exact` adds that
since version 14, when a phase has failed, the value to return is the one the message
brought and all that was collected is rent, gas and fines; it is why a bounced message
leaves its receiver nothing (`BounceIsFree`, a part of `AllOrNothing`). Also proved, and not among the
properties of a run: actions destroy an account only when it keeps no grams.

Other theorems without a property of a run: that expiry keeps queued parts
(`ExpiryIsSafe`), that sender and receiver of a transfer are in step
(`SenderAndReceiverInStep`), that an answer is delivered once, and that at most one
copy stands by (`OneStandbyHolds`).

Only model-checked:

* liveness (`HandlersReturn`, `GetsThrough`, `TransferEnds`, `AllReceived`, `Confirmed`,
  `ServiceReturns`, `CopiesEnd`, `PartsEnd`), which the prover does not do;
* `WordsAgree`: the loop that clears words is a recursive function, and what it
  computes needs induction over its steps;
* `Represents`, `Canonical` and `DiffExact`: the operators of `Dict` are recursive;
* `BudgetExact`, `RefsExact` and `ImplementsQueues`: the budgets and references of
  `TwoStepFec` and `RelayScheduler` are folds over streams and bodies, and the queues of
  the relay are lists linked through slots, walked by a recursive function;
* `TwoStepAskedOnce` and `ScheduledOnce`, for which there is no inductive invariant yet.

## 6. Findings

Runs that are expected to end in a counterexample. Each states what a comment or
a test of the repository says.

| Run | The code says | What happens |
|---|---|---|
| `bucket_idle` | after a wait the whole burst is available (`bucket_test.go:86`) | elapsed time times rate overflows after a long idle time, and nothing is credited |
| `peer_confirm` | a channel is confirmed "till his first packet in channel" (`adnl.go:1261`) | two peers that both create a channel both go on confirming, and neither sends in it |
| `twostep_retry` | "Retry is the only outcome that leaves the broadcast uncommitted" (`broadcast-receiver.go:36`) | a sweep removes a stream after a part has started its admission; the verdict is lost, and parts that wait for it wait for ever |
| `wait_fresh` | "we should not lose our scan offset" (`sendmessagewait.go:82`) | for an account that did not exist, the offset is never recognised and the scan does not end |

Four comments promise more than the code does, and the properties above are
stated so that they do not rely on them:

* "The total amount of tokens is always capped at the configured capacity"
  (`bucket.go:155`): `AddTokens` caps with a capacity that `SetCapacityBytes` may
  have lowered meanwhile. `PacingBound` speaks of what was credited.
* The reply to parts of a cancelled transfer "stops a live sender within one
  round trip" (`client.go:104`): a sender with more parts takes it as progress
  and is led through them one by one. `CompletedMeansDelivered` allows it.
* The list of starts is sorted (`toncenter/client.go:98`): callers may take the
  lock in another order than they read the clock. `RateBound` has the stall.
* "state.mx and stream.mx are never held at the same time" (`overlay-adnl.go:470`):
  `processFECBroadcastShort` takes `stream.mx` under `state.mx`. Ordinary FEC
  broadcasts are not modelled.

In `twostep_retry` the stream is as old as its time to live when its last part
comes, which the tolerance of the date allows. `TwoStepAskedOnce` and `PartsEnd`
except such streams (`Orphan`), and hold for all others. `cleanupLocked` of
ordinary FEC broadcasts (`broadcast-fec-relay.go:248`) has the same shape.

## 7. Not modelled

Encryption, signatures, hashing and Merkle proofs (external or pure), the RaptorQ
code, TL and TL-B encoding, sockets and batching of reads, statistics and logging.
Of the components:

* *Requests of RLDP, queries and split messages of ADNL*: tables with one entry per
  id, each entry with a channel of its own and no state shared between entries; one
  request is part of `RldpTransfer`.
* *ADNL gateway, DHT, QUIC*: components of their own size on which no modelled part
  rests. The searches of the DHT are decided by distances and by the answers of
  others, and the QUIC gateway by the callbacks of a library.
* *Ordinary FEC broadcasts*: streams that live as two-step ones do, with a second
  budget, short parts, a pool of decoding workers and announcements of completion.
* *Sending of broadcasts*, and the relay of two-step ones: a loop over peers, and one
  channel in the place of the scheduler. Changes of limits and cache sizes while
  broadcasts are received (`SetLimits`, `SetDeliveredCacheSize`) are left out.
* *Congestion control*: BBRv2 is driven by measured rates and round-trip times; a
  model with a coarse clock would be one of other arithmetic.
* *The TVM*: several hundred instructions, each a function of a stack; `TxEmulation`
  takes every outcome that gas allows.
* *API queries, proof chain, wallets, jettons, NFTs, DNS*: single requests and answers
  without state between calls, or loops whose checks are cryptographic.
* *Other dictionaries*: prefix and augmented ones are the walks of `Dict` with another
  layout of nodes.
* *The server side of liteclient*, for tests and proxies.
