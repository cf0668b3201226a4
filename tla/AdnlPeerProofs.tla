--------------------------- MODULE AdnlPeerProofs ---------------------------
(***************************************************************************)
(* Proofs about AdnlPeer: the epochs, channels and packets of two peers,   *)
(* for any threads, epochs, clocks and packets.                            *)
(***************************************************************************)
EXTENDS AdnlPeer, TLAPS


\* Types: of what belongs to a peer, and of the rest.
PeerShape(p) ==
  /\ \A c \in channel[p] : c \in Channels /\ (c.ready <=> c.peerKey # NoKey) /\ \A d \in channel[p] : c = d
  /\ job[p] \in [Threads[p] -> SUBSET Jobs] /\ \A h \in handled[p] : h[1] \in Nat
PeerFunctions ==
  /\ channel = [p \in Peers |-> channel[p]] /\ handled = [p \in Peers |-> handled[p]]
  /\ job = [p \in Peers |-> job[p]]
Scalars ==
  /\ clock \in 1..MaxClock
  /\ reinitTime \in [Peers -> Epochs] /\ dstReinit \in [Peers -> 0..MaxEpoch]
  /\ seqno \in [Peers -> Nat] /\ window \in [Peers -> SUBSET Nat]
  /\ heard \in [Peers -> BOOLEAN] /\ keys \in [Peers -> Nat]
Shape == PeerFunctions /\ Scalars /\ net \subseteq Packets /\ \A p \in Peers : PeerShape(p)

\* Key k was generated by p, and if in its current epoch then for its channel:
\* an epoch has one key.
Issued(p, k) ==
  /\ k \in Keys /\ KeyEpoch(k) <= reinitTime[p]
  /\ KeyEpoch(k) = reinitTime[p] => \E c \in channel[p] : c.key = k

\* Peer q has set up a channel with keys k and pk, and unless one of the two has
\* started a new epoch since, it still has it.
Agreed(q, k, pk) ==
  /\ Issued(q, k) /\ Issued(Other(q), pk)
  /\ KeyEpoch(k) = reinitTime[q] /\ KeyEpoch(pk) = reinitTime[Other(q)] =>
       \E d \in channel[q] : d.ready /\ d.key = k /\ d.peerKey = pk

\* What the keys in a packet say about its sender.
PacketOK(m) ==
  /\ m.reinit <= reinitTime[m.src]
  /\ m.over # <<>> => /\ m.life = None /\ KeyEpoch(m.over[1]) = m.reinit
                      /\ Agreed(m.src, m.over[1], m.over[2])
  /\ m.life.type = "create" => KeyEpoch(m.life.key) = m.reinit /\ Issued(m.src, m.life.key)
  /\ m.life.type = "confirm" => /\ KeyEpoch(m.life.key) = m.reinit
                                /\ Agreed(m.src, m.life.key, m.life.peerKey)

\* A channel has the key of our epoch and, once ready, one of the epoch of the
\* peer that we know; and without wantConfirm the peer has set it up as well.
ChannelOK(p, c) ==
  /\ KeyEpoch(c.key) = reinitTime[p] /\ Issued(p, c.key)
  /\ c.ready => KeyEpoch(c.peerKey) = dstReinit[p] /\ Issued(Other(p), c.peerKey)
  /\ c.ready /\ ~c.wantConfirm => Agreed(Other(p), c.peerKey, c.key)

\* Work that will change the channel or handle data.
Live(j) == j.current /\ j.at # "respond"

\* Live work is on a packet of the known epoch that the window has let through
\* and whose data has not been handled.
JobOK(p, j) ==
  /\ j.packet \in net /\ j.packet.src # p
  /\ Live(j) => /\ j.packet.reinit = dstReinit[p] /\ j.packet.seqno \in window[p]
                /\ Id(j.packet) \notin handled[p]

\* No two threads have live work on the same packet.
JobsOK(p) ==
  /\ \A t \in Threads[p] : \A j \in job[p][t] : JobOK(p, j) /\ \A k \in job[p][t] : k = j
  /\ \A t, u \in Threads[p] : \A j \in job[p][t], k \in job[p][u] :
        t # u /\ Live(j) /\ Live(k) => j.packet.seqno # k.packet.seqno

\* The window remembers what was handled in the epoch of the peer that we know.
HandledOK(p) ==
  \A h \in handled[p] : h[1] <= dstReinit[p] /\ (h[1] = dstReinit[p] => h[2] \in window[p])

PacketsOK == \A m \in net : PacketOK(m)
ChannelsOK == \A p \in Peers : \A c \in channel[p] : ChannelOK(p, c)
WorkOK == \A p \in Peers : JobsOK(p) /\ HandledOK(p)

PeerInv == Shape /\ PacketsOK /\ ChannelsOK /\ WorkOK /\ ~replayed

-----------------------------------------------------------------------------
\* There are two peers.
LEMMA TwoPeers ==
  \A p \in Peers : /\ Other(p) \in Peers /\ Other(p) # p /\ Other(Other(p)) = p
                   /\ \A q \in Peers : q # p => q = Other(p)
<1>1. PICK a, b \in Peers : a # b /\ Peers = {a, b}
  BY PeersAssumption, Zenon
<1>2. \A p \in Peers : Other(p) \in Peers /\ Other(p) # p
  <2> TAKE p \in Peers
  <2>1. \E q \in Peers : q # p
    BY <1>1
  <2> QED BY <2>1 DEF Other
<1>3. \A p, q, r \in Peers : q # p /\ r # p => q = r
  BY <1>1, Zenon
<1> QED BY <1>2, <1>3, Zenon

\* No key is the absence of one.
LEMMA KeyExists == \A k \in Keys : k # NoKey
BY PeersAssumption, Zenon DEF Keys, Epochs

\* The epochs of keys are numbers.
LEMMA EpochType == \A k \in Keys : KeyEpoch(k) \in Nat
BY PeersAssumption DEF Keys, Epochs, KeyEpoch

\* Epochs are numbers.
LEMMA Numbers == Shape => \A p \in Peers : reinitTime[p] \in Nat /\ dstReinit[p] \in Nat
<1> SUFFICES ASSUME Scalars, NEW p \in Peers PROVE reinitTime[p] \in Nat /\ dstReinit[p] \in Nat
  BY Zenon DEF Shape
<1>1. reinitTime[p] \in 1..MaxEpoch /\ dstReinit[p] \in 0..MaxEpoch
  BY Zenon DEF Scalars, Epochs
<1> QED BY <1>1, PeersAssumption

LEMMA NumbersNext == Shape' => \A p \in Peers : reinitTime'[p] \in Nat /\ dstReinit'[p] \in Nat
<1> SUFFICES ASSUME Scalars', NEW p \in Peers PROVE reinitTime'[p] \in Nat /\ dstReinit'[p] \in Nat
  BY Zenon DEF Shape
<1>1. reinitTime'[p] \in 1..MaxEpoch /\ dstReinit'[p] \in 0..MaxEpoch
  BY Zenon DEF Scalars, Epochs
<1> QED BY <1>1, PeersAssumption

\* The fields of a packet.
LEMMA PacketFields ==
  \A m \in Packets : /\ m.src \in Peers /\ m.seqno \in Nat /\ m.life \in Messages
                     /\ m.reinit \in Epochs /\ m.reinit \in Nat /\ m.dst \in 0..MaxEpoch
                     /\ m.over # <<>> => m.over \in Keys \X Keys
<1> TAKE m \in Packets
<1>1. m.src \in Peers /\ m.seqno \in Nat /\ m.life \in Messages
  BY Zenon DEF Packets
<1>2. m.reinit \in Epochs /\ m.dst \in 0..MaxEpoch
  BY Zenon DEF Packets
<1>3. m.reinit \in Nat
  BY <1>2, PeersAssumption DEF Epochs
<1>4. m.over \in {<<>>} \cup (Keys \X Keys)
  BY Zenon DEF Packets
<1> QED BY <1>1, <1>2, <1>3, <1>4, Zenon

\* The types of AdnlPeer are those of Shape.
LEMMA ShapeTypes == Shape => TypeOK
<1> SUFFICES ASSUME Shape PROVE TypeOK
  OBVIOUS
<1>1. \A p \in Peers :
       /\ \A c \in channel[p] : c \in Channels /\ (c.ready <=> c.peerKey # NoKey)
       /\ \A c, d \in channel[p] : c = d
  BY Zenon DEF Shape, PeerShape
<1>2. \A p \in Peers : \A t \in Threads[p] : \A j \in job[p][t] : j \in Jobs
  BY DEF Shape, PeerShape
<1>3. \A m \in net : m \in Packets
  BY Zenon DEF Shape
<1> QED BY <1>1, <1>2, <1>3, Zenon DEF Shape, Scalars, TypeOK

-----------------------------------------------------------------------------
(* What a step leaves of keys and channels                                 *)

\* The key of an epoch stays.
KeyKept(p) ==
  \/ reinitTime'[p] > reinitTime[p]
  \/ reinitTime'[p] = reinitTime[p] /\ \A c \in channel[p] : \E d \in channel'[p] : d.key = c.key

\* A channel with the current keys stays.
PairKept(p) ==
  reinitTime'[p] = reinitTime[p] /\ reinitTime'[Other(p)] = reinitTime[Other(p)] =>
    \A c \in channel[p] : c.ready /\ KeyEpoch(c.peerKey) = reinitTime[Other(p)] =>
      \E d \in channel'[p] : d.ready /\ d.key = c.key /\ d.peerKey = c.peerKey

KeysKept == \A p \in Peers : KeyKept(p) /\ PairKept(p)

\* Where nothing changes, the key and the channel stay.
LEMMA SameKept ==
  ASSUME NEW p \in Peers, reinitTime'[p] = reinitTime[p], channel'[p] = channel[p]
  PROVE  KeyKept(p) /\ PairKept(p)
BY Zenon DEF KeyKept, PairKept

LEMMA IssuedKept ==
  ASSUME Shape, NEW p \in Peers, KeyKept(p), reinitTime'[p] \in Nat, NEW k, Issued(p, k)
  PROVE  Issued(p, k)'
<1>1. reinitTime[p] \in Nat /\ KeyEpoch(k) \in Nat /\ k \in Keys
  BY EpochType, Numbers, Zenon DEF Issued
<1>2. CASE reinitTime'[p] > reinitTime[p]
  <2>1. KeyEpoch(k) <= reinitTime'[p] /\ KeyEpoch(k) # reinitTime'[p]
    BY <1>1, <1>2 DEF Issued
  <2> QED BY <1>1, <2>1, Zenon DEF Issued, KeyEpoch
<1>3. CASE reinitTime'[p] = reinitTime[p] /\ \A c \in channel[p] : \E d \in channel'[p] : d.key = c.key
  BY <1>1, <1>3, Zenon DEF Issued, KeyEpoch
<1> QED BY <1>2, <1>3 DEF KeyKept

LEMMA AgreedKept ==
  ASSUME Shape, KeysKept, Shape', NEW q \in Peers, NEW k, NEW pk, Agreed(q, k, pk)
  PROVE  Agreed(q, k, pk)'
<1>1. Other(q) \in Peers /\ Other(q)' = Other(q)
  BY TwoPeers, Zenon DEF Other
<1>2. reinitTime'[q] \in Nat /\ reinitTime'[Other(q)] \in Nat /\ reinitTime[q] \in Nat /\ reinitTime[Other(q)] \in Nat
  BY <1>1, Numbers, NumbersNext, Zenon
<1>3. Issued(q, k) /\ Issued(Other(q), pk)
  BY Zenon DEF Agreed
<1>4. Issued(q, k)' /\ Issued(Other(q), pk)'
  BY <1>1, <1>2, <1>3, IssuedKept, Zenon DEF KeysKept
<1>5. ASSUME KeyEpoch(k) = reinitTime'[q], KeyEpoch(pk) = reinitTime'[Other(q)]
      PROVE  \E d \in channel'[q] : d.ready /\ d.key = k /\ d.peerKey = pk
  <2>0. KeyEpoch(k) \in Nat /\ KeyEpoch(pk) \in Nat
    BY <1>3, EpochType, Zenon DEF Issued
  <2>1. reinitTime'[q] = reinitTime[q]
    <3>1. KeyEpoch(k) <= reinitTime[q]
      BY <1>3, Zenon DEF Issued
    <3>2. ~(reinitTime'[q] > reinitTime[q])
      BY <1>2, <1>5, <2>0, <3>1
    <3> QED BY <3>2, Zenon DEF KeysKept, KeyKept
  <2>2. reinitTime'[Other(q)] = reinitTime[Other(q)]
    <3>1. KeyEpoch(pk) <= reinitTime[Other(q)]
      BY <1>3, Zenon DEF Issued
    <3>2. ~(reinitTime'[Other(q)] > reinitTime[Other(q)])
      BY <1>2, <1>5, <2>0, <3>1
    <3> QED BY <1>1, <3>2, Zenon DEF KeysKept, KeyKept
  <2>3. PICK c \in channel[q] : c.ready /\ c.key = k /\ c.peerKey = pk
    BY <1>5, <2>1, <2>2, Zenon DEF Agreed
  <2> QED BY <1>5, <2>1, <2>2, <2>3, Zenon DEF KeysKept, PairKept
<1> QED BY <1>1, <1>4, <1>5, Zenon DEF Agreed, KeyEpoch

\* A packet keeps saying what it says.
LEMMA PacketKept ==
  ASSUME Shape, KeysKept, Shape', NEW m \in net, PacketOK(m)
  PROVE  PacketOK(m)'
<1>1. m.src \in Peers /\ m.reinit \in Nat
  BY PacketFields, Zenon DEF Shape
<1>2. reinitTime[m.src] \in Nat /\ reinitTime'[m.src] \in Nat
  BY <1>1, Numbers, NumbersNext, Zenon
<1>3. m.reinit <= reinitTime'[m.src]
  <2>1. m.reinit <= reinitTime[m.src]
    BY Zenon DEF PacketOK
  <2>2. KeyKept(m.src)
    BY <1>1, Zenon DEF KeysKept
  <2>3. reinitTime'[m.src] > reinitTime[m.src] \/ reinitTime'[m.src] = reinitTime[m.src]
    BY <2>2, Zenon DEF KeyKept
  <2> QED BY ONLY <1>1, <1>2, <2>1, <2>3
<1>4. KeyKept(m.src)
  BY <1>1, Zenon DEF KeysKept
<1>5. \A k : Issued(m.src, k) => Issued(m.src, k)'
  BY <1>1, <1>2, <1>4, IssuedKept, Zenon
<1>6. \A k, pk : Agreed(m.src, k, pk) => Agreed(m.src, k, pk)'
  BY <1>1, AgreedKept, Zenon
<1> QED BY <1>3, <1>5, <1>6, Zenon DEF PacketOK, KeyEpoch, None

\* So does a channel, as long as the epochs are the same.
LEMMA ChannelKept ==
  ASSUME Shape, KeysKept, Shape', NEW p \in Peers, NEW c, ChannelOK(p, c),
         reinitTime'[p] = reinitTime[p], dstReinit'[p] = dstReinit[p]
  PROVE  ChannelOK(p, c)'
<1>1. Other(p) \in Peers /\ Other(p)' = Other(p)
  BY TwoPeers, Zenon DEF Other
<1>2. reinitTime'[p] \in Nat /\ reinitTime'[Other(p)] \in Nat
  BY <1>1, NumbersNext, Zenon
<1>3. \A k : Issued(p, k) => Issued(p, k)'
  BY <1>2, IssuedKept, Zenon DEF KeysKept
<1>4. \A k : Issued(Other(p), k) => Issued(Other(p), k)'
  BY <1>1, <1>2, IssuedKept, Zenon DEF KeysKept
<1>5. \A k, pk : Agreed(Other(p), k, pk) => Agreed(Other(p), k, pk)'
  BY <1>1, AgreedKept, Zenon
<1> QED BY <1>1, <1>3, <1>4, <1>5, Zenon DEF ChannelOK, KeyEpoch

-----------------------------------------------------------------------------
(* What a step leaves of the work in progress                              *)

\* The work of a thread is what it was, or is stale.
KeptAt(p, u) ==
  /\ \A k \in job'[p][u] : \E j \in job[p][u] :
       /\ k.packet = j.packet
       /\ Live(k) => /\ Live(j) /\ dstReinit'[p] = dstReinit[p] /\ window[p] \subseteq window'[p]
                     /\ Id(j.packet) \notin handled'[p]
  /\ \A k, l \in job'[p][u] : k = l

\* The thread has new work, on a packet that no other has live work on.
NewAt(p, t) ==
  \A k \in job'[p][t] :
    /\ JobOK(p, k)' /\ \A l \in job'[p][t] : l = k
    /\ Live(k) => \A u \in Threads[p] \ {t} : \A l \in job'[p][u] :
                    Live(l) => l.packet.seqno # k.packet.seqno

LEMMA JobsKept ==
  ASSUME NEW p \in Peers, JobsOK(p), net \subseteq net',
         \A u \in Threads[p] : KeptAt(p, u) \/ NewAt(p, u)
  PROVE  JobsOK(p)'
<1>0. \A t, u \in Threads[p] : \A j \in job[p][t], k \in job[p][u] :
        t # u /\ Live(j) /\ Live(k) => j.packet.seqno # k.packet.seqno
  BY Zenon DEF JobsOK
<1>1. ASSUME NEW t \in Threads[p], NEW k \in job'[p][t]
      PROVE  JobOK(p, k)' /\ \A l \in job'[p][t] : l = k
  <2>1. CASE KeptAt(p, t)
    <3>1. PICK j \in job[p][t] :
            /\ k.packet = j.packet
            /\ Live(k) => /\ Live(j) /\ dstReinit'[p] = dstReinit[p]
                          /\ window[p] \subseteq window'[p] /\ Id(j.packet) \notin handled'[p]
      BY <1>1, <2>1, Zenon DEF KeptAt
    <3>2. JobOK(p, j)
      BY <1>1, Zenon DEF JobsOK
    <3>3. k.packet \in net' /\ k.packet.src # p
      BY <3>1, <3>2, Zenon DEF JobOK
    <3>4. Live(k) => /\ k.packet.reinit = dstReinit'[p] /\ k.packet.seqno \in window'[p]
                     /\ Id(k.packet) \notin handled'[p]
      BY <3>1, <3>2, Zenon DEF JobOK
    <3>5. \A l \in job'[p][t] : l = k
      BY <1>1, <2>1, Zenon DEF KeptAt
    <3> QED BY <3>3, <3>4, <3>5, Zenon DEF JobOK, Live, Id
  <2>2. CASE NewAt(p, t)
    BY <1>1, <2>2, Zenon DEF NewAt
  <2> QED BY <1>1, <2>1, <2>2, Zenon
<1>2. ASSUME NEW t \in Threads[p], NEW u \in Threads[p], NEW k \in job'[p][t],
             NEW l \in job'[p][u], t # u, Live(k), Live(l)
      PROVE  k.packet.seqno # l.packet.seqno
  <2>1. CASE NewAt(p, t) \/ NewAt(p, u)
    BY <1>2, <2>1, Zenon DEF NewAt
  <2>2. CASE KeptAt(p, t) /\ KeptAt(p, u)
    <3>1. PICK i \in job[p][t] : k.packet = i.packet /\ Live(i)
      BY <1>2, <2>2, Zenon DEF KeptAt
    <3>2. PICK j \in job[p][u] : l.packet = j.packet /\ Live(j)
      BY <1>2, <2>2, Zenon DEF KeptAt
    <3>3. i.packet.seqno # j.packet.seqno
      BY ONLY <1>0, t \in Threads[p], u \in Threads[p], t # u, i \in job[p][t],
              j \in job[p][u], <3>1, <3>2, Zenon
    <3> QED BY ONLY <3>1, <3>2, <3>3
  <2> QED BY <2>1, <2>2, Zenon
<1>3. \A t \in Threads[p] : \A k \in job'[p][t] : JobOK(p, k)' /\ \A l \in job'[p][t] : l = k
  BY ONLY <1>1, Zenon
<1>4. \A t, u \in Threads[p] : \A k \in job'[p][t], l \in job'[p][u] :
        t # u /\ Live(k) /\ Live(l) => k.packet.seqno # l.packet.seqno
  BY ONLY <1>2, Zenon
<1> QED BY ONLY <1>3, <1>4, Zenon DEF JobsOK, Live

\* Work that is as it was.
LEMMA SameAt ==
  ASSUME NEW p \in Peers, JobsOK(p), NEW u \in Threads[p], job'[p][u] = job[p][u],
         dstReinit'[p] = dstReinit[p], window[p] \subseteq window'[p],
         \A j \in job[p][u] : Live(j) => Id(j.packet) \notin handled'[p]
  PROVE  KeptAt(p, u)
BY Zenon DEF KeptAt, JobsOK

\* Work that has become stale.
LEMMA StaleAt ==
  ASSUME Shape, NEW p \in Peers, JobsOK(p), NEW u \in Threads[p], job'[p][u] = Stale(job[p])[u]
  PROVE  KeptAt(p, u) /\ \A k \in job'[p][u] : ~Live(k)
<1>1. job[p] \in [Threads[p] -> SUBSET Jobs]
  BY Zenon DEF Shape, PeerShape
<1>2. job'[p][u] = {[j EXCEPT !.current = FALSE] : j \in job[p][u]}
  BY <1>1 DEF Stale
<1>3. ASSUME NEW j \in job[p][u]
      PROVE  LET k == [j EXCEPT !.current = FALSE] IN k.packet = j.packet /\ ~k.current
  <2>1. j \in Jobs
    BY <1>1
  <2> QED BY <2>1 DEF Jobs
<1>4. \A k \in job'[p][u] : ~Live(k) /\ \E j \in job[p][u] : k.packet = j.packet
  BY <1>2, <1>3, Zenon DEF Live
<1>5. \A k, l \in job'[p][u] : k = l
  BY <1>2, Zenon DEF JobsOK
<1> QED BY <1>4, <1>5, Zenon DEF KeptAt

\* A thread without work.
LEMMA NoneAt ==
  ASSUME NEW p, NEW t, job'[p][t] = {}
  PROVE  NewAt(p, t)
BY Zenon DEF NewAt

\* What was handled stays in the window.
LEMMA HandledKept ==
  ASSUME NEW p \in Peers, HandledOK(p), handled'[p] = handled[p],
         dstReinit'[p] = dstReinit[p], window[p] \subseteq window'[p]
  PROVE  HandledOK(p)'
BY Zenon DEF HandledOK

\* A peer that takes no part in a step.
LEMMA WorkKept ==
  ASSUME NEW p \in Peers, JobsOK(p), HandledOK(p), net \subseteq net',
         job'[p] = job[p], dstReinit'[p] = dstReinit[p], window'[p] = window[p],
         handled'[p] = handled[p]
  PROVE  JobsOK(p)' /\ HandledOK(p)'
<1>1. \A u \in Threads[p] : KeptAt(p, u)
  <2> TAKE u \in Threads[p]
  <2>1. \A j \in job[p][u] : Live(j) => Id(j.packet) \notin handled'[p]
    BY Zenon DEF JobsOK, JobOK
  <2> QED BY <2>1, SameAt, Zenon
<1> QED BY <1>1, JobsKept, HandledKept, Zenon

-----------------------------------------------------------------------------
(* Steps of one peer                                                       *)

\* Function g differs from f at most at p.
Changed(f, g, p) == g = [x \in Peers |-> g[x]] /\ \A q \in Peers \ {p} : g[q] = f[q]

LEMMA ChangedAt ==
  ASSUME NEW f, f = [x \in Peers |-> f[x]], NEW p \in Peers, NEW v, NEW g, g = [f EXCEPT ![p] = v]
  PROVE  Changed(f, g, p) /\ g[p] = v
BY DEF Changed

LEMMA ChangedNowhere ==
  ASSUME NEW f, f = [x \in Peers |-> f[x]], NEW p \in Peers, NEW g, g = f
  PROVE  Changed(f, g, p) /\ g[p] = f[p]
BY Zenon DEF Changed

\* A step changes what belongs to p, and nothing of the other peer.
Local(p) ==
  /\ Changed(reinitTime, reinitTime', p) /\ Changed(dstReinit, dstReinit', p)
  /\ Changed(channel, channel', p) /\ Changed(window, window', p)
  /\ Changed(job, job', p) /\ Changed(handled, handled', p)

LEMMA AllFunctions ==
  ASSUME Shape
  PROVE  /\ reinitTime = [x \in Peers |-> reinitTime[x]] /\ dstReinit = [x \in Peers |-> dstReinit[x]]
         /\ channel = [x \in Peers |-> channel[x]] /\ window = [x \in Peers |-> window[x]]
         /\ job = [x \in Peers |-> job[x]] /\ handled = [x \in Peers |-> handled[x]]
<1>1. channel = [x \in Peers |-> channel[x]] /\ job = [x \in Peers |-> job[x]]
      /\ handled = [x \in Peers |-> handled[x]]
  BY Zenon DEF Shape, PeerFunctions
<1>2. reinitTime \in [Peers -> Epochs] /\ dstReinit \in [Peers -> 0..MaxEpoch]
      /\ window \in [Peers -> SUBSET Nat]
  BY Zenon DEF Shape, Scalars
<1>3. reinitTime = [x \in Peers |-> reinitTime[x]] /\ dstReinit = [x \in Peers |-> dstReinit[x]]
  BY ONLY <1>2
<1>4. window = [x \in Peers |-> window[x]]
  BY ONLY <1>2
<1> QED BY <1>1, <1>3, <1>4, Zenon

LEMMA LocalShape ==
  ASSUME Shape, NEW p \in Peers, Local(p), Scalars', net' \subseteq Packets, PeerShape(p)'
  PROVE  Shape'
<1>1. PeerFunctions'
  BY Zenon DEF Local, Changed, PeerFunctions
<1>2. ASSUME NEW q \in Peers PROVE PeerShape(q)'
  <2>1. CASE q = p
    BY <2>1, Zenon
  <2>2. CASE q # p
    <3>1. channel'[q] = channel[q] /\ job'[q] = job[q] /\ handled'[q] = handled[q]
      BY <2>2, Zenon DEF Local, Changed
    <3>2. PeerShape(q)
      BY Zenon DEF Shape
    <3> QED BY <3>1, <3>2, Zenon DEF PeerShape
  <2> QED BY <2>1, <2>2
<1> QED BY <1>1, <1>2, Zenon DEF Shape

LEMMA LocalKeys ==
  ASSUME NEW p \in Peers, Local(p), KeyKept(p), PairKept(p)
  PROVE  KeysKept
<1> SUFFICES ASSUME NEW q \in Peers PROVE KeyKept(q) /\ PairKept(q)
  BY Zenon DEF KeysKept
<1>1. CASE q # p
  <2>1. reinitTime'[q] = reinitTime[q] /\ channel'[q] = channel[q]
    BY <1>1, Zenon DEF Local, Changed
  <2> QED BY <2>1, SameKept, Zenon
<1> QED BY <1>1, Zenon

\* A step keeps the invariant if it keeps the part of its peer, and if what it
\* sends is true.
LEMMA LocalStep ==
  ASSUME PeerInv, NEW p \in Peers, Local(p), Shape', KeysKept, net \subseteq net',
         \A m \in net' : m \in net \/ PacketOK(m)',
         \A c \in channel'[p] : ChannelOK(p, c)',
         JobsOK(p)', HandledOK(p)', ~replayed'
  PROVE  PeerInv'
<1>1. PacketsOK'
  BY PacketKept, Zenon DEF PeerInv, PacketsOK
<1>2. ChannelsOK'
  <2> SUFFICES ASSUME NEW q \in Peers, NEW c \in channel'[q] PROVE ChannelOK(q, c)'
    BY Zenon DEF ChannelsOK
  <2>1. CASE q # p
    <3>1. reinitTime'[q] = reinitTime[q] /\ channel'[q] = channel[q] /\ dstReinit'[q] = dstReinit[q]
      BY <2>1, Zenon DEF Local, Changed
    <3>2. ChannelOK(q, c)
      BY <3>1, Zenon DEF PeerInv, ChannelsOK
    <3> QED BY <3>1, <3>2, ChannelKept, Zenon DEF PeerInv
  <2> QED BY <2>1, Zenon
<1>3. WorkOK'
  <2> SUFFICES ASSUME NEW q \in Peers PROVE JobsOK(q)' /\ HandledOK(q)'
    BY Zenon DEF WorkOK
  <2>1. CASE q # p
    <3>1. dstReinit'[q] = dstReinit[q] /\ window'[q] = window[q] /\ job'[q] = job[q]
          /\ handled'[q] = handled[q]
      BY <2>1, Zenon DEF Local, Changed
    <3>2. JobsOK(q) /\ HandledOK(q)
      BY Zenon DEF PeerInv, WorkOK
    <3> QED BY <3>1, <3>2, WorkKept, Zenon
  <2> QED BY <2>1, Zenon
<1> QED BY <1>1, <1>2, <1>3, Zenon DEF PeerInv

-----------------------------------------------------------------------------
(* Sending                                                                 *)

LEMMA PacketType ==
  ASSUME Shape, NEW p \in Peers, NEW over, over = <<>> \/ over \in Keys \X Keys,
         NEW life \in Messages, NEW data \in BOOLEAN
  PROVE  Packet(p, over, life, data) \in Packets
<1>1. reinitTime[p] \in Epochs /\ dstReinit[p] \in 0..MaxEpoch /\ seqno[p] \in Nat
  BY Zenon DEF Shape, Scalars
<1>2. seqno[p] + 1 \in Nat
  BY <1>1
<1>3. over \in {<<>>} \cup (Keys \X Keys)
  BY Zenon
<1> QED BY <1>1, <1>2, <1>3, Zenon DEF Packet, Packets

\* The messages.
LEMMA MessageType ==
  /\ None \in Messages /\ None.type = "none"
  /\ \A k \in Keys, d \in Dates : Create(k, d) \in Messages
  /\ \A k, pk \in Keys, d \in Dates : Confirm(k, pk, d) \in Messages
<1>1. 0 \in Dates
  BY PeersAssumption DEF Dates
<1> QED BY <1>1, Zenon DEF None, Create, Confirm, Messages

LEMMA CreateFields == \A k, d : Create(k, d).type = "create" /\ Create(k, d).key = k
BY DEF Create

\* The fields of a channel.
LEMMA ChannelFields ==
  ASSUME Shape, NEW p \in Peers, NEW c \in channel[p]
  PROVE  /\ c \in Channels /\ c.key \in Keys /\ c.initDate \in Dates
         /\ c.ready <=> c.peerKey # NoKey
         /\ c.ready => c.peerKey \in Keys
<1>1. c \in Channels /\ (c.ready <=> c.peerKey # NoKey)
  BY Zenon DEF Shape, PeerShape
<1>2. c.key \in Keys /\ c.initDate \in Dates /\ c.peerKey \in Keys \cup {NoKey}
  BY <1>1, Zenon DEF Channels
<1> QED BY <1>1, <1>2, Zenon

\* A ready channel is one that its owner has set up.
LEMMA OwnChannel ==
  ASSUME PeerInv, NEW p \in Peers, NEW c \in channel[p], c.ready
  PROVE  Agreed(p, c.key, c.peerKey)
<1>1. ChannelOK(p, c)
  BY Zenon DEF PeerInv, ChannelsOK
<1> QED BY <1>1, Zenon DEF ChannelOK, Agreed

\* The invariant, part by part, for a peer.
LEMMA Parts ==
  ASSUME PeerInv, NEW p \in Peers
  PROVE  /\ Shape /\ PeerShape(p) /\ JobsOK(p) /\ HandledOK(p) /\ ~replayed
         /\ \A c \in channel[p] : ChannelOK(p, c)
         /\ \A m \in net : m \in Packets /\ PacketOK(m)
BY Zenon DEF PeerInv, Shape, WorkOK, ChannelsOK, PacketsOK

\* A packet leaves p; the channel, the epochs and the window stay.
Sends(p, m) ==
  /\ Emit(p, m) /\ m \in Packets
  /\ UNCHANGED <<clock, reinitTime, dstReinit, window, heard, handled, replayed>>

LEMMA SendsScalars ==
  ASSUME Shape, NEW p \in Peers, NEW m, Sends(p, m), keys' \in [Peers -> Nat]
  PROVE  Scalars' /\ net' \subseteq Packets /\ net \subseteq net'
<1>1. seqno' \in [Peers -> Nat]
  <2>1. seqno \in [Peers -> Nat] /\ seqno' = [seqno EXCEPT ![p] = seqno[p] + 1]
    BY Zenon DEF Shape, Scalars, Sends, Emit
  <2> QED BY ONLY <2>1, p \in Peers
<1>2. Scalars'
  BY <1>1, Zenon DEF Shape, Scalars, Sends
<1>3. net' = net \cup {m} /\ m \in Packets /\ net \subseteq Packets
  BY Zenon DEF Shape, Sends, Emit
<1> QED BY <1>2, <1>3, Zenon

LEMMA SendsLocal ==
  ASSUME Shape, NEW p \in Peers, NEW m, Sends(p, m), Changed(channel, channel', p), Changed(job, job', p)
  PROVE  /\ Local(p) /\ reinitTime'[p] = reinitTime[p] /\ dstReinit'[p] = dstReinit[p]
         /\ window'[p] = window[p] /\ handled'[p] = handled[p]
BY AllFunctions, ChangedNowhere, Zenon DEF Local, Sends

\* SendReady and RespondReinit: the channel stays.
LEMMA SendSame ==
  ASSUME PeerInv, NEW p \in Peers, NEW m, Sends(p, m), PacketOK(m), m.src = p,
         channel' = channel, keys' = keys, Changed(job, job', p), JobsOK(p)',
         job'[p] \in [Threads[p] -> SUBSET Jobs]
  PROVE  PeerInv'
<1>0. /\ Shape /\ PeerShape(p) /\ HandledOK(p) /\ ~replayed
      /\ \A c \in channel[p] : ChannelOK(p, c)
  BY Parts, Zenon
<1>1. keys' \in [Peers -> Nat]
  BY <1>0, Zenon DEF Shape, Scalars
<1>2. Scalars' /\ net' \subseteq Packets /\ net \subseteq net'
  BY <1>0, <1>1, SendsScalars, Zenon
<1>3. Changed(channel, channel', p) /\ channel'[p] = channel[p]
  BY <1>0, AllFunctions, ChangedNowhere, Zenon
<1>4. /\ Local(p) /\ reinitTime'[p] = reinitTime[p] /\ dstReinit'[p] = dstReinit[p]
      /\ window'[p] = window[p] /\ handled'[p] = handled[p]
  BY <1>0, <1>3, SendsLocal, Zenon
<1>5. PeerShape(p)'
  BY <1>0, <1>3, <1>4, Zenon DEF PeerShape
<1>6. Shape'
  BY <1>0, <1>2, <1>4, <1>5, LocalShape, Zenon
<1>7. KeysKept
  BY <1>3, <1>4, SameKept, LocalKeys, Zenon
<1>8. \A c \in channel'[p] : ChannelOK(p, c)'
  BY <1>0, <1>3, <1>4, <1>6, <1>7, ChannelKept, Zenon
<1>9. PacketOK(m)'
  <2>1. reinitTime' = reinitTime /\ channel' = channel
    BY Zenon DEF Sends
  <2>2. \A q, k : Issued(q, k) => Issued(q, k)'
    BY <2>1, Zenon DEF Issued, KeyEpoch, Keys, Epochs
  <2>3. \A q, k, pk : Agreed(q, k, pk) => Agreed(q, k, pk)'
    BY <2>1, <2>2, Zenon DEF Agreed, KeyEpoch, Other
  <2> QED BY <2>1, <2>2, <2>3, Zenon DEF PacketOK, KeyEpoch, None
<1>10. net' = net \cup {m} /\ replayed' = replayed
  BY Zenon DEF Sends, Emit
<1>11. HandledOK(p)'
  BY <1>0, <1>4, HandledKept, Zenon
<1> QED BY <1>0, <1>2, <1>4, <1>6, <1>7, <1>8, <1>9, <1>10, <1>11, LocalStep, Zenon

\* Jobs that stay as they are.
LEMMA SameJobs ==
  ASSUME PeerInv, NEW p \in Peers, job' = job, net \subseteq net', dstReinit'[p] = dstReinit[p],
         window'[p] = window[p], handled'[p] = handled[p]
  PROVE  Changed(job, job', p) /\ JobsOK(p)' /\ job'[p] \in [Threads[p] -> SUBSET Jobs]
<1>0. Shape /\ PeerShape(p) /\ JobsOK(p) /\ HandledOK(p)
  BY Parts, Zenon
<1>1. Changed(job, job', p) /\ job'[p] = job[p]
  BY <1>0, AllFunctions, ChangedNowhere, Zenon
<1> QED BY <1>0, <1>1, WorkKept, Zenon DEF PeerShape

LEMMA InvSendReady ==
  ASSUME PeerInv, NEW p \in Peers, SendReady(p)
  PROVE  PeerInv'
<1>0. Shape
  BY Zenon DEF PeerInv
<1>1. PICK c \in channel[p] :
        /\ c.ready
        /\ \/ ~c.wantConfirm /\ Emit(p, Packet(p, <<c.key, c.peerKey>>, None, TRUE))
           \/ Emit(p, Packet(p, <<>>, Confirm(c.key, c.peerKey, c.initDate), TRUE))
           \/ Emit(p, Packet(p, <<>>, None, TRUE))
  BY Zenon DEF SendReady
<1>2. c.key \in Keys /\ c.peerKey \in Keys /\ c.initDate \in Dates
  BY <1>0, <1>1, ChannelFields, Zenon
<1>3. ChannelOK(p, c) /\ Agreed(p, c.key, c.peerKey) /\ KeyEpoch(c.key) = reinitTime[p]
  BY <1>1, OwnChannel, Parts, Zenon DEF ChannelOK
<1>4. reinitTime[p] <= reinitTime[p]
  BY <1>0, Numbers
<1>5. /\ UNCHANGED <<clock, reinitTime, dstReinit, window, heard, handled, replayed>>
      /\ channel' = channel /\ keys' = keys /\ job' = job
  BY Zenon DEF SendReady, history
<1>6. ASSUME NEW m, Emit(p, m), m \in Packets, PacketOK(m), m.src = p PROVE PeerInv'
  <2>1. Sends(p, m)
    BY <1>5, <1>6, Zenon DEF Sends
  <2>2. net \subseteq net'
    BY <1>6, Zenon DEF Emit
  <2>3. Changed(job, job', p) /\ JobsOK(p)' /\ job'[p] \in [Threads[p] -> SUBSET Jobs]
    BY <1>5, <2>2, SameJobs, Zenon
  <2> QED BY <1>5, <1>6, <2>1, <2>3, SendSame, Zenon
<1>7. CASE Emit(p, Packet(p, <<c.key, c.peerKey>>, None, TRUE))
  <2> DEFINE m == Packet(p, <<c.key, c.peerKey>>, None, TRUE)
  <2>1. m \in Packets
    <3>1. <<c.key, c.peerKey>> \in Keys \X Keys
      BY <1>2, Zenon
    <3> QED BY <1>0, <3>1, MessageType, PacketType, Zenon
  <2>2. /\ m.src = p /\ m.over = <<c.key, c.peerKey>> /\ m.life = None /\ m.reinit = reinitTime[p]
    BY DEF Packet
  <2> HIDE DEF m
  <2>3. m.over[1] = c.key /\ m.over[2] = c.peerKey
    BY <2>2
  <2>4. m.life.type = "none"
    BY <2>2, MessageType, Zenon
  <2>5. PacketOK(m)
    BY <1>3, <1>4, <2>2, <2>3, <2>4 DEF PacketOK
  <2> QED BY <1>6, <1>7, <2>1, <2>2, <2>5, Zenon DEF m
<1>8. CASE Emit(p, Packet(p, <<>>, Confirm(c.key, c.peerKey, c.initDate), TRUE))
  <2> DEFINE m == Packet(p, <<>>, Confirm(c.key, c.peerKey, c.initDate), TRUE)
  <2>1. m \in Packets
    BY <1>0, <1>2, MessageType, PacketType, Zenon
  <2>2. /\ m.src = p /\ m.over = <<>> /\ m.life = Confirm(c.key, c.peerKey, c.initDate)
        /\ m.reinit = reinitTime[p]
    BY DEF Packet
  <2> HIDE DEF m
  <2>3. m.life.type = "confirm" /\ m.life.key = c.key /\ m.life.peerKey = c.peerKey
    BY <2>2 DEF Confirm
  <2>4. PacketOK(m)
    BY <1>3, <1>4, <2>2, <2>3 DEF PacketOK
  <2> QED BY <1>6, <1>8, <2>1, <2>2, <2>4, Zenon DEF m
<1>9. CASE Emit(p, Packet(p, <<>>, None, TRUE))
  <2> DEFINE m == Packet(p, <<>>, None, TRUE)
  <2>1. m \in Packets
    BY <1>0, MessageType, PacketType, Zenon
  <2>2. m.src = p /\ m.over = <<>> /\ m.life = None /\ m.reinit = reinitTime[p]
    BY DEF Packet
  <2> HIDE DEF m
  <2>3. m.life.type = "none"
    BY <2>2, MessageType, Zenon
  <2>4. PacketOK(m)
    BY <1>4, <2>2, <2>3 DEF PacketOK
  <2> QED BY <1>6, <1>9, <2>1, <2>2, <2>4, Zenon DEF m
<1> QED BY <1>1, <1>7, <1>8, <1>9, Zenon

LEMMA NewKeyType ==
  ASSUME Shape, NEW p \in Peers
  PROVE  NewKey(p) \in Keys /\ KeyEpoch(NewKey(p)) = reinitTime[p]
<1>1. reinitTime[p] \in Epochs /\ keys[p] \in Nat
  BY Zenon DEF Shape, Scalars
<1> QED BY <1>1 DEF NewKey, Keys, KeyEpoch

\* One more key of p.
LEMMA KeysType ==
  ASSUME Shape, NEW p \in Peers, keys' = [keys EXCEPT ![p] = @ + 1]
  PROVE  keys' \in [Peers -> Nat]
<1>1. keys \in [Peers -> Nat]
  BY Zenon DEF Shape, Scalars
<1> QED BY <1>1

LEMMA PendingFields ==
  ASSUME NEW k \in Keys, NEW d \in Dates
  PROVE  /\ Pending(k, d) \in Channels /\ ~Pending(k, d).ready
         /\ Pending(k, d).key = k /\ Pending(k, d).peerKey = NoKey /\ Pending(k, d).initDate = d
<1>1. 0 \in Dates
  BY PeersAssumption DEF Dates
<1>2. Pending(k, d) \in Channels
  BY <1>1, Zenon DEF Pending, Channels
<1> QED BY <1>2 DEF Pending

\* The first key of an epoch.
LEMMA SendFirst ==
  ASSUME PeerInv, NEW p \in Peers, NEW c, c = Pending(NewKey(p), clock), channel[p] = {},
         channel' = [channel EXCEPT ![p] = {c}], keys' = [keys EXCEPT ![p] = @ + 1],
         NEW m, m = Packet(p, <<>>, Create(c.key, c.initDate), TRUE), Emit(p, m), job' = job,
         UNCHANGED <<clock, reinitTime, dstReinit, window, heard, handled, replayed>>
  PROVE  PeerInv'
<1>0. /\ Shape /\ PeerShape(p) /\ HandledOK(p) /\ ~replayed
  BY Parts, Zenon
<1>1. NewKey(p) \in Keys /\ KeyEpoch(NewKey(p)) = reinitTime[p]
  BY <1>0, NewKeyType, Zenon
<1>2. clock \in Dates
  <2>1. clock \in 1..MaxClock
    BY <1>0, Zenon DEF Shape, Scalars
  <2> QED BY <2>1, PeersAssumption DEF Dates
<1>3. c \in Channels /\ ~c.ready /\ c.key = NewKey(p) /\ c.peerKey = NoKey /\ c.initDate = clock
  BY ONLY c = Pending(NewKey(p), clock), <1>1, <1>2, PendingFields
<1>4. m \in Packets
  BY <1>0, <1>1, <1>2, <1>3, MessageType, PacketType, Zenon
<1>5. Sends(p, m)
  BY <1>4, Zenon DEF Sends
<1>6. Scalars' /\ net' \subseteq Packets /\ net \subseteq net'
  BY <1>0, <1>5, SendsScalars, KeysType, Zenon
<1>7. Changed(channel, channel', p) /\ channel'[p] = {c}
  BY <1>0, AllFunctions, ChangedAt, Zenon
<1>8. dstReinit'[p] = dstReinit[p] /\ window'[p] = window[p] /\ handled'[p] = handled[p]
      /\ reinitTime'[p] = reinitTime[p]
  BY Zenon
<1>9. Changed(job, job', p) /\ JobsOK(p)' /\ job'[p] \in [Threads[p] -> SUBSET Jobs]
  BY <1>6, <1>8, SameJobs, Zenon
<1>10. Local(p)
  BY <1>0, <1>5, <1>7, <1>9, SendsLocal, Zenon
<1>11. PeerShape(p)'
  BY <1>0, <1>3, <1>7, <1>8, <1>9, Zenon DEF PeerShape
<1>12. Shape'
  BY <1>0, <1>6, <1>10, <1>11, LocalShape, Zenon
<1>13. KeysKept
  <2>1. KeyKept(p) /\ PairKept(p)
    BY <1>8, Zenon DEF KeyKept, PairKept
  <2> QED BY <1>10, <2>1, LocalKeys, Zenon
<1>14. Issued(p, c.key)' /\ KeyEpoch(c.key) = reinitTime'[p]
  <2>1. KeyEpoch(c.key) = reinitTime'[p] /\ c.key \in Keys
    BY <1>1, <1>3, <1>8, Zenon
  <2>2. KeyEpoch(c.key) <= reinitTime'[p]
    <3>1. reinitTime[p] \in Nat
      BY <1>0, Numbers, Zenon
    <3> QED BY ONLY <1>8, <2>1, <3>1
  <2> QED BY <1>7, <2>1, <2>2, Zenon DEF Issued, KeyEpoch
<1>15. \A e \in channel'[p] : ChannelOK(p, e)'
  BY <1>3, <1>7, <1>14, Zenon DEF ChannelOK, KeyEpoch
<1>16. PacketOK(m)'
  <2>1. m.src = p /\ m.over = <<>> /\ m.life = Create(c.key, c.initDate) /\ m.reinit = reinitTime[p]
    BY DEF Packet
  <2>2. m.life.type = "create" /\ m.life.key = c.key
    <3>1. Create(c.key, c.initDate).type = "create" /\ Create(c.key, c.initDate).key = c.key
      BY ONLY CreateFields, Zenon
    <3> QED BY ONLY <2>1, <3>1, Zenon
  <2>3. m.reinit <= reinitTime'[p]
    <3>1. reinitTime[p] \in Nat
      BY <1>0, Numbers, Zenon
    <3> QED BY ONLY <1>8, <2>1, <3>1
  <2> QED BY ONLY <1>8, <1>14, <2>1, <2>2, <2>3 DEF PacketOK, KeyEpoch
<1>17. net' = net \cup {m} /\ replayed' = replayed
  BY Zenon DEF Emit
<1>18. HandledOK(p)'
  BY <1>0, <1>8, HandledKept, Zenon
<1>19. (\A x \in net' : x \in net \/ PacketOK(x)') /\ ~replayed'
  BY ONLY <1>0, <1>16, <1>17, Zenon
<1> QED BY ONLY PeerInv, p \in Peers, <1>6, <1>9, <1>10, <1>12, <1>13, <1>15, <1>18, <1>19, LocalStep, Zenon

LEMMA InvSendPending ==
  ASSUME PeerInv, NEW p \in Peers, SendPending(p)
  PROVE  PeerInv'
<1>0. Shape
  BY Zenon DEF PeerInv
<1>1. /\ UNCHANGED <<clock, reinitTime, dstReinit, window, heard, handled, replayed>> /\ job' = job
  BY Zenon DEF SendPending, history
<1>2. PICK c \in channel'[p] : Emit(p, Packet(p, <<>>, Create(c.key, c.initDate), TRUE))
  BY Zenon DEF SendPending
<1> DEFINE m == Packet(p, <<>>, Create(c.key, c.initDate), TRUE)
<1>3. CASE channel[p] = {}
  <2>1. /\ channel' = [channel EXCEPT ![p] = {Pending(NewKey(p), clock)}]
        /\ keys' = [keys EXCEPT ![p] = @ + 1]
    BY <1>3, Zenon DEF SendPending
  <2>2. channel'[p] = {Pending(NewKey(p), clock)}
    BY <1>0, <2>1, AllFunctions, ChangedAt, Zenon
  <2>3. c = Pending(NewKey(p), clock)
    BY <1>2, <2>2, Zenon
  <2> HIDE DEF m
  <2> QED BY <1>1, <1>2, <1>3, <2>1, <2>3, SendFirst, Zenon DEF m
<1>4. CASE channel[p] # {}
  <2>1. channel' = channel /\ keys' = keys
    BY <1>4, Zenon DEF SendPending
  <2>2. c.key \in Keys /\ c.initDate \in Dates
    BY <1>0, <1>2, <2>1, ChannelFields, Zenon
  <2>3. ChannelOK(p, c)
    BY <1>2, <2>1, Parts, Zenon
  <2>4. m \in Packets
    BY <1>0, <2>2, MessageType, PacketType, Zenon
  <2>5. m.src = p /\ m.over = <<>> /\ m.life = Create(c.key, c.initDate) /\ m.reinit = reinitTime[p]
    BY DEF Packet
  <2> HIDE DEF m
  <2>6. m.life.type = "create" /\ m.life.key = c.key
    <3>1. Create(c.key, c.initDate).type = "create" /\ Create(c.key, c.initDate).key = c.key
      BY ONLY CreateFields, Zenon
    <3> QED BY ONLY <2>5, <3>1, Zenon
  <2>7. reinitTime[p] <= reinitTime[p]
    BY <1>0, Numbers
  <2>8. PacketOK(m)
    BY <2>3, <2>5, <2>6, <2>7 DEF PacketOK, ChannelOK
  <2>9. Sends(p, m)
    BY <1>1, <1>2, <2>4, Zenon DEF Sends, m
  <2>10. net \subseteq net'
    BY <2>9, Zenon DEF Sends, Emit
  <2>11. Changed(job, job', p) /\ JobsOK(p)' /\ job'[p] \in [Threads[p] -> SUBSET Jobs]
    BY <1>1, <2>10, SameJobs, Zenon
  <2> QED BY <2>1, <2>5, <2>8, <2>9, <2>11, SendSame, Zenon
<1> QED BY <1>3, <1>4, Zenon

-----------------------------------------------------------------------------
(* The work of threads                                                     *)

\* The jobs of p become J, with S for thread t.
LEMMA JobsAt ==
  ASSUME NEW p, NEW J \in [Threads[p] -> SUBSET Jobs], NEW t \in Threads[p],
         NEW S \in SUBSET Jobs, job'[p] = [J EXCEPT ![t] = S]
  PROVE  /\ job'[p] \in [Threads[p] -> SUBSET Jobs]
         /\ job'[p][t] = S /\ \A u \in Threads[p] \ {t} : job'[p][u] = J[u]
OBVIOUS

LEMMA StaleType ==
  ASSUME NEW T, NEW J \in [T -> SUBSET Jobs]
  PROVE  Stale(J) \in [T -> SUBSET Jobs]
<1>1. ASSUME NEW j \in Jobs PROVE [j EXCEPT !.current = FALSE] \in Jobs
  BY DEF Jobs
<1>2. ASSUME NEW u \in T PROVE {[j EXCEPT !.current = FALSE] : j \in J[u]} \subseteq Jobs
  <2>1. J[u] \subseteq Jobs
    BY Zenon
  <2> QED BY <1>1, <2>1, Zenon
<1>3. DOMAIN J = T
  BY Zenon
<1> QED BY <1>2, <1>3, Zenon DEF Stale

\* A thread drops its work.
LEMMA Dropped ==
  ASSUME PeerInv, NEW p \in Peers, NEW t \in Threads[p], Drop(p, t), net \subseteq net',
         dstReinit'[p] = dstReinit[p], window'[p] = window[p],
         \A u \in Threads[p] \ {t} : \A j \in job[p][u] : Live(j) => Id(j.packet) \notin handled'[p]
  PROVE  Changed(job, job', p) /\ JobsOK(p)' /\ job'[p] \in [Threads[p] -> SUBSET Jobs]
<1>0. Shape /\ PeerShape(p) /\ JobsOK(p)
  BY Parts, Zenon
<1>1. job[p] \in [Threads[p] -> SUBSET Jobs]
  BY <1>0, Zenon DEF PeerShape
<1>2. job' = [job EXCEPT ![p] = [job[p] EXCEPT ![t] = {}]]
  BY Zenon DEF Drop
<1>3. /\ Changed(job, job', p) /\ job'[p] \in [Threads[p] -> SUBSET Jobs]
      /\ job'[p][t] = {} /\ \A u \in Threads[p] \ {t} : job'[p][u] = job[p][u]
  <2>1. Changed(job, job', p) /\ job'[p] = [job[p] EXCEPT ![t] = {}]
    BY <1>0, <1>2, AllFunctions, ChangedAt, Zenon
  <2>2. {} \in SUBSET Jobs
    BY Zenon
  <2> QED BY <1>1, <2>1, <2>2, JobsAt, Zenon
<1>4. \A u \in Threads[p] : KeptAt(p, u) \/ NewAt(p, u)
  <2> TAKE u \in Threads[p]
  <2>1. CASE u = t
    BY <1>3, <2>1, NoneAt, Zenon
  <2>2. CASE u # t
    BY <1>0, <1>3, <2>2, SameAt, Zenon
  <2> QED BY <2>1, <2>2
<1> QED BY <1>0, <1>3, <1>4, JobsKept, Zenon

LEMMA InvRespond ==
  ASSUME PeerInv, NEW p \in Peers, NEW t \in Threads[p], RespondReinit(p, t)
  PROVE  PeerInv'
<1>0. Shape /\ JobsOK(p)
  BY Parts, Zenon
<1> DEFINE m == Packet(p, <<>>, None, FALSE)
<1>1. /\ UNCHANGED <<clock, reinitTime, dstReinit, window, heard, handled, replayed>>
      /\ channel' = channel /\ keys' = keys /\ Emit(p, m) /\ Drop(p, t)
  BY Zenon DEF RespondReinit, history
<1>2. m \in Packets
  BY <1>0, MessageType, PacketType, Zenon
<1>3. m.src = p /\ m.over = <<>> /\ m.life = None /\ m.reinit = reinitTime[p]
  BY DEF Packet
<1> HIDE DEF m
<1>4. m.life.type = "none"
  BY <1>3, MessageType, Zenon
<1>5. reinitTime[p] <= reinitTime[p]
  BY <1>0, Numbers
<1>6. PacketOK(m)
  BY <1>3, <1>4, <1>5 DEF PacketOK
<1>7. Sends(p, m)
  BY <1>1, <1>2, Zenon DEF Sends
<1>8. net \subseteq net'
  BY <1>1, Zenon DEF Emit
<1>9. \A u \in Threads[p] \ {t} : \A j \in job[p][u] : Live(j) => Id(j.packet) \notin handled'[p]
  BY <1>0, <1>1, Zenon DEF JobsOK, JobOK
<1>10. Changed(job, job', p) /\ JobsOK(p)' /\ job'[p] \in [Threads[p] -> SUBSET Jobs]
  BY <1>1, <1>8, <1>9, Dropped, Zenon
<1> QED BY <1>1, <1>3, <1>6, <1>7, <1>10, SendSame, Zenon

-----------------------------------------------------------------------------
(* Epochs                                                                  *)

\* Steps that touch neither epochs, windows, channels nor work.
LEMMA Unmoved ==
  ASSUME PeerInv, Scalars',
         UNCHANGED <<reinitTime, dstReinit, window, channel, job, net, handled, replayed>>
  PROVE  PeerInv'
<1>1. PICK p \in Peers : TRUE
  BY PeersAssumption, Zenon
<1>2. /\ Shape /\ PeerShape(p) /\ JobsOK(p) /\ HandledOK(p) /\ ~replayed
      /\ \A c \in channel[p] : ChannelOK(p, c)
  BY Parts, Zenon
<1>3. Local(p)
  BY <1>2, AllFunctions, ChangedNowhere, Zenon DEF Local
<1>4. PeerShape(p)'
  BY <1>2, Zenon DEF PeerShape
<1>5. Shape'
  <2>1. net' \subseteq Packets
    BY <1>2, Zenon DEF Shape
  <2> QED BY <1>2, <1>3, <1>4, <2>1, LocalShape, Zenon
<1>6. KeysKept
  BY <1>3, SameKept, LocalKeys, Zenon
<1>7. \A c \in channel'[p] : ChannelOK(p, c)'
  BY <1>2, <1>5, <1>6, ChannelKept, Zenon
<1>8. JobsOK(p)' /\ HandledOK(p)'
  BY <1>2, WorkKept, Zenon
<1>9. net \subseteq net' /\ (\A m \in net' : m \in net \/ PacketOK(m)') /\ ~replayed'
  BY <1>2, Zenon
<1> QED BY <1>3, <1>5, <1>6, <1>7, <1>8, <1>9, LocalStep, Zenon

LEMMA InvTick == PeerInv /\ Tick => PeerInv'
<1> SUFFICES ASSUME PeerInv, Tick PROVE PeerInv'
  OBVIOUS
<1>1. UNCHANGED <<reinitTime, dstReinit, window, channel, job, net, handled, replayed, seqno, heard, keys>>
  BY Zenon DEF Tick, conn, history
<1>2. clock' \in 1..MaxClock
  <2>1. clock \in 1..MaxClock
    BY Zenon DEF PeerInv, Shape, Scalars
  <2>2. clock < MaxClock /\ clock' = clock + 1
    BY Zenon DEF Tick
  <2> QED BY ONLY <2>1, <2>2, PeersAssumption
<1>3. Scalars'
  BY <1>1, <1>2, Zenon DEF PeerInv, Shape, Scalars
<1> QED BY <1>1, <1>3, Unmoved, Zenon

\* All the work of a peer becomes stale.
LEMMA AllStale ==
  ASSUME PeerInv, NEW p \in Peers, job'[p] = Stale(job[p]), net \subseteq net'
  PROVE  JobsOK(p)' /\ job'[p] \in [Threads[p] -> SUBSET Jobs]
<1>1. Shape /\ PeerShape(p) /\ JobsOK(p)
  BY Parts, Zenon
<1>2. job'[p] \in [Threads[p] -> SUBSET Jobs]
  <2>1. Stale(job[p]) \in [Threads[p] -> SUBSET Jobs]
    BY ONLY <1>1, StaleType, Zenon DEF PeerShape
  <2> QED BY ONLY <2>1, job'[p] = Stale(job[p])
<1>3. \A u \in Threads[p] : KeptAt(p, u)
  BY <1>1, StaleAt, Zenon
<1> QED BY <1>1, <1>2, <1>3, JobsKept, Zenon

LEMMA InvReinit ==
  ASSUME PeerInv, NEW p \in Peers, Reinit(p)
  PROVE  PeerInv'
<1> DEFINE tm == Greater(clock, reinitTime[p] + 1)
<1>0. Shape /\ PeerShape(p) /\ ~replayed
  BY Parts, Zenon
<1>1. /\ tm <= MaxEpoch
      /\ reinitTime' = [reinitTime EXCEPT ![p] = tm] /\ dstReinit' = [dstReinit EXCEPT ![p] = 0]
      /\ seqno' = [seqno EXCEPT ![p] = 0] /\ window' = [window EXCEPT ![p] = {}]
      /\ channel' = [channel EXCEPT ![p] = {}] /\ job' = [job EXCEPT ![p] = Stale(job[p])]
      /\ heard' = [heard EXCEPT ![p] = FALSE] /\ handled' = [handled EXCEPT ![p] = {}]
      /\ UNCHANGED <<clock, keys, net, replayed>>
  BY Zenon DEF Reinit
<1>2. tm \in Epochs /\ tm > reinitTime[p]
  <2>1. reinitTime[p] \in Nat
    BY <1>0, Numbers, Zenon
  <2>2. clock \in 1..MaxClock
    BY <1>0, Zenon DEF Shape, Scalars
  <2> QED BY ONLY <1>1, <2>1, <2>2, PeersAssumption DEF Greater, Epochs
<1> HIDE DEF tm
<1>3. /\ reinitTime'[p] = tm /\ dstReinit'[p] = 0 /\ window'[p] = {} /\ channel'[p] = {}
      /\ job'[p] = Stale(job[p]) /\ handled'[p] = {} /\ Local(p)
  BY <1>0, <1>1, AllFunctions, ChangedAt, Zenon DEF Local
<1>4. Scalars'
  <2>1. Scalars
    BY <1>0, Zenon DEF Shape
  <2>2. reinitTime' \in [Peers -> Epochs]
    BY <1>1, <1>2, <2>1, Zenon DEF Scalars
  <2>3. dstReinit' \in [Peers -> 0..MaxEpoch]
    <3>1. dstReinit \in [Peers -> 0..MaxEpoch] /\ 0 \in 0..MaxEpoch
      BY <2>1, PeersAssumption DEF Scalars
    <3> QED BY <1>1, <3>1, Zenon
  <2>4. seqno' \in [Peers -> Nat]
    <3>1. seqno \in [Peers -> Nat] /\ 0 \in Nat
      BY <2>1 DEF Scalars
    <3> QED BY <1>1, <3>1, Zenon
  <2>5. window' \in [Peers -> SUBSET Nat] /\ heard' \in [Peers -> BOOLEAN]
    BY <1>1, <2>1, Zenon DEF Scalars
  <2> QED BY <1>1, <2>1, <2>2, <2>3, <2>4, <2>5, Zenon DEF Scalars
<1>5. net' = net /\ net' \subseteq Packets
  BY <1>0, <1>1, Zenon DEF Shape
<1>6. JobsOK(p)' /\ job'[p] \in [Threads[p] -> SUBSET Jobs]
  BY <1>3, <1>5, AllStale, Zenon
<1>7. PeerShape(p)'
  BY <1>3, <1>6, Zenon DEF PeerShape
<1>8. Shape'
  BY <1>0, <1>3, <1>4, <1>5, <1>7, LocalShape, Zenon
<1>9. KeysKept
  <2>1. reinitTime'[p] > reinitTime[p]
    BY <1>2, <1>3, Zenon
  <2>2. reinitTime'[p] # reinitTime[p]
    <3>1. reinitTime[p] \in Nat /\ reinitTime'[p] \in Nat
      BY <1>0, <1>8, Numbers, NumbersNext, Zenon
    <3> QED BY ONLY <2>1, <3>1
  <2>3. KeyKept(p) /\ PairKept(p)
    BY <2>1, <2>2, Zenon DEF KeyKept, PairKept
  <2> QED BY <1>3, <2>3, LocalKeys, Zenon
<1>10. (\A c \in channel'[p] : ChannelOK(p, c)') /\ HandledOK(p)'
  BY <1>3, Zenon DEF HandledOK
<1>11. net \subseteq net' /\ (\A m \in net' : m \in net \/ PacketOK(m)') /\ ~replayed'
  BY <1>0, <1>1, Zenon
<1> QED BY ONLY PeerInv, p \in Peers, <1>3, <1>6, <1>8, <1>9, <1>10, <1>11, LocalStep, Zenon

-----------------------------------------------------------------------------
(* Receiving                                                               *)

Stages == {"respond", "life", "data"}

LEMMA StartFields ==
  ASSUME NEW m \in Packets, NEW a \in Stages
  PROVE  /\ Start(a, m) \in Jobs /\ {Start(a, m)} \in SUBSET Jobs
         /\ Start(a, m).packet = m /\ (Live(Start(a, m)) <=> a # "respond")
<1>1. Start(a, m) \in Jobs
  BY Zenon DEF Start, Jobs, Stages
<1>2. Start(a, m).packet = m /\ Start(a, m).at = a /\ Start(a, m).current
  BY DEF Start
<1> QED BY <1>1, <1>2, Zenon DEF Live

\* A packet of a newer epoch, or of the known one with a seqno that the window
\* does not have, has not been handled.
LEMMA NotHandled ==
  ASSUME PeerInv, NEW p \in Peers, NEW m \in Packets,
         m.reinit > dstReinit[p] \/ (m.reinit = dstReinit[p] /\ m.seqno \notin window[p])
  PROVE  Id(m) \notin handled[p]
<1>0. Shape /\ PeerShape(p) /\ HandledOK(p)
  BY Parts, Zenon
<1>1. SUFFICES ASSUME Id(m) \in handled[p] PROVE FALSE
  OBVIOUS
<1>2. Id(m)[1] = m.reinit /\ Id(m)[2] = m.seqno
  BY DEF Id
<1>3. Id(m)[1] <= dstReinit[p] /\ (Id(m)[1] = dstReinit[p] => Id(m)[2] \in window[p])
  BY <1>0, <1>1, Zenon DEF HandledOK
<1>4. dstReinit[p] \in Nat /\ m.reinit \in Nat
  BY <1>0, Numbers, PacketFields, Zenon
<1>5. ~(m.reinit > dstReinit[p])
  BY ONLY <1>2, <1>3, <1>4
<1> QED BY <1>2, <1>3, <1>5, Zenon

\* The window has just let the packet in, unless it is only answered.
JustLetIn(p, m, a) ==
  /\ net' = net /\ handled'[p] = handled[p] /\ dstReinit'[p] = dstReinit[p]
  /\ window[p] \subseteq window'[p]
  /\ a # "respond" => /\ m.reinit = dstReinit[p]
                      /\ m.seqno \notin window[p] /\ m.seqno \in window'[p]

\* A thread starts to work on a packet of the known epoch, or to answer one.
LEMMA LetIn ==
  ASSUME PeerInv, NEW p \in Peers, NEW t \in Threads[p], NEW m \in net, m.src # p,
         NEW a \in Stages,
         job'[p] = Put(job[p], t, Start(a, m)), JustLetIn(p, m, a)
  PROVE  JobsOK(p)' /\ job'[p] \in [Threads[p] -> SUBSET Jobs]
<1> USE DEF JustLetIn
<1>0. Shape /\ PeerShape(p) /\ JobsOK(p) /\ m \in Packets
  BY Parts, Zenon
<1>1. /\ {Start(a, m)} \in SUBSET Jobs /\ Start(a, m).packet = m
      /\ Live(Start(a, m)) <=> a # "respond"
  BY <1>0, StartFields, Zenon
<1>2. job[p] \in [Threads[p] -> SUBSET Jobs]
  BY <1>0, Zenon DEF PeerShape
<1>3. /\ job'[p] \in [Threads[p] -> SUBSET Jobs]
      /\ job'[p][t] = {Start(a, m)} /\ \A u \in Threads[p] \ {t} : job'[p][u] = job[p][u]
  BY ONLY <1>1, <1>2, t \in Threads[p], job'[p] = Put(job[p], t, Start(a, m)) DEF Put
<1>4. a # "respond" => Id(m) \notin handled'[p]
  BY <1>0, NotHandled, Zenon
<1>5. NewAt(p, t)
  <2>1. JobOK(p, Start(a, m))'
    <3>1. a # "respond" => m.reinit = dstReinit'[p]
      BY Zenon
    <3> QED BY <1>1, <1>4, <3>1, Zenon DEF JobOK, Live, Id, Start
  <2>2. ASSUME a # "respond", NEW u \in Threads[p] \ {t}, NEW l \in job'[p][u], Live(l)
        PROVE  l.packet.seqno # m.seqno
    <3>1. l.packet.seqno \in window[p]
      BY <1>0, <1>3, <2>2, Zenon DEF JobsOK, JobOK
    <3> QED BY <2>2, <3>1, Zenon
  <2> QED BY <1>1, <1>3, <2>1, <2>2, Zenon DEF NewAt
<1>6. ASSUME NEW u \in Threads[p] \ {t} PROVE KeptAt(p, u)
  <2>1. \A j \in job[p][u] : Live(j) => Id(j.packet) \notin handled'[p]
    BY <1>0, Zenon DEF JobsOK, JobOK
  <2> QED BY <1>0, <1>3, <2>1, SameAt, Zenon
<1>7. \A u \in Threads[p] : KeptAt(p, u) \/ NewAt(p, u)
  BY <1>5, <1>6, Zenon
<1> QED BY <1>0, <1>3, <1>7, JobsKept, Zenon

\* ... and of a newer epoch, which makes all other work stale.
LEMMA LetInNewer ==
  ASSUME PeerInv, NEW p \in Peers, NEW t \in Threads[p], NEW m \in net, m.src # p,
         NEW a \in Stages,
         job'[p] = Put(Stale(job[p]), t, Start(a, m)), net' = net,
         handled'[p] = handled[p], m.reinit > dstReinit[p], dstReinit'[p] = m.reinit,
         a # "respond" => m.seqno \in window'[p]
  PROVE  JobsOK(p)' /\ job'[p] \in [Threads[p] -> SUBSET Jobs]
<1>0. Shape /\ PeerShape(p) /\ JobsOK(p) /\ m \in Packets
  BY Parts, Zenon
<1>1. /\ {Start(a, m)} \in SUBSET Jobs /\ Start(a, m).packet = m
      /\ Live(Start(a, m)) <=> a # "respond"
  BY <1>0, StartFields, Zenon
<1>2. Stale(job[p]) \in [Threads[p] -> SUBSET Jobs]
  BY <1>0, StaleType, Zenon DEF PeerShape
<1>3. /\ job'[p] \in [Threads[p] -> SUBSET Jobs]
      /\ job'[p][t] = {Start(a, m)} /\ \A u \in Threads[p] \ {t} : job'[p][u] = Stale(job[p])[u]
  BY ONLY <1>1, <1>2, t \in Threads[p], job'[p] = Put(Stale(job[p]), t, Start(a, m)) DEF Put
<1>4. Id(m) \notin handled'[p]
  BY <1>0, NotHandled, Zenon
<1>5. \A u \in Threads[p] \ {t} : KeptAt(p, u) /\ \A k \in job'[p][u] : ~Live(k)
  BY <1>0, <1>3, StaleAt, Zenon
<1>6. NewAt(p, t)
  <2>1. JobOK(p, Start(a, m))'
    BY <1>1, <1>4, Zenon DEF JobOK, Live, Id, Start
  <2> QED BY <1>1, <1>3, <1>5, <2>1, Zenon DEF NewAt
<1>7. \A u \in Threads[p] : KeptAt(p, u) \/ NewAt(p, u)
  BY <1>5, <1>6, Zenon
<1> QED BY <1>0, <1>3, <1>7, JobsKept, Zenon

\* A step of p that changes neither its seqno, its epoch nor its keys, and sends nothing.
Quiet(p) ==
  /\ UNCHANGED <<clock, reinitTime, seqno, net>>
  /\ dstReinit' \in [Peers -> 0..MaxEpoch] /\ window' \in [Peers -> SUBSET Nat]
  /\ heard' \in [Peers -> BOOLEAN] /\ keys' \in [Peers -> Nat]
  /\ Changed(dstReinit, dstReinit', p) /\ Changed(channel, channel', p)
  /\ Changed(window, window', p) /\ Changed(job, job', p) /\ Changed(handled, handled', p)
  /\ PeerShape(p)' /\ ~replayed'

LEMMA QuietLocal ==
  ASSUME PeerInv, NEW p \in Peers, Quiet(p), KeyKept(p), PairKept(p)
  PROVE  Local(p) /\ Shape' /\ KeysKept
<1>0. Shape
  BY Zenon DEF PeerInv
<1>1. Changed(reinitTime, reinitTime', p)
  BY <1>0, AllFunctions, ChangedNowhere, Zenon DEF Quiet
<1>2. Local(p)
  BY <1>1, Zenon DEF Quiet, Local
<1>3. Scalars'
  BY <1>0, Zenon DEF Shape, Scalars, Quiet
<1>4. net' \subseteq Packets
  BY <1>0, Zenon DEF Shape, Quiet
<1>5. Shape'
  BY <1>0, <1>2, <1>3, <1>4, LocalShape, Zenon DEF Quiet
<1>6. KeysKept
  BY <1>2, LocalKeys, Zenon
<1> QED BY <1>2, <1>5, <1>6

LEMMA QuietStep ==
  ASSUME PeerInv, NEW p \in Peers, Quiet(p), KeyKept(p), PairKept(p),
         \A c \in channel'[p] : ChannelOK(p, c)', JobsOK(p)', HandledOK(p)'
  PROVE  PeerInv'
<1>1. Local(p) /\ Shape' /\ KeysKept
  BY QuietLocal, Zenon
<1>2. net \subseteq net' /\ (\A m \in net' : m \in net \/ PacketOK(m)') /\ ~replayed'
  BY Zenon DEF Quiet
<1> QED BY <1>1, <1>2, LocalStep, Zenon

\* The channel is pending again.
LEMMA RependingFields ==
  ASSUME Shape, NEW p \in Peers
  PROVE  /\ \A d \in Repending(p) : /\ d \in Channels /\ ~d.ready /\ d.peerKey = NoKey
                                    /\ \E c \in channel[p] : d.key = c.key
         /\ \A c \in channel[p] : \E d \in Repending(p) : d.key = c.key
         /\ \A d, e \in Repending(p) : d = e
<1>1. ASSUME NEW c \in channel[p]
      PROVE  /\ Pending(c.key, c.initDate) \in Channels /\ ~Pending(c.key, c.initDate).ready
             /\ Pending(c.key, c.initDate).key = c.key /\ Pending(c.key, c.initDate).peerKey = NoKey
  <2>1. c.key \in Keys /\ c.initDate \in Dates
    BY ChannelFields, Zenon
  <2> QED BY ONLY <2>1, PendingFields
<1>2. \A c, d \in channel[p] : c = d
  BY Zenon DEF Shape, PeerShape
<1>3. \A d \in Repending(p) : \E c \in channel[p] : d = Pending(c.key, c.initDate)
  BY Zenon DEF Repending
<1>4. \A c \in channel[p] : Pending(c.key, c.initDate) \in Repending(p)
  BY Zenon DEF Repending
<1>5. \A d, e \in Repending(p) : d = e
  BY <1>2, <1>3, Zenon
<1>6. \A c \in channel[p] : \E d \in Repending(p) : d.key = c.key
  BY <1>1, <1>4, Zenon
<1>7. ASSUME NEW d \in Repending(p)
      PROVE  /\ d \in Channels /\ ~d.ready /\ d.peerKey = NoKey /\ \E c \in channel[p] : d.key = c.key
  <2>1. PICK c \in channel[p] : d = Pending(c.key, c.initDate)
    BY <1>3, Zenon
  <2> QED BY ONLY c \in channel[p], <1>1, <2>1
<1> QED BY <1>5, <1>6, <1>7, Zenon

\* The window and the epoch that we know, after a packet.
LEMMA KnownType ==
  ASSUME Shape, NEW p \in Peers, NEW e \in 0..MaxEpoch, NEW W \in SUBSET Nat, NEW m \in Packets,
         dstReinit' = [dstReinit EXCEPT ![p] = e], window' = [window EXCEPT ![p] = W]
  PROVE  /\ dstReinit' \in [Peers -> 0..MaxEpoch] /\ window' \in [Peers -> SUBSET Nat]
         /\ Changed(dstReinit, dstReinit', p) /\ dstReinit'[p] = e
         /\ Changed(window, window', p) /\ window'[p] = W
<1>1. dstReinit \in [Peers -> 0..MaxEpoch] /\ window \in [Peers -> SUBSET Nat]
  BY Zenon DEF Shape, Scalars
<1>2. /\ Changed(dstReinit, dstReinit', p) /\ dstReinit'[p] = e
      /\ Changed(window, window', p) /\ window'[p] = W
  BY AllFunctions, ChangedAt, Zenon
<1>3. dstReinit' \in [Peers -> 0..MaxEpoch]
  BY <1>1, Zenon
<1>4. window' \in [Peers -> SUBSET Nat]
  BY <1>1, Zenon
<1> QED BY <1>2, <1>3, <1>4, Zenon

\* What a packet tells us about a newer epoch was true when it was sent: a
\* channel with a key of the peer's current epoch is not given up for it.
LEMMA NewerIsNewer ==
  ASSUME PeerInv, NEW p \in Peers, NEW m \in net, m.src # p, m.reinit > dstReinit[p],
         NEW c \in channel[p], c.ready
  PROVE  KeyEpoch(c.peerKey) # reinitTime[Other(p)]
<1>1. Shape /\ m \in Packets /\ PacketOK(m) /\ ChannelOK(p, c)
  BY Parts, Zenon
<1>2. m.src = Other(p) /\ Other(p) \in Peers
  BY <1>1, PacketFields, TwoPeers, Zenon
<1>3. m.reinit <= reinitTime[Other(p)] /\ KeyEpoch(c.peerKey) = dstReinit[p]
  BY <1>1, <1>2, Zenon DEF PacketOK, ChannelOK
<1>4. m.reinit \in Nat /\ dstReinit[p] \in Nat /\ reinitTime[Other(p)] \in Nat
  BY <1>1, <1>2, PacketFields, Numbers, Zenon
<1>5. dstReinit[p] # reinitTime[Other(p)]
  BY ONLY <1>3, <1>4, m.reinit > dstReinit[p]
<1> QED BY <1>3, <1>5, Zenon

LEMMA RootNewer ==
  ASSUME PeerInv, NEW p \in Peers, NEW t \in Threads[p], NEW m \in net, m.src # p,
         m.reinit > dstReinit[p], PrepareRoot(p, t, m),
         heard' \in [Peers -> BOOLEAN], UNCHANGED <<clock, net>>
  PROVE  PeerInv'
<1>0. /\ Shape /\ PeerShape(p) /\ HandledOK(p) /\ ~replayed /\ m \in Packets
      /\ \A c \in channel[p] : ChannelOK(p, c)
  BY Parts, Zenon
<1>1. m.reinit \in Nat /\ m.seqno \in Nat /\ dstReinit[p] \in Nat /\ m.reinit \in 0..MaxEpoch
  <2>1. m.reinit \in Nat /\ m.seqno \in Nat /\ m.reinit \in Epochs
    BY <1>0, PacketFields, Zenon
  <2>2. m.reinit \in 0..MaxEpoch
    BY ONLY <2>1, PeersAssumption DEF Epochs
  <2> QED BY <1>0, <2>1, <2>2, Numbers, Zenon
<1>2. Greater(dstReinit[p], m.reinit) = m.reinit
  BY ONLY <1>1, m.reinit > dstReinit[p] DEF Greater
<1>3. /\ dstReinit' = [dstReinit EXCEPT ![p] = m.reinit]
      /\ channel' = [channel EXCEPT ![p] = Repending(p)]
      /\ UNCHANGED <<reinitTime, seqno, keys, handled, replayed>>
  BY <1>2, Zenon DEF PrepareRoot
<1>4. \E W \in {{}, {m.seqno}} :
        /\ window' = [window EXCEPT ![p] = W]
        /\ \/ job' = [job EXCEPT ![p] = Stale(job[p])]
           \/ job' = [job EXCEPT ![p] = Put(Stale(job[p]), t, Start("respond", m))]
           \/ /\ job' = [job EXCEPT ![p] = Put(Stale(job[p]), t, Start(First(m), m))]
              /\ W = {m.seqno}
  <2>1. CASE job' = [job EXCEPT ![p] = Stale(job[p])]
    BY <2>1 DEF PrepareRoot
  <2>2. CASE job' = [job EXCEPT ![p] = Put(Stale(job[p]), t, Start("respond", m))]
    BY <2>2 DEF PrepareRoot
  <2> QED BY <2>1, <2>2 DEF PrepareRoot
<1>5. PICK W \in {{}, {m.seqno}} :
        /\ window' = [window EXCEPT ![p] = W]
        /\ \/ job' = [job EXCEPT ![p] = Stale(job[p])]
           \/ job' = [job EXCEPT ![p] = Put(Stale(job[p]), t, Start("respond", m))]
           \/ /\ job' = [job EXCEPT ![p] = Put(Stale(job[p]), t, Start(First(m), m))]
              /\ W = {m.seqno}
  BY <1>4
<1>6. W \in SUBSET Nat
  BY <1>1, Zenon
<1>7. /\ dstReinit' \in [Peers -> 0..MaxEpoch] /\ window' \in [Peers -> SUBSET Nat]
      /\ Changed(dstReinit, dstReinit', p) /\ dstReinit'[p] = m.reinit
      /\ Changed(window, window', p) /\ window'[p] = W
  BY ONLY <1>0, <1>1, <1>3, <1>5, <1>6, p \in Peers, KnownType, Zenon
<1>8. /\ Changed(channel, channel', p) /\ channel'[p] = Repending(p)
      /\ Changed(handled, handled', p) /\ handled'[p] = handled[p]
      /\ reinitTime'[p] = reinitTime[p]
  BY <1>0, <1>3, AllFunctions, ChangedAt, ChangedNowhere, Zenon
<1>9. Changed(job, job', p) /\ JobsOK(p)' /\ job'[p] \in [Threads[p] -> SUBSET Jobs]
  <2>1. CASE job' = [job EXCEPT ![p] = Stale(job[p])]
    <3>1. Changed(job, job', p) /\ job'[p] = Stale(job[p])
      BY <1>0, <2>1, AllFunctions, ChangedAt, Zenon
    <3>2. net \subseteq net'
      BY Zenon
    <3> QED BY <3>1, <3>2, AllStale, Zenon
  <2>2. ASSUME NEW a \in Stages, a # "respond" => W = {m.seqno},
               job' = [job EXCEPT ![p] = Put(Stale(job[p]), t, Start(a, m))]
        PROVE  Changed(job, job', p) /\ JobsOK(p)' /\ job'[p] \in [Threads[p] -> SUBSET Jobs]
    <3>0. job = [x \in Peers |-> job[x]]
      BY ONLY <1>0, AllFunctions, Zenon
    <3>1. Changed(job, job', p) /\ job'[p] = Put(Stale(job[p]), t, Start(a, m))
      BY ONLY <2>2, <3>0, p \in Peers DEF Changed
    <3>3. a # "respond" => m.seqno \in window'[p]
      BY <1>7, <2>2, Zenon
    <3>4. net' = net /\ handled'[p] = handled[p] /\ dstReinit'[p] = m.reinit
      BY <1>7, <1>8
    <3>6. JobsOK(p)' /\ job'[p] \in [Threads[p] -> SUBSET Jobs]
      BY ONLY PeerInv, p \in Peers, t \in Threads[p], m \in net, m.src # p,
              a \in Stages, m.reinit > dstReinit[p], <3>1, <3>3, <3>4, LetInNewer, Zenon
    <3> QED BY <3>1, <3>6
  <2>3. First(m) \in Stages /\ "respond" \in Stages
    BY Zenon DEF First, Stages
  <2> QED BY ONLY <1>5, <2>1, <2>2, <2>3, Zenon
<1>10. /\ \A d \in channel'[p] : /\ d \in Channels /\ ~d.ready /\ d.peerKey = NoKey
                                 /\ \E c \in channel[p] : d.key = c.key
       /\ \A c \in channel[p] : \E d \in channel'[p] : d.key = c.key
       /\ \A d, e \in channel'[p] : d = e
  <2>1. channel'[p] = Repending(p)
    BY <1>8
  <2>2. /\ \A d \in Repending(p) : /\ d \in Channels /\ ~d.ready /\ d.peerKey = NoKey
                                   /\ \E c \in channel[p] : d.key = c.key
        /\ \A c \in channel[p] : \E d \in Repending(p) : d.key = c.key
        /\ \A d, e \in Repending(p) : d = e
    BY ONLY <1>0, p \in Peers, RependingFields, Zenon
  <2> QED BY ONLY <2>1, <2>2, Zenon
<1>11. PeerShape(p)'
  BY ONLY <1>0, <1>8, <1>9, <1>10, Zenon DEF PeerShape
<1>12. Quiet(p)
  <2>1. UNCHANGED <<clock, reinitTime, seqno, net>> /\ keys' \in [Peers -> Nat]
    BY <1>0, <1>3, Zenon DEF Shape, Scalars
  <2>2. ~replayed'
    BY <1>0, <1>3, Zenon
  <2> QED BY ONLY <1>7, <1>8, <1>9, <1>11, <2>1, <2>2, heard' \in [Peers -> BOOLEAN], Zenon DEF Quiet
<1>13. KeyKept(p)
  BY <1>8, <1>10, Zenon DEF KeyKept
<1>14. PairKept(p)
  BY NewerIsNewer, Zenon DEF PairKept
<1>15. Shape' /\ KeysKept
  BY <1>12, <1>13, <1>14, QuietLocal, Zenon
<1>16. ASSUME NEW d \in channel'[p] PROVE ChannelOK(p, d)'
  <2>1. PICK c \in channel[p] : d.key = c.key
    BY <1>10, Zenon
  <2>2. Issued(p, c.key) /\ KeyEpoch(c.key) = reinitTime[p]
    BY <1>0, Zenon DEF ChannelOK
  <2>3. Issued(p, c.key)'
    BY <1>0, <1>13, <1>15, <2>2, IssuedKept, NumbersNext, Zenon
  <2>4. Issued(p, d.key)' /\ KeyEpoch(d.key) = reinitTime'[p] /\ ~d.ready
    BY <1>8, <1>10, <2>1, <2>2, <2>3, Zenon
  <2> QED BY ONLY <2>4, Zenon DEF ChannelOK, KeyEpoch
<1>17. HandledOK(p)'
  <2> SUFFICES ASSUME NEW h \in handled'[p]
               PROVE  h[1] <= dstReinit'[p] /\ (h[1] = dstReinit'[p] => h[2] \in window'[p])
    BY Zenon DEF HandledOK
  <2>1. h[1] <= dstReinit[p] /\ h[1] \in Nat
    BY <1>0, <1>8, Zenon DEF HandledOK, PeerShape
  <2>2. h[1] <= m.reinit /\ h[1] # m.reinit
    BY ONLY <1>1, <2>1, m.reinit > dstReinit[p]
  <2> QED BY <1>7, <2>2, Zenon
<1> QED BY ONLY PeerInv, p \in Peers, <1>9, <1>12, <1>13, <1>14, <1>16, <1>17, QuietStep, Zenon

\* A root packet of an epoch that we know, or of an older one.
LEMMA RootKnown ==
  ASSUME PeerInv, NEW p \in Peers, NEW t \in Threads[p], NEW m \in net, m.src # p,
         ~(m.reinit > dstReinit[p]), PrepareRoot(p, t, m),
         heard' \in [Peers -> BOOLEAN], UNCHANGED <<clock, net>>
  PROVE  PeerInv'
<1>0. /\ Shape /\ PeerShape(p) /\ HandledOK(p) /\ JobsOK(p) /\ ~replayed /\ m \in Packets
      /\ \A c \in channel[p] : ChannelOK(p, c)
  BY Parts, Zenon
<1>1. m.reinit \in Nat /\ m.seqno \in Nat /\ dstReinit[p] \in Nat
  BY <1>0, PacketFields, Numbers, Zenon
<1>2. Greater(dstReinit[p], m.reinit) = dstReinit[p]
  BY ONLY <1>1, ~(m.reinit > dstReinit[p]) DEF Greater
<1>3. ~(m.reinit < dstReinit[p]) => m.reinit = dstReinit[p]
  BY ONLY <1>1, ~(m.reinit > dstReinit[p])
<1>4. /\ dstReinit' = [dstReinit EXCEPT ![p] = dstReinit[p]] /\ channel' = channel
      /\ UNCHANGED <<reinitTime, seqno, keys, handled, replayed>>
  BY <1>2, Zenon DEF PrepareRoot
<1>5. \E W \in {{}, {m.seqno}} :
        /\ window' = [window EXCEPT ![p] = window[p] \cup W]
        /\ \/ job' = [job EXCEPT ![p] = job[p]]
           \/ job' = [job EXCEPT ![p] = Put(job[p], t, Start("respond", m))]
           \/ /\ job' = [job EXCEPT ![p] = Put(job[p], t, Start(First(m), m))]
              /\ W = {m.seqno} /\ m.seqno \notin window[p] /\ ~(m.reinit < dstReinit[p])
  <2>1. CASE job' = [job EXCEPT ![p] = job[p]]
    BY <1>2, <2>1 DEF PrepareRoot
  <2>2. CASE job' = [job EXCEPT ![p] = Put(job[p], t, Start("respond", m))]
    BY <1>2, <2>2 DEF PrepareRoot
  <2> QED BY <1>2, <2>1, <2>2 DEF PrepareRoot
<1>6. PICK W \in {{}, {m.seqno}} :
        /\ window' = [window EXCEPT ![p] = window[p] \cup W]
        /\ \/ job' = [job EXCEPT ![p] = job[p]]
           \/ job' = [job EXCEPT ![p] = Put(job[p], t, Start("respond", m))]
           \/ /\ job' = [job EXCEPT ![p] = Put(job[p], t, Start(First(m), m))]
              /\ W = {m.seqno} /\ m.seqno \notin window[p] /\ ~(m.reinit < dstReinit[p])
  BY <1>5
<1>7. dstReinit[p] \in 0..MaxEpoch /\ window[p] \cup W \in SUBSET Nat
  BY <1>0, <1>1, Zenon DEF Shape, Scalars
<1>8. /\ dstReinit' \in [Peers -> 0..MaxEpoch] /\ window' \in [Peers -> SUBSET Nat]
      /\ Changed(dstReinit, dstReinit', p) /\ dstReinit'[p] = dstReinit[p]
      /\ Changed(window, window', p) /\ window'[p] = window[p] \cup W
  BY ONLY <1>0, <1>4, <1>6, <1>7, p \in Peers, KnownType, Zenon
<1>9. /\ Changed(channel, channel', p) /\ channel'[p] = channel[p]
      /\ Changed(handled, handled', p) /\ handled'[p] = handled[p]
      /\ reinitTime'[p] = reinitTime[p]
  BY <1>0, <1>4, AllFunctions, ChangedNowhere, Zenon
<1>10. net' = net /\ window[p] \subseteq window'[p] /\ job = [x \in Peers |-> job[x]]
  BY <1>0, <1>8, AllFunctions, Zenon
<1>11. Changed(job, job', p) /\ JobsOK(p)' /\ job'[p] \in [Threads[p] -> SUBSET Jobs]
  <2>1. CASE job' = [job EXCEPT ![p] = job[p]]
    <3>1. Changed(job, job', p) /\ job'[p] = job[p]
      BY ONLY <1>10, <2>1, p \in Peers DEF Changed
    <3>2. \A u \in Threads[p] : KeptAt(p, u)
      <4> TAKE u \in Threads[p]
      <4>1. \A j \in job[p][u] : Live(j) => Id(j.packet) \notin handled'[p]
        BY <1>0, <1>9, Zenon DEF JobsOK, JobOK
      <4>2. job'[p][u] = job[p][u]
        BY <3>1, Zenon
      <4> QED BY ONLY p \in Peers, u \in Threads[p], <1>0, <1>8, <1>10, <4>1, <4>2, SameAt, Zenon
    <3>3. net \subseteq net'
      BY <1>10, Zenon
    <3> QED BY <1>0, <3>1, <3>2, <3>3, JobsKept, Zenon DEF PeerShape
  <2>2. ASSUME NEW a \in Stages,
               a # "respond" => W = {m.seqno} /\ m.seqno \notin window[p] /\ ~(m.reinit < dstReinit[p]),
               job' = [job EXCEPT ![p] = Put(job[p], t, Start(a, m))]
        PROVE  Changed(job, job', p) /\ JobsOK(p)' /\ job'[p] \in [Threads[p] -> SUBSET Jobs]
    <3>1. Changed(job, job', p) /\ job'[p] = Put(job[p], t, Start(a, m))
      BY ONLY <1>10, <2>2, p \in Peers DEF Changed
    <3>2. a # "respond" => /\ m.reinit = dstReinit[p]
                           /\ m.seqno \notin window[p] /\ m.seqno \in window'[p]
      BY ONLY <1>3, <1>8, <2>2, Zenon
    <3>3. handled'[p] = handled[p] /\ dstReinit'[p] = dstReinit[p]
      BY <1>8, <1>9
    <3>4. JustLetIn(p, m, a)
      BY ONLY <1>10, <3>2, <3>3, Zenon DEF JustLetIn
    <3>5. JobsOK(p)' /\ job'[p] \in [Threads[p] -> SUBSET Jobs]
      BY ONLY PeerInv, p \in Peers, t \in Threads[p], m \in net, m.src # p, a \in Stages,
              <3>1, <3>4, LetIn, Zenon
    <3> QED BY <3>1, <3>5
  <2>3. First(m) \in Stages /\ "respond" \in Stages
    BY Zenon DEF First, Stages
  <2> QED BY ONLY <1>6, <2>1, <2>2, <2>3, Zenon
<1>12. PeerShape(p)'
  BY ONLY <1>0, <1>9, <1>11, Zenon DEF PeerShape
<1>13. Quiet(p)
  <2>1. UNCHANGED <<clock, reinitTime, seqno, net>> /\ keys' \in [Peers -> Nat]
    BY <1>0, <1>4, Zenon DEF Shape, Scalars
  <2>2. ~replayed'
    BY <1>0, <1>4, Zenon
  <2> QED BY ONLY <1>8, <1>9, <1>11, <1>12, <2>1, <2>2, heard' \in [Peers -> BOOLEAN], Zenon DEF Quiet
<1>14. KeyKept(p) /\ PairKept(p)
  BY <1>9, SameKept, Zenon
<1>15. Shape' /\ KeysKept
  BY <1>13, <1>14, QuietLocal, Zenon
<1>16. \A c \in channel'[p] : ChannelOK(p, c)'
  BY <1>0, <1>8, <1>9, <1>15, ChannelKept, Zenon
<1>17. HandledOK(p)'
  BY ONLY p \in Peers, <1>0, <1>8, <1>9, <1>10, HandledKept, Zenon
<1> QED BY ONLY PeerInv, p \in Peers, <1>11, <1>13, <1>14, <1>16, <1>17, QuietStep, Zenon

\* A packet in the channel: the peer has set it up, and the packet is of the
\* epoch that we know.
LEMMA InChannel ==
  ASSUME PeerInv, NEW p \in Peers, NEW m \in net, m.src # p, NEW c \in channel[p],
         m.over = <<c.peerKey, c.key>>
  PROVE  c.ready /\ m.reinit = dstReinit[p] /\ Agreed(Other(p), c.peerKey, c.key)
<1>1. Shape /\ m \in Packets /\ PacketOK(m) /\ ChannelOK(p, c)
  BY Parts, Zenon
<1>2. m.src = Other(p)
  BY <1>1, PacketFields, TwoPeers, Zenon
<1>3. m.over # <<>> /\ m.over[1] = c.peerKey /\ m.over[2] = c.key
  BY ONLY m.over = <<c.peerKey, c.key>>
<1>4. KeyEpoch(c.peerKey) = m.reinit /\ Agreed(Other(p), c.peerKey, c.key)
  BY <1>1, <1>2, <1>3, Zenon DEF PacketOK
<1>5. c.peerKey # NoKey
  BY <1>4, KeyExists, Zenon DEF Agreed, Issued
<1>6. c.ready
  BY <1>1, <1>5, ChannelFields, Zenon
<1> QED BY <1>1, <1>4, <1>6, Zenon DEF ChannelOK

\* A channel that is confirmed differs in wantConfirm only.
LEMMA ConfirmedFields ==
  ASSUME NEW c \in Channels, NEW d, d = [c EXCEPT !.wantConfirm = FALSE]
  PROVE  d \in Channels /\ d.key = c.key /\ d.peerKey = c.peerKey /\ d.ready = c.ready
BY DEF Channels

LEMMA ChannelPacket ==
  ASSUME PeerInv, NEW p \in Peers, NEW t \in Threads[p], NEW m \in net, m.src # p,
         PrepareChannel(p, t, m), heard' \in [Peers -> BOOLEAN], UNCHANGED <<clock, net>>
  PROVE  PeerInv'
<1>0. /\ Shape /\ PeerShape(p) /\ HandledOK(p) /\ JobsOK(p) /\ ~replayed /\ m \in Packets
      /\ \A c \in channel[p] : ChannelOK(p, c)
  BY Parts, Zenon
<1>1. PICK c \in channel[p] :
        /\ m.over = <<c.peerKey, c.key>>
        /\ channel' = [channel EXCEPT ![p] = {[c EXCEPT !.wantConfirm = FALSE]}]
        /\ IF m.seqno \in window[p] THEN UNCHANGED <<window, job>>
           ELSE /\ window' = [window EXCEPT ![p] = @ \cup {m.seqno}]
                /\ job' = [job EXCEPT ![p] = Put(@, t, Start("data", m))]
  BY Zenon DEF PrepareChannel
<1>2. UNCHANGED <<reinitTime, dstReinit, seqno, keys, handled, replayed>>
  BY Zenon DEF PrepareChannel, history
<1>3. PICK d : d = [c EXCEPT !.wantConfirm = FALSE]
  BY Zenon
<1>4. c.ready /\ m.reinit = dstReinit[p] /\ Agreed(Other(p), c.peerKey, c.key)
  BY ONLY PeerInv, p \in Peers, m \in net, m.src # p, c \in channel[p], <1>1, InChannel, Zenon
<1>5. c \in Channels /\ ChannelOK(p, c) /\ (c.ready <=> c.peerKey # NoKey) /\ \A e \in channel[p] : e = c
  BY <1>0, Zenon DEF PeerShape
<1>6. d \in Channels /\ d.key = c.key /\ d.peerKey = c.peerKey /\ d.ready = c.ready
  BY ONLY <1>3, <1>5, ConfirmedFields, Zenon
<1>7. Changed(channel, channel', p) /\ channel'[p] = {d}
  <2>1. channel' = [channel EXCEPT ![p] = {d}] /\ channel = [x \in Peers |-> channel[x]]
    BY <1>0, <1>1, <1>3, AllFunctions
  <2> QED BY ONLY <2>1, p \in Peers, ChangedAt, Zenon
<1>8. /\ Changed(dstReinit, dstReinit', p) /\ dstReinit'[p] = dstReinit[p]
      /\ Changed(handled, handled', p) /\ handled'[p] = handled[p]
      /\ reinitTime'[p] = reinitTime[p] /\ net' = net /\ net \subseteq net'
  BY ONLY <1>0, <1>2, UNCHANGED net, p \in Peers, AllFunctions, ChangedNowhere, Zenon
<1>9. /\ window = [x \in Peers |-> window[x]] /\ job = [x \in Peers |-> job[x]]
      /\ window \in [Peers -> SUBSET Nat] /\ m.seqno \in Nat
  BY <1>0, AllFunctions, PacketFields, Zenon DEF Shape, Scalars
<1>10. /\ Changed(window, window', p) /\ window[p] \subseteq window'[p]
       /\ window' \in [Peers -> SUBSET Nat] /\ Changed(job, job', p)
       /\ job'[p] \in [Threads[p] -> SUBSET Jobs] /\ JobsOK(p)'
  <2>1. CASE m.seqno \in window[p]
    <3>1. window' = window /\ job' = job
      BY <1>1, <2>1, Zenon
    <3>2. Changed(window, window', p) /\ Changed(job, job', p) /\ window'[p] = window[p]
      BY ONLY <1>9, <3>1, p \in Peers, ChangedNowhere, Zenon
    <3>3. job'[p] \in [Threads[p] -> SUBSET Jobs] /\ JobsOK(p)'
      BY ONLY PeerInv, p \in Peers, <1>8, <3>1, <3>2, SameJobs, Zenon
    <3> QED BY <1>9, <3>1, <3>2, <3>3, Zenon
  <2>2. CASE m.seqno \notin window[p]
    <3>1. /\ window' = [window EXCEPT ![p] = window[p] \cup {m.seqno}]
          /\ job' = [job EXCEPT ![p] = Put(job[p], t, Start("data", m))]
      BY <1>1, <2>2, Zenon
    <3>2. Changed(window, window', p) /\ window'[p] = window[p] \cup {m.seqno}
      BY ONLY <1>9, <3>1, p \in Peers, ChangedAt, Zenon
    <3>3. Changed(job, job', p) /\ job'[p] = Put(job[p], t, Start("data", m))
      BY ONLY <1>9, <3>1, p \in Peers DEF Changed
    <3>4. window' \in [Peers -> SUBSET Nat]
      BY ONLY <1>9, <3>1, p \in Peers
    <3>5. window[p] \subseteq window'[p] /\ m.seqno \in window'[p]
      BY <3>2, Zenon
    <3>6. "data" \in Stages
      BY Zenon DEF Stages
    <3>7. JustLetIn(p, m, "data")
      BY ONLY <1>4, <1>8, <2>2, <3>5, Zenon DEF JustLetIn
    <3>8. JobsOK(p)' /\ job'[p] \in [Threads[p] -> SUBSET Jobs]
      BY ONLY PeerInv, p \in Peers, t \in Threads[p], m \in net, m.src # p,
              <3>3, <3>6, <3>7, LetIn, Zenon
    <3> QED BY <3>2, <3>3, <3>4, <3>5, <3>8
  <2> QED BY <2>1, <2>2
<1>11. PeerShape(p)'
  BY ONLY <1>0, <1>5, <1>6, <1>7, <1>8, <1>10, Zenon DEF PeerShape
<1>12. Quiet(p)
  <2>1. /\ UNCHANGED <<clock, reinitTime, seqno, net>> /\ keys' \in [Peers -> Nat]
        /\ dstReinit' \in [Peers -> 0..MaxEpoch]
    BY <1>0, <1>2, Zenon DEF Shape, Scalars
  <2>2. ~replayed'
    BY <1>0, <1>2, Zenon
  <2> QED BY ONLY <1>7, <1>8, <1>10, <1>11, <2>1, <2>2, heard' \in [Peers -> BOOLEAN], Zenon DEF Quiet
<1>13. KeyKept(p)
  BY ONLY <1>5, <1>6, <1>7, <1>8, Zenon DEF KeyKept
<1>14. PairKept(p)
  BY ONLY <1>5, <1>6, <1>7, Zenon DEF PairKept
<1>15. Shape' /\ KeysKept
  BY ONLY PeerInv, p \in Peers, <1>12, <1>13, <1>14, QuietLocal, Zenon
<1>16. ChannelOK(p, d)'
  <2>1. ChannelOK(p, c)'
    BY ONLY p \in Peers, <1>0, <1>5, <1>8, <1>15, ChannelKept, Zenon
  <2>2. Other(p) \in Peers /\ Other(p)' = Other(p)
    BY TwoPeers, Zenon DEF Other
  <2>3. Agreed(Other(p), c.peerKey, c.key)'
    BY ONLY <1>0, <1>4, <1>15, <2>2, AgreedKept, Zenon
  <2> QED BY ONLY <1>6, <2>1, <2>2, <2>3, Zenon DEF ChannelOK, KeyEpoch
<1>17. HandledOK(p)'
  BY ONLY p \in Peers, <1>0, <1>8, <1>10, HandledKept, Zenon
<1>18. \A e \in channel'[p] : ChannelOK(p, e)'
  BY ONLY <1>7, <1>16, Zenon
<1> QED BY ONLY PeerInv, p \in Peers, <1>10, <1>12, <1>13, <1>14, <1>17, <1>18, QuietStep, Zenon

LEMMA InvReceive ==
  ASSUME PeerInv, NEW p \in Peers, NEW t \in Threads[p], NEW m \in net, Receive(p, t, m)
  PROVE  PeerInv'
<1>1. m.src # p /\ UNCHANGED <<clock, net>>
  BY Zenon DEF Receive
<1>2. heard' \in [Peers -> BOOLEAN]
  BY Zenon DEF PeerInv, Shape, Scalars, Receive
<1>3. CASE PrepareRoot(p, t, m)
  BY <1>1, <1>2, <1>3, RootNewer, RootKnown, Zenon
<1>4. CASE DropRoot(p, m)
  <2>1. UNCHANGED <<reinitTime, dstReinit, seqno, window, channel, keys, job, handled, replayed>>
    BY <1>4, Zenon DEF DropRoot, conn, history
  <2>2. Scalars'
    BY <1>1, <1>2, <2>1, Zenon DEF PeerInv, Shape, Scalars
  <2> QED BY <1>1, <2>1, <2>2, Unmoved, Zenon
<1>5. CASE PrepareChannel(p, t, m)
  BY <1>1, <1>2, <1>5, ChannelPacket, Zenon
<1> QED BY <1>3, <1>4, <1>5, Zenon DEF Receive

-----------------------------------------------------------------------------
(* The messages of a packet                                                *)

\* A thread goes on with its work; channel, window and epochs stay.
LEMMA Worked ==
  ASSUME PeerInv, NEW p \in Peers,
         UNCHANGED <<clock, reinitTime, dstReinit, seqno, window, heard, net, channel, keys>>,
         Changed(job, job', p), JobsOK(p)', job'[p] \in [Threads[p] -> SUBSET Jobs],
         Changed(handled, handled', p), \A h \in handled'[p] : h[1] \in Nat,
         HandledOK(p)', ~replayed'
  PROVE  PeerInv'
<1>0. Shape /\ PeerShape(p) /\ \A c \in channel[p] : ChannelOK(p, c)
  BY Parts, Zenon
<1>1. /\ Changed(dstReinit, dstReinit', p) /\ Changed(channel, channel', p)
      /\ Changed(window, window', p) /\ channel'[p] = channel[p]
      /\ reinitTime'[p] = reinitTime[p] /\ dstReinit'[p] = dstReinit[p]
  BY <1>0, AllFunctions, ChangedNowhere, Zenon
<1>2. PeerShape(p)'
  BY <1>0, <1>1, Zenon DEF PeerShape
<1>3. /\ dstReinit' \in [Peers -> 0..MaxEpoch] /\ window' \in [Peers -> SUBSET Nat]
      /\ heard' \in [Peers -> BOOLEAN] /\ keys' \in [Peers -> Nat]
  BY <1>0, Zenon DEF Shape, Scalars
<1>4. Quiet(p)
  BY <1>1, <1>2, <1>3, Zenon DEF Quiet
<1>5. KeyKept(p) /\ PairKept(p)
  BY <1>1, SameKept, Zenon
<1>6. Shape' /\ KeysKept
  BY <1>4, <1>5, QuietLocal, Zenon
<1>7. \A c \in channel'[p] : ChannelOK(p, c)'
  BY <1>0, <1>1, <1>6, ChannelKept, Zenon
<1> QED BY <1>4, <1>5, <1>7, QuietStep, Zenon

\* Two keys of the current epoch of a peer are the same.
LEMMA OneKey ==
  ASSUME PeerInv, NEW q \in Peers, NEW k, NEW l, Issued(q, k), Issued(q, l),
         KeyEpoch(k) = reinitTime[q], KeyEpoch(l) = reinitTime[q]
  PROVE  k = l
<1>1. \A c, d \in channel[q] : c = d
  BY Zenon DEF PeerInv, Shape, PeerShape
<1> QED BY <1>1, Zenon DEF Issued

\* A channel is published, with our key and the key that the peer has sent.
LEMMA Published ==
  ASSUME PeerInv, NEW p \in Peers, NEW c \in Channels, c.ready,
         Changed(channel, channel', p), channel'[p] = {c}, \A d \in channel[p] : d.key = c.key,
         KeyEpoch(c.key) = reinitTime[p], KeyEpoch(c.peerKey) = dstReinit[p],
         Issued(Other(p), c.peerKey), ~c.wantConfirm => Agreed(Other(p), c.peerKey, c.key),
         UNCHANGED <<clock, reinitTime, dstReinit, seqno, window, heard, net, handled, replayed>>,
         keys' \in [Peers -> Nat],
         Changed(job, job', p), JobsOK(p)', job'[p] \in [Threads[p] -> SUBSET Jobs]
  PROVE  PeerInv'
<1>0. /\ Shape /\ PeerShape(p) /\ HandledOK(p) /\ ~replayed
      /\ \A d \in channel[p] : ChannelOK(p, d)
  BY Parts, Zenon
<1>1. /\ Changed(dstReinit, dstReinit', p) /\ Changed(window, window', p)
      /\ Changed(handled, handled', p) /\ handled'[p] = handled[p]
      /\ reinitTime'[p] = reinitTime[p] /\ dstReinit'[p] = dstReinit[p] /\ window'[p] = window[p]
  BY <1>0, AllFunctions, ChangedNowhere, Zenon
<1>2. c.peerKey # NoKey
  BY KeyExists, Zenon DEF Issued
<1>3. PeerShape(p)'
  BY ONLY <1>0, <1>1, <1>2, c \in Channels, c.ready, channel'[p] = {c},
          job'[p] \in [Threads[p] -> SUBSET Jobs], Zenon DEF PeerShape
<1>4. Quiet(p)
  <2>1. /\ dstReinit' \in [Peers -> 0..MaxEpoch] /\ window' \in [Peers -> SUBSET Nat]
        /\ heard' \in [Peers -> BOOLEAN]
    BY <1>0, Zenon DEF Shape, Scalars
  <2>2. ~replayed'
    BY <1>0, Zenon
  <2> QED BY <1>1, <1>3, <2>1, <2>2, Zenon DEF Quiet
<1>5. Other(p) \in Peers /\ Other(p)' = Other(p)
  BY TwoPeers, Zenon DEF Other
<1>6. KeyKept(p)
  BY ONLY channel'[p] = {c}, \A d \in channel[p] : d.key = c.key, <1>1, Zenon DEF KeyKept
<1>7. PairKept(p)
  <2>1. ASSUME NEW d \in channel[p], d.ready, KeyEpoch(d.peerKey) = reinitTime[Other(p)]
        PROVE  d.peerKey = c.peerKey
    <3>1. Issued(Other(p), d.peerKey) /\ KeyEpoch(d.peerKey) = dstReinit[p]
      BY <1>0, <2>1, Zenon DEF ChannelOK
    <3>2. KeyEpoch(c.peerKey) = reinitTime[Other(p)]
      BY <2>1, <3>1
    <3> QED BY <1>5, <2>1, <3>1, <3>2, OneKey, Zenon
  <2> QED BY ONLY channel'[p] = {c}, c.ready, \A d \in channel[p] : d.key = c.key, <2>1, Zenon DEF PairKept
<1>8. Shape' /\ KeysKept
  BY <1>4, <1>6, <1>7, QuietLocal, Zenon
<1>9. ChannelOK(p, c)'
  <2>1. Issued(p, c.key)'
    <3>1. reinitTime'[p] \in Nat
      BY <1>8, NumbersNext, Zenon
    <3>2. KeyEpoch(c.key) <= reinitTime'[p]
      BY ONLY <1>1, <3>1, KeyEpoch(c.key) = reinitTime[p]
    <3>3. c.key \in Keys
      BY Zenon DEF Channels
    <3> QED BY <3>2, <3>3, Zenon DEF Issued, KeyEpoch
  <2>2. Issued(Other(p), c.peerKey)'
    <3>1. reinitTime'[Other(p)] \in Nat /\ KeyKept(Other(p))
      BY <1>5, <1>8, NumbersNext, Zenon DEF KeysKept
    <3> QED BY <1>0, <1>5, <3>1, IssuedKept, Zenon
  <2>3. ~c.wantConfirm => Agreed(Other(p), c.peerKey, c.key)'
    BY <1>0, <1>5, <1>8, AgreedKept, Zenon
  <2>4. KeyEpoch(c.key) = reinitTime'[p] /\ KeyEpoch(c.peerKey) = dstReinit'[p]
    BY <1>1, Zenon
  <2> QED BY ONLY <1>5, <2>1, <2>2, <2>3, <2>4, Zenon DEF ChannelOK, KeyEpoch
<1>10. \A d \in channel'[p] : ChannelOK(p, d)'
  BY ONLY channel'[p] = {c}, <1>9, Zenon
<1>11. HandledOK(p)'
  BY ONLY p \in Peers, <1>0, <1>1, HandledKept, Zenon
<1> QED BY ONLY PeerInv, p \in Peers, <1>4, <1>6, <1>7, <1>10, <1>11, JobsOK(p)', QuietStep, Zenon

\* The work on a packet goes on with its data.
LEMMA OnwardFields ==
  ASSUME NEW j \in Jobs, NEW k, k = [j EXCEPT !.at = "data"]
  PROVE  {k} \in SUBSET Jobs /\ k.packet = j.packet /\ k.current = j.current
<1>1. k \in Jobs /\ k.packet = j.packet /\ k.current = j.current
  BY DEF Jobs
<1> QED BY <1>1

LEMMA Onward ==
  ASSUME PeerInv, NEW p \in Peers, NEW t \in Threads[p], NEW j \in job[p][t], Live(j),
         NEW k, k = [j EXCEPT !.at = "data"], NEW J, J = job[p] \/ J = Stale(job[p]),
         job' = [job EXCEPT ![p] = Put(J, t, k)],
         dstReinit' = dstReinit, window' = window, handled' = handled, net' = net
  PROVE  Changed(job, job', p) /\ JobsOK(p)' /\ job'[p] \in [Threads[p] -> SUBSET Jobs]
<1>0. Shape /\ PeerShape(p) /\ JobsOK(p)
  BY Parts, Zenon
<1>1. job[p] \in [Threads[p] -> SUBSET Jobs] /\ Stale(job[p]) \in [Threads[p] -> SUBSET Jobs]
  BY ONLY <1>0, StaleType, Zenon DEF PeerShape
<1>2. {k} \in SUBSET Jobs /\ k.packet = j.packet /\ k.current = j.current
  <2>1. j \in Jobs
    BY ONLY <1>1, t \in Threads[p], j \in job[p][t]
  <2> QED BY ONLY <2>1, k = [j EXCEPT !.at = "data"], OnwardFields, Zenon
<1>3. Changed(job, job', p) /\ job'[p] = Put(J, t, k)
  <2>1. job = [x \in Peers |-> job[x]]
    BY <1>0, AllFunctions, Zenon
  <2> QED BY ONLY <2>1, p \in Peers, job' = [job EXCEPT ![p] = Put(J, t, k)] DEF Changed
<1>4. /\ job'[p] \in [Threads[p] -> SUBSET Jobs] /\ job'[p][t] = {k}
      /\ \A u \in Threads[p] \ {t} : job'[p][u] = J[u]
  <2>1. J \in [Threads[p] -> SUBSET Jobs]
    BY ONLY <1>1, J = job[p] \/ J = Stale(job[p])
  <2> QED BY ONLY <1>2, <1>3, <2>1, t \in Threads[p] DEF Put
<1>5. Id(j.packet) \notin handled'[p]
  BY ONLY <1>0, handled' = handled, j \in job[p][t], t \in Threads[p], Live(j), Zenon DEF JobsOK, JobOK
<1>6. KeptAt(p, t)
  <2>1. dstReinit'[p] = dstReinit[p] /\ window[p] \subseteq window'[p]
    BY ONLY dstReinit' = dstReinit, window' = window, Zenon
  <2> QED BY ONLY <1>2, <1>4, <1>5, <2>1, j \in job[p][t], Live(j), Zenon DEF KeptAt
<1>7. ASSUME NEW u \in Threads[p] \ {t} PROVE KeptAt(p, u)
  <2>1. CASE J = job[p]
    <3>1. \A i \in job[p][u] : Live(i) => Id(i.packet) \notin handled'[p]
      BY ONLY <1>0, <1>7, handled' = handled, Zenon DEF JobsOK, JobOK
    <3>2. dstReinit'[p] = dstReinit[p] /\ window[p] \subseteq window'[p] /\ job'[p][u] = job[p][u]
      BY ONLY dstReinit' = dstReinit, window' = window, <1>4, <1>7, <2>1, Zenon
    <3> QED BY ONLY p \in Peers, <1>0, <1>7, <3>1, <3>2, SameAt, Zenon
  <2>2. CASE J = Stale(job[p])
    <3>1. job'[p][u] = Stale(job[p])[u]
      BY ONLY <1>4, <1>7, <2>2, Zenon
    <3> QED BY ONLY p \in Peers, <1>0, <1>7, <3>1, StaleAt, Zenon
  <2> QED BY ONLY <2>1, <2>2, J = job[p] \/ J = Stale(job[p])
<1>8. \A u \in Threads[p] : KeptAt(p, u) \/ NewAt(p, u)
  BY ONLY <1>6, <1>7, Zenon
<1>9. net \subseteq net'
  BY ONLY net' = net
<1> QED BY ONLY p \in Peers, <1>0, <1>3, <1>4, <1>8, <1>9, JobsKept, Zenon

\* What a lifecycle message leaves alone.
Frame == UNCHANGED <<clock, reinitTime, dstReinit, seqno, window, heard, net, handled, replayed>>

\* Live work is on a packet of the other peer, of the epoch that we know.
LEMMA LivePacket ==
  ASSUME PeerInv, NEW p \in Peers, NEW t \in Threads[p], NEW j \in job[p][t], Live(j)
  PROVE  /\ j.packet.src = Other(p) /\ PacketOK(j.packet) /\ j.packet.reinit = dstReinit[p]
         /\ j.packet.life \in Messages
<1>1. JobOK(p, j)
  BY Parts, Zenon DEF JobsOK
<1>2. j.packet \in Packets /\ PacketOK(j.packet) /\ j.packet.src # p /\ j.packet.reinit = dstReinit[p]
  BY <1>1, Parts, Zenon DEF JobOK
<1> QED BY <1>2, PacketFields, TwoPeers, Zenon

\* The channel has these two keys, and is ready.
Keyed(c, k, pk) == c \in Channels /\ c.ready /\ c.key = k /\ c.peerKey = pk

\* A channel made for the key of the peer.
Made(k, pk, d, e) ==
  [key |-> k, peerKey |-> pk, ready |-> TRUE, wantConfirm |-> TRUE, initDate |-> d, peerDate |-> e]

LEMMA MadeFields ==
  ASSUME NEW k \in Keys, NEW pk \in Keys, NEW d \in Dates, NEW e \in Dates
  PROVE  Keyed(Made(k, pk, d, e), k, pk) /\ Made(k, pk, d, e).wantConfirm
<1>1. Made(k, pk, d, e) \in Channels
  BY Zenon DEF Made, Channels
<1>2. /\ Made(k, pk, d, e).ready /\ Made(k, pk, d, e).wantConfirm
      /\ Made(k, pk, d, e).key = k /\ Made(k, pk, d, e).peerKey = pk
  BY DEF Made
<1> QED BY <1>1, <1>2, Zenon DEF Keyed

\* ... and one that gets the key of the peer.
Asked(c, pk, e) ==
  [c EXCEPT !.peerKey = pk, !.ready = TRUE, !.wantConfirm = TRUE, !.peerDate = e]
Answered(c, pk, e) ==
  [c EXCEPT !.peerKey = pk, !.ready = TRUE, !.wantConfirm = FALSE, !.peerDate = e]

LEMMA AskedFields ==
  ASSUME NEW c \in Channels, NEW pk \in Keys, NEW e \in Dates
  PROVE  Keyed(Asked(c, pk, e), c.key, pk) /\ Asked(c, pk, e).wantConfirm
BY DEF Channels, Asked, Keyed

LEMMA AnsweredFields ==
  ASSUME NEW c \in Channels, NEW pk \in Keys, NEW e \in Dates
  PROVE  Keyed(Answered(c, pk, e), c.key, pk)
BY DEF Channels, Answered, Keyed

\* The work goes on and the channel stays.
LEMMA InvGoOn ==
  ASSUME PeerInv, NEW p \in Peers, NEW t \in Threads[p], NEW j \in job[p][t], Live(j),
         GoOn(p, t, j), keys' = keys, Frame
  PROVE  PeerInv'
<1> DEFINE k == [j EXCEPT !.at = "data"]
<1> HIDE DEF k
<1>0. PeerShape(p) /\ HandledOK(p) /\ ~replayed /\ Shape
  BY Parts, Zenon
<1>1. job' = [job EXCEPT ![p] = Put(job[p], t, k)] /\ channel' = channel
  BY Zenon DEF GoOn, Put, k
<1>2. UNCHANGED <<clock, reinitTime, dstReinit, seqno, window, heard, net, handled, replayed>>
  BY Zenon DEF Frame
<1>3. Changed(job, job', p) /\ JobsOK(p)' /\ job'[p] \in [Threads[p] -> SUBSET Jobs]
  <2>1. k = [j EXCEPT !.at = "data"]
    BY DEF k
  <2> QED BY ONLY PeerInv, p \in Peers, t \in Threads[p], j \in job[p][t], Live(j), <1>1, <1>2, <2>1, Onward, Zenon
<1>4. Changed(handled, handled', p) /\ handled'[p] = handled[p]
  BY ONLY p \in Peers, <1>0, <1>2, AllFunctions, ChangedNowhere, Zenon
<1>5. (\A h \in handled'[p] : h[1] \in Nat) /\ ~replayed'
  BY ONLY <1>0, <1>2, <1>4, Zenon DEF PeerShape
<1>6. HandledOK(p)'
  BY ONLY <1>0, <1>2, Zenon DEF HandledOK
<1> QED BY ONLY PeerInv, p \in Peers, keys' = keys, <1>1, <1>2, <1>3, <1>4, <1>5, <1>6, Worked, Zenon

\* A channel is published, and the work on the packet goes on.
LEMMA InvPublish ==
  ASSUME PeerInv, NEW p \in Peers, NEW t \in Threads[p], NEW j \in job[p][t], Live(j),
         NEW c \in Channels, Publish(p, t, j, c), Frame, keys' \in [Peers -> Nat],
         c.ready, \A d \in channel[p] : d.key = c.key,
         KeyEpoch(c.key) = reinitTime[p], KeyEpoch(c.peerKey) = dstReinit[p],
         Issued(Other(p), c.peerKey), ~c.wantConfirm => Agreed(Other(p), c.peerKey, c.key)
  PROVE  PeerInv'
<1> DEFINE k == [j EXCEPT !.at = "data"]
<1> HIDE DEF k
<1>0. Shape
  BY Zenon DEF PeerInv
<1>1. job' = [job EXCEPT ![p] = Put(Stale(job[p]), t, k)] /\ channel' = [channel EXCEPT ![p] = {c}]
  BY Zenon DEF Publish, k
<1>2. UNCHANGED <<clock, reinitTime, dstReinit, seqno, window, heard, net, handled, replayed>>
  BY Zenon DEF Frame
<1>3. Changed(job, job', p) /\ JobsOK(p)' /\ job'[p] \in [Threads[p] -> SUBSET Jobs]
  <2>1. k = [j EXCEPT !.at = "data"]
    BY DEF k
  <2> QED BY ONLY PeerInv, p \in Peers, t \in Threads[p], j \in job[p][t], Live(j), <1>1, <1>2, <2>1, Onward, Zenon
<1>4. Changed(channel, channel', p) /\ channel'[p] = {c}
  BY ONLY p \in Peers, <1>0, <1>1, AllFunctions, ChangedAt, Zenon
<1> QED BY <1>2, <1>3, <1>4, Published, Zenon

LEMMA InvCreate ==
  ASSUME PeerInv, NEW p \in Peers, NEW t \in Threads[p], NEW j \in job[p][t], Live(j),
         CreateChannel(p, t, j, j.packet.life), Frame
  PROVE  PeerInv'
<1> DEFINE ms == j.packet.life
<1>0. Shape
  BY Zenon DEF PeerInv
<1>1. ms.type = "create" /\ ms \in Messages
  BY LivePacket, Zenon DEF CreateChannel
<1>2. KeyEpoch(ms.key) = dstReinit[p] /\ Issued(Other(p), ms.key)
  <2>1. /\ j.packet.src = Other(p) /\ PacketOK(j.packet) /\ j.packet.reinit = dstReinit[p]
    BY LivePacket, Zenon
  <2> QED BY ONLY <1>1, <2>1 DEF PacketOK
<1>3. ms.key \in Keys /\ ms.date \in Dates
  BY <1>1, <1>2, Zenon DEF Issued, Messages
<1>4. \/ /\ channel[p] = {} /\ keys' = [keys EXCEPT ![p] = @ + 1]
         /\ Publish(p, t, j, Made(NewKey(p), ms.key, clock, ms.date))
      \/ \E c \in channel[p] :
           /\ \/ GoOn(p, t, j)
              \/ Publish(p, t, j, Asked(c, ms.key, ms.date))
           /\ keys' = keys
  BY Zenon DEF CreateChannel, Made, Asked
<1> HIDE DEF ms
<1>5. ASSUME channel[p] = {}, keys' = [keys EXCEPT ![p] = @ + 1],
             Publish(p, t, j, Made(NewKey(p), ms.key, clock, ms.date))
      PROVE  PeerInv'
  <2>1. PICK c : c = Made(NewKey(p), ms.key, clock, ms.date)
    BY Zenon
  <2>2. NewKey(p) \in Keys /\ KeyEpoch(NewKey(p)) = reinitTime[p]
    BY ONLY <1>0, p \in Peers, NewKeyType, Zenon
  <2>3. clock \in Dates
    <3>1. clock \in 1..MaxClock
      BY <1>0, Zenon DEF Shape, Scalars
    <3> QED BY ONLY <3>1, PeersAssumption DEF Dates
  <2>4. c \in Channels /\ c.ready /\ c.wantConfirm /\ c.key = NewKey(p) /\ c.peerKey = ms.key
    <3>1. Keyed(Made(NewKey(p), ms.key, clock, ms.date), NewKey(p), ms.key) /\ Made(NewKey(p), ms.key, clock, ms.date).wantConfirm
      BY ONLY <1>3, <2>2, <2>3, MadeFields, Zenon
    <3> QED BY ONLY <2>1, <3>1 DEF Keyed
  <2>5. keys' \in [Peers -> Nat]
    BY ONLY <1>0, <1>5, p \in Peers, KeysType, Zenon
  <2>6. Publish(p, t, j, c)
    BY ONLY <1>5, <2>1
  <2>7. /\ \A d \in channel[p] : d.key = c.key
        /\ KeyEpoch(c.key) = reinitTime[p] /\ KeyEpoch(c.peerKey) = dstReinit[p]
        /\ Issued(Other(p), c.peerKey)
    BY ONLY <1>2, <1>5, <2>2, <2>4, Zenon
  <2> QED BY ONLY PeerInv, p \in Peers, t \in Threads[p], j \in job[p][t], Live(j), Frame,
                  <2>4, <2>5, <2>6, <2>7, InvPublish, Zenon
<1>6. ASSUME NEW c \in channel[p], keys' = keys,
             Publish(p, t, j, Asked(c, ms.key, ms.date))
      PROVE  PeerInv'
  <2>1. PICK d : d = Asked(c, ms.key, ms.date)
    BY Zenon
  <2>2. c \in Channels /\ ChannelOK(p, c) /\ \A e \in channel[p] : e = c
    BY ONLY PeerInv, p \in Peers, <1>6, Parts, Zenon DEF PeerShape
  <2>3. d \in Channels /\ d.ready /\ d.wantConfirm /\ d.key = c.key /\ d.peerKey = ms.key
    <3>1. Keyed(Asked(c, ms.key, ms.date), c.key, ms.key) /\ Asked(c, ms.key, ms.date).wantConfirm
      BY ONLY <1>3, <2>2, AskedFields, Zenon
    <3> QED BY ONLY <2>1, <3>1 DEF Keyed
  <2>4. keys' \in [Peers -> Nat]
    BY ONLY <1>0, <1>6, Zenon DEF Shape, Scalars
  <2>5. Publish(p, t, j, d)
    BY ONLY <1>6, <2>1
  <2>6. /\ \A e \in channel[p] : e.key = d.key
        /\ KeyEpoch(d.key) = reinitTime[p] /\ KeyEpoch(d.peerKey) = dstReinit[p]
        /\ Issued(Other(p), d.peerKey)
    BY ONLY <1>2, <2>2, <2>3, Zenon DEF ChannelOK
  <2> QED BY ONLY PeerInv, p \in Peers, t \in Threads[p], j \in job[p][t], Live(j), Frame,
                  <2>3, <2>4, <2>5, <2>6, InvPublish, Zenon
<1> QED BY ONLY PeerInv, p \in Peers, t \in Threads[p], j \in job[p][t], Live(j), Frame,
                <1>4, <1>5, <1>6, InvGoOn, Zenon

\* A thread drops its work, and nothing else happens.
LEMMA InvDrop ==
  ASSUME PeerInv, NEW p \in Peers, NEW t \in Threads[p], Drop(p, t), Frame, UNCHANGED <<channel, keys>>
  PROVE  PeerInv'
<1>0. Shape /\ PeerShape(p) /\ HandledOK(p) /\ JobsOK(p) /\ ~replayed
  BY Parts, Zenon
<1>1. UNCHANGED <<clock, reinitTime, dstReinit, seqno, window, heard, net, channel, keys, handled, replayed>>
  BY Zenon DEF Frame
<1>2. \A u \in Threads[p] \ {t} : \A j \in job[p][u] : Live(j) => Id(j.packet) \notin handled'[p]
  BY ONLY <1>0, <1>1, Zenon DEF JobsOK, JobOK
<1>3. Changed(job, job', p) /\ JobsOK(p)' /\ job'[p] \in [Threads[p] -> SUBSET Jobs]
  BY ONLY PeerInv, p \in Peers, t \in Threads[p], Drop(p, t), <1>1, <1>2, Dropped, Zenon
<1>4. Changed(handled, handled', p) /\ handled'[p] = handled[p]
  BY ONLY p \in Peers, <1>0, <1>1, AllFunctions, ChangedNowhere, Zenon
<1>5. (\A h \in handled'[p] : h[1] \in Nat) /\ ~replayed'
  BY ONLY <1>0, <1>1, <1>4, Zenon DEF PeerShape
<1>6. HandledOK(p)'
  BY ONLY <1>0, <1>1, Zenon DEF HandledOK
<1> QED BY ONLY PeerInv, p \in Peers, <1>1, <1>3, <1>4, <1>5, <1>6, Worked, Zenon

LEMMA InvConfirm ==
  ASSUME PeerInv, NEW p \in Peers, NEW t \in Threads[p], NEW j \in job[p][t], Live(j),
         ConfirmChannel(p, t, j, j.packet.life), Frame
  PROVE  PeerInv'
<1> DEFINE ms == j.packet.life
<1>0. Shape
  BY Zenon DEF PeerInv
<1>1. ms.type = "confirm" /\ ms \in Messages /\ keys' = keys
  BY LivePacket, Zenon DEF ConfirmChannel
<1>2. KeyEpoch(ms.key) = dstReinit[p] /\ Agreed(Other(p), ms.key, ms.peerKey)
  <2>1. /\ j.packet.src = Other(p) /\ PacketOK(j.packet) /\ j.packet.reinit = dstReinit[p]
    BY LivePacket, Zenon
  <2> QED BY ONLY <1>1, <2>1 DEF PacketOK
<1>3. ms.key \in Keys /\ ms.date \in Dates /\ Issued(Other(p), ms.key)
  BY <1>1, <1>2, Zenon DEF Issued, Agreed, Messages
<1>4. \/ Drop(p, t) /\ channel' = channel
      \/ \E c \in channel[p] :
           /\ c.key = ms.peerKey
           /\ \/ GoOn(p, t, j)
              \/ Publish(p, t, j, Answered(c, ms.key, ms.date))
  BY Zenon DEF ConfirmChannel, Answered
<1> HIDE DEF ms
<1>5. ASSUME NEW c \in channel[p], c.key = ms.peerKey,
             Publish(p, t, j, Answered(c, ms.key, ms.date))
      PROVE  PeerInv'
  <2>1. PICK d : d = Answered(c, ms.key, ms.date)
    BY Zenon
  <2>2. c \in Channels /\ ChannelOK(p, c) /\ \A e \in channel[p] : e = c
    BY ONLY PeerInv, p \in Peers, <1>5, Parts, Zenon DEF PeerShape
  <2>3. d \in Channels /\ d.ready /\ d.key = c.key /\ d.peerKey = ms.key
    <3>1. Keyed(Answered(c, ms.key, ms.date), c.key, ms.key)
      BY ONLY <1>3, <2>2, AnsweredFields, Zenon
    <3> QED BY ONLY <2>1, <3>1 DEF Keyed
  <2>4. keys' \in [Peers -> Nat]
    BY ONLY <1>0, <1>1, Zenon DEF Shape, Scalars
  <2>5. Publish(p, t, j, d)
    BY ONLY <1>5, <2>1
  <2>6. /\ \A e \in channel[p] : e.key = d.key
        /\ KeyEpoch(d.key) = reinitTime[p] /\ KeyEpoch(d.peerKey) = dstReinit[p]
        /\ Issued(Other(p), d.peerKey)
    BY ONLY <1>2, <1>3, <2>2, <2>3, Zenon DEF ChannelOK
  <2>7. Agreed(Other(p), d.peerKey, d.key)
    BY ONLY <1>2, <1>5, <2>3, Zenon
  <2> QED BY ONLY PeerInv, p \in Peers, t \in Threads[p], j \in job[p][t], Live(j), Frame,
                  <2>3, <2>4, <2>5, <2>6, <2>7, InvPublish, Zenon
<1> QED BY ONLY PeerInv, p \in Peers, t \in Threads[p], j \in job[p][t], Live(j), Frame,
                <1>1, <1>4, <1>5, InvGoOn, InvDrop, Zenon

LEMMA InvLifecycle ==
  ASSUME PeerInv, NEW p \in Peers, NEW t \in Threads[p], ProcessLifecycle(p, t)
  PROVE  PeerInv'
<1>1. Frame
  BY Zenon DEF ProcessLifecycle, Frame
<1>2. PICK j \in job[p][t] :
        /\ j.at = "life"
        /\ \/ Drop(p, t) /\ UNCHANGED <<channel, keys>>
           \/ j.current /\ CreateChannel(p, t, j, j.packet.life)
           \/ j.current /\ ConfirmChannel(p, t, j, j.packet.life)
  BY Zenon DEF ProcessLifecycle
<1>3. j.current => Live(j)
  BY <1>2 DEF Live
<1> QED BY <1>1, <1>2, <1>3, InvDrop, InvCreate, InvConfirm, Zenon

LEMMA InvData ==
  ASSUME PeerInv, NEW p \in Peers, NEW t \in Threads[p], ProcessData(p, t)
  PROVE  PeerInv'
<1>0. Shape /\ PeerShape(p) /\ HandledOK(p) /\ JobsOK(p) /\ ~replayed
  BY Parts, Zenon
<1>1. PICK j \in job[p][t] :
        /\ j.at = "data" /\ Drop(p, t)
        /\ IF j.current /\ j.packet.data
             THEN /\ handled' = [handled EXCEPT ![p] = @ \cup {Id(j.packet)}]
                  /\ replayed' = (replayed \/ Id(j.packet) \in handled[p])
             ELSE UNCHANGED <<handled, replayed>>
  BY Zenon DEF ProcessData
<1>2. UNCHANGED <<clock, reinitTime, dstReinit, seqno, window, heard, net, channel, keys>>
  BY Zenon DEF ProcessData, conn
<1>3. CASE ~(j.current /\ j.packet.data)
  <2>1. Frame
    BY <1>1, <1>2, <1>3, Zenon DEF Frame
  <2> QED BY ONLY PeerInv, p \in Peers, t \in Threads[p], <1>1, <1>2, <2>1, InvDrop, Zenon
<1>4. CASE j.current /\ j.packet.data
  <2>1. Live(j)
    BY <1>1, <1>4 DEF Live
  <2>2. JobOK(p, j)
    BY ONLY <1>0, t \in Threads[p], <1>1, Zenon DEF JobsOK
  <2>3. /\ j.packet.reinit = dstReinit[p] /\ j.packet.seqno \in window[p]
        /\ Id(j.packet) \notin handled[p]
    BY ONLY <2>1, <2>2, Zenon DEF JobOK
  <2>4. /\ handled' = [handled EXCEPT ![p] = handled[p] \cup {Id(j.packet)}] /\ ~replayed'
    BY ONLY <1>0, <1>1, <1>4, <2>3, Zenon
  <2>5. Changed(handled, handled', p) /\ handled'[p] = handled[p] \cup {Id(j.packet)}
    BY ONLY <1>0, <2>4, p \in Peers, AllFunctions, ChangedAt, Zenon
  <2>6. ASSUME NEW u \in Threads[p] \ {t}, NEW i \in job[p][u], Live(i)
        PROVE  Id(i.packet) \notin handled'[p]
    <3>1. JobOK(p, i) /\ i.packet.seqno # j.packet.seqno
      <4>1. u \in Threads[p] /\ u # t /\ i \in job[p][u] /\ Live(i)
        BY ONLY <2>6, Zenon
      <4> QED BY ONLY <1>0, <2>1, <4>1, t \in Threads[p], j \in job[p][t], Zenon DEF JobsOK
    <3>2. Id(i.packet) # Id(j.packet)
      BY ONLY <3>1 DEF Id
    <3> QED BY ONLY <2>5, <2>6, <3>1, <3>2, Zenon DEF JobOK
  <2>7. dstReinit'[p] = dstReinit[p] /\ window'[p] = window[p] /\ net \subseteq net'
    BY ONLY <1>2, Zenon
  <2>8. Changed(job, job', p) /\ JobsOK(p)' /\ job'[p] \in [Threads[p] -> SUBSET Jobs]
    BY ONLY PeerInv, p \in Peers, t \in Threads[p], <1>1, <2>6, <2>7, Dropped, Zenon
  <2>9. dstReinit[p] \in Nat /\ Id(j.packet)[1] = dstReinit[p] /\ Id(j.packet)[2] \in window[p]
    <3>1. dstReinit[p] \in Nat
      BY ONLY <1>0, p \in Peers, Numbers, Zenon
    <3>2. Id(j.packet)[1] = j.packet.reinit /\ Id(j.packet)[2] = j.packet.seqno
      BY DEF Id
    <3> QED BY ONLY <2>3, <3>1, <3>2
  <2>10. \A h \in handled'[p] : h[1] \in Nat
    BY ONLY <1>0, <2>5, <2>9, Zenon DEF PeerShape
  <2>11. HandledOK(p)'
    <3>1. dstReinit[p] <= dstReinit[p]
      BY ONLY <2>9
    <3>2. \A h \in handled'[p] : h[1] <= dstReinit[p] /\ (h[1] = dstReinit[p] => h[2] \in window[p])
      BY ONLY <1>0, <2>5, <2>9, <3>1, Zenon DEF HandledOK
    <3> QED BY ONLY <2>7, <3>2, Zenon DEF HandledOK
  <2> QED BY ONLY PeerInv, p \in Peers, <1>2, <2>4, <2>5, <2>8, <2>10, <2>11, Worked, Zenon
<1> QED BY <1>3, <1>4

-----------------------------------------------------------------------------
(* The invariant and what follows                                          *)

LEMMA InvInit == Init => PeerInv
<1> SUFFICES ASSUME Init PROVE PeerInv
  OBVIOUS
<1>1. 1 \in 1..MaxClock /\ 1 \in Epochs /\ 0 \in 0..MaxEpoch
  BY PeersAssumption DEF Epochs
<1>2. PeerFunctions
  BY Zenon DEF Init, PeerFunctions
<1>3. Scalars
  <2>1. 0 \in Nat
    OBVIOUS
  <2> QED BY <1>1, <2>1, Zenon DEF Init, Scalars
<1>4. ASSUME NEW p \in Peers
      PROVE  /\ channel[p] = {} /\ handled[p] = {} /\ job[p] = [t \in Threads[p] |-> {}]
  BY Zenon DEF Init
<1>5. \A p \in Peers : PeerShape(p)
  BY <1>4, Zenon DEF PeerShape
<1>6. Shape
  BY <1>2, <1>3, <1>5, Zenon DEF Shape, Init
<1>7. WorkOK
  BY <1>4, Zenon DEF WorkOK, JobsOK, HandledOK
<1>8. ChannelsOK /\ PacketsOK /\ ~replayed
  BY <1>4, Zenon DEF ChannelsOK, PacketsOK, Init
<1> QED BY <1>6, <1>7, <1>8 DEF PeerInv

\* The inductive invariant of two peers: what the keys in a packet say about
\* its sender stays true, live work is on packets of the known epoch, and the
\* window remembers what was handled in it.
THEOREM PeerInvariant == Spec => []PeerInv
<1>1. Init => PeerInv
  BY InvInit
<1>2. PeerInv /\ [Next]_vars => PeerInv'
  <2> SUFFICES ASSUME PeerInv, [Next]_vars PROVE PeerInv'
    OBVIOUS
  <2>1. CASE UNCHANGED vars
    <3>1. UNCHANGED <<clock, reinitTime, dstReinit, seqno, window, channel, heard, keys, job, net, handled, replayed>>
      BY <2>1, Zenon DEF vars, conn, history
    <3>2. Scalars'
      BY <3>1, Zenon DEF PeerInv, Shape, Scalars
    <3> QED BY <3>1, <3>2, Unmoved, Zenon
  <2>2. CASE Tick
    BY <2>2, InvTick, Zenon
  <2>3. ASSUME NEW p \in Peers, SendReady(p) \/ SendPending(p) \/ Reinit(p) PROVE PeerInv'
    BY <2>3, InvSendReady, InvSendPending, InvReinit, Zenon
  <2>4. ASSUME NEW p \in Peers, NEW t \in Threads[p], NEW m \in net, Receive(p, t, m) PROVE PeerInv'
    BY <2>4, InvReceive, Zenon
  <2>5. ASSUME NEW p \in Peers, NEW t \in Threads[p],
               RespondReinit(p, t) \/ ProcessLifecycle(p, t) \/ ProcessData(p, t)
        PROVE  PeerInv'
    BY <2>5, InvRespond, InvLifecycle, InvData, Zenon
  <2> QED BY <2>1, <2>2, <2>3, <2>4, <2>5, Zenon DEF Next
<1> QED BY <1>1, <1>2, PTL DEF Spec

\* The state of the peers keeps its types: one channel at most, and ready
\* exactly when it has the peer's key.
THEOREM PeerTypeCorrect == Spec => []TypeOK
<1>1. PeerInv => TypeOK
  BY ShapeTypes DEF PeerInv
<1> QED BY <1>1, PeerInvariant, PTL

\* For any number of copies of packets, epochs and threads, processMessageWithState
\* hands the data of a packet to its handler at most once in an epoch of the receiver.
THEOREM DataIsHandledOnce == Spec => []HandledOnce
<1>1. PeerInv => HandledOnce
  BY Zenon DEF PeerInv, HandledOnce
<1> QED BY <1>1, PeerInvariant, PTL

\* A ready channel always has a key of the epoch of the peer that we know: work
\* on a packet of an older epoch never sets up a channel in a newer one
\* (lifecycleVersion in processLifecycleMessage).
THEOREM ChannelHasTheEpoch == Spec => []ChannelOfEpoch
<1>1. PeerInv => ChannelOfEpoch
  BY Zenon DEF PeerInv, ChannelsOK, ChannelOK, ChannelOfEpoch
<1> QED BY <1>1, PeerInvariant, PTL

\* A peer that has stopped confirming its channel (wantConfirm is FALSE) is
\* understood: while the other side is in the epoch that we know it has a ready
\* channel with the same two keys.
THEOREM PeersUnderstandEachOther == Spec => []NoBlackHole
<1>1. PeerInv => NoBlackHole
  <2> SUFFICES ASSUME PeerInv, NEW p \in Peers, NEW c \in channel[p],
                      c.ready /\ ~c.wantConfirm, reinitTime[Other(p)] = dstReinit[p]
               PROVE  \E d \in channel[Other(p)] : d.ready /\ d.key = c.peerKey /\ d.peerKey = c.key
    BY Zenon DEF NoBlackHole
  <2>1. /\ KeyEpoch(c.key) = reinitTime[p] /\ KeyEpoch(c.peerKey) = dstReinit[p]
        /\ Agreed(Other(p), c.peerKey, c.key)
    BY Parts, Zenon DEF ChannelOK
  <2>2. Other(Other(p)) = p
    BY TwoPeers, Zenon
  <2> QED BY <2>1, <2>2, Zenon DEF Agreed
<1> QED BY <1>1, PeerInvariant, PTL
=============================================================================
