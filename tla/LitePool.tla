------------------------------ MODULE LitePool ------------------------------
(* The pool of connections to liteservers (liteclient/pool.go and              *)
(* liteclient/connection.go).  For every server there is one goroutine that    *)
(* dials (AddConnectionsFromConfig at first, DefaultReconnect afterwards), the *)
(* listener of the connection it made, and the pings.  Callers send queries,   *)
(* any of them may Stop the pool.                                              *)
(*                                                                             *)
(* A connection object is named by its server and a number: a dial makes a new *)
(* one.  The listener of a connection that was never registered only closes    *)
(* it, so it is forgotten at the next dial.                                    *)
EXTENDS Integers, FiniteSets

CONSTANTS
  Servers,    \* liteservers, a configuration has some of them
  Queries,    \* the calls of QueryADNL
  Sticky,     \* [Queries -> Servers \cup {None}], the node a context is bound to
  None,       \* not a server
  MaxMissed,  \* _nodeMaxMissedPings
  Attempts,   \* attempts of AddConnectionsFromConfig; a caller of AddConnection makes one
  MaxFaults   \* bound: failures of dials, handshakes and links

ASSUME PoolAssumption ==
  /\ IsFiniteSet(Queries) /\ None \notin Servers /\ Sticky \in [Queries -> Servers \cup {None}]
  /\ MaxMissed \in Nat \ {0} /\ Attempts \in Nat \ {0} /\ MaxFaults \in Nat

VARIABLES
  stopped,    \* globalCtx is done
  stopping,   \* Stop: "no", "snapshot" when it has cancelled globalCtx, "done"
  dialer,     \* the dialing goroutine of a server: where it is
  tries,      \* attempts it has left, Forever for DefaultReconnect
  gen,        \* number of the newest connection of a server
  tcp,        \* its socket: "none", "open", "silent" (the peer is gone), "closed"
  authed,     \* the handshake and the authorization are through
  initialized,\* the listener has seen the answer to the handshake
  listener,   \* the listener: "none", "read", "torn", "ended"
  registered, \* connection.registered
  closed,     \* connection.closed
  active,     \* the connection is in activeNodes
  pings,      \* ages, in ticks, of the pings without a pong
  missed,     \* missedPings
  inflight,   \* inflight
  qpc,        \* QueryADNL: where a call is
  node,       \* the connection it uses
  excluded,   \* the servers it will not try (again)
  asked,      \* the queries a server has received and not answered, per connection
  resp,       \* queries whose RespChan holds a response
  activeReqs, \* activeReqs
  faults      \* failures so far

poolVars == <<stopped, stopping>>
dialVars == <<dialer, tries>>
connVars == <<gen, tcp, authed, initialized, listener, registered, closed, active>>
pingVars == <<pings, missed>>
queryVars == <<qpc, node, excluded, asked, resp, activeReqs>>
vars == <<poolVars, dialVars, connVars, pingVars, inflight, queryVars, faults>>

Forever == -1
Conn(s) == <<s, gen[s]>>

Init ==
  /\ stopped = FALSE /\ stopping = "no"
  /\ \E config \in SUBSET Servers, attempts \in {1, Attempts} :
       /\ dialer = [s \in Servers |-> IF s \in config THEN "start" ELSE "idle"]
       /\ tries = [s \in Servers |-> IF s \in config THEN attempts ELSE 0]
  /\ gen = [s \in Servers |-> 0]
  /\ tcp = [s \in Servers |-> "none"]
  /\ authed = [s \in Servers |-> FALSE]
  /\ initialized = [s \in Servers |-> FALSE]
  /\ listener = [s \in Servers |-> "none"]
  /\ registered = [s \in Servers |-> FALSE]
  /\ closed = [s \in Servers |-> FALSE]
  /\ active = [s \in Servers |-> FALSE]
  /\ pings = [s \in Servers |-> {}]
  /\ missed = [s \in Servers |-> 0]
  /\ inflight = [s \in Servers |-> 0]
  /\ qpc \in [Queries -> {"idle", "done"}]
  /\ node = [q \in Queries |-> <<None, 0>>]
  /\ excluded = [q \in Queries |-> {}]
  /\ asked = {} /\ resp = {} /\ activeReqs = {}
  /\ faults \in 0..MaxFaults

Fault == faults < MaxFaults /\ faults' = faults + 1

\* A call whose connection counts it in inflight.
Charged(q) == qpc[q] \in {"write", "unsent", "wait"}

\* querySticky holds nodesMx for reading from the lookup of its node until the
\* write is over; who needs it for writing waits.
NodesFree ==
  \A q \in Queries :
    Sticky[q] # None /\ excluded[q] = {} => qpc[q] \notin {"write", "unsent"}

-----------------------------------------------------------------------------
(* AddConnection, called in a loop by the dialing goroutine.                   *)

\* AddConnection returns an error: a socket that was not registered is closed,
\* and the caller tries again, at once from AddConnectionsFromConfig, after a
\* sleep from DefaultReconnect, or gives up.
DialFails(s) ==
  /\ tcp' = [tcp EXCEPT ![s] = IF @ = "none" THEN "none" ELSE "closed"]
  /\ tries' = [tries EXCEPT ![s] = IF @ = Forever THEN @ ELSE @ - 1]
  /\ dialer' = [dialer EXCEPT ![s] = IF tries[s] = Forever THEN "sleep"
                                     ELSE IF tries[s] > 1 THEN "start" ELSE "idle"]

\* The first check of the contexts, and net.DialTimeout with the handshake
\* packet: a new connection and its listener, or an error.
Dial(s) ==
  /\ dialer[s] = "start"
  /\ \/ /\ stopped
        /\ DialFails(s)
        /\ UNCHANGED <<gen, authed, initialized, listener, registered, closed, active,
                       pingVars, inflight, faults>>
     \/ /\ ~stopped
        /\ Fault
        /\ DialFails(s)
        /\ UNCHANGED <<gen, authed, initialized, listener, registered, closed, active,
                       pingVars, inflight>>
     \/ /\ ~stopped
        /\ gen' = [gen EXCEPT ![s] = @ + 1]
        /\ tcp' = [tcp EXCEPT ![s] = "open"]
        /\ authed' = [authed EXCEPT ![s] = FALSE]
        /\ initialized' = [initialized EXCEPT ![s] = FALSE]
        /\ listener' = [listener EXCEPT ![s] = "read"]
        /\ registered' = [registered EXCEPT ![s] = FALSE]
        /\ closed' = [closed EXCEPT ![s] = FALSE]
        /\ pings' = [pings EXCEPT ![s] = {}]
        /\ missed' = [missed EXCEPT ![s] = 0]
        /\ inflight' = [inflight EXCEPT ![s] = 0]
        /\ dialer' = [dialer EXCEPT ![s] = "await"]
        /\ UNCHANGED <<active, tries, faults>>
  /\ UNCHANGED <<poolVars, queryVars>>

\* The waits for the handshake and for the authorization.  They end with the
\* event, with the end of the listener, with Stop or with the deadline, which
\* passes for sure when the peer is gone.
Await(s) ==
  /\ dialer[s] = "await"
  /\ \/ /\ authed[s]
        /\ dialer' = [dialer EXCEPT ![s] = "check"]
        /\ UNCHANGED <<tcp, tries, faults>>
     \/ /\ stopped \/ closed[s] \/ tcp[s] = "silent"
        /\ DialFails(s)
        /\ UNCHANGED faults
     \/ /\ Fault
        /\ DialFails(s)
  /\ UNCHANGED <<poolVars, gen, authed, initialized, listener, registered, closed, active,
                 pingVars, inflight, queryVars>>

\* The last check of the contexts before the registration.
Check(s) ==
  /\ dialer[s] = "check"
  /\ \/ ~stopped /\ dialer' = [dialer EXCEPT ![s] = "register"] /\ UNCHANGED <<tcp, tries>>
     \/ stopped /\ DialFails(s)
  /\ UNCHANGED <<poolVars, gen, authed, initialized, listener, registered, closed, active,
                 pingVars, inflight, queryVars, faults>>

\* Mutation: a connection whose listener has ended is registered all the same.
RegisterClosed(s) ==
  /\ dialer[s] = "register" /\ NodesFree
  /\ registered' = [registered EXCEPT ![s] = TRUE]
  /\ active' = [active EXCEPT ![s] = TRUE]
  /\ dialer' = [dialer EXCEPT ![s] = "idle"]
  /\ UNCHANGED <<poolVars, tcp, tries, gen, authed, initialized, listener, closed, pingVars,
                 inflight, queryVars, faults>>

\* registerConnection, under nodesMx; with no error the dialing is over.
Register(s) ==
  /\ dialer[s] = "register" /\ NodesFree
  /\ IF closed[s]
     THEN DialFails(s) /\ UNCHANGED <<registered, active>>
     ELSE /\ registered' = [registered EXCEPT ![s] = TRUE]
          /\ active' = [active EXCEPT ![s] = TRUE]
          /\ dialer' = [dialer EXCEPT ![s] = "idle"]
          /\ UNCHANGED <<tcp, tries>>
  /\ UNCHANGED <<poolVars, gen, authed, initialized, listener, closed, pingVars, inflight,
                 queryVars, faults>>

\* DefaultReconnect sleeps, whether or not the pool was stopped.
WakeUp(s) ==
  /\ dialer[s] = "sleep"
  /\ dialer' = [dialer EXCEPT ![s] = "start"]
  /\ UNCHANGED <<poolVars, tries, connVars, pingVars, inflight, queryVars, faults>>

-----------------------------------------------------------------------------
(* The listener of a connection.                                               *)

\* The server answers the handshake with an empty packet.
Handshake(s) ==
  /\ listener[s] = "read" /\ tcp[s] = "open" /\ ~initialized[s]
  /\ initialized' = [initialized EXCEPT ![s] = TRUE]
  /\ UNCHANGED <<poolVars, dialVars, gen, tcp, authed, listener, registered, closed, active,
                 pingVars, inflight, queryVars, faults>>

\* The server's nonce arrives; authSignComplete answers it and closes authEvt.
Authorize(s) ==
  /\ listener[s] = "read" /\ tcp[s] = "open" /\ initialized[s] /\ ~authed[s]
  /\ authed' = [authed EXCEPT ![s] = TRUE]
  /\ UNCHANGED <<poolVars, dialVars, gen, tcp, initialized, listener, registered, closed,
                 active, pingVars, inflight, queryVars, faults>>

\* A pong: notePong.
Pong(s) ==
  /\ listener[s] = "read" /\ tcp[s] = "open"
  /\ \E a \in pings[s] : pings' = [pings EXCEPT ![s] = @ \ {a}]
  /\ missed' = [missed EXCEPT ![s] = 0]
  /\ UNCHANGED <<poolVars, dialVars, connVars, inflight, queryVars, faults>>

\* An answer: it goes to the buffered channel of a query that still waits.
Answer(s, q) ==
  /\ listener[s] = "read" /\ tcp[s] = "open" /\ <<q, Conn(s)>> \in asked
  /\ asked' = asked \ {<<q, Conn(s)>>}
  /\ resp' = IF q \in activeReqs THEN resp \cup {q} ELSE resp
  /\ UNCHANGED <<poolVars, dialVars, connVars, pingVars, inflight, qpc, node, excluded,
                 activeReqs, faults>>

\* The read fails: the listener closes the socket and, under nodesMx, marks the
\* connection closed and takes it out of activeNodes.
TearDown(s) ==
  /\ listener[s] = "read" /\ tcp[s] = "closed" /\ NodesFree
  /\ closed' = [closed EXCEPT ![s] = TRUE]
  /\ active' = [active EXCEPT ![s] = IF registered[s] THEN FALSE ELSE @]
  /\ listener' = [listener EXCEPT ![s] = "torn"]
  /\ UNCHANGED <<poolVars, dialVars, gen, tcp, authed, initialized, registered, pingVars,
                 inflight, queryVars, faults>>

\* The end of listen: the callback of a connection that was registered when it
\* was torn down is started unless the pool is stopped.
Notify(s) ==
  /\ listener[s] = "torn"
  /\ listener' = [listener EXCEPT ![s] = "ended"]
  /\ IF initialized[s] /\ registered[s] /\ ~stopped
     THEN /\ dialer' = [dialer EXCEPT ![s] = "start"]
          /\ tries' = [tries EXCEPT ![s] = Forever]
     ELSE UNCHANGED dialVars
  /\ UNCHANGED <<poolVars, gen, tcp, authed, initialized, registered, closed, active,
                 pingVars, inflight, queryVars, faults>>

\* The network: a link breaks, or the peer disappears without a word.
LinkFails(s) ==
  /\ tcp[s] \in {"open", "silent"} /\ Fault
  /\ \/ tcp' = [tcp EXCEPT ![s] = "closed"]
     \/ tcp[s] = "open" /\ tcp' = [tcp EXCEPT ![s] = "silent"]
  /\ UNCHANGED <<poolVars, dialVars, gen, authed, initialized, listener, registered, closed,
                 active, pingVars, inflight, queryVars>>

\* Mutation: pings that got no pong are forgotten without being counted.
PingRoundForgets(s) ==
  /\ ~stopped /\ active[s] /\ tcp[s] # "closed"
  /\ pings' = [pings EXCEPT ![s] = {a + 1 : a \in @ \cap {0}} \cup {0}]
  /\ UNCHANGED <<poolVars, dialVars, connVars, missed, inflight, queryVars, faults>>

\* startPings, one round for one node: a ping that is two ticks old without a
\* pong has expired.  A peer whose link works sends its pongs in time, unless
\* something fails.
PingRound(s) ==
  /\ ~stopped /\ active[s]
  /\ LET expired == pings[s] \cap {1}
         next    == missed[s] + Cardinality(expired)
         older   == {a + 1 : a \in pings[s] \ expired}
     IN /\ IF tcp[s] = "open" /\ expired # {} THEN Fault ELSE UNCHANGED faults
        /\ missed' = [missed EXCEPT ![s] = next]
        /\ IF next >= MaxMissed
           THEN /\ tcp' = [tcp EXCEPT ![s] = "closed"]
                /\ pings' = [pings EXCEPT ![s] = older]
           ELSE /\ pings' = [pings EXCEPT ![s] = IF tcp[s] = "closed" THEN older
                                                ELSE older \cup {0}]
                /\ UNCHANGED tcp
  /\ UNCHANGED <<poolVars, dialVars, gen, authed, initialized, listener, registered, closed,
                 active, inflight, queryVars>>

-----------------------------------------------------------------------------
(* Stop.                                                                       *)

StopCancels ==
  /\ stopping = "no"
  /\ stopped' = TRUE /\ stopping' = "snapshot"
  /\ UNCHANGED <<dialVars, connVars, pingVars, inflight, queryVars, faults>>

\* activeNodesSnapshot, and Close for every node of it.
StopCloses ==
  /\ stopping = "snapshot"
  /\ stopping' = "done"
  /\ tcp' = [s \in Servers |-> IF active[s] THEN "closed" ELSE tcp[s]]
  /\ UNCHANGED <<stopped, dialVars, gen, authed, initialized, listener, registered, closed,
                 active, pingVars, inflight, queryVars, faults>>

-----------------------------------------------------------------------------
(* QueryADNL.                                                                  *)

QueryStart(q) ==
  /\ qpc[q] = "idle"
  /\ activeReqs' = activeReqs \cup {q}
  /\ qpc' = [qpc EXCEPT ![q] = IF Sticky[q] = None THEN "pick" ELSE "sticky"]
  /\ UNCHANGED <<poolVars, dialVars, connVars, pingVars, inflight, node, excluded, asked,
                 resp, faults>>

\* requestStarted on connection c.  Only the newest connection of a server can be
\* picked again, the inflight of the others is not followed.
RequestStarted(q, c) ==
  /\ inflight' = [inflight EXCEPT ![c[1]] = IF c = Conn(c[1]) THEN @ + 1 ELSE @]
  /\ node' = [node EXCEPT ![q] = c]
  /\ qpc' = [qpc EXCEPT ![q] = "write"]

\* requestFinished on connection c.
RequestFinished(c) ==
  inflight' = [inflight EXCEPT ![c[1]] = IF c = Conn(c[1]) /\ @ > 0 THEN @ - 1 ELSE @]

\* querySticky: the node of the context if it is active, written to under nodesMx;
\* any other node otherwise.
QuerySticky(q) ==
  /\ qpc[q] = "sticky"
  /\ IF active[Sticky[q]]
     THEN RequestStarted(q, Conn(Sticky[q])) /\ UNCHANGED excluded
     ELSE /\ excluded' = [excluded EXCEPT ![q] = {Sticky[q]}]
          /\ qpc' = [qpc EXCEPT ![q] = "pick"]
          /\ UNCHANGED <<inflight, node>>
  /\ UNCHANGED <<poolVars, dialVars, connVars, pingVars, asked, resp, activeReqs, faults>>

\* pickBestNode, under nodesMx: some active node that is not excluded (weights
\* and latencies decide which), or the error ErrNoActiveConnections.
QueryPick(q) ==
  /\ qpc[q] = "pick"
  /\ LET candidates == {s \in Servers : active[s] /\ s \notin excluded[q]}
     IN \/ \E s \in candidates :
             /\ node' = [node EXCEPT ![q] = Conn(s)]
             /\ qpc' = [qpc EXCEPT ![q] = "send"]
             /\ UNCHANGED activeReqs
        \/ /\ candidates = {}
           /\ qpc' = [qpc EXCEPT ![q] = "failed"]
           /\ activeReqs' = activeReqs \ {q}
           /\ UNCHANGED node
  /\ UNCHANGED <<poolVars, dialVars, connVars, pingVars, inflight, excluded, asked, resp,
                 faults>>

QuerySend(q) ==
  /\ qpc[q] = "send"
  /\ RequestStarted(q, node[q])
  /\ UNCHANGED <<poolVars, dialVars, connVars, pingVars, excluded, asked, resp, activeReqs,
                 faults>>

\* queryAdnl: the query waits for its answer, or the write fails, which closes the
\* socket.
QueryWrite(q) ==
  LET s    == node[q][1]
      open == node[q] = Conn(s) /\ tcp[s] # "closed"
  IN /\ qpc[q] = "write"
     /\ \/ /\ open
           /\ asked' = IF tcp[s] = "open" THEN asked \cup {<<q, node[q]>>} ELSE asked
           /\ qpc' = [qpc EXCEPT ![q] = "wait"]
           /\ UNCHANGED <<tcp, faults>>
        \/ /\ ~open
           /\ qpc' = [qpc EXCEPT ![q] = "unsent"]
           /\ UNCHANGED <<asked, tcp, faults>>
        \/ /\ open /\ Fault
           /\ tcp' = [tcp EXCEPT ![s] = "closed"]
           /\ qpc' = [qpc EXCEPT ![q] = "unsent"]
           /\ UNCHANGED asked
     /\ UNCHANGED <<poolVars, dialVars, gen, authed, initialized, listener, registered, closed,
                    active, pingVars, inflight, node, excluded, resp, activeReqs>>

\* Mutation: a failed write leaves its node charged.
QuerySendFailedKeeps(q) ==
  /\ qpc[q] = "unsent"
  /\ excluded' = [excluded EXCEPT ![q] = @ \cup {node[q][1]}]
  /\ qpc' = [qpc EXCEPT ![q] = "pick"]
  /\ UNCHANGED <<poolVars, dialVars, connVars, pingVars, inflight, node, asked, resp,
                 activeReqs, faults>>

\* requestSendFailed, and the next node is tried.
QuerySendFailed(q) ==
  /\ qpc[q] = "unsent"
  /\ RequestFinished(node[q])
  /\ excluded' = [excluded EXCEPT ![q] = @ \cup {node[q][1]}]
  /\ qpc' = [qpc EXCEPT ![q] = "pick"]
  /\ UNCHANGED <<poolVars, dialVars, connVars, pingVars, node, asked, resp, activeReqs, faults>>

\* The call is over for node c: requestFinished, and a query leaves activeReqs.
Finish(q, c, outcome) ==
  /\ RequestFinished(c)
  /\ qpc' = [qpc EXCEPT ![q] = outcome]
  /\ activeReqs' = activeReqs \ {q}

\* A response: requestSucceeded, which forgets missed pings, or requestFinished
\* when the server is busy.
QueryDone(q) ==
  /\ qpc[q] = "wait" /\ q \in resp
  /\ Finish(q, node[q], "done")
  /\ \/ missed' = [s \in Servers |-> IF Conn(s) = node[q] THEN 0 ELSE missed[s]]
     \/ UNCHANGED missed
  /\ UNCHANGED <<poolVars, dialVars, connVars, pings, node, excluded, asked, resp, faults>>

\* The context of the call ends: requestTimedOut.
QueryTimeout(q) ==
  /\ qpc[q] = "wait"
  /\ Finish(q, node[q], "failed")
  /\ UNCHANGED <<poolVars, dialVars, connVars, pingVars, node, excluded, asked, resp, faults>>

-----------------------------------------------------------------------------
Dialing(s) == Dial(s) \/ Await(s) \/ Check(s) \/ Register(s) \/ WakeUp(s)
Listening(s) == Handshake(s) \/ Authorize(s) \/ TearDown(s) \/ Notify(s)
Querying(q) ==
  QueryStart(q) \/ QuerySticky(q) \/ QueryPick(q) \/ QuerySend(q) \/ QueryWrite(q)
    \/ QuerySendFailed(q) \/ QueryDone(q) \/ QueryTimeout(q)

Next ==
  \/ \E s \in Servers : Dialing(s) \/ Listening(s) \/ Pong(s) \/ LinkFails(s) \/ PingRound(s)
  \/ \E s \in Servers, q \in Queries : Answer(s, q)
  \/ StopCancels \/ StopCloses
  \/ \E q \in Queries : Querying(q)

Spec == Init /\ [][Next]_vars

\* Goroutines are scheduled, the ticker ticks, a context ends, and a peer whose
\* link works answers handshakes and pings.  Failures, answers and Stop are not forced.
Fairness ==
  /\ \A s \in Servers :
       /\ WF_vars(Dialing(s)) /\ WF_vars(Listening(s))
       /\ WF_vars(PingRound(s)) /\ WF_vars(Pong(s))
  /\ \A q \in Queries : WF_vars(QuerySticky(q) \/ QueryPick(q) \/ QuerySend(q)
                                  \/ QueryWrite(q) \/ QuerySendFailed(q))
                        /\ WF_vars(QueryTimeout(q))
FairSpec == Spec /\ Fairness
-----------------------------------------------------------------------------
\* The types of the variables.
TypeOK ==
  /\ stopped \in BOOLEAN /\ stopping \in {"no", "snapshot", "done"}
  /\ dialer \in [Servers -> {"idle", "start", "await", "check", "register", "sleep"}]
  /\ tries \in [Servers -> {Forever} \cup 0..Attempts]
  /\ gen \in [Servers -> Nat]
  /\ tcp \in [Servers -> {"none", "open", "silent", "closed"}]
  /\ listener \in [Servers -> {"none", "read", "torn", "ended"}]
  /\ {authed, initialized, registered, closed, active} \subseteq [Servers -> BOOLEAN]
  /\ pings \in [Servers -> SUBSET (0..1)]
  /\ missed \in [Servers -> 0..(MaxMissed + 1)]
  /\ inflight \in [Servers -> 0..Cardinality(Queries)]
  /\ qpc \in [Queries -> {"idle", "sticky", "pick", "send", "write", "unsent", "wait", "done",
                         "failed"}]
  /\ excluded \in [Queries -> SUBSET Servers]
  /\ resp \subseteq Queries /\ activeReqs \subseteq Queries
  /\ faults \in 0..MaxFaults

\* No server is lost while the pool runs: a server that was connected once has a
\* listener that will see its connection end, or a goroutine that dials it, and
\* never two of these (registerConnection against the end of listen, and the
\* callback that listen starts).  A node in activeNodes always has a listener.
NoServerLost ==
  \A s \in Servers :
    LET listened == registered[s] /\ listener[s] \in {"read", "torn"}
        dialled  == dialer[s] # "idle"
    IN /\ ~stopped /\ (registered[s] \/ tries[s] = Forever) => listened \/ dialled
       /\ ~(listened /\ dialled)
       /\ active[s] <=> registered[s] /\ listener[s] = "read"

\* The load that the balancer sees is exact: inflight of a connection counts the
\* calls of QueryADNL that write to it or wait on it, on every path out of a call (an
\* answer, a busy server, a timeout, a failed write) and over reconnections.
InflightExact ==
  \A s \in Servers :
    inflight[s] = Cardinality({q \in Queries : Charged(q) /\ node[q] = Conn(s)})

\* Service returns: a connection that broke, or whose peer fell silent, is
\* noticed (by its listener or by the pings) and replaced by a working one
\* (startPings, listen, DefaultReconnect).
ServiceReturns ==
  \A s \in Servers :
    registered[s] /\ tcp[s] # "open" ~> stopped \/ (active[s] /\ tcp[s] = "open")
=============================================================================
