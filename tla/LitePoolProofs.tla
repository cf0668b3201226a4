--------------------------- MODULE LitePoolProofs ---------------------------
(***************************************************************************)
(* The pool of liteserver connections loses no server and counts the calls *)
(* of every connection exactly, for every set of servers and of queries,   *)
(* every number of attempts and any number of failures.                    *)
(***************************************************************************)
EXTENDS LitePool, FiniteSetTheorems, TLAPS

Dialers == {"idle", "start", "await", "check", "register", "sleep"}
Listeners == {"none", "read", "torn", "ended"}
Calls == {"idle", "sticky", "pick", "send", "write", "unsent", "wait", "done", "failed"}

\* The types the proof needs.
Shape ==
  /\ stopped \in BOOLEAN
  /\ dialer \in [Servers -> Dialers] /\ tries \in [Servers -> Int]
  /\ gen \in [Servers -> Nat] /\ listener \in [Servers -> Listeners]
  /\ authed \in [Servers -> BOOLEAN] /\ initialized \in [Servers -> BOOLEAN]
  /\ registered \in [Servers -> BOOLEAN] /\ closed \in [Servers -> BOOLEAN]
  /\ active \in [Servers -> BOOLEAN]

\* What holds of one server: who dials it and who listens to it never both think
\* that the other one looks after it.
SoundAt(s) ==
  /\ closed[s] <=> listener[s] \in {"torn", "ended"}
  /\ dialer[s] \in {"await", "check", "register"} => ~registered[s] /\ listener[s] # "none"
  /\ dialer[s] \in {"check", "register"} => authed[s]
  /\ registered[s] => authed[s] /\ listener[s] # "none"
  /\ authed[s] => initialized[s]
  /\ dialer[s] # "idle" /\ registered[s] => listener[s] = "ended" /\ tries[s] = Forever
  /\ dialer[s] # "idle" => tries[s] = Forever \/ tries[s] >= 1
  /\ ~stopped /\ (registered[s] \/ tries[s] = Forever) =>
       (registered[s] /\ listener[s] \in {"read", "torn"}) \/ dialer[s] # "idle"
  /\ active[s] <=> registered[s] /\ listener[s] = "read"

AllSound == \A s \in Servers : SoundAt(s)

serverVars == <<dialer, tries, gen, listener, authed, initialized, registered, closed, active>>

LEMMA SoundInit == Init => Shape /\ AllSound
<1> SUFFICES ASSUME Init PROVE Shape /\ AllSound
  OBVIOUS
<1>1. PICK config \in SUBSET Servers, attempts \in {1, Attempts} :
        /\ dialer = [s \in Servers |-> IF s \in config THEN "start" ELSE "idle"]
        /\ tries = [s \in Servers |-> IF s \in config THEN attempts ELSE 0]
  BY Zenon DEF Init
<1>2. attempts \in Nat /\ attempts >= 1
  BY PoolAssumption
<1>3. tries \in [Servers -> Int] /\ dialer \in [Servers -> Dialers]
  BY <1>1, <1>2 DEF Dialers
<1>4. Shape
  <2>1. gen = [s \in Servers |-> 0]
    BY Zenon DEF Init
  <2>2. gen \in [Servers -> Nat]
    BY <2>1
  <2> QED
    BY <1>3, <2>2, Zenon DEF Init, Shape, Listeners
<1>5. ASSUME NEW s \in Servers PROVE SoundAt(s)
  <2>1. /\ ~closed[s] /\ listener[s] = "none" /\ ~registered[s] /\ ~authed[s] /\ ~active[s]
    BY Zenon DEF Init
  <2>2. \/ dialer[s] = "start" /\ tries[s] = attempts
        \/ dialer[s] = "idle" /\ tries[s] = 0
    BY <1>1, Zenon
  <2> QED
    BY <1>2, <2>1, <2>2 DEF SoundAt, Forever
<1> QED
  BY <1>4, <1>5, Zenon DEF AllSound

\* A server none of whose variables changes stays sound, even when the pool is
\* stopped meanwhile.
LEMMA Untouched ==
  ASSUME NEW u \in Servers, SoundAt(u), stopped => stopped',
         dialer'[u] = dialer[u], tries'[u] = tries[u], listener'[u] = listener[u],
         authed'[u] = authed[u], initialized'[u] = initialized[u],
         registered'[u] = registered[u], closed'[u] = closed[u], active'[u] = active[u]
  PROVE  SoundAt(u)'
  BY Zenon DEF SoundAt

\* A step of one server.
Local(s) ==
  /\ Shape' /\ stopped' = stopped
  /\ \A u \in Servers \ {s} :
       /\ dialer'[u] = dialer[u] /\ tries'[u] = tries[u] /\ listener'[u] = listener[u]
       /\ authed'[u] = authed[u] /\ initialized'[u] = initialized[u]
       /\ registered'[u] = registered[u] /\ closed'[u] = closed[u] /\ active'[u] = active[u]

LEMMA LocalSound ==
  ASSUME AllSound, NEW s \in Servers, Local(s), SoundAt(s)'
  PROVE  Shape' /\ AllSound'
<1>1. ASSUME NEW u \in Servers PROVE SoundAt(u)'
  <2>1. CASE u = s
    BY <2>1
  <2>2. CASE u # s
    BY <2>2, Untouched, Zenon DEF Local, AllSound
  <2> QED
    BY <2>1, <2>2
<1> QED
  BY <1>1, Zenon DEF Local, AllSound

\* A failed AddConnection leaves the goroutine dialling, or gives up a server
\* that was never connected.
LEMMA FailedDial ==
  ASSUME Shape, AllSound, NEW s \in Servers, dialer[s] \notin {"idle", "sleep"},
         DialFails(s),
         UNCHANGED <<stopped, gen, authed, initialized, listener, registered, closed, active>>
  PROVE  Shape' /\ AllSound'
<1>1. /\ dialer' = [dialer EXCEPT ![s] = IF tries[s] = Forever THEN "sleep"
                                         ELSE IF tries[s] > 1 THEN "start" ELSE "idle"]
      /\ tries' = [tries EXCEPT ![s] = IF @ = Forever THEN @ ELSE @ - 1]
  BY Zenon DEF DialFails
<1>2. /\ dialer \in [Servers -> Dialers] /\ tries \in [Servers -> Int]
  BY Zenon DEF Shape
<1>3. /\ dialer' \in [Servers -> Dialers] /\ tries' \in [Servers -> Int]
      /\ \A u \in Servers \ {s} : dialer'[u] = dialer[u] /\ tries'[u] = tries[u]
      /\ dialer'[s] = IF tries[s] = Forever THEN "sleep"
                      ELSE IF tries[s] > 1 THEN "start" ELSE "idle"
      /\ tries'[s] = IF tries[s] = Forever THEN Forever ELSE tries[s] - 1
  BY <1>1, <1>2 DEF Dialers
<1>4. Local(s)
  BY <1>3, Zenon DEF Local, Shape
<1>5. SoundAt(s)
  BY Zenon DEF AllSound
<1>6. tries[s] \in Int /\ (tries[s] = Forever \/ tries[s] >= 1)
  BY <1>2, <1>5 DEF SoundAt
<1>7. \/ tries'[s] = Forever /\ tries[s] = Forever /\ dialer'[s] = "sleep"
      \/ tries'[s] # Forever /\ tries[s] # Forever /\ dialer'[s] = "start" /\ tries'[s] >= 1
      \/ tries'[s] # Forever /\ tries[s] # Forever /\ dialer'[s] = "idle"
  BY <1>3, <1>6 DEF Forever
<1>8. SoundAt(s)'
  BY <1>5, <1>7, Zenon DEF SoundAt
<1> QED
  BY <1>4, <1>8, LocalSound, Zenon

\* AddConnection: a new connection replaces one whose listener has ended.
LEMMA DialSound ==
  ASSUME Shape, AllSound, NEW s \in Servers, Dial(s)
  PROVE  Shape' /\ AllSound'
<1>1. dialer[s] = "start" /\ UNCHANGED stopped
  BY Zenon DEF Dial, poolVars
<1>2. CASE /\ DialFails(s)
           /\ UNCHANGED <<gen, authed, initialized, listener, registered, closed, active>>
  BY <1>1, <1>2, FailedDial, Zenon
<1>3. CASE /\ gen' = [gen EXCEPT ![s] = @ + 1]
           /\ authed' = [authed EXCEPT ![s] = FALSE]
           /\ initialized' = [initialized EXCEPT ![s] = FALSE]
           /\ listener' = [listener EXCEPT ![s] = "read"]
           /\ registered' = [registered EXCEPT ![s] = FALSE]
           /\ closed' = [closed EXCEPT ![s] = FALSE]
           /\ dialer' = [dialer EXCEPT ![s] = "await"]
           /\ UNCHANGED <<active, tries>>
  <2>1. gen' \in [Servers -> Nat]
    BY <1>3 DEF Shape
  <2>2. Local(s)
    BY <1>1, <1>3, <2>1, Zenon DEF Local, Shape, Listeners, Dialers
  <2>3. /\ ~authed'[s] /\ listener'[s] = "read" /\ ~registered'[s] /\ ~closed'[s]
        /\ dialer'[s] = "await" /\ active'[s] = active[s] /\ tries'[s] = tries[s]
    BY <1>3, Zenon DEF Shape
  <2>4. SoundAt(s)
    BY Zenon DEF AllSound
  <2>5. SoundAt(s)'
    BY <1>1, <2>3, <2>4, Zenon DEF SoundAt
  <2> QED
    BY <2>2, <2>5, LocalSound, Zenon
<1> QED
  BY <1>2, <1>3, Zenon DEF Dial

\* The waits of AddConnection, and the last check before the registration.
LEMMA AwaitSound ==
  ASSUME Shape, AllSound, NEW s \in Servers, Await(s) \/ Check(s)
  PROVE  Shape' /\ AllSound'
<1>1. /\ dialer[s] \in {"await", "check"}
      /\ UNCHANGED <<stopped, gen, authed, initialized, listener, registered, closed, active>>
  BY Zenon DEF Await, Check, poolVars
<1>2. CASE DialFails(s)
  BY <1>1, <1>2, FailedDial, Zenon
<1>3. ASSUME NEW d \in {"check", "register"}, d = "check" => authed[s],
             d = "register" => dialer[s] = "check",
             dialer' = [dialer EXCEPT ![s] = d], UNCHANGED tries
      PROVE  Shape' /\ AllSound'
  <2>1. Local(s)
    BY <1>1, <1>3, Zenon DEF Local, Shape, Dialers
  <2>2. dialer'[s] = d
    BY <1>3, Zenon DEF Shape
  <2>3. SoundAt(s)
    BY Zenon DEF AllSound
  <2>4. SoundAt(s)'
    BY <1>1, <1>3, <2>2, <2>3, Zenon DEF SoundAt
  <2> QED
    BY <2>1, <2>4, LocalSound, Zenon
<1>4. CASE Await(s)
  BY <1>2, <1>3, <1>4, Zenon DEF Await
<1>5. CASE Check(s)
  BY <1>2, <1>3, <1>5, Zenon DEF Check
<1> QED
  BY <1>4, <1>5

\* registerConnection takes only a connection whose listener still reads.
LEMMA RegisterSound ==
  ASSUME Shape, AllSound, NEW s \in Servers, Register(s)
  PROVE  Shape' /\ AllSound'
<1>1. /\ dialer[s] = "register"
      /\ UNCHANGED <<stopped, gen, authed, initialized, listener, closed>>
  BY Zenon DEF Register, poolVars
<1>2. CASE closed[s]
  <2>1. DialFails(s) /\ UNCHANGED <<registered, active>>
    BY <1>2, Zenon DEF Register
  <2> QED
    BY <1>1, <2>1, FailedDial, Zenon
<1>3. CASE ~closed[s]
  <2>1. /\ registered' = [registered EXCEPT ![s] = TRUE]
        /\ active' = [active EXCEPT ![s] = TRUE]
        /\ dialer' = [dialer EXCEPT ![s] = "idle"]
        /\ UNCHANGED tries
    BY <1>3, Zenon DEF Register
  <2>2. Local(s)
    BY <1>1, <2>1, Zenon DEF Local, Shape, Dialers
  <2>3. registered'[s] /\ active'[s] /\ dialer'[s] = "idle"
    BY <2>1, Zenon DEF Shape
  <2>4. SoundAt(s)
    BY Zenon DEF AllSound
  <2>5. listener[s] = "read"
    BY <1>1, <1>3, <2>4, Zenon DEF SoundAt, Shape, Listeners
  <2>6. SoundAt(s)'
    BY <1>1, <2>1, <2>3, <2>4, <2>5, Zenon DEF SoundAt
  <2> QED
    BY <2>2, <2>6, LocalSound, Zenon
<1> QED
  BY <1>2, <1>3

\* The sleep of DefaultReconnect.
LEMMA WakeUpSound ==
  ASSUME Shape, AllSound, NEW s \in Servers, WakeUp(s)
  PROVE  Shape' /\ AllSound'
<1>1. /\ dialer[s] = "sleep" /\ dialer' = [dialer EXCEPT ![s] = "start"]
      /\ UNCHANGED <<stopped, tries, gen, authed, initialized, listener, registered, closed,
                     active>>
  BY Zenon DEF WakeUp, poolVars, connVars
<1>2. Local(s)
  BY <1>1, Zenon DEF Local, Shape, Dialers
<1>3. dialer'[s] = "start"
  BY <1>1, Zenon DEF Shape
<1>4. SoundAt(s)
  BY Zenon DEF AllSound
<1>5. SoundAt(s)'
  BY <1>1, <1>3, <1>4, Zenon DEF SoundAt
<1> QED
  BY <1>2, <1>5, LocalSound, Zenon

\* The answer to the handshake, and the authorization after it.
LEMMA HandshakeSound ==
  ASSUME Shape, AllSound, NEW s \in Servers, Handshake(s) \/ Authorize(s)
  PROVE  Shape' /\ AllSound'
<1>1. SoundAt(s)
  BY Zenon DEF AllSound
<1>2. UNCHANGED <<stopped, dialer, tries, gen, listener, registered, closed, active>>
  BY Zenon DEF Handshake, Authorize, poolVars, dialVars
<1>3. CASE Handshake(s)
  <2>1. initialized' = [initialized EXCEPT ![s] = TRUE] /\ UNCHANGED authed
    BY <1>3, Zenon DEF Handshake
  <2>2. Local(s)
    BY <1>2, <2>1, Zenon DEF Local, Shape
  <2>3. initialized'[s]
    BY <2>1, Zenon DEF Shape
  <2>4. SoundAt(s)'
    BY <1>1, <1>2, <2>1, <2>3, Zenon DEF SoundAt
  <2> QED
    BY <2>2, <2>4, LocalSound, Zenon
<1>4. CASE Authorize(s)
  <2>1. /\ initialized[s] /\ authed' = [authed EXCEPT ![s] = TRUE] /\ UNCHANGED initialized
    BY <1>4, Zenon DEF Authorize
  <2>2. Local(s)
    BY <1>2, <2>1, Zenon DEF Local, Shape
  <2>3. authed'[s]
    BY <2>1, Zenon DEF Shape
  <2>4. SoundAt(s)'
    BY <1>1, <1>2, <2>1, <2>3, Zenon DEF SoundAt
  <2> QED
    BY <2>2, <2>4, LocalSound, Zenon
<1> QED
  BY <1>3, <1>4

\* The end of a connection: under nodesMx it is marked closed and leaves
\* activeNodes in one step.
LEMMA TearDownSound ==
  ASSUME Shape, AllSound, NEW s \in Servers, TearDown(s)
  PROVE  Shape' /\ AllSound'
<1>1. /\ listener[s] = "read"
      /\ closed' = [closed EXCEPT ![s] = TRUE]
      /\ active' = [active EXCEPT ![s] = IF registered[s] THEN FALSE ELSE @]
      /\ listener' = [listener EXCEPT ![s] = "torn"]
      /\ UNCHANGED <<stopped, dialer, tries, gen, authed, initialized, registered>>
  BY Zenon DEF TearDown, poolVars, dialVars
<1>2. /\ active' \in [Servers -> BOOLEAN]
      /\ active'[s] = IF registered[s] THEN FALSE ELSE active[s]
  BY <1>1, Zenon DEF Shape
<1>3. Local(s)
  <2>1. Shape'
    BY <1>1, <1>2, Zenon DEF Shape, Listeners
  <2>2. \A u \in Servers \ {s} : /\ closed'[u] = closed[u] /\ active'[u] = active[u]
                                /\ listener'[u] = listener[u]
    BY <1>1, Zenon DEF Shape
  <2> QED
    BY <1>1, <2>1, <2>2, Zenon DEF Local
<1>4. closed'[s] /\ listener'[s] = "torn"
  BY <1>1, Zenon DEF Shape
<1>5. SoundAt(s)
  BY Zenon DEF AllSound
<1>6. SoundAt(s)'
  BY <1>1, <1>2, <1>4, <1>5, Zenon DEF SoundAt
<1> QED
  BY <1>3, <1>6, LocalSound, Zenon

\* The end of listen: a goroutine that dials is started for a connection that
\* was registered, and none dials then.
LEMMA NotifySound ==
  ASSUME Shape, AllSound, NEW s \in Servers, Notify(s)
  PROVE  Shape' /\ AllSound'
<1>1. /\ listener[s] = "torn" /\ listener' = [listener EXCEPT ![s] = "ended"]
      /\ UNCHANGED <<stopped, gen, authed, initialized, registered, closed, active>>
  BY Zenon DEF Notify, poolVars
<1>2. listener'[s] = "ended"
  BY <1>1, Zenon DEF Shape
<1>3. SoundAt(s)
  BY Zenon DEF AllSound
<1>4. CASE initialized[s] /\ registered[s] /\ ~stopped
  <2>1. /\ dialer' = [dialer EXCEPT ![s] = "start"]
        /\ tries' = [tries EXCEPT ![s] = Forever]
    BY <1>4, Zenon DEF Notify
  <2>2. Forever \in Int
    BY DEF Forever
  <2>3. Local(s)
    BY <1>1, <2>1, <2>2, Zenon DEF Local, Shape, Listeners, Dialers
  <2>4. dialer'[s] = "start" /\ tries'[s] = Forever
    BY <2>1, Zenon DEF Shape
  <2>5. SoundAt(s)'
    BY <1>1, <1>2, <1>3, <1>4, <2>4, Zenon DEF SoundAt
  <2> QED
    BY <2>3, <2>5, LocalSound, Zenon
<1>5. CASE ~(initialized[s] /\ registered[s] /\ ~stopped)
  <2>1. UNCHANGED <<dialer, tries>>
    BY <1>5, Zenon DEF Notify, dialVars
  <2>2. Local(s)
    BY <1>1, <2>1, Zenon DEF Local, Shape, Listeners
  <2>3. SoundAt(s)'
    BY <1>1, <1>2, <1>3, <1>5, <2>1, Zenon DEF SoundAt
  <2> QED
    BY <2>2, <2>3, LocalSound, Zenon
<1> QED
  BY <1>4, <1>5

LEMMA ServersKept ==
  ASSUME Shape, AllSound, UNCHANGED serverVars, stopped' \in BOOLEAN, stopped => stopped'
  PROVE  Shape' /\ AllSound'
<1>1. Shape'
  BY Zenon DEF Shape, serverVars
<1>2. ASSUME NEW u \in Servers PROVE SoundAt(u)'
  BY Untouched, Zenon DEF AllSound, serverVars
<1> QED
  BY <1>1, <1>2, Zenon DEF AllSound

LEMMA SoundStep == Shape /\ AllSound /\ [Next]_vars => Shape' /\ AllSound'
<1> SUFFICES ASSUME Shape, AllSound, [Next]_vars PROVE Shape' /\ AllSound'
  OBVIOUS
<1>0. stopped \in BOOLEAN
  BY Zenon DEF Shape
<1>1. ASSUME NEW s \in Servers, Dialing(s) PROVE Shape' /\ AllSound'
  BY <1>1, DialSound, AwaitSound, RegisterSound, WakeUpSound, Zenon DEF Dialing
<1>2. ASSUME NEW s \in Servers, Listening(s) PROVE Shape' /\ AllSound'
  BY <1>2, HandshakeSound, TearDownSound, NotifySound, Zenon DEF Listening
<1>3. ASSUME NEW s \in Servers, Pong(s) \/ LinkFails(s) \/ PingRound(s)
      PROVE  Shape' /\ AllSound'
  <2>1. UNCHANGED <<stopped, serverVars>>
    BY <1>3, Zenon DEF Pong, LinkFails, PingRound, serverVars, poolVars, dialVars, connVars
  <2> QED
    BY <1>0, <2>1, ServersKept, Zenon
<1>4. ASSUME NEW s \in Servers, NEW q \in Queries, Answer(s, q) PROVE Shape' /\ AllSound'
  <2>1. UNCHANGED <<stopped, serverVars>>
    BY <1>4, Zenon DEF Answer, serverVars, poolVars, dialVars, connVars
  <2> QED
    BY <1>0, <2>1, ServersKept, Zenon
<1>5. CASE StopCancels \/ StopCloses
  <2>1. UNCHANGED serverVars /\ (stopped' = TRUE \/ stopped' = stopped)
    BY <1>5, Zenon DEF StopCancels, StopCloses, serverVars, dialVars, connVars
  <2> QED
    BY <1>0, <2>1, ServersKept, Zenon
<1>6. ASSUME NEW q \in Queries, Querying(q) PROVE Shape' /\ AllSound'
  <2>1. UNCHANGED <<stopped, serverVars>>
    BY <1>6, Zenon DEF Querying, QueryStart, QuerySticky, QueryPick, QuerySend, QueryWrite,
       QuerySendFailed, QueryDone, QueryTimeout, serverVars, poolVars, dialVars, connVars
  <2> QED
    BY <1>0, <2>1, ServersKept, Zenon
<1>7. CASE UNCHANGED vars
  <2>1. UNCHANGED <<stopped, serverVars>>
    BY <1>7, Zenon DEF vars, serverVars, poolVars, dialVars, connVars
  <2> QED
    BY <1>0, <2>1, ServersKept, Zenon
<1> QED
  BY <1>1, <1>2, <1>3, <1>4, <1>5, <1>6, <1>7, Zenon DEF Next

\* Dialling and listening of every server stay in step: the invariant.
THEOREM PoolSound == Spec => [](Shape /\ AllSound)
BY SoundInit, SoundStep, PTL DEF Spec

\* No server is lost, and none is looked after twice, whatever registers, ends,
\* fails or reconnects meanwhile (registerConnection, listen, DefaultReconnect).
THEOREM NoServerIsLost == Spec => []NoServerLost
<1>1. Shape /\ AllSound => NoServerLost
  <2> SUFFICES ASSUME Shape, AllSound, NEW s \in Servers
               PROVE  /\ ~stopped /\ (registered[s] \/ tries[s] = Forever) =>
                           \/ registered[s] /\ listener[s] \in {"read", "torn"}
                           \/ dialer[s] # "idle"
                      /\ ~(/\ registered[s] /\ listener[s] \in {"read", "torn"}
                           /\ dialer[s] # "idle")
                      /\ active[s] <=> registered[s] /\ listener[s] = "read"
    BY Zenon DEF NoServerLost
  <2> QED
    BY Zenon DEF AllSound, SoundAt
<1> QED
  BY <1>1, PoolSound, PTL

-----------------------------------------------------------------------------
(* The calls                                                               *)

Waiters(s) == {q \in Queries : Charged(q) /\ node[q] = Conn(s)}

\* A call that has a node has a connection its server once had.
OnServer(q) == \E s \in Servers, n \in Nat : n <= gen[s] /\ node[q] = <<s, n>>

CallShape ==
  /\ gen \in [Servers -> Nat] /\ inflight \in [Servers -> Nat]
  /\ qpc \in [Queries -> Calls] /\ node \in [Queries -> (Servers \cup {None}) \X Nat]
  /\ \A q \in Queries : qpc[q] = "sticky" => Sticky[q] \in Servers
  /\ \A q \in Queries : qpc[q] = "send" \/ Charged(q) => OnServer(q)

CallsInv == CallShape /\ InflightExact

LEMMA WaitersFinite ==
  ASSUME NEW s \in Servers
  PROVE  IsFiniteSet(Waiters(s)) /\ Cardinality(Waiters(s)) \in Nat
<1>1. Waiters(s) \subseteq Queries /\ IsFiniteSet(Queries)
  BY PoolAssumption, Zenon DEF Waiters
<1>2. IsFiniteSet(Waiters(s))
  BY <1>1, FS_Subset, Zenon
<1> QED
  BY <1>2, FS_CardinalityType, Zenon

\* Two connections of different servers are different.
LEMMA OneServerEach ==
  ASSUME NEW s \in Servers, NEW u \in Servers, NEW n \in Nat, <<s, n>> = Conn(u)
  PROVE  s = u /\ n = gen[u]
  BY DEF Conn

LEMMA CallsInit == Init => CallsInv
<1> SUFFICES ASSUME Init PROVE CallsInv
  OBVIOUS
<1>1. /\ qpc \in [Queries -> {"idle", "done"}] /\ node = [q \in Queries |-> <<None, 0>>]
      /\ gen = [s \in Servers |-> 0] /\ inflight = [s \in Servers |-> 0]
  BY Zenon DEF Init
<1>2. \A q \in Queries : qpc[q] \in {"idle", "done"}
  BY <1>1, Zenon
<1>3. gen \in [Servers -> Nat] /\ inflight \in [Servers -> Nat]
  BY <1>1
<1>4. node \in [Queries -> (Servers \cup {None}) \X Nat]
  BY <1>1
<1>5. qpc \in [Queries -> Calls]
  BY <1>1, <1>2, Zenon DEF Calls
<1>6. CallShape
  BY <1>2, <1>3, <1>4, <1>5, Zenon DEF CallShape, Charged
<1>7. ASSUME NEW s \in Servers PROVE inflight[s] = Cardinality(Waiters(s))
  <2>1. Waiters(s) = {}
    BY <1>2, Zenon DEF Waiters, Charged
  <2> QED
    BY <1>1, <2>1, FS_EmptySet, Zenon
<1> QED
  BY <1>6, <1>7, Zenon DEF CallsInv, InflightExact, Waiters

\* A step that neither charges nor discharges a connection, and leaves the connections alone.
LEMMA CallsKept ==
  ASSUME CallsInv, UNCHANGED <<gen, inflight>>, qpc' \in [Queries -> Calls],
         node' \in [Queries -> (Servers \cup {None}) \X Nat],
         \A q \in Queries : qpc'[q] = "sticky" => Sticky[q] \in Servers,
         \A q \in Queries : qpc'[q] = "send" => OnServer(q)',
         \A q \in Queries : Charged(q)' <=> Charged(q),
         \A q \in Queries : Charged(q) => node'[q] = node[q]
  PROVE  CallsInv'
<1>1. ASSUME NEW q \in Queries, Charged(q)' PROVE OnServer(q)'
  <2>1. OnServer(q) /\ node'[q] = node[q]
    BY <1>1, Zenon DEF CallsInv, CallShape
  <2> QED
    BY <2>1, Zenon DEF OnServer
<1>2. CallShape'
  BY <1>1, Zenon DEF CallsInv, CallShape
<1>3. ASSUME NEW s \in Servers PROVE inflight'[s] = Cardinality(Waiters(s)')
  <2>1. Waiters(s)' = Waiters(s)
    BY Zenon DEF Waiters, Conn
  <2>2. inflight[s] = Cardinality(Waiters(s))
    BY Zenon DEF CallsInv, InflightExact, Waiters
  <2> QED
    BY <2>1, <2>2, Zenon
<1> QED
  BY <1>2, <1>3, Zenon DEF CallsInv, InflightExact, Waiters

\* A new connection of a server: no call waits on it.
LEMMA NewConnection ==
  ASSUME CallsInv, NEW s \in Servers, UNCHANGED <<qpc, node>>,
         gen' = [gen EXCEPT ![s] = @ + 1], inflight' = [inflight EXCEPT ![s] = 0]
  PROVE  CallsInv'
<1>1. /\ gen' \in [Servers -> Nat] /\ gen'[s] = gen[s] + 1 /\ gen[s] \in Nat
      /\ \A u \in Servers \ {s} : gen'[u] = gen[u]
      /\ inflight' \in [Servers -> Nat] /\ inflight'[s] = 0
      /\ \A u \in Servers \ {s} : inflight'[u] = inflight[u]
  BY DEF CallsInv, CallShape
<1>2. \A u \in Servers : gen[u] \in Nat /\ gen'[u] \in Nat /\ gen[u] <= gen'[u]
  BY <1>1 DEF CallsInv, CallShape
<1>3. ASSUME NEW q \in Queries, qpc[q] = "send" \/ Charged(q) PROVE OnServer(q)'
  <2>1. PICK u \in Servers, n \in Nat : n <= gen[u] /\ node[q] = <<u, n>>
    BY <1>3, Zenon DEF CallsInv, CallShape, OnServer
  <2>2. n <= gen'[u]
    BY <1>2, <2>1
  <2> QED
    BY <2>1, <2>2, Zenon DEF OnServer
<1>31. \A q \in Queries : Charged(q)' <=> Charged(q)
  BY Zenon DEF Charged
<1>4. CallShape'
  BY <1>1, <1>3, <1>31, Zenon DEF CallsInv, CallShape
<1>5. Waiters(s)' = {}
  <2> SUFFICES ASSUME NEW q \in Queries, Charged(q), node[q] = <<s, gen'[s]>>
               PROVE  FALSE
    BY <1>31, Zenon DEF Waiters, Conn
  <2>1. PICK u \in Servers, n \in Nat : n <= gen[u] /\ node[q] = <<u, n>>
    BY Zenon DEF CallsInv, CallShape, OnServer
  <2>2. u = s /\ n = gen'[s]
    BY <2>1
  <2> QED
    BY <1>1, <2>1, <2>2
<1>6. ASSUME NEW u \in Servers PROVE inflight'[u] = Cardinality(Waiters(u)')
  <2>1. CASE u = s
    BY <1>1, <1>5, <2>1, FS_EmptySet, Zenon
  <2>2. CASE u # s
    <3>1. Waiters(u)' = Waiters(u)
      BY <1>1, <1>31, <2>2, Zenon DEF Waiters, Conn
    <3>2. inflight[u] = Cardinality(Waiters(u))
      BY Zenon DEF CallsInv, InflightExact, Waiters
    <3> QED
      BY <1>1, <2>2, <3>1, <3>2, Zenon
  <2> QED
    BY <2>1, <2>2
<1> QED
  BY <1>4, <1>6, Zenon DEF CallsInv, InflightExact, Waiters

\* A call changes alone.
LEMMA OneCall ==
  ASSUME CallsInv, NEW q \in Queries, NEW c \in Calls, qpc' = [qpc EXCEPT ![q] = c]
  PROVE  /\ qpc' \in [Queries -> Calls] /\ qpc'[q] = c
         /\ \A p \in Queries \ {q} : qpc'[p] = qpc[p] /\ (Charged(p)' <=> Charged(p))
         /\ Charged(q)' <=> c \in {"write", "unsent", "wait"}
<1>1. qpc \in [Queries -> Calls]
  BY Zenon DEF CallsInv, CallShape
<1>2. /\ qpc' \in [Queries -> Calls] /\ qpc'[q] = c
      /\ \A p \in Queries \ {q} : qpc'[p] = qpc[p]
  BY <1>1, Zenon
<1> QED
  BY <1>2, Zenon DEF Charged

\* A call goes on: its connection stays charged, or stays uncharged.
LEMMA CallMoves ==
  ASSUME CallsInv, NEW q \in Queries, NEW c \in Calls, qpc' = [qpc EXCEPT ![q] = c],
         Charged(q) <=> c \in {"write", "unsent", "wait"}, c # "send",
         c = "sticky" => Sticky[q] \in Servers, UNCHANGED <<gen, inflight, node>>
  PROVE  CallsInv'
<1>1. /\ qpc' \in [Queries -> Calls] /\ qpc'[q] = c
      /\ \A p \in Queries : Charged(p)' <=> Charged(p)
      /\ \A p \in Queries \ {q} : qpc'[p] = qpc[p]
  BY OneCall, Zenon
<1>2. /\ \A p \in Queries : OnServer(p)' <=> OnServer(p)
      /\ node \in [Queries -> (Servers \cup {None}) \X Nat]
      /\ \A p \in Queries : qpc[p] = "sticky" => Sticky[p] \in Servers
      /\ \A p \in Queries : qpc[p] = "send" => OnServer(p)
  BY Zenon DEF OnServer, CallsInv, CallShape
<1> QED
  BY <1>1, <1>2, CallsKept, Zenon

\* requestStarted charges the connection, if the server still has it.
LEMMA StartedCalls ==
  ASSUME CallsInv, NEW q \in Queries, qpc[q] \in {"sticky", "send"}, NEW s \in Servers,
         NEW n \in Nat, n <= gen[s], RequestStarted(q, <<s, n>>), UNCHANGED gen
  PROVE  CallsInv'
<1>0. /\ gen \in [Servers -> Nat] /\ inflight \in [Servers -> Nat] /\ qpc \in [Queries -> Calls]
      /\ node \in [Queries -> (Servers \cup {None}) \X Nat]
      /\ \A p \in Queries : qpc[p] = "sticky" => Sticky[p] \in Servers
      /\ \A p \in Queries : qpc[p] = "send" \/ Charged(p) => OnServer(p)
  BY Zenon DEF CallsInv, CallShape
<1>1. <<s, n>>[1] = s
  OBVIOUS
<1>2. /\ inflight' = [inflight EXCEPT ![s] = IF <<s, n>> = Conn(s) THEN @ + 1 ELSE @]
      /\ node' = [node EXCEPT ![q] = <<s, n>>] /\ qpc' = [qpc EXCEPT ![q] = "write"]
  BY <1>1, Zenon DEF RequestStarted
<1>3. /\ qpc' \in [Queries -> Calls] /\ qpc'[q] = "write" /\ Charged(q)' /\ ~Charged(q)
      /\ \A p \in Queries \ {q} : qpc'[p] = qpc[p] /\ (Charged(p)' <=> Charged(p))
  <2>1. "write" \in Calls
    BY Zenon DEF Calls
  <2>2. ~Charged(q)
    BY Zenon DEF Charged
  <2> QED
    BY <1>2, <2>1, <2>2, OneCall, Zenon
<1>4. <<s, n>> \in (Servers \cup {None}) \X Nat
  OBVIOUS
<1>5. /\ node' \in [Queries -> (Servers \cup {None}) \X Nat] /\ node'[q] = <<s, n>>
      /\ \A p \in Queries \ {q} : node'[p] = node[p]
  BY <1>0, <1>2, <1>4, Zenon
<1>6. /\ inflight' \in [Servers -> Nat]
      /\ inflight'[s] = IF <<s, n>> = Conn(s) THEN inflight[s] + 1 ELSE inflight[s]
      /\ \A u \in Servers \ {s} : inflight'[u] = inflight[u]
  BY <1>0, <1>2
<1>7. ASSUME NEW p \in Queries, qpc'[p] = "send" \/ Charged(p)' PROVE OnServer(p)'
  <2>1. CASE p = q
    BY <1>5, <2>1, Zenon DEF OnServer
  <2>2. CASE p # q
    <3>1. OnServer(p) /\ node'[p] = node[p]
      BY <1>0, <1>3, <1>5, <1>7, <2>2, Zenon
    <3> QED
      BY <3>1, Zenon DEF OnServer
  <2> QED
    BY <2>1, <2>2
<1>8. CallShape'
  <2>1. \A p \in Queries : qpc'[p] = "sticky" => Sticky[p] \in Servers
    <3>1. "write" # "sticky"
      OBVIOUS
    <3> QED
      BY <1>0, <1>3, <3>1, Zenon
  <2> QED
    BY <1>0, <1>3, <1>5, <1>6, <1>7, <2>1, Zenon DEF CallShape
<1>9. ASSUME NEW u \in Servers PROVE inflight'[u] = Cardinality(Waiters(u)')
  <2>0. inflight[u] = Cardinality(Waiters(u))
    BY Zenon DEF CallsInv, InflightExact, Waiters
  <2>1. CASE <<s, n>> = Conn(u)
    <3>1. u = s
      BY <2>1, OneServerEach, Zenon
    <3>2. Waiters(u)' = Waiters(u) \cup {q} /\ q \notin Waiters(u)
      BY <1>3, <1>5, <2>1, Zenon DEF Waiters, Conn
    <3>3. Cardinality(Waiters(u) \cup {q}) = Cardinality(Waiters(u)) + 1
      BY <3>2, WaitersFinite, FS_AddElement, Zenon
    <3> QED
      BY <1>6, <2>0, <2>1, <3>1, <3>2, <3>3, Zenon
  <2>2. CASE <<s, n>> # Conn(u)
    <3>1. Waiters(u)' = Waiters(u)
      BY <1>3, <1>5, <2>2, Zenon DEF Waiters, Conn
    <3>2. inflight'[u] = inflight[u]
      BY <1>6, <2>2, Zenon
    <3> QED
      BY <2>0, <3>1, <3>2, Zenon
  <2> QED
    BY <2>1, <2>2
<1> QED
  BY <1>8, <1>9, Zenon DEF CallsInv, InflightExact, Waiters

\* requestFinished, on each path out of a call that waits: the connection is
\* discharged if the server still has it.
LEMMA FinishCalls ==
  ASSUME CallsInv, NEW q \in Queries, Charged(q), NEW outcome \in {"done", "failed", "pick"},
         RequestFinished(node[q]), qpc' = [qpc EXCEPT ![q] = outcome], UNCHANGED <<gen, node>>
  PROVE  CallsInv'
<1>0. /\ gen \in [Servers -> Nat] /\ inflight \in [Servers -> Nat] /\ qpc \in [Queries -> Calls]
      /\ node \in [Queries -> (Servers \cup {None}) \X Nat]
      /\ \A p \in Queries : qpc[p] = "sticky" => Sticky[p] \in Servers
      /\ \A p \in Queries : qpc[p] = "send" \/ Charged(p) => OnServer(p)
  BY Zenon DEF CallsInv, CallShape
<1>1. PICK s \in Servers, n \in Nat : n <= gen[s] /\ node[q] = <<s, n>>
  BY <1>0, Zenon DEF OnServer
<1>2. node[q][1] = s
  BY <1>1
<1>3. inflight' = [inflight EXCEPT ![s] = IF node[q] = Conn(s) /\ @ > 0 THEN @ - 1 ELSE @]
  BY <1>2, Zenon DEF RequestFinished
<1>4. /\ qpc' \in [Queries -> Calls] /\ qpc'[q] = outcome /\ ~Charged(q)'
      /\ \A p \in Queries \ {q} : qpc'[p] = qpc[p] /\ (Charged(p)' <=> Charged(p))
  <2>1. outcome \in Calls /\ outcome \notin {"write", "unsent", "wait"}
    BY Zenon DEF Calls
  <2> QED
    BY <2>1, OneCall, Zenon
<1>5. /\ inflight' \in [Servers -> Nat]
      /\ inflight'[s] = IF node[q] = Conn(s) /\ inflight[s] > 0 THEN inflight[s] - 1 ELSE inflight[s]
      /\ \A u \in Servers \ {s} : inflight'[u] = inflight[u]
  BY <1>0, <1>3
<1>6. \A p \in Queries : OnServer(p)' <=> OnServer(p)
  BY Zenon DEF OnServer
<1>7. outcome \notin {"sticky", "send"}
  OBVIOUS
<1>8. CallShape'
  BY <1>0, <1>4, <1>5, <1>6, <1>7, Zenon DEF CallShape
<1>9. \A u \in Servers : Waiters(u)' = Waiters(u) \ {q}
  BY <1>4, Zenon DEF Waiters, Conn
<1>10. ASSUME NEW u \in Servers PROVE inflight'[u] = Cardinality(Waiters(u)')
  <2>0. inflight[u] = Cardinality(Waiters(u)) /\ IsFiniteSet(Waiters(u))
    BY WaitersFinite, Zenon DEF CallsInv, InflightExact, Waiters
  <2>1. CASE node[q] = Conn(u)
    <3>1. u = s /\ q \in Waiters(u)
      BY <1>1, <2>1, OneServerEach, Zenon DEF Waiters
    <3>2. Cardinality(Waiters(u)') = Cardinality(Waiters(u)) - 1
      BY <1>9, <2>0, <3>1, FS_RemoveElement, Zenon
    <3>3. Waiters(u) # {} /\ Cardinality(Waiters(u)) \in Nat
      BY <3>1, WaitersFinite, Zenon
    <3>4. Cardinality(Waiters(u)) # 0
      BY <2>0, <3>3, FS_EmptySet, Zenon
    <3>5. inflight[u] > 0
      BY <2>0, <3>3, <3>4
    <3> QED
      BY <1>5, <2>0, <2>1, <3>1, <3>2, <3>5, Zenon
  <2>2. CASE node[q] # Conn(u)
    <3>1. Waiters(u)' = Waiters(u)
      BY <1>9, <2>2, Zenon DEF Waiters
    <3>2. inflight'[u] = inflight[u]
      BY <1>5, <2>2, Zenon
    <3> QED
      BY <2>0, <3>1, <3>2, Zenon
  <2> QED
    BY <2>1, <2>2
<1> QED
  BY <1>8, <1>10, Zenon DEF CallsInv, InflightExact, Waiters

LEMMA CallsStep == CallsInv /\ [Next]_vars => CallsInv'
<1> SUFFICES ASSUME CallsInv, [Next]_vars PROVE CallsInv'
  OBVIOUS
<1>0. /\ gen \in [Servers -> Nat] /\ inflight \in [Servers -> Nat] /\ qpc \in [Queries -> Calls]
      /\ node \in [Queries -> (Servers \cup {None}) \X Nat]
      /\ \A p \in Queries : qpc[p] = "sticky" => Sticky[p] \in Servers
      /\ \A p \in Queries : qpc[p] = "send" \/ Charged(p) => OnServer(p)
  BY Zenon DEF CallsInv, CallShape
<1>1. ASSUME UNCHANGED <<gen, inflight, qpc, node>> PROVE CallsInv'
  <2>1. \A p \in Queries : (OnServer(p)' <=> OnServer(p)) /\ (Charged(p)' <=> Charged(p))
    BY <1>1, Zenon DEF OnServer, Charged
  <2> QED
    BY <1>0, <1>1, <2>1, CallsKept, Zenon
<1>2. ASSUME NEW s \in Servers, Dialing(s) PROVE CallsInv'
  <2>1. \/ UNCHANGED <<gen, inflight, qpc, node>>
        \/ /\ UNCHANGED <<qpc, node>>
           /\ gen' = [gen EXCEPT ![s] = @ + 1] /\ inflight' = [inflight EXCEPT ![s] = 0]
    BY <1>2, Zenon DEF Dialing, Dial, Await, Check, Register, WakeUp, connVars, queryVars
  <2> QED
    BY <1>1, <2>1, NewConnection, Zenon
<1>3. ASSUME NEW s \in Servers, Listening(s) \/ Pong(s) \/ LinkFails(s) \/ PingRound(s)
      PROVE  CallsInv'
  <2>1. UNCHANGED <<gen, inflight, qpc, node>>
    BY <1>3, Zenon DEF Listening, Handshake, Authorize, TearDown, Notify, Pong, LinkFails,
       PingRound, connVars, queryVars
  <2> QED
    BY <1>1, <2>1, Zenon
<1>4. ASSUME NEW s \in Servers, NEW q \in Queries, Answer(s, q) PROVE CallsInv'
  BY <1>1, <1>4, Zenon DEF Answer, connVars
<1>5. CASE StopCancels \/ StopCloses
  BY <1>1, <1>5, Zenon DEF StopCancels, StopCloses, connVars, queryVars
<1>6. ASSUME NEW q \in Queries, QueryStart(q) PROVE CallsInv'
  <2>1. /\ qpc[q] = "idle" /\ UNCHANGED <<gen, inflight, node>>
        /\ qpc' = [qpc EXCEPT ![q] = IF Sticky[q] = None THEN "pick" ELSE "sticky"]
    BY <1>6, Zenon DEF QueryStart, connVars
  <2>2. CASE Sticky[q] = None
    BY <2>1, <2>2, CallMoves, Zenon DEF Charged, Calls
  <2>3. CASE Sticky[q] # None
    <3>1. Sticky[q] \in Servers
      BY <2>3, PoolAssumption, Zenon
    <3> QED
      BY <2>1, <2>3, <3>1, CallMoves, Zenon DEF Charged, Calls
  <2> QED
    BY <2>2, <2>3
<1>7. ASSUME NEW q \in Queries, QuerySticky(q) PROVE CallsInv'
  <2>1. qpc[q] = "sticky" /\ UNCHANGED gen /\ Sticky[q] \in Servers
    BY <1>0, <1>7, Zenon DEF QuerySticky, connVars
  <2>2. CASE active[Sticky[q]]
    <3>1. RequestStarted(q, <<Sticky[q], gen[Sticky[q]]>>)
      BY <1>7, <2>2, Zenon DEF QuerySticky, Conn
    <3>2. gen[Sticky[q]] \in Nat
      BY <1>0, <2>1, Zenon
    <3>3. gen[Sticky[q]] <= gen[Sticky[q]]
      BY <3>2
    <3> QED
      BY <2>1, <3>1, <3>2, <3>3, StartedCalls, Zenon
  <2>3. CASE ~active[Sticky[q]]
    <3>1. qpc' = [qpc EXCEPT ![q] = "pick"] /\ UNCHANGED <<inflight, node>>
      BY <1>7, <2>3, Zenon DEF QuerySticky
    <3> QED
      BY <2>1, <3>1, CallMoves, Zenon DEF Charged, Calls
  <2> QED
    BY <2>2, <2>3
<1>8. ASSUME NEW q \in Queries, QueryPick(q) PROVE CallsInv'
  <2>1. qpc[q] = "pick" /\ UNCHANGED <<gen, inflight>>
    BY <1>8, Zenon DEF QueryPick, connVars
  <2>2. CASE qpc' = [qpc EXCEPT ![q] = "failed"] /\ UNCHANGED node
    BY <2>1, <2>2, CallMoves, Zenon DEF Charged, Calls
  <2>3. ASSUME NEW s \in Servers, node' = [node EXCEPT ![q] = Conn(s)],
               qpc' = [qpc EXCEPT ![q] = "send"]
        PROVE  CallsInv'
    <3>0. "send" \in Calls /\ "send" \notin {"write", "unsent", "wait"} /\ ~Charged(q)
      BY <2>1, Zenon DEF Calls, Charged
    <3>1. /\ qpc' \in [Queries -> Calls] /\ qpc'[q] = "send" /\ ~Charged(q)'
          /\ \A p \in Queries \ {q} : qpc'[p] = qpc[p] /\ (Charged(p)' <=> Charged(p))
      BY <2>3, <3>0, OneCall, Zenon
    <3>2. Conn(s) \in (Servers \cup {None}) \X Nat /\ gen[s] \in Nat /\ gen[s] <= gen[s]
      BY <1>0 DEF Conn
    <3>3. /\ node' \in [Queries -> (Servers \cup {None}) \X Nat] /\ node'[q] = <<s, gen[s]>>
          /\ \A p \in Queries \ {q} : node'[p] = node[p]
      BY <1>0, <2>3, <3>2, Zenon DEF Conn
    <3>4. ASSUME NEW p \in Queries, qpc'[p] = "send" PROVE OnServer(p)'
      <4>1. CASE p = q
        BY <2>1, <3>2, <3>3, <4>1, Zenon DEF OnServer
      <4>2. CASE p # q
        <5>1. OnServer(p) /\ node'[p] = node[p]
          BY <1>0, <3>1, <3>3, <3>4, <4>2, Zenon
        <5> QED
          BY <2>1, <5>1, Zenon DEF OnServer
      <4> QED
        BY <4>1, <4>2
    <3>5. /\ \A p \in Queries : qpc'[p] = "sticky" => Sticky[p] \in Servers
          /\ \A p \in Queries : Charged(p)' <=> Charged(p)
          /\ \A p \in Queries : Charged(p) => node'[p] = node[p]
      <4>1. "send" # "sticky"
        OBVIOUS
      <4> QED
        BY <1>0, <3>0, <3>1, <3>3, <4>1, Zenon
    <3> QED
      BY <2>1, <3>1, <3>3, <3>4, <3>5, CallsKept, Zenon
  <2> QED
    BY <1>8, <2>2, <2>3, Zenon DEF QueryPick
<1>9. ASSUME NEW q \in Queries, QuerySend(q) PROVE CallsInv'
  <2>1. qpc[q] = "send" /\ UNCHANGED gen /\ RequestStarted(q, node[q])
    BY <1>9, Zenon DEF QuerySend, connVars
  <2>2. PICK s \in Servers, n \in Nat : n <= gen[s] /\ node[q] = <<s, n>>
    BY <1>0, <2>1, Zenon DEF OnServer
  <2>3. RequestStarted(q, <<s, n>>)
    BY <2>1, <2>2, Zenon
  <2> QED
    BY <2>1, <2>2, <2>3, StartedCalls, Zenon
<1>91. ASSUME NEW q \in Queries, QueryWrite(q) PROVE CallsInv'
  <2>1. /\ qpc[q] = "write" /\ UNCHANGED <<gen, inflight, node>>
        /\ qpc' = [qpc EXCEPT ![q] = "wait"] \/ qpc' = [qpc EXCEPT ![q] = "unsent"]
    BY <1>91, Zenon DEF QueryWrite
  <2> QED
    BY <2>1, CallMoves, Zenon DEF Charged, Calls
<1>92. ASSUME NEW q \in Queries, QuerySendFailed(q) PROVE CallsInv'
  <2>1. /\ Charged(q) /\ UNCHANGED <<gen, node>> /\ RequestFinished(node[q])
        /\ qpc' = [qpc EXCEPT ![q] = "pick"]
    BY <1>92, Zenon DEF QuerySendFailed, Charged, connVars
  <2> QED
    BY <2>1, FinishCalls, Zenon
<1>10. ASSUME NEW q \in Queries, QueryDone(q) \/ QueryTimeout(q) PROVE CallsInv'
  <2>1. /\ Charged(q) /\ UNCHANGED <<gen, node>> /\ RequestFinished(node[q])
        /\ qpc' = [qpc EXCEPT ![q] = "done"] \/ qpc' = [qpc EXCEPT ![q] = "failed"]
    BY <1>10, Zenon DEF QueryDone, QueryTimeout, Finish, Charged, connVars
  <2> QED
    BY <2>1, FinishCalls, Zenon
<1>11. CASE UNCHANGED vars
  BY <1>1, <1>11, Zenon DEF vars, connVars, queryVars
<1> QED
  BY <1>2, <1>3, <1>4, <1>5, <1>6, <1>7, <1>8, <1>9, <1>91, <1>92, <1>10, <1>11,
     Zenon DEF Next, Querying

\* inflight of a connection is the number of the calls that wait on it, on every
\* path out of QueryADNL and over reconnections.
THEOREM InflightIsExact == Spec => []InflightExact
<1>1. CallsInv => InflightExact
  BY Zenon DEF CallsInv
<1> QED
  BY <1>1, CallsInit, CallsStep, PTL DEF Spec
=============================================================================
