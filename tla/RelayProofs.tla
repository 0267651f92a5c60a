---------------------------- MODULE RelayProofs ----------------------------
(***************************************************************************)
(* The connections and the streams of Relay for any number of generations, *)
(* streams, data frames and faults.                                        *)
(*                                                                         *)
(* Connections: a later generation is never replaced by an earlier one, and *)
(* an acknowledged connection is the one the server sends work to.  The    *)
(* first needs that the registered connection is not younger than the lease, *)
(* the second that a connection of a generation to come has no handshake and *)
(* that every connection past the handshake is the registered one as long as *)
(* its socket is open.                                                     *)
(*                                                                         *)
(* Streams: a session gets what was written to its stream, in order.  The  *)
(* frames of a stream that can still arrive are numbered without a gap from *)
(* the last one received on, and are all there as long as the sender has not *)
(* closed the stream; a frame is in the queue of its stream's connection; and *)
(* both ends agree on which connection that is.  From the same invariant   *)
(* each stream is the OrderedStream it is promised to be, step by step.    *)
(***************************************************************************)
EXTENDS Relay, TLAPS

Sockets == {"none", "open", "destroyed", "closed"}
Steps == {"hello", "authorizing", "hook", "up", "refused"}
Connections == [socket : Sockets, step : Steps]
Leases == [generation : Nat, fresh : BOOLEAN, revoked : BOOLEAN]
Clients == [at : {"off", "connecting", "up"}, generation : Nat]

Typed ==
    /\ conn \in [Generations -> Connections]
    /\ active \in 0..MaxGeneration
    /\ lease \in Leases
    /\ client \in Clients
    /\ torn \in BOOLEAN

(* connect compares with the lease, and the entry is the lease's.          *)
EntryIsLeased == active <= lease.generation

(* A generation is used once, by the connection it was made for.           *)
UnusedIsNew ==
    \A g \in Generations :
        /\ conn[g].socket = "none" => conn[g].step = "hello"
        /\ g > client.generation => conn[g].socket = "none"

(* The entry is that of the only connection past its handshake.            *)
RegisteredIsServed ==
    torn \/ \A g \in Generations :
              conn[g].socket = "open" /\ conn[g].step \in {"hook", "up"} => active = g

IInv == Typed /\ EntryIsLeased /\ UnusedIsNew /\ RegisteredIsServed

-----------------------------------------------------------------------------
(* What the ways to change a connection do to it.                          *)
LEMMA DestroyedIsTyped ==
  ASSUME NEW c \in [Generations -> Connections], NEW gs
  PROVE  /\ Destroyed(c, gs) \in [Generations -> Connections]
         /\ \A g \in Generations :
              /\ Destroyed(c, gs)[g].step = c[g].step
              /\ Destroyed(c, gs)[g].socket =
                   IF g \in gs /\ c[g].socket = "open" THEN "destroyed" ELSE c[g].socket
<1> DEFINE D(g) == IF g \in gs /\ c[g].socket = "open"
                     THEN [c[g] EXCEPT !.socket = "destroyed"] ELSE c[g]
<1>1. ASSUME NEW g \in Generations
      PROVE  /\ D(g) \in Connections /\ D(g).step = c[g].step
             /\ D(g).socket = IF g \in gs /\ c[g].socket = "open"
                                THEN "destroyed" ELSE c[g].socket
  <2>1. c[g] \in Connections
    OBVIOUS
  <2>2. CASE g \in gs /\ c[g].socket = "open"
    BY <2>1, <2>2 DEF Connections, Sockets
  <2>3. CASE ~(g \in gs /\ c[g].socket = "open")
    BY <2>1, <2>3
  <2> QED
    BY <2>2, <2>3
<1>2. Destroyed(c, gs) = [g \in Generations |-> D(g)]
  BY DEF Destroyed
<1> HIDE DEF D
<1> QED
  BY <1>1, <1>2

LEMMA StepChanges ==
  ASSUME NEW c \in [Generations -> Connections], NEW g \in Generations, NEW step \in Steps,
         NEW d, d = [c EXCEPT ![g].step = step]
  PROVE  /\ d \in [Generations -> Connections]
         /\ d[g].step = step /\ d[g].socket = c[g].socket
         /\ \A h \in Generations \ {g} : d[h] = c[h]
<1> DEFINE e == [c[g] EXCEPT !.step = step]
<1>1. e \in Connections /\ e.step = step /\ e.socket = c[g].socket
  BY DEF Connections
<1>2. d = [c EXCEPT ![g] = e]
  OBVIOUS
<1> HIDE DEF e
<1> QED
  BY <1>1, <1>2

LEMMA SocketChanges ==
  ASSUME NEW c \in [Generations -> Connections], NEW g \in Generations, NEW socket \in Sockets,
         NEW d, d = [c EXCEPT ![g].socket = socket]
  PROVE  /\ d \in [Generations -> Connections]
         /\ d[g].socket = socket /\ d[g].step = c[g].step
         /\ \A h \in Generations \ {g} : d[h] = c[h]
<1> DEFINE e == [c[g] EXCEPT !.socket = socket]
<1>1. e \in Connections /\ e.socket = socket /\ e.step = c[g].step
  BY DEF Connections
<1>2. d = [c EXCEPT ![g] = e]
  OBVIOUS
<1> HIDE DEF e
<1> QED
  BY <1>1, <1>2

(* A replaced connection is destroyed, another one goes on.                *)
GoesOn(c, gs, g, step, d) ==
    /\ d \in [Generations -> Connections]
    /\ d[g].step = step
    /\ \A h \in Generations \ {g} : d[h].step = c[h].step
    /\ \A h \in Generations :
         d[h].socket = IF h \in gs /\ c[h].socket = "open" THEN "destroyed" ELSE c[h].socket

LEMMA OthersAreDestroyed ==
  ASSUME NEW c \in [Generations -> Connections], NEW gs, NEW g \in Generations,
         NEW step \in Steps, NEW d, d = [Destroyed(c, gs) EXCEPT ![g].step = step]
  PROVE  GoesOn(c, gs, g, step, d)
<1> DEFINE D == Destroyed(c, gs)
<1>1. /\ D \in [Generations -> Connections]
      /\ \A h \in Generations :
           /\ D[h].step = c[h].step
           /\ D[h].socket = IF h \in gs /\ c[h].socket = "open" THEN "destroyed" ELSE c[h].socket
  BY DestroyedIsTyped
<1>2. d = [D EXCEPT ![g].step = step]
  OBVIOUS
<1> HIDE DEF D
<1> DEFINE e == [D[g] EXCEPT !.step = step]
<1>3. e \in Connections /\ e.step = step /\ e.socket = D[g].socket
  BY <1>1 DEF Connections
<1>4. d = [D EXCEPT ![g] = e]
  BY <1>2
<1> HIDE DEF e
<1>5. /\ d \in [Generations -> Connections]
      /\ d[g] = e /\ \A h \in Generations \ {g} : d[h] = D[h]
  BY <1>1, <1>3, <1>4
<1> QED
  BY <1>1, <1>3, <1>5 DEF GoesOn

(* A change of some sockets from open to destroyed disturbs nothing.       *)
LEMMA DestructionIsHarmless ==
  ASSUME IInv, NEW gs, conn' = Destroyed(conn, gs), UNCHANGED <<active, lease, client, torn>>
  PROVE  IInv'
<1>1. /\ conn' \in [Generations -> Connections]
      /\ \A g \in Generations :
           /\ conn'[g].step = conn[g].step
           /\ conn'[g].socket = IF g \in gs /\ conn[g].socket = "open"
                                  THEN "destroyed" ELSE conn[g].socket
  BY DestroyedIsTyped DEF IInv, Typed
<1>2. UnusedIsNew'
  BY <1>1 DEF IInv, UnusedIsNew
<1>3. RegisteredIsServed'
  BY <1>1 DEF IInv, RegisteredIsServed
<1> QED
  BY <1>1, <1>2, <1>3 DEF IInv, Typed, EntryIsLeased

LEMMA WorkerLeaves ==
  ASSUME IInv, UNCHANGED <<conn, active, lease, torn>>,
         client' \in Clients, client'.generation = client.generation
  PROVE  IInv'
  BY DEF IInv, Typed, EntryIsLeased, UnusedIsNew, RegisteredIsServed

-----------------------------------------------------------------------------
LEMMA ConnectKeeps ==
  ASSUME RelayAssumption, IInv, Connect
  PROVE  IInv'
<1> DEFINE g == client.generation + 1
<1>1. client.generation \in Nat /\ g \in Generations
  BY DEF Connect, IInv, Typed, Clients, Generations, RelayAssumption
<1>2. conn' = [conn EXCEPT ![g].socket = "open"]
      /\ client' = [at |-> "connecting", generation |-> g]
      /\ UNCHANGED <<active, lease, torn>>
  BY DEF Connect, history
<1>3. conn[g].step = "hello"
  BY <1>1 DEF IInv, UnusedIsNew, Generations
<1>4. /\ conn' \in [Generations -> Connections]
      /\ conn'[g].socket = "open" /\ conn'[g].step = "hello"
      /\ \A h \in Generations \ {g} : conn'[h] = conn[h]
  BY <1>1, <1>2, <1>3, SocketChanges DEF IInv, Typed, Sockets
<1>5. client' \in Clients /\ client'.generation = g
  BY <1>1, <1>2 DEF Clients
<1> HIDE DEF g
<1>6. UnusedIsNew'
  <2>1. client'.generation > client.generation
    BY <1>1, <1>5 DEF g
  <2> QED
    BY <1>1, <1>4, <1>5, <2>1 DEF IInv, UnusedIsNew, Generations, g
<1>7. RegisteredIsServed'
  BY <1>2, <1>4 DEF IInv, RegisteredIsServed
<1> QED
  BY <1>2, <1>4, <1>5, <1>6, <1>7 DEF IInv, Typed, EntryIsLeased

LEMMA HelloKeeps ==
  ASSUME RelayAssumption, IInv, NEW g \in Generations, ReceiveHello(g)
  PROVE  IInv'
<1>1. /\ conn[g].socket = "open" /\ UNCHANGED <<active, lease, client, torn>>
      /\ conn' = [conn EXCEPT ![g].step = "authorizing"]
  BY DEF ReceiveHello, workerVars, history
<1>2. /\ conn' \in [Generations -> Connections]
      /\ conn'[g].step = "authorizing" /\ conn'[g].socket = conn[g].socket
      /\ \A h \in Generations \ {g} : conn'[h] = conn[h]
  BY <1>1, StepChanges DEF IInv, Typed, Steps
<1>3. UnusedIsNew'
  BY <1>1, <1>2 DEF IInv, UnusedIsNew
<1>4. RegisteredIsServed'
  BY <1>1, <1>2 DEF IInv, RegisteredIsServed
<1> QED
  BY <1>1, <1>2, <1>3, <1>4 DEF IInv, Typed, EntryIsLeased

LEMMA RegisterKeeps ==
  ASSUME RelayAssumption, IInv, NEW g \in Generations, Register(g)
  PROVE  IInv'
<1>1. conn[g].step = "authorizing" /\ conn[g].socket # "none" /\ UNCHANGED <<client, torn>>
  BY DEF Register, IInv, UnusedIsNew, workerVars, history
<1>2. CASE /\ Leasable(g)
           /\ lease' = [generation |-> g, fresh |-> TRUE, revoked |-> FALSE]
           /\ conn' = [Destroyed(conn, {active}) EXCEPT ![g].step = "hook"]
           /\ active' = g
  <2>1. conn' = [Destroyed(conn, {active}) EXCEPT ![g].step = "hook"]
    BY <1>2
  <2>a. conn \in [Generations -> Connections] /\ "hook" \in Steps
    BY DEF IInv, Typed, Steps
  <2>2. GoesOn(conn, {active}, g, "hook", conn')
    BY <2>1, <2>a, OthersAreDestroyed, Zenon
  <2>3. UnusedIsNew'
    BY <1>1, <2>2 DEF IInv, UnusedIsNew, GoesOn
  <2>4. RegisteredIsServed'
    BY <1>1, <1>2, <2>2 DEF IInv, RegisteredIsServed, GoesOn
  <2>5. lease' \in Leases /\ active' <= lease'.generation /\ active' \in 0..MaxGeneration
    BY <1>2 DEF Leases, Generations, RelayAssumption
  <2> QED
    BY <1>1, <2>2, <2>3, <2>4, <2>5 DEF IInv, Typed, EntryIsLeased, GoesOn
<1>3. CASE Refuse(g) /\ UNCHANGED <<active, lease>>
  <2>1. conn' = [Destroyed(conn, {g}) EXCEPT ![g].step = "refused"]
    BY <1>3 DEF Refuse
  <2>a. conn \in [Generations -> Connections] /\ "refused" \in Steps
    BY DEF IInv, Typed, Steps
  <2>2. GoesOn(conn, {g}, g, "refused", conn')
    BY <2>1, <2>a, OthersAreDestroyed, Zenon
  <2>3. UnusedIsNew'
    BY <1>1, <2>2 DEF IInv, UnusedIsNew, GoesOn
  <2>4. RegisteredIsServed'
    BY <1>1, <1>3, <2>2 DEF IInv, RegisteredIsServed, GoesOn
  <2> QED
    BY <1>1, <1>3, <2>2, <2>3, <2>4 DEF IInv, Typed, EntryIsLeased, GoesOn
<1> QED
  BY <1>2, <1>3 DEF Register

LEMMA HookKeeps ==
  ASSUME RelayAssumption, IInv, NEW g \in Generations, HookDone(g)
  PROVE  IInv'
<1>1. conn[g].step = "hook" /\ conn[g].socket # "none" /\ UNCHANGED client
  BY DEF HookDone, IInv, UnusedIsNew, workerVars
<1>2. CASE conn' = [conn EXCEPT ![g].step = "up"] /\ UNCHANGED <<active, lease, torn>>
  <2>1. /\ conn' \in [Generations -> Connections]
        /\ conn'[g].step = "up" /\ conn'[g].socket = conn[g].socket
        /\ \A h \in Generations \ {g} : conn'[h] = conn[h]
    BY <1>2, StepChanges DEF IInv, Typed, Steps
  <2>2. UnusedIsNew'
    BY <1>1, <2>1 DEF IInv, UnusedIsNew
  <2>3. RegisteredIsServed'
    BY <1>1, <1>2, <2>1 DEF IInv, RegisteredIsServed
  <2> QED
    BY <1>1, <1>2, <2>1, <2>2, <2>3 DEF IInv, Typed, EntryIsLeased
<1>3. CASE /\ active' = 0 /\ torn' = (torn \/ active \notin {0, g})
           /\ lease' = IF lease.generation = g /\ ~lease.revoked THEN NoLease ELSE lease
           /\ Refuse(g)
  <2>1. conn' = [Destroyed(conn, {g}) EXCEPT ![g].step = "refused"]
    BY <1>3 DEF Refuse
  <2>a. conn \in [Generations -> Connections] /\ "refused" \in Steps
    BY DEF IInv, Typed, Steps
  <2>2. GoesOn(conn, {g}, g, "refused", conn')
    BY <2>1, <2>a, OthersAreDestroyed, Zenon
  <2>3. UnusedIsNew'
    BY <1>1, <2>2 DEF IInv, UnusedIsNew, GoesOn
  <2>4. torn' \in BOOLEAN
    BY <1>3, Zenon DEF IInv, Typed
  <2>5. ASSUME torn \/ active \notin {0, g}
        PROVE  RegisteredIsServed'
    BY <1>3, <2>5, Zenon DEF RegisteredIsServed
  <2>6. ASSUME ~torn, active \in {0, g}
        PROVE  RegisteredIsServed'
    <3>1. \A h \in Generations \ {g} :
            ~(conn'[h].socket = "open" /\ conn'[h].step \in {"hook", "up"})
      BY <2>2, <2>6 DEF GoesOn, IInv, RegisteredIsServed, Generations
    <3> QED
      BY <1>3, <2>2, <3>1 DEF RegisteredIsServed, GoesOn
  <2>7. lease' \in Leases /\ active' <= lease'.generation /\ active' \in 0..MaxGeneration
    BY <1>3 DEF IInv, Typed, Leases, NoLease, RelayAssumption
  <2> QED
    BY <1>1, <2>2, <2>3, <2>4, <2>5, <2>6, <2>7 DEF IInv, Typed, EntryIsLeased, GoesOn
<1> QED
  BY <1>2, <1>3 DEF HookDone

LEMMA CloseKeeps ==
  ASSUME RelayAssumption, IInv, NEW g \in Generations, SocketCloses(g)
  PROVE  IInv'
<1>1. /\ conn[g].socket # "none" /\ conn' = [conn EXCEPT ![g].socket = "closed"]
      /\ active' = EntryWithout(g) /\ UNCHANGED <<lease, client, torn>>
  BY DEF SocketCloses, workerVars, history
<1>2. /\ conn' \in [Generations -> Connections]
      /\ conn'[g].socket = "closed" /\ conn'[g].step = conn[g].step
      /\ \A h \in Generations \ {g} : conn'[h] = conn[h]
  BY <1>1, SocketChanges DEF IInv, Typed, Sockets
<1>3. UnusedIsNew'
  BY <1>1, <1>2 DEF IInv, UnusedIsNew
<1>4. RegisteredIsServed'
  BY <1>1, <1>2 DEF IInv, RegisteredIsServed, EntryWithout
<1>5. active' \in 0..MaxGeneration /\ active' <= lease'.generation
  BY <1>1 DEF IInv, Typed, EntryIsLeased, EntryWithout, Leases, RelayAssumption
<1> QED
  BY <1>1, <1>2, <1>3, <1>4, <1>5 DEF IInv, Typed, EntryIsLeased

LEMMA DisconnectKeeps ==
  ASSUME RelayAssumption, IInv, NEW revoking \in BOOLEAN, Disconnect(revoking)
  PROVE  IInv'
<1>1. /\ lease' = [lease EXCEPT !.revoked = @ \/ revoking]
      /\ conn' = Destroyed(conn, {active})
      /\ active' = 0 /\ UNCHANGED <<client, torn>>
  BY DEF Disconnect, workerVars, history
<1>2. /\ conn' \in [Generations -> Connections]
      /\ \A g \in Generations :
           /\ conn'[g].step = conn[g].step
           /\ conn'[g].socket = IF g = active /\ conn[g].socket = "open"
                                  THEN "destroyed" ELSE conn[g].socket
  BY <1>1, DestroyedIsTyped DEF IInv, Typed
<1>3. lease' \in Leases /\ lease'.generation \in Nat
  <2>1. ASSUME NEW b \in BOOLEAN
        PROVE  [lease EXCEPT !.revoked = b] \in Leases
    BY DEF IInv, Typed, Leases
  <2>2. (lease.revoked \/ revoking) \in BOOLEAN
    BY Zenon
  <2>3. lease' = [lease EXCEPT !.revoked = (lease.revoked \/ revoking)]
    BY <1>1, Zenon
  <2>4. lease' \in Leases
    BY <2>1, <2>2, <2>3, Zenon
  <2> QED
    BY <2>4 DEF Leases
<1>4. UnusedIsNew'
  BY <1>1, <1>2 DEF IInv, UnusedIsNew
<1>5. RegisteredIsServed'
  BY <1>1, <1>2 DEF IInv, RegisteredIsServed
<1>6. active' \in 0..MaxGeneration /\ active' <= lease'.generation
  BY <1>1, <1>3 DEF RelayAssumption
<1> QED
  BY <1>1, <1>2, <1>3, <1>4, <1>5, <1>6 DEF IInv, Typed, EntryIsLeased

LEMMA ExpiryKeeps ==
  ASSUME IInv, LeaseExpires
  PROVE  IInv'
<1>1. lease' = [lease EXCEPT !.fresh = FALSE] /\ UNCHANGED <<conn, active, client, torn>>
  BY DEF LeaseExpires, workerVars, history
<1>2. lease' \in Leases /\ lease'.generation = lease.generation
  BY <1>1 DEF IInv, Typed, Leases
<1> QED
  BY <1>1, <1>2 DEF IInv, Typed, EntryIsLeased, UnusedIsNew, RegisteredIsServed

LEMMA IInvIsKept ==
  ASSUME RelayAssumption, IInv, [Next]_vars
  PROVE  IInv'
<1>1. ASSUME UNCHANGED <<conn, active, lease, client, torn>>
      PROVE  IInv'
  BY <1>1 DEF IInv, Typed, EntryIsLeased, UnusedIsNew, RegisteredIsServed
<1>2. CASE Connect
  BY <1>2, ConnectKeeps
<1>3. ASSUME NEW g \in Generations, Handshake(g) \/ SocketCloses(g)
      PROVE  IInv'
  BY <1>3, HelloKeeps, RegisterKeeps, HookKeeps, CloseKeeps DEF Handshake
<1>4. ASSUME NEW g \in Generations, ServerReceives(g) \/ Heartbeat(g)
      PROVE  IInv'
  <2>1. UNCHANGED <<active, lease, client, torn>>
    BY <1>4 DEF ServerReceives, ServerHandles, Heartbeat, workerVars, history
  <2>2. conn' = conn \/ conn' = Destroyed(conn, {g})
    BY <1>4 DEF ServerReceives, ServerHandles, Heartbeat
  <2> QED
    BY <1>1, <2>1, <2>2, DestructionIsHarmless
<1>5. ASSUME ClientReceives \/ ClientCloses \/ HelloFails \/ WorkerCrashes
      PROVE  IInv'
  <2>1. UNCHANGED <<conn, active, lease, torn>>
    BY <1>5 DEF ClientReceives, ClientCloses, HelloFails, WorkerCrashes, ProcessEnds, serverVars,
                history
  <2>2. client' \in Clients /\ client'.generation = client.generation
    <3>1. \/ UNCHANGED client
          \/ \E at \in {"off", "up"} : client' = [client EXCEPT !.at = at]
      BY <1>5 DEF ClientReceives, ClientHandles, ClientCloses, HelloFails, WorkerCrashes,
                  ProcessEnds
    <3> QED
      BY <3>1 DEF IInv, Typed, Clients
  <2> QED
    BY <2>1, <2>2, WorkerLeaves
<1>6. ASSUME NEW s \in Streams,
             \/ OpenStream(s) \/ ServerSends(s, "data") \/ ServerSends(s, "close")
             \/ HandlerOpens(s) \/ HandlerRefuses(s) \/ ClientSends(s) \/ SessionEnds(s)
      PROVE  IInv'
  BY <1>1, <1>6 DEF OpenStream, ServerSends, HandlerOpens, HandlerRefuses, ClientSends,
                    SessionEnds, serverVars, workerVars, history
<1>7. ASSUME NEW revoking \in BOOLEAN, Disconnect(revoking)
      PROVE  IInv'
  BY <1>7, DisconnectKeeps
<1>8. CASE LinkBreaks
  BY <1>1, <1>8 DEF LinkBreaks, serverVars, workerVars, history
<1>9. CASE LeaseExpires
  BY <1>9, ExpiryKeeps
<1>10. CASE UNCHANGED vars
  BY <1>1, <1>10 DEF vars
<1> QED
  BY <1>2, <1>3, <1>4, <1>5, <1>6, <1>7, <1>8, <1>9, <1>10 DEF Next

LEMMA IInvHolds == ASSUME RelayAssumption PROVE Spec => []IInv
<1>1. ASSUME Init
      PROVE  IInv
  <2>1. conn \in [Generations -> Connections]
    BY <1>1 DEF Init, Connections, Sockets, Steps
  <2>2. \A g \in Generations : conn[g].socket = "none" /\ conn[g].step = "hello"
    BY <1>1 DEF Init
  <2>3. active = 0 /\ torn = FALSE /\ lease = NoLease
        /\ client = [at |-> "off", generation |-> 0]
    BY <1>1 DEF Init
  <2>4. lease \in Leases /\ client \in Clients /\ active <= lease.generation
        /\ active \in 0..MaxGeneration
    BY <2>3 DEF Leases, Clients, NoLease, RelayAssumption
  <2> QED
    BY <2>1, <2>2, <2>3, <2>4 DEF IInv, Typed, EntryIsLeased, UnusedIsNew, RegisteredIsServed
<1>2. IInv /\ [Next]_vars => IInv'
  BY IInvIsKept
<1> QED
  BY <1>1, <1>2, PTL DEF Spec

(* A connection past its hello, its socket open, is the one of #connections*)
(* unless a hook failed late, however many generations a Worker goes       *)
(* through and whatever breaks, closes or is revoked between two awaits.   *)
THEOREM AcknowledgedIsServed == Spec => []UpIsServed
<1>1. IInv => UpIsServed
  <2>1. CASE torn
    BY <2>1 DEF UpIsServed
  <2>2. CASE ~torn
    BY <2>2 DEF IInv, RegisteredIsServed, UpIsServed
  <2> QED
    BY <2>1, <2>2
<1> QED
  BY <1>1, IInvHolds, RelayAssumption, PTL

(* The entry of the Worker is never given to an earlier generation, however*)
(* late its admission is answered.                                         *)
THEOREM LaterGenerationStays == Spec => NewerGenerationWins
<1> DEFINE Wins == active # 0 /\ active' # active => active' = 0 \/ active' > active
<1>1. IInv /\ [Next]_vars => [Wins]_vars
  <2> SUFFICES ASSUME IInv, Next
               PROVE  UNCHANGED active \/ active' = 0 \/ active' > active
    BY DEF vars
  <2>1. ASSUME NEW g \in Generations, Register(g)
        PROVE  UNCHANGED active \/ active' = 0 \/ active' > active
    BY <2>1 DEF Register, Leasable, IInv, Typed, EntryIsLeased, Leases, Generations,
                RelayAssumption
  <2>2. ASSUME NEW g \in Generations,
               \/ ReceiveHello(g) \/ HookDone(g) \/ SocketCloses(g)
               \/ ServerReceives(g) \/ Heartbeat(g)
        PROVE  UNCHANGED active \/ active' = 0 \/ active' > active
    BY <2>2 DEF ReceiveHello, HookDone, SocketCloses, EntryWithout, ServerReceives, Heartbeat
  <2>3. ASSUME Connect \/ ClientReceives \/ ClientCloses \/ HelloFails \/ WorkerCrashes
        PROVE  UNCHANGED active
    BY <2>3 DEF Connect, ClientReceives, ClientCloses, HelloFails, WorkerCrashes, ProcessEnds,
                serverVars
  <2>4. ASSUME NEW s \in Streams,
               \/ OpenStream(s) \/ ServerSends(s, "data") \/ ServerSends(s, "close")
               \/ HandlerOpens(s) \/ HandlerRefuses(s) \/ ClientSends(s) \/ SessionEnds(s)
        PROVE  UNCHANGED active
    BY <2>4 DEF OpenStream, ServerSends, HandlerOpens, HandlerRefuses, ClientSends,
                SessionEnds, serverVars
  <2>5. ASSUME NEW revoking \in BOOLEAN, Disconnect(revoking)
        PROVE  active' = 0
    BY <2>5 DEF Disconnect
  <2>6. LinkBreaks \/ LeaseExpires => UNCHANGED active
    BY DEF LinkBreaks, LeaseExpires, serverVars
  <2> QED
    BY <2>1, <2>2, <2>3, <2>4, <2>5, <2>6 DEF Next, Handshake
<1> QED
  BY <1>1, IInvHolds, RelayAssumption, PTL DEF Spec, NewerGenerationWins
-----------------------------------------------------------------------------
(* Queues.  The frames of a stream in a queue are numbered without a gap   *)
(* from the number after base on, which is the last one received; top is   *)
(* the last one sent, and the queue is complete when it holds them all.    *)
Numbered(q, kinds, s) == {i \in 1..Len(q) : q[i].type \in kinds /\ q[i].stream = s}

InOrder(q, kinds, s, base, top) ==
    /\ base <= top
    /\ \A i \in Numbered(q, kinds, s) : q[i].n \in Int /\ base < q[i].n /\ q[i].n <= top
    /\ \A i, j \in Numbered(q, kinds, s) : i < j => q[i].n < q[j].n
    /\ \A i \in Numbered(q, kinds, s) : \A m \in Int :
          base < m /\ m < q[i].n => \E j \in Numbered(q, kinds, s) : q[j].n = m

Complete(q, kinds, s, base, top) ==
    \A m \in Int : base < m /\ m <= top => \E i \in Numbered(q, kinds, s) : q[i].n = m

LEMMA NoFramesAreInOrder ==
  ASSUME NEW q, NEW kinds, NEW s, NEW base \in Int, NEW top \in Int, base <= top,
         Numbered(q, kinds, s) = {}
  PROVE  /\ InOrder(q, kinds, s, base, top)
         /\ base = top => Complete(q, kinds, s, base, top)
  BY DEF InOrder, Complete

LEMMA SentUnheard ==
  ASSUME NEW q, NEW kinds, NEW s, NEW base \in Int, NEW top \in Int, NEW last \in Int,
         InOrder(q, kinds, s, base, top), top <= last
  PROVE  InOrder(q, kinds, s, base, last)
  BY DEF InOrder, Numbered

(* What Append and Tail do to a queue.                                     *)
Grows(q, a, f) ==
    /\ Len(q) \in Nat /\ Len(a) = Len(q) + 1
    /\ a[Len(q) + 1] = f /\ \A i \in 1..Len(q) : a[i] = q[i]

Shrinks(q, t) ==
    /\ Len(q) \in Nat /\ Len(q) >= 1 /\ Len(t) = Len(q) - 1
    /\ \A i \in 1..Len(q) - 1 : t[i] = q[i + 1]

LEMMA AppendGrows ==
  ASSUME NEW q \in Seq(Frames), NEW f \in Frames
  PROVE  Append(q, f) \in Seq(Frames) /\ Grows(q, Append(q, f), f)
  BY DEF Grows

LEMMA TailShrinks ==
  ASSUME NEW q \in Seq(Frames), q # <<>>
  PROVE  /\ Tail(q) \in Seq(Frames) /\ Shrinks(q, Tail(q)) /\ Head(q) = q[1]
         /\ Head(q) \in Frames
  BY DEF Shrinks

LEMMA OthersAppend ==
  ASSUME NEW q, NEW a, NEW f, Grows(q, a, f), NEW kinds, NEW s,
         NEW base \in Int, NEW top \in Int, ~(f.type \in kinds /\ f.stream = s)
  PROVE  /\ InOrder(q, kinds, s, base, top) => InOrder(a, kinds, s, base, top)
         /\ Complete(q, kinds, s, base, top) => Complete(a, kinds, s, base, top)
<1>1. /\ Numbered(a, kinds, s) = Numbered(q, kinds, s)
      /\ \A i \in Numbered(q, kinds, s) : a[i] = q[i]
  BY DEF Grows, Numbered
<1> QED
  BY <1>1 DEF InOrder, Complete

LEMMA NextAppended ==
  ASSUME NEW q, NEW a, NEW f, Grows(q, a, f), NEW kinds, NEW s,
         NEW base \in Int, NEW top \in Int, f.type \in kinds, f.stream = s, f.n = top + 1,
         InOrder(q, kinds, s, base, top), Complete(q, kinds, s, base, top)
  PROVE  /\ InOrder(a, kinds, s, base, top + 1)
         /\ Complete(a, kinds, s, base, top + 1)
<1> DEFINE k == Len(q) + 1
<1>0. /\ Numbered(a, kinds, s) = Numbered(q, kinds, s) \cup {k}
      /\ \A i \in Numbered(q, kinds, s) : a[i] = q[i] /\ i \in Nat /\ i < k
      /\ a[k] = f
  BY DEF Grows, Numbered
<1>k. k \in Nat
  OBVIOUS
<1>1. /\ Numbered(a, kinds, s) = Numbered(q, kinds, s) \cup {k}
      /\ \A i \in Numbered(q, kinds, s) : a[i] = q[i] /\ i \in Nat /\ i < k
      /\ a[k] = f /\ k \in Nat
  BY <1>0, <1>k, Zenon
<1> HIDE DEF k
<1>2. \A i \in Numbered(a, kinds, s) :
        a[i].n \in Int /\ base < a[i].n /\ a[i].n <= top + 1
  BY <1>1 DEF InOrder
<1>3. \A i, j \in Numbered(a, kinds, s) : i < j => a[i].n < a[j].n
  BY <1>1 DEF InOrder
<1>4. ASSUME NEW m \in Int, base < m, m <= top + 1
      PROVE  \E j \in Numbered(a, kinds, s) : a[j].n = m
  <2>1. CASE m = top + 1
    BY <1>1, <2>1
  <2>2. CASE m <= top
    <3>1. PICK j \in Numbered(q, kinds, s) : q[j].n = m
      BY <1>4, <2>2 DEF Complete
    <3> QED
      BY <1>1, <3>1
  <2> QED
    BY <1>4, <2>1, <2>2
<1>5. InOrder(a, kinds, s, base, top + 1) /\ Complete(a, kinds, s, base, top + 1)
  BY <1>2, <1>3, <1>4 DEF InOrder, Complete
<1> QED
  BY <1>5

LEMMA OthersTaken ==
  ASSUME NEW q, NEW t, Shrinks(q, t), NEW kinds, NEW s,
         NEW base \in Int, NEW top \in Int, ~(q[1].type \in kinds /\ q[1].stream = s)
  PROVE  /\ InOrder(q, kinds, s, base, top) => InOrder(t, kinds, s, base, top)
         /\ Complete(q, kinds, s, base, top) => Complete(t, kinds, s, base, top)
<1>1. /\ \A i \in Nat : i \in Numbered(t, kinds, s)
                           <=> i + 1 \in Numbered(q, kinds, s) /\ i # 0
      /\ \A i \in Numbered(t, kinds, s) : i \in Nat /\ t[i] = q[i + 1]
      /\ \A i \in Numbered(q, kinds, s) : i \in Nat /\ i # 1 /\ i - 1 \in Nat
  BY DEF Shrinks, Numbered
<1>2. \A j \in Numbered(q, kinds, s) : j - 1 \in Numbered(t, kinds, s) /\ t[j - 1] = q[j]
  BY <1>1
<1>3. ASSUME InOrder(q, kinds, s, base, top)
      PROVE  InOrder(t, kinds, s, base, top)
  <2>1. ASSUME NEW i \in Numbered(t, kinds, s), NEW m \in Int, base < m, m < t[i].n
        PROVE  \E j \in Numbered(t, kinds, s) : t[j].n = m
    <3>1. i + 1 \in Numbered(q, kinds, s) /\ t[i] = q[i + 1]
      BY <1>1
    <3>2. PICK j \in Numbered(q, kinds, s) : q[j].n = m
      BY <1>3, <2>1, <3>1 DEF InOrder
    <3> QED
      BY <1>2, <3>2
  <2>2. \A i \in Numbered(t, kinds, s) : t[i].n \in Int /\ base < t[i].n /\ t[i].n <= top
    BY <1>1, <1>3 DEF InOrder
  <2>3. \A i, j \in Numbered(t, kinds, s) : i < j => t[i].n < t[j].n
    BY <1>1, <1>3 DEF InOrder
  <2> QED
    BY <1>3, <2>1, <2>2, <2>3 DEF InOrder
<1>4. Complete(q, kinds, s, base, top) => Complete(t, kinds, s, base, top)
  BY <1>2 DEF Complete
<1> QED
  BY <1>3, <1>4

(* The frame that is taken first is the next one.                          *)
LEMMA NextTaken ==
  ASSUME NEW q, NEW t, Shrinks(q, t), NEW kinds, NEW s,
         NEW base \in Int, NEW top \in Int, q[1].type \in kinds, q[1].stream = s,
         InOrder(q, kinds, s, base, top)
  PROVE  /\ q[1].n = base + 1 /\ base + 1 <= top
         /\ InOrder(t, kinds, s, base + 1, top)
         /\ Complete(q, kinds, s, base, top) => Complete(t, kinds, s, base + 1, top)
<1>1. /\ \A i \in Nat : i \in Numbered(t, kinds, s)
                           <=> i + 1 \in Numbered(q, kinds, s) /\ i # 0
      /\ \A i \in Numbered(t, kinds, s) : i \in Nat /\ t[i] = q[i + 1]
      /\ \A i \in Numbered(q, kinds, s) : i \in Nat /\ 1 <= i /\ i - 1 \in Nat
      /\ 1 \in Numbered(q, kinds, s)
  BY DEF Shrinks, Numbered
<1>2. q[1].n \in Int /\ base < q[1].n /\ q[1].n <= top
  BY <1>1 DEF InOrder
<1>3. q[1].n = base + 1
  <2>1. SUFFICES ASSUME base + 1 < q[1].n PROVE FALSE
    BY <1>2
  <2>2. PICK j \in Numbered(q, kinds, s) : q[j].n = base + 1
    BY <1>1, <2>1 DEF InOrder
  <2>3. j # 1 /\ 1 < j
    BY <1>1, <1>2, <2>1, <2>2
  <2>4. q[1].n < q[j].n
    BY <1>1, <2>3 DEF InOrder
  <2> QED
    BY <1>2, <2>1, <2>2, <2>4
<1>4. \A j \in Numbered(q, kinds, s) \ {1} : j - 1 \in Numbered(t, kinds, s) /\ t[j - 1] = q[j]
  BY <1>1
<1>5. ASSUME NEW i \in Numbered(t, kinds, s)
      PROVE  t[i].n \in Int /\ base + 1 < t[i].n /\ t[i].n <= top
  <2>1. i + 1 \in Numbered(q, kinds, s) /\ t[i] = q[i + 1] /\ 1 < i + 1
    BY <1>1
  <2>2. q[1].n < q[i + 1].n
    BY <1>1, <2>1 DEF InOrder
  <2> QED
    BY <1>3, <2>1, <2>2 DEF InOrder
<1>6. \A i, j \in Numbered(t, kinds, s) : i < j => t[i].n < t[j].n
  BY <1>1 DEF InOrder
<1>7. ASSUME NEW i \in Numbered(t, kinds, s), NEW m \in Int, base + 1 < m, m < t[i].n
      PROVE  \E j \in Numbered(t, kinds, s) : t[j].n = m
  <2>1. i + 1 \in Numbered(q, kinds, s) /\ t[i] = q[i + 1]
    BY <1>1
  <2>2. PICK j \in Numbered(q, kinds, s) : q[j].n = m
    BY <1>7, <2>1 DEF InOrder
  <2>3. j # 1
    BY <1>3, <1>7, <2>2
  <2> QED
    BY <1>4, <2>2, <2>3
<1>8. ASSUME Complete(q, kinds, s, base, top)
      PROVE  Complete(t, kinds, s, base + 1, top)
  <2> SUFFICES ASSUME NEW m \in Int, base + 1 < m, m <= top
               PROVE  \E j \in Numbered(t, kinds, s) : t[j].n = m
    BY DEF Complete
  <2>1. PICK j \in Numbered(q, kinds, s) : q[j].n = m
    BY <1>8 DEF Complete
  <2>2. j # 1
    BY <1>3, <2>1
  <2> QED
    BY <1>4, <2>1, <2>2
<1>9. InOrder(t, kinds, s, base + 1, top)
  BY <1>2, <1>3, <1>5, <1>6, <1>7 DEF InOrder
<1> QED
  BY <1>1, <1>2, <1>3, <1>8, <1>9


-----------------------------------------------------------------------------
(* The streams.  Frames that still reach their end are in order: to the    *)
(* Worker as long as it has the connection, to the server as long as its   *)
(* socket is open.                                                         *)
Serveds == [state : {"new", "open", "closed"}, generation : 0..MaxGeneration,
            sent : Counts, received : Counts]
Openeds == [state : {"new", "opening", "dropped", "ready", "gone"},
            generation : 0..MaxGeneration, sent : Counts, received : Counts]
Sessions == [state : {"none", "open", "orphan", "closed"}, got : Seq(1..MaxData)]

StreamsTyped ==
    /\ link \subseteq Generations
    /\ toServer \in [Generations -> Seq(Frames)]
    /\ toWorker \in [Generations -> Seq(Frames)]
    /\ served \in [Streams -> Serveds]
    /\ opened \in [Streams -> Openeds]
    /\ session \in [Streams -> Sessions]

Bounded ==
    /\ faults \in 0..MaxFaults
    /\ lease.generation <= MaxGeneration /\ client.generation <= MaxGeneration

Down == {"open", "data", "close"}
Up == {"data"}

Reaches(g) == On(g) /\ g \in link
Answers(g) == conn[g].socket = "open" /\ g \in link

Gen(s) == served[s].generation
Expecting(s) == opened[s].state \in {"new", "opening", "ready"}
Base(s) == IF opened[s].state = "new" THEN -1 ELSE opened[s].received

(* A frame belongs to the connection its stream was opened on, and the one *)
(* that opens it is there at most until it is received.                    *)
FitsDown(g, f) ==
    f.type = "ack" \/
      /\ f.type \in Down /\ f.stream \in Streams /\ f.n \in Int
      /\ Gen(f.stream) = g
      /\ f.type = "open" <=> f.n = 0
      /\ f.type = "open" => opened[f.stream].state = "new"
      /\ f.type = "data" => f.n <= MaxData

FitsUp(g, f) ==
    /\ f.type \in {"data", "close"} /\ f.stream \in Streams /\ f.n \in Counts
    /\ f.type = "data" => opened[f.stream].generation = g

Holds(q, f) == \E i \in 1..Len(q) : q[i] = f

FramesFit ==
    /\ \A g \in Generations : \A f : Holds(toWorker[g], f) => FitsDown(g, f)
    /\ \A g \in Generations : \A f : Holds(toServer[g], f) => FitsUp(g, f)

DownInOrder(s) ==
    Gen(s) # 0 /\ Reaches(Gen(s)) /\ Expecting(s) =>
      /\ InOrder(toWorker[Gen(s)], Down, s, Base(s), served[s].sent)
      /\ served[s].state = "open" => Complete(toWorker[Gen(s)], Down, s, Base(s), served[s].sent)

UpInOrder(s) ==
    served[s].state = "open" /\ Answers(Gen(s)) =>
      /\ InOrder(toServer[Gen(s)], Up, s, served[s].received, opened[s].sent)
      /\ opened[s].state = "ready" =>
           Complete(toServer[Gen(s)], Up, s, served[s].received, opened[s].sent)

ServedFits(s) ==
    /\ served[s].state = "new" => /\ Gen(s) = 0 /\ served[s].sent = 0 /\ served[s].received = 0
                                  /\ opened[s].state = "new"
    /\ served[s].state = "open" => Gen(s) # 0
    /\ Gen(s) <= client.generation
    /\ served[s].sent <= MaxData + 1

OpenedFits(s) ==
    /\ opened[s].state = "new" => opened[s].generation = 0 /\ opened[s].received = 0
    /\ opened[s].state # "new" => opened[s].generation = Gen(s) /\ Gen(s) # 0
    /\ opened[s].state \in {"opening", "ready"} => On(opened[s].generation)
    /\ opened[s].state \in {"new", "opening", "dropped"} => opened[s].sent = 0
    /\ opened[s].state = "ready" => opened[s].sent <= MaxReplies
    /\ opened[s].received <= served[s].sent /\ opened[s].received <= MaxData

SessionFits(s) ==
    /\ session[s].state = "open" <=> opened[s].state = "ready"
    /\ session[s].got = [n \in 1..Len(session[s].got) |-> n]
    /\ Len(session[s].got) <= opened[s].received
    /\ opened[s].state = "ready" => Len(session[s].got) = opened[s].received

Fits(s) == ServedFits(s) /\ OpenedFits(s) /\ SessionFits(s)

SInv ==
    /\ StreamsTyped /\ Bounded /\ FramesFit /\ broken = FALSE
    /\ \A s \in Streams : DownInOrder(s) /\ UpInOrder(s) /\ Fits(s)

-----------------------------------------------------------------------------
(* What does not disturb a queue.                                          *)
Harmless(q, a, kinds, s) ==
    \/ a = q
    \/ \E f : Grows(q, a, f) /\ ~(f.type \in kinds /\ f.stream = s)
    \/ Shrinks(q, a) /\ ~(q[1].type \in kinds /\ q[1].stream = s)

LEMMA HarmlessKeeps ==
  ASSUME NEW q, NEW a, NEW kinds, NEW s, Harmless(q, a, kinds, s),
         NEW base \in Int, NEW top \in Int
  PROVE  /\ InOrder(q, kinds, s, base, top) => InOrder(a, kinds, s, base, top)
         /\ Complete(q, kinds, s, base, top) => Complete(a, kinds, s, base, top)
<1>1. CASE a = q
  BY <1>1
<1>2. ASSUME NEW f, Grows(q, a, f), ~(f.type \in kinds /\ f.stream = s)
      PROVE  /\ InOrder(q, kinds, s, base, top) => InOrder(a, kinds, s, base, top)
             /\ Complete(q, kinds, s, base, top) => Complete(a, kinds, s, base, top)
  BY <1>2, OthersAppend
<1>3. CASE Shrinks(q, a) /\ ~(q[1].type \in kinds /\ q[1].stream = s)
  BY <1>3, OthersTaken
<1> QED
  BY <1>1, <1>2, <1>3 DEF Harmless

LEMMA StreamNumbers ==
  ASSUME RelayAssumption, StreamsTyped, NEW s \in Streams
  PROVE  /\ served[s] \in Serveds /\ opened[s] \in Openeds /\ session[s] \in Sessions
         /\ served[s].sent \in Nat /\ served[s].received \in Nat
         /\ opened[s].sent \in Nat /\ opened[s].received \in Nat
         /\ Base(s) \in Int /\ opened[s].received \in Counts
         /\ Gen(s) \in Nat /\ opened[s].generation \in Nat
         /\ Gen(s) # 0 => Gen(s) \in Generations
         /\ Len(session[s].got) \in Nat /\ session[s].got \in Seq(1..MaxData)
  BY SMTT(30)
     DEF StreamsTyped, Serveds, Openeds, Sessions, Counts, Base, Gen, RelayAssumption, Generations

LEMMA DownStays ==
  ASSUME RelayAssumption, StreamsTyped, NEW s \in Streams, DownInOrder(s),
         Gen(s)' = Gen(s), served'[s].sent = served[s].sent,
         served'[s].state = "open" => served[s].state = "open",
         Expecting(s)' => Expecting(s) /\ Base(s)' = Base(s),
         \A g \in Generations : Gen(s) = g /\ Reaches(g)' /\ Expecting(s)' =>
            Reaches(g) /\ Harmless(toWorker[g], toWorker'[g], Down, s)
  PROVE  DownInOrder(s)'
<1>1. Base(s) \in Int /\ served[s].sent \in Int /\ (Gen(s) # 0 => Gen(s) \in Generations)
  BY StreamNumbers
<1> SUFFICES ASSUME NEW g \in Generations, Gen(s) = g, Reaches(g)', Expecting(s)'
             PROVE  /\ InOrder(toWorker'[g], Down, s, Base(s), served[s].sent)
                    /\ served[s].state = "open" =>
                         Complete(toWorker'[g], Down, s, Base(s), served[s].sent)
  BY <1>1 DEF DownInOrder, Reaches, On
<1>2. /\ InOrder(toWorker[g], Down, s, Base(s), served[s].sent)
      /\ served[s].state = "open" => Complete(toWorker[g], Down, s, Base(s), served[s].sent)
  BY DEF DownInOrder, Generations
<1> QED
  BY <1>1, <1>2, HarmlessKeeps

LEMMA UpStays ==
  ASSUME RelayAssumption, StreamsTyped, NEW s \in Streams, UpInOrder(s), Fits(s),
         served'[s].received = served[s].received, opened'[s].sent = opened[s].sent,
         served'[s].state = "open" => served[s].state = "open" /\ Gen(s)' = Gen(s),
         opened'[s].state = "ready" => opened[s].state = "ready",
         \A g \in Generations : Gen(s) = g /\ served'[s].state = "open" /\ Answers(g)' =>
            Answers(g) /\ Harmless(toServer[g], toServer'[g], Up, s)
  PROVE  UpInOrder(s)'
<1>1. /\ served[s].received \in Int /\ opened[s].sent \in Int
      /\ served[s].state = "open" => Gen(s) \in Generations
  BY StreamNumbers DEF Fits, ServedFits
<1> SUFFICES ASSUME NEW g \in Generations, Gen(s) = g, served'[s].state = "open", Answers(g)'
             PROVE  /\ InOrder(toServer'[g], Up, s, served[s].received, opened[s].sent)
                    /\ opened'[s].state = "ready" =>
                         Complete(toServer'[g], Up, s, served[s].received, opened[s].sent)
  BY <1>1 DEF UpInOrder, Answers
<1>2. /\ InOrder(toServer[g], Up, s, served[s].received, opened[s].sent)
      /\ opened[s].state = "ready" =>
           Complete(toServer[g], Up, s, served[s].received, opened[s].sent)
  BY DEF UpInOrder
<1> QED
  BY <1>1, <1>2, HarmlessKeeps

(* What a queue may become without a frame of a stream: nothing, or it is  *)
(* acknowledged.                                                           *)
Quiet(q, a) == a = q \/ (\E f : Grows(q, a, f) /\ f.type = "ack")

LEMMA QuietIsHarmless ==
  ASSUME NEW q, NEW a, Quiet(q, a), NEW s
  PROVE  Harmless(q, a, Down, s)
  BY DEF Quiet, Harmless, Down

LEMMA HeldByGrown ==
  ASSUME NEW q, NEW a, NEW f, Grows(q, a, f), NEW h, Holds(a, h)
  PROVE  h = f \/ Holds(q, h)
  BY DEF Grows, Holds

LEMMA HeldByShrunk ==
  ASSUME NEW q, NEW t, Shrinks(q, t), NEW h, Holds(t, h)
  PROVE  Holds(q, h)
<1>1. PICK i \in 1..Len(t) : t[i] = h
  BY DEF Holds
<1>2. i + 1 \in 1..Len(q) /\ t[i] = q[i + 1]
  BY DEF Shrinks
<1> QED
  BY <1>1, <1>2 DEF Holds

LEMMA EmptyHoldsNone ==
  ASSUME NEW h
  PROVE  ~Holds(<<>>, h)
  BY DEF Holds

(* The frames fit after a step if those carried over still do, and the new *)
(* ones do.                                                                *)
LEMMA FramesStillFit ==
  ASSUME FramesFit,
         \A g \in Generations : \A f : Holds(toWorker'[g], f) =>
            FitsDown(g, f)' \/ (Holds(toWorker[g], f) /\ (FitsDown(g, f) => FitsDown(g, f)')),
         \A g \in Generations : \A f : Holds(toServer'[g], f) =>
            FitsUp(g, f)' \/ (Holds(toServer[g], f) /\ (FitsUp(g, f) => FitsUp(g, f)'))
  PROVE  FramesFit'
  BY DEF FramesFit

(* A frame goes on fitting while its stream is on the same connection, and *)
(* is not opened.                                                          *)
LEMMA DownFrameFitsOn ==
  ASSUME NEW g, NEW f,
         f.stream \in Streams => /\ Gen(f.stream)' = Gen(f.stream)
                                 /\ opened[f.stream].state = "new" => opened'[f.stream].state = "new",
         FitsDown(g, f)
  PROVE  FitsDown(g, f)'
  BY DEF FitsDown

LEMMA UpFrameFitsOn ==
  ASSUME NEW g, NEW f,
         f.stream \in Streams => opened'[f.stream].generation = opened[f.stream].generation,
         FitsUp(g, f)
  PROVE  FitsUp(g, f)'
  BY DEF FitsUp

LEMMA NothingNew ==
  ASSUME RelayAssumption, SInv, Bounded', UNCHANGED <<served, opened, session, client, broken>>,
         link' \subseteq link,
         \A g \in Generations : Answers(g)' => Answers(g),
         toServer' \in [Generations -> Seq(Frames)], toWorker' \in [Generations -> Seq(Frames)],
         \A g \in Generations : \/ Quiet(toWorker[g], toWorker'[g])
                                \/ g \notin link' /\ toWorker'[g] = <<>>,
         \A g \in Generations : \/ toServer'[g] = toServer[g]
                                \/ ~Answers(g)' /\ toServer'[g] = <<>>
  PROVE  SInv'
<1>1. StreamsTyped' /\ broken' = FALSE
  BY DEF SInv, StreamsTyped
<1>2. FramesFit'
  <2>1. ASSUME NEW g \in Generations, NEW f, Holds(toWorker'[g], f)
        PROVE  FitsDown(g, f)' \/ Holds(toWorker[g], f)
    <3>1. f.type = "ack" => FitsDown(g, f)'
      BY DEF FitsDown
    <3> QED
      BY <2>1, <3>1, HeldByGrown, EmptyHoldsNone DEF Quiet
  <2>2. ASSUME NEW g \in Generations, NEW f, Holds(toServer'[g], f)
        PROVE  Holds(toServer[g], f)
    BY <2>2, EmptyHoldsNone
  <2>3. \A g, f : (FitsDown(g, f) => FitsDown(g, f)') /\ (FitsUp(g, f) => FitsUp(g, f)')
    BY DownFrameFitsOn, UpFrameFitsOn DEF Gen
  <2> QED
    BY <2>1, <2>2, <2>3, FramesStillFit DEF SInv
<1>3. ASSUME NEW s \in Streams
      PROVE  DownInOrder(s)' /\ UpInOrder(s)' /\ Fits(s)'
  <2>1. DownInOrder(s) /\ UpInOrder(s) /\ Fits(s) /\ StreamsTyped
    BY DEF SInv
  <2>2. Fits(s)'
    BY <2>1 DEF Fits, ServedFits, OpenedFits, SessionFits, On, Gen
  <2>3. DownInOrder(s)'
    <3>1. \A g \in Generations : Gen(s) = g /\ Reaches(g)' =>
            Reaches(g) /\ Harmless(toWorker[g], toWorker'[g], Down, s)
      BY QuietIsHarmless DEF Reaches, On
    <3> QED
      BY <2>1, <3>1, DownStays DEF Gen, Expecting, Base
  <2>4. UpInOrder(s)'
    <3>1. \A g \in Generations : Gen(s) = g /\ served'[s].state = "open" /\ Answers(g)' =>
            Answers(g) /\ Harmless(toServer[g], toServer'[g], Up, s)
      BY DEF Harmless
    <3> QED
      BY <2>1, <3>1, UpStays DEF Gen
  <2> QED
    BY <2>2, <2>3, <2>4
<1> QED
  BY <1>1, <1>2, <1>3 DEF SInv

-----------------------------------------------------------------------------
LEMMA BoundsAreKept ==
  ASSUME RelayAssumption, IInv, SInv, [Next]_vars
  PROVE  Bounded'
<1>1. faults' \in 0..MaxFaults
  <2>1. UNCHANGED faults \/ Fault
    BY DEF Next, Handshake, Connect, ClientReceives, ClientCloses, HelloFails, WorkerCrashes,
           ReceiveHello, Register, HookDone, SocketCloses, ServerReceives, Heartbeat, OpenStream,
           ServerSends, HandlerOpens, HandlerRefuses, ClientSends, SessionEnds, Disconnect,
           LinkBreaks, LeaseExpires, vars
  <2> QED
    BY <2>1 DEF Fault, SInv, Bounded, RelayAssumption
<1>2. lease'.generation <= MaxGeneration
  <2>1. \/ UNCHANGED lease
        \/ \E g \in Generations : lease' = [generation |-> g, fresh |-> TRUE, revoked |-> FALSE]
        \/ lease' = NoLease
        \/ \E b \in BOOLEAN : lease' = [lease EXCEPT !.revoked = @ \/ b]
        \/ lease' = [lease EXCEPT !.fresh = FALSE]
    BY DEF Next, Handshake, Connect, ClientReceives, ClientCloses, HelloFails, WorkerCrashes,
           ProcessEnds, ReceiveHello, Register, HookDone, SocketCloses, ServerReceives, Heartbeat,
           OpenStream, ServerSends, HandlerOpens, HandlerRefuses, ClientSends, SessionEnds,
           Disconnect, LinkBreaks, LeaseExpires, serverVars, vars
  <2>2. lease \in Leases /\ lease.generation <= MaxGeneration
    BY DEF IInv, Typed, SInv, Bounded
  <2>3. lease'.generation = lease.generation \/ lease'.generation \in 0..MaxGeneration
    BY <2>1, <2>2 DEF Leases, NoLease, Generations, RelayAssumption
  <2> QED
    BY <2>2, <2>3 DEF RelayAssumption
<1>3. client'.generation <= MaxGeneration
  <2>1. \/ UNCHANGED client \/ \E at : client' = [client EXCEPT !.at = at]
        \/ /\ client.generation < MaxGeneration
           /\ client' = [at |-> "connecting", generation |-> client.generation + 1]
    BY DEF Next, Handshake, Connect, ClientReceives, ClientHandles, ClientCloses, HelloFails,
           WorkerCrashes, ProcessEnds, ReceiveHello, Register, HookDone, SocketCloses,
           ServerReceives, Heartbeat, OpenStream, ServerSends, HandlerOpens, HandlerRefuses,
           ClientSends, SessionEnds, Disconnect, LinkBreaks, LeaseExpires, workerVars, vars
  <2>2. client \in Clients /\ client.generation <= MaxGeneration
    BY DEF IInv, Typed, SInv, Bounded
  <2> QED
    BY <2>1, <2>2 DEF Clients, RelayAssumption
<1> QED
  BY <1>1, <1>2, <1>3 DEF Bounded

(* No socket is opened again.                                              *)
ShutStaysShut == \A g \in Generations : conn'[g].socket = "open" => conn[g].socket = "open"

LEMMA ConnectionsShut ==
  ASSUME IInv, NEW g \in Generations
  PROVE  /\ \A gs : conn' = Destroyed(conn, gs) => ShutStaysShut
         /\ \A gs, step : step \in Steps /\ conn' = [Destroyed(conn, gs) EXCEPT ![g].step = step]
               => ShutStaysShut
         /\ \A step : step \in Steps /\ conn' = [conn EXCEPT ![g].step = step] => ShutStaysShut
         /\ conn' = [conn EXCEPT ![g].socket = "closed"]
               => ShutStaysShut /\ conn'[g].socket = "closed"
<1>1. conn \in [Generations -> Connections]
  BY DEF IInv, Typed
<1>2. ASSUME NEW gs, conn' = Destroyed(conn, gs)
      PROVE  ShutStaysShut
  BY <1>1, <1>2, DestroyedIsTyped DEF ShutStaysShut
<1>3. ASSUME NEW gs, NEW step \in Steps, conn' = [Destroyed(conn, gs) EXCEPT ![g].step = step]
      PROVE  ShutStaysShut
  <2>1. GoesOn(conn, gs, g, step, conn')
    BY <1>1, <1>3, OthersAreDestroyed, Zenon
  <2> QED
    BY <2>1 DEF GoesOn, ShutStaysShut
<1>4. ASSUME NEW step \in Steps, conn' = [conn EXCEPT ![g].step = step]
      PROVE  ShutStaysShut
  BY <1>1, <1>4, StepChanges DEF ShutStaysShut
<1>5. ASSUME conn' = [conn EXCEPT ![g].socket = "closed"]
      PROVE  ShutStaysShut /\ conn'[g].socket = "closed"
  BY <1>1, <1>5, SocketChanges DEF ShutStaysShut, Sockets
<1> QED
  BY <1>2, <1>3, <1>4, <1>5

LEMMA HandshakeIsQuiet ==
  ASSUME RelayAssumption, IInv, SInv, Bounded', NEW g \in Generations,
         Handshake(g) \/ Heartbeat(g)
  PROVE  SInv'
<1>1. UNCHANGED <<link, toServer, served, opened, session, client, broken>>
  BY DEF Handshake, ReceiveHello, Register, HookDone, Heartbeat, network, workerVars, history
<1>2. ShutStaysShut
  <2>1. \/ \E step \in Steps : conn' = [conn EXCEPT ![g].step = step]
        \/ \E gs : \E step \in Steps : conn' = [Destroyed(conn, gs) EXCEPT ![g].step = step]
        \/ \E gs : conn' = Destroyed(conn, gs)
    <3>1. "authorizing" \in Steps /\ "hook" \in Steps /\ "up" \in Steps /\ "refused" \in Steps
      BY DEF Steps
    <3> QED
      BY <3>1, Zenon DEF Handshake, ReceiveHello, Register, HookDone, Heartbeat, Refuse
  <2> QED
    BY <2>1, ConnectionsShut
<1>3. UNCHANGED toWorker \/ ServerWrites(g, [type |-> "ack"])
  BY DEF Handshake, ReceiveHello, Register, HookDone, Heartbeat, network
<1>4. /\ toWorker' \in [Generations -> Seq(Frames)]
      /\ \A h \in Generations : Quiet(toWorker[h], toWorker'[h])
  <2>1. CASE UNCHANGED toWorker
    BY <2>1 DEF SInv, StreamsTyped, Quiet
  <2>2. CASE ServerWrites(g, [type |-> "ack"])
    <3>1. [type |-> "ack"] \in Frames /\ [type |-> "ack"].type = "ack"
      BY DEF Frames
    <3>2. toWorker \in [Generations -> Seq(Frames)]
      BY DEF SInv, StreamsTyped
    <3>3. /\ toWorker' = [toWorker EXCEPT ![g] = Append(toWorker[g], [type |-> "ack"])]
      BY <2>2 DEF ServerWrites
    <3>4. /\ Append(toWorker[g], [type |-> "ack"]) \in Seq(Frames)
          /\ Quiet(toWorker[g], Append(toWorker[g], [type |-> "ack"]))
      BY <3>1, <3>2, AppendGrows DEF Quiet
    <3> HIDE DEF Frames
    <3> QED
      BY <3>2, <3>3, <3>4 DEF Quiet
  <2> QED
    BY <1>3, <2>1, <2>2
<1>5. \A h \in Generations : Answers(h)' => Answers(h)
  BY <1>1, <1>2 DEF Answers, ShutStaysShut
<1>6. toServer' \in [Generations -> Seq(Frames)]
  BY <1>1 DEF SInv, StreamsTyped
<1> QED
  BY <1>1, <1>4, <1>5, <1>6, NothingNew

LEMMA CloseIsQuiet ==
  ASSUME RelayAssumption, IInv, SInv, Bounded', NEW g \in Generations, SocketCloses(g)
  PROVE  SInv'
<1>1. /\ UNCHANGED <<link, toWorker, served, opened, session, client, broken>>
      /\ conn' = [conn EXCEPT ![g].socket = "closed"]
      /\ toServer' = [toServer EXCEPT ![g] = <<>>]
  BY DEF SocketCloses, workerVars, history
<1>2. ShutStaysShut /\ conn'[g].socket = "closed"
  BY <1>1, ConnectionsShut
<1>3. toServer \in [Generations -> Seq(Frames)] /\ toWorker' \in [Generations -> Seq(Frames)]
  BY <1>1 DEF SInv, StreamsTyped
<1>4. /\ toServer' \in [Generations -> Seq(Frames)]
      /\ toServer'[g] = <<>> /\ \A h \in Generations \ {g} : toServer'[h] = toServer[h]
  BY <1>1, <1>3
<1>5. \A h \in Generations : (Answers(h)' => Answers(h)) /\ ~Answers(g)'
  BY <1>1, <1>2 DEF Answers, ShutStaysShut
<1>6. \A h \in Generations : Quiet(toWorker[h], toWorker'[h])
  BY <1>1 DEF Quiet
<1> QED
  BY <1>1, <1>3, <1>4, <1>5, <1>6, NothingNew

LEMMA BreakIsQuiet ==
  ASSUME RelayAssumption, IInv, SInv, Bounded', LinkBreaks
  PROVE  SInv'
<1>1. UNCHANGED <<conn, served, opened, session, client, broken>>
  BY DEF LinkBreaks, serverVars, workerVars, history
<1>2. PICK g \in link : /\ link' = link \ {g}
                        /\ toServer' = [toServer EXCEPT ![g] = <<>>]
                        /\ toWorker' = [toWorker EXCEPT ![g] = <<>>]
  BY DEF LinkBreaks
<1>3. /\ toServer \in [Generations -> Seq(Frames)] /\ toWorker \in [Generations -> Seq(Frames)]
      /\ g \in Generations
  BY DEF SInv, StreamsTyped
<1>4. /\ toServer' \in [Generations -> Seq(Frames)]
      /\ toServer'[g] = <<>> /\ \A h \in Generations \ {g} : toServer'[h] = toServer[h]
      /\ toWorker' \in [Generations -> Seq(Frames)]
      /\ toWorker'[g] = <<>> /\ \A h \in Generations \ {g} : toWorker'[h] = toWorker[h]
  BY <1>2, <1>3
<1>5. \A h \in Generations : (Answers(h)' => Answers(h)) /\ ~Answers(g)'
  BY <1>1, <1>2 DEF Answers
<1>6. ASSUME NEW h \in Generations
      PROVE  /\ Quiet(toWorker[h], toWorker'[h]) \/ (h \notin link' /\ toWorker'[h] = <<>>)
             /\ toServer'[h] = toServer[h] \/ (~Answers(h)' /\ toServer'[h] = <<>>)
  <2>1. CASE h = g
    BY <1>2, <1>4, <2>1 DEF Answers
  <2>2. CASE h # g
    BY <1>4, <2>2 DEF Quiet
  <2> QED
    BY <2>1, <2>2
<1>8. link' \subseteq link
  BY <1>2
<1> QED
  BY <1>1, <1>4, <1>5, <1>6, <1>8, NothingNew

LEMMA StutterIsQuiet ==
  ASSUME RelayAssumption, IInv, SInv, Bounded', LeaseExpires \/ UNCHANGED vars
  PROVE  SInv'
<1>1. UNCHANGED <<conn, link, toServer, toWorker, served, opened, session, client, broken>>
  BY DEF LeaseExpires, vars, network, workerVars, history
<1>2. \A h \in Generations : Quiet(toWorker[h], toWorker'[h]) /\ (Answers(h)' => Answers(h))
  BY <1>1 DEF Quiet, Answers
<1> QED
  BY <1>1, <1>2, NothingNew DEF SInv, StreamsTyped

-----------------------------------------------------------------------------
LEMMA DisconnectKeepsStreams ==
  ASSUME RelayAssumption, IInv, SInv, Bounded', NEW revoking \in BOOLEAN, Disconnect(revoking)
  PROVE  SInv'
<1>1. /\ UNCHANGED <<link, toServer, toWorker, opened, session, client, broken>>
      /\ conn' = Destroyed(conn, {active})
  BY DEF Disconnect, network, workerVars, history
<1>2. served \in [Streams -> Serveds] /\ link \subseteq Generations
  BY DEF SInv, StreamsTyped
<1>3. /\ served' \in [Streams -> Serveds]
      /\ \A s \in Streams :
           /\ served'[s].state = IF served[s].state = "open" THEN "closed" ELSE served[s].state
           /\ served'[s].generation = served[s].generation
           /\ served'[s].sent = served[s].sent /\ served'[s].received = served[s].received
  <2> DEFINE Ended(s) == IF served[s].state = "open" THEN [served[s] EXCEPT !.state = "closed"]
                                                     ELSE served[s]
  <2>1. ASSUME NEW s \in Streams
        PROVE  /\ Ended(s) \in Serveds
               /\ Ended(s).state = IF served[s].state = "open" THEN "closed" ELSE served[s].state
               /\ Ended(s).generation = served[s].generation
               /\ Ended(s).sent = served[s].sent /\ Ended(s).received = served[s].received
    <3>1. served[s] \in Serveds
      BY <1>2
    <3>2. CASE served[s].state = "open"
      BY <3>1, <3>2 DEF Serveds
    <3>3. CASE served[s].state # "open"
      BY <3>1, <3>3
    <3> QED
      BY <3>2, <3>3
  <2>2. served' = [s \in Streams |-> Ended(s)]
    BY DEF Disconnect
  <2> HIDE DEF Ended
  <2> QED
    BY <2>1, <2>2
<1>4. StreamsTyped' /\ broken' = FALSE
  BY <1>1, <1>3 DEF SInv, StreamsTyped
<1>5. FramesFit'
  <2>1. \A g, f : (FitsDown(g, f) => FitsDown(g, f)') /\ (FitsUp(g, f) => FitsUp(g, f)')
    BY <1>1, <1>3, DownFrameFitsOn, UpFrameFitsOn DEF Gen
  <2> QED
    BY <1>1, <2>1, FramesStillFit DEF SInv
<1>6. ASSUME NEW s \in Streams
      PROVE  DownInOrder(s)' /\ UpInOrder(s)' /\ Fits(s)'
  <2>1. DownInOrder(s) /\ Fits(s) /\ StreamsTyped
    BY DEF SInv
  <2>2. served'[s].state # "open"
    BY <1>3
  <2>3. DownInOrder(s)'
    <3>1. \A g \in Generations : Reaches(g)'
                  => Reaches(g) /\ Harmless(toWorker[g], toWorker'[g], Down, s)
      BY <1>1 DEF Reaches, On, Harmless
    <3> QED
      BY <1>1, <1>3, <2>1, <2>2, <3>1, DownStays DEF Gen, Expecting, Base
  <2>4. UpInOrder(s)'
    BY <2>2 DEF UpInOrder
  <2>5. Fits(s)'
    BY <1>1, <1>3, <2>1 DEF Fits, ServedFits, OpenedFits, SessionFits, Gen, On
  <2> QED
    BY <2>3, <2>4, <2>5
<1> QED
  BY <1>4, <1>5, <1>6 DEF SInv

LEMMA ConnectKeepsStreams ==
  ASSUME RelayAssumption, IInv, SInv, Bounded', Connect
  PROVE  SInv'
<1> DEFINE c == client.generation + 1
<1>1. /\ UNCHANGED <<toServer, toWorker, served, opened, session, broken>>
      /\ client' = [at |-> "connecting", generation |-> c]
      /\ conn' = [conn EXCEPT ![c].socket = "open"]
      /\ link' = link \cup {c}
      /\ client.at = "off" /\ client.generation < MaxGeneration
  BY DEF Connect, history
<1>2. client.generation \in Nat /\ c \in Generations /\ conn \in [Generations -> Connections]
  BY <1>1 DEF IInv, Typed, Clients, Generations, RelayAssumption
<1>3. /\ client'.generation = c /\ client.generation < c /\ c \in Nat
      /\ \A h \in Generations \ {c} : conn'[h] = conn[h]
  BY <1>1, <1>2
<1> HIDE DEF c
<1>4. StreamsTyped' /\ broken' = FALSE
  BY <1>1, <1>2 DEF SInv, StreamsTyped
<1>5. FramesFit'
  <2>1. \A g, f : (FitsDown(g, f) => FitsDown(g, f)') /\ (FitsUp(g, f) => FitsUp(g, f)')
    BY <1>1, DownFrameFitsOn, UpFrameFitsOn DEF Gen
  <2> QED
    BY <1>1, <2>1, FramesStillFit DEF SInv
<1>6. ASSUME NEW s \in Streams
      PROVE  DownInOrder(s)' /\ UpInOrder(s)' /\ Fits(s)'
  <2>1. UpInOrder(s) /\ Fits(s) /\ StreamsTyped
    BY DEF SInv
  <2>2. Gen(s) \in Nat /\ Gen(s) <= client.generation /\ Gen(s)' = Gen(s)
    BY <1>1, <2>1, StreamNumbers DEF Fits, ServedFits, Gen
  <2>3. DownInOrder(s)'
    BY <1>2, <1>3, <2>2 DEF DownInOrder, Reaches, On
  <2>4. UpInOrder(s)'
    <3>1. \A g \in Generations : Gen(s) = g /\ served'[s].state = "open" /\ Answers(g)' =>
            Answers(g) /\ Harmless(toServer[g], toServer'[g], Up, s)
      BY <1>1, <1>2, <1>3, <2>2 DEF Answers, Harmless
    <3> QED
      BY <1>1, <2>1, <2>2, <3>1, UpStays
  <2>5. opened[s].state \notin {"opening", "ready"}
    BY <1>1, <2>1 DEF Fits, OpenedFits, On
  <2>6. ServedFits(s)'
    <3>1. Gen(s)' <= client'.generation
      BY <1>2, <1>3, <2>2
    <3>2. served' = served /\ opened' = opened
      BY <1>1
    <3> QED
      BY <2>1, <2>2, <3>1, <3>2 DEF Fits, ServedFits
  <2>7. OpenedFits(s)' /\ SessionFits(s)'
    BY <1>1, <2>1, <2>2, <2>5 DEF Fits, OpenedFits, SessionFits
  <2> QED
    BY <2>3, <2>4, <2>6, <2>7 DEF Fits
<1> QED
  BY <1>4, <1>5, <1>6 DEF SInv

LEMMA QueueEmptied ==
  ASSUME NEW q \in [Generations -> Seq(Frames)], NEW x
  PROVE  /\ [q EXCEPT ![x] = <<>>] \in [Generations -> Seq(Frames)]
         /\ \A g \in Generations : [q EXCEPT ![x] = <<>>][g] \in {q[g], <<>>}
<1>1. CASE x \in Generations
  BY <1>1
<1>2. CASE x \notin Generations
  BY <1>2
<1> QED
  BY <1>1, <1>2

(* The end of the client, which has no stream after it.                    *)
LEMMA StreamsGone ==
  ASSUME RelayAssumption, IInv, SInv, Bounded',
         client' = [client EXCEPT !.at = "off"],
         UNCHANGED <<conn, link, toServer, served, broken>>,
         toWorker' = [toWorker EXCEPT ![client.generation] = <<>>],
         opened' \in [Streams -> Openeds], session' \in [Streams -> Sessions],
         \A s \in Streams :
            /\ opened'[s].state = "new" <=> opened[s].state = "new"
            /\ opened'[s].state \notin {"opening", "ready"}
            /\ opened'[s].state = "dropped" => opened[s].state \in {"opening", "dropped"}
            /\ opened'[s].generation = opened[s].generation
            /\ opened'[s].sent = opened[s].sent /\ opened'[s].received = opened[s].received
            /\ session'[s].state # "open" /\ session'[s].got = session[s].got
  PROVE  SInv'
<1>1. client'.at = "off" /\ client'.generation = client.generation
  BY DEF IInv, Typed, Clients
<1>2. /\ toWorker' \in [Generations -> Seq(Frames)]
      /\ \A g \in Generations : toWorker'[g] = toWorker[g] \/ toWorker'[g] = <<>>
  <2>1. toWorker \in [Generations -> Seq(Frames)]
    BY DEF SInv, StreamsTyped
  <2> QED
    BY <2>1, QueueEmptied
<1>3. StreamsTyped' /\ broken' = FALSE
  BY <1>2 DEF SInv, StreamsTyped
<1>4. FramesFit'
  <2>1. \A g, f : (FitsDown(g, f) => FitsDown(g, f)') /\ (FitsUp(g, f) => FitsUp(g, f)')
    BY DownFrameFitsOn, UpFrameFitsOn DEF Gen
  <2>2. \A g \in Generations : \A f : Holds(toWorker'[g], f) => Holds(toWorker[g], f)
    BY <1>2, EmptyHoldsNone
  <2> QED
    BY <2>1, <2>2, FramesStillFit DEF SInv
<1>5. ASSUME NEW s \in Streams
      PROVE  DownInOrder(s)' /\ UpInOrder(s)' /\ Fits(s)'
  <2>1. UpInOrder(s) /\ Fits(s) /\ StreamsTyped
    BY DEF SInv
  <2>2. DownInOrder(s)'
    BY <1>1 DEF DownInOrder, Reaches, On
  <2>3. UpInOrder(s)'
    <3>1. \A g \in Generations : Gen(s) = g /\ served'[s].state = "open" /\ Answers(g)' =>
            Answers(g) /\ Harmless(toServer[g], toServer'[g], Up, s)
      BY DEF Answers, Harmless
    <3> QED
      BY <2>1, <3>1, UpStays DEF Gen
  <2>4. ServedFits(s)'
    BY <1>1, <2>1 DEF Fits, ServedFits, Gen
  <2>5. OpenedFits(s)'
    BY <2>1 DEF Fits, OpenedFits, Gen
  <2>6. SessionFits(s)'
    BY <2>1 DEF Fits, SessionFits
  <2> QED
    BY <2>2, <2>3, <2>4, <2>5, <2>6 DEF Fits
<1> QED
  BY <1>3, <1>4, <1>5 DEF SInv

LEMMA ClientCloseKeepsStreams ==
  ASSUME RelayAssumption, IInv, SInv, Bounded', ClientCloses
  PROVE  SInv'
<1>1. /\ opened \in [Streams -> Openeds] /\ session \in [Streams -> Sessions]
  BY DEF SInv, StreamsTyped
<1> DEFINE Left(s) == [opened[s] EXCEPT !.state = CASE @ = "opening" -> "dropped"
                                                    [] @ = "ready" -> "gone"
                                                    [] OTHER -> @]
<1>2. ASSUME NEW s \in Streams
      PROVE  /\ Left(s) \in Openeds
             /\ Left(s).state = "new" <=> opened[s].state = "new"
             /\ Left(s).state \notin {"opening", "ready"}
             /\ Left(s).state = "dropped" => opened[s].state \in {"opening", "dropped"}
             /\ Left(s).generation = opened[s].generation
             /\ Left(s).sent = opened[s].sent /\ Left(s).received = opened[s].received
  BY <1>1 DEF Openeds
<1>3. ASSUME NEW s \in Streams
      PROVE  Closed(s) \in Sessions /\ Closed(s).state # "open" /\ Closed(s).got = session[s].got
  BY <1>1 DEF Closed, Sessions
<1>4. opened' = [s \in Streams |-> Left(s)] /\ session' = [s \in Streams |-> Closed(s)]
  BY DEF ClientCloses
<1>5. /\ client' = [client EXCEPT !.at = "off"]
      /\ UNCHANGED <<conn, link, toServer, served, broken>>
      /\ toWorker' = [toWorker EXCEPT ![client.generation] = <<>>]
  BY DEF ClientCloses, serverVars, history
<1> HIDE DEF Left
<1>6. /\ opened' \in [Streams -> Openeds] /\ session' \in [Streams -> Sessions]
      /\ \A s \in Streams : opened'[s] = Left(s) /\ session'[s] = Closed(s)
  BY <1>2, <1>3, <1>4
<1> QED
  BY <1>2, <1>3, <1>5, <1>6, StreamsGone

LEMMA ProcessEndKeepsStreams ==
  ASSUME RelayAssumption, IInv, SInv, Bounded', ProcessEnds
  PROVE  SInv'
<1>1. /\ opened \in [Streams -> Openeds] /\ session \in [Streams -> Sessions]
  BY DEF SInv, StreamsTyped
<1> DEFINE Left(s) == [opened[s] EXCEPT !.state = IF @ = "new" THEN @ ELSE "gone"]
           Ended(s) == [session[s] EXCEPT !.state = IF @ = "none" THEN @ ELSE "closed"]
<1>2. ASSUME NEW s \in Streams
      PROVE  /\ Left(s) \in Openeds
             /\ Left(s).state = "new" <=> opened[s].state = "new"
             /\ Left(s).state \notin {"opening", "ready", "dropped"}
             /\ Left(s).generation = opened[s].generation
             /\ Left(s).sent = opened[s].sent /\ Left(s).received = opened[s].received
  BY <1>1 DEF Openeds
<1>3. ASSUME NEW s \in Streams
      PROVE  Ended(s) \in Sessions /\ Ended(s).state # "open" /\ Ended(s).got = session[s].got
  BY <1>1 DEF Sessions
<1>4. opened' = [s \in Streams |-> Left(s)] /\ session' = [s \in Streams |-> Ended(s)]
  BY DEF ProcessEnds
<1>5. /\ client' = [client EXCEPT !.at = "off"]
      /\ UNCHANGED <<conn, link, toServer, served, broken>>
      /\ toWorker' = [toWorker EXCEPT ![client.generation] = <<>>]
  BY DEF ProcessEnds, serverVars, history
<1> HIDE DEF Left, Ended
<1>6. /\ opened' \in [Streams -> Openeds] /\ session' \in [Streams -> Sessions]
      /\ \A s \in Streams : opened'[s] = Left(s) /\ session'[s] = Ended(s)
  BY <1>2, <1>3, <1>4
<1> QED
  BY <1>2, <1>3, <1>5, <1>6, StreamsGone

-----------------------------------------------------------------------------
(* A frame written to a connection, and one taken from it.                 *)
Written(q, g, f, a) == a = [q EXCEPT ![g] = Append(q[g], f)]
Taken(q, g, t) == q[g] # <<>> /\ t = [q EXCEPT ![g] = Tail(q[g])]

Queued(q, g, f, a) ==
    /\ a \in [Generations -> Seq(Frames)]
    /\ Grows(q[g], a[g], f)
    /\ \A h \in Generations : h # g => a[h] = q[h]
    /\ \A h \in Generations : \A k : Holds(a[h], k) => Holds(q[h], k) \/ (h = g /\ k = f)
    /\ \A h \in Generations : \A kinds, s :
          ~(f.type \in kinds /\ f.stream = s) => Harmless(q[h], a[h], kinds, s)

Dequeued(q, g, f, t) ==
    /\ t \in [Generations -> Seq(Frames)]
    /\ Shrinks(q[g], t[g])
    /\ \A h \in Generations : h # g => t[h] = q[h]
    /\ \A h \in Generations : \A k : Holds(t[h], k) => Holds(q[h], k)
    /\ f \in Frames /\ f = q[g][1] /\ Holds(q[g], f)
    /\ \A h \in Generations : \A kinds, s :
          ~(f.type \in kinds /\ f.stream = s) => Harmless(q[h], t[h], kinds, s)

LEMMA QueueGrows ==
  ASSUME NEW q, q \in [Generations -> Seq(Frames)], NEW g \in Generations, NEW f \in Frames,
         NEW a, Written(q, g, f, a)
  PROVE  Queued(q, g, f, a)
<1>1. /\ a \in [Generations -> Seq(Frames)] /\ Grows(q[g], a[g], f)
      /\ \A h \in Generations : h # g => a[h] = q[h]
  <2>1. q[g] \in Seq(Frames)
    OBVIOUS
  <2>2. Append(q[g], f) \in Seq(Frames) /\ Grows(q[g], Append(q[g], f), f)
    BY <2>1, AppendGrows
  <2> DEFINE b == Append(q[g], f)
  <2>3. a = [q EXCEPT ![g] = b] /\ b \in Seq(Frames) /\ Grows(q[g], b, f)
    BY <2>2 DEF Written
  <2> HIDE DEF b
  <2>4. a[g] = b
    BY <2>3
  <2> QED
    BY <2>3, <2>4
<1>2. ASSUME NEW h \in Generations, NEW k, Holds(a[h], k)
      PROVE  Holds(q[h], k) \/ (h = g /\ k = f)
  BY <1>1, <1>2, HeldByGrown
<1>3. ASSUME NEW h \in Generations, NEW kinds, NEW s, ~(f.type \in kinds /\ f.stream = s)
      PROVE  Harmless(q[h], a[h], kinds, s)
  BY <1>1, <1>3 DEF Harmless
<1> QED
  BY <1>1, <1>2, <1>3 DEF Queued

LEMMA QueueShrinks ==
  ASSUME NEW q, q \in [Generations -> Seq(Frames)], NEW g \in Generations,
         NEW t, Taken(q, g, t)
  PROVE  Dequeued(q, g, Head(q[g]), t)
<1>1. /\ t \in [Generations -> Seq(Frames)] /\ Shrinks(q[g], t[g])
      /\ \A h \in Generations : h # g => t[h] = q[h]
      /\ Head(q[g]) \in Frames /\ Head(q[g]) = q[g][1]
  <2>1. q[g] \in Seq(Frames) /\ q[g] # <<>>
    BY DEF Taken
  <2>2. /\ Tail(q[g]) \in Seq(Frames) /\ Shrinks(q[g], Tail(q[g]))
        /\ Head(q[g]) \in Frames /\ Head(q[g]) = q[g][1]
    BY <2>1, TailShrinks
  <2> DEFINE b == Tail(q[g])
  <2>3. t = [q EXCEPT ![g] = b] /\ b \in Seq(Frames) /\ Shrinks(q[g], b)
    BY <2>2 DEF Taken
  <2> HIDE DEF b
  <2>4. t[g] = b
    BY <2>3
  <2> QED
    BY <2>2, <2>3, <2>4
<1> DEFINE f == Head(q[g])
<1>2. f \in Frames /\ f = q[g][1]
  BY <1>1
<1> HIDE DEF f
<1>3. ASSUME NEW h \in Generations, NEW k, Holds(t[h], k)
      PROVE  Holds(q[h], k)
  BY <1>1, <1>3, HeldByShrunk
<1>4. ASSUME NEW h \in Generations, NEW kinds, NEW s, ~(f.type \in kinds /\ f.stream = s)
      PROVE  Harmless(q[h], t[h], kinds, s)
  BY <1>1, <1>2, <1>4 DEF Harmless
<1>5. Holds(q[g], f)
  BY <1>1, <1>2 DEF Holds, Shrinks
<1>6. Dequeued(q, g, f, t)
  BY <1>1, <1>2, <1>3, <1>4, <1>5 DEF Dequeued
<1> QED
  BY <1>6 DEF f

(* A stream that a step is not about.                                      *)
LEMMA OthersStay ==
  ASSUME RelayAssumption, SInv, NEW r \in Streams,
         served'[r] = served[r], opened'[r] = opened[r], session'[r] = session[r],
         link' = link, client'.generation = client.generation,
         client'.at = "off" <=> client.at = "off",
         \A h \in Generations : Answers(h)' => Answers(h),
         \A h \in Generations : Gen(r) = h /\ Expecting(r)' =>
            Harmless(toWorker[h], toWorker'[h], Down, r),
         \A h \in Generations : Gen(r) = h /\ served'[r].state = "open" /\ Answers(h)' =>
            Harmless(toServer[h], toServer'[h], Up, r)
  PROVE  DownInOrder(r)' /\ UpInOrder(r)' /\ Fits(r)'
<1>1. DownInOrder(r) /\ UpInOrder(r) /\ Fits(r) /\ StreamsTyped
  BY DEF SInv
<1>2. DownInOrder(r)'
  <2>1. \A g \in Generations : Gen(r) = g /\ Reaches(g)' /\ Expecting(r)' =>
          Reaches(g) /\ Harmless(toWorker[g], toWorker'[g], Down, r)
    BY DEF Reaches, On
  <2>2. Gen(r)' = Gen(r) /\ Base(r)' = Base(r) /\ (Expecting(r)' => Expecting(r))
    BY DEF Gen, Base, Expecting
  <2> QED
    BY <1>1, <2>1, <2>2, DownStays
<1>3. UpInOrder(r)'
  <2>1. \A g \in Generations : Gen(r) = g /\ served'[r].state = "open" /\ Answers(g)' =>
          Answers(g) /\ Harmless(toServer[g], toServer'[g], Up, r)
    OBVIOUS
  <2> QED
    BY <1>1, <2>1, UpStays DEF Gen
<1>4. Fits(r)'
  BY <1>1 DEF Fits, ServedFits, OpenedFits, SessionFits, Gen, On
<1> QED
  BY <1>2, <1>3, <1>4

LEMMA ServedOpens ==
  ASSUME served \in [Streams -> Serveds], NEW s \in Streams, NEW g \in 0..MaxGeneration,
         served' = [served EXCEPT ![s].state = "open", ![s].generation = g]
  PROVE  /\ served' \in [Streams -> Serveds]
         /\ served'[s].state = "open" /\ served'[s].generation = g
         /\ served'[s].sent = served[s].sent /\ served'[s].received = served[s].received
         /\ \A r \in Streams \ {s} : served'[r] = served[r]
<1> DEFINE v == served[s]
           e == [v EXCEPT !.state = "open", !.generation = g]
<1>1. v \in Serveds
  OBVIOUS
<1>2. served' = [served EXCEPT ![s] = e]
  OBVIOUS
<1> HIDE DEF v
<1>3. e \in Serveds /\ e.state = "open" /\ e.generation = g /\ e.sent = v.sent /\ e.received = v.received
  BY <1>1 DEF Serveds
<1> HIDE DEF e
<1> QED
  BY <1>2, <1>3 DEF v

LEMMA OpenKeepsStreams ==
  ASSUME RelayAssumption, IInv, SInv, Bounded', NEW s \in Streams, OpenStream(s)
  PROVE  SInv'
<1> DEFINE g == active
<1>1. /\ served[s].state = "new" /\ g # 0
      /\ UNCHANGED <<conn, link, toServer, opened, session, client, broken>>
  BY DEF OpenStream, workerVars, history
<1>2. /\ served \in [Streams -> Serveds] /\ served[s] \in Serveds /\ opened[s] \in Openeds
      /\ g \in Generations /\ StreamsTyped /\ DownInOrder(s) /\ UpInOrder(s) /\ Fits(s)
      /\ opened[s].state = "new" /\ opened[s].sent = 0 /\ opened[s].generation = 0 /\ Gen(s) = 0
      /\ opened[s].received = 0
  BY <1>1 DEF SInv, StreamsTyped, IInv, Typed, Generations, RelayAssumption, Fits, ServedFits,
              OpenedFits
<1>3. CASE /\ served' = [served EXCEPT ![s].state = "closed"]
           /\ UNCHANGED toWorker
  <2>1. /\ served' \in [Streams -> Serveds]
        /\ served'[s].state = "closed" /\ served'[s].generation = served[s].generation
        /\ served'[s].sent = served[s].sent /\ served'[s].received = served[s].received
        /\ \A r \in Streams \ {s} : served'[r] = served[r]
    <3> DEFINE e == [served[s] EXCEPT !.state = "closed"]
    <3>1. /\ e \in Serveds /\ e.state = "closed" /\ e.generation = served[s].generation
          /\ e.sent = served[s].sent /\ e.received = served[s].received
      BY <1>2 DEF Serveds
    <3>2. served' = [served EXCEPT ![s] = e]
      BY <1>3
    <3> HIDE DEF e
    <3> QED
      BY <1>2, <3>1, <3>2
  <2>2. StreamsTyped' /\ broken' = FALSE
    BY <1>1, <1>3, <2>1 DEF SInv, StreamsTyped
  <2>3. FramesFit'
    <3>1. \A h, f : FitsDown(h, f) => FitsDown(h, f)'
      BY <1>1, <2>1, DownFrameFitsOn DEF Gen
    <3>2. \A h, f : FitsUp(h, f) => FitsUp(h, f)'
      BY <1>1, UpFrameFitsOn
    <3> QED
      BY <1>1, <1>3, <3>1, <3>2, FramesStillFit DEF SInv
  <2>4. ASSUME NEW r \in Streams \ {s}
        PROVE  DownInOrder(r)' /\ UpInOrder(r)' /\ Fits(r)'
    <3>1. \A h \in Generations :
            /\ Answers(h)' => Answers(h)
            /\ Harmless(toWorker[h], toWorker'[h], Down, r)
            /\ Harmless(toServer[h], toServer'[h], Up, r)
      BY <1>1, <1>3 DEF Answers, Harmless
    <3> QED
      BY <1>1, <2>1, <3>1, OthersStay
  <2>5. DownInOrder(s)' /\ UpInOrder(s)'
    BY <1>2, <2>1 DEF DownInOrder, UpInOrder, Gen
  <2>6. Fits(s)'
    BY <1>1, <1>2, <2>1 DEF Fits, ServedFits, OpenedFits, SessionFits, Gen, On
  <2> QED
    BY <2>2, <2>3, <2>4, <2>5, <2>6 DEF SInv
<1>4. CASE /\ conn[g].socket = "open"
           /\ served' = [served EXCEPT ![s].state = "open", ![s].generation = g]
           /\ ServerWrites(g, Frame("open", s, 0))
  <2> DEFINE f == Frame("open", s, 0)
  <2>1. f \in Frames /\ f.type = "open" /\ f.stream = s /\ f.n = 0
    BY <1>2 DEF Frames, Frame, Counts, RelayAssumption
  <2>2. /\ served' \in [Streams -> Serveds]
        /\ served'[s].state = "open" /\ served'[s].generation = g
        /\ served'[s].sent = 0 /\ served'[s].received = 0
        /\ \A r \in Streams \ {s} : served'[r] = served[r]
    <3>1. g \in 0..MaxGeneration /\ served[s].sent = 0 /\ served[s].received = 0
      BY <1>1, <1>2 DEF Fits, ServedFits, IInv, Typed
    <3> QED
      BY <1>2, <1>4, <3>1, ServedOpens
  <2>3. toWorker \in [Generations -> Seq(Frames)] /\ Written(toWorker, g, f, toWorker')
    BY <1>2, <1>4 DEF ServerWrites, StreamsTyped, Written
  <2> HIDE DEF f
  <2> HIDE DEF g
  <2>4. /\ toWorker' \in [Generations -> Seq(Frames)]
        /\ Grows(toWorker[g], toWorker'[g], f)
        /\ \A h \in Generations : \A k : Holds(toWorker'[h], k)
                => Holds(toWorker[h], k) \/ (h = g /\ k = f)
        /\ \A h \in Generations : \A r : r # s => Harmless(toWorker[h], toWorker'[h], Down, r)
    <3>1. Queued(toWorker, g, f, toWorker')
      BY <1>2, <2>1, <2>3, QueueGrows
    <3> QED
      BY <2>1, <3>1 DEF Queued
  <2>5. StreamsTyped' /\ broken' = FALSE
    BY <1>1, <2>2, <2>4 DEF SInv, StreamsTyped
  <2>6. FramesFit'
    <3>1. ASSUME NEW h \in Generations, NEW k, Holds(toWorker'[h], k)
          PROVE  FitsDown(h, k)' \/ (Holds(toWorker[h], k) /\ (FitsDown(h, k) => FitsDown(h, k)'))
      <4>1. CASE h = g /\ k = f
        BY <1>1, <1>2, <2>1, <2>2, <4>1 DEF FitsDown, Gen, Down
      <4>2. CASE Holds(toWorker[h], k)
        <5>1. FitsDown(h, k)
          BY <4>2 DEF SInv, FramesFit
        <5>2. k.type # "ack" => k.stream # s
          BY <1>2, <5>1 DEF FitsDown, Generations
        <5>3. CASE k.type = "ack"
          BY <5>3 DEF FitsDown
        <5>4. CASE k.type # "ack"
          BY <1>1, <2>2, <4>2, <5>2, <5>4, DownFrameFitsOn DEF Gen
        <5> QED
          BY <5>3, <5>4
      <4> QED
        BY <2>4, <3>1, <4>1, <4>2
    <3>2. \A h, k : FitsUp(h, k) => FitsUp(h, k)'
      BY <1>1, UpFrameFitsOn
    <3> QED
      BY <1>1, <3>1, <3>2, FramesStillFit DEF SInv
  <2>7. ASSUME NEW r \in Streams \ {s}
        PROVE  DownInOrder(r)' /\ UpInOrder(r)' /\ Fits(r)'
    <3>1. \A h \in Generations :
            /\ Answers(h)' => Answers(h)
            /\ Harmless(toWorker[h], toWorker'[h], Down, r)
            /\ Harmless(toServer[h], toServer'[h], Up, r)
      BY <1>1, <2>4 DEF Answers, Harmless
    <3> QED
      BY <1>1, <2>2, <3>1, OthersStay
  <2>8. DownInOrder(s)'
    <3>1. Numbered(toWorker[g], Down, s) = {}
      <4>1. ASSUME NEW i \in 1..Len(toWorker[g]), toWorker[g][i].type \in Down,
                   toWorker[g][i].stream = s
            PROVE  FALSE
        <5>1. FitsDown(g, toWorker[g][i])
          BY <1>2 DEF SInv, FramesFit, Holds
        <5> QED
          BY <1>2, <4>1, <5>1 DEF FitsDown, Down, Generations
      <4> QED
        BY <4>1 DEF Numbered
    <3>2. InOrder(toWorker[g], Down, s, -1, -1) /\ Complete(toWorker[g], Down, s, -1, -1)
      BY <3>1, NoFramesAreInOrder
    <3>3. f.n = -1 + 1 /\ f.type \in Down /\ -1 \in Int
      BY <2>1 DEF Down
    <3>4. InOrder(toWorker'[g], Down, s, -1, -1 + 1) /\ Complete(toWorker'[g], Down, s, -1, -1 + 1)
      BY <2>1, <2>4, <3>2, <3>3, NextAppended
    <3> QED
      BY <1>1, <1>2, <2>2, <3>4 DEF DownInOrder, Gen, Base
  <2>9. UpInOrder(s)'
    <3>1. Numbered(toServer[g], Up, s) = {}
      <4>1. ASSUME NEW i \in 1..Len(toServer[g]), toServer[g][i].type \in Up,
                   toServer[g][i].stream = s
            PROVE  FALSE
        <5>1. FitsUp(g, toServer[g][i])
          BY <1>2 DEF SInv, FramesFit, Holds
        <5> QED
          BY <1>2, <4>1, <5>1 DEF FitsUp, Up, Generations
      <4> QED
        BY <4>1 DEF Numbered
    <3>2. InOrder(toServer[g], Up, s, 0, 0) /\ Complete(toServer[g], Up, s, 0, 0)
      BY <3>1, NoFramesAreInOrder
    <3> QED
      BY <1>1, <1>2, <2>2, <3>2 DEF UpInOrder, Gen
  <2>10. Fits(s)'
    <3>1. g <= client.generation /\ g # 0
      BY <1>1, <1>2, <1>4 DEF IInv, UnusedIsNew, Typed, Clients, Generations, g
    <3> QED
      BY <1>1, <1>2, <2>2, <3>1 DEF Fits, ServedFits, OpenedFits, SessionFits, Gen, On, RelayAssumption
  <2> QED
    BY <2>5, <2>6, <2>7, <2>8, <2>9, <2>10 DEF SInv
<1> QED
  BY <1>3, <1>4 DEF OpenStream

LEMMA ServedSends ==
  ASSUME served \in [Streams -> Serveds], NEW s \in Streams, NEW n \in Counts,
         NEW state \in {"new", "open", "closed"},
         served' = [served EXCEPT ![s].sent = n, ![s].state = state]
  PROVE  /\ served' \in [Streams -> Serveds]
         /\ served'[s].state = state /\ served'[s].sent = n
         /\ served'[s].generation = served[s].generation
         /\ served'[s].received = served[s].received
         /\ \A r \in Streams \ {s} : served'[r] = served[r]
<1> DEFINE v == served[s]
           e == [v EXCEPT !.sent = n, !.state = state]
<1>1. v \in Serveds
  OBVIOUS
<1>2. served' = [served EXCEPT ![s] = e]
  OBVIOUS
<1> HIDE DEF v
<1>3. /\ e \in Serveds /\ e.state = state /\ e.sent = n /\ e.generation = v.generation
      /\ e.received = v.received
  BY <1>1 DEF Serveds
<1> HIDE DEF e
<1> QED
  BY <1>2, <1>3 DEF v

LEMMA SendKeepsStreams ==
  ASSUME RelayAssumption, IInv, SInv, Bounded', NEW s \in Streams, NEW type \in {"data", "close"},
         ServerSends(s, type)
  PROVE  SInv'
<1> DEFINE g == Gen(s)
           n == served[s].sent + 1
           gone == conn[g].socket # "open"
           state == IF gone \/ type = "close" THEN "closed" ELSE served[s].state
           f == Frame(type, s, n)
<1>1. /\ served[s].state = "open" /\ UNCHANGED <<conn, link, toServer, opened, session, client, broken>>
      /\ served[s].sent < (IF type = "data" THEN MaxData ELSE MaxData + 1)
  BY DEF ServerSends, workerVars, history
<1>a. /\ served' = [served EXCEPT ![s].sent = n, ![s].state = state]
      /\ IF gone THEN UNCHANGED toWorker ELSE Written(toWorker, g, f, toWorker')
  BY Zenon DEF ServerSends, Gen, ServerWrites, Written
<1>2. /\ StreamsTyped /\ DownInOrder(s) /\ UpInOrder(s) /\ Fits(s)
      /\ served \in [Streams -> Serveds] /\ toWorker \in [Generations -> Seq(Frames)]
  BY DEF SInv, StreamsTyped
<1>3. /\ g \in Generations /\ served[s].sent \in Nat
      /\ n \in Counts /\ n \in Nat /\ n # 0 /\ n <= MaxData + 1 /\ (type = "data" => n <= MaxData)
      /\ state \in {"new", "open", "closed"} /\ (type = "close" => state = "closed")
      /\ Base(s) \in Int /\ n = served[s].sent + 1 /\ (gone => state # "open")
      /\ (state = "open" => type = "data")
  BY <1>1, <1>2, StreamNumbers DEF Fits, ServedFits, Counts, RelayAssumption
<1>4. f \in Frames /\ f.type = type /\ f.stream = s /\ f.n = n
  BY <1>3 DEF Frames, Frame
<1> HIDE DEF g, n, gone, state, f
<1>5. /\ served' \in [Streams -> Serveds]
      /\ served'[s].state = state /\ served'[s].sent = n
      /\ served'[s].generation = served[s].generation
      /\ served'[s].received = served[s].received
      /\ \A r \in Streams \ {s} : served'[r] = served[r]
  BY <1>a, <1>2, <1>3, ServedSends
<1>6. /\ toWorker' \in [Generations -> Seq(Frames)]
      /\ \A h \in Generations : \A k : Holds(toWorker'[h], k)
              => Holds(toWorker[h], k) \/ (h = g /\ k = f)
      /\ \A h \in Generations : \A r : r # s => Harmless(toWorker[h], toWorker'[h], Down, r)
      /\ ~gone => Grows(toWorker[g], toWorker'[g], f)
      /\ gone => toWorker' = toWorker
  <2>1. CASE gone
    BY <1>a, <1>2, <2>1 DEF Harmless
  <2>2. CASE ~gone
    <3>1. Queued(toWorker, g, f, toWorker')
      BY <1>a, <1>2, <1>3, <1>4, <2>2, QueueGrows
    <3> QED
      BY <1>4, <2>2, <3>1 DEF Queued
  <2> QED
    BY <2>1, <2>2
<1>7. StreamsTyped' /\ broken' = FALSE
  BY <1>1, <1>5, <1>6 DEF SInv, StreamsTyped
<1>8. FramesFit'
  <2>1. \A h, k : FitsDown(h, k) => FitsDown(h, k)'
    BY <1>1, <1>5, DownFrameFitsOn DEF Gen
  <2>3. \A h, k : FitsUp(h, k) => FitsUp(h, k)'
    BY <1>1, UpFrameFitsOn
  <2>4. ASSUME NEW h \in Generations, NEW k, Holds(toWorker'[h], k)
        PROVE  FitsDown(h, k)' \/ (Holds(toWorker[h], k) /\ (FitsDown(h, k) => FitsDown(h, k)'))
    <3>1. CASE h = g /\ k = f
      <4>1. g = h /\ f = k
        BY <3>1
      <4> QED
        BY <1>3, <1>4, <1>5, <4>1 DEF FitsDown, Down, g, Gen
    <3>2. CASE Holds(toWorker[h], k)
      BY <2>1, <3>2
    <3> QED
      BY <1>6, <2>4, <3>1, <3>2
  <2> QED
    BY <1>1, <2>3, <2>4, FramesStillFit DEF SInv
<1>9. ASSUME NEW r \in Streams \ {s}
      PROVE  DownInOrder(r)' /\ UpInOrder(r)' /\ Fits(r)'
  <2>1. \A h \in Generations :
          /\ Answers(h)' => Answers(h)
          /\ Harmless(toWorker[h], toWorker'[h], Down, r)
          /\ Harmless(toServer[h], toServer'[h], Up, r)
    BY <1>1, <1>6 DEF Answers, Harmless
  <2> QED
    BY <1>1, <1>5, <2>1, OthersStay
<1>10. DownInOrder(s)'
  <2> SUFFICES ASSUME Reaches(g), Expecting(s)
               PROVE  /\ InOrder(toWorker'[g], Down, s, Base(s), n)
                      /\ state = "open" => Complete(toWorker'[g], Down, s, Base(s), n)
    BY <1>1, <1>5 DEF DownInOrder, Reaches, On, Expecting, Base, Gen, g
  <2>1. /\ InOrder(toWorker[g], Down, s, Base(s), served[s].sent)
        /\ Complete(toWorker[g], Down, s, Base(s), served[s].sent)
    BY <1>1, <1>2, <1>3 DEF DownInOrder, g, Generations
  <2>2. CASE gone
    BY <1>3, <1>6, <2>1, <2>2, SentUnheard
  <2>3. CASE ~gone
    <3>1. f.type \in Down /\ f.stream = s /\ f.n = served[s].sent + 1
      BY <1>3, <1>4 DEF Down
    <3>2. /\ InOrder(toWorker'[g], Down, s, Base(s), served[s].sent + 1)
          /\ Complete(toWorker'[g], Down, s, Base(s), served[s].sent + 1)
      <4>1. Grows(toWorker[g], toWorker'[g], f) /\ Base(s) \in Int /\ served[s].sent \in Int
        BY <1>3, <1>6, <2>3
      <4> QED
        BY <2>1, <3>1, <4>1, NextAppended
    <3> QED
      BY <1>3, <3>2
  <2> QED
    BY <2>2, <2>3
<1>11. UpInOrder(s)'
  <2>1. \A h \in Generations : Gen(s) = h /\ served'[s].state = "open" /\ Answers(h)' =>
          Answers(h) /\ Harmless(toServer[h], toServer'[h], Up, s)
    BY <1>1 DEF Answers, Harmless
  <2> QED
    BY <1>1, <1>2, <1>5, <2>1, UpStays DEF Gen
<1>12. Fits(s)'
  <2>1. opened[s].received \in Nat
    BY <1>2, StreamNumbers
  <2> QED
    BY <1>1, <1>2, <1>3, <1>5, <2>1 DEF Fits, ServedFits, OpenedFits, SessionFits, Gen, On, state
<1> QED
  BY <1>7, <1>8, <1>9, <1>10, <1>11, <1>12 DEF SInv

-----------------------------------------------------------------------------
(* What a handler or a session does to its stream.                         *)
Writes(g, f) ==
    /\ g \in Generations /\ f \in Frames /\ FitsUp(g, f)
    /\ Written(toServer, g, f, toServer')

LEMMA OpenedChanges ==
  ASSUME opened \in [Streams -> Openeds], NEW s \in Streams,
         NEW state \in {"new", "opening", "dropped", "ready", "gone"},
         opened' = [opened EXCEPT ![s].state = state]
  PROVE  /\ opened' \in [Streams -> Openeds]
         /\ opened'[s].state = state /\ opened'[s].generation = opened[s].generation
         /\ opened'[s].sent = opened[s].sent /\ opened'[s].received = opened[s].received
         /\ \A r \in Streams \ {s} : opened'[r] = opened[r]
<1> DEFINE v == opened[s]
           e == [v EXCEPT !.state = state]
<1>1. v \in Openeds
  OBVIOUS
<1>2. opened' = [opened EXCEPT ![s] = e]
  OBVIOUS
<1> HIDE DEF v
<1>3. /\ e \in Openeds /\ e.state = state /\ e.sent = v.sent /\ e.generation = v.generation
      /\ e.received = v.received
  BY <1>1 DEF Openeds
<1> HIDE DEF e
<1> QED
  BY <1>2, <1>3 DEF v

LEMMA OpenedSends ==
  ASSUME opened \in [Streams -> Openeds], NEW s \in Streams, NEW n \in Counts,
         opened' = [opened EXCEPT ![s].sent = n]
  PROVE  /\ opened' \in [Streams -> Openeds]
         /\ opened'[s].state = opened[s].state /\ opened'[s].generation = opened[s].generation
         /\ opened'[s].sent = n /\ opened'[s].received = opened[s].received
         /\ \A r \in Streams \ {s} : opened'[r] = opened[r]
<1> DEFINE v == opened[s]
           e == [v EXCEPT !.sent = n]
<1>1. v \in Openeds
  OBVIOUS
<1>2. opened' = [opened EXCEPT ![s] = e]
  OBVIOUS
<1> HIDE DEF v
<1>3. /\ e \in Openeds /\ e.state = v.state /\ e.sent = n /\ e.generation = v.generation
      /\ e.received = v.received
  BY <1>1 DEF Openeds
<1> HIDE DEF e
<1> QED
  BY <1>2, <1>3 DEF v

LEMMA OpenedEnds ==
  ASSUME opened \in [Streams -> Openeds], NEW s \in Streams, NEW n \in Counts,
         opened' = [opened EXCEPT ![s].state = "gone", ![s].sent = n]
  PROVE  /\ opened' \in [Streams -> Openeds]
         /\ opened'[s].state = "gone" /\ opened'[s].generation = opened[s].generation
         /\ opened'[s].sent = n /\ opened'[s].received = opened[s].received
         /\ \A r \in Streams \ {s} : opened'[r] = opened[r]
<1> DEFINE v == opened[s]
           e == [v EXCEPT !.state = "gone", !.sent = n]
<1>1. v \in Openeds
  OBVIOUS
<1>2. opened' = [opened EXCEPT ![s] = e]
  OBVIOUS
<1> HIDE DEF v
<1>3. /\ e \in Openeds /\ e.state = "gone" /\ e.sent = n /\ e.generation = v.generation
      /\ e.received = v.received
  BY <1>1 DEF Openeds
<1> HIDE DEF e
<1> QED
  BY <1>2, <1>3 DEF v

LEMMA SessionStepKeeps ==
  ASSUME RelayAssumption, SInv, Bounded', NEW s \in Streams,
         UNCHANGED <<conn, link, toWorker, served, client, broken>>,
         opened' \in [Streams -> Openeds], session' \in [Streams -> Sessions],
         \A r \in Streams \ {s} : opened'[r] = opened[r] /\ session'[r] = session[r],
         \/ opened'[s] = opened[s]
         \/ /\ opened[s].state # "new" /\ opened'[s].state # "new"
            /\ opened'[s].generation = opened[s].generation
            /\ opened'[s].received = opened[s].received
            /\ Expecting(s)' => Expecting(s),
         UNCHANGED toServer \/ \E g, f : Writes(g, f) /\ f.stream = s,
         UpInOrder(s)', OpenedFits(s)', SessionFits(s)'
  PROVE  SInv'
<1>1. StreamsTyped /\ DownInOrder(s) /\ UpInOrder(s) /\ Fits(s)
  BY DEF SInv
<1>2. /\ toServer' \in [Generations -> Seq(Frames)]
      /\ \A h \in Generations : \A k : Holds(toServer'[h], k)
              => Holds(toServer[h], k) \/ FitsUp(h, k)
      /\ \A h \in Generations : \A r : r # s => Harmless(toServer[h], toServer'[h], Up, r)
  <2>1. toServer \in [Generations -> Seq(Frames)]
    BY <1>1 DEF StreamsTyped
  <2>2. CASE UNCHANGED toServer
    BY <2>1, <2>2 DEF Harmless
  <2>3. ASSUME NEW g, NEW f, Writes(g, f), f.stream = s
        PROVE  /\ toServer' \in [Generations -> Seq(Frames)]
               /\ \A h \in Generations : \A k :
                     Holds(toServer'[h], k) => Holds(toServer[h], k) \/ FitsUp(h, k)
               /\ \A h \in Generations : \A r :
                     r # s => Harmless(toServer[h], toServer'[h], Up, r)
    <3>1. Queued(toServer, g, f, toServer') /\ FitsUp(g, f)
      BY <2>1, <2>3, QueueGrows DEF Writes
    <3> QED
      BY <2>3, <3>1 DEF Queued
  <2> QED
    BY <2>2, <2>3
<1>3. StreamsTyped' /\ broken' = FALSE
  BY <1>1, <1>2 DEF SInv, StreamsTyped
<1>4. FramesFit'
  <2>1. \A h, k : FitsDown(h, k) => FitsDown(h, k)'
    BY DownFrameFitsOn DEF Gen
  <2>2. \A h, k : FitsUp(h, k) => FitsUp(h, k)'
    BY UpFrameFitsOn
  <2> QED
    BY <1>2, <2>1, <2>2, FramesStillFit DEF SInv
<1>5. ASSUME NEW r \in Streams \ {s}
      PROVE  DownInOrder(r)' /\ UpInOrder(r)' /\ Fits(r)'
  <2>1. \A h \in Generations :
          /\ Answers(h)' => Answers(h)
          /\ Harmless(toWorker[h], toWorker'[h], Down, r)
          /\ Harmless(toServer[h], toServer'[h], Up, r)
    BY <1>2 DEF Answers, Harmless
  <2> QED
    BY <2>1, OthersStay
<1>6. DownInOrder(s)'
  <2>1. \A h \in Generations : Gen(s) = h /\ Reaches(h)' =>
          Reaches(h) /\ Harmless(toWorker[h], toWorker'[h], Down, s)
    BY DEF Reaches, On, Harmless
  <2>2. Expecting(s)' => Expecting(s) /\ Base(s)' = Base(s)
    BY DEF Expecting, Base
  <2> QED
    BY <1>1, <2>1, <2>2, DownStays DEF Gen
<1>7. ServedFits(s)'
  BY <1>1 DEF Fits, ServedFits, Gen
<1> QED
  BY <1>3, <1>4, <1>5, <1>6, <1>7 DEF SInv, Fits

LEMMA CountingUp ==
  ASSUME NEW k \in Nat, NEW max \in Nat, k <= max
  PROVE  [n \in 1..k |-> n] \in Seq(1..max) /\ Len([n \in 1..k |-> n]) = k
  OBVIOUS

LEMMA HandlerOpenKeepsStreams ==
  ASSUME RelayAssumption, IInv, SInv, Bounded', NEW s \in Streams, HandlerOpens(s)
  PROVE  SInv'
<1> DEFINE state == IF opened[s].state = "opening" THEN "ready" ELSE "gone"
           kept == IF opened[s].state = "opening" THEN "open" ELSE "orphan"
           got == Flushed(s)
<1>1. /\ opened[s].state \in {"opening", "dropped"}
      /\ opened' = [opened EXCEPT ![s].state = state]
      /\ session' = [session EXCEPT ![s] = [state |-> kept, got |-> got]]
      /\ UNCHANGED <<conn, link, toWorker, toServer, served, client, broken>>
  BY DEF HandlerOpens, network, serverVars, history
<1>2. /\ StreamsTyped /\ UpInOrder(s) /\ Fits(s) /\ opened[s].received \in Nat
      /\ opened \in [Streams -> Openeds] /\ session \in [Streams -> Sessions]
      /\ opened[s].received <= MaxData
      /\ served[s].received \in Nat /\ opened[s].sent = 0
  BY <1>1, StreamNumbers DEF SInv, StreamsTyped, Fits, OpenedFits
<1>3. got \in Seq(1..MaxData) /\ Len(got) = opened[s].received
      /\ got = [n \in 1..Len(got) |-> n]
  <2>1. got = [n \in 1..opened[s].received |-> n]
    BY DEF Flushed
  <2> HIDE DEF got
  <2>2. got \in Seq(1..MaxData) /\ Len(got) = opened[s].received
    BY <1>2, <2>1, CountingUp DEF RelayAssumption
  <2> QED
    BY <2>1, <2>2
<1>4. /\ state \in {"new", "opening", "dropped", "ready", "gone"} /\ kept \in {"open", "orphan"}
      /\ state = "ready" <=> opened[s].state = "opening"
      /\ kept = "open" <=> opened[s].state = "opening"
      /\ state \in {"ready", "gone"}
  BY <1>1
<1> HIDE DEF state, kept, got
<1>5. /\ opened' \in [Streams -> Openeds]
      /\ opened'[s].state = state /\ opened'[s].generation = opened[s].generation
      /\ opened'[s].sent = opened[s].sent /\ opened'[s].received = opened[s].received
      /\ \A r \in Streams \ {s} : opened'[r] = opened[r]
  BY <1>1, <1>2, <1>4, OpenedChanges
<1>6. /\ session' \in [Streams -> Sessions]
      /\ session'[s].state = kept /\ session'[s].got = got
      /\ \A r \in Streams \ {s} : session'[r] = session[r]
  <2> DEFINE e == [state |-> kept, got |-> got]
  <2>1. e \in Sessions /\ e.state = kept /\ e.got = got
    BY <1>3, <1>4 DEF Sessions
  <2>2. session' = [session EXCEPT ![s] = e]
    BY <1>1
  <2> HIDE DEF e
  <2> QED
    BY <1>2, <2>1, <2>2
<1>7. UpInOrder(s)'
  <2> SUFFICES ASSUME served[s].state = "open", Answers(Gen(s))
               PROVE  /\ InOrder(toServer[Gen(s)], Up, s, served[s].received, 0)
                      /\ Complete(toServer[Gen(s)], Up, s, served[s].received, 0)
    BY <1>1, <1>2, <1>5 DEF UpInOrder, Answers, Gen
  <2>1. InOrder(toServer[Gen(s)], Up, s, served[s].received, 0)
    BY <1>2 DEF UpInOrder
  <2>2. served[s].received = 0
    BY <1>2, <2>1 DEF InOrder
  <2>3. Complete(toServer[Gen(s)], Up, s, served[s].received, 0)
    BY <2>2 DEF Complete
  <2> QED
    BY <2>1, <2>3
<1>8. OpenedFits(s)'
  BY <1>1, <1>2, <1>4, <1>5 DEF Fits, OpenedFits, Gen, On, RelayAssumption
<1>9. SessionFits(s)'
  BY <1>2, <1>3, <1>4, <1>5, <1>6 DEF SessionFits
<1>10. Expecting(s)' => Expecting(s)
  BY <1>1, <1>4, <1>5 DEF Expecting
<1> QED
  BY <1>1, <1>4, <1>5, <1>6, <1>7, <1>8, <1>9, <1>10, SessionStepKeeps

LEMMA HandlerRefusalKeepsStreams ==
  ASSUME RelayAssumption, IInv, SInv, Bounded', NEW s \in Streams, HandlerRefuses(s)
  PROVE  SInv'
<1> DEFINE f == Frame("close", s, 0)
           g == client.generation
<1>1. /\ opened[s].state \in {"opening", "dropped"}
      /\ opened' = [opened EXCEPT ![s].state = "gone"]
      /\ UNCHANGED <<conn, link, toWorker, session, served, client, broken>>
  BY DEF HandlerRefuses, serverVars, history
<1>2. UNCHANGED toServer \/ (On(opened[s].generation) /\ Written(toServer, g, f, toServer'))
  BY DEF HandlerRefuses, ClientWrites, Written
<1>3. /\ StreamsTyped /\ UpInOrder(s) /\ Fits(s)
      /\ opened \in [Streams -> Openeds] /\ session \in [Streams -> Sessions]
      /\ opened[s].generation \in Generations
  BY <1>1, StreamNumbers DEF SInv, StreamsTyped, Fits, OpenedFits
<1>4. f \in Frames /\ f.type = "close" /\ f.stream = s /\ f.n = 0 /\ 0 \in Counts
  BY DEF Frames, Frame, Counts, RelayAssumption
<1>5. /\ opened' \in [Streams -> Openeds]
      /\ opened'[s].state = "gone" /\ opened'[s].generation = opened[s].generation
      /\ opened'[s].sent = opened[s].sent /\ opened'[s].received = opened[s].received
      /\ \A r \in Streams \ {s} : opened'[r] = opened[r]
  BY <1>1, <1>3, OpenedChanges
<1> HIDE DEF f
<1>6. UNCHANGED toServer \/ Writes(g, f)
  BY <1>2, <1>3, <1>4 DEF Writes, On, FitsUp
<1> HIDE DEF g
<1>7. UpInOrder(s)'
  <2>1. toServer \in [Generations -> Seq(Frames)]
    BY <1>3 DEF StreamsTyped
  <2>2. CASE UNCHANGED toServer
    <3>1. \A h \in Generations : Answers(h)'
                  => Answers(h) /\ Harmless(toServer[h], toServer'[h], Up, s)
      BY <1>1, <2>2 DEF Answers, Harmless
    <3> QED
      BY <1>1, <1>3, <1>5, <3>1, UpStays DEF Gen
  <2>3. CASE Writes(g, f)
    <3>1. Queued(toServer, g, f, toServer')
      BY <2>1, <2>3, QueueGrows DEF Writes
    <3>2. \A h \in Generations : Harmless(toServer[h], toServer'[h], Up, s)
      BY <1>4, <3>1 DEF Queued, Up
    <3>3. \A h \in Generations : Answers(h)'
                  => Answers(h) /\ Harmless(toServer[h], toServer'[h], Up, s)
      BY <1>1, <3>2 DEF Answers
    <3> QED
      BY <1>1, <1>3, <1>5, <3>3, UpStays DEF Gen
  <2> QED
    BY <1>6, <2>2, <2>3
<1>8. OpenedFits(s)'
  BY <1>1, <1>3, <1>5 DEF Fits, OpenedFits, Gen
<1>9. SessionFits(s)'
  BY <1>1, <1>3, <1>5 DEF Fits, SessionFits
<1>10. ~Expecting(s)' /\ (UNCHANGED toServer \/ \E h, k : Writes(h, k) /\ k.stream = s)
  BY <1>4, <1>5, <1>6 DEF Expecting
<1>11. session' \in [Streams -> Sessions] /\ \A r \in Streams \ {s} : session'[r] = session[r]
  BY <1>1, <1>3
<1> QED
  BY <1>1, <1>5, <1>7, <1>8, <1>9, <1>10, <1>11, SessionStepKeeps

LEMMA ReplyKeepsStreams ==
  ASSUME RelayAssumption, IInv, SInv, Bounded', NEW s \in Streams, ClientSends(s)
  PROVE  SInv'
<1> DEFINE n == opened[s].sent + 1
           f == Frame("data", s, n)
           g == client.generation
<1>1. /\ opened[s].state = "ready" /\ opened[s].sent < MaxReplies
      /\ opened' = [opened EXCEPT ![s].sent = n]
      /\ Written(toServer, g, f, toServer')
      /\ UNCHANGED <<conn, link, toWorker, session, served, client, broken>>
  BY DEF ClientSends, ClientWrites, Written, serverVars, history
<1>2. /\ StreamsTyped /\ UpInOrder(s) /\ Fits(s)
      /\ opened \in [Streams -> Openeds] /\ session \in [Streams -> Sessions]
      /\ toServer \in [Generations -> Seq(Frames)]
      /\ opened[s].generation = g /\ g \in Generations /\ Gen(s) = g
      /\ opened[s].sent \in Nat /\ served[s].received \in Nat
  BY <1>1, StreamNumbers DEF SInv, StreamsTyped, Fits, OpenedFits, On
<1>3. n \in Counts /\ n = opened[s].sent + 1 /\ n \in Nat /\ n <= MaxReplies
  BY <1>1, <1>2 DEF Counts, RelayAssumption
<1>4. f \in Frames /\ f.type = "data" /\ f.stream = s /\ f.n = n
  BY <1>3 DEF Frames, Frame
<1> HIDE DEF f, g, n
<1>5. /\ opened' \in [Streams -> Openeds]
      /\ opened'[s].state = opened[s].state /\ opened'[s].generation = opened[s].generation
      /\ opened'[s].sent = n /\ opened'[s].received = opened[s].received
      /\ \A r \in Streams \ {s} : opened'[r] = opened[r]
  BY <1>1, <1>2, <1>3, OpenedSends
<1>6. Writes(g, f)
  BY <1>1, <1>2, <1>3, <1>4 DEF Writes, FitsUp
<1>7. UpInOrder(s)'
  <2>1. Queued(toServer, g, f, toServer')
    BY <1>1, <1>2, <1>4, QueueGrows
  <2>2. Grows(toServer[g], toServer'[g], f) /\ f.type \in Up /\ f.n = opened[s].sent + 1
    BY <1>3, <1>4, <2>1 DEF Queued, Up
  <2> SUFFICES ASSUME served[s].state = "open", Answers(g)
               PROVE  /\ InOrder(toServer'[g], Up, s, served[s].received, n)
                      /\ Complete(toServer'[g], Up, s, served[s].received, n)
    BY <1>1, <1>2, <1>5 DEF UpInOrder, Answers, Gen
  <2>3. /\ InOrder(toServer[g], Up, s, served[s].received, opened[s].sent)
        /\ Complete(toServer[g], Up, s, served[s].received, opened[s].sent)
    BY <1>1, <1>2 DEF UpInOrder
  <2>4. served[s].received \in Int /\ opened[s].sent \in Int
    BY <1>2
  <2>5. /\ InOrder(toServer'[g], Up, s, served[s].received, opened[s].sent + 1)
        /\ Complete(toServer'[g], Up, s, served[s].received, opened[s].sent + 1)
    BY <1>4, <2>2, <2>3, <2>4, NextAppended
  <2> QED
    BY <1>3, <2>5
<1>8. OpenedFits(s)'
  BY <1>1, <1>2, <1>3, <1>5 DEF Fits, OpenedFits, Gen, On
<1>9. SessionFits(s)'
  BY <1>1, <1>2, <1>5 DEF Fits, SessionFits
<1>10. (Expecting(s)' => Expecting(s)) /\ \E h, k : Writes(h, k) /\ k.stream = s
  BY <1>4, <1>5, <1>6 DEF Expecting
<1>11. session' \in [Streams -> Sessions] /\ \A r \in Streams \ {s} : session'[r] = session[r]
  BY <1>1, <1>2
<1> QED
  BY <1>1, <1>5, <1>7, <1>8, <1>9, <1>10, <1>11, SessionStepKeeps

LEMMA SessionEndKeepsStreams ==
  ASSUME RelayAssumption, IInv, SInv, Bounded', NEW s \in Streams, SessionEnds(s)
  PROVE  SInv'
<1>1. /\ session[s].state \in {"open", "orphan"}
      /\ session' = [session EXCEPT ![s].state = "closed"]
      /\ UNCHANGED <<conn, link, toWorker, served, client, broken>>
  BY DEF SessionEnds, serverVars, history
<1>2. /\ StreamsTyped /\ UpInOrder(s) /\ Fits(s)
      /\ opened \in [Streams -> Openeds] /\ session \in [Streams -> Sessions]
      /\ toServer \in [Generations -> Seq(Frames)]
      /\ opened[s].sent \in Nat /\ served[s].received \in Nat
  BY StreamNumbers DEF SInv, StreamsTyped
<1>3. /\ session' \in [Streams -> Sessions]
      /\ session'[s].state = "closed" /\ session'[s].got = session[s].got
      /\ \A r \in Streams \ {s} : session'[r] = session[r]
  <2> DEFINE v == session[s]
             e == [v EXCEPT !.state = "closed"]
  <2>1. v \in Sessions /\ session' = [session EXCEPT ![s] = e]
    BY <1>1, <1>2
  <2> HIDE DEF v
  <2>2. e \in Sessions /\ e.state = "closed" /\ e.got = v.got
    BY <2>1 DEF Sessions
  <2> HIDE DEF e
  <2> QED
    BY <1>2, <2>1, <2>2 DEF v
<1>4. CASE opened[s].state = "ready"
  <2> DEFINE n == opened[s].sent + 1
             f == Frame("close", s, n)
             g == client.generation
  <2>1. /\ opened' = [opened EXCEPT ![s].state = "gone", ![s].sent = n]
        /\ Written(toServer, g, f, toServer')
    BY <1>4, Zenon DEF SessionEnds, ClientWrites, Written
  <2>2. opened[s].generation = g /\ g \in Generations /\ Gen(s) = g
    BY <1>2, <1>4, StreamNumbers DEF Fits, OpenedFits, On
  <2>3. n \in Counts /\ n = opened[s].sent + 1 /\ n \in Nat
    BY <1>2, <1>4 DEF Counts, RelayAssumption, Fits, OpenedFits
  <2>4. f \in Frames /\ f.type = "close" /\ f.stream = s /\ f.n = n
    BY <2>3 DEF Frames, Frame
  <2> HIDE DEF f, g, n
  <2>5. /\ opened' \in [Streams -> Openeds]
        /\ opened'[s].state = "gone" /\ opened'[s].generation = opened[s].generation
        /\ opened'[s].sent = n /\ opened'[s].received = opened[s].received
        /\ \A r \in Streams \ {s} : opened'[r] = opened[r]
    BY <1>2, <2>1, <2>3, OpenedEnds
  <2>6. Writes(g, f)
    BY <2>1, <2>2, <2>3, <2>4 DEF Writes, FitsUp
  <2>7. UpInOrder(s)'
    <3>1. Queued(toServer, g, f, toServer')
      BY <1>2, <2>1, <2>2, <2>4, QueueGrows
    <3>2. Harmless(toServer[g], toServer'[g], Up, s)
      BY <2>2, <2>4, <3>1 DEF Queued, Up
    <3> SUFFICES ASSUME served[s].state = "open", Answers(g)
                 PROVE  InOrder(toServer'[g], Up, s, served[s].received, n)
      BY <1>1, <2>2, <2>5 DEF UpInOrder, Answers, Gen
    <3>3. InOrder(toServer[g], Up, s, served[s].received, opened[s].sent)
      BY <1>2, <2>2 DEF UpInOrder
    <3>4. served[s].received \in Int /\ opened[s].sent \in Int /\ n \in Int /\ opened[s].sent <= n
      BY <1>2, <2>3
    <3>5. InOrder(toServer'[g], Up, s, served[s].received, opened[s].sent)
      BY <3>2, <3>3, <3>4, HarmlessKeeps
    <3> QED
      BY <3>4, <3>5, SentUnheard
  <2>8. OpenedFits(s)'
    BY <1>1, <1>2, <1>4, <2>5 DEF Fits, OpenedFits, Gen
  <2>9. SessionFits(s)'
    BY <1>2, <1>3, <1>4, <2>5 DEF Fits, SessionFits
  <2>10. ~Expecting(s)' /\ \E h, k : Writes(h, k) /\ k.stream = s
    BY <2>4, <2>5, <2>6 DEF Expecting
  <2> QED
    BY <1>1, <1>3, <1>4, <2>5, <2>7, <2>8, <2>9, <2>10, SessionStepKeeps
<1>5. CASE opened[s].state # "ready"
  <2>1. UNCHANGED <<opened, toServer>>
    BY <1>5 DEF SessionEnds
  <2>2. UpInOrder(s)'
    <3>1. \A h \in Generations : Answers(h)'
                  => Answers(h) /\ Harmless(toServer[h], toServer'[h], Up, s)
      BY <1>1, <2>1 DEF Answers, Harmless
    <3> QED
      BY <1>1, <1>2, <2>1, <3>1, UpStays DEF Gen
  <2>3. OpenedFits(s)'
    BY <1>1, <1>2, <2>1 DEF Fits, OpenedFits, Gen, On
  <2>4. SessionFits(s)'
    BY <1>2, <1>3, <1>5, <2>1 DEF Fits, SessionFits
  <2>5. opened' \in [Streams -> Openeds] /\ opened'[s] = opened[s]
        /\ \A r \in Streams \ {s} : opened'[r] = opened[r]
    BY <1>2, <2>1
  <2> QED
    BY <1>1, <1>3, <2>1, <2>2, <2>3, <2>4, <2>5, SessionStepKeeps
<1> QED
  BY <1>4, <1>5

-----------------------------------------------------------------------------
LEMMA ServedReceives ==
  ASSUME served \in [Streams -> Serveds], NEW s \in Streams, NEW n \in Counts,
         served' = [served EXCEPT ![s].received = n]
  PROVE  /\ served' \in [Streams -> Serveds]
         /\ served'[s].state = served[s].state /\ served'[s].received = n
         /\ served'[s].generation = served[s].generation /\ served'[s].sent = served[s].sent
         /\ \A r \in Streams \ {s} : served'[r] = served[r]
<1> DEFINE v == served[s]
           e == [v EXCEPT !.received = n]
<1>1. v \in Serveds
  OBVIOUS
<1>2. served' = [served EXCEPT ![s] = e]
  OBVIOUS
<1> HIDE DEF v
<1>3. /\ e \in Serveds /\ e.state = v.state /\ e.received = n /\ e.generation = v.generation
      /\ e.sent = v.sent
  BY <1>1 DEF Serveds
<1> HIDE DEF e
<1> QED
  BY <1>2, <1>3 DEF v

LEMMA ServedCloses ==
  ASSUME served \in [Streams -> Serveds], NEW s \in Streams,
         served' = [served EXCEPT ![s].state = "closed"]
  PROVE  /\ served' \in [Streams -> Serveds]
         /\ served'[s].state = "closed" /\ served'[s].received = served[s].received
         /\ served'[s].generation = served[s].generation /\ served'[s].sent = served[s].sent
         /\ \A r \in Streams \ {s} : served'[r] = served[r]
<1> DEFINE v == served[s]
           e == [v EXCEPT !.state = "closed"]
<1>1. v \in Serveds
  OBVIOUS
<1>2. served' = [served EXCEPT ![s] = e]
  OBVIOUS
<1> HIDE DEF v
<1>3. /\ e \in Serveds /\ e.state = "closed" /\ e.received = v.received
      /\ e.generation = v.generation /\ e.sent = v.sent
  BY <1>1 DEF Serveds
<1> HIDE DEF e
<1> QED
  BY <1>2, <1>3 DEF v

LEMMA ServerReceiptKeepsStreams ==
  ASSUME RelayAssumption, IInv, SInv, Bounded', NEW g \in Generations, ServerReceives(g)
  PROVE  SInv'
<1>0. PICK f : f = Head(toServer[g])
  OBVIOUS
<1>1. /\ UNCHANGED <<link, toWorker, opened, session, client>>
      /\ Taken(toServer, g, toServer')
      /\ Answers(g)
      /\ \/ conn' = Destroyed(conn, {g}) /\ UNCHANGED <<served, broken>>
         \/ ServerHandles(g, f)
  BY <1>0 DEF ServerReceives, workerVars, Taken, Answers
<1>2. /\ StreamsTyped /\ toServer \in [Generations -> Seq(Frames)] /\ broken = FALSE
      /\ served \in [Streams -> Serveds]
      /\ \A r \in Streams : DownInOrder(r) /\ UpInOrder(r) /\ Fits(r)
  BY DEF SInv, StreamsTyped
<1>3. Dequeued(toServer, g, f, toServer')
  BY <1>0, <1>1, <1>2, QueueShrinks
<1>4. FitsUp(g, f) /\ f.stream \in Streams /\ f.n \in Counts
  BY <1>3 DEF Dequeued, SInv, FramesFit, FitsUp
<1>s. PICK s \in Streams : s = f.stream
  BY <1>4
<1>5. /\ toServer' \in [Generations -> Seq(Frames)]
      /\ \A h \in Generations : \A k : Holds(toServer'[h], k) => Holds(toServer[h], k)
      /\ \A h \in Generations : h # g => toServer'[h] = toServer[h]
      /\ \A h \in Generations : \A r :
            ~(f.type \in Up /\ f.stream = r) => Harmless(toServer[h], toServer'[h], Up, r)
      /\ Shrinks(toServer[g], toServer'[g]) /\ f = toServer[g][1]
  BY <1>3 DEF Dequeued
<1>6. ASSUME served' \in [Streams -> Serveds], \A r \in Streams : Gen(r)' = Gen(r), broken' = FALSE
      PROVE  StreamsTyped' /\ FramesFit' /\ broken' = FALSE
  <2>1. \A h, k : FitsDown(h, k) => FitsDown(h, k)'
    BY <1>1, <1>6, DownFrameFitsOn
  <2>2. \A h, k : FitsUp(h, k) => FitsUp(h, k)'
    BY <1>1, UpFrameFitsOn
  <2>3. FramesFit'
    BY <1>1, <1>5, <2>1, <2>2, FramesStillFit DEF SInv
  <2> QED
    BY <1>1, <1>2, <1>5, <1>6, <2>3 DEF StreamsTyped
<1>7. CASE conn' = Destroyed(conn, {g}) /\ UNCHANGED <<served, broken>>
  <2>1. \A h \in Generations : (Answers(h)' => Answers(h)) /\ (Answers(h)' => h # g)
    <3>1. /\ conn' \in [Generations -> Connections]
          /\ \A h \in Generations : conn'[h].socket = IF h \in {g} /\ conn[h].socket = "open"
                                                       THEN "destroyed" ELSE conn[h].socket
      BY <1>7, DestroyedIsTyped DEF IInv, Typed
    <3> QED
      BY <1>1, <3>1 DEF Answers
  <2>2. ASSUME NEW r \in Streams
        PROVE  DownInOrder(r)' /\ UpInOrder(r)' /\ Fits(r)'
    <3>1. \A h \in Generations :
            /\ Answers(h)' => Answers(h)
            /\ Harmless(toWorker[h], toWorker'[h], Down, r)
            /\ Answers(h)' => Harmless(toServer[h], toServer'[h], Up, r)
      BY <1>1, <1>5, <2>1 DEF Harmless
    <3> QED
      BY <1>1, <1>7, <3>1, OthersStay
  <2> QED
    BY <1>2, <1>6, <1>7, <2>2 DEF SInv, Gen
<1>8. CASE ServerHandles(g, f)
  <2> DEFINE mine == served[s].state = "open" /\ served[s].generation = g
             next == f.n = served[s].received + 1
  <2>1. CASE ~mine /\ UNCHANGED <<conn, served, broken>>
    <3>1. ASSUME NEW r \in Streams
          PROVE  DownInOrder(r)' /\ UpInOrder(r)' /\ Fits(r)'
      <4>1. \A h \in Generations :
              /\ Answers(h)' => Answers(h)
              /\ Harmless(toWorker[h], toWorker'[h], Down, r)
        BY <1>1, <2>1 DEF Harmless, Answers
      <4>2. \A h \in Generations : Gen(r) = h /\ served'[r].state = "open" =>
              Harmless(toServer[h], toServer'[h], Up, r)
        BY <1>5, <1>s, <2>1 DEF Harmless, Gen
      <4> QED
        BY <1>1, <2>1, <4>1, <4>2, OthersStay
    <3> QED
      BY <1>2, <1>6, <2>1, <3>1 DEF SInv, Gen
  <2>2. CASE mine /\ f.type = "close" /\ served' = [served EXCEPT ![s].state = "closed"]
             /\ UNCHANGED <<conn, broken>>
    <3>1. /\ served' \in [Streams -> Serveds]
          /\ served'[s].state = "closed" /\ served'[s].received = served[s].received
          /\ served'[s].generation = served[s].generation /\ served'[s].sent = served[s].sent
          /\ \A r \in Streams \ {s} : served'[r] = served[r]
      BY <1>2, <1>4, <2>2, ServedCloses
    <3>2. ASSUME NEW r \in Streams
          PROVE  \A h \in Generations :
                   /\ Answers(h)' => Answers(h)
                   /\ Harmless(toWorker[h], toWorker'[h], Down, r)
                   /\ Harmless(toServer[h], toServer'[h], Up, r)
      BY <1>1, <1>5, <2>2 DEF Harmless, Answers, Up
    <3>3. ASSUME NEW r \in Streams \ {s}
          PROVE  DownInOrder(r)' /\ UpInOrder(r)' /\ Fits(r)'
      BY <1>1, <3>1, <3>2, <3>3, OthersStay
    <3>4. DownInOrder(s)'
      <4>1. \A h \in Generations : Gen(s) = h /\ Reaches(h)' /\ Expecting(s)' =>
              Reaches(h) /\ Harmless(toWorker[h], toWorker'[h], Down, s)
        BY <1>1, <1>4, <3>2 DEF Reaches, On
      <4> QED
        BY <1>1, <1>2, <1>4, <3>1, <4>1, DownStays DEF Gen, Expecting, Base
    <3>5. UpInOrder(s)'
      BY <3>1 DEF UpInOrder
    <3>6. Fits(s)'
      BY <1>1, <1>2, <1>4, <3>1 DEF Fits, ServedFits, OpenedFits, SessionFits, Gen, On
    <3>7. \A r \in Streams : Gen(r)' = Gen(r)
      BY <3>1 DEF Gen
    <3> QED
      BY <1>2, <1>6, <2>2, <3>1, <3>3, <3>4, <3>5, <3>6, <3>7 DEF SInv
  <2>3. CASE mine /\ f.type = "data"
             /\ served' = [served EXCEPT ![s].received = IF next THEN f.n ELSE @]
             /\ conn' = (IF next THEN conn ELSE Destroyed(conn, {g}))
             /\ broken' = (broken \/ ~next)
    <3>1. /\ Gen(s) = g /\ served[s].received \in Int /\ opened[s].sent \in Int
          /\ InOrder(toServer[g], Up, s, served[s].received, opened[s].sent)
          /\ opened[s].state = "ready" =>
               Complete(toServer[g], Up, s, served[s].received, opened[s].sent)
      BY <1>1, <1>2, <1>4, <2>3, StreamNumbers, SMTT(30) DEF UpInOrder, Gen
    <3>2. toServer[g][1].type \in Up /\ toServer[g][1].stream = s
      BY <1>5, <1>s, <2>3 DEF Up
    <3>3. /\ f.n = served[s].received + 1
          /\ InOrder(toServer'[g], Up, s, served[s].received + 1, opened[s].sent)
          /\ opened[s].state = "ready" =>
               Complete(toServer'[g], Up, s, served[s].received + 1, opened[s].sent)
      <4>1. Shrinks(toServer[g], toServer'[g]) /\ f = toServer[g][1]
        BY <1>5
      <4>2. /\ toServer[g][1].n = served[s].received + 1
            /\ InOrder(toServer'[g], Up, s, served[s].received + 1, opened[s].sent)
            /\ opened[s].state = "ready" =>
                 Complete(toServer'[g], Up, s, served[s].received + 1, opened[s].sent)
        <5> DEFINE q == toServer[g]
                   t == toServer'[g]
                   base == served[s].received
                   top == opened[s].sent
        <5>1. /\ Shrinks(q, t) /\ base \in Int /\ top \in Int /\ InOrder(q, Up, s, base, top)
              /\ q[1].type \in Up /\ q[1].stream = s
              /\ opened[s].state = "ready" => Complete(q, Up, s, base, top)
          BY <3>1, <3>2, <4>1
        <5> HIDE DEF q, t, base, top
        <5>2. /\ q[1].n = base + 1 /\ InOrder(t, Up, s, base + 1, top)
              /\ Complete(q, Up, s, base, top) => Complete(t, Up, s, base + 1, top)
          BY <5>1, NextTaken
        <5> QED
          BY <5>1, <5>2 DEF q, t, base, top
      <4> QED
        BY <4>1, <4>2
    <3>4. conn' = conn /\ broken' = FALSE /\ served' = [served EXCEPT ![s].received = f.n]
      BY <1>2, <2>3, <3>3
    <3>5. /\ served' \in [Streams -> Serveds]
          /\ served'[s].state = served[s].state /\ served'[s].received = f.n
          /\ served'[s].generation = served[s].generation /\ served'[s].sent = served[s].sent
          /\ \A r \in Streams \ {s} : served'[r] = served[r]
      BY <1>2, <1>4, <3>4, ServedReceives
    <3>a. served[s].state = "open" /\ Fits(s)
      BY <1>2, <2>3
    <3> HIDE DEF mine, next
    <3>6. ASSUME NEW r \in Streams
          PROVE  \A h \in Generations :
                   /\ Answers(h)' => Answers(h)
                   /\ Harmless(toWorker[h], toWorker'[h], Down, r)
                   /\ r # s => Harmless(toServer[h], toServer'[h], Up, r)
      BY <1>1, <1>5, <1>s, <3>4 DEF Harmless, Answers
    <3>7. ASSUME NEW r \in Streams \ {s}
          PROVE  DownInOrder(r)' /\ UpInOrder(r)' /\ Fits(r)'
      BY <1>1, <3>5, <3>6, <3>7, OthersStay
    <3>8. DownInOrder(s)'
      <4>1. \A h \in Generations : Gen(s) = h /\ Reaches(h)' /\ Expecting(s)' =>
              Reaches(h) /\ Harmless(toWorker[h], toWorker'[h], Down, s)
        BY <1>1, <1>4, <3>6 DEF Reaches, On
      <4> QED
        BY <1>1, <1>2, <1>4, <3>5, <4>1, DownStays DEF Gen, Expecting, Base
    <3>9. UpInOrder(s)'
      BY <1>1, <3>1, <3>3, <3>5 DEF UpInOrder, Gen
    <3>10. Fits(s)'
      BY <1>1, <3>5, <3>a DEF Fits, ServedFits, OpenedFits, SessionFits, Gen, On
    <3>11. \A r \in Streams : Gen(r)' = Gen(r)
      BY <3>5 DEF Gen
    <3> QED
      BY <1>2, <1>6, <3>4, <3>5, <3>7, <3>8, <3>9, <3>10, <3>11 DEF SInv
  <2> QED
    BY <1>8, <1>s, <2>1, <2>2, <2>3 DEF ServerHandles
<1> QED
  BY <1>1, <1>7, <1>8

-----------------------------------------------------------------------------
LEMMA OpenedOpens ==
  ASSUME opened \in [Streams -> Openeds], NEW s \in Streams, NEW g \in Generations,
         RelayAssumption,
         opened' = [opened EXCEPT ![s].state = "opening", ![s].generation = g]
  PROVE  /\ opened' \in [Streams -> Openeds]
         /\ opened'[s].state = "opening" /\ opened'[s].generation = g
         /\ opened'[s].sent = opened[s].sent /\ opened'[s].received = opened[s].received
         /\ \A r \in Streams \ {s} : opened'[r] = opened[r]
<1> DEFINE v == opened[s]
           e == [v EXCEPT !.state = "opening", !.generation = g]
<1>1. v \in Openeds /\ g \in 0..MaxGeneration
  BY DEF Generations, RelayAssumption
<1>2. opened' = [opened EXCEPT ![s] = e]
  OBVIOUS
<1> HIDE DEF v
<1>3. /\ e \in Openeds /\ e.state = "opening" /\ e.sent = v.sent /\ e.generation = g
      /\ e.received = v.received
  BY <1>1 DEF Openeds
<1> HIDE DEF e
<1> QED
  BY <1>2, <1>3 DEF v

LEMMA OpenedReceives ==
  ASSUME opened \in [Streams -> Openeds], NEW s \in Streams, NEW n \in Counts,
         opened' = [opened EXCEPT ![s].received = n]
  PROVE  /\ opened' \in [Streams -> Openeds]
         /\ opened'[s].state = opened[s].state /\ opened'[s].generation = opened[s].generation
         /\ opened'[s].sent = opened[s].sent /\ opened'[s].received = n
         /\ \A r \in Streams \ {s} : opened'[r] = opened[r]
<1> DEFINE v == opened[s]
           e == [v EXCEPT !.received = n]
<1>1. v \in Openeds
  OBVIOUS
<1>2. opened' = [opened EXCEPT ![s] = e]
  OBVIOUS
<1> HIDE DEF v
<1>3. /\ e \in Openeds /\ e.state = v.state /\ e.sent = v.sent /\ e.generation = v.generation
      /\ e.received = n
  BY <1>1 DEF Openeds
<1> HIDE DEF e
<1> QED
  BY <1>2, <1>3 DEF v

(* A session that has counted up to n - 1 is given n.                      *)
LEMMA NextGot ==
  ASSUME NEW max \in Nat, NEW got \in Seq(1..max), NEW n \in 1..max, n = Len(got) + 1,
         got = [i \in 1..Len(got) |-> i], NEW more, more = Append(got, n)
  PROVE  more \in Seq(1..max) /\ Len(more) = n /\ more = [i \in 1..Len(more) |-> i]
  OBVIOUS

(* The step that receives a frame, once it is known what becomes of the    *)
(* frame's stream.                                                         *)
LEMMA DeliveryKeeps ==
  ASSUME RelayAssumption, SInv, Bounded', NEW g \in Generations, NEW s \in Streams, NEW f,
         f.stream = s, Dequeued(toWorker, g, f, toWorker'),
         UNCHANGED <<conn, link, toServer, served, client, broken>>,
         opened' \in [Streams -> Openeds], session' \in [Streams -> Sessions],
         \A r \in Streams \ {s} : opened'[r] = opened[r] /\ session'[r] = session[r],
         FramesFit', DownInOrder(s)', OpenedFits(s)', SessionFits(s)',
         served[s].state = "new" => opened'[s].state = "new",
         opened'[s].sent = opened[s].sent,
         opened'[s].state = "ready" => opened[s].state = "ready"
  PROVE  SInv'
<1>1. StreamsTyped /\ UpInOrder(s) /\ Fits(s)
  BY DEF SInv
<1>2. StreamsTyped' /\ broken' = FALSE
  BY <1>1 DEF SInv, StreamsTyped, Dequeued
<1>3. ASSUME NEW r \in Streams \ {s}
      PROVE  DownInOrder(r)' /\ UpInOrder(r)' /\ Fits(r)'
  <2>1. \A h \in Generations :
          /\ Answers(h)' => Answers(h)
          /\ Harmless(toWorker[h], toWorker'[h], Down, r)
          /\ Harmless(toServer[h], toServer'[h], Up, r)
    <3>1. \A h \in Generations : Harmless(toWorker[h], toWorker'[h], Down, r)
      BY DEF Dequeued
    <3> QED
      BY <3>1 DEF Answers, Harmless
  <2> QED
    BY <2>1, OthersStay
<1>4. UpInOrder(s)'
  <2>1. \A h \in Generations : Gen(s) = h /\ served'[s].state = "open" /\ Answers(h)' =>
          Answers(h) /\ Harmless(toServer[h], toServer'[h], Up, s)
    BY DEF Answers, Harmless
  <2> QED
    BY <1>1, <2>1, UpStays DEF Gen
<1>5. ServedFits(s)'
  BY <1>1 DEF Fits, ServedFits, Gen
<1> QED
  BY <1>2, <1>3, <1>4, <1>5 DEF SInv, Fits

LEMMA ClientReceiptKeepsStreams ==
  ASSUME RelayAssumption, IInv, SInv, Bounded', ClientReceives
  PROVE  SInv'
<1>0. PICK g : g = client.generation
  OBVIOUS
<1>1. PICK f : f = Head(toWorker[g])
  OBVIOUS
<1>2. /\ UNCHANGED <<conn, link, toServer, served>>
      /\ Reaches(g) /\ g \in Generations
      /\ Taken(toWorker, g, toWorker')
      /\ IF f.type = "ack"
           THEN client' = [client EXCEPT !.at = "up"] /\ UNCHANGED <<opened, session, broken>>
           ELSE ClientHandles(f)
  BY <1>0, <1>1 DEF ClientReceives, serverVars, Taken, Reaches, SInv, StreamsTyped
<1>3. /\ StreamsTyped /\ toWorker \in [Generations -> Seq(Frames)] /\ broken = FALSE
      /\ opened \in [Streams -> Openeds] /\ session \in [Streams -> Sessions]
      /\ \A r \in Streams : DownInOrder(r) /\ UpInOrder(r) /\ Fits(r)
  BY DEF SInv, StreamsTyped
<1>4. Dequeued(toWorker, g, f, toWorker')
  BY <1>1, <1>2, <1>3, QueueShrinks
<1>5. FitsDown(g, f)
  BY <1>2, <1>4 DEF Dequeued, SInv, FramesFit
<1>6. /\ toWorker' \in [Generations -> Seq(Frames)]
      /\ \A h \in Generations : \A k : Holds(toWorker'[h], k) => Holds(toWorker[h], k)
      /\ \A h \in Generations : h # g => toWorker'[h] = toWorker[h]
      /\ Shrinks(toWorker[g], toWorker'[g]) /\ f = toWorker[g][1]
  BY <1>4 DEF Dequeued
(* Nothing is said of any stream.                                          *)
<1>7. ASSUME UNCHANGED <<opened, session, broken>>,
             client'.generation = client.generation, client'.at = "off" <=> client.at = "off",
             \A r \in Streams : \/ ~(f.type \in Down /\ f.stream = r)
                                \/ ~Expecting(r)
      PROVE  SInv'
  <2>1. FramesFit'
    <3>1. \A h, k : FitsDown(h, k) => FitsDown(h, k)'
      BY <1>2, <1>7, DownFrameFitsOn DEF Gen
    <3>2. \A h, k : FitsUp(h, k) => FitsUp(h, k)'
      BY <1>7, UpFrameFitsOn
    <3> QED
      BY <1>2, <1>6, <3>1, <3>2, FramesStillFit DEF SInv
  <2>2. ASSUME NEW r \in Streams
        PROVE  DownInOrder(r)' /\ UpInOrder(r)' /\ Fits(r)'
    <3>1. \A h \in Generations :
            /\ Answers(h)' => Answers(h)
            /\ Expecting(r)' => Harmless(toWorker[h], toWorker'[h], Down, r)
            /\ Harmless(toServer[h], toServer'[h], Up, r)
      <4>1. Expecting(r)' => ~(f.type \in Down /\ f.stream = r)
        BY <1>7 DEF Expecting
      <4>2. \A h \in Generations : Expecting(r)' => Harmless(toWorker[h], toWorker'[h], Down, r)
        BY <1>4, <4>1 DEF Dequeued
      <4> QED
        BY <1>2, <4>2 DEF Answers, Harmless
    <3> QED
      BY <1>2, <1>7, <3>1, OthersStay
  <2>3. StreamsTyped' /\ broken' = FALSE
    BY <1>2, <1>3, <1>6, <1>7 DEF StreamsTyped
  <2> QED
    BY <2>1, <2>2, <2>3 DEF SInv
<1>8. CASE f.type = "ack"
  <2>1. client' = [client EXCEPT !.at = "up"] /\ UNCHANGED <<opened, session, broken>>
    BY <1>2, <1>8
  <2>2. client'.generation = client.generation /\ client'.at = "up" /\ client.at # "off"
    BY <1>2, <2>1 DEF IInv, Typed, Clients, Reaches, On
  <2> QED
    BY <1>7, <1>8, <2>1, <2>2 DEF Down
<1>9. CASE f.type # "ack"
  <2>1. PICK s \in Streams : s = f.stream
    BY <1>5, <1>9 DEF FitsDown
  <2>2. /\ f.type \in Down /\ f.n \in Int /\ Gen(s) = g
        /\ (f.type = "open" <=> f.n = 0)
        /\ f.type = "open" => opened[s].state = "new"
        /\ f.type = "data" => f.n <= MaxData
        /\ ClientHandles(f)
    BY <1>2, <1>5, <1>9, <2>1 DEF FitsDown
  <2>g. g \in Generations /\ g # 0 /\ Reaches(g) /\ DownInOrder(s) /\ Fits(s)
    BY <1>2, <1>3 DEF Generations
  <2>3. /\ Base(s) \in Int /\ served[s].sent \in Int /\ opened[s].received \in Nat
        /\ Len(session[s].got) \in Nat /\ session[s].got \in Seq(1..MaxData)
    BY <1>3, StreamNumbers
  <2>4. ASSUME Expecting(s)
        PROVE  /\ f.n = Base(s) + 1 /\ f.n <= served[s].sent
               /\ InOrder(toWorker'[g], Down, s, Base(s) + 1, served[s].sent)
               /\ served[s].state = "open" =>
                    Complete(toWorker'[g], Down, s, Base(s) + 1, served[s].sent)
    <3> DEFINE q == toWorker[g]
               t == toWorker'[g]
               base == Base(s)
               top == served[s].sent
    <3>1. /\ Shrinks(q, t) /\ base \in Int /\ top \in Int /\ q[1] = f
          /\ InOrder(q, Down, s, base, top)
          /\ served[s].state = "open" => Complete(q, Down, s, base, top)
      <4>1. /\ InOrder(q, Down, s, base, top)
            /\ served[s].state = "open" => Complete(q, Down, s, base, top)
        BY <2>2, <2>4, <2>g DEF DownInOrder
      <4> QED
        BY <1>6, <2>3, <4>1
    <3>2. q[1].type \in Down /\ q[1].stream = s
      BY <2>1, <2>2, <3>1
    <3> HIDE DEF q, t, base, top
    <3>3. /\ q[1].n = base + 1 /\ base + 1 <= top /\ InOrder(t, Down, s, base + 1, top)
          /\ Complete(q, Down, s, base, top) => Complete(t, Down, s, base + 1, top)
      BY <3>1, <3>2, NextTaken
    <3> QED
      BY <3>1, <3>3 DEF q, t, base, top
  <2>5. CASE /\ f.type = "open"
             /\ opened' = [opened EXCEPT ![s].state = "opening", ![s].generation = g]
             /\ UNCHANGED <<session, client, broken>>
    <3>1. /\ opened' \in [Streams -> Openeds]
          /\ opened'[s].state = "opening" /\ opened'[s].generation = g
          /\ opened'[s].sent = opened[s].sent /\ opened'[s].received = opened[s].received
          /\ \A r \in Streams \ {s} : opened'[r] = opened[r]
      BY <1>2, <1>3, <2>5, OpenedOpens
    <3>2. /\ opened[s].state = "new" /\ Expecting(s) /\ Base(s) = -1 /\ opened[s].generation = 0
          /\ opened[s].received = 0 /\ opened[s].sent = 0 /\ g # 0 /\ Fits(s)
          /\ served[s].state # "new" /\ session[s].state # "open"
      BY <2>2, <2>5, <2>g DEF Expecting, Base, Fits, OpenedFits, ServedFits, SessionFits
    <3>3. /\ InOrder(toWorker'[g], Down, s, 0, served[s].sent)
          /\ served[s].state = "open" => Complete(toWorker'[g], Down, s, 0, served[s].sent)
      BY <2>4, <3>2
    <3>4. FramesFit'
      <4>1. ASSUME NEW h \in Generations, NEW k, Holds(toWorker'[h], k)
            PROVE  FitsDown(h, k)'
        <5>1. FitsDown(h, k)
          BY <1>6, <4>1 DEF SInv, FramesFit
        <5>2. CASE k.type = "ack"
          BY <5>2 DEF FitsDown
        <5>3. CASE k.type # "ack" /\ k.stream # s
          BY <1>2, <3>1, <5>1, <5>3, DownFrameFitsOn DEF Gen
        <5>4. CASE k.type # "ack" /\ k.stream = s
          <6>1. h = g
            BY <2>2, <5>1, <5>4 DEF FitsDown
          <6>2. PICK i \in 1..Len(toWorker'[g]) : toWorker'[g][i] = k
            BY <4>1, <6>1 DEF Holds
          <6>3. i \in Numbered(toWorker'[g], Down, s)
            BY <5>1, <5>4, <6>2 DEF Numbered, FitsDown
          <6>4. 0 < k.n
            BY <3>3, <6>2, <6>3 DEF InOrder
          <6>5. k.type # "open"
            BY <5>1, <5>4, <6>4 DEF FitsDown
          <6> QED
            BY <1>2, <5>1, <5>4, <6>5 DEF FitsDown, Gen
        <5> QED
          BY <5>2, <5>3, <5>4
      <4>2. ASSUME NEW h \in Generations, NEW k, Holds(toServer'[h], k)
            PROVE  FitsUp(h, k)'
        <5>1. FitsUp(h, k)
          BY <1>2, <4>2 DEF SInv, FramesFit
        <5>2. CASE k.stream = s
          BY <3>2, <5>1, <5>2 DEF FitsUp, Generations
        <5>3. CASE k.stream # s
          BY <3>1, <5>1, <5>3, UpFrameFitsOn
        <5> QED
          BY <5>2, <5>3
      <4> QED
        BY <4>1, <4>2 DEF FramesFit
    <3>5. DownInOrder(s)'
      BY <1>2, <2>2, <3>1, <3>2, <3>3 DEF DownInOrder, Gen, Base
    <3>6. OpenedFits(s)'
      BY <1>2, <2>2, <2>5, <3>1, <3>2 DEF Fits, OpenedFits, Gen, On, Reaches
    <3>7. SessionFits(s)'
      BY <2>5, <3>1, <3>2 DEF Fits, SessionFits
    <3>8. session' \in [Streams -> Sessions] /\ \A r \in Streams \ {s} : session'[r] = session[r]
      BY <1>3, <2>5
    <3> QED
      BY <1>2, <1>4, <2>1, <2>5, <3>1, <3>2, <3>4, <3>5, <3>6, <3>7, <3>8, DeliveryKeeps
  <2>6. CASE /\ f.type # "open" /\ opened[s].state \notin {"opening", "ready"}
             /\ UNCHANGED <<opened, session, client, broken>>
    <3>1. ~Expecting(s)
      <4>1. SUFFICES ASSUME opened[s].state = "new", Expecting(s)
                     PROVE  FALSE
        BY <2>6 DEF Expecting
      <4>2. f.n = 0
        BY <2>4, <4>1 DEF Base
      <4> QED
        BY <2>2, <2>6, <4>2
    <3> QED
      BY <1>7, <2>1, <2>6, <3>1
  <2> DEFINE known == opened[s].state \in {"opening", "ready"}
  <2>7. ASSUME known
        PROVE  /\ Expecting(s) /\ Base(s) = opened[s].received /\ f.n = opened[s].received + 1
               /\ f.n <= served[s].sent /\ Fits(s) /\ On(opened[s].generation)
               /\ InOrder(toWorker'[g], Down, s, f.n, served[s].sent)
               /\ served[s].state = "open" => Complete(toWorker'[g], Down, s, f.n, served[s].sent)
    <3>1. Expecting(s) /\ Base(s) = opened[s].received /\ Fits(s) /\ On(opened[s].generation)
      BY <1>3, <2>7 DEF Expecting, Base, Fits, OpenedFits
    <3> QED
      BY <2>4, <3>1
  <2>8. ASSUME opened[s].state # "new", opened'[s].state # "new",
               opened'[s].generation = opened[s].generation,
               \A r \in Streams \ {s} : opened'[r] = opened[r]
        PROVE  FramesFit'
    <3>1. \A h, k : FitsDown(h, k) => FitsDown(h, k)'
      BY <1>2, <2>8, DownFrameFitsOn DEF Gen
    <3>2. \A h, k : FitsUp(h, k) => FitsUp(h, k)'
      BY <2>8, UpFrameFitsOn
    <3> QED
      BY <1>2, <1>6, <3>1, <3>2, FramesStillFit DEF SInv
  <2>9. CASE /\ f.type = "data" /\ known
             /\ opened' = [opened EXCEPT ![s].received = f.n]
             /\ session' = [session EXCEPT ![s].got =
                              IF opened[s].state = "ready" THEN Append(session[s].got, f.n)
                                                           ELSE session[s].got]
             /\ UNCHANGED <<client, broken>>
    <3>1. f.n \in Counts /\ f.n \in 1..MaxData
      BY <2>2, <2>3, <2>7, <2>9 DEF Counts, RelayAssumption
    <3>2. /\ opened' \in [Streams -> Openeds]
          /\ opened'[s].state = opened[s].state /\ opened'[s].generation = opened[s].generation
          /\ opened'[s].sent = opened[s].sent /\ opened'[s].received = f.n
          /\ \A r \in Streams \ {s} : opened'[r] = opened[r]
      BY <1>3, <2>9, <3>1, OpenedReceives
    <3> DEFINE got == session[s].got
               more == IF opened[s].state = "ready" THEN Append(got, f.n) ELSE got
    <3>3. /\ more \in Seq(1..MaxData) /\ more = [i \in 1..Len(more) |-> i]
          /\ Len(more) <= f.n /\ (opened[s].state = "ready" => Len(more) = f.n)
      <4>1. /\ got \in Seq(1..MaxData) /\ got = [i \in 1..Len(got) |-> i]
            /\ Len(got) <= opened[s].received
            /\ opened[s].state = "ready" => Len(got) = opened[s].received
        BY <2>3, <2>7, <2>9 DEF Fits, SessionFits
      <4>2. CASE opened[s].state = "ready"
        <5>1. f.n = Len(got) + 1 /\ f.n \in 1..MaxData /\ MaxData \in Nat
          BY <2>7, <2>9, <3>1, <4>1, <4>2 DEF RelayAssumption
        <5>2. more = Append(got, f.n)
          BY <4>2
        <5> HIDE DEF got, more
        <5>3. more \in Seq(1..MaxData) /\ Len(more) = f.n /\ more = [i \in 1..Len(more) |-> i]
          BY <4>1, <5>1, <5>2, NextGot
        <5> QED
          BY <5>1, <5>3
      <4>3. CASE opened[s].state # "ready"
        <5>1. more = got
          BY <4>3
        <5> HIDE DEF got, more
        <5>2. Len(got) \in Nat /\ opened[s].received + 1 = f.n
          BY <2>3, <2>7, <2>9, <4>1
        <5> QED
          BY <2>3, <4>1, <4>3, <5>1, <5>2
      <4> QED
        BY <4>2, <4>3
    <3>4. /\ session' \in [Streams -> Sessions]
          /\ session'[s].state = session[s].state /\ session'[s].got = more
          /\ \A r \in Streams \ {s} : session'[r] = session[r]
      <4> DEFINE v == session[s]
                 e == [v EXCEPT !.got = more]
      <4>1. v \in Sessions
        BY <1>3
      <4>2. session' = [session EXCEPT ![s] = e]
        BY <2>9
      <4> HIDE DEF v, more
      <4>3. e \in Sessions /\ e.state = v.state /\ e.got = more
        BY <3>3, <4>1 DEF Sessions
      <4> HIDE DEF e
      <4> QED
        BY <1>3, <4>2, <4>3 DEF v
    <3>5. FramesFit'
      BY <2>8, <2>9, <3>2
    <3>6. DownInOrder(s)'
      BY <1>2, <2>2, <2>7, <2>9, <3>2 DEF DownInOrder, Gen, Base
    <3>7. OpenedFits(s)'
      BY <1>2, <2>7, <2>9, <3>1, <3>2 DEF Fits, OpenedFits, Gen, On, RelayAssumption
    <3> HIDE DEF got, more
    <3>8. SessionFits(s)'
      BY <2>7, <2>9, <3>2, <3>3, <3>4 DEF Fits, SessionFits
    <3>9. served[s].state # "new"
      BY <1>3, <2>9 DEF Fits, ServedFits
    <3> QED
      BY <1>2, <1>4, <2>1, <2>9, <3>2, <3>4, <3>5, <3>6, <3>7, <3>8, <3>9, DeliveryKeeps
  <2>10. CASE /\ f.type = "close" /\ known
              /\ opened' = [opened EXCEPT ![s].state = IF opened[s].state = "opening"
                                                          THEN "dropped" ELSE "gone"]
              /\ session' = [session EXCEPT ![s].state = IF session[s].state = "open"
                                                            THEN "closed" ELSE session[s].state]
              /\ UNCHANGED <<client, broken>>
    <3> DEFINE left == IF opened[s].state = "opening" THEN "dropped" ELSE "gone"
               end == IF session[s].state = "open" THEN "closed" ELSE session[s].state
    <3>1. /\ left \in {"new", "opening", "dropped", "ready", "gone"}
          /\ left \in {"dropped", "gone"} /\ (left = "dropped" => opened[s].state = "opening")
      OBVIOUS
    <3>2. /\ end \in {"none", "open", "orphan", "closed"} /\ end # "open"
      BY <1>3 DEF Sessions
    <3>a. opened' = [opened EXCEPT ![s].state = left] /\ session' = [session EXCEPT ![s].state = end]
      BY <2>10, Zenon
    <3> HIDE DEF left, end
    <3>3. /\ opened' \in [Streams -> Openeds]
          /\ opened'[s].state = left /\ opened'[s].generation = opened[s].generation
          /\ opened'[s].sent = opened[s].sent /\ opened'[s].received = opened[s].received
          /\ \A r \in Streams \ {s} : opened'[r] = opened[r]
      BY <1>3, <3>1, <3>a, OpenedChanges
    <3>4. /\ session' \in [Streams -> Sessions]
          /\ session'[s].state = end /\ session'[s].got = session[s].got
          /\ \A r \in Streams \ {s} : session'[r] = session[r]
      <4> DEFINE v == session[s]
                 e == [v EXCEPT !.state = end]
      <4>1. v \in Sessions /\ session' = [session EXCEPT ![s] = e]
        BY <1>3, <3>a
      <4> HIDE DEF v
      <4>2. e \in Sessions /\ e.state = end /\ e.got = v.got
        BY <3>2, <4>1 DEF Sessions
      <4> HIDE DEF e
      <4> QED
        BY <1>3, <4>1, <4>2 DEF v
    <3>5. FramesFit'
      BY <2>8, <2>10, <3>1, <3>3
    <3>6. DownInOrder(s)'
      BY <3>1, <3>3 DEF DownInOrder, Expecting
    <3>7. OpenedFits(s)'
      BY <1>2, <1>3, <2>10, <3>1, <3>3 DEF Fits, OpenedFits, Gen
    <3>10. opened'[s].state # "ready" /\ session'[s].state # "open"
      BY <3>1, <3>2, <3>3, <3>4
    <3>8. SessionFits(s)'
      <4>1. /\ session[s].got = [n \in 1..Len(session[s].got) |-> n]
            /\ Len(session[s].got) <= opened[s].received
        BY <1>3 DEF Fits, SessionFits
      <4>2. session'[s].got = session[s].got /\ opened'[s].received = opened[s].received
        BY <3>3, <3>4
      <4> QED BY <3>10, <4>1, <4>2, Zenon DEF SessionFits
    <3>9. served[s].state # "new"
      BY <1>3, <2>10 DEF Fits, ServedFits
    <3> QED
      BY <1>2, <1>4, <2>1, <2>10, <3>3, <3>4, <3>5, <3>6, <3>7, <3>8, <3>9, <3>10, DeliveryKeeps
  <2>11. ASSUME f.type = "data", known,
                opened' = [opened EXCEPT ![s].received =
                             IF f.n = opened[s].received + 1 THEN f.n ELSE @],
                session' = [session EXCEPT ![s].got =
                              IF f.n = opened[s].received + 1 /\ opened[s].state = "ready"
                                THEN Append(@, f.n) ELSE @],
                broken' = (broken \/ ~(f.n = opened[s].received + 1)), UNCHANGED client
         PROVE  SInv'
    <3>1. f.n = opened[s].received + 1
      BY <2>7, <2>11
    <3>2. opened' = [opened EXCEPT ![s].received = f.n] /\ broken' = broken
      BY <1>3, <2>11, <3>1
    <3>3. session' = [session EXCEPT ![s].got =
                              IF opened[s].state = "ready" THEN Append(session[s].got, f.n)
                                                           ELSE session[s].got]
      BY <2>11, <3>1, Zenon
    <3> QED
      BY <2>9, <2>11, <3>2, <3>3
  <2> QED
    BY <1>0, <2>1, <2>2, <2>5, <2>6, <2>10, <2>11 DEF ClientHandles
<1> QED
  BY <1>8, <1>9

-----------------------------------------------------------------------------
LEMMA SInvIsKept ==
  ASSUME RelayAssumption, IInv, SInv, [Next]_vars
  PROVE  SInv'
<1>1. Bounded'
  BY BoundsAreKept
<1>2. CASE Connect
  BY <1>1, <1>2, ConnectKeepsStreams
<1>3. CASE ClientReceives
  BY <1>1, <1>3, ClientReceiptKeepsStreams
<1>4. CASE ClientCloses
  BY <1>1, <1>4, ClientCloseKeepsStreams
<1>5. CASE HelloFails \/ WorkerCrashes
  BY <1>1, <1>5, ProcessEndKeepsStreams DEF HelloFails, WorkerCrashes
<1>6. ASSUME NEW g \in Generations,
             Handshake(g) \/ SocketCloses(g) \/ ServerReceives(g) \/ Heartbeat(g)
      PROVE  SInv'
  BY <1>1, <1>6, HandshakeIsQuiet, CloseIsQuiet, ServerReceiptKeepsStreams
<1>7. ASSUME NEW s \in Streams, OpenStream(s)
      PROVE  SInv'
  BY <1>1, <1>7, OpenKeepsStreams
<1>8. ASSUME NEW s \in Streams, ServerSends(s, "data") \/ ServerSends(s, "close")
      PROVE  SInv'
  BY <1>1, <1>8, SendKeepsStreams
<1>9. ASSUME NEW s \in Streams,
             HandlerOpens(s) \/ HandlerRefuses(s) \/ ClientSends(s) \/ SessionEnds(s)
      PROVE  SInv'
  BY <1>1, <1>9, HandlerOpenKeepsStreams, HandlerRefusalKeepsStreams, ReplyKeepsStreams,
     SessionEndKeepsStreams
<1>10. ASSUME NEW revoking \in BOOLEAN, Disconnect(revoking)
       PROVE  SInv'
  BY <1>1, <1>10, DisconnectKeepsStreams
<1>11. CASE LinkBreaks
  BY <1>1, <1>11, BreakIsQuiet
<1>12. CASE LeaseExpires \/ UNCHANGED vars
  BY <1>1, <1>12, StutterIsQuiet
<1> QED
  BY <1>2, <1>3, <1>4, <1>5, <1>6, <1>7, <1>8, <1>9, <1>10, <1>11, <1>12 DEF Next

LEMMA SInvStarts ==
  ASSUME RelayAssumption, Init
  PROVE  SInv
<1>1. /\ link = {} /\ broken = FALSE /\ faults = 0
      /\ toServer = [g \in Generations |-> <<>>] /\ toWorker = [g \in Generations |-> <<>>]
      /\ served = [s \in Streams |-> [state |-> "new", generation |-> 0, sent |-> 0, received |-> 0]]
      /\ opened = [s \in Streams |-> [state |-> "new", generation |-> 0, sent |-> 0, received |-> 0]]
      /\ session = [s \in Streams |-> [state |-> "none", got |-> <<>>]]
  BY DEF Init
<1>2. lease.generation = 0 /\ client.generation = 0
  BY DEF Init, NoLease
<1>3. /\ [state |-> "new", generation |-> 0, sent |-> 0, received |-> 0] \in Serveds
      /\ [state |-> "new", generation |-> 0, sent |-> 0, received |-> 0] \in Openeds
      /\ [state |-> "none", got |-> <<>>] \in Sessions
  BY DEF Serveds, Openeds, Sessions, Counts, RelayAssumption
<1>4. <<>> \in Seq(Frames)
  OBVIOUS
<1>5. StreamsTyped /\ Bounded
  <2>1. /\ toServer \in [Generations -> Seq(Frames)] /\ toWorker \in [Generations -> Seq(Frames)]
    BY <1>1, <1>4
  <2>2. served \in [Streams -> Serveds] /\ opened \in [Streams -> Openeds]
        /\ session \in [Streams -> Sessions]
    BY <1>1, <1>3
  <2> QED
    BY <1>1, <1>2, <2>1, <2>2 DEF StreamsTyped, Bounded, RelayAssumption
<1>6. FramesFit
  BY <1>1, EmptyHoldsNone DEF FramesFit
<1>7. ASSUME NEW s \in Streams
      PROVE  DownInOrder(s) /\ UpInOrder(s) /\ Fits(s)
  <2>1. /\ served[s].state = "new" /\ served[s].generation = 0
        /\ served[s].sent = 0 /\ served[s].received = 0
        /\ opened[s].state = "new" /\ opened[s].generation = 0
        /\ opened[s].sent = 0 /\ opened[s].received = 0
        /\ session[s].state = "none" /\ session[s].got = <<>>
    BY <1>1
  <2>2. DownInOrder(s) /\ UpInOrder(s)
    BY <2>1 DEF DownInOrder, UpInOrder, Gen
  <2>3. <<>> = [n \in 1..Len(<<>>) |-> n] /\ Len(<<>>) = 0
    OBVIOUS
  <2>4. ServedFits(s) /\ OpenedFits(s)
    BY <1>2, <2>1 DEF ServedFits, OpenedFits, Gen, RelayAssumption
  <2>5. SessionFits(s)
    BY <2>1, <2>3 DEF SessionFits
  <2> QED
    BY <2>2, <2>4, <2>5 DEF Fits
<1> QED
  BY <1>1, <1>5, <1>6, <1>7 DEF SInv

LEMMA SInvHolds == ASSUME RelayAssumption PROVE Spec => []SInv
<1>1. Init => SInv
  BY SInvStarts
<1>2. IInv /\ SInv /\ [Next]_vars => SInv'
  BY SInvIsKept
<1> QED
  BY <1>1, <1>2, IInvHolds, PTL DEF Spec

(* A session gets what was written to its stream, in order and without a   *)
(* gap, and the check of the sequence numbers never fires: for any number  *)
(* of streams multiplexed over any number of connections, however long     *)
(* their handlers take and wherever a connection, a process or the network *)
(* fails.                                                                  *)
THEOREM StreamsAreInOrder == Spec => []StreamsInOrder
<1>1. SInv => StreamsInOrder
  <2> SUFFICES ASSUME SInv
               PROVE  StreamsInOrder
    OBVIOUS
  <2>1. ASSUME NEW s \in Streams
        PROVE  /\ session[s].got = [n \in 1..Len(session[s].got) |-> n]
               /\ Len(session[s].got) <= served[s].sent
               /\ session[s].state = "open" => Len(session[s].got) = opened[s].received
    <3>1. Fits(s) /\ StreamsTyped
      BY DEF SInv
    <3>2. opened[s].received \in Nat /\ served[s].sent \in Nat /\ Len(session[s].got) \in Nat
      BY <3>1, RelayAssumption, StreamNumbers
    <3> QED
      BY <3>1, <3>2 DEF Fits, OpenedFits, SessionFits
  <2> QED
    BY <2>1 DEF SInv, StreamsInOrder
<1> QED
  BY <1>1, SInvHolds, RelayAssumption, PTL

(* Connections, queues and streams keep their types.                       *)
THEOREM RelayIsTyped == Spec => []TypeOK
<1>1. IInv /\ SInv => TypeOK
  <2> SUFFICES ASSUME IInv, SInv
               PROVE  TypeOK
    OBVIOUS
  <2>1. lease \in [generation : 0..MaxGeneration, fresh : BOOLEAN, revoked : BOOLEAN]
    BY DEF IInv, Typed, Leases, SInv, Bounded
  <2>2. client \in [at : {"off", "connecting", "up"}, generation : 0..MaxGeneration]
    BY DEF IInv, Typed, Clients, SInv, Bounded
  <2>3. /\ conn \in [Generations -> Connections] /\ active \in 0..MaxGeneration
        /\ torn \in BOOLEAN /\ broken \in BOOLEAN /\ faults \in 0..MaxFaults /\ StreamsTyped
    BY DEF IInv, Typed, SInv, Bounded
  <2> QED
    BY <2>1, <2>2, <2>3, Zenon DEF TypeOK, Connections, Sockets, Steps, StreamsTyped, Serveds,
       Openeds, Sessions
<1> QED
  BY <1>1, IInvHolds, SInvHolds, RelayAssumption, PTL
-----------------------------------------------------------------------------
(* Each stream is an ordered stream.  What its session reads next has just *)
(* been received, so both before and after the step it is what the sequence*)
(* numbers and the queue of its connection allow (SInv); the rest is who   *)
(* may end a stream, and that a frame opens it only when it is new.        *)
ReaderOf(state) ==
    CASE state = "ready" -> "reading" [] state = "gone" -> "over" [] OTHER -> "waiting"

LEMMA ReaderIs ==
  /\ \A s : Reader(s) = ReaderOf(opened[s].state) /\ Reader(s)' = ReaderOf(opened'[s].state)
  /\ ReaderOf("ready") = "reading" /\ ReaderOf("gone") = "over"
  /\ \A t \in {"new", "opening", "dropped"} : ReaderOf(t) = "waiting"
  BY DEF Reader, ReaderOf

(* What the server does to a stream.                                       *)
LEMMA PipeOfServer ==
  ASSUME NEW s, opened'[s].state = opened[s].state, session'[s].got = session[s].got,
         \/ served'[s].state = served[s].state /\ served'[s].sent = served[s].sent
         \/ /\ served[s].state = "new" /\ served'[s].state \in {"open", "closed"}
            /\ served'[s].sent = served[s].sent
         \/ /\ served[s].state = "open" /\ served'[s].state \in {"open", "closed"}
            /\ served'[s].sent = served[s].sent + 1
         \/ /\ served[s].state = "open" /\ served'[s].state = "closed"
            /\ served'[s].sent = served[s].sent
  PROVE  PipeStep(s)
<1>1. Reader(s)' = Reader(s)
  BY ReaderIs
<1> QED
  BY <1>1 DEF PipeStep, Pipe!Next, Pipe!Open, Pipe!Write, Pipe!Close

(* What the Worker does to it.                                             *)
LEMMA PipeOfWorker ==
  ASSUME NEW s, served'[s] = served[s], NEW t, t = opened'[s].state,
         \/ /\ session'[s].got = session[s].got
            /\ \/ ReaderOf(t) = Reader(s)
               \/ Reader(s) = "reading" /\ t = "gone"
               \/ Reader(s) = "waiting" /\ t = "gone" /\ served[s].state # "new"
         \/ /\ Reader(s) = "waiting" /\ t \in {"ready", "gone"} /\ served[s].state # "new"
            /\ \E n \in 0..served[s].sent : session'[s].got = [i \in 1..n |-> i]
         \/ /\ Reader(s) = "reading" /\ t = "ready" /\ Len(session[s].got) < served[s].sent
            /\ session'[s].got = Append(session[s].got, Len(session[s].got) + 1)
  PROVE  PipeStep(s)
<1>1. Reader(s)' = ReaderOf(t) /\ ReaderOf("ready") = "reading" /\ ReaderOf("gone") = "over"
  BY ReaderIs
<1>2. CASE /\ session'[s].got = session[s].got
           /\ \/ ReaderOf(t) = Reader(s)
              \/ Reader(s) = "reading" /\ t = "gone"
              \/ Reader(s) = "waiting" /\ t = "gone" /\ served[s].state # "new"
  BY <1>1, <1>2 DEF PipeStep, Pipe!Next, Pipe!End, Pipe!Miss
<1>3. CASE /\ Reader(s) = "waiting" /\ t \in {"ready", "gone"} /\ served[s].state # "new"
           /\ \E n \in 0..served[s].sent : session'[s].got = [i \in 1..n |-> i]
  BY <1>1, <1>3 DEF PipeStep, Pipe!Next, Pipe!Begin, Pipe!Miss, Pipe!FirstOnes
<1>4. CASE /\ Reader(s) = "reading" /\ t = "ready" /\ Len(session[s].got) < served[s].sent
           /\ session'[s].got = Append(session[s].got, Len(session[s].got) + 1)
  BY <1>1, <1>4 DEF PipeStep, Pipe!Next, Pipe!Read
<1> QED
  BY <1>2, <1>3, <1>4

LEMMA PipeFacts ==
  ASSUME SInv, NEW s \in Streams
  PROVE  /\ served[s] \in Serveds /\ opened[s] \in Openeds /\ session[s] \in Sessions
         /\ served \in [Streams -> Serveds] /\ opened \in [Streams -> Openeds]
         /\ session \in [Streams -> Sessions] /\ Fits(s)
         /\ served[s].sent \in Nat /\ opened[s].received \in Nat /\ Len(session[s].got) \in Nat
         /\ opened[s].state # "new" => served[s].state # "new"
         /\ opened[s].received <= served[s].sent
         /\ opened[s].state \in {"opening", "dropped"} => Reader(s) = "waiting"
         /\ opened[s].state = "ready" => Reader(s) = "reading"
         /\ Reader(s) = ReaderOf(opened[s].state)
<1>1. StreamsTyped /\ Fits(s)
  BY DEF SInv
<1> QED
  BY <1>1, RelayAssumption, StreamNumbers, ReaderIs
     DEF StreamsTyped, Fits, ServedFits, OpenedFits

LEMMA ReceiptIsPiped ==
  ASSUME SInv, NEW r \in Streams, NEW g \in Generations, ServerReceives(g)
  PROVE  PipeStep(r)
<1> DEFINE f == Head(toServer[g])
           s == f.stream
           n == IF f.n = served[s].received + 1 THEN f.n ELSE served[s].received
<1>1. /\ UNCHANGED <<opened, session>> /\ Taken(toServer, g, toServer')
      /\ \/ UNCHANGED served
         \/ served[s].state = "open" /\ served' = [served EXCEPT ![s].state = "closed"]
         \/ served[s].state = "open" /\ served' = [served EXCEPT ![s].received = n]
  BY DEF ServerReceives, ServerHandles, workerVars, Taken
<1>2. toServer \in [Generations -> Seq(Frames)] /\ served \in [Streams -> Serveds]
  BY DEF SInv, StreamsTyped
<1>3. s \in Streams /\ f.n \in Counts
  BY <1>1, <1>2, QueueShrinks DEF Dequeued, SInv, FramesFit, FitsUp
<1>4. n \in Counts
  BY <1>2, <1>3 DEF Serveds
<1> HIDE DEF n, s, f
<1>5. /\ served'[r].sent = served[r].sent
      /\ \/ served'[r].state = served[r].state
         \/ served[r].state = "open" /\ served'[r].state = "closed"
  <2>1. CASE UNCHANGED served
    BY <2>1
  <2>2. CASE served[s].state = "open" /\ served' = [served EXCEPT ![s].state = "closed"]
    BY <1>2, <1>3, <2>2, ServedCloses
  <2>3. CASE served' = [served EXCEPT ![s].received = n]
    BY <1>2, <1>3, <1>4, <2>3, ServedReceives
  <2> QED
    BY <1>1, <2>1, <2>2, <2>3
<1> QED
  BY <1>1, <1>5, PipeOfServer

(* The steps of the server.                                                *)
LEMMA ServerStepIsPiped ==
  ASSUME SInv, NEW r \in Streams,
         \/ \E s \in Streams : OpenStream(s) \/ ServerSends(s, "data") \/ ServerSends(s, "close")
         \/ \E g \in Generations : ServerReceives(g)
         \/ \E revoking \in BOOLEAN : Disconnect(revoking)
  PROVE  PipeStep(r)
<1>1. served \in [Streams -> Serveds] /\ served[r] \in Serveds
  BY PipeFacts
<1>2. ASSUME NEW s \in Streams, OpenStream(s)
      PROVE  PipeStep(r)
  <2>1. /\ served[s].state = "new" /\ UNCHANGED <<opened, session>>
        /\ \A q \in Streams \ {s} : served'[q] = served[q]
        /\ served'[s].state \in {"open", "closed"} /\ served'[s].sent = served[s].sent
    BY <1>1, <1>2 DEF OpenStream, Serveds, workerVars
  <2> QED
    BY <2>1, PipeOfServer
<1>3. ASSUME NEW s \in Streams, NEW type, ServerSends(s, type)
      PROVE  PipeStep(r)
  <2>1. /\ served[s].state = "open" /\ UNCHANGED <<opened, session>>
        /\ \A q \in Streams \ {s} : served'[q] = served[q]
        /\ served'[s].state \in {"open", "closed"} /\ served'[s].sent = served[s].sent + 1
    BY <1>1, <1>3 DEF ServerSends, Serveds, workerVars
  <2> QED
    BY <2>1, PipeOfServer
<1>4. ASSUME NEW g \in Generations, ServerReceives(g)
      PROVE  PipeStep(r)
  BY <1>4, ReceiptIsPiped
<1>5. ASSUME NEW revoking \in BOOLEAN, Disconnect(revoking)
      PROVE  PipeStep(r)
  <2>1. UNCHANGED <<opened, session>>
    BY <1>5 DEF Disconnect, workerVars
  <2>2. /\ served'[r].sent = served[r].sent
        /\ \/ served'[r].state = served[r].state
           \/ served[r].state = "open" /\ served'[r].state = "closed"
    BY <1>1, <1>5 DEF Disconnect, Serveds
  <2> QED
    BY <2>1, <2>2, PipeOfServer
<1> QED
  BY <1>2, <1>3, <1>4, <1>5

LEMMA GotStays ==
  ASSUME session \in [Streams -> Sessions], NEW s \in Streams, NEW state,
         session' = [session EXCEPT ![s].state = state], NEW r \in Streams
  PROVE  session'[r].got = session[r].got
<1> DEFINE v == session[s]
           e == [v EXCEPT !.state = state]
<1>1. v \in Sessions /\ session' = [session EXCEPT ![s] = e]
  OBVIOUS
<1> HIDE DEF v
<1>2. e.got = v.got
  BY <1>1 DEF Sessions
<1> HIDE DEF e
<1> QED
  BY <1>1, <1>2 DEF v

LEMMA GotGrows ==
  ASSUME session \in [Streams -> Sessions], NEW s \in Streams, NEW got,
         session' = [session EXCEPT ![s].got = got]
  PROVE  session'[s].got = got /\ \A r \in Streams \ {s} : session'[r] = session[r]
<1> DEFINE v == session[s]
           e == [v EXCEPT !.got = got]
<1>1. v \in Sessions /\ session' = [session EXCEPT ![s] = e]
  OBVIOUS
<1> HIDE DEF v
<1>2. e.got = got
  BY <1>1 DEF Sessions
<1> HIDE DEF e
<1> QED
  BY <1>1, <1>2

(* The steps of a handler and of its session.                              *)
LEMMA HandlerStepIsPiped ==
  ASSUME SInv, NEW r \in Streams, NEW s \in Streams,
         HandlerOpens(s) \/ HandlerRefuses(s) \/ ClientSends(s) \/ SessionEnds(s)
  PROVE  PipeStep(r)
<1>1. /\ session \in [Streams -> Sessions] /\ opened \in [Streams -> Openeds]
      /\ opened[s].received \in Nat /\ opened[s].received <= served[s].sent
      /\ served[s].sent \in Nat /\ UNCHANGED served
      /\ opened[s].state # "new" => served[s].state # "new"
      /\ opened[s].state \in {"opening", "dropped"} => Reader(s) = "waiting"
      /\ opened[s].state = "ready" => Reader(s) = "reading"
      /\ Reader(r) = ReaderOf(opened[r].state)
  BY PipeFacts DEF HandlerOpens, HandlerRefuses, ClientSends, SessionEnds, serverVars
<1>2. CASE HandlerOpens(s)
  <2> DEFINE state == IF opened[s].state = "opening" THEN "ready" ELSE "gone"
             e == [state |-> IF opened[s].state = "opening" THEN "open" ELSE "orphan",
                   got |-> Flushed(s)]
  <2>1. /\ opened[s].state \in {"opening", "dropped"}
        /\ opened' = [opened EXCEPT ![s].state = state]
        /\ session' = [session EXCEPT ![s] = e]
        /\ e.got = Flushed(s) /\ state \in {"ready", "gone"}
    BY <1>2 DEF HandlerOpens
  <2> HIDE DEF e, state
  <2>2. session'[s].got = Flushed(s) /\ \A q \in Streams \ {s} : session'[q] = session[q]
    BY <1>1, <2>1
  <2>3. opened'[s].state = state /\ \A q \in Streams \ {s} : opened'[q] = opened[q]
    BY <1>1, <2>1, OpenedChanges
  <2>4. CASE r # s
    BY <1>1, <2>2, <2>3, <2>4, PipeOfWorker
  <2>5. \E n \in 0..served[s].sent : session'[s].got = [i \in 1..n |-> i]
    BY <1>1, <2>2 DEF Flushed
  <2> QED
    BY <1>1, <2>1, <2>3, <2>4, <2>5, PipeOfWorker
<1>3. CASE HandlerRefuses(s)
  <2>1. /\ opened[s].state \in {"opening", "dropped"} /\ UNCHANGED session
        /\ opened' = [opened EXCEPT ![s].state = "gone"]
    BY <1>3 DEF HandlerRefuses
  <2>2. opened'[s].state = "gone" /\ \A q \in Streams \ {s} : opened'[q] = opened[q]
    BY <1>1, <2>1, OpenedChanges
  <2> QED
    BY <1>1, <2>1, <2>2, PipeOfWorker
<1>4. CASE ClientSends(s)
  <2> DEFINE n == opened[s].sent + 1
  <2>1. opened' = [opened EXCEPT ![s].sent = n] /\ UNCHANGED session
    BY <1>4 DEF ClientSends
  <2>2. opened[s].sent \in Counts /\ opened[s].sent < MaxReplies
    BY <1>1, <1>4 DEF ClientSends, Openeds
  <2>3. n \in Counts
    BY <2>2, RelayAssumption DEF Counts
  <2> HIDE DEF n
  <2>4. opened'[r].state = opened[r].state
    BY <1>1, <2>1, <2>3, OpenedSends
  <2> QED
    BY <1>1, <2>1, <2>4, PipeOfWorker
<1>5. CASE SessionEnds(s)
  <2>1. session'[r].got = session[r].got
    BY <1>1, <1>5, GotStays DEF SessionEnds
  <2>2. CASE opened[s].state = "ready"
    <3> DEFINE n == opened[s].sent + 1
    <3>1. opened' = [opened EXCEPT ![s].state = "gone", ![s].sent = n]
      BY <1>5, <2>2 DEF SessionEnds
    <3>2. n \in Counts
      <4>1. opened[s].sent \in Nat /\ opened[s].sent <= MaxReplies
        BY <2>2, RelayAssumption, StreamNumbers DEF SInv, Fits, OpenedFits
      <4> QED
        BY <4>1, RelayAssumption DEF Counts
    <3> HIDE DEF n
    <3>3. opened'[s].state = "gone" /\ \A q \in Streams \ {s} : opened'[q] = opened[q]
      BY <1>1, <3>1, <3>2, OpenedEnds
    <3> QED
      BY <1>1, <2>1, <2>2, <3>3, PipeOfWorker
  <2>3. CASE opened[s].state # "ready"
    BY <1>1, <1>5, <2>1, <2>3, PipeOfWorker DEF SessionEnds
  <2> QED
    BY <2>2, <2>3
<1> QED
  BY <1>2, <1>3, <1>4, <1>5

(* The end of a connection or of the process.                              *)
LEMMA LeaveIsPiped ==
  ASSUME SInv, NEW r \in Streams, ClientCloses \/ ProcessEnds
  PROVE  PipeStep(r)
<1>1. /\ session[r] \in Sessions /\ opened[r] \in Openeds /\ UNCHANGED served
      /\ opened[r].state # "new" => served[r].state # "new"
      /\ Reader(r) = ReaderOf(opened[r].state)
  BY PipeFacts DEF ClientCloses, ProcessEnds, serverVars
<1>2. session'[r].got = session[r].got
  <2>1. PICK state : session'[r] = session[r] \/ session'[r] = [session[r] EXCEPT !.state = state]
    BY DEF ClientCloses, ProcessEnds, Closed
  <2> QED
    BY <1>1, <2>1 DEF Sessions
<1>3. \/ opened'[r].state = opened[r].state
      \/ opened[r].state = "opening" /\ opened'[r].state = "dropped"
      \/ opened[r].state # "new" /\ opened'[r].state = "gone"
  <2>1. CASE ClientCloses
    BY <1>1, <2>1 DEF ClientCloses, Openeds
  <2>2. CASE ProcessEnds
    BY <1>1, <2>2 DEF ProcessEnds, Openeds
  <2> QED
    BY <2>1, <2>2
<1>4. opened[r].state \in {"new", "opening", "dropped", "ready", "gone"}
  BY <1>1 DEF Openeds
<1> QED
  BY <1>1, <1>2, <1>3, <1>4, ReaderIs, PipeOfWorker

(* A frame that the client receives.                                       *)
LEMMA ClientReceiptIsPiped ==
  ASSUME SInv, SInv', NEW r \in Streams, ClientReceives
  PROVE  PipeStep(r)
<1>g. PICK g : g = client.generation
  OBVIOUS
<1>f. PICK f : f = Head(toWorker[g])
  OBVIOUS
<1>1. /\ UNCHANGED served /\ g \in Generations /\ Taken(toWorker, g, toWorker')
      /\ IF f.type = "ack" THEN UNCHANGED <<opened, session>> ELSE ClientHandles(f)
  BY <1>g, <1>f DEF ClientReceives, serverVars, Taken, SInv, StreamsTyped
<1>2. /\ toWorker \in [Generations -> Seq(Frames)] /\ session \in [Streams -> Sessions]
      /\ opened \in [Streams -> Openeds] /\ broken' = FALSE
  BY DEF SInv, StreamsTyped
<1>3. FitsDown(g, f)
  BY <1>f, <1>1, <1>2, QueueShrinks DEF Dequeued, SInv, FramesFit
<1>4. Reader(r) = ReaderOf(opened[r].state)
  BY PipeFacts
<1>5. CASE UNCHANGED <<opened, session>>
  BY <1>1, <1>4, <1>5, PipeOfWorker
<1>6. CASE f.type # "ack"
  <2>s. PICK s \in Streams : s = f.stream
    BY <1>3, <1>6 DEF FitsDown
  <2>1. ClientHandles(f) /\ (f.type = "open" => opened[s].state = "new")
    BY <1>1, <1>3, <1>6, <2>s DEF FitsDown
  <2>2. /\ opened[s] \in Openeds /\ session[s] \in Sessions /\ Fits(s) /\ Fits(s)'
        /\ opened[s].state # "new" => served[s].state # "new"
        /\ opened[s].state \in {"opening", "dropped"} => Reader(s) = "waiting"
        /\ opened[s].state = "ready" => Reader(s) = "reading"
        /\ opened[s].received \in Nat /\ Len(session[s].got) \in Nat /\ served[s].sent \in Nat
    BY <2>1, PipeFacts DEF SInv
  <2>3. CASE /\ f.type = "open" /\ UNCHANGED session
             /\ opened' = [opened EXCEPT ![s].state = "opening", ![s].generation = g]
    <3>1. opened'[s].state = "opening" /\ \A q \in Streams \ {s} : opened'[q] = opened[q]
      BY <1>1, <1>2, <2>1, <2>3, OpenedOpens, RelayAssumption
    <3> QED
      BY <1>1, <1>4, <2>1, <2>3, <3>1, ReaderIs, PipeOfWorker
  <2>4. CASE /\ f.type = "data" /\ opened[s].state \in {"opening", "ready"}
             /\ f.n = opened[s].received + 1
             /\ opened' = [opened EXCEPT ![s].received = f.n]
             /\ session' = [session EXCEPT ![s].got =
                              IF opened[s].state = "ready" THEN Append(@, f.n) ELSE @]
    <3>1. f.n \in Counts
      BY <1>f, <1>1, <1>2, QueueShrinks, <2>4 DEF Dequeued, Frames
    <3>2. /\ opened'[s].state = opened[s].state /\ opened'[s].received = f.n
          /\ \A q \in Streams \ {s} : opened'[q] = opened[q]
      BY <1>2, <2>1, <2>4, <3>1, OpenedReceives
    <3>3. /\ session'[s].got = IF opened[s].state = "ready" THEN Append(session[s].got, f.n)
                                                            ELSE session[s].got
          /\ \A q \in Streams \ {s} : session'[q] = session[q]
      BY <1>2, <2>1, <2>4, GotGrows
    <3>4. CASE r # s
      BY <1>1, <1>4, <3>2, <3>3, <3>4, PipeOfWorker
    <3>5. CASE r = s /\ opened[s].state = "opening"
      BY <1>1, <1>4, <3>2, <3>3, <3>5, PipeOfWorker
    <3>6. CASE r = s /\ opened[s].state = "ready"
      <4>1. f.n <= served[s].sent
        BY <1>1, <2>2, <3>2 DEF Fits, OpenedFits
      <4>2. f.n = Len(session[s].got) + 1
        BY <2>2, <2>4, <3>6 DEF Fits, SessionFits
      <4>3. Len(session[s].got) < served[s].sent
        BY <2>2, <4>1, <4>2
      <4> QED
        BY <1>1, <2>2, <3>2, <3>3, <3>6, <4>2, <4>3, PipeOfWorker
    <3> QED
      BY <2>4, <3>4, <3>5, <3>6
  <2>5. CASE /\ f.type = "close" /\ opened[s].state \in {"opening", "ready"}
             /\ opened' = [opened EXCEPT ![s].state = IF @ = "opening" THEN "dropped" ELSE "gone"]
             /\ session' = [session EXCEPT ![s].state = IF @ = "open" THEN "closed" ELSE @]
    <3> DEFINE state == IF opened[s].state = "opening" THEN "dropped" ELSE "gone"
    <3>1. opened' = [opened EXCEPT ![s].state = state] /\ state \in {"dropped", "gone"}
          /\ (state = "dropped" <=> opened[s].state = "opening")
      BY <2>5
    <3> HIDE DEF state
    <3>2. opened'[s].state = state /\ \A q \in Streams \ {s} : opened'[q] = opened[q]
      BY <1>2, <2>1, <3>1, OpenedChanges
    <3>3. session'[r].got = session[r].got
      BY <1>2, <2>1, <2>5, GotStays
    <3> QED
      BY <1>1, <1>4, <2>2, <2>5, <3>1, <3>2, <3>3, ReaderIs, PipeOfWorker
  <2>6. \/ UNCHANGED <<opened, session>>
        \/ f.type = "data" /\ opened[s].state \in {"opening", "ready"}
           /\ f.n = opened[s].received + 1
           /\ opened' = [opened EXCEPT ![s].received = f.n]
           /\ session' = [session EXCEPT ![s].got =
                            IF opened[s].state = "ready" THEN Append(@, f.n) ELSE @]
        \/ f.type # "data"
    BY <1>2, <2>s, <2>1 DEF ClientHandles
  <2>7. f.type # "data" =>
          \/ UNCHANGED <<opened, session>>
          \/ /\ f.type = "open" /\ UNCHANGED session
             /\ opened' = [opened EXCEPT ![s].state = "opening", ![s].generation = g]
          \/ /\ f.type = "close" /\ opened[s].state \in {"opening", "ready"}
             /\ opened' = [opened EXCEPT ![s].state = IF @ = "opening" THEN "dropped" ELSE "gone"]
             /\ session' = [session EXCEPT ![s].state = IF @ = "open" THEN "closed" ELSE @]
    BY <1>g, <2>s, <2>1 DEF ClientHandles
  <2> QED
    BY <1>5, <2>3, <2>4, <2>5, <2>6, <2>7
<1> QED
  BY <1>1, <1>5, <1>6

LEMMA NextIsPiped ==
  ASSUME SInv, SInv', [Next]_vars, NEW r \in Streams
  PROVE  PipeStep(r)
<1>1. ASSUME UNCHANGED <<served, opened, session>>
      PROVE  PipeStep(r)
  BY <1>1, PipeOfServer
<1>2. CASE ClientReceives
  BY <1>2, ClientReceiptIsPiped
<1>3. CASE ClientCloses \/ HelloFails \/ WorkerCrashes
  BY <1>3, LeaveIsPiped DEF HelloFails, WorkerCrashes
<1>4. ASSUME NEW g \in Generations, ServerReceives(g)
      PROVE  PipeStep(r)
  BY <1>4, ServerStepIsPiped
<1>5. ASSUME NEW g \in Generations, Handshake(g) \/ SocketCloses(g) \/ Heartbeat(g)
      PROVE  PipeStep(r)
  BY <1>1, <1>5 DEF Handshake, ReceiveHello, Register, HookDone, SocketCloses, Heartbeat, workerVars
<1>6. ASSUME NEW s \in Streams, OpenStream(s) \/ ServerSends(s, "data") \/ ServerSends(s, "close")
      PROVE  PipeStep(r)
  BY <1>6, ServerStepIsPiped
<1>7. ASSUME NEW s \in Streams,
             HandlerOpens(s) \/ HandlerRefuses(s) \/ ClientSends(s) \/ SessionEnds(s)
      PROVE  PipeStep(r)
  BY <1>7, HandlerStepIsPiped
<1>8. ASSUME NEW revoking \in BOOLEAN, Disconnect(revoking)
      PROVE  PipeStep(r)
  BY <1>8, ServerStepIsPiped
<1>9. CASE Connect \/ LinkBreaks \/ LeaseExpires \/ UNCHANGED vars
  BY <1>1, <1>9 DEF Connect, LinkBreaks, LeaseExpires, serverVars, workerVars, vars
<1> QED
  BY <1>2, <1>3, <1>4, <1>5, <1>6, <1>7, <1>8, <1>9 DEF Next

(* The streams of the relay, whatever shares their connections, are each   *)
(* the ordered stream its two ends are promised: a session begins at most  *)
(* once, reads what was written one by one and in order, and reads nothing *)
(* when it is over.                                                        *)
THEOREM StreamsKeepTheContract == Spec => StreamsAreOrdered
<1>1. Init => \A s \in Streams : Pipe(s)!Init
  BY ReaderIs DEF Init, Pipe!Init
<1>2. SInv /\ SInv' /\ [Next]_vars => [\A s \in Streams : PipeStep(s)]_vars
  BY NextIsPiped
<1> QED
  BY <1>1, <1>2, SInvHolds, RelayAssumption, PTL DEF Spec, StreamsAreOrdered

(* The same, stream by stream, as the contract's own specification.        *)
THEOREM EveryStreamIsOrdered ==
  ASSUME NEW s \in Streams
  PROVE  Spec => Pipe(s)!Spec
<1>1. Init => Pipe(s)!Init
  BY ReaderIs DEF Init, Pipe!Init
<1>2. SInv /\ SInv' /\ [Next]_vars
        => [Pipe(s)!Next]_<<served[s].state, served[s].sent, Reader(s), session[s].got>>
  BY NextIsPiped DEF PipeStep
<1> QED
  BY <1>1, <1>2, SInvHolds, RelayAssumption, PTL DEF Spec, Pipe!Spec
=============================================================================
