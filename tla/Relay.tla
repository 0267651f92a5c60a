------------------------------- MODULE Relay -------------------------------
(***************************************************************************)
(* The relay between the control plane and one outbound Server Worker: the *)
(* connections of the Worker's successive generations, their leases, and   *)
(* the streams multiplexed over them.  A connection is a TLS socket with a *)
(* FIFO queue of frames each way; what is queued when an end closes may be *)
(* lost.  The relay server awaits authorizePeer before it registers a      *)
(* connection and onConnect after; the Worker awaits the handler of a      *)
(* stream it is asked to open.  What the Worker does between two awaits is *)
(* one step, and so is what the server does.                               *)
(***************************************************************************)
EXTENDS Integers, Sequences

CONSTANTS
    Streams,        (* stream ids, each opened once                        *)
    MaxGeneration,  (* bound: connections of the Worker                    *)
    MaxData,        (* bound: data frames of a stream to the Worker        *)
    MaxReplies,     (* bound: data frames of a stream to the server        *)
    MaxFaults       (* bound: failures of the network, a hook or a process *)

ASSUME RelayAssumption ==
    MaxGeneration \in Nat /\ MaxData \in Nat /\ MaxReplies \in Nat /\ MaxFaults \in Nat

VARIABLES
    conn,      (* each connection at the server: socket and handshake      *)
    link,      (* the connections that carry frames                        *)
    toServer,  (* the frames on their way, by connection                   *)
    toWorker,
    active,    (* the generation registered in #connections, 0: none       *)
    lease,     (* the lease registry's entry of the Worker                 *)
    served,    (* #streams of the server                                   *)
    client,    (* the Worker's relay client, with the persisted generation *)
    opened,    (* #streams of the client                                   *)
    session,   (* what the handler of a stream has opened, and what it got *)
    torn,      (* history: a registered connection lost its entry to the   *)
               (* hook of another one                                      *)
    broken,    (* history: a sequence number was not the next one          *)
    faults

vars == <<conn, link, toServer, toWorker, active, lease, served, client, opened,
          session, torn, broken, faults>>
serverVars == <<conn, active, lease, served>>
workerVars == <<client, opened, session>>
network == <<link, toServer, toWorker>>
history == <<torn, broken>>

Generations == 1..MaxGeneration
Counts == 0..MaxData + MaxReplies + 1

Frame(type, s, n) == [type |-> type, stream |-> s, n |-> n]
Frames == {[type |-> "ack"]} \cup
          [type : {"open", "data", "close"}, stream : Streams, n : Counts]

NoLease == [generation |-> 0, fresh |-> FALSE, revoked |-> FALSE]

TypeOK ==
    /\ conn \in [Generations ->
         [socket : {"none", "open", "destroyed", "closed"},
          step : {"hello", "authorizing", "hook", "up", "refused"}]]
    /\ link \subseteq Generations
    /\ toServer \in [Generations -> Seq(Frames)]
    /\ toWorker \in [Generations -> Seq(Frames)]
    /\ active \in 0..MaxGeneration
    /\ lease \in [generation : 0..MaxGeneration, fresh : BOOLEAN, revoked : BOOLEAN]
    /\ served \in [Streams -> [state : {"new", "open", "closed"},
                               generation : 0..MaxGeneration, sent : Counts, received : Counts]]
    /\ client \in [at : {"off", "connecting", "up"}, generation : 0..MaxGeneration]
    /\ opened \in [Streams -> [state : {"new", "opening", "dropped", "ready", "gone"},
                               generation : 0..MaxGeneration, sent : Counts, received : Counts]]
    /\ session \in [Streams -> [state : {"none", "open", "orphan", "closed"},
                                got : Seq(1..MaxData)]]
    /\ torn \in BOOLEAN /\ broken \in BOOLEAN
    /\ faults \in 0..MaxFaults

Init ==
    /\ conn = [g \in Generations |-> [socket |-> "none", step |-> "hello"]]
    /\ link = {}
    /\ toServer = [g \in Generations |-> <<>>]
    /\ toWorker = [g \in Generations |-> <<>>]
    /\ active = 0
    /\ lease = NoLease
    /\ served = [s \in Streams |-> [state |-> "new", generation |-> 0, sent |-> 0, received |-> 0]]
    /\ client = [at |-> "off", generation |-> 0]
    /\ opened = [s \in Streams |-> [state |-> "new", generation |-> 0, sent |-> 0, received |-> 0]]
    /\ session = [s \in Streams |-> [state |-> "none", got |-> <<>>]]
    /\ torn = FALSE /\ broken = FALSE
    /\ faults = 0

-----------------------------------------------------------------------------
Fault == faults < MaxFaults /\ faults' = faults + 1

(* socket.destroy, of some connections; "close" is emitted later.          *)
Destroyed(c, gs) ==
    [g \in Generations |-> IF g \in gs /\ c[g].socket = "open"
                             THEN [c[g] EXCEPT !.socket = "destroyed"] ELSE c[g]]

(* A write to a socket that is gone fails.                                 *)
ServerWrites(g, frame) == toWorker' = [toWorker EXCEPT ![g] = Append(@, frame)]

On(g) == client.at # "off" /\ client.generation = g
ClientWrites(frame) ==
    toServer' = [toServer EXCEPT ![client.generation] = Append(@, frame)]

-----------------------------------------------------------------------------
(* The Worker's run loop: a generation is persisted before it is used.     *)
Connect ==
    /\ client.at = "off" /\ client.generation < MaxGeneration
    /\ LET g == client.generation + 1
       IN /\ client' = [at |-> "connecting", generation |-> g]
          /\ conn' = [conn EXCEPT ![g].socket = "open"]
          /\ link' = link \cup {g}
    /\ UNCHANGED <<toServer, toWorker, active, lease, served, opened, session, history, faults>>

ReceiveHello(g) ==
    /\ conn[g].step = "hello" /\ conn[g].socket = "open" /\ g \in link
    /\ conn' = [conn EXCEPT ![g].step = "authorizing"]
    /\ UNCHANGED <<network, active, lease, served, workerVars, history, faults>>

(* Mutant: a generation is not compared with the one that has the lease.   *)
LeasableUnfenced(g) == ~lease.revoked

(* connect of the lease registry.                                          *)
Leasable(g) == ~lease.revoked /\ lease.generation < g

Refuse(g) == conn' = [Destroyed(conn, {g}) EXCEPT ![g].step = "refused"]

(* authorizePeer has answered: whatever became of the socket meanwhile, the*)
(* connection gets the lease, and the entry of the one it replaces.        *)
Register(g) ==
    /\ conn[g].step = "authorizing"
    /\ \/ /\ Leasable(g)
          /\ lease' = [generation |-> g, fresh |-> TRUE, revoked |-> FALSE]
          /\ conn' = [Destroyed(conn, {active}) EXCEPT ![g].step = "hook"]
          /\ active' = g
          /\ UNCHANGED faults
       \/ /\ IF Leasable(g) THEN Fault ELSE UNCHANGED faults
          /\ Refuse(g) /\ UNCHANGED <<active, lease>>
    /\ UNCHANGED <<network, served, workerVars, history>>

(* onConnect has answered.  An error of it deletes the Worker's entry,     *)
(* which may be another connection's by now, and its own lease.            *)
HookDone(g) ==
    /\ conn[g].step = "hook"
    /\ \/ /\ conn' = [conn EXCEPT ![g].step = "up"]
          /\ IF conn[g].socket = "open" THEN ServerWrites(g, [type |-> "ack"])
                                        ELSE UNCHANGED toWorker
          /\ UNCHANGED <<active, lease, torn, faults>>
       \/ /\ Fault
          /\ active' = 0
          /\ torn' = (torn \/ active \notin {0, g})
          /\ lease' = IF lease.generation = g /\ ~lease.revoked THEN NoLease ELSE lease
          /\ Refuse(g)
          /\ UNCHANGED toWorker
    /\ UNCHANGED <<link, toServer, served, workerVars, broken>>

(* Mutant: the entry is deleted by the Worker's id alone.                  *)
EntryGone(g) == 0

(* The socket's "close": the entry of this socket is deleted, and no more. *)
EntryWithout(g) == IF active = g THEN 0 ELSE active

SocketCloses(g) ==
    /\ \/ conn[g].socket = "destroyed"
       \/ conn[g].socket = "open" /\ (~On(g) \/ g \notin link)
    /\ conn' = [conn EXCEPT ![g].socket = "closed"]
    /\ active' = EntryWithout(g)
    /\ toServer' = [toServer EXCEPT ![g] = <<>>]
    /\ UNCHANGED <<link, toWorker, lease, served, workerVars, history, faults>>

-----------------------------------------------------------------------------
(* A frame of a registered connection.                                     *)
Admitted(g) == lease.generation = g /\ lease.fresh /\ ~lease.revoked

ServerHandles(g, f) ==
    LET s == f.stream
        mine == served[s].state = "open" /\ served[s].generation = g
        next == f.n = served[s].received + 1
    IN \/ /\ ~mine
          /\ UNCHANGED <<conn, served, broken>>
       \/ /\ mine /\ f.type = "close"
          /\ served' = [served EXCEPT ![s].state = "closed"]
          /\ UNCHANGED <<conn, broken>>
       \/ /\ mine /\ f.type = "data"
          /\ served' = [served EXCEPT ![s].received = IF next THEN f.n ELSE @]
          /\ conn' = IF next THEN conn ELSE Destroyed(conn, {g})
          /\ broken' = (broken \/ ~next)

ServerReceives(g) ==
    /\ conn[g].socket = "open" /\ conn[g].step \in {"hook", "up"}
    /\ g \in link /\ toServer[g] # <<>>
    /\ toServer' = [toServer EXCEPT ![g] = Tail(@)]
    /\ IF Admitted(g)
         THEN ServerHandles(g, Head(toServer[g]))
         ELSE conn' = Destroyed(conn, {g}) /\ UNCHANGED <<served, broken>>
    /\ UNCHANGED <<link, toWorker, active, lease, workerVars, torn, faults>>

(* A heartbeat, sent and received in one step: it renews the lease of a    *)
(* connection that has it, and ends any other.                             *)
Heartbeat(g) ==
    /\ client.at = "up" /\ On(g) /\ g \in link
    /\ conn[g].socket = "open" /\ ~Admitted(g)
    /\ conn' = Destroyed(conn, {g})
    /\ UNCHANGED <<network, active, lease, served, workerVars, history, faults>>

(* openStream, write and close of a stream.                                *)
OpenStream(s) ==
    /\ served[s].state = "new" /\ active # 0
    /\ IF conn[active].socket = "open"
         THEN /\ served' = [served EXCEPT ![s].state = "open", ![s].generation = active]
              /\ ServerWrites(active, Frame("open", s, 0))
         ELSE served' = [served EXCEPT ![s].state = "closed"] /\ UNCHANGED toWorker
    /\ UNCHANGED <<conn, active, lease, link, toServer, workerVars, history, faults>>

ServerSends(s, type) ==
    /\ served[s].state = "open"
    /\ served[s].sent < (IF type = "data" THEN MaxData ELSE MaxData + 1)
    /\ LET g == served[s].generation
           gone == conn[g].socket # "open"
       IN /\ served' = [served EXCEPT ![s].sent = @ + 1,
                                      ![s].state = IF gone \/ type = "close" THEN "closed" ELSE @]
          /\ IF gone THEN UNCHANGED toWorker
                     ELSE ServerWrites(g, Frame(type, s, served[s].sent + 1))
    /\ UNCHANGED <<conn, active, lease, link, toServer, workerVars, history, faults>>

(* disconnect, which also closes the Worker's streams, and revoke.         *)
Disconnect(revoking) ==
    /\ lease' = [lease EXCEPT !.revoked = @ \/ revoking]
    /\ conn' = Destroyed(conn, {active})
    /\ active' = 0
    /\ served' = [s \in Streams |-> IF served[s].state = "open"
                                      THEN [served[s] EXCEPT !.state = "closed"] ELSE served[s]]
    /\ UNCHANGED <<network, workerVars, history, faults>>

-----------------------------------------------------------------------------
(* The client.  A data frame waits until the handler has opened a session. *)
ClientHandles(f) ==
    LET s == f.stream
        known == opened[s].state \in {"opening", "ready"}
        next == f.n = opened[s].received + 1
    IN \/ /\ f.type = "open"
          /\ opened' = [opened EXCEPT ![s].state = "opening",
                                      ![s].generation = client.generation]
          /\ UNCHANGED <<session, client, broken>>
       \/ /\ f.type # "open" /\ ~known
          /\ UNCHANGED <<opened, session, client, broken>>
       \/ /\ f.type = "data" /\ known
          /\ opened' = [opened EXCEPT ![s].received = IF next THEN f.n ELSE @]
          /\ session' = [session EXCEPT ![s].got =
                           IF next /\ opened[s].state = "ready" THEN Append(@, f.n) ELSE @]
          /\ broken' = (broken \/ ~next)
          /\ UNCHANGED client
       \/ /\ f.type = "close" /\ known
          /\ opened' = [opened EXCEPT ![s].state = IF @ = "opening" THEN "dropped" ELSE "gone"]
          /\ session' = [session EXCEPT ![s].state = IF @ = "open" THEN "closed" ELSE @]
          /\ UNCHANGED <<client, broken>>

ClientReceives ==
    LET g == client.generation
    IN /\ On(g) /\ g \in link /\ toWorker[g] # <<>>
       /\ toWorker' = [toWorker EXCEPT ![g] = Tail(@)]
       /\ IF Head(toWorker[g]).type = "ack"
            THEN client' = [client EXCEPT !.at = "up"] /\ UNCHANGED <<opened, session, broken>>
            ELSE ClientHandles(Head(toWorker[g]))
       /\ UNCHANGED <<link, toServer, serverVars, torn, faults>>

(* Mutant: what was queued while the session was opening is dropped.       *)
NotFlushed(s) == <<>>

(* Mutant: the frame that opened the stream is queued as well.             *)
FlushedWithOpen(s) == [n \in 1..opened[s].received + 1 |-> n - 1]

(* The queue: the data received so far, in order.                          *)
Flushed(s) == [n \in 1..opened[s].received |-> n]

(* The handler has answered.  A session of a stream that is gone by now is *)
(* opened all the same, and nothing refers to it.                          *)
HandlerOpens(s) ==
    /\ opened[s].state \in {"opening", "dropped"}
    /\ session' = [session EXCEPT ![s] =
                     [state |-> IF opened[s].state = "opening" THEN "open" ELSE "orphan",
                      got |-> Flushed(s)]]
    /\ opened' = [opened EXCEPT ![s].state = IF @ = "opening" THEN "ready" ELSE "gone"]
    /\ UNCHANGED <<client, network, serverVars, history, faults>>

HandlerRefuses(s) ==
    /\ opened[s].state \in {"opening", "dropped"}
    /\ opened' = [opened EXCEPT ![s].state = "gone"]
    /\ IF On(opened[s].generation) THEN ClientWrites(Frame("close", s, 0))
                                   ELSE UNCHANGED toServer
    /\ UNCHANGED <<client, session, link, toWorker, serverVars, history, faults>>

ClientSends(s) ==
    /\ opened[s].state = "ready" /\ opened[s].sent < MaxReplies
    /\ opened' = [opened EXCEPT ![s].sent = @ + 1]
    /\ ClientWrites(Frame("data", s, opened[s].sent + 1))
    /\ UNCHANGED <<client, session, link, toWorker, serverVars, history, faults>>

(* The process of a session exits, or the target closes.                   *)
SessionEnds(s) ==
    /\ session[s].state \in {"open", "orphan"}
    /\ session' = [session EXCEPT ![s].state = "closed"]
    /\ IF opened[s].state = "ready"
         THEN /\ opened' = [opened EXCEPT ![s].state = "gone", ![s].sent = @ + 1]
              /\ ClientWrites(Frame("close", s, opened[s].sent + 1))
         ELSE UNCHANGED <<opened, toServer>>
    /\ UNCHANGED <<client, link, toWorker, serverVars, history, faults>>

(* Mutant: the streams of a connection that is gone are left alone.        *)
LeftBehind(s) == session[s]

(* client.close closes the sessions of the streams it has.                 *)
Closed(s) == IF session[s].state = "open" THEN [session[s] EXCEPT !.state = "closed"]
                                          ELSE session[s]

(* The socket is closed, the server's end or a write having failed.        *)
ClientCloses ==
    /\ client.at = "up"
    /\ client.generation \notin link \/ conn[client.generation].socket \in {"destroyed", "closed"}
    /\ client' = [client EXCEPT !.at = "off"]
    /\ session' = [s \in Streams |-> Closed(s)]
    /\ opened' = [s \in Streams |->
                    [opened[s] EXCEPT !.state = CASE @ = "opening" -> "dropped"
                                                  [] @ = "ready" -> "gone"
                                                  [] OTHER -> @]]
    /\ toWorker' = [toWorker EXCEPT ![client.generation] = <<>>]
    /\ UNCHANGED <<link, toServer, serverVars, history, faults>>

(* The process of the Worker ends, and everything it had open: run()       *)
(* returns when the hello is refused or not acknowledged in five seconds.  *)
ProcessEnds ==
    /\ client' = [client EXCEPT !.at = "off"]
    /\ session' = [s \in Streams |-> [session[s] EXCEPT !.state = IF @ = "none" THEN @ ELSE "closed"]]
    /\ opened' = [s \in Streams |-> [opened[s] EXCEPT !.state = IF @ = "new" THEN @ ELSE "gone"]]
    /\ toWorker' = [toWorker EXCEPT ![client.generation] = <<>>]
    /\ UNCHANGED <<link, toServer, serverVars, history>>

HelloFails == client.at = "connecting" /\ ProcessEnds /\ UNCHANGED faults

WorkerCrashes == client.at = "up" /\ Fault /\ ProcessEnds

-----------------------------------------------------------------------------
LinkBreaks ==
    /\ Fault
    /\ \E g \in link :
          /\ link' = link \ {g}
          /\ toServer' = [toServer EXCEPT ![g] = <<>>]
          /\ toWorker' = [toWorker EXCEPT ![g] = <<>>]
    /\ UNCHANGED <<serverVars, workerVars, history>>

(* No heartbeat in time.                                                   *)
LeaseExpires ==
    /\ lease.fresh /\ Fault
    /\ lease' = [lease EXCEPT !.fresh = FALSE]
    /\ UNCHANGED <<conn, active, served, network, workerVars, history>>

Handshake(g) == ReceiveHello(g) \/ Register(g) \/ HookDone(g)

Next ==
    \/ Connect \/ ClientReceives \/ ClientCloses \/ HelloFails \/ WorkerCrashes
    \/ \E g \in Generations : Handshake(g) \/ SocketCloses(g)
                             \/ ServerReceives(g) \/ Heartbeat(g)
    \/ \E s \in Streams :
          \/ OpenStream(s) \/ ServerSends(s, "data") \/ ServerSends(s, "close")
          \/ HandlerOpens(s) \/ HandlerRefuses(s) \/ ClientSends(s) \/ SessionEnds(s)
    \/ \E revoking \in BOOLEAN : Disconnect(revoking)
    \/ LinkBreaks \/ LeaseExpires

Spec == Init /\ [][Next]_vars

(* Frames arrive, heartbeats are sent and their failure is heard of, and   *)
(* the hello has a timer.  Nothing is assumed of handlers, hooks, callers. *)
FairSpec ==
    /\ Spec
    /\ WF_vars(ClientReceives) /\ WF_vars(ClientCloses) /\ WF_vars(HelloFails)
    /\ \A g \in Generations : WF_vars(Heartbeat(g))

-----------------------------------------------------------------------------
(* spec 133: stream ordering is per stream id.  A session gets the bytes   *)
(* that were written to its stream, in order and without a gap, those that *)
(* came while it was being opened included, and between these two peers    *)
(* the check of the sequence numbers, which ends the connection with all   *)
(* its streams, never fires.                                               *)
StreamsInOrder ==
    /\ ~broken
    /\ \A s \in Streams :
        /\ session[s].got = [n \in 1..Len(session[s].got) |-> n]
        /\ Len(session[s].got) <= served[s].sent
        /\ session[s].state = "open" => Len(session[s].got) = opened[s].received

(* Each stream is the ordered stream its two ends are promised: whatever   *)
(* becomes of connections, processes and handlers, no session begins twice,*)
(* reads again what it has read or reads when it is over.                  *)
Reader(s) ==
    CASE opened[s].state = "ready" -> "reading"
      [] opened[s].state = "gone" -> "over"
      [] OTHER -> "waiting"

Pipe(s) == INSTANCE OrderedStream
             WITH writer <- served[s].state, written <- served[s].sent,
                  reader <- Reader(s), got <- session[s].got

PipeStep(s) ==
    Pipe(s)!Next \/ UNCHANGED <<served[s].state, served[s].sent, Reader(s), session[s].got>>

(* Pipe(s)!Spec for each stream s, as one formula.                         *)
StreamsAreOrdered ==
    /\ \A s \in Streams : Pipe(s)!Init
    /\ [][\A s \in Streams : PipeStep(s)]_vars

(* A Worker whose hello was acknowledged is the one the server sends work  *)
(* to as long as its socket is open: replaced connections take their own   *)
(* entry with them and no other.  A hook that fails after its connection   *)
(* was replaced is the exception.                                          *)
UpIsServed ==
    \A g \in Generations : conn[g].socket = "open" /\ conn[g].step = "up" /\ ~torn => active = g

(* However long the admission of a connection takes, it never replaces one *)
(* of a later generation.                                                  *)
NewerGenerationWins ==
    [][active # 0 /\ active' # active => active' = 0 \/ active' > active]_vars

(* The Worker's side of a stream ends.  A session that began while its     *)
(* stream was there is closed once the server has closed the stream or the *)
(* connection the stream came on is lost, whatever that overtakes.  Three  *)
(* things are not promised.  A session the handler opens when its stream is*)
(* gone already is an orphan: nothing closes it before its process ends.   *)
(* The server's own streams outlive their lost connection until they are   *)
(* written to.  And after a hook that failed late (torn) a disconnect finds*)
(* no connection to close: the stream ends on the server's side alone.     *)
StreamIsOver(s) ==
    LET g == opened[s].generation
    IN \/ g \notin link \/ conn[g].socket # "open"
       \/ served[s].state = "closed" /\ ~torn

SessionsEnd ==
    \A s \in Streams :
        (session[s].state = "open" /\ StreamIsOver(s))
            ~> (session[s].state # "open" \/ ~StreamIsOver(s))
=============================================================================
