-------------------------------- MODULE Hub --------------------------------
(***************************************************************************)
(* The real-time hub of the backend: internal/ws/hub.go, client.go.        *)
(*                                                                         *)
(* Every connection c has a bounded channel send[c], a readPump and a      *)
(* writePump goroutine and an entry in the hub's map.  Request goroutines  *)
(* (Broadcasters) fan an event out under the hub's read lock; a client     *)
(* whose buffer is full gets a goroutine of its own that unregisters it.   *)
(* One action is one step between two points where another goroutine can   *)
(* be observed: a channel operation, a lock, an I/O call.                  *)
(***************************************************************************)
EXTENDS Naturals, Sequences

CONSTANTS Conns,        \* the connections that may ever be opened (one *Client each)
          Broadcasters, \* goroutines that call Broadcast (POST /messages handlers)
          BufSize,      \* sendBufSize
          MaxEvents     \* bound: how many events are broadcast in a behaviour

ASSUME BufSizeAssumption == BufSize \in Nat \ {0}
ASSUME MaxEventsAssumption == MaxEvents \in Nat

VARIABLES
  clients,    \* Hub.clients
  lock,       \* who holds or awaits Hub.mu for writing: a set of at most one <<who, c>>
  send,       \* contents of each client.send channel
  closed,     \* the clients whose channel has been closed
  conn,       \* "none" | "up" | "down" (peer gone, I/O fails) | "closed" (conn.Close)
  serve,      \* ServeWS: "idle" | "register" | "start" | "done"
  reader,     \* readPump: "idle" | "read" | "unregister" | "close" | "done"
  writer,     \* writePump: "idle" | "select" | "frame" | "drain" | "close" | "done"
  batch,      \* messages written into the frame that writePump has open
  left,       \* how many more messages the drain loop will take (n - i)
  spawned,    \* goroutines started by "go h.Unregister(client)" and not yet finished
  cast,       \* Broadcast: "idle" | "rlock" | "loop", per broadcaster
  event,      \* the event a broadcaster is sending
  todo,       \* the clients the range loop of a broadcaster has not visited yet
  published,  \* number of events broadcast so far; events are 1, 2, ...
  panic,      \* the channels a Go panic was raised for: a send on, or a close of, a closed one
  accepted,   \* history: the events put into client.send, in order
  delivered,  \* history: the events of the frames written to the connection
  expected    \* history: the events whose range loop started with c in the map

hubVars  == <<clients, lock, closed, spawned, panic>>
connVars == <<conn, serve, reader>>
pumpVars == <<writer, batch, left, delivered>>
castVars == <<cast, event, todo, published, expected>>
vars == <<clients, lock, send, closed, conn, serve, reader, writer, batch, left,
          spawned, cast, event, todo, published, panic, accepted, delivered, expected>>

Events == 1 .. MaxEvents

\* The goroutines that take the write lock, for the client they take it for.
LockOwner == {"serve", "reader", "spawned"} \X Conns

\* mu is held for reading exactly while some broadcaster is in its range loop.
ReadLocked == \E b \in Broadcasters : cast[b] = "loop"
-----------------------------------------------------------------------------
Init ==
  /\ clients = {} /\ lock = {} /\ panic = {} /\ published = 0
  /\ send = [c \in Conns |-> <<>>]
  /\ closed = {}
  /\ conn = [c \in Conns |-> "none"]
  /\ serve = [c \in Conns |-> "idle"]
  /\ reader = [c \in Conns |-> "idle"]
  /\ writer = [c \in Conns |-> "idle"]
  /\ batch = [c \in Conns |-> <<>>]
  /\ left = [c \in Conns |-> 0]
  /\ spawned = [c \in Conns |-> 0]
  /\ cast = [b \in Broadcasters |-> "idle"]
  /\ event = [b \in Broadcasters |-> 0]
  /\ todo = [b \in Broadcasters |-> {}]
  /\ accepted = [c \in Conns |-> <<>>]
  /\ delivered = [c \in Conns |-> <<>>]
  /\ expected = [c \in Conns |-> {}]
-----------------------------------------------------------------------------
(* sync.RWMutex.  Lock first announces the writer, which keeps new readers  *)
(* out, and returns once the readers that were in have left; the critical   *)
(* sections of Register and Unregister do not block, so what they do and    *)
(* the Unlock are the one step that follows the announcement.               *)
Announce(who, c) == lock = {} /\ lock' = {<<who, c>>}
Acquired(who, c) == lock = {<<who, c>>} /\ ~ReadLocked
-----------------------------------------------------------------------------
(* ServeWS.  A failed Upgrade returns before anything is created.          *)
Upgrade(c) ==
  /\ serve[c] = "idle"
  /\ serve' = [serve EXCEPT ![c] = "register"]
  /\ conn' = [conn EXCEPT ![c] = "up"]
  /\ UNCHANGED <<hubVars, send, reader, pumpVars, castVars, accepted>>

LockRegister(c) ==
  /\ serve[c] = "register"
  /\ Announce("serve", c)
  /\ UNCHANGED <<clients, closed, spawned, panic, send, connVars, pumpVars, castVars, accepted>>

Register(c) ==
  /\ Acquired("serve", c)
  /\ clients' = clients \union {c}
  /\ lock' = {}
  /\ serve' = [serve EXCEPT ![c] = "start"]
  /\ UNCHANGED <<closed, spawned, panic, send, conn, reader, pumpVars, castVars, accepted>>

StartPumps(c) ==
  /\ serve[c] = "start"
  /\ serve' = [serve EXCEPT ![c] = "done"]
  /\ writer' = [writer EXCEPT ![c] = "select"]
  /\ reader' = [reader EXCEPT ![c] = "read"]
  /\ UNCHANGED <<hubVars, send, conn, batch, left, delivered, castVars, accepted>>
-----------------------------------------------------------------------------
\* Mutant: Unregister without the "if ok" test of the map.
UnregisterUnguarded(c) ==
  /\ lock' = {}
  /\ clients' = clients \ {c}
  /\ closed' = closed \union {c}
  /\ panic' = panic \union (closed \intersect {c})

(* Unregister, up to its Unlock, by whichever goroutine holds the lock.    *)
Unregister(c) ==
  /\ lock' = {}
  /\ IF c \in clients
       THEN /\ clients' = clients \ {c}
            /\ closed' = closed \union {c}
            /\ panic' = panic \union (closed \intersect {c})
       ELSE UNCHANGED <<clients, closed, panic>>

LockSpawned(c) ==
  /\ spawned[c] > 0
  /\ Announce("spawned", c)
  /\ UNCHANGED <<clients, closed, spawned, panic, send, connVars, pumpVars, castVars, accepted>>

UnregisterSpawned(c) ==
  /\ Acquired("spawned", c)
  /\ Unregister(c)
  /\ spawned' = [spawned EXCEPT ![c] = @ - 1]
  /\ UNCHANGED <<send, connVars, pumpVars, castVars, accepted>>
-----------------------------------------------------------------------------
(* Broadcast.  json.Marshal cannot fail on the payloads the service builds. *)
StartBroadcast(b) ==
  /\ cast[b] = "idle"
  /\ published < MaxEvents
  /\ published' = published + 1
  /\ event' = [event EXCEPT ![b] = published + 1]
  /\ cast' = [cast EXCEPT ![b] = "rlock"]
  /\ UNCHANGED <<hubVars, send, connVars, pumpVars, todo, expected, accepted>>

RLock(b) ==
  /\ cast[b] = "rlock"
  /\ lock = {}
  /\ cast' = [cast EXCEPT ![b] = "loop"]
  /\ todo' = [todo EXCEPT ![b] = clients]
  /\ expected' = [c \in Conns |-> IF c \in clients THEN expected[c] \union {event[b]}
                                                   ELSE expected[c]]
  /\ UNCHANGED <<hubVars, send, connVars, pumpVars, event, published, accepted>>

\* Mutant: the default branch skips the client and keeps it.
OfferDropping(b, c) ==
  /\ cast[b] = "loop" /\ c \in todo[b]
  /\ todo' = [todo EXCEPT ![b] = @ \ {c}]
  /\ panic' = panic \union (closed \intersect {c})
  /\ IF Len(send[c]) < BufSize
       THEN /\ send' = [send EXCEPT ![c] = Append(@, event[b])]
            /\ accepted' = [accepted EXCEPT ![c] = Append(@, event[b])]
       ELSE UNCHANGED <<send, accepted>>
  /\ UNCHANGED <<spawned, clients, lock, closed, connVars, pumpVars, cast, event, published, expected>>

\* Mutant: a plain client.send <- data, with no default branch.
OfferBlocking(b, c) ==
  /\ cast[b] = "loop" /\ c \in todo[b] /\ Len(send[c]) < BufSize
  /\ todo' = [todo EXCEPT ![b] = @ \ {c}]
  /\ panic' = panic \union (closed \intersect {c})
  /\ send' = [send EXCEPT ![c] = Append(@, event[b])]
  /\ accepted' = [accepted EXCEPT ![c] = Append(@, event[b])]
  /\ UNCHANGED <<spawned, clients, lock, closed, connVars, pumpVars, cast, event, published, expected>>

\* The non-blocking send of the range loop; c is whichever client the map yields next.
Offer(b, c) ==
  /\ cast[b] = "loop"
  /\ c \in todo[b]
  /\ todo' = [todo EXCEPT ![b] = @ \ {c}]
  /\ panic' = panic \union (closed \intersect {c})
  /\ \/ /\ Len(send[c]) < BufSize
        /\ send' = [send EXCEPT ![c] = Append(@, event[b])]
        /\ accepted' = [accepted EXCEPT ![c] = Append(@, event[b])]
        /\ UNCHANGED spawned
     \/ /\ Len(send[c]) >= BufSize
        /\ spawned' = [spawned EXCEPT ![c] = @ + 1]
        /\ UNCHANGED <<send, accepted>>
  /\ UNCHANGED <<clients, lock, closed, connVars, pumpVars, cast, event, published, expected>>

RUnlock(b) ==
  /\ cast[b] = "loop"
  /\ todo[b] = {}
  /\ cast' = [cast EXCEPT ![b] = "idle"]
  /\ UNCHANGED <<hubVars, send, connVars, pumpVars, event, todo, published, expected, accepted>>
-----------------------------------------------------------------------------
(* The peer closes, stops answering pings until the read deadline, or sends *)
(* a message over maxMessageSize: from here on reads fail.                  *)
PeerGone(c) ==
  /\ conn[c] = "up"
  /\ conn' = [conn EXCEPT ![c] = "down"]
  /\ UNCHANGED <<hubVars, send, serve, reader, pumpVars, castVars, accepted>>

(* readPump: the read loop ends on an error; its defer unregisters the      *)
(* client and then closes the connection.                                   *)
ReadError(c) ==
  /\ reader[c] = "read"
  /\ conn[c] \in {"down", "closed"}
  /\ reader' = [reader EXCEPT ![c] = "unregister"]
  /\ UNCHANGED <<hubVars, send, conn, serve, pumpVars, castVars, accepted>>

LockReader(c) ==
  /\ reader[c] = "unregister"
  /\ Announce("reader", c)
  /\ UNCHANGED <<clients, closed, spawned, panic, send, connVars, pumpVars, castVars, accepted>>

UnregisterReader(c) ==
  /\ Acquired("reader", c)
  /\ Unregister(c)
  /\ reader' = [reader EXCEPT ![c] = "close"]
  /\ UNCHANGED <<spawned, send, conn, serve, pumpVars, castVars, accepted>>

ReaderClose(c) ==
  /\ reader[c] = "close"
  /\ reader' = [reader EXCEPT ![c] = "done"]
  /\ conn' = [conn EXCEPT ![c] = "closed"]
  /\ UNCHANGED <<hubVars, send, serve, pumpVars, castVars, accepted>>
-----------------------------------------------------------------------------
\* Mutant: the receive does not test ok, so a closed channel yields a nil message.
ReceiveUnchecked(c) ==
  /\ writer[c] = "select"
  /\ send[c] # <<>> \/ c \in closed
  /\ send' = [send EXCEPT ![c] = IF @ = <<>> THEN @ ELSE Tail(@)]
  /\ batch' = [batch EXCEPT ![c] = IF send[c] = <<>> THEN <<0>> ELSE <<Head(send[c])>>]
  /\ writer' = [writer EXCEPT ![c] = "frame"]
  /\ UNCHANGED <<hubVars, connVars, castVars, left, delivered, accepted>>

(* writePump: the receive case of its select.  The message it took is the   *)
(* first of the frame that it opens next, or is lost with it.               *)
Receive(c) ==
  /\ writer[c] = "select"
  /\ send[c] # <<>>
  /\ send' = [send EXCEPT ![c] = Tail(@)]
  /\ batch' = [batch EXCEPT ![c] = <<Head(send[c])>>]
  /\ writer' = [writer EXCEPT ![c] = "frame"]
  /\ UNCHANGED <<hubVars, connVars, castVars, left, delivered, accepted>>

\* Mutant: the loop is one iteration too long (i <= n).
OpenFrameOvercounting(c) ==
  /\ writer[c] = "frame"
  /\ left' = [left EXCEPT ![c] = Len(send[c]) + 1]
  /\ writer' = [writer EXCEPT ![c] = "drain"]
  /\ UNCHANGED <<hubVars, send, connVars, castVars, batch, delivered, accepted>>

\* NextWriter succeeds; len(c.send) is read once, whatever was sent since the receive.
OpenFrame(c) ==
  /\ writer[c] = "frame"
  /\ left' = [left EXCEPT ![c] = Len(send[c])]
  /\ writer' = [writer EXCEPT ![c] = "drain"]
  /\ UNCHANGED <<hubVars, send, connVars, castVars, batch, delivered, accepted>>

\* NextWriter fails: the message is lost and writePump returns.
NextWriterError(c) ==
  /\ writer[c] = "frame"
  /\ conn[c] # "up"
  /\ writer' = [writer EXCEPT ![c] = "close"]
  /\ UNCHANGED <<hubVars, send, connVars, castVars, batch, left, delivered, accepted>>

\* Mutant: the drain loop writes the first message again instead of receiving.
DrainRepeating(c) ==
  /\ writer[c] = "drain" /\ left[c] > 0
  /\ batch' = [batch EXCEPT ![c] = Append(@, Head(@))]
  /\ left' = [left EXCEPT ![c] = @ - 1]
  /\ UNCHANGED <<hubVars, send, connVars, castVars, writer, delivered, accepted>>

\* One iteration of the drain loop; a receive from an empty channel blocks.
Drain(c) ==
  /\ writer[c] = "drain"
  /\ left[c] > 0
  /\ send[c] # <<>>
  /\ send' = [send EXCEPT ![c] = Tail(@)]
  /\ batch' = [batch EXCEPT ![c] = Append(@, Head(send[c]))]
  /\ left' = [left EXCEPT ![c] = @ - 1]
  /\ UNCHANGED <<hubVars, connVars, castVars, writer, delivered, accepted>>

\* Mutant: w.Close is left out, and the frame waits for the next NextWriter.
FlushForgotten(c) ==
  /\ writer[c] = "drain" /\ left[c] = 0 /\ conn[c] # "closed"
  /\ writer' = [writer EXCEPT ![c] = "select"]
  /\ UNCHANGED <<hubVars, send, connVars, castVars, batch, left, delivered, accepted>>

\* w.Close hands the frame to the connection: it succeeds, also when the peer has
\* just gone, unless the connection is closed.
Flush(c) ==
  /\ writer[c] = "drain"
  /\ left[c] = 0
  /\ conn[c] # "closed"
  /\ delivered' = [delivered EXCEPT ![c] = @ \o batch[c]]
  /\ batch' = [batch EXCEPT ![c] = <<>>]
  /\ writer' = [writer EXCEPT ![c] = "select"]
  /\ UNCHANGED <<hubVars, send, connVars, castVars, left, accepted>>

\* w.Close fails: the connection is gone, or the peer reads too slowly for writeWait.
FlushError(c) ==
  /\ writer[c] = "drain"
  /\ left[c] = 0
  /\ writer' = [writer EXCEPT ![c] = "close"]
  /\ UNCHANGED <<hubVars, send, connVars, castVars, batch, left, delivered, accepted>>

\* The receive reports a closed, empty channel: send a close frame and return.
ReceiveClosed(c) ==
  /\ writer[c] = "select"
  /\ send[c] = <<>>
  /\ c \in closed
  /\ writer' = [writer EXCEPT ![c] = "close"]
  /\ UNCHANGED <<hubVars, send, connVars, castVars, batch, left, delivered, accepted>>

\* The ticker case: a ping that cannot be written ends writePump.
PingError(c) ==
  /\ writer[c] = "select"
  /\ writer' = [writer EXCEPT ![c] = "close"]
  /\ UNCHANGED <<hubVars, send, connVars, castVars, batch, left, delivered, accepted>>

\* Mutant: writePump returns without closing the connection.
WriterReturns(c) ==
  /\ writer[c] = "close"
  /\ writer' = [writer EXCEPT ![c] = "done"]
  /\ UNCHANGED <<hubVars, send, connVars, castVars, batch, left, delivered, accepted>>

WriterClose(c) ==
  /\ writer[c] = "close"
  /\ writer' = [writer EXCEPT ![c] = "done"]
  /\ conn' = [conn EXCEPT ![c] = "closed"]
  /\ UNCHANGED <<hubVars, send, serve, reader, castVars, batch, left, delivered, accepted>>
-----------------------------------------------------------------------------
Serve(c)      == LockRegister(c) \/ Register(c) \/ StartPumps(c)
Spawned(c)    == LockSpawned(c) \/ UnregisterSpawned(c)
ReadPump(c)   == ReadError(c) \/ LockReader(c) \/ UnregisterReader(c) \/ ReaderClose(c)
WritePump(c)  == \/ Receive(c) \/ OpenFrame(c) \/ NextWriterError(c) \/ Drain(c) \/ Flush(c)
                 \/ FlushError(c) \/ ReceiveClosed(c) \/ WriterClose(c)
Broadcast(b)  == RLock(b) \/ (\E c \in Conns : Offer(b, c)) \/ RUnlock(b)

Next ==
  \/ \E c \in Conns : \/ Upgrade(c) \/ PeerGone(c) \/ Serve(c) \/ Spawned(c)
                      \/ ReadPump(c) \/ WritePump(c) \/ PingError(c)
  \/ \E b \in Broadcasters : StartBroadcast(b) \/ Broadcast(b)

Spec == Init /\ [][Next]_vars

(* A started goroutine that can run is eventually scheduled; I/O calls end, *)
(* with success or an error, because of writeWait and pongWait.  No client  *)
(* is obliged to connect or to leave, no user to post, and no ping to fail. *)
Fairness ==
  /\ \A c \in Conns : /\ WF_vars(Serve(c)) /\ WF_vars(Spawned(c))
                      /\ WF_vars(ReadPump(c)) /\ WF_vars(WritePump(c))
  /\ \A b \in Broadcasters : WF_vars(Broadcast(b))

FairSpec == Spec /\ Fairness
-----------------------------------------------------------------------------
(* The value domains of the variables. *)
TypeOK ==
  /\ clients \subseteq Conns
  /\ lock \subseteq LockOwner
  /\ send \in [Conns -> Seq(Events)]
  /\ closed \subseteq Conns
  /\ conn \in [Conns -> {"none", "up", "down", "closed"}]
  /\ serve \in [Conns -> {"idle", "register", "start", "done"}]
  /\ reader \in [Conns -> {"idle", "read", "unregister", "close", "done"}]
  /\ writer \in [Conns -> {"idle", "select", "frame", "drain", "close", "done"}]
  /\ batch \in [Conns -> Seq(Events)]
  /\ left \in [Conns -> Nat]
  /\ spawned \in [Conns -> Nat]
  /\ cast \in [Broadcasters -> {"idle", "rlock", "loop"}]
  /\ event \in [Broadcasters -> 0 .. MaxEvents]
  /\ \A b \in Broadcasters : cast[b] # "idle" => event[b] \in Events
  /\ todo \in [Broadcasters -> SUBSET Conns]
  /\ published \in 0 .. MaxEvents
  /\ panic \subseteq Conns
  /\ accepted \in [Conns -> Seq(Events)]
  /\ delivered \in [Conns -> Seq(Events)]
  /\ expected \in [Conns -> SUBSET Events]

(* The write lock is held only by a goroutine that is at its Lock call, so  *)
(* that Register and Unregister run at the point the code calls them from.  *)
LockOwnerAtCall ==
  \A c \in Conns :
    /\ <<"serve", c>> \in lock => serve[c] = "register"
    /\ <<"reader", c>> \in lock => reader[c] = "unregister"
    /\ <<"spawned", c>> \in lock => spawned[c] > 0

(* No goroutine ever sends on a closed channel or closes one twice, however *)
(* many Unregister calls (one per overflowing broadcast, plus readPump's)   *)
(* race for the same client and whatever broadcasts are running meanwhile.  *)
NoPanic == panic = {}

(* What reaches a connection is a prefix of what its channel accepted, in   *)
(* order and without repetition, across the drain loop, frames and a close  *)
(* of the channel with messages still buffered.                             *)
InOrderOnce ==
  \A c \in Conns :
    /\ accepted[c] = delivered[c] \o batch[c] \o send[c]
    /\ \A i, j \in DOMAIN accepted[c] : accepted[c][i] = accepted[c][j] => i = j

(* A client that stays in the map with no Unregister on its way has been    *)
(* given every event whose broadcast saw it there: an event is never lost   *)
(* without the client being on its way out.                                 *)
NoSilentLoss ==
  \A c \in clients : spawned[c] = 0 =>
    \A e \in expected[c] :
      \/ \E i \in DOMAIN accepted[c] : accepted[c][i] = e
      \/ \E b \in Broadcasters : cast[b] = "loop" /\ event[b] = e /\ c \in todo[b]

(* The drain loop never waits: the n messages it counted are still in the   *)
(* channel, whatever broadcasts and unregistrations happened since.         *)
DrainNeverBlocks ==
  \A c \in Conns : writer[c] = "drain" => left[c] <= Len(send[c])

(* A broadcast comes to its end whatever the clients do: it waits neither   *)
(* for a slow client nor for a lock that waits for the broadcast itself.    *)
BroadcastEnds ==
  \A b \in Broadcasters : cast[b] # "idle" ~> cast[b] = "idle"

Released(c) == c \notin clients /\ conn[c] = "closed" /\ reader[c] = "done" /\ writer[c] = "done"

(* When the peer is gone, the connection is closed or the client was found  *)
(* too slow, the map entry and both pumps go away: no goroutine leaks.      *)
LeaversReleased ==
  \A c \in Conns : (conn[c] \in {"down", "closed"} \/ spawned[c] > 0) ~> Released(c)

Occurs(e, events) == \E i \in DOMAIN events : events[i] = e

(* Every accepted event is eventually written, whether it waits in the      *)
(* channel or in the open frame, unless its connection ends: no event is    *)
(* left behind, or dropped with a frame, on a connection that lives on.     *)
EventuallyDelivered ==
  \A c \in Conns, e \in Events :
    Occurs(e, accepted[c]) ~> (Occurs(e, delivered[c]) \/ Released(c))
=============================================================================
