----------------------------- MODULE HubProofs -----------------------------
(* Safety of the hub for any number of connections, broadcasters and events *)
(* and any buffer size.                                                     *)
EXTENDS HubRefinement, SequenceTheorems, TLAPS

\* Expanding the bookkeeping tuples is needed at every leaf that reads UNCHANGED.
USE DEF vars, hubVars, connVars, pumpVars, castVars

(***************************************************************************)
(* The inductive invariant behind NoPanic.  A client in the map has an open *)
(* channel; a client still in a range loop is in the map, because the map   *)
(* only changes while no loop holds the read lock; and a client not yet     *)
(* registered has neither a map entry nor a closed channel, so Register     *)
(* never puts a closed channel back.                                        *)
(***************************************************************************)
MapHasOpenChannels == clients \intersect closed = {}
LoopsRangeOverMap == \A b \in Broadcasters : cast[b] = "loop" => todo[b] \subseteq clients
FreshUntilRegistered ==
  \A c \in Conns :
    /\ serve[c] \in {"idle", "register"} => c \notin clients /\ c \notin closed
    /\ serve[c] # "done" => reader[c] = "idle"

ChannelInv == MapHasOpenChannels /\ LoopsRangeOverMap /\ FreshUntilRegistered /\ NoPanic
HubInv == TypeOK /\ LockOwnerAtCall /\ ChannelInv

(* Counting a spawned goroutine keeps the counters natural numbers. *)
LEMMA CountUp ==
  ASSUME NEW f \in [Conns -> Nat], NEW g, NEW c \in Conns,
         g = [f EXCEPT ![c] = f[c] + 1] \/ g = f
  PROVE  g \in [Conns -> Nat]
  OBVIOUS

(* What the non-blocking send does to the two sequences and the counter. *)
LEMMA OfferTypes ==
  ASSUME NEW b \in Broadcasters, NEW c \in Conns, Offer(b, c), event[b] \in Events,
         send \in [Conns -> Seq(Events)], accepted \in [Conns -> Seq(Events)],
         spawned \in [Conns -> Nat]
  PROVE  /\ send' \in [Conns -> Seq(Events)]
         /\ accepted' \in [Conns -> Seq(Events)]
         /\ spawned' \in [Conns -> Nat]
<1>1. spawned' = [spawned EXCEPT ![c] = spawned[c] + 1] \/ spawned' = spawned
  BY DEF Offer
<1>2. \/ /\ send' = [send EXCEPT ![c] = Append(send[c], event[b])]
         /\ accepted' = [accepted EXCEPT ![c] = Append(accepted[c], event[b])]
      \/ send' = send /\ accepted' = accepted
  BY DEF Offer
<1>3. spawned' \in [Conns -> Nat]
  BY <1>1, CountUp
<1>4. Append(send[c], event[b]) \in Seq(Events) /\ Append(accepted[c], event[b]) \in Seq(Events)
  OBVIOUS
<1>5. QED
  BY <1>2, <1>3, <1>4

(* Every action keeps the value domains; that a spawned Unregister is still
   counted when it runs is what keeps the counter a natural number. *)
LEMMA TypeStep == TypeOK /\ LockOwnerAtCall /\ [Next]_vars => TypeOK'
<1> SUFFICES ASSUME TypeOK /\ LockOwnerAtCall, [Next]_vars PROVE TypeOK'
  OBVIOUS
<1> USE DEF TypeOK
<1>1. ASSUME NEW c \in Conns, Upgrade(c) PROVE TypeOK'
  BY <1>1 DEF Upgrade
<1>2. ASSUME NEW c \in Conns, PeerGone(c) PROVE TypeOK'
  BY <1>2 DEF PeerGone
<1>3. ASSUME NEW c \in Conns, LockRegister(c) PROVE TypeOK'
  BY <1>3 DEF LockRegister, Announce, LockOwner
<1>4. ASSUME NEW c \in Conns, Register(c) PROVE TypeOK'
  BY <1>4 DEF Register, Acquired
<1>5. ASSUME NEW c \in Conns, StartPumps(c) PROVE TypeOK'
  BY <1>5 DEF StartPumps
<1>6. ASSUME NEW c \in Conns, LockSpawned(c) PROVE TypeOK'
  BY <1>6 DEF LockSpawned, Announce, LockOwner
<1>7. ASSUME NEW c \in Conns, UnregisterSpawned(c) PROVE TypeOK'
  <2>1. spawned[c] > 0
    BY <1>7 DEF UnregisterSpawned, Acquired, LockOwnerAtCall
  <2>2. spawned' \in [Conns -> Nat]
    BY <1>7, <2>1 DEF UnregisterSpawned
  <2>3. clients' \subseteq Conns /\ closed' \subseteq Conns /\ panic' \subseteq Conns /\ lock' = {}
    BY <1>7 DEF UnregisterSpawned, Unregister
  <2>4. QED
    BY <1>7, <2>2, <2>3 DEF UnregisterSpawned
<1>8. ASSUME NEW c \in Conns, ReadError(c) PROVE TypeOK'
  BY <1>8 DEF ReadError
<1>9. ASSUME NEW c \in Conns, LockReader(c) PROVE TypeOK'
  BY <1>9 DEF LockReader, Announce, LockOwner
<1>10. ASSUME NEW c \in Conns, UnregisterReader(c) PROVE TypeOK'
  BY SMTT(30), <1>10 DEF UnregisterReader, Unregister, Acquired
<1>11. ASSUME NEW c \in Conns, ReaderClose(c) PROVE TypeOK'
  BY <1>11 DEF ReaderClose
<1>12. ASSUME NEW c \in Conns, Receive(c) PROVE TypeOK'
  BY <1>12 DEF Receive
<1>13. ASSUME NEW c \in Conns, OpenFrame(c) \/ NextWriterError(c) PROVE TypeOK'
  <2>1. CASE OpenFrame(c)
    <3>1. left' \in [Conns -> Nat]
      BY <2>1 DEF OpenFrame
    <3>2. QED
      BY <2>1, <3>1 DEF OpenFrame
  <2>2. CASE NextWriterError(c)
    BY <2>2 DEF NextWriterError
  <2>3. QED BY <1>13, <2>1, <2>2
<1>14. ASSUME NEW c \in Conns, Drain(c) PROVE TypeOK'
  <2>1. /\ send' \in [Conns -> Seq(Events)] /\ batch' \in [Conns -> Seq(Events)]
        /\ left' \in [Conns -> Nat]
    BY <1>14 DEF Drain
  <2>2. QED
    BY <1>14, <2>1 DEF Drain
<1>15. ASSUME NEW c \in Conns, Flush(c) PROVE TypeOK'
  BY <1>15 DEF Flush
<1>16. ASSUME NEW c \in Conns, FlushError(c) PROVE TypeOK'
  BY <1>16 DEF FlushError
<1>17. ASSUME NEW c \in Conns, ReceiveClosed(c) PROVE TypeOK'
  BY <1>17 DEF ReceiveClosed
<1>18. ASSUME NEW c \in Conns, PingError(c) PROVE TypeOK'
  BY <1>18 DEF PingError
<1>19. ASSUME NEW c \in Conns, WriterClose(c) PROVE TypeOK'
  BY <1>19 DEF WriterClose
<1>20. ASSUME NEW b \in Broadcasters, StartBroadcast(b) PROVE TypeOK'
  BY <1>20, MaxEventsAssumption DEF StartBroadcast, Events
<1>21. ASSUME NEW b \in Broadcasters, RLock(b) PROVE TypeOK'
  BY <1>21 DEF RLock
<1>22. ASSUME NEW b \in Broadcasters, NEW c \in Conns, Offer(b, c) PROVE TypeOK'
  <2>1. event[b] \in Events
    BY <1>22 DEF Offer
  <2>2. todo' \in [Broadcasters -> SUBSET Conns] /\ panic' \subseteq Conns
    BY <1>22 DEF Offer
  <2>3. QED
    BY <1>22, <2>1, <2>2, OfferTypes DEF Offer
<1>23. ASSUME NEW b \in Broadcasters, RUnlock(b) PROVE TypeOK'
  BY <1>23 DEF RUnlock
<1>24. CASE UNCHANGED vars
  BY <1>24
<1>25. QED
  BY <1>1, <1>2, <1>3, <1>4, <1>5, <1>6, <1>7, <1>8, <1>9, <1>10, <1>11, <1>12,
     <1>13, <1>14, <1>15, <1>16, <1>17, <1>18, <1>19, <1>20, <1>21, <1>22, <1>23, <1>24
     DEF Next, Serve, Spawned, ReadPump, WritePump, Broadcast

(* The lock's owner stays at its Lock call until it has run. *)
LEMMA LockStep == TypeOK /\ LockOwnerAtCall /\ FreshUntilRegistered /\ [Next]_vars => LockOwnerAtCall'
<1> SUFFICES ASSUME TypeOK /\ LockOwnerAtCall /\ FreshUntilRegistered, [Next]_vars PROVE LockOwnerAtCall'
  OBVIOUS
<1> USE DEF LockOwnerAtCall
<1>1. ASSUME NEW c \in Conns, Upgrade(c) PROVE LockOwnerAtCall'
  BY <1>1 DEF Upgrade, TypeOK
<1>2. ASSUME NEW c \in Conns, PeerGone(c) PROVE LockOwnerAtCall'
  BY <1>2 DEF PeerGone
<1>3. ASSUME NEW c \in Conns, LockRegister(c) PROVE LockOwnerAtCall'
  BY <1>3 DEF LockRegister, Announce, LockOwner
<1>4. ASSUME NEW c \in Conns, Register(c) PROVE LockOwnerAtCall'
  BY <1>4 DEF Register, Acquired
<1>5. ASSUME NEW c \in Conns, StartPumps(c) PROVE LockOwnerAtCall'
  <2>1. serve[c] # "register" /\ reader[c] # "unregister"
    BY <1>5 DEF StartPumps, FreshUntilRegistered
  <2>2. \A d \in Conns : d # c => serve'[d] = serve[d] /\ reader'[d] = reader[d]
    BY <1>5 DEF StartPumps, TypeOK
  <2>3. QED
    BY <1>5, <2>1, <2>2 DEF StartPumps
<1>6. ASSUME NEW c \in Conns, LockSpawned(c) PROVE LockOwnerAtCall'
  BY <1>6 DEF LockSpawned, Announce, LockOwner
<1>7. ASSUME NEW c \in Conns, UnregisterSpawned(c) PROVE LockOwnerAtCall'
  BY <1>7 DEF UnregisterSpawned, Unregister, Acquired
<1>8. ASSUME NEW c \in Conns, ReadError(c) PROVE LockOwnerAtCall'
  BY <1>8 DEF ReadError, TypeOK
<1>9. ASSUME NEW c \in Conns, LockReader(c) PROVE LockOwnerAtCall'
  BY <1>9 DEF LockReader, Announce, LockOwner
<1>10. ASSUME NEW c \in Conns, UnregisterReader(c) PROVE LockOwnerAtCall'
  BY <1>10 DEF UnregisterReader, Unregister, Acquired
<1>11. ASSUME NEW c \in Conns, ReaderClose(c) PROVE LockOwnerAtCall'
  BY <1>11 DEF ReaderClose, TypeOK
<1>12. ASSUME NEW c \in Conns, Receive(c) PROVE LockOwnerAtCall'
  BY <1>12 DEF Receive
<1>13. ASSUME NEW c \in Conns, OpenFrame(c) \/ NextWriterError(c) PROVE LockOwnerAtCall'
  BY <1>13 DEF OpenFrame, NextWriterError
<1>14. ASSUME NEW c \in Conns, Drain(c) PROVE LockOwnerAtCall'
  BY <1>14 DEF Drain
<1>15. ASSUME NEW c \in Conns, Flush(c) PROVE LockOwnerAtCall'
  BY <1>15 DEF Flush
<1>16. ASSUME NEW c \in Conns, FlushError(c) PROVE LockOwnerAtCall'
  BY <1>16 DEF FlushError
<1>17. ASSUME NEW c \in Conns, ReceiveClosed(c) PROVE LockOwnerAtCall'
  BY <1>17 DEF ReceiveClosed
<1>18. ASSUME NEW c \in Conns, PingError(c) PROVE LockOwnerAtCall'
  BY <1>18 DEF PingError
<1>19. ASSUME NEW c \in Conns, WriterClose(c) PROVE LockOwnerAtCall'
  BY <1>19 DEF WriterClose
<1>20. ASSUME NEW b \in Broadcasters, StartBroadcast(b) PROVE LockOwnerAtCall'
  BY <1>20 DEF StartBroadcast
<1>21. ASSUME NEW b \in Broadcasters, RLock(b) PROVE LockOwnerAtCall'
  BY <1>21 DEF RLock
<1>22. ASSUME NEW b \in Broadcasters, NEW c \in Conns, Offer(b, c) PROVE LockOwnerAtCall'
  <2>1. \A d \in Conns : spawned[d] > 0 => spawned'[d] > 0
    <3>1. spawned \in [Conns -> Nat]
      BY DEF TypeOK
    <3>2. spawned' = [spawned EXCEPT ![c] = spawned[c] + 1] \/ spawned' = spawned
      BY <1>22 DEF Offer
    <3>3. QED BY <3>1, <3>2
  <2>2. QED BY <1>22, <2>1 DEF Offer
<1>23. ASSUME NEW b \in Broadcasters, RUnlock(b) PROVE LockOwnerAtCall'
  BY <1>23 DEF RUnlock
<1>24. CASE UNCHANGED vars
  BY <1>24
<1>25. QED
  BY <1>1, <1>2, <1>3, <1>4, <1>5, <1>6, <1>7, <1>8, <1>9, <1>10, <1>11, <1>12,
     <1>13, <1>14, <1>15, <1>16, <1>17, <1>18, <1>19, <1>20, <1>21, <1>22, <1>23, <1>24
     DEF Next, Serve, Spawned, ReadPump, WritePump, Broadcast

(* The map, the closed channels and the range loops stay consistent. *)
LEMMA ChannelStep == HubInv /\ [Next]_vars => ChannelInv'
<1> SUFFICES ASSUME HubInv, [Next]_vars PROVE ChannelInv'
  OBVIOUS
<1> USE DEF HubInv, TypeOK, ChannelInv, MapHasOpenChannels, LoopsRangeOverMap, NoPanic, FreshUntilRegistered
<1>1. ASSUME NEW c \in Conns, Upgrade(c) PROVE ChannelInv'
  BY <1>1 DEF Upgrade
<1>2. ASSUME NEW c \in Conns, PeerGone(c) PROVE ChannelInv'
  BY <1>2 DEF PeerGone
<1>3. ASSUME NEW c \in Conns, LockRegister(c) PROVE ChannelInv'
  BY <1>3 DEF LockRegister, Announce, LockOwner
<1>4. ASSUME NEW c \in Conns, Register(c) PROVE ChannelInv'
  <2>1. serve[c] = "register" /\ ~ReadLocked
    BY <1>4 DEF Register, Acquired, LockOwnerAtCall
  <2>2. QED
    BY <1>4, <2>1 DEF Register, ReadLocked
<1>5. ASSUME NEW c \in Conns, StartPumps(c) PROVE ChannelInv'
  BY <1>5 DEF StartPumps
<1>6. ASSUME NEW c \in Conns, LockSpawned(c) PROVE ChannelInv'
  BY <1>6 DEF LockSpawned, Announce, LockOwner
<1>7. ASSUME NEW c \in Conns, UnregisterSpawned(c) PROVE ChannelInv'
  BY <1>7 DEF UnregisterSpawned, Unregister, Acquired, ReadLocked
<1>8. ASSUME NEW c \in Conns, ReadError(c) PROVE ChannelInv'
  BY <1>8 DEF ReadError
<1>9. ASSUME NEW c \in Conns, LockReader(c) PROVE ChannelInv'
  BY <1>9 DEF LockReader, Announce, LockOwner
<1>10. ASSUME NEW c \in Conns, UnregisterReader(c) PROVE ChannelInv'
  <2>1. reader[c] = "unregister" /\ ~ReadLocked
    BY <1>10 DEF UnregisterReader, Acquired, LockOwnerAtCall
  <2>2. QED
    BY <1>10, <2>1 DEF UnregisterReader, Unregister, ReadLocked
<1>11. ASSUME NEW c \in Conns, ReaderClose(c) PROVE ChannelInv'
  BY <1>11 DEF ReaderClose
<1>12. ASSUME NEW c \in Conns, Receive(c) PROVE ChannelInv'
  BY <1>12 DEF Receive
<1>13. ASSUME NEW c \in Conns, OpenFrame(c) \/ NextWriterError(c) PROVE ChannelInv'
  BY <1>13 DEF OpenFrame, NextWriterError
<1>14. ASSUME NEW c \in Conns, Drain(c) PROVE ChannelInv'
  BY <1>14 DEF Drain
<1>15. ASSUME NEW c \in Conns, Flush(c) PROVE ChannelInv'
  BY <1>15 DEF Flush
<1>16. ASSUME NEW c \in Conns, FlushError(c) PROVE ChannelInv'
  BY <1>16 DEF FlushError
<1>17. ASSUME NEW c \in Conns, ReceiveClosed(c) PROVE ChannelInv'
  BY <1>17 DEF ReceiveClosed
<1>18. ASSUME NEW c \in Conns, PingError(c) PROVE ChannelInv'
  BY <1>18 DEF PingError
<1>19. ASSUME NEW c \in Conns, WriterClose(c) PROVE ChannelInv'
  BY <1>19 DEF WriterClose
<1>20. ASSUME NEW b \in Broadcasters, StartBroadcast(b) PROVE ChannelInv'
  BY <1>20 DEF StartBroadcast
<1>21. ASSUME NEW b \in Broadcasters, RLock(b) PROVE ChannelInv'
  BY <1>21 DEF RLock
<1>22. ASSUME NEW b \in Broadcasters, NEW c \in Conns, Offer(b, c) PROVE ChannelInv'
  BY <1>22 DEF Offer
<1>23. ASSUME NEW b \in Broadcasters, RUnlock(b) PROVE ChannelInv'
  BY <1>23 DEF RUnlock
<1>24. CASE UNCHANGED vars
  BY <1>24
<1>25. QED
  BY <1>1, <1>2, <1>3, <1>4, <1>5, <1>6, <1>7, <1>8, <1>9, <1>10, <1>11, <1>12,
     <1>13, <1>14, <1>15, <1>16, <1>17, <1>18, <1>19, <1>20, <1>21, <1>22, <1>23, <1>24
     DEF Next, Serve, Spawned, ReadPump, WritePump, Broadcast

(* At start nobody is in the map and nothing is closed. *)
LEMMA HubInvInit == Init => HubInv
  BY MaxEventsAssumption DEF Init, HubInv, ChannelInv, TypeOK, LockOwnerAtCall, MapHasOpenChannels,
     LoopsRangeOverMap, FreshUntilRegistered, NoPanic

(* The inductive invariant of the hub holds in every behaviour. *)
LEMMA HubInvAlways == Spec => []HubInv
  BY HubInvInit, TypeStep, LockStep, ChannelStep, PTL DEF Spec, HubInv, ChannelInv

(* The value domains of the hub's state are preserved by every step. *)
THEOREM TypeCorrect == Spec => []TypeOK
<1>1. HubInv => TypeOK
  BY DEF HubInv, ChannelInv
<1>2. QED
  BY <1>1, HubInvAlways, PTL

(* No send on a closed channel and no double close, for any buffer size,    *)
(* any number of connections and any number of concurrent broadcasts.       *)
THEOREM HubNeverPanics == Spec => []NoPanic
<1>1. HubInv => NoPanic
  BY DEF HubInv, ChannelInv
<1>2. QED
  BY <1>1, HubInvAlways, PTL
-----------------------------------------------------------------------------
(***************************************************************************)
(* What reaches a connection.  ServeBeforePumps is the order in ServeWS: no *)
(* writePump before the client is registered, no overflow before that       *)
(* either; FifoInv is the path of an event through the channel and the open *)
(* frame, which is empty when writePump is back at its select; OnceInv is   *)
(* why no event is put in a channel twice: an event belongs to one          *)
(* broadcaster at a time, and a channel that is still on that broadcaster's *)
(* list has not had it.                                                     *)
(***************************************************************************)
ServeBeforePumps ==
  \A c \in Conns :
    /\ serve[c] # "done" => writer[c] = "idle"
    /\ serve[c] \in {"idle", "register"} => spawned[c] = 0

FifoInv ==
  \A c \in Conns :
    /\ accepted[c] = delivered[c] \o batch[c] \o send[c]
    /\ writer[c] \in {"idle", "select"} => batch[c] = <<>>
    /\ writer[c] \in {"frame", "drain"} => batch[c] # <<>>

\* b has yet to offer its event to c.
Pending(b, c) == cast[b] = "rlock" \/ (cast[b] = "loop" /\ c \in todo[b])

HasEvent(s, e) == \E i \in DOMAIN s : s[i] = e

EventsBelowPublished ==
  /\ \A c \in Conns : \A i \in DOMAIN accepted[c] : accepted[c][i] <= published
  /\ \A b \in Broadcasters : cast[b] # "idle" => event[b] <= published
OneCasterPerEvent ==
  \A a, b \in Broadcasters :
    cast[a] # "idle" /\ cast[b] # "idle" /\ event[a] = event[b] => a = b
NotYetOffered ==
  \A b \in Broadcasters, c \in Conns : Pending(b, c) => ~HasEvent(accepted[c], event[b])
NoRepeats(s) == \A i, j \in DOMAIN s : s[i] = s[j] => i = j
OnceInv ==
  /\ EventsBelowPublished
  /\ OneCasterPerEvent
  /\ NotYetOffered
  /\ \A c \in Conns : NoRepeats(accepted[c])

(* The steps that touch a channel, a frame or a pump; every other step leaves *)
(* all of that alone.                                                         *)
LEMMA FlowActions ==
  ASSUME [Next]_vars
  PROVE  \/ UNCHANGED <<send, batch, left, delivered, accepted, writer>>
         \/ \E c \in Conns : \/ StartPumps(c) \/ Receive(c) \/ OpenFrame(c) \/ NextWriterError(c)
                             \/ Drain(c) \/ Flush(c) \/ FlushError(c) \/ ReceiveClosed(c) \/ PingError(c)
                             \/ WriterClose(c)
         \/ \E b \in Broadcasters, c \in Conns : Offer(b, c)
<1>1. ASSUME NEW c \in Conns, Upgrade(c) \/ PeerGone(c)
      PROVE  UNCHANGED <<send, batch, left, delivered, accepted, writer>>
  BY <1>1 DEF Upgrade, PeerGone
<1>2. ASSUME NEW c \in Conns, Serve(c), ~StartPumps(c)
      PROVE  UNCHANGED <<send, batch, left, delivered, accepted, writer>>
  BY <1>2 DEF Serve, LockRegister, Register
<1>3. ASSUME NEW c \in Conns, Spawned(c)
      PROVE  UNCHANGED <<send, batch, left, delivered, accepted, writer>>
  BY <1>3 DEF Spawned, LockSpawned, UnregisterSpawned
<1>4. ASSUME NEW c \in Conns, ReadPump(c)
      PROVE  UNCHANGED <<send, batch, left, delivered, accepted, writer>>
  BY <1>4 DEF ReadPump, ReadError, LockReader, UnregisterReader, ReaderClose
<1>5. ASSUME NEW b \in Broadcasters, StartBroadcast(b) \/ RLock(b) \/ RUnlock(b)
      PROVE  UNCHANGED <<send, batch, left, delivered, accepted, writer>>
  BY <1>5 DEF StartBroadcast, RLock, RUnlock
<1>6. CASE UNCHANGED vars
  BY <1>6
<1>7. QED
  BY <1>1, <1>2, <1>3, <1>4, <1>5, <1>6 DEF Next, WritePump, Broadcast

(* The drain loop takes no more than it counted, and nothing else takes from *)
(* the channel.                                                              *)
LEMMA DrainStep == TypeOK /\ DrainNeverBlocks /\ [Next]_vars => DrainNeverBlocks'
<1> SUFFICES ASSUME TypeOK, DrainNeverBlocks, [Next]_vars PROVE DrainNeverBlocks'
  OBVIOUS
<1> USE DEF TypeOK, DrainNeverBlocks
<1>1. CASE UNCHANGED <<send, batch, left, delivered, accepted, writer>>
  BY <1>1
<1>2. ASSUME NEW c \in Conns, StartPumps(c) PROVE DrainNeverBlocks'
  BY <1>2 DEF StartPumps
<1>3. ASSUME NEW c \in Conns, Receive(c) \/ NextWriterError(c) PROVE DrainNeverBlocks'
  BY <1>3 DEF Receive, NextWriterError
<1>4. ASSUME NEW c \in Conns, OpenFrame(c) PROVE DrainNeverBlocks'
  <2>1. Len(send[c]) \in Nat
    OBVIOUS
  <2>2. QED BY <1>4, <2>1 DEF OpenFrame
<1>5. ASSUME NEW c \in Conns, Drain(c) PROVE DrainNeverBlocks'
  <2>1. Len(Tail(send[c])) = Len(send[c]) - 1
    BY <1>5 DEF Drain
  <2>2. left[c] <= Len(send[c]) /\ left[c] \in Nat /\ Len(send[c]) \in Nat
    BY <1>5 DEF Drain
  <2>3. left'[c] = left[c] - 1 /\ send'[c] = Tail(send[c])
    BY <1>5 DEF Drain
  <2>4. left'[c] <= Len(send'[c])
    BY <2>1, <2>2, <2>3
  <2>5. QED BY <1>5, <2>4 DEF Drain
<1>6. ASSUME NEW c \in Conns, Flush(c) PROVE DrainNeverBlocks'
  BY <1>6 DEF Flush
<1>7. ASSUME NEW c \in Conns, FlushError(c) \/ ReceiveClosed(c) \/ PingError(c) \/ WriterClose(c)
      PROVE  DrainNeverBlocks'
  BY <1>7 DEF FlushError, ReceiveClosed, PingError, WriterClose
<1>8. ASSUME NEW b \in Broadcasters, NEW c \in Conns, Offer(b, c) PROVE DrainNeverBlocks'
  <2>1. event[b] \in Events
    BY <1>8 DEF Offer
  <2>2. Len(Append(send[c], event[b])) = Len(send[c]) + 1
    BY <2>1
  <2>3. \A d \in Conns : Len(send'[d]) >= Len(send[d])
    <3>1. send' = send \/ send' = [send EXCEPT ![c] = Append(send[c], event[b])]
      BY <1>8 DEF Offer
    <3>2. \A d \in Conns : Len(send[d]) \in Nat
      OBVIOUS
    <3>3. \A d \in Conns : send'[d] = send[d] \/ (d = c /\ send'[d] = Append(send[c], event[b]))
      BY <3>1
    <3>4. ASSUME NEW d \in Conns PROVE Len(send'[d]) >= Len(send[d])
      <4>1. CASE send'[d] = send[d]
        BY <3>2, <4>1
      <4>2. CASE d = c /\ send'[d] = Append(send[c], event[b])
        BY <2>2, <3>2, <4>2
      <4>3. QED BY <3>3, <4>1, <4>2
    <3>5. QED BY <3>4
  <2>4. send' \in [Conns -> Seq(Events)]
    BY <1>8, <2>1, OfferTypes
  <2>5. QED
    BY SMTT(30), <1>8, <2>3, <2>4 DEF Offer
<1>9. QED
  BY <1>1, <1>2, <1>3, <1>4, <1>5, <1>6, <1>7, <1>8, FlowActions

(* The drain loop of writePump never waits for a message, for any buffer    *)
(* size and any interleaving with broadcasts and unregistrations.           *)
THEOREM DrainLoopNeverBlocks == Spec => []DrainNeverBlocks
<1>1. Init => DrainNeverBlocks
  BY DEF Init, DrainNeverBlocks
<1>2. HubInv /\ DrainNeverBlocks /\ [Next]_vars => DrainNeverBlocks'
  BY DrainStep DEF HubInv
<1>3. QED
  BY <1>1, <1>2, HubInvAlways, PTL DEF Spec

(* Concatenation is associative, for sequences of events. *)
LEMMA ConcatEvents == \A x, y, z \in Seq(Events) : x \o y \o z = x \o (y \o z)
  BY ConcatAssociative

(* Moving the head of the channel to the end of the frame. *)
LEMMA TakeFirst ==
  \A d, b, s \in Seq(Events) : s # <<>> =>
    /\ d \o b \o s = d \o Append(b, Head(s)) \o Tail(s)
    /\ b \o s = Append(b, Head(s)) \o Tail(s)
    /\ Append(b, Head(s)) # <<>>
<1> SUFFICES ASSUME NEW d \in Seq(Events), NEW b \in Seq(Events), NEW s \in Seq(Events), s # <<>>
             PROVE  /\ d \o b \o s = d \o Append(b, Head(s)) \o Tail(s)
                    /\ b \o s = Append(b, Head(s)) \o Tail(s)
                    /\ Append(b, Head(s)) # <<>>
  BY Zenon
<1> DEFINE h == Head(s)
           t == Tail(s)
           x == Append(b, h)
<1>1. h \in Events /\ t \in Seq(Events)
  BY HeadTailProperties
<1>2. x \in Seq(Events) /\ x # <<>>
  BY <1>1, AppendProperties
<1>a. x = b \o <<h>>
  BY <1>1, AppendIsConcat
<1>3. s = <<h>> \o t /\ <<h>> \in Seq(Events)
  OBVIOUS
<1> HIDE DEF h, t, x
<1>4. b \o (<<h>> \o t) = (b \o <<h>>) \o t
  BY <1>1, <1>3, ConcatEvents, ZenonT(30)
<1>5. b \o s = x \o t
  BY <1>a, <1>3, <1>4, Zenon
<1>6. d \o b \o s = d \o (b \o s)
  BY ConcatEvents, Zenon
<1>7. d \o x \o t = d \o (x \o t)
  BY <1>1, <1>2, ConcatEvents, ZenonT(30)
<1>8. d \o b \o s = d \o x \o t
  BY <1>5, <1>6, <1>7, Zenon
<1>9. QED
  BY <1>2, <1>5, <1>8, Zenon DEF h, t, x

(* Appending to the last of three sequences appends to the whole. *)
LEMMA AppendLast ==
  \A d, b, s \in Seq(Events), e \in Events : Append(d \o b \o s, e) = d \o b \o Append(s, e)
<1> SUFFICES ASSUME NEW d \in Seq(Events), NEW b \in Seq(Events), NEW s \in Seq(Events), NEW e \in Events
             PROVE  Append(d \o b \o s, e) = d \o b \o Append(s, e)
  BY Zenon
<1>1. ASSUME NEW x \in Seq(Events) PROVE Append(x, e) = x \o <<e>>
  BY AppendIsConcat
<1>2. <<e>> \in Seq(Events) /\ b \o s \in Seq(Events) /\ d \o b \in Seq(Events) /\ d \o b \o s \in Seq(Events)
  OBVIOUS
<1>3. \A x \in Seq(Events) : x \o s \o <<e>> = x \o (s \o <<e>>)
  BY <1>2, ConcatAssociative
<1>4. QED
  BY <1>1, <1>2, <1>3

(* The same for the frame and the channel alone. *)
LEMMA AppendToChannel ==
  \A b, s \in Seq(Events), e \in Events : Append(b \o s, e) = b \o Append(s, e)
<1> SUFFICES ASSUME NEW b \in Seq(Events), NEW s \in Seq(Events), NEW e \in Events
             PROVE  Append(b \o s, e) = b \o Append(s, e)
  BY Zenon
<1>1. Append(s, e) = s \o <<e>> /\ <<e>> \in Seq(Events) /\ b \o s \in Seq(Events)
  BY AppendIsConcat
<1>2. Append(b \o s, e) = (b \o s) \o <<e>>
  BY <1>1, AppendIsConcat
<1>3. b \o s \o <<e>> = b \o (s \o <<e>>)
  <2>1. <<e>> \in Seq(Events)
    OBVIOUS
  <2>2. QED BY <2>1, ConcatAssociative
<1>4. QED
  BY <1>1, <1>2, <1>3, Zenon

(* A sequence without repetitions keeps none when a new element is added. *)
LEMMA AppendNew ==
  ASSUME NEW S, NEW s \in Seq(S), NEW e \in S, NoRepeats(s), ~HasEvent(s, e)
  PROVE  NoRepeats(Append(s, e))
  BY DEF NoRepeats, HasEvent

(* What an appended sequence holds. *)
LEMMA AppendHas ==
  ASSUME NEW S, NEW s \in Seq(S), NEW e \in S, NEW x
  PROVE  HasEvent(Append(s, e), x) <=> HasEvent(s, x) \/ x = e
<1>1. /\ DOMAIN Append(s, e) = DOMAIN s \union {Len(s) + 1}
      /\ \A i \in DOMAIN s : Append(s, e)[i] = s[i]
      /\ Append(s, e)[Len(s) + 1] = e
  OBVIOUS
<1>2. QED
  BY <1>1 DEF HasEvent

(* Only StartPumps starts a writePump, and only a client that is in the map can
   overflow. *)
LEMMA ServeStep == HubInv /\ ServeBeforePumps /\ [Next]_vars => ServeBeforePumps'
<1> SUFFICES ASSUME HubInv, ServeBeforePumps, [Next]_vars PROVE ServeBeforePumps'
  OBVIOUS
<1> USE DEF ServeBeforePumps
<1>0. /\ writer \in [Conns -> {"idle", "select", "frame", "drain", "close", "done"}]
      /\ serve \in [Conns -> {"idle", "register", "start", "done"}]
      /\ spawned \in [Conns -> Nat]
  BY DEF HubInv, TypeOK
<1>1. ASSUME NEW c \in Conns, Upgrade(c) PROVE ServeBeforePumps'
  BY <1>0, <1>1 DEF Upgrade
<1>2. ASSUME NEW c \in Conns, PeerGone(c) PROVE ServeBeforePumps'
  BY <1>2 DEF PeerGone
<1>3. ASSUME NEW c \in Conns, Serve(c) PROVE ServeBeforePumps'
  <2>1. ASSUME Register(c) PROVE serve[c] = "register"
    BY <2>1 DEF Register, Acquired, HubInv, LockOwnerAtCall
  <2>2. QED
    BY <1>0, <1>3, <2>1 DEF Serve, LockRegister, Register, StartPumps
<1>4. ASSUME NEW c \in Conns, LockSpawned(c) PROVE ServeBeforePumps'
  BY <1>4 DEF LockSpawned
<1>5. ASSUME NEW c \in Conns, UnregisterSpawned(c) PROVE ServeBeforePumps'
  <2>1. spawned[c] > 0
    BY <1>5 DEF UnregisterSpawned, Acquired, HubInv, LockOwnerAtCall
  <2>2. QED
    BY <1>0, <1>5, <2>1 DEF UnregisterSpawned
<1>6. ASSUME NEW c \in Conns, ReadPump(c) PROVE ServeBeforePumps'
  BY <1>6 DEF ReadPump, ReadError, LockReader, UnregisterReader, ReaderClose
<1>7. ASSUME NEW c \in Conns, WritePump(c) \/ PingError(c) PROVE ServeBeforePumps'
  <2>1. /\ writer[c] # "idle"
        /\ \A d \in Conns : d # c => writer'[d] = writer[d]
        /\ UNCHANGED <<serve, spawned>>
    BY <1>0, <1>7 DEF WritePump, Receive, OpenFrame, NextWriterError, Drain, Flush, FlushError,
       ReceiveClosed, WriterClose, PingError
  <2>2. QED
    BY <2>1
<1>8. ASSUME NEW b \in Broadcasters, StartBroadcast(b) \/ RLock(b) \/ RUnlock(b)
      PROVE  ServeBeforePumps'
  BY <1>8 DEF StartBroadcast, RLock, RUnlock
<1>9. ASSUME NEW b \in Broadcasters, NEW c \in Conns, Offer(b, c) PROVE ServeBeforePumps'
  <2>1. c \in clients
    BY <1>9 DEF Offer, HubInv, ChannelInv, LoopsRangeOverMap
  <2>2. serve[c] \notin {"idle", "register"}
    BY <2>1 DEF HubInv, ChannelInv, FreshUntilRegistered
  <2>3. \A d \in Conns : d # c => spawned'[d] = spawned[d]
    BY <1>0, <1>9 DEF Offer
  <2>4. QED
    BY <1>9, <2>2, <2>3 DEF Offer
<1>10. CASE UNCHANGED vars
  BY <1>10
<1>11. QED
  BY <1>1, <1>2, <1>3, <1>4, <1>5, <1>6, <1>7, <1>8, <1>9, <1>10 DEF Next, Spawned, Broadcast

(* No pump runs before its client is registered, in every behaviour. *)
LEMMA ServeInvAlways == Spec => []ServeBeforePumps
<1>1. Init => ServeBeforePumps
  <2>1. Init => \A c \in Conns : writer[c] = "idle" /\ spawned[c] = 0
    BY DEF Init
  <2>2. QED BY <2>1 DEF ServeBeforePumps
<1>2. QED
  BY <1>1, ServeStep, HubInvAlways, PTL DEF Spec

(* An event goes from the channel to the frame to the wire, oldest first; the
   frame is empty exactly when writePump is back at its select. *)
LEMMA FifoStep == TypeOK /\ ServeBeforePumps /\ FifoInv /\ [Next]_vars => FifoInv'
<1> SUFFICES ASSUME TypeOK, ServeBeforePumps, FifoInv, [Next]_vars PROVE FifoInv'
  OBVIOUS
<1> USE DEF FifoInv
<1>0. /\ send \in [Conns -> Seq(Events)] /\ batch \in [Conns -> Seq(Events)]
      /\ accepted \in [Conns -> Seq(Events)] /\ delivered \in [Conns -> Seq(Events)]
      /\ writer \in [Conns -> {"idle", "select", "frame", "drain", "close", "done"}]
  BY DEF TypeOK
<1>b. \A c \in Conns : send[c] \in Seq(Events) /\ batch[c] \in Seq(Events) /\ delivered[c] \in Seq(Events)
  BY <1>0
<1>1. CASE UNCHANGED <<send, batch, left, delivered, accepted, writer>>
  BY <1>1
<1>2. ASSUME NEW c \in Conns, StartPumps(c) PROVE FifoInv'
  <2>1. writer[c] = "idle"
    BY <1>2 DEF StartPumps, ServeBeforePumps
  <2>2. QED
    BY <1>0, <1>2, <2>1 DEF StartPumps
<1>3. ASSUME NEW c \in Conns, Receive(c) PROVE FifoInv'
  <2>1. batch[c] = <<>> /\ send[c] # <<>>
    BY <1>3 DEF Receive
  <2>2. <<Head(send[c])>> = Append(<<>>, Head(send[c]))
    BY <1>0, <2>1
  <2>3. /\ delivered[c] \o batch[c] \o send[c]
             = delivered[c] \o <<Head(send[c])>> \o Tail(send[c])
        /\ <<Head(send[c])>> # <<>>
    <3>1. <<>> \in Seq(Events)
      OBVIOUS
    <3>2. /\ delivered[c] \o <<>> \o send[c]
               = delivered[c] \o Append(<<>>, Head(send[c])) \o Tail(send[c])
          /\ Append(<<>>, Head(send[c])) # <<>>
      BY <1>b, <2>1, <3>1, TakeFirst, ZenonT(30)
    <3>3. QED BY <2>1, <2>2, <3>2, Zenon
  <2>4. QED
    BY <1>0, <1>3, <2>3 DEF Receive
<1>4. ASSUME NEW c \in Conns, OpenFrame(c) \/ NextWriterError(c) PROVE FifoInv'
  BY <1>0, <1>4 DEF OpenFrame, NextWriterError
<1>5. ASSUME NEW c \in Conns, Drain(c) PROVE FifoInv'
  <2>1. writer[c] = "drain" /\ send[c] # <<>>
    BY <1>5 DEF Drain
  <2>2. /\ delivered[c] \o batch[c] \o send[c]
             = delivered[c] \o Append(batch[c], Head(send[c])) \o Tail(send[c])
        /\ Append(batch[c], Head(send[c])) # <<>>
    <3> HIDE DEF FifoInv
    <3>1. send[c] \in Seq(Events) /\ batch[c] \in Seq(Events) /\ delivered[c] \in Seq(Events)
      BY <1>b
    <3>2. QED BY <2>1, <3>1, TakeFirst, Zenon
  <2>3. QED
    BY <1>0, <1>5, <2>1, <2>2 DEF Drain
<1>6. ASSUME NEW c \in Conns, Flush(c) PROVE FifoInv'
  <2>1. delivered[c] \o batch[c] \in Seq(Events)
    BY <1>0
  <2>2. (delivered[c] \o batch[c]) \o <<>> = delivered[c] \o batch[c]
    BY <2>1, ConcatEmptySeq
  <2>3. QED
    BY <1>0, <1>6, <2>2 DEF Flush
<1>7. ASSUME NEW c \in Conns, FlushError(c) \/ ReceiveClosed(c) \/ PingError(c) \/ WriterClose(c)
      PROVE  FifoInv'
  BY <1>0, <1>7 DEF FlushError, ReceiveClosed, PingError, WriterClose
<1>8. ASSUME NEW b \in Broadcasters, NEW c \in Conns, Offer(b, c) PROVE FifoInv'
  <2>1. event[b] \in Events
    BY <1>8 DEF Offer, TypeOK
  <2>2. Append(delivered[c] \o batch[c] \o send[c], event[b])
          = delivered[c] \o batch[c] \o Append(send[c], event[b])
    BY <1>b, AppendLast, <2>1, Zenon
  <2>3. \/ /\ send' = [send EXCEPT ![c] = Append(send[c], event[b])]
           /\ accepted' = [accepted EXCEPT ![c] = Append(accepted[c], event[b])]
        \/ send' = send /\ accepted' = accepted
    BY <1>8 DEF Offer
  <2>4. QED
    BY <1>0, <1>8, <2>2, <2>3 DEF Offer
<1>9. QED
  BY <1>1, <1>2, <1>3, <1>4, <1>5, <1>6, <1>7, <1>8, FlowActions

(* The steps of the broadcasters; no other step touches a broadcaster or what
   the channels have accepted. *)
LEMMA CastActions ==
  ASSUME [Next]_vars
  PROVE  \/ UNCHANGED <<cast, event, todo, published, expected, accepted>>
         \/ \E b \in Broadcasters : StartBroadcast(b) \/ RLock(b) \/ RUnlock(b)
         \/ \E b \in Broadcasters, c \in Conns : Offer(b, c)
<1>1. ASSUME NEW c \in Conns, Upgrade(c) \/ PeerGone(c) \/ PingError(c)
      PROVE  UNCHANGED <<cast, event, todo, published, expected, accepted>>
  BY <1>1 DEF Upgrade, PeerGone, PingError
<1>2. ASSUME NEW c \in Conns, Serve(c)
      PROVE  UNCHANGED <<cast, event, todo, published, expected, accepted>>
  BY <1>2 DEF Serve, LockRegister, Register, StartPumps
<1>3. ASSUME NEW c \in Conns, Spawned(c)
      PROVE  UNCHANGED <<cast, event, todo, published, expected, accepted>>
  BY <1>3 DEF Spawned, LockSpawned, UnregisterSpawned
<1>4. ASSUME NEW c \in Conns, ReadPump(c)
      PROVE  UNCHANGED <<cast, event, todo, published, expected, accepted>>
  BY <1>4 DEF ReadPump, ReadError, LockReader, UnregisterReader, ReaderClose
<1>5. ASSUME NEW c \in Conns, WritePump(c)
      PROVE  UNCHANGED <<cast, event, todo, published, expected, accepted>>
  BY <1>5 DEF WritePump, Receive, OpenFrame, NextWriterError, Drain, Flush, FlushError, ReceiveClosed, WriterClose
<1>6. CASE UNCHANGED vars
  BY <1>6
<1>7. QED
  BY <1>1, <1>2, <1>3, <1>4, <1>5, <1>6 DEF Next, Broadcast

(* Every broadcaster has an event of its own, and no channel is given the same
   event twice. *)
LEMMA OnceStep == TypeOK /\ OnceInv /\ [Next]_vars => OnceInv'
<1> SUFFICES ASSUME TypeOK, OnceInv, [Next]_vars PROVE OnceInv'
  OBVIOUS
<1>0. /\ accepted \in [Conns -> Seq(Events)]
      /\ cast \in [Broadcasters -> {"idle", "rlock", "loop"}]
      /\ event \in [Broadcasters -> 0 .. MaxEvents]
      /\ \A b \in Broadcasters : cast[b] # "idle" => event[b] \in Events
      /\ todo \in [Broadcasters -> SUBSET Conns]
      /\ published \in Nat
      /\ Events \subseteq Nat
  BY MaxEventsAssumption DEF TypeOK, Events
<1>a. \A c \in Conns : \A i \in DOMAIN accepted[c] : accepted[c][i] \in Nat
  <2>1. \A s \in Seq(Events) : \A i \in DOMAIN s : s[i] \in Events
    OBVIOUS
  <2>2. QED BY <1>0, <2>1
<1>1. CASE UNCHANGED <<cast, event, todo, published, expected, accepted>>
  BY <1>1 DEF OnceInv, EventsBelowPublished, OneCasterPerEvent, NotYetOffered, Pending
<1>2. ASSUME NEW b \in Broadcasters, StartBroadcast(b) PROVE OnceInv'
  <2>0. /\ cast[b] = "idle" /\ published' = published + 1
        /\ event' = [event EXCEPT ![b] = published + 1]
        /\ cast' = [cast EXCEPT ![b] = "rlock"]
        /\ UNCHANGED <<todo, accepted>>
    BY <1>2 DEF StartBroadcast
  <2>1. EventsBelowPublished'
    BY <1>0, <1>a, <2>0 DEF OnceInv, EventsBelowPublished
  <2>2. OneCasterPerEvent'
    BY <1>0, <2>0 DEF OnceInv, EventsBelowPublished, OneCasterPerEvent
  <2>3. \A c \in Conns : ~HasEvent(accepted[c], published + 1)
    BY <1>0, <1>a DEF OnceInv, EventsBelowPublished, HasEvent
  <2>4. NotYetOffered'
    BY <1>0, <2>0, <2>3 DEF OnceInv, NotYetOffered, Pending
  <2>5. QED
    BY <2>0, <2>1, <2>2, <2>4 DEF OnceInv
<1>3. ASSUME NEW b \in Broadcasters, RLock(b) PROVE OnceInv'
  <2>0. /\ cast[b] = "rlock" /\ cast' = [cast EXCEPT ![b] = "loop"]
        /\ todo' = [todo EXCEPT ![b] = clients]
        /\ UNCHANGED <<event, published, accepted>>
    BY <1>3 DEF RLock
  <2>1. EventsBelowPublished' /\ OneCasterPerEvent'
    BY <1>0, <2>0 DEF OnceInv, EventsBelowPublished, OneCasterPerEvent
  <2>2. NotYetOffered'
    BY <1>0, <2>0 DEF OnceInv, NotYetOffered, Pending
  <2>3. QED
    BY <2>0, <2>1, <2>2 DEF OnceInv
<1>4. ASSUME NEW b \in Broadcasters, RUnlock(b) PROVE OnceInv'
  <2>0. /\ cast[b] = "loop" /\ cast' = [cast EXCEPT ![b] = "idle"]
        /\ UNCHANGED <<event, todo, published, accepted>>
    BY <1>4 DEF RUnlock
  <2>1. EventsBelowPublished' /\ OneCasterPerEvent' /\ NotYetOffered'
    BY <1>0, <2>0 DEF OnceInv, EventsBelowPublished, OneCasterPerEvent, NotYetOffered, Pending
  <2>2. QED
    BY <2>0, <2>1 DEF OnceInv
<1>5. ASSUME NEW b \in Broadcasters, NEW c \in Conns, Offer(b, c) PROVE OnceInv'
  <2>0. /\ cast[b] = "loop" /\ c \in todo[b] /\ event[b] \in Events
        /\ todo' = [todo EXCEPT ![b] = todo[b] \ {c}]
        /\ UNCHANGED <<cast, event, published>>
    BY <1>0, <1>5 DEF Offer
  <2>1. ~HasEvent(accepted[c], event[b]) /\ event[b] <= published
    BY <2>0 DEF OnceInv, EventsBelowPublished, NotYetOffered, Pending
  <2>2. CASE accepted' = accepted
    <3>1. NotYetOffered'
      BY <1>0, <2>0, <2>2 DEF OnceInv, NotYetOffered, Pending
    <3>2. QED
      BY <2>0, <2>2, <3>1 DEF OnceInv, EventsBelowPublished, OneCasterPerEvent
  <2>3. CASE accepted' = [accepted EXCEPT ![c] = Append(accepted[c], event[b])]
    <3>1. \A d \in Conns : d # c => accepted'[d] = accepted[d]
      BY <1>0, <2>3
    <3>2. accepted'[c] = Append(accepted[c], event[b]) /\ accepted[c] \in Seq(Events)
      BY <1>0, <2>3
    <3>3. EventsBelowPublished'
      <4>1. \A i \in DOMAIN accepted'[c] : accepted'[c][i] = event[b] \/ \E j \in DOMAIN accepted[c] : accepted'[c][i] = accepted[c][j]
        BY <2>0, <3>2
      <4>2. QED
        BY <2>0, <2>1, <3>1, <4>1 DEF OnceInv, EventsBelowPublished
    <3>4. OneCasterPerEvent'
      BY <2>0 DEF OnceInv, OneCasterPerEvent
    <3>5. \A x : HasEvent(accepted'[c], x) <=> HasEvent(accepted[c], x) \/ x = event[b]
      BY <2>0, <3>2, AppendHas
    <3>6. ASSUME NEW a \in Broadcasters, NEW d \in Conns, Pending(a, d)'
          PROVE  ~HasEvent(accepted'[d], event[a])
      <4>1. Pending(a, d)
        BY <1>0, <2>0, <3>6 DEF Pending
      <4>2. ~HasEvent(accepted[d], event[a])
        BY <4>1 DEF OnceInv, NotYetOffered
      <4>3. CASE d # c
        BY <3>1, <4>2, <4>3
      <4>4. CASE d = c
        <5>1. a # b
          BY <1>0, <2>0, <3>6, <4>4 DEF Pending
        <5>2. cast[a] # "idle" /\ cast[b] # "idle"
          BY <2>0, <4>1 DEF Pending
        <5>3. event[a] # event[b]
          BY <5>1, <5>2 DEF OnceInv, OneCasterPerEvent
        <5>4. QED BY <3>5, <4>2, <4>4, <5>3
      <4>5. QED BY <4>3, <4>4
    <3>7. NotYetOffered'
      BY <2>0, <3>6 DEF NotYetOffered
    <3>8. NoRepeats(accepted'[c])
      BY <2>0, <2>1, <3>2, AppendNew DEF OnceInv
    <3>9. QED
      BY <3>1, <3>3, <3>4, <3>7, <3>8 DEF OnceInv
  <2>4. QED
    BY <1>5, <2>2, <2>3 DEF Offer
<1>6. QED
  BY <1>1, <1>2, <1>3, <1>4, <1>5, CastActions

(* The path of an event and its uniqueness hold in every behaviour. *)
LEMMA FlowInvAlways == Spec => []FifoInv /\ []OnceInv
<1>1. Init => FifoInv /\ OnceInv
  BY DEF Init, FifoInv, OnceInv, EventsBelowPublished, OneCasterPerEvent, NotYetOffered, Pending, HasEvent, NoRepeats
<1>2. HubInv /\ ServeBeforePumps /\ FifoInv /\ [Next]_vars => FifoInv'
  BY FifoStep DEF HubInv
<1>3. HubInv /\ OnceInv /\ [Next]_vars => OnceInv'
  BY OnceStep DEF HubInv
<1>4. QED
  BY <1>1, <1>2, <1>3, HubInvAlways, ServeInvAlways, PTL DEF Spec

(* What writePump has written is a prefix of what the channel accepted, in    *)
(* order, and no event is accepted twice, for any buffer size, any number of  *)
(* concurrent broadcasts and wherever the pump is in its drain loop.          *)
THEOREM DeliveryInOrderOnce == Spec => []InOrderOnce
<1>1. FifoInv /\ OnceInv => InOrderOnce
  BY DEF FifoInv, OnceInv, NoRepeats, InOrderOnce
<1>2. QED
  BY <1>1, FlowInvAlways, PTL
-----------------------------------------------------------------------------
(***************************************************************************)
(* No event is lost in silence.  Register must not put a client in the map  *)
(* that a broadcast already counted on, which is what NoneExpectedBefore    *)
(* says; the rest is NoSilentLoss itself.                                   *)
(***************************************************************************)
NoneExpectedBefore == \A c \in Conns : serve[c] \in {"idle", "register"} => expected[c] = {}

\* The event is in c's history or still on its way to c.
Given(c, e) ==
  \/ HasEvent(accepted[c], e)
  \/ \E b \in Broadcasters : cast[b] = "loop" /\ event[b] = e /\ c \in todo[b]

AllGiven == \A c \in clients : spawned[c] = 0 => \A e \in expected[c] : Given(c, e)

LossInv == NoneExpectedBefore /\ AllGiven

(* The steps that touch the map, a counter of spawned goroutines or a
   broadcaster; every other step leaves all of that alone. *)
LEMMA MapActions ==
  ASSUME [Next]_vars
  PROVE  \/ UNCHANGED <<clients, spawned, serve, cast, event, todo, expected, accepted>>
         \/ \E c \in Conns : Upgrade(c) \/ Register(c) \/ StartPumps(c) \/ UnregisterSpawned(c) \/ UnregisterReader(c)
         \/ \E b \in Broadcasters : StartBroadcast(b) \/ RLock(b) \/ RUnlock(b)
         \/ \E b \in Broadcasters, c \in Conns : Offer(b, c)
<1>1. ASSUME NEW c \in Conns, PeerGone(c) \/ PingError(c) \/ LockRegister(c) \/ LockSpawned(c)
      PROVE  UNCHANGED <<clients, spawned, serve, cast, event, todo, expected, accepted>>
  BY <1>1 DEF PeerGone, PingError, LockRegister, LockSpawned
<1>2. ASSUME NEW c \in Conns, ReadError(c) \/ LockReader(c) \/ ReaderClose(c)
      PROVE  UNCHANGED <<clients, spawned, serve, cast, event, todo, expected, accepted>>
  BY <1>2 DEF ReadError, LockReader, ReaderClose
<1>3. ASSUME NEW c \in Conns, WritePump(c)
      PROVE  UNCHANGED <<clients, spawned, serve, cast, event, todo, expected, accepted>>
  BY <1>3 DEF WritePump, Receive, OpenFrame, NextWriterError, Drain, Flush, FlushError, ReceiveClosed, WriterClose
<1>4. CASE UNCHANGED vars
  BY <1>4
<1>5. QED
  BY <1>1, <1>2, <1>3, <1>4 DEF Next, Serve, Spawned, ReadPump, Broadcast

(* A step that takes clients out of the map, or leaves it, and touches no      *)
(* broadcast loses nothing.                                                    *)
LEMMA LossFrame ==
  ASSUME LossInv, UNCHANGED <<cast, event, todo, expected, accepted>>, clients' \subseteq clients,
         \A c \in clients' : spawned'[c] = spawned[c],
         \A c \in Conns : serve'[c] \in {"idle", "register"} => serve[c] \in {"idle", "register"}
  PROVE  LossInv'
<1>1. \A c, e : Given(c, e)' <=> Given(c, e)
  BY DEF Given
<1>2. QED
  BY <1>1 DEF LossInv, NoneExpectedBefore, AllGiven

(* Every step keeps what was expected given, or still on its way. *)
LEMMA LossStep == HubInv /\ LossInv /\ [Next]_vars => LossInv'
<1> SUFFICES ASSUME HubInv, LossInv, [Next]_vars PROVE LossInv'
  OBVIOUS
<1>0. /\ accepted \in [Conns -> Seq(Events)]
      /\ cast \in [Broadcasters -> {"idle", "rlock", "loop"}]
      /\ event \in [Broadcasters -> 0 .. MaxEvents]
      /\ \A b \in Broadcasters : cast[b] # "idle" => event[b] \in Events
      /\ todo \in [Broadcasters -> SUBSET Conns]
      /\ spawned \in [Conns -> Nat]
      /\ serve \in [Conns -> {"idle", "register", "start", "done"}]
      /\ expected \in [Conns -> SUBSET Events]
      /\ clients \subseteq Conns
  BY DEF HubInv, TypeOK
<1>1. CASE UNCHANGED <<clients, spawned, serve, cast, event, todo, expected, accepted>>
  BY <1>1, LossFrame
<1>2. ASSUME NEW c \in Conns, Upgrade(c) PROVE LossInv'
  BY <1>0, <1>2, LossFrame DEF Upgrade
<1>3. ASSUME NEW c \in Conns, Register(c) PROVE LossInv'
  <2>1. serve[c] = "register"
    BY <1>3 DEF Register, Acquired, HubInv, LockOwnerAtCall
  <2>2. expected[c] = {}
    BY <2>1 DEF LossInv, NoneExpectedBefore
  <2>3. \A d, e : Given(d, e)' <=> Given(d, e)
    BY <1>3 DEF Register, Given
  <2>4. NoneExpectedBefore'
    BY <1>0, <1>3 DEF Register, LossInv, NoneExpectedBefore
  <2>5. AllGiven'
    BY <1>3, <2>2, <2>3 DEF Register, LossInv, AllGiven
  <2>6. QED BY <2>4, <2>5 DEF LossInv
<1>4. ASSUME NEW c \in Conns, StartPumps(c) PROVE LossInv'
  BY <1>0, <1>4, LossFrame DEF StartPumps
<1>5. ASSUME NEW c \in Conns, UnregisterSpawned(c) PROVE LossInv'
  <2>1. clients' = clients \ {c}
    BY <1>5 DEF UnregisterSpawned, Unregister
  <2>2. QED
    BY <1>0, <1>5, <2>1, LossFrame DEF UnregisterSpawned
<1>6. ASSUME NEW c \in Conns, UnregisterReader(c) PROVE LossInv'
  <2>1. clients' = clients \ {c}
    BY <1>6 DEF UnregisterReader, Unregister
  <2>2. QED
    BY <1>0, <1>6, <2>1, LossFrame DEF UnregisterReader
<1>7. ASSUME NEW b \in Broadcasters, StartBroadcast(b) PROVE LossInv'
  <2>1. \A d, e : Given(d, e) => Given(d, e)'
    BY <1>0, <1>7 DEF StartBroadcast, Given
  <2>2. QED
    BY <1>7, <2>1 DEF StartBroadcast, LossInv, NoneExpectedBefore, AllGiven
<1>8. ASSUME NEW b \in Broadcasters, RLock(b) PROVE LossInv'
  <2>1. \A d, e : Given(d, e) => Given(d, e)'
    BY <1>0, <1>8 DEF RLock, Given
  <2>2. \A d \in clients : Given(d, event[b])'
    BY <1>0, <1>8 DEF RLock, Given
  <2>3. \A d \in Conns : expected'[d] = IF d \in clients THEN expected[d] \union {event[b]} ELSE expected[d]
    BY <1>8 DEF RLock
  <2>4. AllGiven'
    BY <1>0, <1>8, <2>1, <2>2, <2>3 DEF RLock, LossInv, AllGiven
  <2>5. NoneExpectedBefore'
    BY <1>8, <2>3 DEF RLock, LossInv, NoneExpectedBefore, HubInv, ChannelInv, FreshUntilRegistered
  <2>6. QED BY <2>4, <2>5 DEF LossInv
<1>9. ASSUME NEW b \in Broadcasters, RUnlock(b) PROVE LossInv'
  <2>1. \A d, e : Given(d, e) => Given(d, e)'
    BY <1>0, <1>9 DEF RUnlock, Given
  <2>2. QED
    BY <1>9, <2>1 DEF RUnlock, LossInv, NoneExpectedBefore, AllGiven
<1>10. ASSUME NEW b \in Broadcasters, NEW c \in Conns, Offer(b, c) PROVE LossInv'
  <2>0. /\ cast[b] = "loop" /\ event[b] \in Events
        /\ todo' = [todo EXCEPT ![b] = todo[b] \ {c}]
        /\ UNCHANGED <<clients, serve, cast, event, expected>>
    BY <1>0, <1>10 DEF Offer
  <2>1. NoneExpectedBefore'
    BY <2>0 DEF LossInv, NoneExpectedBefore
  <2>2. CASE /\ accepted' = [accepted EXCEPT ![c] = Append(accepted[c], event[b])]
             /\ UNCHANGED spawned
    <3>1. \A x : HasEvent(accepted'[c], x) <=> HasEvent(accepted[c], x) \/ x = event[b]
      BY <1>0, <2>0, <2>2, AppendHas
    <3>2. \A d \in Conns : d # c => accepted'[d] = accepted[d]
      BY <1>0, <2>2
    <3>3. ASSUME NEW d \in Conns, NEW e, Given(d, e) PROVE Given(d, e)'
      <4>1. CASE HasEvent(accepted[d], e)
        BY <3>1, <3>2, <4>1 DEF Given
      <4>2. ASSUME NEW a \in Broadcasters, cast[a] = "loop", event[a] = e, d \in todo[a]
            PROVE  Given(d, e)'
        <5>1. CASE a = b /\ d = c
          BY <3>1, <4>2, <5>1 DEF Given
        <5>2. CASE ~(a = b /\ d = c)
          BY <1>0, <2>0, <4>2, <5>2 DEF Given
        <5>3. QED BY <5>1, <5>2
      <4>3. QED BY <3>3, <4>1, <4>2 DEF Given
    <3>4. AllGiven'
      BY <1>0, <2>0, <2>2, <3>3 DEF LossInv, AllGiven
    <3>5. QED BY <2>1, <3>4 DEF LossInv
  <2>3. CASE spawned' = [spawned EXCEPT ![c] = spawned[c] + 1] /\ UNCHANGED accepted
    <3>1. spawned'[c] # 0 /\ \A d \in Conns : d # c => spawned'[d] = spawned[d]
      BY <1>0, <2>3
    <3>2. \A d, e : d # c /\ Given(d, e) => Given(d, e)'
      BY <1>0, <2>0, <2>3 DEF Given
    <3>3. AllGiven'
      BY <1>0, <2>0, <3>1, <3>2 DEF LossInv, AllGiven
    <3>4. QED BY <2>1, <3>3 DEF LossInv
  <2>4. QED
    BY <1>10, <2>2, <2>3 DEF Offer
<1>11. QED
  BY <1>1, <1>2, <1>3, <1>4, <1>5, <1>6, <1>7, <1>8, <1>9, <1>10, MapActions

(* A client that stays in the map with no Unregister on its way has been given *)
(* every event whose broadcast saw it there, for any buffer size and any       *)
(* number of clients and concurrent broadcasts.                                *)
THEOREM NothingLostInSilence == Spec => []NoSilentLoss
<1>1. Init => LossInv
  BY DEF Init, LossInv, NoneExpectedBefore, AllGiven
<1>2. LossInv => NoSilentLoss
  BY DEF LossInv, AllGiven, Given, HasEvent, NoSilentLoss
<1>3. QED
  BY <1>1, <1>2, LossStep, HubInvAlways, PTL DEF Spec
-----------------------------------------------------------------------------
(***************************************************************************)
(* The hub implements HubStream.  FlowInv is what a step argument needs:    *)
(* the phase of a client only moves forward because Register is the one way *)
(* into the map, and a frame that is flushed is not empty.                  *)
(***************************************************************************)
FlowInv == HubInv /\ ServeBeforePumps /\ FifoInv /\ OnceInv

phaseBar == [c \in Conns |-> phaseOf(c)]
inboxBar == [c \in Conns |-> batch[c] \o send[c]]
endedBar == {c \in Conns : writer[c] \in {"close", "done"}}

(* The phase of a client depends on its map entry, its counter of spawned      *)
(* goroutines and its serve state only.                                        *)
LEMMA SamePhase ==
  ASSUME NEW c \in Conns, (c \in clients') <=> (c \in clients), spawned'[c] = spawned[c],
         serve'[c] \in {"idle", "register"} <=> serve[c] \in {"idle", "register"}
  PROVE  phaseOf(c)' = phaseOf(c)
  BY DEF phaseOf

(* The phase of a client, case by case. *)
LEMMA PhaseCases ==
  ASSUME spawned \in [Conns -> Nat], NEW c \in Conns
  PROVE  /\ c \in clients /\ spawned[c] = 0 => phaseOf(c) = "in"
         /\ c \in clients /\ spawned[c] # 0 => phaseOf(c) = "doomed"
         /\ c \notin clients /\ serve[c] \in {"idle", "register"} => phaseOf(c) = "new"
         /\ c \notin clients /\ serve[c] \notin {"idle", "register"} => phaseOf(c) = "out"
  BY DEF phaseOf

(* A step that leaves the map, the counters, the channels and the frames alone *)
(* and ends no pump is invisible in HubStream.                                 *)
LEMMA SamePhases ==
  ASSUME UNCHANGED <<clients, spawned>>,
         \A c \in Conns : serve'[c] \in {"idle", "register"} <=> serve[c] \in {"idle", "register"}
  PROVE  UNCHANGED phaseBar
  BY SamePhase DEF phaseBar

(* The initial states of the hub are initial states of HubStream. *)
LEMMA StreamStart == Init => Stream!StreamInit
<1> SUFFICES ASSUME Init PROVE Stream!StreamInit
  OBVIOUS
<1>1. \A c \in Conns : phaseOf(c) = "new"
  BY DEF Init, phaseOf
<1>2. \A c \in Conns : batch[c] \o send[c] = <<>>
  <2>1. <<>> \o <<>> = <<>>
    OBVIOUS
  <2>2. \A c \in Conns : batch[c] = <<>> /\ send[c] = <<>>
    BY DEF Init
  <2>3. QED BY <2>1, <2>2
<1>3. endedBar = {}
  BY DEF Init, endedBar
<1>4. QED
  BY <1>1, <1>2, <1>3 DEF Init, Stream!StreamInit, endedBar

(* A pump that is running stays so or ends, and no other pump changes. *)
LEMMA SameEnded ==
  ASSUME \A c \in Conns : writer'[c] \in {"close", "done"} <=> writer[c] \in {"close", "done"}
  PROVE  UNCHANGED endedBar
  BY DEF endedBar

(* An event taken from the channel into the frame stays in the inbox. *)
LEMMA SameInbox ==
  ASSUME NEW c \in Conns, batch \in [Conns -> Seq(Events)], send \in [Conns -> Seq(Events)],
         send[c] # <<>>, send' = [send EXCEPT ![c] = Tail(send[c])],
         batch' = [batch EXCEPT ![c] = Append(batch[c], Head(send[c]))]
  PROVE  UNCHANGED inboxBar
<1>1. batch[c] \in Seq(Events) /\ send[c] \in Seq(Events)
  OBVIOUS
<1>2. batch'[c] = Append(batch[c], Head(send[c])) /\ send'[c] = Tail(send[c])
  OBVIOUS
<1>3. <<>> \in Seq(Events)
  OBVIOUS
<1>4. batch[c] \o send[c] = Append(batch[c], Head(send[c])) \o Tail(send[c])
  BY <1>1, <1>3, TakeFirst, Zenon
<1>5. batch'[c] \o send'[c] = batch[c] \o send[c]
  BY <1>2, <1>4, Zenon
<1>6. \A d \in Conns : d # c => batch'[d] = batch[d] /\ send'[d] = send[d]
  OBVIOUS
<1>7. \A d \in Conns : batch'[d] \o send'[d] = batch[d] \o send[d]
  BY <1>5, <1>6, Zenon
<1>8. QED
  BY <1>7, Zenon DEF inboxBar

(* writePump ends: HubStream writes no more to the connection. *)
LEMMA EndStep ==
  ASSUME FlowInv, NEW c \in Conns, writer[c] \in {"select", "frame", "drain"},
         writer' = [writer EXCEPT ![c] = "close"],
         UNCHANGED <<clients, spawned, serve, delivered, inboxBar>>
  PROVE  Stream!End(c)
<1>0. /\ writer \in [Conns -> {"idle", "select", "frame", "drain", "close", "done"}]
      /\ spawned \in [Conns -> Nat]
  BY DEF FlowInv, HubInv, TypeOK
<1>1. serve[c] = "done"
  BY DEF FlowInv, ServeBeforePumps
<1>2. phaseOf(c) # "new"
  BY <1>0, <1>1, PhaseCases
<1>3. UNCHANGED phaseBar
  BY SamePhases
<1>4. endedBar' = endedBar \union {c} /\ c \notin endedBar
  BY <1>0 DEF endedBar
<1>5. QED
  BY <1>2, <1>3, <1>4 DEF Stream!End, phaseBar, inboxBar, endedBar

(* The first frame's worth of a concatenation, and what is left. *)
LEMMA SplitConcat ==
  \A x, y \in Seq(Events) : x # <<>> =>
    /\ Len(x) \in 1 .. Len(x \o y)
    /\ SubSeq(x \o y, 1, Len(x)) = x
    /\ SubSeq(x \o y, Len(x) + 1, Len(x \o y)) = y
<1> SUFFICES ASSUME NEW x \in Seq(Events), NEW y \in Seq(Events), x # <<>>
             PROVE  /\ Len(x) \in 1 .. Len(x \o y)
                    /\ SubSeq(x \o y, 1, Len(x)) = x
                    /\ SubSeq(x \o y, Len(x) + 1, Len(x \o y)) = y
  BY Zenon
<1> DEFINE z == x \o y
           m == Len(x)
           n == Len(x \o y)
<1>1. /\ z \in Seq(Events) /\ n = m + Len(y) /\ m \in Nat \ {0} /\ Len(y) \in Nat
      /\ \A i \in 1 .. m : z[i] = x[i]
      /\ \A i \in 1 .. Len(y) : z[m + i] = y[i]
      /\ \A i \in 1 .. n : z[i] \in Events
  OBVIOUS
<1> HIDE DEF z, m, n
<1>2. SubSeq(z, 1, m) = x
  <2>1. /\ SubSeq(z, 1, m) \in Seq(Events) /\ Len(SubSeq(z, 1, m)) = m
        /\ \A i \in 1 .. m : SubSeq(z, 1, m)[i] = z[i]
    BY <1>1, SubSeqProperties
  <2>2. QED
    BY <1>1, <2>1, SeqEqual DEF m
<1>3. SubSeq(z, m + 1, n) = y
  <2>1. /\ SubSeq(z, m + 1, n) \in Seq(Events) /\ Len(SubSeq(z, m + 1, n)) = Len(y)
        /\ \A i \in 1 .. Len(y) : SubSeq(z, m + 1, n)[i] = z[m + i]
    BY <1>1, SubSeqProperties
  <2>2. QED
    BY <1>1, <2>1, SeqEqual
<1>4. QED
  BY <1>1, <1>2, <1>3 DEF z, m, n

(* w.Close writes the open frame: HubStream writes its oldest Len(batch)       *)
(* events.                                                                     *)
LEMMA FlushStep ==
  ASSUME FlowInv, NEW c \in Conns, Flush(c)
  PROVE  Stream!StreamNext
<1> DEFINE inb == batch[c] \o send[c]
<1>0. /\ batch \in [Conns -> Seq(Events)] /\ send \in [Conns -> Seq(Events)]
      /\ delivered \in [Conns -> Seq(Events)]
      /\ writer \in [Conns -> {"idle", "select", "frame", "drain", "close", "done"}]
  BY DEF FlowInv, HubInv, TypeOK
<1>1. batch[c] \in Seq(Events) /\ send[c] \in Seq(Events) /\ batch[c] # <<>>
  BY <1>0 DEF Flush, FlowInv, FifoInv
<1>a. Len(batch[c]) \in Nat
  BY <1>1
<1>b. PICK n \in Nat : n = Len(batch[c])
  BY <1>a
<1>2. n \in 1 .. Len(inb)
  BY <1>1, <1>b, SplitConcat, Zenon
<1>3. SubSeq(inb, 1, n) = batch[c]
  <2>1. SubSeq(inb, 1, Len(batch[c])) = batch[c]
    BY <1>1, SplitConcat, Zenon
  <2>2. QED BY <1>b, <2>1, Zenon
<1>4. SubSeq(inb, n + 1, Len(inb)) = send[c]
  <2>1. SubSeq(inb, Len(batch[c]) + 1, Len(inb)) = send[c]
    BY <1>1, SplitConcat, Zenon
  <2>2. QED BY <1>b, <2>1, Zenon
<1>5. <<>> \o send[c] = send[c]
  BY <1>1
<1>6. UNCHANGED phaseBar
  BY SamePhases DEF Flush
<1>7. UNCHANGED endedBar /\ c \notin endedBar
  BY <1>0 DEF Flush, endedBar
<1>8. delivered' = [delivered EXCEPT ![c] = delivered[c] \o SubSeq(inb, 1, n)]
  BY <1>3 DEF Flush
<1>9. inboxBar' = [inboxBar EXCEPT ![c] = SubSeq(inb, n + 1, Len(inb))]
  <2>1. \A d \in Conns : (batch[d] \o send[d])' = IF d = c THEN send[c] ELSE batch[d] \o send[d]
    BY <1>0, <1>5 DEF Flush
  <2>2. QED
    BY <1>4, <2>1 DEF inboxBar
<1>10. Stream!Write(c, n)
  BY <1>2, <1>6, <1>7, <1>8, <1>9 DEF Stream!Write, phaseBar, inboxBar, endedBar
<1>11. inb = [d \in Conns |-> batch[d] \o send[d]][c]
  OBVIOUS
<1>12. \E k \in 1 .. Len([d \in Conns |-> batch[d] \o send[d]][c]) : Stream!Write(c, k)
  BY <1>2, <1>10, <1>11, Zenon
<1>13. QED
  BY <1>12, Zenon DEF Stream!StreamNext

(* The non-blocking send: HubStream accepts the event, or the client misses it *)
(* and is on its way out.                                                      *)
LEMMA OfferStep ==
  ASSUME FlowInv, NEW b \in Broadcasters, NEW c \in Conns, Offer(b, c)
  PROVE  Stream!StreamNext \/ UNCHANGED Stream!streamVars
<1>0. /\ batch \in [Conns -> Seq(Events)] /\ send \in [Conns -> Seq(Events)]
      /\ delivered \in [Conns -> Seq(Events)] /\ accepted \in [Conns -> Seq(Events)]
      /\ spawned \in [Conns -> Nat]
  BY DEF FlowInv, HubInv, TypeOK
<1>a. event[b] \in Events
  BY DEF Offer, FlowInv, HubInv, TypeOK
<1>1. PICK e \in Events : e = event[b]
  BY <1>a
<1>2. c \in clients
  BY DEF Offer, FlowInv, HubInv, ChannelInv, LoopsRangeOverMap
<1>3. UNCHANGED endedBar
  BY SameEnded DEF Offer
<1>4. ~HasEvent(accepted[c], e)
  BY <1>1 DEF Offer, FlowInv, OnceInv, NotYetOffered, Pending
<1>5. CASE /\ send' = [send EXCEPT ![c] = Append(send[c], e)]
           /\ UNCHANGED spawned
  <2>1. UNCHANGED phaseBar
    BY <1>5, SamePhases DEF Offer
  <2>2. phaseOf(c) \in {"in", "doomed"}
    BY <1>0, <1>2, PhaseCases
  <2>3. batch[c] \o send[c] \in Seq(Events) /\ delivered[c] \in Seq(Events)
        /\ batch[c] \in Seq(Events) /\ send[c] \in Seq(Events)
    BY <1>0
  <2>4. accepted[c] = delivered[c] \o (batch[c] \o send[c])
    BY <2>3, ConcatEvents, Zenon DEF FlowInv, FifoInv
  <2>5. ASSUME NEW s \in Seq(Events), NEW t \in Seq(Events), ~HasEvent(s \o t, e)
        PROVE  (\A i \in DOMAIN s : s[i] # e) /\ (\A i \in DOMAIN t : t[i] # e)
    <3>1. \A i \in DOMAIN s : i \in DOMAIN (s \o t) /\ (s \o t)[i] = s[i]
      OBVIOUS
    <3>2. \A i \in DOMAIN t : (i + Len(s)) \in DOMAIN (s \o t) /\ (s \o t)[i + Len(s)] = t[i]
      OBVIOUS
    <3>3. QED BY <2>5, <3>1, <3>2 DEF HasEvent
  <2>6. /\ \A i \in DOMAIN (batch[c] \o send[c]) : (batch[c] \o send[c])[i] # e
        /\ \A i \in DOMAIN delivered[c] : delivered[c][i] # e
    BY <1>4, <2>3, <2>4, <2>5
  <2>7. inboxBar' = [inboxBar EXCEPT ![c] = Append(batch[c] \o send[c], e)]
    <3>1. Append(batch[c] \o send[c], e) = batch[c] \o Append(send[c], e)
      BY <2>3, AppendToChannel, Zenon
    <3>2. batch' = batch /\ send'[c] = Append(send[c], e)
      BY <1>0, <1>5 DEF Offer
    <3>3. \A d \in Conns : d # c => send'[d] = send[d]
      BY <1>0, <1>5
    <3>4. \A d \in Conns : (batch[d] \o send[d])'
            = IF d = c THEN Append(batch[c] \o send[c], e) ELSE batch[d] \o send[d]
      BY <3>1, <3>2, <3>3, Zenon
    <3>5. QED BY <3>4 DEF inboxBar
  <2>8. Stream!Accept(c, e)
    BY <1>3, <2>1, <2>2, <2>6, <2>7 DEF Stream!Accept, Offer, phaseBar, inboxBar, endedBar
  <2>9. QED
    <3>1. \E x \in Events : Stream!Accept(c, x)
      BY <1>1, <2>8, Zenon
    <3>2. QED BY <3>1, Zenon DEF Stream!StreamNext
<1>6. CASE /\ spawned' = [spawned EXCEPT ![c] = spawned[c] + 1]
           /\ UNCHANGED send
  <2>1. UNCHANGED <<batch, send, delivered, clients, serve>>
    BY <1>6 DEF Offer
  <2>2. \A d \in Conns : d # c => phaseOf(d)' = phaseOf(d)
    BY <1>0, <1>6, <2>1, SamePhase
  <2>3. spawned' \in [Conns -> Nat] /\ spawned'[c] # 0
    BY <1>0, <1>6
  <2>4. phaseOf(c)' = "doomed"
    BY <1>2, <2>1, <2>3 DEF phaseOf
  <2>5. CASE spawned[c] = 0
    <3>1. phaseOf(c) = "in"
      BY <1>0, <1>2, <2>5, PhaseCases
    <3>2. phaseBar' = [phaseBar EXCEPT ![c] = "doomed"]
      BY <2>2, <2>4 DEF phaseBar
    <3>3. Stream!Skip(c)
      BY <1>3, <2>1, <3>1, <3>2 DEF Stream!Skip, phaseBar, endedBar
    <3>4. QED BY <3>3 DEF Stream!StreamNext
  <2>6. CASE spawned[c] # 0
    <3>1. phaseOf(c) = "doomed"
      BY <1>0, <1>2, <2>6, PhaseCases
    <3>2. phaseBar' = phaseBar
      BY <2>2, <2>4, <3>1 DEF phaseBar
    <3>3. QED
      BY <1>3, <2>1, <3>2 DEF Stream!streamVars, phaseBar, endedBar
  <2>7. QED BY <2>5, <2>6
<1>7. QED
  BY <1>1, <1>5, <1>6 DEF Offer

(* Register is HubStream's Join: nothing else puts a client in the map. *)
LEMMA RegisterStep ==
  ASSUME FlowInv, NEW c \in Conns, Register(c)
  PROVE  Stream!StreamNext
<1>0. spawned \in [Conns -> Nat] /\ serve \in [Conns -> {"idle", "register", "start", "done"}]
  BY DEF FlowInv, HubInv, TypeOK
<1>1. serve[c] = "register"
  BY DEF Register, Acquired, FlowInv, HubInv, LockOwnerAtCall
<1>2. c \notin clients /\ spawned[c] = 0
  BY <1>1 DEF FlowInv, HubInv, ChannelInv, FreshUntilRegistered, ServeBeforePumps
<1>3. phaseOf(c) = "new"
  BY <1>0, <1>1, <1>2, PhaseCases
<1>4. phaseOf(c)' = "in"
  BY <1>2 DEF Register, phaseOf
<1>5. \A d \in Conns : d # c => phaseOf(d)' = phaseOf(d)
  BY <1>0, SamePhase DEF Register
<1>6. phaseBar' = [phaseBar EXCEPT ![c] = "in"]
  BY <1>4, <1>5 DEF phaseBar
<1>7. Stream!Join(c)
  BY <1>3, <1>6 DEF Stream!Join, phaseBar, Register
<1>8. QED
  BY <1>7 DEF Stream!StreamNext

(* Unregister by a goroutine that has the lock is HubStream's Leave when the   *)
(* client is still in the map and invisible when another was first.            *)
LEMMA UnregisterStep ==
  ASSUME FlowInv, NEW c \in Conns, Unregister(c), serve[c] \notin {"idle", "register"},
         \A d \in Conns : d # c => spawned'[d] = spawned[d],
         UNCHANGED <<send, batch, delivered, writer, serve>>
  PROVE  Stream!StreamNext \/ UNCHANGED Stream!streamVars
<1>0. spawned \in [Conns -> Nat]
  BY DEF FlowInv, HubInv, TypeOK
<1>1. clients' = clients \ {c}
  BY DEF Unregister
<1>2. phaseOf(c)' = "out"
  BY <1>1 DEF phaseOf
<1>3. \A d \in Conns : d # c => phaseOf(d)' = phaseOf(d)
  BY <1>1, SamePhase
<1>4. CASE c \in clients
  <2>1. phaseOf(c) \in {"in", "doomed"}
    BY <1>0, <1>4, PhaseCases
  <2>2. phaseBar' = [phaseBar EXCEPT ![c] = "out"]
    BY <1>2, <1>3 DEF phaseBar
  <2>3. Stream!Leave(c)
    BY <2>1, <2>2 DEF Stream!Leave, phaseBar
  <2>4. QED BY <2>3 DEF Stream!StreamNext
<1>5. CASE c \notin clients
  <2>1. phaseOf(c) = "out"
    BY <1>0, <1>5, PhaseCases
  <2>2. phaseBar' = phaseBar
    BY <1>2, <1>3, <2>1 DEF phaseBar
  <2>3. QED BY <2>2 DEF Stream!streamVars, phaseBar
<1>6. QED BY <1>4, <1>5

(* Every step of the goroutines is a step of HubStream or changes nothing in it. *)
LEMMA StreamStep == FlowInv /\ [Next]_vars => [Stream!StreamNext]_(Stream!streamVars)
<1> SUFFICES ASSUME FlowInv, [Next]_vars PROVE Stream!StreamNext \/ UNCHANGED Stream!streamVars
  OBVIOUS
<1> DEFINE Goal == Stream!StreamNext \/ UNCHANGED Stream!streamVars
<1>0. /\ writer \in [Conns -> {"idle", "select", "frame", "drain", "close", "done"}]
      /\ serve \in [Conns -> {"idle", "register", "start", "done"}]
      /\ batch \in [Conns -> Seq(Events)] /\ send \in [Conns -> Seq(Events)]
  BY DEF FlowInv, HubInv, TypeOK
<1>1. ASSUME UNCHANGED <<clients, spawned, inboxBar, delivered>>,
             \A c \in Conns : serve'[c] \in {"idle", "register"} <=> serve[c] \in {"idle", "register"},
             \A c \in Conns : writer'[c] \in {"close", "done"} <=> writer[c] \in {"close", "done"}
      PROVE  Goal
  <2>1. UNCHANGED phaseBar
    BY <1>1, SamePhases
  <2>2. UNCHANGED endedBar
    BY <1>1, SameEnded
  <2>3. QED
    BY <1>1, <2>1, <2>2 DEF Stream!streamVars, phaseBar, inboxBar, endedBar
<1>2. ASSUME NEW c \in Conns, Upgrade(c) PROVE Goal
  BY <1>0, <1>1, <1>2 DEF Upgrade, inboxBar
<1>3. ASSUME NEW c \in Conns, PeerGone(c) PROVE Goal
  BY <1>1, <1>3 DEF PeerGone, inboxBar
<1>4. ASSUME NEW c \in Conns, LockRegister(c) PROVE Goal
  BY <1>1, <1>4 DEF LockRegister, inboxBar
<1>5. ASSUME NEW c \in Conns, Register(c) PROVE Goal
  BY <1>5, RegisterStep
<1>6. ASSUME NEW c \in Conns, StartPumps(c) PROVE Goal
  <2>1. writer[c] = "idle"
    BY <1>6 DEF StartPumps, FlowInv, ServeBeforePumps
  <2>2. QED
    BY <1>0, <1>1, <1>6, <2>1 DEF StartPumps, inboxBar
<1>7. ASSUME NEW c \in Conns, LockSpawned(c) PROVE Goal
  BY <1>1, <1>7 DEF LockSpawned, inboxBar
<1>8. ASSUME NEW c \in Conns, UnregisterSpawned(c) PROVE Goal
  <2>1. serve[c] \notin {"idle", "register"}
    BY <1>8 DEF UnregisterSpawned, Acquired, FlowInv, HubInv, LockOwnerAtCall, ServeBeforePumps
  <2>2. \A d \in Conns : d # c => spawned'[d] = spawned[d]
    BY <1>8 DEF UnregisterSpawned, FlowInv, HubInv, TypeOK
  <2>3. QED
    BY <1>8, <2>1, <2>2, UnregisterStep DEF UnregisterSpawned
<1>9. ASSUME NEW c \in Conns, ReadError(c) \/ LockReader(c) \/ ReaderClose(c) PROVE Goal
  BY <1>1, <1>9 DEF ReadError, LockReader, ReaderClose, inboxBar
<1>10. ASSUME NEW c \in Conns, UnregisterReader(c) PROVE Goal
  <2>1. serve[c] \notin {"idle", "register"}
    BY <1>10 DEF UnregisterReader, Acquired, FlowInv, HubInv, LockOwnerAtCall, ChannelInv,
       FreshUntilRegistered
  <2>2. QED
    BY <1>10, <2>1, UnregisterStep DEF UnregisterReader
<1>11. ASSUME NEW c \in Conns, Receive(c) PROVE Goal
  <2>1. batch[c] = <<>> /\ send[c] # <<>> /\ send[c] \in Seq(Events)
    BY <1>0, <1>11 DEF Receive, FlowInv, FifoInv
  <2>2. <<Head(send[c])>> = Append(batch[c], Head(send[c]))
    BY <2>1
  <2>3. UNCHANGED inboxBar
    BY <1>0, <1>11, <2>1, <2>2, SameInbox DEF Receive
  <2>4. QED
    BY <1>0, <1>1, <1>11, <2>3 DEF Receive
<1>12. ASSUME NEW c \in Conns, OpenFrame(c) PROVE Goal
  BY <1>0, <1>1, <1>12 DEF OpenFrame, inboxBar
<1>13. ASSUME NEW c \in Conns, Drain(c) PROVE Goal
  <2>1. UNCHANGED inboxBar
    BY <1>0, <1>13, SameInbox DEF Drain
  <2>2. QED
    BY <1>0, <1>1, <1>13, <2>1 DEF Drain
<1>14. ASSUME NEW c \in Conns, Flush(c) PROVE Goal
  BY <1>14, FlushStep
<1>15. ASSUME NEW c \in Conns,
              NextWriterError(c) \/ FlushError(c) \/ ReceiveClosed(c) \/ PingError(c)
       PROVE  Goal
  <2>1. Stream!End(c)
    BY <1>15, EndStep DEF NextWriterError, FlushError, ReceiveClosed, PingError, inboxBar
  <2>2. QED BY <2>1 DEF Stream!StreamNext
<1>16. ASSUME NEW c \in Conns, WriterClose(c) PROVE Goal
  BY <1>0, <1>1, <1>16 DEF WriterClose, inboxBar
<1>17. ASSUME NEW b \in Broadcasters, StartBroadcast(b) \/ RLock(b) \/ RUnlock(b) PROVE Goal
  BY <1>1, <1>17 DEF StartBroadcast, RLock, RUnlock, inboxBar
<1>18. ASSUME NEW b \in Broadcasters, NEW c \in Conns, Offer(b, c) PROVE Goal
  BY <1>18, OfferStep
<1>19. CASE UNCHANGED vars
  BY <1>1, <1>19 DEF inboxBar
<1>20. QED
  BY <1>2, <1>3, <1>4, <1>5, <1>6, <1>7, <1>8, <1>9, <1>10, <1>11, <1>12, <1>13, <1>14,
     <1>15, <1>16, <1>17, <1>18, <1>19 DEF Next, Serve, Spawned, ReadPump, WritePump, Broadcast

(* The hub with its lock, map, channels and pumps implements HubStream: each   *)
(* connection is given every event once and in order, in frames of one or more *)
(* events, until it is on its way out.                                         *)
THEOREM HubImplementsStream == Spec => ImplementsStream
<1>1. Spec => []FlowInv
  BY HubInvAlways, ServeInvAlways, FlowInvAlways, PTL DEF FlowInv
<1>2. QED
  BY <1>1, StreamStart, StreamStep, PTL DEF Spec, ImplementsStream, Stream!StreamSpec
=============================================================================
