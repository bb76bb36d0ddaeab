--------------------------- MODULE LiveFeedProofs ---------------------------
(***************************************************************************)
(* The application that listens to the hub, for any number of screens,      *)
(* connections, events and moves of the map.  That there are finitely many  *)
(* listening screens is no assumption: one is added at a time.              *)
(***************************************************************************)
EXTENDS LiveFeed, FiniteSetTheorems, TLAPS

USE DEF netVars, screenVars, loadVars, histVars, appVars, streamVars, feedVars

\* What the hub has accepted for a connection and not yet written are events.
InboxInv == inbox \in [Conns -> Seq(Events)]

ListeningInv == IsFiniteSet(Listening)

LoadInv == FeedTypeOK /\ InboxInv /\ ListeningInv /\ LoadingSettles
-----------------------------------------------------------------------------
(* Parts of sequences of events, and of what is on the wire. *)
LEMMA EventSequences ==
  /\ \A q \in Seq(Events) : \A n \in 1 .. Len(q) :
       /\ SubSeq(q, 1, n) \in Seq(Events) /\ SubSeq(q, n + 1, Len(q)) \in Seq(Events)
  /\ \A q \in Seq(Events), e \in Events : Append(q, e) \in Seq(Events)
  /\ \A q \in Seq(Events) : Members(q) \subseteq Events
  /\ \A w \in Seq(Seq(Events)), f \in Seq(Events) : Append(w, f) \in Seq(Seq(Events))
  /\ \A w \in Seq(Seq(Events)) : w # <<>> => Head(w) \in Seq(Events) /\ Tail(w) \in Seq(Seq(Events))
  /\ <<>> \in Seq(Events) /\ <<>> \in Seq(Seq(Events))
<1>1. \A q \in Seq(Events) : \A n \in 1 .. Len(q) :
        SubSeq(q, 1, n) \in Seq(Events) /\ SubSeq(q, n + 1, Len(q)) \in Seq(Events)
  OBVIOUS
<1>2. \A q \in Seq(Events) : Members(q) \subseteq Events
  BY DEF Members
<1>3. \A w \in Seq(Seq(Events)) : w # <<>> => Head(w) \in Seq(Events) /\ Tail(w) \in Seq(Seq(Events))
  OBVIOUS
<1>4. \A w \in Seq(Seq(Events)), f \in Seq(Events) : Append(w, f) \in Seq(Seq(Events))
  OBVIOUS
<1>5. \A q \in Seq(Events), e \in Events : Append(q, e) \in Seq(Events)
  OBVIOUS
<1>6. QED BY <1>1, <1>2, <1>3, <1>4, <1>5

(* Any number of loads at once turns the spinner on, none leaves it alone. *)
LEMMA ForceLoadInv ==
  ASSUME inFlight \in Nat, loading \in BOOLEAN, LoadingSettles, NEW n \in Nat, ForceLoad(n)
  PROVE  inFlight' \in Nat /\ loading' \in BOOLEAN /\ LoadingSettles'
<1>1. inFlight' = inFlight + n /\ (loading' <=> loading \/ n > 0) /\ loading' \in BOOLEAN
  BY DEF ForceLoad
<1>2. inFlight' = 0 => inFlight = 0 /\ ~(n > 0)
  BY <1>1
<1>3. QED BY <1>1, <1>2 DEF LoadingSettles

(* Every step of the application, of the server and of the network keeps the types *)
(* and the spinner honest.                                                         *)
LEMMA LoadStep == LoadInv /\ [FeedNext]_feedVars => LoadInv'
<1> SUFFICES ASSUME LoadInv, [FeedNext]_feedVars PROVE LoadInv'
  OBVIOUS
<1>0. FeedTypeOK /\ InboxInv /\ ListeningInv /\ LoadingSettles
  BY DEF LoadInv
<1>a. Cardinality(Listening) \in Nat
  BY <1>0, FS_CardinalityType DEF ListeningInv
<1>b. inFlight \in Nat /\ loading \in BOOLEAN
  BY <1>0 DEF FeedTypeOK
<1>c. ASSUME UNCHANGED inbox PROVE InboxInv'
  BY <1>0, <1>c DEF InboxInv
<1>d. ASSUME UNCHANGED screen PROVE ListeningInv'
  BY <1>0, <1>d DEF ListeningInv, Listening
<1>e. ASSUME UNCHANGED <<inFlight, loading>> PROVE LoadingSettles'
  BY <1>0, <1>e DEF LoadingSettles
<1>1. ASSUME NEW s \in Screens, NEW c \in Conns, Mount(s, c) PROVE LoadInv'
  <2>1. FeedTypeOK'
    BY <1>0, <1>1 DEF Mount, Connect, FeedTypeOK
  <2>2. Listening' = Listening \union {s}
    BY <1>0, <1>1 DEF Mount, Listening, FeedTypeOK
  <2>3. ListeningInv'
    BY <1>0, <2>2, FS_AddElement DEF ListeningInv
  <2>4. QED
    BY <1>1, <1>c, <1>e, <2>1, <2>3 DEF LoadInv, Mount
<1>2. ASSUME NEW s \in Screens, Unmount(s) PROVE LoadInv'
  <2>1. FeedTypeOK'
    BY <1>0, <1>2 DEF Unmount, FeedTypeOK
  <2>2. Listening' \in SUBSET Listening
    BY <1>0, <1>2 DEF Unmount, Listening, FeedTypeOK
  <2>3. ListeningInv'
    BY <1>0, <2>2, FS_Subset DEF ListeningInv
  <2>4. QED
    BY <1>2, <1>c, <1>e, <2>1, <2>3 DEF LoadInv, Unmount
<1>3. ASSUME NEW s \in Screens, InitLocation(s) PROVE LoadInv'
  <2>1. PICK n \in Nat : ForceLoad(n)
    BY <1>3 DEF InitLocation
  <2>2. inFlight' \in Nat /\ loading' \in BOOLEAN /\ LoadingSettles'
    BY <1>0, <1>b, <2>1, ForceLoadInv
  <2>3. FeedTypeOK'
    BY <1>0, <1>3, <2>2 DEF InitLocation, FeedTypeOK
  <2>4. QED
    BY <1>3, <1>c, <1>d, <2>2, <2>3 DEF LoadInv, InitLocation
<1>4. ASSUME NEW s \in Screens, MapMoved(s) PROVE LoadInv'
  <2>1. ForceLoad(1)
    BY <1>4 DEF MapMoved
  <2>2. inFlight' \in Nat /\ loading' \in BOOLEAN /\ LoadingSettles'
    BY <1>0, <1>b, <2>1, ForceLoadInv
  <2>3. moves' \in 0 .. MaxMoves
    BY <1>0, <1>4, MaxMovesAssumption DEF MapMoved, FeedTypeOK
  <2>4. FeedTypeOK'
    BY <1>0, <1>4, <2>2, <2>3 DEF MapMoved, FeedTypeOK
  <2>5. QED
    BY <1>4, <1>c, <1>d, <2>2, <2>4 DEF LoadInv, MapMoved
<1>5. ASSUME NEW c \in Conns, Opened(c) PROVE LoadInv'
  <2>1. FeedTypeOK' /\ UNCHANGED <<inbox, screen, inFlight, loading>>
    BY <1>0, <1>5 DEF Opened, Join, FeedTypeOK
  <2>2. QED BY <1>c, <1>d, <1>e, <2>1 DEF LoadInv
<1>6. ASSUME NEW c \in Conns, ConnectFailed(c) PROVE LoadInv'
  <2>1. FeedTypeOK' /\ UNCHANGED <<inbox, screen, inFlight, loading>>
    BY <1>0, <1>6 DEF ConnectFailed, FeedTypeOK
  <2>2. QED BY <1>c, <1>d, <1>e, <2>1 DEF LoadInv
<1>7. ASSUME NEW c \in Conns, Closed(c) PROVE LoadInv'
  <2>1. UNCHANGED <<inbox, screen, inFlight, loading, locating, moves, heard, reloaded>>
    BY <1>7 DEF Closed
  <2>2. wire' \in [Conns -> Seq(Seq(Events))]
    BY <1>0, <1>7, EventSequences DEF Closed, FeedTypeOK
  <2>3. sock' \in [Conns -> {"unused", "opening", "open", "gone"}] /\ timers' \in Nat
    BY <1>0, <1>7 DEF Closed, FeedTypeOK
  <2>4. FeedTypeOK'
    BY <1>0, <2>1, <2>2, <2>3 DEF FeedTypeOK
  <2>5. QED BY <1>c, <1>d, <1>e, <2>1, <2>4 DEF LoadInv
<1>8. ASSUME NEW c \in Conns, Reconnect(c) PROVE LoadInv'
  <2>1. FeedTypeOK' /\ UNCHANGED <<inbox, screen, inFlight, loading>>
    BY <1>0, <1>8 DEF Reconnect, Connect, FeedTypeOK
  <2>2. QED BY <1>c, <1>d, <1>e, <2>1 DEF LoadInv
<1>9. ASSUME NEW c \in Conns, Receive(c) PROVE LoadInv'
  <2>1. wire[c] \in Seq(Seq(Events)) /\ wire[c] # <<>>
    BY <1>0, <1>9 DEF Receive, FeedTypeOK
  <2>2. Members(Head(wire[c])) \subseteq Events /\ Tail(wire[c]) \in Seq(Seq(Events))
    BY <2>1, EventSequences
  <2>3. wire' \in [Conns -> Seq(Seq(Events))]
    BY <1>0, <1>9, <2>2 DEF Receive, FeedTypeOK
  <2>4. heard' \subseteq Events /\ heard \subseteq heard' /\ reloaded' \subseteq heard'
    BY <1>0, <1>9, <2>2 DEF Receive, FeedTypeOK
  <2>5. PICK n \in Nat : ForceLoad(n)
    BY <1>9, <1>a DEF Receive
  <2>6. inFlight' \in Nat /\ loading' \in BOOLEAN /\ LoadingSettles'
    BY <1>0, <1>b, <2>5, ForceLoadInv
  <2>7. UNCHANGED <<inbox, sock, timers, screen, locating, moves>>
    BY <1>9 DEF Receive
  <2>8. FeedTypeOK'
    BY <1>0, <2>3, <2>4, <2>6, <2>7 DEF FeedTypeOK
  <2>9. QED BY <1>c, <1>d, <2>6, <2>7, <2>8 DEF LoadInv
<1>10. ASSUME NEW c \in Conns, Send(c) PROVE LoadInv'
  <2>1. PICK n \in 1 .. Len(inbox[c]) :
          /\ inbox' = [inbox EXCEPT ![c] = SubSeq(inbox[c], n + 1, Len(inbox[c]))]
          /\ wire' = IF sock[c] = "open"
                       THEN [wire EXCEPT ![c] = Append(wire[c], SubSeq(inbox[c], 1, n))] ELSE wire
          /\ UNCHANGED <<sock, timers, screenVars, loadVars, histVars>>
    BY <1>10 DEF Send, Write
  <2>2. inbox[c] \in Seq(Events) /\ wire[c] \in Seq(Seq(Events))
    BY <1>0 DEF InboxInv, FeedTypeOK
  <2>3. SubSeq(inbox[c], 1, n) \in Seq(Events) /\ SubSeq(inbox[c], n + 1, Len(inbox[c])) \in Seq(Events)
    BY <2>2, EventSequences
  <2>4. Append(wire[c], SubSeq(inbox[c], 1, n)) \in Seq(Seq(Events))
    BY <2>2, <2>3, EventSequences
  <2>5. PICK f, r : f = Append(wire[c], SubSeq(inbox[c], 1, n)) /\ r = SubSeq(inbox[c], n + 1, Len(inbox[c]))
    OBVIOUS
  <2>6. InboxInv'
    BY <1>0, <2>1, <2>3, <2>5 DEF InboxInv
  <2>7. wire' \in [Conns -> Seq(Seq(Events))]
    BY <1>0, <2>1, <2>4, <2>5 DEF FeedTypeOK
  <2>8. FeedTypeOK'
    BY <1>0, <2>1, <2>7 DEF FeedTypeOK
  <2>9. QED BY <1>d, <1>e, <2>1, <2>6, <2>8 DEF LoadInv
<1>11. ASSUME NEW c \in Conns, Serve(c) PROVE LoadInv'
  <2>1. UNCHANGED appVars
    BY <1>11 DEF Serve
  <2>2. CASE UNCHANGED inbox
    BY <1>0, <1>c, <1>d, <1>e, <2>1, <2>2 DEF LoadInv, FeedTypeOK
  <2>3. ASSUME NEW e \in Events, Accept(c, e) PROVE LoadInv'
    <3>1. inbox[c] \in Seq(Events) /\ inbox' = [inbox EXCEPT ![c] = Append(inbox[c], e)]
      BY <1>0, <2>3 DEF Accept, InboxInv
    <3>2. Append(inbox[c], e) \in Seq(Events)
      BY <3>1, EventSequences
    <3>3. InboxInv'
      BY <1>0, <3>1, <3>2 DEF InboxInv
    <3>4. QED BY <1>0, <1>d, <1>e, <2>1, <3>3 DEF LoadInv, FeedTypeOK
  <2>4. QED BY <1>11, <2>2, <2>3 DEF Serve, Skip, Leave, End
<1>12. CASE Answered
  <2>1. inFlight' \in Nat /\ loading' = FALSE
    BY <1>b, <1>12 DEF Answered
  <2>2. UNCHANGED <<inbox, sock, wire, timers, screen, locating, moves, heard, reloaded>>
    BY <1>12 DEF Answered
  <2>3. LoadingSettles'
    BY <2>1 DEF LoadingSettles
  <2>4. FeedTypeOK'
    BY <1>0, <2>1, <2>2, Zenon DEF FeedTypeOK
  <2>5. QED BY <1>c, <1>d, <2>2, <2>3, <2>4 DEF LoadInv
<1>13. CASE UNCHANGED feedVars
  BY <1>0, <1>c, <1>d, <1>e, <1>13 DEF LoadInv, FeedTypeOK
<1>14. QED
  BY <1>1, <1>2, <1>3, <1>4, <1>5, <1>6, <1>7, <1>8, <1>9, <1>10, <1>11, <1>12, <1>13 DEF FeedNext

(* Before the first screen nothing is connected, heard or loading. *)
LEMMA LoadStart == FeedInit => LoadInv
<1> SUFFICES ASSUME FeedInit PROVE LoadInv
  OBVIOUS
<1>1. Listening = {}
  BY DEF FeedInit, Listening
<1>2. ListeningInv
  BY <1>1, FS_EmptySet DEF ListeningInv
<1>3. FeedTypeOK
  <2>1. wire \in [Conns -> Seq(Seq(Events))]
    BY EventSequences DEF FeedInit
  <2>2. /\ sock \in [Conns -> {"unused", "opening", "open", "gone"}]
        /\ screen \in [Screens -> {"new", "mounted", "gone"}]
    BY DEF FeedInit
  <2>3. timers \in Nat /\ inFlight \in Nat /\ moves \in 0 .. MaxMoves
    BY MaxMovesAssumption DEF FeedInit
  <2>4. locating \subseteq Screens /\ loading \in BOOLEAN /\ heard \subseteq Events /\ reloaded \subseteq heard
    BY DEF FeedInit
  <2>5. QED BY <2>1, <2>2, <2>3, <2>4 DEF FeedTypeOK
<1>4. QED
  BY <1>2, <1>3, EventSequences DEF FeedInit, StreamInit, LoadInv, InboxInv, LoadingSettles

(* Types and spinner, from the start and in every step. *)
LEMMA LoadAlways == FeedSpec => []LoadInv
  BY LoadStart, LoadStep, PTL DEF FeedSpec

(* The value domains of the application's variables; a reload is only noted for events *)
(* that were heard.                                                                    *)
THEOREM LiveFeedTypeCorrect == FeedSpec => []FeedTypeOK
<1>1. LoadInv => FeedTypeOK
  BY DEF LoadInv
<1>2. QED BY <1>1, LoadAlways, PTL

(* When the last of several overlapping loads of MessagesProvider has ended, with *)
(* whatever outcome and in whatever order, the spinner is off.                    *)
THEOREM SpinnerSettles == FeedSpec => []LoadingSettles
<1>1. LoadInv => LoadingSettles
  BY DEF LoadInv
<1>2. QED BY <1>1, LoadAlways, PTL
-----------------------------------------------------------------------------
(* The steps that open or close sockets; a screen that appears connects. *)
LEMMA SocketActions ==
  ASSUME [FeedNext]_feedVars
  PROVE  \/ UNCHANGED <<sock, timers>> /\ \A s \in Screens : screen'[s] # "new" => screen[s] # "new"
         \/ \E c \in Conns : Opened(c) \/ ConnectFailed(c) \/ Closed(c) \/ Reconnect(c)
         \/ \E c \in Conns, s \in Screens : Mount(s, c)
<1>1. ASSUME NEW s \in Screens, Unmount(s)
      PROVE  UNCHANGED <<sock, timers>> /\ \A t \in Screens : screen'[t] # "new" => screen[t] # "new"
  BY <1>1 DEF Unmount
<1>2. QED
  BY <1>1 DEF FeedNext, Receive, Send, Serve, InitLocation, MapMoved, Answered

(* WsService: from the first MapScreen on the application is connected, connecting or  *)
(* has a reconnection scheduled, however connections fail and screens come and go.     *)
THEOREM FeedNeverStranded == FeedSpec => []NeverStranded
<1>1. FeedInit => NeverStranded
  BY DEF FeedInit, NeverStranded
<1>2. FeedTypeOK /\ NeverStranded /\ [FeedNext]_feedVars => NeverStranded'
  <2> SUFFICES ASSUME FeedTypeOK, NeverStranded, [FeedNext]_feedVars PROVE NeverStranded'
    OBVIOUS
  <2>1. timers \in Nat /\ sock \in [Conns -> {"unused", "opening", "open", "gone"}]
    BY DEF FeedTypeOK
  <2>2. CASE UNCHANGED <<sock, timers>> /\ \A s \in Screens : screen'[s] # "new" => screen[s] # "new"
    BY <2>2 DEF NeverStranded
  <2>3. ASSUME NEW c \in Conns, Opened(c) PROVE NeverStranded'
    BY <2>1, <2>3 DEF Opened, NeverStranded
  <2>4. ASSUME NEW c \in Conns, ConnectFailed(c) \/ Closed(c) PROVE NeverStranded'
    <3>1. timers' > 0
      BY <2>1, <2>4 DEF ConnectFailed, Closed
    <3>2. QED BY <3>1 DEF NeverStranded
  <2>5. ASSUME NEW c \in Conns, Connect(c) PROVE NeverStranded'
    <3>1. sock'[c] = "opening"
      BY <2>1, <2>5 DEF Connect
    <3>2. QED BY <3>1 DEF NeverStranded
  <2>6. QED
    BY <2>2, <2>3, <2>4, <2>5, SocketActions DEF Reconnect, Mount
<1>3. QED
  BY <1>1, <1>2, LiveFeedTypeCorrect, PTL DEF FeedSpec
-----------------------------------------------------------------------------
(***************************************************************************)
(* The count of connections.  A connection whose handshake failed is one    *)
(* that is gone and never joined the hub, so the count rests on Joined: a   *)
(* connection joins exactly when it opens.  The three sets that are counted *)
(* grow one element at a time and are therefore finite.                     *)
(***************************************************************************)
Live == {c \in Conns : sock[c] \in {"opening", "open"}}
Shown == {s \in Screens : screen[s] # "new"}
Failed == {c \in Conns : sock[c] = "gone" /\ phase[c] = "new"}

Joined ==
  /\ phase \in [Conns -> {"new", "in", "doomed", "out"}]
  /\ \A c \in Conns : /\ sock[c] \in {"unused", "opening"} => phase[c] = "new"
                      /\ sock[c] = "open" => phase[c] # "new"

FiniteCounts == IsFiniteSet(Live) /\ IsFiniteSet(Shown) /\ IsFiniteSet(Failed)

AddUpInv == Joined /\ FiniteCounts /\ ConnectionsAddUp

(* Adding one new element and taking one away. *)
LEMMA CountOneMore ==
  ASSUME NEW S, NEW x, IsFiniteSet(S), x \notin S
  PROVE  IsFiniteSet(S \union {x}) /\ Cardinality(S \union {x}) = Cardinality(S) + 1
  BY FS_AddElement

LEMMA CountOneLess ==
  ASSUME NEW S, NEW x, IsFiniteSet(S), x \in S
  PROVE  IsFiniteSet(S \ {x}) /\ Cardinality(S \ {x}) = Cardinality(S) - 1
  BY FS_RemoveElement

(* Steps that open or close no connection leave the three sets as they are. *)
LEMMA OtherActions ==
  ASSUME FeedTypeOK, Joined, [FeedNext]_feedVars
  PROVE  \/ /\ UNCHANGED <<sock, timers>> /\ Shown' = Shown
            /\ phase' \in [Conns -> {"new", "in", "doomed", "out"}]
            /\ \A c \in Conns : phase'[c] = "new" <=> phase[c] = "new"
         \/ \E c \in Conns : Opened(c) \/ ConnectFailed(c) \/ Closed(c) \/ Reconnect(c)
         \/ \E c \in Conns, s \in Screens : Mount(s, c)
<1>1. ASSUME NEW s \in Screens, Unmount(s) PROVE Shown' = Shown
  BY <1>1 DEF Unmount, Shown, FeedTypeOK
<1>2. ASSUME UNCHANGED screen PROVE Shown' = Shown
  BY <1>2 DEF Shown
<1>3. ASSUME NEW c \in Conns, Serve(c)
      PROVE  /\ phase' \in [Conns -> {"new", "in", "doomed", "out"}]
             /\ \A d \in Conns : phase'[d] = "new" <=> phase[d] = "new"
  <2>1. CASE Skip(c) \/ Leave(c)
    BY <2>1 DEF Skip, Leave, Joined
  <2>2. CASE UNCHANGED phase
    BY <2>2 DEF Joined
  <2>3. QED
    BY <1>3, <2>1, <2>2 DEF Serve, End, Accept
<1>4. ASSUME UNCHANGED phase
      PROVE  /\ phase' \in [Conns -> {"new", "in", "doomed", "out"}]
             /\ \A d \in Conns : phase'[d] = "new" <=> phase[d] = "new"
  BY <1>4 DEF Joined
<1>5. ASSUME NEW c \in Conns, Serve(c) \/ Receive(c) \/ Send(c)
      PROVE  UNCHANGED <<sock, timers, screen>>
  BY <1>5 DEF Serve, Receive, Send
<1>6. ASSUME NEW c \in Conns, Receive(c) \/ Send(c) PROVE UNCHANGED phase
  BY <1>6 DEF Receive, Send, Write
<1>7. ASSUME NEW s \in Screens, Unmount(s) \/ InitLocation(s) \/ MapMoved(s)
      PROVE  UNCHANGED <<sock, timers, phase>>
  BY <1>7 DEF Unmount, InitLocation, MapMoved
<1>8. ASSUME NEW s \in Screens, InitLocation(s) \/ MapMoved(s) PROVE UNCHANGED screen
  BY <1>8 DEF InitLocation, MapMoved
<1>9. ASSUME Answered \/ UNCHANGED feedVars PROVE UNCHANGED <<sock, timers, phase, screen>>
  BY <1>9 DEF Answered
<1>10. QED
  BY <1>1, <1>2, <1>3, <1>4, <1>5, <1>6, <1>7, <1>8, <1>9 DEF FeedNext

(* The count in terms of the three sets. *)
LEMMA AddUpMeans == ConnectionsAddUp <=> timers + Cardinality(Live) = Cardinality(Shown) + Cardinality(Failed)
  BY DEF ConnectionsAddUp, Live, Shown, Failed

(* Each way of opening or losing a connection keeps the count. *)
LEMMA AddUpStep == FeedTypeOK /\ AddUpInv /\ [FeedNext]_feedVars => AddUpInv'
<1> SUFFICES ASSUME FeedTypeOK, AddUpInv, [FeedNext]_feedVars PROVE AddUpInv'
  OBVIOUS
<1>0. /\ timers \in Nat /\ sock \in [Conns -> {"unused", "opening", "open", "gone"}]
      /\ screen \in [Screens -> {"new", "mounted", "gone"}]
  BY DEF FeedTypeOK
<1>1. /\ phase \in [Conns -> {"new", "in", "doomed", "out"}] /\ Joined
      /\ IsFiniteSet(Live) /\ IsFiniteSet(Shown) /\ IsFiniteSet(Failed)
      /\ timers + Cardinality(Live) = Cardinality(Shown) + Cardinality(Failed)
  BY AddUpMeans DEF AddUpInv, Joined, FiniteCounts
<1>2. Cardinality(Live) \in Nat /\ Cardinality(Shown) \in Nat /\ Cardinality(Failed) \in Nat
  BY <1>1, FS_CardinalityType
<1>3. ASSUME Joined', IsFiniteSet(Live'), IsFiniteSet(Shown'), IsFiniteSet(Failed'),
             timers' + Cardinality(Live') = Cardinality(Shown') + Cardinality(Failed')
      PROVE  AddUpInv'
  BY <1>3 DEF AddUpInv, FiniteCounts, ConnectionsAddUp, Live, Shown, Failed
<1>4. CASE /\ UNCHANGED <<sock, timers>> /\ Shown' = Shown
           /\ phase' \in [Conns -> {"new", "in", "doomed", "out"}]
           /\ \A c \in Conns : phase'[c] = "new" <=> phase[c] = "new"
  <2>1. Live' = Live /\ Failed' = Failed
    BY <1>4 DEF Live, Failed
  <2>2. Joined'
    BY <1>1, <1>4 DEF Joined
  <2>3. QED BY <1>1, <1>3, <1>4, <2>1, <2>2
<1>5. ASSUME NEW c \in Conns, Opened(c) PROVE AddUpInv'
  <2>1. /\ sock[c] = "opening" /\ sock' = [sock EXCEPT ![c] = "open"] /\ timers' = timers
        /\ phase' = [phase EXCEPT ![c] = "in"] /\ UNCHANGED screen
    BY <1>5 DEF Opened, Join
  <2>2. Live' = Live /\ Failed' = Failed /\ Shown' = Shown
    BY <1>0, <1>1, <2>1 DEF Live, Failed, Shown
  <2>3. Joined'
    BY <1>0, <1>1, <2>1 DEF Joined
  <2>4. QED BY <1>1, <1>3, <2>1, <2>2, <2>3
<1>6. ASSUME NEW c \in Conns, ConnectFailed(c) PROVE AddUpInv'
  <2>1. /\ sock[c] = "opening" /\ sock' = [sock EXCEPT ![c] = "gone"] /\ timers' = timers + 2
        /\ UNCHANGED <<phase, screen>>
    BY <1>6 DEF ConnectFailed
  <2>2. /\ Live' = Live \ {c} /\ c \in Live /\ Failed' = Failed \union {c} /\ c \notin Failed
        /\ Shown' = Shown
    BY <1>0, <1>1, <2>1 DEF Live, Failed, Shown, Joined
  <2>3. Joined'
    BY <1>0, <1>1, <2>1 DEF Joined
  <2>4. /\ IsFiniteSet(Live') /\ Cardinality(Live') = Cardinality(Live) - 1
        /\ IsFiniteSet(Failed') /\ Cardinality(Failed') = Cardinality(Failed) + 1
    BY <1>1, <2>2, CountOneLess, CountOneMore
  <2>5. timers' + Cardinality(Live') = Cardinality(Shown') + Cardinality(Failed')
    BY <1>0, <1>1, <1>2, <2>1, <2>2, <2>4
  <2>6. QED BY <1>1, <1>3, <2>2, <2>3, <2>4, <2>5
<1>7. ASSUME NEW c \in Conns, Closed(c) PROVE AddUpInv'
  <2>1. /\ sock[c] = "open" /\ sock' = [sock EXCEPT ![c] = "gone"] /\ timers' = timers + 1
        /\ UNCHANGED <<phase, screen>>
    BY <1>7 DEF Closed
  <2>2. Live' = Live \ {c} /\ c \in Live /\ Failed' = Failed /\ Shown' = Shown
    BY <1>0, <1>1, <2>1 DEF Live, Failed, Shown, Joined
  <2>3. Joined'
    BY <1>0, <1>1, <2>1 DEF Joined
  <2>4. IsFiniteSet(Live') /\ Cardinality(Live') = Cardinality(Live) - 1
    BY <1>1, <2>2, CountOneLess
  <2>5. timers' + Cardinality(Live') = Cardinality(Shown') + Cardinality(Failed')
    BY <1>0, <1>1, <1>2, <2>1, <2>2, <2>4
  <2>6. QED BY <1>1, <1>3, <2>2, <2>3, <2>4, <2>5
<1>8. ASSUME NEW c \in Conns, Connect(c), UNCHANGED phase
      PROVE  /\ Failed' = Failed /\ Joined'
             /\ IsFiniteSet(Live') /\ Cardinality(Live') = Cardinality(Live) + 1
  <2>1. sock[c] = "unused" /\ sock' = [sock EXCEPT ![c] = "opening"]
    BY <1>8 DEF Connect
  <2>2. Live' = Live \union {c} /\ c \notin Live /\ Failed' = Failed
    BY <1>0, <1>1, <1>8, <2>1 DEF Live, Failed
  <2>3. Joined'
    BY <1>0, <1>1, <1>8, <2>1 DEF Joined
  <2>4. QED BY <1>1, <2>2, <2>3, CountOneMore
<1>9. ASSUME NEW c \in Conns, Reconnect(c) PROVE AddUpInv'
  <2>1. Connect(c) /\ timers' = timers - 1 /\ UNCHANGED <<phase, screen>>
    BY <1>9 DEF Reconnect
  <2>2. Shown' = Shown
    BY <2>1 DEF Shown
  <2>3. timers' + Cardinality(Live') = Cardinality(Shown') + Cardinality(Failed')
    BY <1>0, <1>1, <1>2, <1>8, <2>1, <2>2
  <2>4. QED BY <1>1, <1>3, <1>8, <2>1, <2>2, <2>3
<1>10. ASSUME NEW c \in Conns, NEW s \in Screens, Mount(s, c) PROVE AddUpInv'
  <2>1. /\ Connect(c) /\ UNCHANGED <<phase, timers>>
        /\ screen[s] = "new" /\ screen' = [screen EXCEPT ![s] = "mounted"]
    BY <1>10 DEF Mount
  <2>2. Shown' = Shown \union {s} /\ s \notin Shown
    BY <1>0, <2>1 DEF Shown
  <2>3. IsFiniteSet(Shown') /\ Cardinality(Shown') = Cardinality(Shown) + 1
    BY <1>1, <2>2, CountOneMore
  <2>4. timers' + Cardinality(Live') = Cardinality(Shown') + Cardinality(Failed')
    BY <1>0, <1>1, <1>2, <1>8, <2>1, <2>3
  <2>5. QED BY <1>1, <1>3, <1>8, <2>1, <2>3, <2>4
<1>11. QED
  BY <1>1, <1>4, <1>5, <1>6, <1>7, <1>9, <1>10, OtherActions

(* WsService: screens shown and handshakes failed each add one connection for good,    *)
(* and nothing else adds or loses one, for any number of screens and connections.      *)
THEOREM ConnectionsAlwaysAddUp == FeedSpec => []ConnectionsAddUp
<1>1. FeedInit => AddUpInv
  <2> SUFFICES ASSUME FeedInit PROVE AddUpInv
    OBVIOUS
  <2>1. Live = {} /\ Shown = {} /\ Failed = {}
    BY DEF FeedInit, Live, Shown, Failed
  <2>2. IsFiniteSet({}) /\ Cardinality({}) = 0
    BY FS_EmptySet
  <2>3. timers + Cardinality(Live) = Cardinality(Shown) + Cardinality(Failed)
    BY <2>1, <2>2 DEF FeedInit
  <2>4. Joined
    BY DEF FeedInit, StreamInit, Joined
  <2>5. QED
    BY <2>1, <2>2, <2>3, <2>4, AddUpMeans DEF AddUpInv, FiniteCounts
<1>2. AddUpInv => ConnectionsAddUp
  BY DEF AddUpInv
<1>3. QED
  BY <1>1, <1>2, AddUpStep, LiveFeedTypeCorrect, PTL DEF FeedSpec
=============================================================================
