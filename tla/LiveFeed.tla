------------------------------ MODULE LiveFeed ------------------------------
(***************************************************************************)
(* One running mobile application listening to the hub: ws_service.dart,    *)
(* map_screen.dart, home_screen.dart and MessagesProvider, composed with    *)
(* the server side that HubStream promises.                                 *)
(*                                                                         *)
(* WsService is a singleton, but connect() neither looks for an earlier     *)
(* channel nor closes it.  Each switch of tab gives the IndexedStack a new  *)
(* key and so builds a new MapScreen, which connects; the old one lives on  *)
(* until the transition is over.                                            *)
(***************************************************************************)
EXTENDS HubStream, Integers, FiniteSets

CONSTANTS Screens,  \* the MapScreen states that may ever be created
          MaxMoves  \* bound: how often the user moves the map far enough for a reload

ASSUME MaxMovesAssumption == MaxMoves \in Nat

VARIABLES
  sock,      \* the client's side of a connection: "unused" | "opening" | "open" | "gone"
  wire,      \* frames on their way to the client
  timers,    \* pending Future.delayed(3 s, connect)
  screen,    \* of each MapScreen: "new" | "mounted" | "gone"
  locating,  \* the screens whose getCurrentLocation has not answered
  inFlight,  \* GET /messages/nearby requests of MessagesProvider not yet answered
  loading,   \* MessagesProvider._loading
  moves,     \* reloads begun by moving the map
  heard,     \* history: events in frames that arrived while a MapScreen was listening
  reloaded   \* history: those after whose arrival a reload was begun

netVars    == <<sock, wire, timers>>
screenVars == <<screen, locating>>
loadVars   == <<inFlight, loading, moves>>
histVars   == <<heard, reloaded>>
appVars    == <<netVars, screenVars, loadVars, histVars>>
feedVars == <<streamVars, appVars>>

Listening == {s \in Screens : screen[s] = "mounted"}
Members(f) == {f[i] : i \in DOMAIN f}

FeedInit ==
  /\ StreamInit
  /\ sock = [c \in Conns |-> "unused"]
  /\ wire = [c \in Conns |-> <<>>]
  /\ timers = 0
  /\ screen = [s \in Screens |-> "new"]
  /\ locating = {}
  /\ inFlight = 0 /\ loading = FALSE /\ moves = 0
  /\ heard = {} /\ reloaded = {}
-----------------------------------------------------------------------------
\* n calls of _forceLoadMessages, each a loadNearby of the shared provider.
ForceLoad(n) ==
  /\ inFlight' = inFlight + n
  /\ loading' = (loading \/ n > 0)

Connect(c) == sock[c] = "unused" /\ sock' = [sock EXCEPT ![c] = "opening"]

\* initState: getCurrentLocation is called, then connect, then the subscription.
Mount(s, c) ==
  /\ screen[s] = "new"
  /\ screen' = [screen EXCEPT ![s] = "mounted"]
  /\ locating' = locating \union {s}
  /\ Connect(c)
  /\ UNCHANGED <<streamVars, wire, timers, loadVars, histVars>>

\* dispose cancels the subscription and leaves the channel alone.
Unmount(s) ==
  /\ screen[s] = "mounted"
  /\ screen' = [screen EXCEPT ![s] = "gone"]
  /\ UNCHANGED <<streamVars, netVars, locating, loadVars, histVars>>

\* The location answers: a mounted screen loads; one disposed meanwhile has no context
\* to find the provider with, and the call throws.
InitLocation(s) ==
  /\ s \in locating
  /\ locating' = locating \ {s}
  /\ ForceLoad(IF s \in Listening THEN 1 ELSE 0)
  /\ reloaded' = IF s \in Listening THEN heard ELSE reloaded
  /\ UNCHANGED <<streamVars, netVars, screen, moves, heard>>

\* The debounce timer of _onMapMoved fires, far enough from the last load and long enough
\* after it; dispose cancels the timer.
MapMoved(s) ==
  /\ s \in Listening
  /\ moves < MaxMoves
  /\ moves' = moves + 1
  /\ ForceLoad(1)
  /\ reloaded' = heard
  /\ UNCHANGED <<streamVars, netVars, screenVars, heard>>
-----------------------------------------------------------------------------
\* The handshake succeeds; the server registers the connection.
Opened(c) ==
  /\ sock[c] = "opening"
  /\ sock' = [sock EXCEPT ![c] = "open"]
  /\ Join(c)
  /\ UNCHANGED <<wire, timers, screenVars, loadVars, histVars>>

\* The handshake fails: the stream reports the error and then its end, and both
\* handlers ask for a reconnection.
ConnectFailed(c) ==
  /\ sock[c] = "opening"
  /\ sock' = [sock EXCEPT ![c] = "gone"]
  /\ timers' = timers + 2
  /\ UNCHANGED <<streamVars, wire, screenVars, loadVars, histVars>>

\* Mutant: no onDone handler.
ClosedUnhandled(c) ==
  /\ sock[c] = "open"
  /\ sock' = [sock EXCEPT ![c] = "gone"]
  /\ wire' = [wire EXCEPT ![c] = <<>>]
  /\ UNCHANGED <<streamVars, timers, screenVars, loadVars, histVars>>

\* Mutant: a lost connection also reaches onError, which schedules a second timer.
ClosedTwice(c) ==
  /\ sock[c] = "open"
  /\ sock' = [sock EXCEPT ![c] = "gone"]
  /\ wire' = [wire EXCEPT ![c] = <<>>]
  /\ timers' = timers + 2
  /\ UNCHANGED <<streamVars, screenVars, loadVars, histVars>>

\* The connection ends, by the server or the network; what was on its way is lost.
Closed(c) ==
  /\ sock[c] = "open"
  /\ sock' = [sock EXCEPT ![c] = "gone"]
  /\ wire' = [wire EXCEPT ![c] = <<>>]
  /\ timers' = timers + 1
  /\ UNCHANGED <<streamVars, screenVars, loadVars, histVars>>

Reconnect(c) ==
  /\ timers > 0
  /\ timers' = timers - 1
  /\ Connect(c)
  /\ UNCHANGED <<streamVars, wire, screenVars, loadVars, histVars>>

\* jsonDecode accepts one event per frame; the events that writePump joined with a
\* newline make it throw, and the frame is dropped without a word.
Receive(c) ==
  LET f == Head(wire[c])
      parsed == Len(f) = 1 IN
  /\ sock[c] = "open" /\ wire[c] # <<>>
  /\ wire' = [wire EXCEPT ![c] = Tail(@)]
  /\ ForceLoad(IF parsed THEN Cardinality(Listening) ELSE 0)
  /\ heard' = IF Listening # {} THEN heard \union Members(f) ELSE heard
  /\ reloaded' = IF parsed /\ Listening # {} THEN heard' ELSE reloaded
  /\ UNCHANGED <<streamVars, sock, timers, screenVars, moves>>
-----------------------------------------------------------------------------
\* Mutant: a failed load returns before it resets the flag.
AnsweredStuck ==
  /\ inFlight > 0
  /\ inFlight' = inFlight - 1
  /\ loading' \in {FALSE, loading}
  /\ UNCHANGED <<streamVars, netVars, screenVars, moves, histVars>>

\* A load ends, with a list or an error: _loading is reset either way, even if
\* another load is still on its way.
Answered ==
  /\ inFlight > 0
  /\ inFlight' = inFlight - 1
  /\ loading' = FALSE
  /\ UNCHANGED <<streamVars, netVars, screenVars, moves, histVars>>
-----------------------------------------------------------------------------
\* The server's side; a frame it writes is on the wire as long as the socket is open.
Send(c) ==
  \E n \in 1 .. Len(inbox[c]) :
    /\ Write(c, n)
    /\ wire' = IF sock[c] = "open"
                 THEN [wire EXCEPT ![c] = Append(@, SubSeq(inbox[c], 1, n))] ELSE wire
    /\ UNCHANGED <<sock, timers, screenVars, loadVars, histVars>>

Serve(c) ==
  /\ Skip(c) \/ Leave(c) \/ End(c) \/ \E e \in Events : Accept(c, e)
  /\ UNCHANGED appVars

FeedNext ==
  \/ \E c \in Conns : \/ \E s \in Screens : Mount(s, c)
                      \/ Opened(c) \/ ConnectFailed(c) \/ Closed(c) \/ Reconnect(c) \/ Receive(c)
                      \/ Send(c) \/ Serve(c)
  \/ \E s \in Screens : Unmount(s) \/ InitLocation(s) \/ MapMoved(s)
  \/ Answered

FeedSpec == FeedInit /\ [][FeedNext]_feedVars
-----------------------------------------------------------------------------
(* The value domains of the application's variables. *)
FeedTypeOK ==
  /\ sock \in [Conns -> {"unused", "opening", "open", "gone"}]
  /\ wire \in [Conns -> Seq(Seq(Events))]
  /\ timers \in Nat
  /\ screen \in [Screens -> {"new", "mounted", "gone"}]
  /\ locating \subseteq Screens
  /\ inFlight \in Nat /\ loading \in BOOLEAN /\ moves \in 0 .. MaxMoves
  /\ heard \subseteq Events /\ reloaded \subseteq heard

(* From the first MapScreen on the application is connected, connecting, or *)
(* has a reconnection scheduled, however connections fail and screens come  *)
(* and go.                                                                  *)
NeverStranded ==
  (\E s \in Screens : screen[s] # "new") =>
    timers > 0 \/ \E c \in Conns : sock[c] \in {"opening", "open"}

(* What becomes of the one connection of OneConnection: every MapScreen     *)
(* ever shown and every handshake that ever failed has added a connection,  *)
(* or a timer that will make one, for good; lost connections are replaced   *)
(* one for one.                                                             *)
ConnectionsAddUp ==
  timers + Cardinality({c \in Conns : sock[c] \in {"opening", "open"}})
    = Cardinality({s \in Screens : screen[s] # "new"})
      + Cardinality({c \in Conns : sock[c] = "gone" /\ phase[c] = "new"})

(* When the last of several overlapping loads has ended, with whatever      *)
(* outcome and in whatever order, the spinner is off.                       *)
LoadingSettles == inFlight = 0 => ~loading

(* docs/architecture.md:118, "`WsService` singleton gere la connexion avec  *)
(* reconnexion automatique": there is one connection, or one in the making. *)
OneConnection ==
  timers + Cardinality({c \in Conns : sock[c] \in {"opening", "open"}}) <= 1

(* docs/architecture.md:119, "`MapScreen` ecoute les evenements et recharge *)
(* les messages sur `new_message`": no event that arrives at a listening    *)
(* MapScreen is left without a reload.                                      *)
EventReloads == heard \subseteq reloaded
=============================================================================
