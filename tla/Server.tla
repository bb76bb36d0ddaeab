------------------------------- MODULE Server -------------------------------
(***************************************************************************)
(* cmd/server/main.go from start to exit: what is opened before the first   *)
(* request, and the shutdown that stops listening, waits for the handlers   *)
(* at most Grace seconds and then runs the deferred Close calls or, in      *)
(* log.Fatalf, none of them.                                                *)
(*                                                                         *)
(* The connections are those of net/http (external): new, active while a    *)
(* handler runs, idle between two requests, and hijacked once upgraded to a *)
(* WebSocket, when the server no longer waits for them.                     *)
(***************************************************************************)
EXTENDS Naturals

CONSTANTS Sockets,  \* connections
          Grace   \* seconds of srv.Shutdown, 10 in the code

ASSUME ServerAssumption == Grace \in Nat

VARIABLES
  stage,   \* where main is
  pool,    \* the PostgreSQL pool
  redis,   \* the Redis client
  conn,
  waited,  \* seconds since Shutdown was called
  cut,     \* connections whose handler the exit cut off
  ending   \* why the process ended

serverVars == <<stage, pool, redis, conn, waited, cut, ending>>

ServerInit ==
  /\ stage = "start"
  /\ pool = "none" /\ redis = "none"
  /\ conn = [c \in Sockets |-> "closed"]
  /\ waited = 0 /\ cut = {} /\ ending = "none"

Active == {c \in Sockets : conn[c] = "active"}

\* The process ends, and with it everything that still runs.
Exit(why) ==
  /\ stage' = "exit" /\ ending' = why
  /\ cut' = Active
  /\ conn' = [c \in Sockets |-> "closed"]
  /\ UNCHANGED waited
-----------------------------------------------------------------------------
NewPool ==
  /\ stage = "start"
  /\ \/ /\ pool' = "open" /\ stage' = "ping"
        /\ UNCHANGED <<redis, conn, waited, cut, ending>>
     \/ Exit("boot") /\ UNCHANGED <<pool, redis>>

\* Everything is in place when ListenAndServe is called; without Redis the cache is off.
PingPool ==
  /\ stage = "ping"
  /\ \/ /\ redis' \in {"open", "off"} /\ stage' = "serving"
        /\ UNCHANGED <<pool, conn, waited, cut, ending>>
     \/ Exit("boot") /\ UNCHANGED <<pool, redis>>

ListenFails == stage = "serving" /\ Exit("listen") /\ UNCHANGED <<pool, redis>>

Move(c, from, to) ==
  /\ conn[c] \in from
  /\ conn' = [conn EXCEPT ![c] = to]
  /\ UNCHANGED <<stage, pool, redis, waited, cut, ending>>

Running == stage \in {"serving", "draining", "closing", "closing pool"}

Dial(c)        == stage = "serving" /\ Move(c, {"closed"}, "new")
Handle(c)      == Running /\ Move(c, {"new", "idle"}, "active")
Respond(c)     == Running /\ Move(c, {"active"}, IF stage = "serving" THEN "idle" ELSE "closed")
UpgradeWS(c)   == Running /\ Move(c, {"active"}, "hijacked")
HangUp(c)      == Running /\ Move(c, {"new", "idle", "hijacked"}, "closed")
-----------------------------------------------------------------------------
\* SIGINT or SIGTERM; a second one stays in the channel.
Signal ==
  /\ stage = "serving"
  /\ stage' = "draining"
  /\ UNCHANGED <<pool, redis, conn, waited, cut, ending>>

\* Shutdown closes idle connections, and new ones after five seconds.
CloseIdle(c) == stage = "draining" /\ Move(c, {"new", "idle"}, "closed")

\* Mutant: main goes on without waiting for the handlers.
DrainedUnwaited ==
  /\ stage = "draining"
  /\ stage' = "closing"
  /\ UNCHANGED <<pool, redis, conn, waited, cut, ending>>

\* Shutdown returns nil: nothing is left but hijacked connections.
Drained ==
  /\ stage = "draining"
  /\ \A c \in Sockets : conn[c] \in {"closed", "hijacked"}
  /\ stage' = "closing"
  /\ UNCHANGED <<pool, redis, conn, waited, cut, ending>>

Second ==
  /\ stage = "draining" /\ waited < Grace
  /\ waited' = waited + 1
  /\ UNCHANGED <<stage, pool, redis, conn, cut, ending>>

\* Shutdown returns the context's error, and log.Fatalf runs no deferred call.
GraceOver ==
  /\ stage = "draining" /\ waited = Grace
  /\ Exit("forced")
  /\ UNCHANGED <<pool, redis>>

\* The deferred calls, last one first.
CloseRedis ==
  /\ stage = "closing"
  /\ redis' = IF redis = "open" THEN "closed" ELSE redis
  /\ stage' = "closing pool"
  /\ UNCHANGED <<pool, conn, waited, cut, ending>>

ClosePool ==
  /\ stage = "closing pool"
  /\ pool' = "closed"
  /\ Exit("clean")
  /\ UNCHANGED redis

ServerNext ==
  \/ \E c \in Sockets : \/ Dial(c) \/ Handle(c) \/ Respond(c) \/ UpgradeWS(c) \/ HangUp(c)
                      \/ CloseIdle(c)
  \/ NewPool \/ PingPool \/ ListenFails \/ Signal \/ Drained \/ Second \/ GraceOver
  \/ CloseRedis \/ ClosePool

ServerSpec == ServerInit /\ [][ServerNext]_serverVars
-----------------------------------------------------------------------------
ServerTypeOK ==
  /\ stage \in {"start", "ping", "serving", "draining", "closing", "closing pool", "exit"}
  /\ pool \in {"none", "open", "closed"} /\ redis \in {"none", "open", "off", "closed"}
  /\ conn \in [Sockets -> {"closed", "new", "active", "idle", "hijacked"}]
  /\ waited \in 0 .. Grace
  /\ cut \subseteq Sockets
  /\ ending \in {"none", "boot", "listen", "forced", "clean"}

(* No handler runs before the database and the cache are there or after     *)
(* they are closed, and a stopping server cuts a handler off only when the  *)
(* grace period has run out.                                                *)
ShutdownIsGraceful ==
  /\ Active # {} => pool = "open" /\ redis \in {"open", "off"}
  /\ cut # {} => \/ ending = "listen"
                 \/ ending = "forced" /\ waited = Grace
=============================================================================
