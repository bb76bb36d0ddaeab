--------------------------- MODULE HubRefinement ---------------------------
(* The hub with its locks, pumps and channels implements HubStream. *)
EXTENDS Hub

\* A client is doomed while a goroutine that will unregister it is on its way.
phaseOf(c) ==
  CASE c \in clients /\ spawned[c] = 0 -> "in"
    [] c \in clients /\ spawned[c] > 0 -> "doomed"
    [] c \notin clients /\ serve[c] \in {"idle", "register"} -> "new"
    [] OTHER -> "out"

Stream == INSTANCE HubStream WITH
  phase <- [c \in Conns |-> phaseOf(c)],
  inbox <- [c \in Conns |-> batch[c] \o send[c]],
  out <- delivered,
  ended <- {c \in Conns : writer[c] \in {"close", "done"}}

(* The messages of the open frame and of the channel are the inbox, map     *)
(* membership and pending Unregister calls are the phase: every step of the *)
(* goroutines is a step of HubStream or changes nothing in it.              *)
ImplementsStream == Stream!StreamSpec
=============================================================================
