----------------------------- MODULE HubStream -----------------------------
(***************************************************************************)
(* What the WebSocket hub promises each connection, without locks, pumps or *)
(* channels: events are accepted once and written in the order they were    *)
(* accepted; an event is withheld only from a connection that is on its way *)
(* out; what is written comes in frames of one or more events.              *)
(***************************************************************************)
EXTENDS Naturals, Sequences

CONSTANTS Conns,   \* the connections that may ever be opened
          Events   \* the events that may be broadcast

VARIABLES
  phase,  \* "new" | "in" (every event is for it) | "doomed" (has missed one) | "out"
  inbox,  \* accepted and not yet written
  out,    \* written, in order
  ended   \* connections that nothing more is written to

streamVars == <<phase, inbox, out, ended>>

StreamInit ==
  /\ phase = [c \in Conns |-> "new"]
  /\ inbox = [c \in Conns |-> <<>>]
  /\ out = [c \in Conns |-> <<>>]
  /\ ended = {}

Join(c) ==
  /\ phase[c] = "new"
  /\ phase' = [phase EXCEPT ![c] = "in"]
  /\ UNCHANGED <<inbox, out, ended>>

Accept(c, e) ==
  /\ phase[c] \in {"in", "doomed"}
  /\ \A i \in DOMAIN inbox[c] : inbox[c][i] # e
  /\ \A i \in DOMAIN out[c] : out[c][i] # e
  /\ inbox' = [inbox EXCEPT ![c] = Append(@, e)]
  /\ UNCHANGED <<phase, out, ended>>

\* The buffer is full: the connection misses an event and will be dropped.
Skip(c) ==
  /\ phase[c] = "in"
  /\ phase' = [phase EXCEPT ![c] = "doomed"]
  /\ UNCHANGED <<inbox, out, ended>>

Leave(c) ==
  /\ phase[c] \in {"in", "doomed"}
  /\ phase' = [phase EXCEPT ![c] = "out"]
  /\ UNCHANGED <<inbox, out, ended>>

\* One frame of the n oldest events.
Write(c, n) ==
  /\ c \notin ended
  /\ n \in 1 .. Len(inbox[c])
  /\ out' = [out EXCEPT ![c] = @ \o SubSeq(inbox[c], 1, n)]
  /\ inbox' = [inbox EXCEPT ![c] = SubSeq(@, n + 1, Len(@))]
  /\ UNCHANGED <<phase, ended>>

End(c) ==
  /\ phase[c] # "new"
  /\ c \notin ended
  /\ ended' = ended \union {c}
  /\ UNCHANGED <<phase, inbox, out>>

StreamNext ==
  \E c \in Conns :
    \/ Join(c) \/ Skip(c) \/ Leave(c) \/ End(c)
    \/ \E e \in Events : Accept(c, e)
    \/ \E n \in 1 .. Len(inbox[c]) : Write(c, n)

StreamSpec == StreamInit /\ [][StreamNext]_streamVars
=============================================================================
