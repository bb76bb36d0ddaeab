----------------------------- MODULE LikeLedger -----------------------------
(***************************************************************************)
(* What the like, comment and delete endpoints promise about one message,   *)
(* without transactions or locks: every request takes effect at one moment  *)
(* or not at all, its counter moves with its row, and its answer describes  *)
(* that moment.                                                             *)
(***************************************************************************)
EXTENDS Integers

CONSTANTS Users, Comments, SeedLikes

VARIABLES
  exists,           \* the message has not been deleted
  likers, thread,   \* users who like it, comments on it
  likes, comments,  \* the two counters
  reply             \* the answer of the last step, if any

ledgerVars == <<exists, likers, thread, likes, comments, reply>>
bookVars == <<exists, likers, thread, likes, comments>>

Answer(op, ok, k, changed, n) ==
  [op |-> op, ok |-> ok, key |-> k, changed |-> changed, count |-> n]
Nothing == Answer("none", FALSE, 0, "no", 0)

LedgerInit ==
  /\ exists = TRUE
  /\ likers = {} /\ thread = {}
  /\ likes = SeedLikes /\ comments = 0
  /\ reply = Nothing

\* The client may never see the answer to a request that took effect.
Tell(op, k, changed, n) == \E ok \in BOOLEAN : reply' = Answer(op, ok, k, changed, n)

Like(u) ==
  /\ exists /\ u \notin likers
  /\ likers' = likers \union {u} /\ likes' = likes + 1
  /\ Tell("toggle", u, "inserted", likes')
  /\ UNCHANGED <<exists, thread, comments>>

Unlike(u) ==
  /\ exists /\ u \in likers
  /\ likers' = likers \ {u} /\ likes' = likes - 1
  /\ Tell("toggle", u, "removed", likes')
  /\ UNCHANGED <<exists, thread, comments>>

\* The like to take back had gone: the answer says so and nothing changes.
Already(u) == Tell("toggle", u, "no", 0) /\ UNCHANGED bookVars

Add(c) ==
  /\ exists /\ c \notin thread
  /\ thread' = thread \union {c} /\ comments' = comments + 1
  /\ Tell("add", c, "inserted", 0)
  /\ UNCHANGED <<exists, likers, likes>>

Remove(c) ==
  /\ exists /\ c \in thread
  /\ thread' = thread \ {c} /\ comments' = comments - 1
  /\ Tell("remove", c, "removed", 0)
  /\ UNCHANGED <<exists, likers, likes>>

\* The message goes once, with all that hangs on it.
Drop ==
  /\ exists /\ exists' = FALSE
  /\ likers' = {} /\ thread' = {}
  /\ likes' = SeedLikes /\ comments' = 0
  /\ Tell("drop", 0, "no", 0)

Refuse(op, k) == reply' = Answer(op, FALSE, k, "no", 0) /\ UNCHANGED bookVars

\* Time passes; the last answer is read.
Quiet == reply' = Nothing /\ UNCHANGED bookVars

LedgerNext ==
  \/ \E u \in Users : Like(u) \/ Unlike(u) \/ Already(u) \/ Refuse("toggle", u)
  \/ \E c \in Comments : Add(c) \/ Remove(c) \/ Refuse("add", c) \/ Refuse("remove", c)
  \/ Drop \/ Refuse("drop", 0) \/ Quiet

LedgerSpec == LedgerInit /\ [][LedgerNext]_ledgerVars
=============================================================================
