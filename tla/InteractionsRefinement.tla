----------------------- MODULE InteractionsRefinement -----------------------
(* The transactions of Interactions implement LikeLedger. *)
EXTENDS Interactions

\* A toggle that changed nothing read the counter without a lock: its count promises nothing.
shown == [reply EXCEPT !.count = IF reply.op = "toggle" /\ reply.changed # "no" THEN @ ELSE 0]

Ledger == INSTANCE LikeLedger WITH
  likers <- {u \in Users : row[u] # 0},
  thread <- {c \in Comments : row[c] # 0},
  reply <- shown

(* Several statements under row locks look like one: every like, unlike,    *)
(* comment, removal and deletion takes effect at its commit with row,       *)
(* counter and answer together, or leaves everything as it was.             *)
ImplementsLedger == Ledger!LedgerSpec
=============================================================================
