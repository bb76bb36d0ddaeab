---------------------------- MODULE Interactions ----------------------------
(***************************************************************************)
(* Likes and comments of one message under concurrent requests:             *)
(* repository/interaction_repo.go, MessageRepo.Delete, and the tables,      *)
(* unique index, foreign key and counter trigger of migration 001.          *)
(*                                                                         *)
(* PostgreSQL (external) runs at READ COMMITTED: a statement sees what has  *)
(* been committed, waits for the row locks of other transactions, and looks *)
(* again once it has them.  A like row is known by its user (the unique     *)
(* index), a comment row by itself.                                         *)
(***************************************************************************)
EXTENDS Integers, FiniteSets

CONSTANTS Sessions,   \* concurrent requests, each with its own connection and transaction
          Users,      \* users who like: the unique index allows one like row each
          Comments,   \* comments that may be added
          SeedLikes,  \* likes_count at the start, with no like row (migration 002 seeds some)
          MaxOps      \* bound: how many operations are begun in a behaviour

ASSUME KeysAssumption == Users \intersect Comments = {}
ASSUME BoundsAssumption == SeedLikes \in Nat /\ MaxOps \in Nat

Keys == Users \union Comments

VARIABLES
  exists,    \* the messages row is there
  row,       \* id of the interactions row of each key, 0 when there is none
  likes, comments,  \* messages.likes_count, messages.comments_count
  held,      \* of each key: the session with an uncommitted insert or delete of its row
  share,     \* sessions whose foreign key check holds the messages row FOR KEY SHARE
  excl,      \* sessions that update or delete the messages row (at most one)
  tx,        \* of each session: step, operation, key, id seen, what it changed, count read
  reply,     \* the reply the last step sent, if any
  begun      \* operations begun; also the last row id given out

vars == <<exists, row, likes, comments, held, share, excl, tx, reply, begun>>
tableVars == <<exists, row, likes, comments>>
lockVars  == <<held, share, excl>>

Idle == [pc |-> "idle", op |-> "none", key |-> 0, id |-> 0, changed |-> "no", count |-> 0]
NoReply == [op |-> "none", ok |-> FALSE, key |-> 0, changed |-> "no", count |-> 0]
Silent == reply' = NoReply
-----------------------------------------------------------------------------
Init ==
  /\ exists = TRUE
  /\ row = [k \in Keys |-> 0]
  /\ likes = SeedLikes /\ comments = 0
  /\ held = [k \in Keys |-> {}]
  /\ share = {} /\ excl = {}
  /\ tx = [s \in Sessions |-> Idle]
  /\ reply = NoReply
  /\ begun = 0

Begin(s, op, k, pc) ==
  /\ tx[s] = Idle
  /\ begun < MaxOps
  /\ begun' = begun + 1
  /\ tx' = [tx EXCEPT ![s] = [Idle EXCEPT !.pc = pc, !.op = op, !.key = k, !.id = begun + 1]]
  /\ Silent
  /\ UNCHANGED <<tableVars, lockVars>>

\* The handlers.  DeleteComment's key is the comment id; its row is found when it is deleted.
ToggleLike(s, u) == Begin(s, "toggle", u, "select")
AddComment(s, c) == row[c] = 0 /\ (\A t \in Sessions : tx[t].key # c) /\ Begin(s, "add", c, "insert")
DeleteComment(s, c) == row[c] # 0 /\ Begin(s, "remove", c, "find")
DeleteMessage(s) == Begin(s, "drop", 0, "lock")

Go(s, pc) == tx' = [tx EXCEPT ![s].pc = pc]

\* The end of a transaction releases its locks.
Unlock(s) ==
  /\ held' = [k \in Keys |-> held[k] \ {s}]
  /\ share' = share \ {s}
  /\ excl' = excl \ {s}

\* Mutant: an error returns without the deferred tx.Rollback.
RollbackMissing(s) ==
  /\ tx' = [tx EXCEPT ![s] = Idle]
  /\ reply' = [NoReply EXCEPT !.op = tx[s].op, !.key = tx[s].key]
  /\ UNCHANGED <<tableVars, lockVars, begun>>

\* defer tx.Rollback: an error ends the request and undoes what it did.
Rollback(s) ==
  /\ Unlock(s)
  /\ tx' = [tx EXCEPT ![s] = Idle]
  /\ reply' = [NoReply EXCEPT !.op = tx[s].op, !.key = tx[s].key]
  /\ UNCHANGED <<tableVars, begun>>
-----------------------------------------------------------------------------
\* SELECT id FROM interactions ... type = 'like'
Select(s) ==
  /\ tx[s].pc = "select"
  /\ tx' = IF row[tx[s].key] = 0
             THEN [tx EXCEPT ![s].pc = "insert"]
             ELSE [tx EXCEPT ![s].pc = "delete", ![s].id = row[tx[s].key]]
  /\ Silent
  /\ UNCHANGED <<tableVars, lockVars, begun>>

Dropping == {t \in Sessions : t \in excl /\ tx[t].op = "drop"}

\* Mutant: no unique index, the second of two concurrent likes goes through.
InsertUnchecked(s) ==
  LET k == tx[s].key IN
  /\ tx[s].pc = "insert"
  /\ Dropping = {}
  /\ IF ~exists THEN Rollback(s)
     ELSE /\ held' = [held EXCEPT ![k] = @ \union {s}]
          /\ share' = share \union {s}
          /\ tx' = [tx EXCEPT ![s].pc = "bump", ![s].changed = "inserted"]
          /\ Silent
          /\ UNCHANGED <<tableVars, excl, begun>>

\* INSERT: waits for a concurrent insert or delete of the same key; the unique index
\* and the foreign key then decide.
Insert(s) ==
  LET k == tx[s].key IN
  /\ tx[s].pc = "insert"
  /\ held[k] = {} /\ Dropping = {}
  /\ IF row[k] # 0 \/ ~exists THEN Rollback(s)
     ELSE /\ held' = [held EXCEPT ![k] = {s}]
          /\ share' = share \union {s}
          /\ tx' = [tx EXCEPT ![s].pc = "bump", ![s].changed = "inserted"]
          /\ Silent
          /\ UNCHANGED <<tableVars, excl, begun>>

\* Mutant: the counter goes down whether or not the DELETE found its row.
DeleteBlind(s) ==
  /\ tx[s].pc \in {"delete", "find"}
  /\ held[tx[s].key] = {}
  /\ held' = [held EXCEPT ![tx[s].key] = {s}]
  /\ tx' = [tx EXCEPT ![s].pc = "bump", ![s].changed = "removed"]
  /\ Silent
  /\ UNCHANGED <<tableVars, share, excl, begun>>

\* DELETE ... WHERE id: no row is an error for a comment, and goes unnoticed for a like.
Delete(s) ==
  LET k == tx[s].key
      gone == IF tx[s].pc = "delete" THEN row[k] # tx[s].id ELSE row[k] = 0 IN
  /\ tx[s].pc \in {"delete", "find"}
  /\ held[k] = {}
  /\ CASE gone /\ tx[s].op = "remove" -> Rollback(s)
       [] gone /\ tx[s].op = "toggle" -> /\ Go(s, "read") /\ Silent
                                         /\ UNCHANGED <<tableVars, lockVars, begun>>
       [] OTHER -> /\ held' = [held EXCEPT ![k] = {s}]
                   /\ tx' = [tx EXCEPT ![s].pc = "bump", ![s].changed = "removed"]
                   /\ Silent
                   /\ UNCHANGED <<tableVars, share, excl, begun>>

\* Trigger update_interaction_counts: UPDATE messages, which locks the messages row.
Bump(s) ==
  /\ tx[s].pc = "bump"
  /\ excl = {}
  /\ excl' = {s}
  /\ Go(s, IF tx[s].op = "toggle" THEN "read" ELSE "commit")
  /\ Silent
  /\ UNCHANGED <<tableVars, held, share, begun>>

Delta(s) == CASE s \notin excl -> 0
              [] tx[s].changed = "inserted" -> 1
              [] tx[s].changed = "removed" -> -1
              [] OTHER -> 0

\* Mutant: the count is read outside the transaction.
ReadOutside(s) ==
  /\ tx[s].pc = "read"
  /\ IF ~exists THEN Rollback(s)
     ELSE /\ tx' = [tx EXCEPT ![s].pc = "commit", ![s].count = likes]
          /\ Silent
          /\ UNCHANGED <<tableVars, lockVars, begun>>

\* SELECT likes_count: sees this transaction's own update.
Read(s) ==
  /\ tx[s].pc = "read"
  /\ IF ~exists THEN Rollback(s)
     ELSE /\ tx' = [tx EXCEPT ![s].pc = "commit", ![s].count = likes + Delta(s)]
          /\ Silent
          /\ UNCHANGED <<tableVars, lockVars, begun>>

\* COMMIT makes the changes visible; the answer may be lost with the connection.
Commit(s) ==
  LET k == tx[s].key IN
  /\ tx[s].pc = "commit"
  /\ row' = CASE tx[s].changed = "inserted" -> [row EXCEPT ![k] = tx[s].id]
              [] tx[s].changed = "removed" -> [row EXCEPT ![k] = 0]
              [] OTHER -> row
  /\ likes' = IF k \in Users THEN likes + Delta(s) ELSE likes
  /\ comments' = IF k \in Comments THEN comments + Delta(s) ELSE comments
  /\ Unlock(s)
  /\ tx' = [tx EXCEPT ![s] = Idle]
  /\ \E ok \in BOOLEAN :
       reply' = [op |-> tx[s].op, ok |-> ok, key |-> k, changed |-> tx[s].changed,
                 count |-> tx[s].count]
  /\ UNCHANGED <<exists, begun>>
-----------------------------------------------------------------------------
\* Mutant: the DELETE's count of rows is not looked at, the message is deleted again.
LockMessageBlind(s) ==
  /\ tx[s].pc = "lock"
  /\ excl = {} /\ share = {}
  /\ excl' = {s}
  /\ Go(s, "cascade")
  /\ Silent
  /\ UNCHANGED <<tableVars, held, share, begun>>

\* DELETE FROM messages locks the row against everyone; no row is ErrNotFound.
LockMessage(s) ==
  /\ tx[s].pc = "lock"
  /\ excl = {} /\ share = {}
  /\ IF ~exists THEN Rollback(s)
     ELSE /\ excl' = {s}
          /\ Go(s, "cascade")
          /\ Silent
          /\ UNCHANGED <<tableVars, held, share, begun>>

\* ON DELETE CASCADE waits for the rows that other transactions are deleting; the
\* triggers it fires find the messages row already gone.  Its commit's answer may be lost.
Cascade(s) ==
  /\ tx[s].pc = "cascade"
  /\ \A k \in Keys : row[k] # 0 => held[k] = {}
  /\ exists' = FALSE
  /\ row' = [k \in Keys |-> 0]
  /\ likes' = SeedLikes /\ comments' = 0
  /\ Unlock(s)
  /\ tx' = [tx EXCEPT ![s] = Idle]
  /\ \E ok \in BOOLEAN : reply' = [NoReply EXCEPT !.op = "drop", !.ok = ok]
  /\ UNCHANGED begun
-----------------------------------------------------------------------------
WaitsFor(s) ==
  CASE tx[s].pc = "insert" -> held[tx[s].key] \union Dropping
    [] tx[s].pc \in {"delete", "find"} -> held[tx[s].key]
    [] tx[s].pc = "bump" -> excl
    [] tx[s].pc = "lock" -> excl \union share
    [] tx[s].pc = "cascade" -> UNION {held[k] : k \in {x \in Keys : row[x] # 0}}
    [] OTHER -> {}

\* deadlock_timeout: PostgreSQL aborts a transaction that waits in a cycle.
DeadlockAbort(s) ==
  /\ \E t \in Sessions \ {s} : t \in WaitsFor(s) /\ s \in WaitsFor(t)
  /\ Rollback(s)

\* The request is cancelled or its connection fails before the commit.
Fail(s) == tx[s] # Idle /\ Rollback(s)
-----------------------------------------------------------------------------
Start(s) ==
  \/ \E u \in Users : ToggleLike(s, u)
  \/ \E c \in Comments : AddComment(s, c) \/ DeleteComment(s, c)
  \/ DeleteMessage(s)

Step(s) == \/ Select(s) \/ Insert(s) \/ Delete(s) \/ Bump(s) \/ Read(s) \/ Commit(s)
           \/ LockMessage(s) \/ Cascade(s) \/ DeadlockAbort(s)

Next == \E s \in Sessions : Start(s) \/ Step(s) \/ Fail(s)

Spec == Init /\ [][Next]_vars

(* A statement that can run does; users need not begin anything, and no     *)
(* connection has to fail.                                                  *)
FairSpec == Spec /\ \A s \in Sessions : WF_vars(Step(s))
-----------------------------------------------------------------------------
(* The value domains of the variables. *)
TypeOK ==
  /\ exists \in BOOLEAN
  /\ row \in [Keys -> 0 .. MaxOps]
  /\ likes \in Nat /\ comments \in Nat
  /\ held \in [Keys -> SUBSET Sessions]
  /\ share \subseteq Sessions /\ excl \subseteq Sessions
  /\ tx \in [Sessions ->
       [pc : {"idle", "select", "insert", "delete", "find", "bump", "read", "commit", "lock",
              "cascade"},
        op : {"none", "toggle", "add", "remove", "drop"}, key : Keys \union {0},
        id : 0 .. MaxOps, changed : {"no", "inserted", "removed"}, count : Int]]
  /\ reply \in [op : {"none", "toggle", "add", "remove", "drop"}, ok : BOOLEAN,
                key : Keys \union {0}, changed : {"no", "inserted", "removed"}, count : Int]
  /\ begun \in 0 .. MaxOps

(* The counters the trigger keeps agree with the rows in every committed    *)
(* state: likes_count moves exactly with the like rows and comments_count   *)
(* with the comments, across rollbacks, lost commits, double toggles and a  *)
(* concurrent deletion of the message, which no row survives.               *)
CountersMatchRows ==
  /\ likes = SeedLikes + Cardinality({u \in Users : row[u] # 0})
  /\ comments = Cardinality({c \in Comments : row[c] # 0})
  /\ ~exists => \A k \in Keys : row[k] = 0

(* A like or unlike that changed a row replies with the count and the state *)
(* it committed, not with those of an interleaved toggle.                   *)
ReplyIsCommitted ==
  reply.ok /\ reply.op = "toggle" /\ reply.changed # "no" =>
    /\ reply.count = likes
    /\ (reply.changed = "inserted") = (row[reply.key] # 0)

(* Requests that wait in a cycle, however many, always include two that     *)
(* wait for each other: a deletion of the message in its cascade and the    *)
(* removal of a like or comment.  Likes, unlikes and comments alone never   *)
(* deadlock, and aborting one of the two frees the other.                   *)
DeadlocksArePairs ==
  \A C \in SUBSET Sessions :
    C # {} /\ (\A s \in C : WaitsFor(s) \intersect C # {}) =>
      \E s, t \in C : /\ tx[s].pc = "cascade" /\ tx[t].changed = "removed"
                      /\ t \in WaitsFor(s) /\ s \in WaitsFor(t)

(* As long as a request is unfinished, one of them can go on: it waits for  *)
(* nobody, or it is in a cycle that the detector breaks.  No lock is left   *)
(* behind by a request that has ended, in whatever way.                     *)
SomeoneCanMove ==
  (\E s \in Sessions : tx[s] # Idle) =>
    \E s \in Sessions :
      /\ tx[s] # Idle
      /\ \/ WaitsFor(s) = {}
         \/ \E t \in Sessions \ {s} : t \in WaitsFor(s) /\ s \in WaitsFor(t)

(* Every request ends: waits for locks, also the cycle between an unlike    *)
(* and the deletion of the message, are always resolved.                    *)
RequestsEnd == \A s \in Sessions : tx[s] # Idle ~> tx[s] = Idle
=============================================================================
