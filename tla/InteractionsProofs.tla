------------------------- MODULE InteractionsProofs -------------------------
(* Likes and comments for any number of concurrent requests, users and      *)
(* comments: the counters match the rows and a reply states what was        *)
(* committed.                                                               *)
EXTENDS InteractionsRefinement, FiniteSetTheorems, TLAPS

USE DEF vars, tableVars, lockVars

(***************************************************************************)
(* The inductive invariant.  Shape is what a request can look like at each  *)
(* step.  RowLocks says that a request that has changed a row is the only   *)
(* holder of that row, and RowAsLocked that the committed row is still what *)
(* the request found when it took the lock.  MessageLocks says the same of  *)
(* the messages row: one request at a time has a counter update or a        *)
(* deletion pending, and no deletion is pending while a foreign key check   *)
(* holds the row.  CountAsRead is why the count that ToggleLike read is     *)
(* still right at its commit.                                               *)
(***************************************************************************)
Shape(t) ==
  /\ t.pc = "idle" <=> t = Idle
  /\ t.pc # "idle" => t.id # 0 /\ t.op # "none"
  /\ t.pc \in {"lock", "cascade"} <=> t.op = "drop"
  /\ t.pc \in {"select", "delete", "read"} => t.op = "toggle"
  /\ t.pc = "insert" => t.op \in {"toggle", "add"}
  /\ t.pc = "find" => t.op = "remove"
  /\ t.op = "toggle" => t.key \in Users
  /\ t.op \in {"add", "remove"} => t.key \in Comments
  /\ t.op = "drop" => t.key = 0
  /\ t.pc \in {"idle", "select", "insert", "delete", "find", "lock", "cascade"} => t.changed = "no"
  /\ t.pc = "bump" \/ (t.pc = "commit" /\ t.op # "toggle") => t.changed # "no"
  /\ t.op = "add" => t.changed # "removed"
  /\ t.op = "remove" => t.changed # "inserted"

ShapeInv == \A s \in Sessions : Shape(tx[s])

RowLocks ==
  /\ \A k \in Keys : \A s \in held[k] : tx[s].key = k /\ tx[s].changed # "no"
  /\ \A s \in Sessions : tx[s].changed # "no" => held[tx[s].key] = {s}

RowAsLocked ==
  \A s \in Sessions :
    /\ tx[s].changed = "inserted" => row[tx[s].key] = 0 /\ s \in share
    /\ tx[s].changed = "removed" => row[tx[s].key] # 0

\* The request has updated a counter or is deleting the message, and has not ended.
Updating(t) == t.pc = "cascade" \/ (t.pc \in {"read", "commit"} /\ t.changed # "no")

MessageLocks ==
  /\ \A s, t \in excl : s = t
  /\ \A s \in Sessions : s \in excl <=> Updating(tx[s])
  /\ \A s \in share : tx[s].changed = "inserted"
  /\ \A s \in Sessions : tx[s].pc = "cascade" => share = {} /\ exists
  /\ share # {} => exists

CountAsRead ==
  \A s \in Sessions : tx[s].pc = "commit" /\ tx[s].op = "toggle" /\ tx[s].changed # "no" =>
    tx[s].count = likes + (IF tx[s].changed = "inserted" THEN 1 ELSE -1)

LikeRows == {u \in Users : row[u] # 0}
CommentRows == {c \in Comments : row[c] # 0}
FiniteRows == IsFiniteSet(LikeRows) /\ IsFiniteSet(CommentRows)

LockInv == ShapeInv /\ RowLocks /\ RowAsLocked /\ MessageLocks
CountInv == CountAsRead /\ FiniteRows /\ CountersMatchRows
InterInv == TypeOK /\ LockInv /\ CountInv

\* The records that tx ranges over, and the replies.
TxType == [pc : {"idle", "select", "insert", "delete", "find", "bump", "read", "commit", "lock",
                 "cascade"},
           op : {"none", "toggle", "add", "remove", "drop"}, key : Keys \union {0},
           id : 0 .. MaxOps, changed : {"no", "inserted", "removed"}, count : Int]
ReplyType == [op : {"none", "toggle", "add", "remove", "drop"}, ok : BOOLEAN,
              key : Keys \union {0}, changed : {"no", "inserted", "removed"}, count : Int]

(* The records that stand for "nothing" have the types of the others. *)
LEMMA IdleType == Idle \in TxType /\ NoReply \in ReplyType
  BY BoundsAssumption DEF Idle, NoReply, TxType, ReplyType

(* The counters are natural numbers because they count finite sets. *)
LEMMA CountersAreNat ==
  ASSUME FiniteRows, CountersMatchRows
  PROVE  likes \in Nat /\ comments \in Nat
<1>1. Cardinality(LikeRows) \in Nat /\ Cardinality(CommentRows) \in Nat
  BY FS_CardinalityType DEF FiniteRows
<1>2. QED
  BY <1>1, BoundsAssumption DEF CountersMatchRows, LikeRows, CommentRows

(* The invariant of the counters depends on the tables and on the counts read. *)
LEMMA SameTables ==
  ASSUME CountInv, UNCHANGED tableVars, CountAsRead'
  PROVE  CountInv'
<1>1. LikeRows' = LikeRows /\ CommentRows' = CommentRows
  BY DEF LikeRows, CommentRows
<1>2. FiniteRows'
  BY <1>1 DEF CountInv, FiniteRows
<1>3. CountersMatchRows'
  BY DEF CountInv, CountersMatchRows
<1>4. QED BY <1>2, <1>3 DEF CountInv

(* A step of one request that changes no table and no lock. *)
LEMMA QuietStep ==
  ASSUME InterInv, NEW s \in Sessions, NEW r \in TxType, tx' = [tx EXCEPT ![s] = r],
         Shape(r), r.changed = tx[s].changed, r.changed # "no" => r.key = tx[s].key,
         Updating(r) <=> Updating(tx[s]), r.pc = "cascade" <=> tx[s].pc = "cascade",
         r.pc = "commit" /\ r.op = "toggle" /\ r.changed # "no" =>
           r.count = likes + (IF r.changed = "inserted" THEN 1 ELSE -1),
         UNCHANGED <<tableVars, lockVars>>, reply' \in ReplyType, begun' \in 0 .. MaxOps
  PROVE  InterInv'
<1>0. tx \in [Sessions -> TxType] /\ held \in [Keys -> SUBSET Sessions] /\ excl \subseteq Sessions /\ share \subseteq Sessions
  BY DEF InterInv, TypeOK, TxType
<1>1. tx'[s] = r /\ \A t \in Sessions : t # s => tx'[t] = tx[t]
  BY <1>0
<1>2. ShapeInv'
  BY <1>1 DEF InterInv, LockInv, ShapeInv
<1>3. RowLocks'
  BY <1>0, <1>1 DEF InterInv, LockInv, RowLocks
<1>4. RowAsLocked'
  BY <1>1 DEF InterInv, LockInv, RowAsLocked
<1>5. MessageLocks'
  BY <1>0, <1>1 DEF InterInv, LockInv, MessageLocks
<1>6. CountAsRead'
  BY <1>1 DEF InterInv, CountInv, CountAsRead
<1>7. TypeOK'
  <2>1. tx' \in [Sessions -> TxType]
    BY <1>0
  <2>2. QED
    BY <2>1 DEF InterInv, TypeOK, TxType, ReplyType
<1>8. QED
  BY <1>2, <1>3, <1>4, <1>5, <1>6, <1>7, SameTables DEF InterInv, LockInv

(* A rollback releases the locks of a request and nobody else's. *)
LEMMA RollbackStep ==
  ASSUME InterInv, NEW s \in Sessions, Rollback(s)
  PROVE  InterInv'
<1>0. /\ tx \in [Sessions -> TxType] /\ held \in [Keys -> SUBSET Sessions]
      /\ excl \subseteq Sessions /\ share \subseteq Sessions
  BY DEF InterInv, TypeOK, TxType
<1>1. /\ tx' = [tx EXCEPT ![s] = Idle]
      /\ held' = [k \in Keys |-> held[k] \ {s}] /\ share' = share \ {s} /\ excl' = excl \ {s}
      /\ reply' = [NoReply EXCEPT !.op = tx[s].op, !.key = tx[s].key]
      /\ UNCHANGED <<exists, row, likes, comments, begun>>
  BY DEF Rollback, Unlock
<1>2. tx'[s] = Idle /\ \A t \in Sessions : t # s => tx'[t] = tx[t]
  BY <1>0, <1>1
<1>3. Shape(Idle) /\ Idle.changed = "no" /\ Idle.pc = "idle" /\ ~Updating(Idle)
  BY DEF Shape, Idle, Updating
<1>4. ShapeInv'
  BY <1>2, <1>3 DEF InterInv, LockInv, ShapeInv
<1>5. RowLocks'
  <2>1. ASSUME NEW t \in Sessions, tx'[t].changed # "no" PROVE held'[tx'[t].key] = {t}
    <3>1. t # s /\ tx'[t] = tx[t]
      BY <1>2, <1>3, <2>1
    <3>2. held[tx[t].key] = {t}
      BY <2>1, <3>1 DEF InterInv, LockInv, RowLocks
    <3>3. tx[t].key \in Keys
      BY <2>1, <3>1, <1>0 DEF InterInv, LockInv, ShapeInv, Shape, TxType, Idle, Keys
    <3>4. QED BY <1>1, <3>1, <3>2, <3>3
  <2>2. ASSUME NEW k \in Keys, NEW t \in held'[k] PROVE tx'[t].key = k /\ tx'[t].changed # "no"
    <3>1. t \in held[k] /\ t # s /\ t \in Sessions
      BY <1>0, <1>1
    <3>2. QED BY <1>2, <3>1 DEF InterInv, LockInv, RowLocks
  <2>3. QED BY <2>1, <2>2 DEF RowLocks
<1>6. RowAsLocked'
  BY <1>1, <1>2, <1>3 DEF InterInv, LockInv, RowAsLocked
<1>7. MessageLocks'
  BY <1>0, <1>1, <1>2, <1>3 DEF InterInv, LockInv, MessageLocks
<1>8. CountAsRead'
  BY <1>1, <1>2, <1>3 DEF InterInv, CountInv, CountAsRead
<1>9. TypeOK'
  <2>1. tx' \in [Sessions -> TxType]
    BY <1>0, <1>1, IdleType
  <2>2. reply' \in ReplyType
    <3>1. tx[s].op \in {"none", "toggle", "add", "remove", "drop"} /\ tx[s].key \in Keys \union {0}
      BY <1>0 DEF TxType
    <3>2. reply' = [op |-> tx[s].op, ok |-> FALSE, key |-> tx[s].key, changed |-> "no", count |-> 0]
      BY <1>1 DEF NoReply
    <3>3. QED BY <3>1, <3>2 DEF ReplyType
  <2>3. held' \in [Keys -> SUBSET Sessions] /\ share' \subseteq Sessions /\ excl' \subseteq Sessions
    BY <1>0, <1>1
  <2>4. QED
    BY <1>1, <2>1, <2>2, <2>3 DEF InterInv, TypeOK, TxType, ReplyType
<1>10. QED
  BY <1>1, <1>4, <1>5, <1>6, <1>7, <1>8, <1>9, SameTables DEF InterInv, LockInv

(* The handlers: a request begins with nothing changed and an id of its own. *)
LEMMA StartStep ==
  ASSUME InterInv, NEW s \in Sessions, Start(s)
  PROVE  InterInv'
<1>1. ASSUME NEW op, NEW k, NEW pc, Begin(s, op, k, pc),
             \/ op = "toggle" /\ k \in Users /\ pc = "select"
             \/ op = "add" /\ k \in Comments /\ pc = "insert"
             \/ op = "remove" /\ k \in Comments /\ pc = "find"
             \/ op = "drop" /\ k = 0 /\ pc = "lock"
      PROVE  InterInv'
  <2> DEFINE r == [pc |-> pc, op |-> op, key |-> k, id |-> begun + 1, changed |-> "no", count |-> 0]
  <2>1. tx[s] = Idle /\ begun < MaxOps /\ begun' = begun + 1 /\ begun \in 0 .. MaxOps
    BY <1>1 DEF Begin, InterInv, TypeOK
  <2>2. tx' = [tx EXCEPT ![s] = r]
    <3>1. [Idle EXCEPT !.pc = pc, !.op = op, !.key = k, !.id = begun + 1] = r
      <4>1. [Idle EXCEPT !.pc = pc]
              = [pc |-> pc, op |-> "none", key |-> 0, id |-> 0, changed |-> "no", count |-> 0]
        BY DEF Idle
      <4>2. [[pc |-> pc, op |-> "none", key |-> 0, id |-> 0, changed |-> "no", count |-> 0] EXCEPT !.op = op]
              = [pc |-> pc, op |-> op, key |-> 0, id |-> 0, changed |-> "no", count |-> 0]
        OBVIOUS
      <4>3. [[pc |-> pc, op |-> op, key |-> 0, id |-> 0, changed |-> "no", count |-> 0] EXCEPT !.key = k]
              = [pc |-> pc, op |-> op, key |-> k, id |-> 0, changed |-> "no", count |-> 0]
        OBVIOUS
      <4>4. [[pc |-> pc, op |-> op, key |-> k, id |-> 0, changed |-> "no", count |-> 0] EXCEPT !.id = begun + 1]
              = r
        OBVIOUS
      <4>5. [Idle EXCEPT !.pc = pc, !.op = op, !.key = k, !.id = begun + 1]
              = [[[[Idle EXCEPT !.pc = pc] EXCEPT !.op = op] EXCEPT !.key = k] EXCEPT !.id = begun + 1]
        OBVIOUS
      <4>6. QED BY <4>1, <4>2, <4>3, <4>4, <4>5, Zenon
    <3>2. QED BY <1>1, <3>1, Zenon DEF Begin
  <2>3. begun + 1 \in 1 .. MaxOps
    BY <2>1, BoundsAssumption
  <2>4. r \in TxType
    BY <1>1, <2>3 DEF TxType, Keys
  <2>5. Shape(r)
    BY <1>1, <2>3 DEF Shape, Idle
  <2>6. /\ r.changed = tx[s].changed /\ r.changed = "no" /\ ~Updating(r) /\ ~Updating(tx[s])
        /\ r.pc # "cascade" /\ tx[s].pc # "cascade"
    BY <1>1, <2>1 DEF Idle, Updating
  <2>7. reply' \in ReplyType
    BY <1>1, IdleType DEF Begin, Silent
  <2>8. UNCHANGED <<tableVars, lockVars>> /\ begun' \in 0 .. MaxOps
    BY <1>1, <2>1, <2>3 DEF Begin
  <2> HIDE DEF r
  <2>9. QED
    BY <2>2, <2>4, <2>5, <2>6, <2>7, <2>8, QuietStep
<1>2. QED
  BY <1>1 DEF Start, ToggleLike, AddComment, DeleteComment, DeleteMessage

(* The select of ToggleLike decides between an insert and a delete. *)
LEMMA SelectStep ==
  ASSUME InterInv, NEW s \in Sessions, Select(s)
  PROVE  InterInv'
<1>0. tx \in [Sessions -> TxType] /\ row \in [Keys -> 0 .. MaxOps]
  BY DEF InterInv, TypeOK, TxType
<1>1. /\ tx[s].pc = "select" /\ Shape(tx[s]) /\ tx[s] \in TxType
      /\ UNCHANGED <<tableVars, lockVars, begun>> /\ reply' = NoReply
  BY <1>0 DEF Select, Silent, InterInv, LockInv, ShapeInv
<1>2. tx[s].key \in Users /\ tx[s].changed = "no" /\ tx[s].op = "toggle" /\ tx[s].id # 0
  BY <1>1 DEF Shape
<1>3. row[tx[s].key] \in 0 .. MaxOps
  BY <1>0, <1>2 DEF Keys
<1>4. PICK r : r = IF row[tx[s].key] = 0 THEN [tx[s] EXCEPT !.pc = "insert"]
                   ELSE [tx[s] EXCEPT !.pc = "delete", !.id = row[tx[s].key]]
  OBVIOUS
<1>5. tx' = [tx EXCEPT ![s] = r]
  BY <1>0, <1>4 DEF Select
<1>6. r \in TxType
  BY <1>1, <1>3, <1>4 DEF TxType
<1>7. /\ r.pc \in {"insert", "delete"} /\ r.op = "toggle" /\ r.key = tx[s].key
      /\ r.changed = "no" /\ r.id # 0
  BY <1>1, <1>2, <1>4 DEF TxType
<1>8. Shape(r)
  BY <1>2, <1>7 DEF Shape, Idle
<1>9. ~Updating(r) /\ ~Updating(tx[s])
  BY <1>1, <1>2, <1>7 DEF Updating
<1>10. begun' \in 0 .. MaxOps /\ reply' \in ReplyType
  BY <1>1, IdleType DEF InterInv, TypeOK
<1>11. QED
  BY <1>1, <1>2, <1>5, <1>6, <1>7, <1>8, <1>9, <1>10, QuietStep

(* Taking the lock of a row: the request is the only one that holds it, the   *)
(* row is what it found, and an insert also holds the messages row.           *)
LEMMA TakeRow ==
  ASSUME InterInv, NEW s \in Sessions, NEW c \in {"inserted", "removed"},
         tx[s].changed = "no",
         tx[s].pc \in (IF c = "inserted" THEN {"insert"} ELSE {"delete", "find"}),
         held[tx[s].key] = {}, held' = [held EXCEPT ![tx[s].key] = {s}],
         tx' = [tx EXCEPT ![s].pc = "bump", ![s].changed = c],
         \/ c = "inserted" /\ row[tx[s].key] = 0 /\ share' = share \union {s} /\ exists /\ Dropping = {}
         \/ c = "removed" /\ row[tx[s].key] # 0 /\ share' = share,
         reply' = NoReply, UNCHANGED <<tableVars, excl, begun>>
  PROVE  InterInv'
<1>0. /\ tx \in [Sessions -> TxType] /\ held \in [Keys -> SUBSET Sessions]
      /\ excl \subseteq Sessions /\ share \subseteq Sessions
  BY DEF InterInv, TypeOK, TxType
<1>1. PICK r : r = [tx[s] EXCEPT !.pc = "bump", !.changed = c]
  OBVIOUS
<1>2. /\ r \in TxType /\ r.pc = "bump" /\ r.changed = c /\ r.key = tx[s].key /\ r.op = tx[s].op
      /\ r.id = tx[s].id
  BY <1>0, <1>1 DEF TxType
<1>3. tx' = [tx EXCEPT ![s] = r]
  BY <1>0, <1>1
<1>4. tx'[s] = r /\ \A t \in Sessions : t # s => tx'[t] = tx[t]
  BY <1>0, <1>3
<1>5. Shape(tx[s]) /\ tx[s].key \in Keys
  BY DEF InterInv, LockInv, ShapeInv, Shape, Keys
<1>6. ShapeInv'
  <2>1. Shape(r)
    BY <1>2, <1>5 DEF Shape, Idle
  <2>2. QED BY <1>4, <2>1 DEF InterInv, LockInv, ShapeInv
<1>7. RowLocks'
  <2>1. \A t \in Sessions : t # s /\ tx[t].changed # "no" => tx[t].key # tx[s].key
    BY DEF InterInv, LockInv, RowLocks
  <2>2. \A t \in Sessions : tx[t].changed # "no" => tx[t].key \in Keys
    BY DEF InterInv, LockInv, ShapeInv, Shape, Idle, Keys, TypeOK
  <2>3. \A k \in Keys : held'[k] = IF k = tx[s].key THEN {s} ELSE held[k]
    BY <1>0
  <2>4. ASSUME NEW t \in Sessions, tx'[t].changed # "no" PROVE held'[tx'[t].key] = {t}
    <3>1. CASE t = s
      BY <1>2, <1>4, <1>5, <2>3, <3>1
    <3>2. CASE t # s
      <4>1. tx'[t] = tx[t] /\ tx[t].changed # "no"
        BY <1>4, <2>4, <3>2
      <4>2. held[tx[t].key] = {t}
        BY <4>1 DEF InterInv, LockInv, RowLocks
      <4>3. held'[tx[t].key] = held[tx[t].key]
        BY <2>1, <2>2, <2>3, <3>2, <4>1
      <4>4. QED BY <4>1, <4>2, <4>3
    <3>3. QED BY <3>1, <3>2
  <2>5. ASSUME NEW k \in Keys, NEW t \in held'[k] PROVE tx'[t].key = k /\ tx'[t].changed # "no"
    <3>1. CASE k = tx[s].key
      <4>1. t = s
        BY <2>3, <3>1
      <4>2. QED BY <1>2, <1>4, <3>1, <4>1
    <3>2. CASE k # tx[s].key
      <4>1. t \in held[k] /\ t \in Sessions
        BY <1>0, <2>3, <3>2
      <4>2. t # s
        BY <4>1 DEF InterInv, LockInv, RowLocks
      <4>3. tx[t].key = k /\ tx[t].changed # "no"
        BY <4>1 DEF InterInv, LockInv, RowLocks
      <4>4. QED BY <1>4, <4>1, <4>2, <4>3
    <3>3. QED BY <3>1, <3>2
  <2>6. QED BY <2>4, <2>5 DEF RowLocks
<1>8. RowAsLocked'
  <2>1. row' = row
    BY DEF tableVars
  <2>2. /\ tx'[s].changed = "inserted" => row[tx'[s].key] = 0 /\ s \in share'
        /\ tx'[s].changed = "removed" => row[tx'[s].key] # 0
    BY <1>2, <1>4
  <2>3. ASSUME NEW t \in Sessions, t # s
        PROVE  /\ tx'[t].changed = "inserted" => row[tx'[t].key] = 0 /\ t \in share'
               /\ tx'[t].changed = "removed" => row[tx'[t].key] # 0
    <3>1. /\ tx[t].changed = "inserted" => row[tx[t].key] = 0 /\ t \in share
          /\ tx[t].changed = "removed" => row[tx[t].key] # 0
      BY DEF InterInv, LockInv, RowAsLocked
    <3>2. tx'[t] = tx[t] /\ share \subseteq share'
      BY <1>4, <2>3
    <3>3. QED BY <3>1, <3>2
  <2>4. QED BY <2>1, <2>2, <2>3 DEF RowAsLocked
<1>9. MessageLocks'
  <2>1. ~Updating(tx[s]) /\ ~Updating(r)
    BY <1>2 DEF Updating
  <2>2. c = "inserted" => \A t \in Sessions : tx[t].pc # "cascade"
    <3>1. \A t \in Sessions : tx[t].pc = "cascade" => t \in Dropping
      BY DEF InterInv, LockInv, MessageLocks, ShapeInv, Shape, Updating, Dropping
    <3>2. QED BY <3>1
  <2>3. \A t \in Sessions : t # s => (t \in share' <=> t \in share)
    OBVIOUS
  <2>4. \A t \in share' : tx'[t].changed = "inserted"
    BY <1>0, <1>2, <1>4 DEF InterInv, LockInv, MessageLocks
  <2>5. \A t \in Sessions : tx'[t].pc = "cascade" => share' = {} /\ exists'
    BY <1>2, <1>4, <2>2 DEF InterInv, LockInv, MessageLocks
  <2>6. share' # {} => exists'
    BY DEF InterInv, LockInv, MessageLocks
  <2>7. \A t \in Sessions : t \in excl' <=> Updating(tx'[t])
    BY <1>4, <2>1 DEF InterInv, LockInv, MessageLocks
  <2>8. QED
    BY <2>4, <2>5, <2>6, <2>7 DEF InterInv, LockInv, MessageLocks
<1>10. CountAsRead'
  <2>1. CountAsRead /\ likes' = likes
    BY DEF InterInv, CountInv, tableVars
  <2>2. tx'[s].pc # "commit"
    BY <1>2, <1>4
  <2>3. QED BY <1>4, <2>1, <2>2 DEF CountAsRead
<1>11. TypeOK'
  <2>1. tx' \in [Sessions -> TxType]
    BY <1>0, <1>2, <1>3
  <2>2. held' \in [Keys -> SUBSET Sessions] /\ share' \subseteq Sessions
    BY <1>0
  <2>3. QED
    BY <2>1, <2>2, IdleType DEF InterInv, TypeOK, TxType, ReplyType
<1>12. QED
  BY <1>6, <1>7, <1>8, <1>9, <1>10, <1>11, SameTables DEF InterInv, LockInv

(* The insert: the unique index and the foreign key decide. *)
LEMMA InsertStep ==
  ASSUME InterInv, NEW s \in Sessions, Insert(s)
  PROVE  InterInv'
<1>1. tx[s].pc = "insert" /\ tx[s].changed = "no" /\ held[tx[s].key] = {} /\ Dropping = {}
  BY DEF Insert, InterInv, LockInv, ShapeInv, Shape
<1>2. CASE row[tx[s].key] # 0 \/ ~exists
  BY <1>2, RollbackStep DEF Insert
<1>3. CASE ~(row[tx[s].key] # 0 \/ ~exists)
  BY <1>1, <1>3, TakeRow DEF Insert, Silent
<1>4. QED BY <1>2, <1>3

(* The delete: a row that is gone is an error for a comment and goes unnoticed *)
(* for a like.                                                                 *)
LEMMA DeleteStep ==
  ASSUME InterInv, NEW s \in Sessions, Delete(s)
  PROVE  InterInv'
<1>0. tx \in [Sessions -> TxType]
  BY DEF InterInv, TypeOK, TxType
<1> DEFINE gone == IF tx[s].pc = "delete" THEN row[tx[s].key] # tx[s].id ELSE row[tx[s].key] = 0
<1>1. /\ tx[s].pc \in {"delete", "find"} /\ Shape(tx[s]) /\ held[tx[s].key] = {}
      /\ tx[s].changed = "no" /\ tx[s].id # 0 /\ tx[s] \in TxType
  BY <1>0 DEF Delete, InterInv, LockInv, ShapeInv, Shape
<1>2. CASE gone /\ tx[s].op = "remove"
  BY <1>2, RollbackStep DEF Delete
<1>3. CASE gone /\ tx[s].op = "toggle"
  <2>1. /\ tx' = [tx EXCEPT ![s].pc = "read"] /\ reply' = NoReply
        /\ UNCHANGED <<tableVars, lockVars, begun>>
    BY <1>3 DEF Delete, Go, Silent
  <2>2. PICK r : r = [tx[s] EXCEPT !.pc = "read"]
    OBVIOUS
  <2>3. tx' = [tx EXCEPT ![s] = r]
    BY <1>0, <2>1, <2>2
  <2>4. /\ r \in TxType /\ r.pc = "read" /\ r.op = "toggle" /\ r.key = tx[s].key
        /\ r.changed = "no" /\ r.id # 0
    BY <1>1, <1>3, <2>2 DEF TxType
  <2>5. Shape(r) /\ ~Updating(r) /\ ~Updating(tx[s])
    BY <1>1, <1>3, <2>4 DEF Shape, Idle, Updating
  <2>6. begun' \in 0 .. MaxOps /\ reply' \in ReplyType
    BY <2>1, IdleType DEF InterInv, TypeOK
  <2>7. QED
    BY <1>1, <2>1, <2>3, <2>4, <2>5, <2>6, QuietStep
<1>4. CASE ~gone
  <2>1. row[tx[s].key] # 0
    BY <1>1, <1>4
  <2>2. /\ held' = [held EXCEPT ![tx[s].key] = {s}]
        /\ tx' = [tx EXCEPT ![s].pc = "bump", ![s].changed = "removed"]
        /\ reply' = NoReply /\ UNCHANGED <<tableVars, share, excl, begun>>
    BY <1>4 DEF Delete, Silent
  <2>3. QED
    BY <1>1, <2>1, <2>2, TakeRow
<1>5. QED
  BY <1>1, <1>2, <1>3, <1>4 DEF Shape

(* The trigger's UPDATE takes the messages row, alone. *)
LEMMA BumpStep ==
  ASSUME InterInv, NEW s \in Sessions, Bump(s)
  PROVE  InterInv'
<1>0. /\ tx \in [Sessions -> TxType] /\ held \in [Keys -> SUBSET Sessions]
      /\ excl \subseteq Sessions /\ share \subseteq Sessions
  BY DEF InterInv, TypeOK, TxType
<1>1. /\ tx[s].pc = "bump" /\ Shape(tx[s]) /\ tx[s] \in TxType /\ tx[s].changed # "no"
      /\ excl = {} /\ excl' = {s} /\ reply' = NoReply
      /\ UNCHANGED <<tableVars, held, share, begun>>
  BY <1>0 DEF Bump, Silent, InterInv, LockInv, ShapeInv, Shape
<1>2. PICK r : r = [tx[s] EXCEPT !.pc = IF tx[s].op = "toggle" THEN "read" ELSE "commit"]
  OBVIOUS
<1>3. tx' = [tx EXCEPT ![s] = r]
  BY <1>0, <1>2 DEF Bump, Go
<1>4. /\ r \in TxType /\ r.pc = IF tx[s].op = "toggle" THEN "read" ELSE "commit"
      /\ r.op = tx[s].op /\ r.key = tx[s].key /\ r.changed = tx[s].changed /\ r.id = tx[s].id
  BY <1>1, <1>2 DEF TxType
<1>5. tx'[s] = r /\ \A t \in Sessions : t # s => tx'[t] = tx[t]
  BY <1>0, <1>3
<1>6. ShapeInv'
  <2>1. Shape(r)
    BY <1>1, <1>4 DEF Shape, Idle
  <2>2. QED BY <1>5, <2>1 DEF InterInv, LockInv, ShapeInv
<1>7. RowLocks'
  BY <1>0, <1>1, <1>4, <1>5 DEF InterInv, LockInv, RowLocks
<1>8. RowAsLocked'
  BY <1>1, <1>4, <1>5 DEF InterInv, LockInv, RowAsLocked
<1>9. MessageLocks'
  <2>1. Updating(r) /\ r.pc # "cascade"
    BY <1>1, <1>4 DEF Updating
  <2>2. \A t \in Sessions : ~Updating(tx[t])
    BY <1>1 DEF InterInv, LockInv, MessageLocks
  <2>3. \A t \in Sessions : t \in excl' <=> Updating(tx'[t])
    BY <1>1, <1>5, <2>1, <2>2
  <2>4. QED
    BY <1>0, <1>1, <1>4, <1>5, <2>1, <2>3 DEF InterInv, LockInv, MessageLocks
<1>10. CountAsRead'
  BY <1>1, <1>4, <1>5 DEF InterInv, CountInv, CountAsRead
<1>11. TypeOK'
  <2>1. tx' \in [Sessions -> TxType]
    BY <1>0, <1>3, <1>4
  <2>2. QED
    BY <1>1, <2>1, IdleType DEF InterInv, TypeOK, TxType, ReplyType
<1>12. QED
  BY <1>1, <1>6, <1>7, <1>8, <1>9, <1>10, <1>11, SameTables DEF InterInv, LockInv

(* The count that ToggleLike reads includes its own update. *)
LEMMA ReadStep ==
  ASSUME InterInv, NEW s \in Sessions, Read(s)
  PROVE  InterInv'
<1>0. tx \in [Sessions -> TxType]
  BY DEF InterInv, TypeOK, TxType
<1>1. CASE ~exists
  BY <1>1, RollbackStep DEF Read
<1>2. CASE exists
  <2>1. /\ tx[s].pc = "read" /\ Shape(tx[s]) /\ tx[s] \in TxType /\ tx[s].op = "toggle"
        /\ tx[s].key \in Users /\ tx[s].id # 0
        /\ tx' = [tx EXCEPT ![s].pc = "commit", ![s].count = likes + Delta(s)]
        /\ reply' = NoReply /\ UNCHANGED <<tableVars, lockVars, begun>>
    BY <1>0, <1>2 DEF Read, Silent, InterInv, LockInv, ShapeInv, Shape
  <2>2. s \in excl <=> tx[s].changed # "no"
    BY <2>1 DEF InterInv, LockInv, MessageLocks, Updating
  <2>3. /\ Delta(s) \in Int
        /\ tx[s].changed = "inserted" => Delta(s) = 1
        /\ tx[s].changed = "removed" => Delta(s) = -1
    BY <2>1, <2>2 DEF Delta, TxType
  <2>4. likes + Delta(s) \in Int
    BY <2>3 DEF InterInv, TypeOK
  <2>5. PICK r : r = [tx[s] EXCEPT !.pc = "commit", !.count = likes + Delta(s)]
    OBVIOUS
  <2>6. tx' = [tx EXCEPT ![s] = r]
    BY <1>0, <2>1, <2>5
  <2>7. /\ r \in TxType /\ r.pc = "commit" /\ r.op = "toggle" /\ r.key = tx[s].key
        /\ r.changed = tx[s].changed /\ r.id # 0 /\ r.count = likes + Delta(s)
    BY <2>1, <2>4, <2>5 DEF TxType
  <2>8. Shape(r) /\ (Updating(r) <=> Updating(tx[s]))
    BY <2>1, <2>7 DEF Shape, Idle, Updating
  <2>9. r.changed # "no" => r.count = likes + (IF r.changed = "inserted" THEN 1 ELSE -1)
    BY <2>1, <2>3, <2>7 DEF TxType
  <2>10. begun' \in 0 .. MaxOps /\ reply' \in ReplyType
    BY <2>1, IdleType DEF InterInv, TypeOK
  <2>11. QED
    BY <2>1, <2>6, <2>7, <2>8, <2>9, <2>10, QuietStep
<1>3. QED BY <1>1, <1>2

(* The deletion of the message takes its row when nobody has it. *)
LEMMA LockMessageStep ==
  ASSUME InterInv, NEW s \in Sessions, LockMessage(s)
  PROVE  InterInv'
<1>0. /\ tx \in [Sessions -> TxType] /\ held \in [Keys -> SUBSET Sessions]
  BY DEF InterInv, TypeOK, TxType
<1>1. CASE ~exists
  BY <1>1, RollbackStep DEF LockMessage
<1>2. CASE exists
  <2>1. /\ tx[s].pc = "lock" /\ Shape(tx[s]) /\ tx[s] \in TxType /\ tx[s].changed = "no"
        /\ excl = {} /\ share = {} /\ excl' = {s} /\ reply' = NoReply
        /\ UNCHANGED <<tableVars, held, share, begun>>
    BY <1>0, <1>2 DEF LockMessage, Silent, InterInv, LockInv, ShapeInv, Shape
  <2>2. PICK r : r = [tx[s] EXCEPT !.pc = "cascade"]
    OBVIOUS
  <2>3. tx' = [tx EXCEPT ![s] = r]
    BY <1>0, <1>2, <2>2 DEF LockMessage, Go
  <2>4. /\ r \in TxType /\ r.pc = "cascade" /\ r.op = tx[s].op /\ r.key = tx[s].key
        /\ r.changed = "no" /\ r.id = tx[s].id
    BY <2>1, <2>2 DEF TxType
  <2>5. tx'[s] = r /\ \A t \in Sessions : t # s => tx'[t] = tx[t]
    BY <1>0, <2>3
  <2>6. ShapeInv'
    <3>1. Shape(r)
      BY <2>1, <2>4 DEF Shape, Idle
    <3>2. QED BY <2>5, <3>1 DEF InterInv, LockInv, ShapeInv
  <2>7. RowLocks'
    BY <1>0, <2>1, <2>4, <2>5 DEF InterInv, LockInv, RowLocks
  <2>8. RowAsLocked'
    BY <2>1, <2>4, <2>5 DEF InterInv, LockInv, RowAsLocked
  <2>9. MessageLocks'
    <3>1. Updating(r)
      BY <2>4 DEF Updating
    <3>2. \A t \in Sessions : ~Updating(tx[t])
      BY <2>1 DEF InterInv, LockInv, MessageLocks
    <3>3. \A t \in Sessions : t \in excl' <=> Updating(tx'[t])
      BY <2>1, <2>5, <3>1, <3>2
    <3>4. QED
      BY <1>2, <2>1, <3>3 DEF MessageLocks
  <2>10. CountAsRead'
    BY <2>1, <2>4, <2>5 DEF InterInv, CountInv, CountAsRead
  <2>11. TypeOK'
    <3>1. tx' \in [Sessions -> TxType]
      BY <1>0, <2>3, <2>4
    <3>2. QED
      BY <2>1, <3>1, IdleType DEF InterInv, TypeOK, TxType, ReplyType
  <2>12. QED
    BY <2>1, <2>6, <2>7, <2>8, <2>9, <2>10, <2>11, SameTables DEF InterInv, LockInv
<1>3. QED BY <1>1, <1>2

(* Adding an element to a finite set, or taking one away, moves its size by one. *)
LEMMA OneMore ==
  ASSUME NEW S, IsFiniteSet(S), NEW x, x \notin S
  PROVE  IsFiniteSet(S \union {x}) /\ Cardinality(S \union {x}) = Cardinality(S) + 1
  BY FS_AddElement

(* The same for an element taken away. *)
LEMMA OneLess ==
  ASSUME NEW S, IsFiniteSet(S), NEW x, x \in S
  PROVE  IsFiniteSet(S \ {x}) /\ Cardinality(S \ {x}) = Cardinality(S) - 1
  BY FS_RemoveElement

(* What a commit does to the tables: the row and the counter move together, and *)
(* a commit with no update pending moves neither.                               *)
LEMMA CommitTables ==
  ASSUME InterInv, NEW s \in Sessions, Commit(s)
  PROVE  /\ FiniteRows' /\ CountersMatchRows' /\ row' \in [Keys -> 0 .. MaxOps]
         /\ s \notin excl => UNCHANGED <<row, likes>>
         /\ \A k \in Keys : k # tx[s].key => row'[k] = row[k]
         /\ tx[s].changed # "no" => (row'[tx[s].key] # 0 <=> tx[s].changed = "inserted")
         /\ tx[s].changed # "no" /\ tx[s].key \in Users =>
              likes' = likes + (IF tx[s].changed = "inserted" THEN 1 ELSE -1)
<1> DEFINE k == tx[s].key
<1>0. /\ tx[s] \in TxType /\ row \in [Keys -> 0 .. MaxOps] /\ likes \in Nat /\ comments \in Nat
      /\ Shape(tx[s]) /\ tx[s].pc = "commit"
  BY DEF Commit, InterInv, TypeOK, TxType, LockInv, ShapeInv
<1>1. k \in Keys /\ tx[s].id \in 1 .. MaxOps
  BY <1>0 DEF Shape, Keys, TxType
<1>2. s \in excl <=> tx[s].changed # "no"
  BY <1>0 DEF InterInv, LockInv, MessageLocks, Updating
<1>3. /\ likes' = IF k \in Users THEN likes + Delta(s) ELSE likes
      /\ comments' = IF k \in Comments THEN comments + Delta(s) ELSE comments
      /\ exists' = exists
  BY DEF Commit
<1>4. /\ IsFiniteSet(LikeRows) /\ IsFiniteSet(CommentRows)
      /\ likes = SeedLikes + Cardinality(LikeRows) /\ comments = Cardinality(CommentRows)
      /\ ~exists => \A x \in Keys : row[x] = 0
  BY DEF InterInv, CountInv, FiniteRows, CountersMatchRows, LikeRows, CommentRows
<1>5. Cardinality(LikeRows) \in Nat /\ Cardinality(CommentRows) \in Nat /\ SeedLikes \in Nat
  BY <1>4, FS_CardinalityType, BoundsAssumption
<1>6. ~(k \in Users /\ k \in Comments)
  BY KeysAssumption
<1>7. CASE tx[s].changed = "inserted"
  <2>1. row' = [row EXCEPT ![k] = tx[s].id] /\ Delta(s) = 1
    BY <1>2, <1>7 DEF Commit, Delta
  <2>2. row[k] = 0 /\ exists
    BY <1>7 DEF InterInv, LockInv, RowAsLocked, MessageLocks
  <2>3. row'[k] # 0 /\ (\A x \in Keys : x # k => row'[x] = row[x]) /\ row' \in [Keys -> 0 .. MaxOps]
    BY <1>0, <1>1, <2>1
  <2>4. CASE k \in Users
    <3>1. LikeRows' = LikeRows \union {k} /\ k \notin LikeRows
      BY <1>1, <2>2, <2>3, <2>4 DEF LikeRows, Keys
    <3>2. CommentRows' = CommentRows
      BY <1>6, <2>3, <2>4 DEF CommentRows, Keys
    <3>3. /\ IsFiniteSet(LikeRows') /\ Cardinality(LikeRows') = Cardinality(LikeRows) + 1
          /\ IsFiniteSet(CommentRows') /\ Cardinality(CommentRows') = Cardinality(CommentRows)
      BY <1>4, <3>1, <3>2, OneMore
    <3>4. likes' = SeedLikes + Cardinality(LikeRows') /\ comments' = Cardinality(CommentRows')
      BY <1>3, <1>4, <1>5, <1>6, <2>1, <2>4, <3>3
    <3>5. FiniteRows' /\ CountersMatchRows'
      BY <1>3, <2>2, <3>3, <3>4 DEF FiniteRows, CountersMatchRows, LikeRows, CommentRows
    <3>6. QED
      BY <1>2, <1>3, <1>7, <2>1, <2>3, <2>4, <3>5
  <2>5. CASE k \in Comments
    <3>1. CommentRows' = CommentRows \union {k} /\ k \notin CommentRows
      BY <1>1, <2>2, <2>3, <2>5 DEF CommentRows, Keys
    <3>2. LikeRows' = LikeRows
      BY <1>6, <2>3, <2>5 DEF LikeRows, Keys
    <3>3. /\ IsFiniteSet(CommentRows') /\ Cardinality(CommentRows') = Cardinality(CommentRows) + 1
          /\ IsFiniteSet(LikeRows') /\ Cardinality(LikeRows') = Cardinality(LikeRows)
      BY <1>4, <3>1, <3>2, OneMore
    <3>4. likes' = SeedLikes + Cardinality(LikeRows') /\ comments' = Cardinality(CommentRows')
      BY <1>3, <1>4, <1>5, <1>6, <2>1, <2>5, <3>3
    <3>5. FiniteRows' /\ CountersMatchRows'
      BY <1>3, <2>2, <3>3, <3>4 DEF FiniteRows, CountersMatchRows, LikeRows, CommentRows
    <3>6. QED
      BY <1>2, <1>6, <1>7, <2>3, <2>5, <3>5
  <2>6. QED
    BY <1>1, <2>4, <2>5 DEF Keys
<1>8. CASE tx[s].changed = "removed"
  <2>1. row' = [row EXCEPT ![k] = 0] /\ Delta(s) = -1
    BY <1>2, <1>8 DEF Commit, Delta
  <2>2. row[k] # 0 /\ exists
    BY <1>1, <1>4, <1>8 DEF InterInv, LockInv, RowAsLocked
  <2>3. row'[k] = 0 /\ (\A x \in Keys : x # k => row'[x] = row[x]) /\ row' \in [Keys -> 0 .. MaxOps]
    BY <1>0, <1>1, <2>1, BoundsAssumption
  <2>4. CASE k \in Users
    <3>1. LikeRows' = LikeRows \ {k} /\ k \in LikeRows
      BY <1>1, <2>2, <2>3, <2>4 DEF LikeRows, Keys
    <3>2. CommentRows' = CommentRows
      BY <1>6, <2>3, <2>4 DEF CommentRows, Keys
    <3>3. /\ IsFiniteSet(LikeRows') /\ Cardinality(LikeRows') = Cardinality(LikeRows) - 1
          /\ IsFiniteSet(CommentRows') /\ Cardinality(CommentRows') = Cardinality(CommentRows)
      BY <1>4, <3>1, <3>2, OneLess
    <3>4. likes' = SeedLikes + Cardinality(LikeRows') /\ comments' = Cardinality(CommentRows')
      BY <1>3, <1>4, <1>5, <1>6, <2>1, <2>4, <3>3
    <3>5. FiniteRows' /\ CountersMatchRows'
      BY <1>3, <2>2, <3>3, <3>4 DEF FiniteRows, CountersMatchRows, LikeRows, CommentRows
    <3>6. QED
      BY <1>2, <1>3, <1>8, <2>1, <2>3, <2>4, <3>5
  <2>5. CASE k \in Comments
    <3>1. CommentRows' = CommentRows \ {k} /\ k \in CommentRows
      BY <1>1, <2>2, <2>3, <2>5 DEF CommentRows, Keys
    <3>2. LikeRows' = LikeRows
      BY <1>6, <2>3, <2>5 DEF LikeRows, Keys
    <3>3. /\ IsFiniteSet(CommentRows') /\ Cardinality(CommentRows') = Cardinality(CommentRows) - 1
          /\ IsFiniteSet(LikeRows') /\ Cardinality(LikeRows') = Cardinality(LikeRows)
      BY <1>4, <3>1, <3>2, OneLess
    <3>4. likes' = SeedLikes + Cardinality(LikeRows') /\ comments' = Cardinality(CommentRows')
      BY <1>3, <1>4, <1>5, <1>6, <2>1, <2>5, <3>3
    <3>5. FiniteRows' /\ CountersMatchRows'
      BY <1>3, <2>2, <3>3, <3>4 DEF FiniteRows, CountersMatchRows, LikeRows, CommentRows
    <3>6. QED
      BY <1>2, <1>6, <1>8, <2>3, <2>5, <3>5
  <2>6. QED
    BY <1>1, <2>4, <2>5 DEF Keys
<1>9. CASE tx[s].changed = "no"
  <2>1. row' = row /\ Delta(s) = 0
    BY <1>2, <1>9 DEF Commit, Delta
  <2>2. likes' = likes /\ comments' = comments
    BY <1>0, <1>3, <2>1
  <2>3. LikeRows' = LikeRows /\ CommentRows' = CommentRows
    BY <2>1 DEF LikeRows, CommentRows
  <2>4. FiniteRows' /\ CountersMatchRows'
    BY <1>3, <1>4, <2>1, <2>2, <2>3 DEF FiniteRows, CountersMatchRows, LikeRows, CommentRows
  <2>5. QED
    BY <1>0, <1>9, <2>1, <2>2, <2>4
<1>10. QED
  BY <1>0, <1>7, <1>8, <1>9 DEF TxType

(* A commit makes one request's changes visible and releases its locks; nobody  *)
(* else is between its update and its commit.                                   *)
LEMMA CommitStep ==
  ASSUME InterInv, NEW s \in Sessions, Commit(s)
  PROVE  InterInv' /\ ReplyIsCommitted'
<1>0. /\ tx \in [Sessions -> TxType] /\ held \in [Keys -> SUBSET Sessions]
      /\ excl \subseteq Sessions /\ share \subseteq Sessions
  BY DEF InterInv, TypeOK, TxType
<1>1. /\ tx[s].pc = "commit" /\ tx' = [tx EXCEPT ![s] = Idle]
      /\ held' = [k \in Keys |-> held[k] \ {s}] /\ share' = share \ {s} /\ excl' = excl \ {s}
      /\ UNCHANGED <<exists, begun>>
  BY DEF Commit, Unlock
<1>2. tx'[s] = Idle /\ \A t \in Sessions : t # s => tx'[t] = tx[t]
  BY <1>0, <1>1
<1>3. Shape(Idle) /\ Idle.changed = "no" /\ Idle.pc = "idle" /\ ~Updating(Idle)
  BY DEF Shape, Idle, Updating
<1>4. ShapeInv'
  BY <1>2, <1>3 DEF InterInv, LockInv, ShapeInv
<1>5. \A t \in Sessions : tx[t].changed # "no" => tx[t].key \in Keys /\ held[tx[t].key] = {t}
  BY <1>0 DEF InterInv, LockInv, ShapeInv, Shape, TxType, Idle, Keys, RowLocks
<1>6. RowLocks'
  <2>1. ASSUME NEW t \in Sessions, tx'[t].changed # "no" PROVE held'[tx'[t].key] = {t}
    <3>1. t # s /\ tx'[t] = tx[t]
      BY <1>2, <1>3, <2>1
    <3>2. QED BY <1>1, <1>5, <2>1, <3>1
  <2>2. ASSUME NEW k \in Keys, NEW t \in held'[k] PROVE tx'[t].key = k /\ tx'[t].changed # "no"
    <3>1. t \in held[k] /\ t # s /\ t \in Sessions
      BY <1>0, <1>1
    <3>2. QED BY <1>2, <3>1 DEF InterInv, LockInv, RowLocks
  <2>3. QED BY <2>1, <2>2 DEF RowLocks
<1>7. RowAsLocked'
  <2>1. ASSUME NEW t \in Sessions, t # s, tx[t].changed # "no" PROVE row'[tx[t].key] = row[tx[t].key]
    <3>1. CASE tx[s].changed = "no"
      <4>1. s \notin excl
        BY <1>1, <3>1 DEF InterInv, LockInv, MessageLocks, Updating
      <4>2. QED BY <4>1, CommitTables
    <3>2. CASE tx[s].changed # "no"
      <4>1. tx[t].key # tx[s].key
        BY <1>5, <2>1, <3>2
      <4>2. QED BY <1>5, <2>1, <4>1, CommitTables
    <3>3. QED BY <3>1, <3>2
  <2>2. ASSUME NEW t \in Sessions, t # s
        PROVE  /\ tx'[t].changed = "inserted" => row'[tx'[t].key] = 0 /\ t \in share'
               /\ tx'[t].changed = "removed" => row'[tx'[t].key] # 0
    BY <1>1, <1>2, <2>1, <2>2 DEF InterInv, LockInv, RowAsLocked
  <2>3. QED BY <1>2, <1>3, <2>2 DEF RowAsLocked
<1>8. MessageLocks'
  BY <1>0, <1>1, <1>2, <1>3 DEF InterInv, LockInv, MessageLocks
<1>9. CountAsRead'
  <2>1. ASSUME NEW t \in Sessions, t # s, tx[t].pc = "commit", tx[t].changed # "no" PROVE likes' = likes
    <3>1. t \in excl
      BY <2>1 DEF InterInv, LockInv, MessageLocks, Updating
    <3>2. s \notin excl
      BY <2>1, <3>1 DEF InterInv, LockInv, MessageLocks
    <3>3. QED BY <3>2, CommitTables
  <2>2. QED
    BY <1>2, <1>3, <2>1 DEF InterInv, CountInv, CountAsRead
<1>10. FiniteRows' /\ CountersMatchRows'
  BY CommitTables
<1>11. reply'.op = tx[s].op /\ reply'.changed = tx[s].changed /\ reply'.key = tx[s].key
       /\ reply'.count = tx[s].count /\ reply' \in ReplyType
  BY <1>0 DEF Commit, ReplyType, TxType
<1>12. TypeOK'
  <2>1. tx' \in [Sessions -> TxType]
    BY <1>0, <1>1, IdleType
  <2>2. likes' \in Nat /\ comments' \in Nat
    <3>1. ASSUME FiniteRows', CountersMatchRows' PROVE likes' \in Nat /\ comments' \in Nat
      <4>1. Cardinality(LikeRows') \in Nat /\ Cardinality(CommentRows') \in Nat
        BY <3>1, FS_CardinalityType DEF FiniteRows
      <4>2. QED
        BY <3>1, <4>1, BoundsAssumption DEF CountersMatchRows, LikeRows, CommentRows
    <3>2. QED BY <1>10, <3>1
  <2>3. row' \in [Keys -> 0 .. MaxOps]
    BY CommitTables
  <2>4. held' \in [Keys -> SUBSET Sessions] /\ share' \subseteq Sessions /\ excl' \subseteq Sessions
    BY <1>0, <1>1
  <2>5. QED
    BY <1>1, <1>11, <2>1, <2>2, <2>3, <2>4 DEF InterInv, TypeOK, TxType, ReplyType
<1>13. InterInv'
  BY <1>4, <1>6, <1>7, <1>8, <1>9, <1>10, <1>12 DEF InterInv, LockInv, CountInv
<1>14. ReplyIsCommitted'
  <2>1. ASSUME tx[s].op = "toggle", tx[s].changed # "no"
        PROVE  tx[s].count = likes' /\ ((tx[s].changed = "inserted") <=> (row'[tx[s].key] # 0))
    <3>1. tx[s].key \in Users
      BY <2>1 DEF InterInv, LockInv, ShapeInv, Shape
    <3>2. QED
      BY <1>1, <2>1, <3>1, CommitTables DEF InterInv, CountInv, CountAsRead
  <2>2. QED
    BY <1>11, <2>1 DEF ReplyIsCommitted
<1>15. QED BY <1>13, <1>14

(* The cascade runs when no other request has changed a row: an insert holds the *)
(* messages row, a delete holds a row the cascade waits for.                     *)
LEMMA CascadeStep ==
  ASSUME InterInv, NEW s \in Sessions, Cascade(s)
  PROVE  InterInv'
<1>0. /\ tx \in [Sessions -> TxType] /\ held \in [Keys -> SUBSET Sessions]
      /\ excl \subseteq Sessions /\ share \subseteq Sessions
  BY DEF InterInv, TypeOK, TxType
<1>1. /\ tx[s].pc = "cascade" /\ tx' = [tx EXCEPT ![s] = Idle]
      /\ \A k \in Keys : row[k] # 0 => held[k] = {}
      /\ held' = [k \in Keys |-> held[k] \ {s}] /\ share' = share \ {s} /\ excl' = excl \ {s}
      /\ exists' = FALSE /\ row' = [k \in Keys |-> 0] /\ likes' = SeedLikes /\ comments' = 0
      /\ \E ok \in BOOLEAN : reply' = [NoReply EXCEPT !.op = "drop", !.ok = ok]
      /\ begun' = begun
  BY DEF Cascade, Unlock
<1>2. tx'[s] = Idle /\ \A t \in Sessions : t # s => tx'[t] = tx[t]
  BY <1>0, <1>1
<1>3. Shape(Idle) /\ Idle.changed = "no" /\ Idle.pc = "idle" /\ ~Updating(Idle)
  BY DEF Shape, Idle, Updating
<1>4. share = {}
  BY <1>1 DEF InterInv, LockInv, MessageLocks
<1>5. \A t \in Sessions : tx[t].changed = "no"
  <2>1. ASSUME NEW t \in Sessions, tx[t].changed # "no" PROVE FALSE
    <3>1. tx[t].key \in Keys /\ held[tx[t].key] = {t}
      BY <1>0, <2>1 DEF InterInv, LockInv, ShapeInv, Shape, TxType, Idle, Keys, RowLocks
    <3>2. tx[t].changed # "inserted"
      BY <1>4 DEF InterInv, LockInv, RowAsLocked
    <3>3. row[tx[t].key] # 0
      BY <1>0, <2>1, <3>2 DEF InterInv, LockInv, RowAsLocked, TxType
    <3>4. QED BY <1>1, <3>1, <3>3
  <2>2. QED BY <2>1
<1>6. \A t \in Sessions : tx'[t].changed = "no"
  BY <1>2, <1>3, <1>5
<1>7. ShapeInv'
  BY <1>2, <1>3 DEF InterInv, LockInv, ShapeInv
<1>8. RowLocks'
  <2>1. \A k \in Keys : held[k] = {}
    BY <1>0, <1>5 DEF InterInv, LockInv, RowLocks
  <2>2. QED
    BY <1>1, <1>6, <2>1 DEF RowLocks
<1>9. RowAsLocked' /\ CountAsRead'
  BY <1>6 DEF RowAsLocked, CountAsRead
<1>10. MessageLocks'
  <2>1. \A t \in Sessions : tx[t].pc = "cascade" => t = s
    BY <1>1 DEF InterInv, LockInv, MessageLocks, Updating
  <2>2. \A t \in Sessions : tx'[t].pc # "cascade"
    BY <1>2, <1>3, <2>1
  <2>3. QED
    BY <1>0, <1>1, <1>2, <1>3, <1>4, <2>2 DEF InterInv, LockInv, MessageLocks
<1>11. FiniteRows' /\ CountersMatchRows'
  <2>1. LikeRows' = {} /\ CommentRows' = {}
    BY <1>1 DEF LikeRows, CommentRows, Keys
  <2>2. IsFiniteSet({}) /\ Cardinality({}) = 0
    BY FS_EmptySet
  <2>3. FiniteRows'
    BY <2>1, <2>2 DEF FiniteRows
  <2>4. likes' = SeedLikes + Cardinality(LikeRows') /\ comments' = Cardinality(CommentRows')
    BY <1>1, <2>1, <2>2, BoundsAssumption
  <2>5. CountersMatchRows'
    BY <1>1, <2>4 DEF CountersMatchRows, LikeRows, CommentRows
  <2>6. QED BY <2>3, <2>5
<1>12. TypeOK'
  <2>1. tx' \in [Sessions -> TxType]
    BY <1>0, <1>1, IdleType
  <2>2. reply' \in ReplyType
    <3>1. ASSUME NEW r \in ReplyType, NEW ok \in BOOLEAN PROVE [r EXCEPT !.op = "drop", !.ok = ok] \in ReplyType
      BY DEF ReplyType
    <3>2. PICK ok \in BOOLEAN : reply' = [NoReply EXCEPT !.op = "drop", !.ok = ok]
      BY <1>1
    <3>3. NoReply \in ReplyType
      BY IdleType
    <3>4. QED BY <3>1, <3>2, <3>3, Zenon
  <2>3. /\ held' \in [Keys -> SUBSET Sessions] /\ share' \subseteq Sessions /\ excl' \subseteq Sessions
        /\ row' \in [Keys -> 0 .. MaxOps]
    BY <1>0, <1>1, BoundsAssumption
  <2>4. QED
    BY <1>1, <2>1, <2>2, <2>3, BoundsAssumption DEF InterInv, TypeOK, TxType, ReplyType
<1>13. QED
  BY <1>7, <1>8, <1>9, <1>10, <1>11, <1>12 DEF InterInv, LockInv, CountInv

(* At start no transaction is open and the only likes counted are the seeded ones. *)
LEMMA InterInvInit == Init => InterInv
<1> SUFFICES ASSUME Init PROVE InterInv
  OBVIOUS
<1>1. \A s \in Sessions : tx[s] = Idle
  BY DEF Init
<1>2. Shape(Idle) /\ Idle.changed = "no" /\ Idle.pc = "idle" /\ ~Updating(Idle)
  BY DEF Shape, Idle, Updating
<1>3. LockInv /\ CountAsRead
  BY <1>1, <1>2 DEF Init, LockInv, ShapeInv, RowLocks, RowAsLocked, MessageLocks, CountAsRead
<1>4. LikeRows = {} /\ CommentRows = {} /\ IsFiniteSet({}) /\ Cardinality({}) = 0
  BY FS_EmptySet DEF Init, LikeRows, CommentRows, Keys
<1>5. FiniteRows
  BY <1>4 DEF FiniteRows
<1>6. CountersMatchRows
  <2>1. likes = SeedLikes + Cardinality(LikeRows) /\ comments = Cardinality(CommentRows)
    BY <1>4, BoundsAssumption DEF Init
  <2>2. QED
    BY <2>1 DEF Init, CountersMatchRows, LikeRows, CommentRows
<1>7. TypeOK
  BY <1>1, IdleType, BoundsAssumption DEF Init, TypeOK, TxType, ReplyType
<1>8. QED
  BY <1>3, <1>5, <1>6, <1>7 DEF InterInv, CountInv

(* Every statement keeps the inductive invariant. *)
LEMMA InterInvStep == InterInv /\ [Next]_vars => InterInv'
<1> SUFFICES ASSUME InterInv, [Next]_vars PROVE InterInv'
  OBVIOUS
<1>1. ASSUME NEW s \in Sessions, Start(s) PROVE InterInv'
  BY <1>1, StartStep
<1>2. ASSUME NEW s \in Sessions, Step(s) PROVE InterInv'
  BY <1>2, SelectStep, InsertStep, DeleteStep, BumpStep, ReadStep, CommitStep, LockMessageStep,
     CascadeStep, RollbackStep DEF Step, DeadlockAbort
<1>3. ASSUME NEW s \in Sessions, Fail(s) PROVE InterInv'
  BY <1>3, RollbackStep DEF Fail
<1>4. CASE UNCHANGED vars
  BY <1>4 DEF InterInv, TypeOK, LockInv, ShapeInv, RowLocks, RowAsLocked, MessageLocks, CountInv,
     CountAsRead, FiniteRows, LikeRows, CommentRows, CountersMatchRows
<1>5. QED
  BY <1>1, <1>2, <1>3, <1>4 DEF Next

(* The inductive invariant holds in every behaviour. *)
LEMMA InterInvAlways == Spec => []InterInv
  BY InterInvInit, InterInvStep, PTL DEF Spec

(* The value domains of the tables, locks and requests; that the counters are    *)
(* natural numbers rests on their agreement with the rows.                       *)
THEOREM InteractionsTypeCorrect == Spec => []TypeOK
<1>1. InterInv => TypeOK
  BY DEF InterInv
<1>2. QED
  BY <1>1, InterInvAlways, PTL

(* likes_count and comments_count agree with the rows in every committed state,  *)
(* for any number of concurrent likes, comments, failures and deletions.         *)
THEOREM CountersAlwaysMatchRows == Spec => []CountersMatchRows
<1>1. InterInv => CountersMatchRows
  BY DEF InterInv, CountInv
<1>2. QED
  BY <1>1, InterInvAlways, PTL

(* Every step but a commit leaves no successful answer to a like. *)
LEMMA NoOtherReply ==
  ASSUME InterInv, NEW s \in Sessions, Start(s) \/ Step(s) \/ Fail(s), ~Commit(s)
  PROVE  ReplyIsCommitted'
<1>1. ASSUME reply' = NoReply PROVE ReplyIsCommitted'
  BY <1>1 DEF NoReply, ReplyIsCommitted
<1>2. ASSUME Rollback(s) PROVE ReplyIsCommitted'
  BY <1>2 DEF Rollback, NoReply, ReplyIsCommitted
<1>3. ASSUME Cascade(s) PROVE ReplyIsCommitted'
  BY <1>3 DEF Cascade, NoReply, ReplyIsCommitted
<1>4. CASE Start(s)
  BY <1>1, <1>4 DEF Start, ToggleLike, AddComment, DeleteComment, DeleteMessage, Begin, Silent
<1>5. CASE Select(s) \/ Bump(s)
  BY <1>1, <1>5 DEF Select, Bump, Silent
<1>6. CASE Insert(s) \/ Delete(s)
  <2>1. tx[s].pc \in {"delete", "find"} => tx[s].op \in {"remove", "toggle"}
    BY DEF InterInv, LockInv, ShapeInv, Shape
  <2>2. reply' = NoReply \/ Rollback(s)
    BY <1>6, <2>1 DEF Insert, Delete, Silent
  <2>3. QED BY <1>1, <1>2, <2>2
<1>7. CASE Read(s) \/ LockMessage(s)
  BY <1>1, <1>2, <1>7 DEF Read, LockMessage, Silent
<1>8. CASE DeadlockAbort(s) \/ Fail(s)
  BY <1>2, <1>8 DEF DeadlockAbort, Fail
<1>9. QED
  BY <1>3, <1>4, <1>5, <1>6, <1>7, <1>8 DEF Step

(* A like or unlike that changed a row answers with the count and the state it   *)
(* committed, whatever toggles, failures and deletions run beside it.            *)
THEOREM RepliesAreCommitted == Spec => []ReplyIsCommitted
<1>1. Init => ReplyIsCommitted
  BY DEF Init, NoReply, ReplyIsCommitted
<1>2. InterInv /\ ReplyIsCommitted /\ [Next]_vars => ReplyIsCommitted'
  <2> SUFFICES ASSUME InterInv, ReplyIsCommitted, [Next]_vars PROVE ReplyIsCommitted'
    OBVIOUS
  <2>1. CASE UNCHANGED vars
    BY <2>1 DEF ReplyIsCommitted
  <2>2. ASSUME NEW s \in Sessions, Start(s) \/ Step(s) \/ Fail(s) PROVE ReplyIsCommitted'
    BY <2>2, CommitStep, NoOtherReply
  <2>3. QED
    BY <2>1, <2>2 DEF Next
<1>3. QED
  BY <1>1, <1>2, InterInvAlways, PTL DEF Spec

(***************************************************************************)
(* Deadlocks.  A request that waits and has changed a row waits for the     *)
(* messages row; one that waits and holds the messages row is a deletion in *)
(* its cascade.  So every cycle of waits passes through a cascade, and what *)
(* a cascade waits for is a removal, which waits for that cascade.          *)
(***************************************************************************)
Blocked == {"insert", "delete", "find", "bump", "lock", "cascade"}

(* Where a waiting request stands, from what it has changed and what it holds. *)
LEMMA WaitingRequest ==
  ASSUME InterInv, NEW t \in Sessions, WaitsFor(t) # {}
  PROVE  /\ tx[t].pc \in Blocked
         /\ tx[t].changed # "no" => tx[t].pc = "bump"
         /\ t \in excl => tx[t].pc = "cascade"
<1>1. tx[t].pc \in Blocked
  BY DEF WaitsFor, Blocked
<1>2. Shape(tx[t]) /\ (t \in excl <=> Updating(tx[t]))
  BY DEF InterInv, LockInv, ShapeInv, MessageLocks
<1>3. QED
  BY <1>1, <1>2 DEF Shape, Updating, Blocked

(* However many requests wait in a cycle, a deletion of the message and a        *)
(* removal are among them and wait for each other.                               *)
LEMMA InvDeadlocks == InterInv => DeadlocksArePairs
<1> SUFFICES ASSUME InterInv, NEW C \in SUBSET Sessions, C # {},
                    \A s \in C : WaitsFor(s) \intersect C # {}
             PROVE  \E s, t \in C : /\ tx[s].pc = "cascade" /\ tx[t].changed = "removed"
                                    /\ t \in WaitsFor(s) /\ s \in WaitsFor(t)
  BY DEF DeadlocksArePairs
<1>0. /\ tx \in [Sessions -> TxType] /\ held \in [Keys -> SUBSET Sessions]
      /\ excl \subseteq Sessions /\ share \subseteq Sessions
  BY DEF InterInv, TypeOK, TxType
<1>1. \A t \in C : /\ t \in Sessions /\ tx[t].pc \in Blocked
                   /\ tx[t].changed # "no" => tx[t].pc = "bump"
                   /\ t \in excl => tx[t].pc = "cascade"
  BY WaitingRequest
<1>2. ASSUME NEW s \in C, tx[s].pc = "bump" PROVE \E e \in C : tx[e].pc = "cascade"
  <2>1. PICK e \in C : e \in WaitsFor(s)
    OBVIOUS
  <2>2. e \in excl
    BY <1>2, <2>1 DEF WaitsFor
  <2>3. QED BY <1>1, <2>2
<1>3. ASSUME NEW s \in C PROVE \E e \in C : tx[e].pc = "cascade"
  <2>1. PICK t \in C : t \in WaitsFor(s)
    OBVIOUS
  <2>2. ASSUME tx[t].changed # "no" PROVE \E e \in C : tx[e].pc = "cascade"
    BY <1>1, <1>2, <2>2
  <2>3. CASE tx[s].pc \in {"insert", "delete", "find"}
    <3>1. tx[s].key \in Keys
      BY <1>1, <2>3 DEF InterInv, LockInv, ShapeInv, Shape, Keys
    <3>2. t \in held[tx[s].key] \/ t \in excl
      BY <2>1, <2>3 DEF WaitsFor, Dropping
    <3>3. t \in held[tx[s].key] => tx[t].changed # "no"
      BY <3>1 DEF InterInv, LockInv, RowLocks
    <3>4. QED BY <1>1, <2>2, <3>2, <3>3
  <2>4. CASE tx[s].pc = "lock"
    <3>1. t \in excl \/ t \in share
      BY <2>1, <2>4 DEF WaitsFor
    <3>2. t \in share => tx[t].changed # "no"
      BY DEF InterInv, LockInv, MessageLocks
    <3>3. QED BY <1>1, <2>2, <3>1, <3>2
  <2>5. CASE tx[s].pc \in {"bump", "cascade"}
    BY <1>2, <2>5
  <2>6. QED
    BY <1>1, <2>3, <2>4, <2>5 DEF Blocked
<1>4. PICK s \in C : tx[s].pc = "cascade"
  BY <1>3
<1>5. PICK t \in C : t \in WaitsFor(s)
  BY <1>4
<1>6. PICK k \in Keys : row[k] # 0 /\ t \in held[k]
  BY <1>4, <1>5 DEF WaitsFor
<1>7. tx[t].key = k /\ tx[t].changed # "no"
  BY <1>6 DEF InterInv, LockInv, RowLocks
<1>8. tx[t].changed = "removed"
  BY <1>0, <1>1, <1>6, <1>7 DEF InterInv, LockInv, RowAsLocked, TxType
<1>9. s \in excl
  BY <1>1, <1>4 DEF InterInv, LockInv, MessageLocks, Updating
<1>10. WaitsFor(t) = excl
  BY <1>1, <1>7 DEF WaitsFor
<1>11. QED
  BY <1>4, <1>5, <1>8, <1>9, <1>10

(* For any number of concurrent requests the only deadlock is the one between    *)
(* the deletion of a message and the removal of a like or comment.               *)
THEOREM OnlyPairsDeadlock == Spec => []DeadlocksArePairs
  BY InterInvAlways, InvDeadlocks, PTL

(* A request that has ended holds nothing: whoever is waited for is unfinished. *)
LEMMA HoldersUnfinished ==
  ASSUME InterInv, NEW s \in Sessions, NEW t \in WaitsFor(s)
  PROVE  t \in Sessions /\ tx[t] # Idle
<1>0. /\ held \in [Keys -> SUBSET Sessions] /\ excl \subseteq Sessions /\ share \subseteq Sessions
  BY DEF InterInv, TypeOK
<1>1. Idle.changed = "no" /\ ~Updating(Idle)
  BY DEF Idle, Updating
<1>2. t \in excl => t \in Sessions /\ tx[t] # Idle
  BY <1>0, <1>1 DEF InterInv, LockInv, MessageLocks
<1>3. t \in share => t \in Sessions /\ tx[t] # Idle
  BY <1>0, <1>1 DEF InterInv, LockInv, MessageLocks
<1>4. \A k \in Keys : t \in held[k] => t \in Sessions /\ tx[t] # Idle
  BY <1>0, <1>1 DEF InterInv, LockInv, RowLocks
<1>5. tx[s].pc \in {"insert", "delete", "find"} => tx[s].key \in Keys
  BY DEF InterInv, LockInv, ShapeInv, Shape, Keys
<1>6. t \in excl \/ t \in share \/ \E k \in Keys : t \in held[k]
  BY <1>5 DEF WaitsFor, Dropping
<1>7. QED BY <1>2, <1>3, <1>4, <1>6

(* Deadlock freedom for any number of requests: while one is unfinished, one can *)
(* go on, by itself or because the detector ends its cycle.                      *)
THEOREM RequestsNeverStuck == Spec => []SomeoneCanMove
<1>1. InterInv => SomeoneCanMove
  <2> DEFINE U == {s \in Sessions : tx[s] # Idle}
  <2> SUFFICES ASSUME InterInv, U # {}, \A s \in U : WaitsFor(s) # {}
               PROVE  \E s \in U : \E t \in Sessions \ {s} : t \in WaitsFor(s) /\ s \in WaitsFor(t)
    BY DEF SomeoneCanMove
  <2>1. \A s \in U : WaitsFor(s) \intersect U # {}
    BY HoldersUnfinished
  <2>2. PICK s \in U, t \in U : /\ tx[s].pc = "cascade" /\ tx[t].changed = "removed"
                                /\ t \in WaitsFor(s) /\ s \in WaitsFor(t)
    BY <2>1, InvDeadlocks DEF DeadlocksArePairs
  <2>3. s # t
    BY <2>2 DEF InterInv, LockInv, ShapeInv, Shape
  <2>4. QED BY <2>2, <2>3
<1>2. QED
  BY <1>1, InterInvAlways, PTL

(***************************************************************************)
(* The refinement of LikeLedger.  A commit is the moment a request takes    *)
(* effect; every other step answers nothing, refuses, or deletes.           *)
(***************************************************************************)

(* The answer as the ledger sees it, field by field. *)
LEMMA ShownFields ==
  ASSUME NEW r \in ReplyType
  PROVE  [r EXCEPT !.count = IF r.op = "toggle" /\ r.changed # "no" THEN @ ELSE 0]
           = Ledger!Answer(r.op, r.ok, r.key, r.changed,
                           IF r.op = "toggle" /\ r.changed # "no" THEN r.count ELSE 0)
  BY DEF ReplyType, Ledger!Answer

(* The tables as the ledger sees them are a function of the tables. *)
LEMMA SameBook ==
  ASSUME UNCHANGED tableVars
  PROVE  UNCHANGED Ledger!bookVars
  BY DEF Ledger!bookVars

(* A step that sends no answer and leaves the tables. *)
LEMMA QuietIsQuiet ==
  ASSUME UNCHANGED tableVars, Silent
  PROVE  Ledger!Quiet
<1>1. shown' = Ledger!Nothing
  <2>1. NoReply = Ledger!Answer("none", FALSE, 0, "no", 0)
    BY DEF NoReply, Ledger!Answer
  <2>2. shown' = Ledger!Answer(NoReply.op, NoReply.ok, NoReply.key, NoReply.changed, 0)
    BY IdleType, ShownFields DEF shown, Silent, NoReply
  <2>3. QED BY <2>2 DEF NoReply, Ledger!Nothing
<1>2. QED
  BY <1>1, SameBook DEF Ledger!Quiet

(* A rollback refuses the request, whichever it was, and leaves no trace of it. *)
LEMMA RollbackRefuses ==
  ASSUME InterInv, NEW s \in Sessions, tx[s].pc # "idle", Rollback(s)
  PROVE  Ledger!LedgerNext
<1>1. tx[s] \in TxType /\ Shape(tx[s])
  BY DEF InterInv, TypeOK, TxType, LockInv, ShapeInv
<1>2. reply' = [op |-> tx[s].op, ok |-> FALSE, key |-> tx[s].key, changed |-> "no", count |-> 0]
  BY DEF Rollback, NoReply
<1>3. reply' \in ReplyType
  BY <1>1, <1>2 DEF TxType, ReplyType
<1>4. shown' = Ledger!Answer(tx[s].op, FALSE, tx[s].key, "no", 0)
  BY <1>2, <1>3, ShownFields DEF shown
<1>5. Ledger!Refuse(tx[s].op, tx[s].key)
  BY <1>4, SameBook DEF Ledger!Refuse, Rollback
<1>6. \/ tx[s].op = "toggle" /\ tx[s].key \in Users
      \/ tx[s].op \in {"add", "remove"} /\ tx[s].key \in Comments
      \/ tx[s].op = "drop" /\ tx[s].key = 0
  BY <1>1 DEF Shape, TxType
<1>7. QED
  BY <1>5, <1>6 DEF Ledger!LedgerNext

(* The cascade is the ledger's deletion: the message was still there. *)
LEMMA CascadeDrops ==
  ASSUME InterInv, NEW s \in Sessions, Cascade(s)
  PROVE  Ledger!Drop
<1>1. exists
  BY DEF Cascade, InterInv, LockInv, MessageLocks
<1>2. LikeRows' = {} /\ CommentRows' = {}
  BY DEF Cascade, LikeRows, CommentRows, Keys
<1>3. PICK ok \in BOOLEAN :
        reply' = [op |-> "drop", ok |-> ok, key |-> 0, changed |-> "no", count |-> 0]
  BY DEF Cascade, NoReply
<1>4. shown' = Ledger!Answer("drop", ok, 0, "no", 0)
  <2>1. reply' \in ReplyType
    BY <1>3 DEF ReplyType
  <2>2. QED BY <1>3, <2>1, ShownFields DEF shown
<1>5. Ledger!Tell("drop", 0, "no", 0)
  BY <1>4 DEF Ledger!Tell
<1>6. QED
  BY <1>1, <1>2, <1>5 DEF Cascade, Ledger!Drop, LikeRows, CommentRows

(* The answer of a commit, as the ledger sees it. *)
LEMMA CommitTells ==
  ASSUME InterInv, NEW s \in Sessions, Commit(s)
  PROVE  \E ok \in BOOLEAN :
           shown' = Ledger!Answer(tx[s].op, ok, tx[s].key, tx[s].changed,
                      IF tx[s].op = "toggle" /\ tx[s].changed # "no" THEN tx[s].count ELSE 0)
<1>1. tx[s] \in TxType
  BY DEF InterInv, TypeOK, TxType
<1>2. PICK ok \in BOOLEAN :
        reply' = [op |-> tx[s].op, ok |-> ok, key |-> tx[s].key, changed |-> tx[s].changed,
                  count |-> tx[s].count]
  BY DEF Commit
<1>3. reply' \in ReplyType
  BY <1>1, <1>2 DEF TxType, ReplyType
<1>4. shown' = Ledger!Answer(tx[s].op, ok, tx[s].key, tx[s].changed,
                 IF tx[s].op = "toggle" /\ tx[s].changed # "no" THEN tx[s].count ELSE 0)
  BY <1>2, <1>3, ShownFields DEF shown
<1>5. QED BY <1>4

(* A commit is one step of the ledger: the one its request asked for. *)
LEMMA CommitTakesEffect ==
  ASSUME InterInv, NEW s \in Sessions, Commit(s)
  PROVE  Ledger!LedgerNext
<1> DEFINE k == tx[s].key
<1>0. /\ tx[s] \in TxType /\ Shape(tx[s]) /\ tx[s].pc = "commit"
      /\ row \in [Keys -> 0 .. MaxOps] /\ likes \in Nat /\ comments \in Nat
  BY DEF Commit, InterInv, TypeOK, TxType, LockInv, ShapeInv
<1>1. s \in excl <=> tx[s].changed # "no"
  BY <1>0 DEF InterInv, LockInv, MessageLocks, Updating
<1>2. Delta(s) = IF tx[s].changed = "inserted" THEN 1 ELSE IF tx[s].changed = "removed" THEN -1 ELSE 0
  BY <1>1 DEF Delta
<1>3. /\ likes' = IF k \in Users THEN likes + Delta(s) ELSE likes
      /\ comments' = IF k \in Comments THEN comments + Delta(s) ELSE comments
      /\ exists' = exists
  BY DEF Commit
<1>4. PICK ok \in BOOLEAN :
        shown' = Ledger!Answer(tx[s].op, ok, k, tx[s].changed,
                   IF tx[s].op = "toggle" /\ tx[s].changed # "no" THEN tx[s].count ELSE 0)
  BY CommitTells
<1>5. tx[s].op \in {"toggle", "add", "remove"}
  BY <1>0 DEF Shape, TxType
<1>6. /\ tx[s].changed = "inserted" => row[k] = 0 /\ exists
      /\ tx[s].changed = "removed" => row[k] # 0 /\ exists
  <2>1. k \in Keys
    BY <1>0, <1>5 DEF Shape, Keys
  <2>2. QED
    BY <2>1 DEF InterInv, LockInv, RowAsLocked, MessageLocks, CountInv, CountersMatchRows
<1>7. /\ tx[s].changed # "no" => (row'[k] # 0 <=> tx[s].changed = "inserted")
      /\ \A x \in Keys : x # k => row'[x] = row[x]
      /\ tx[s].changed = "no" => row' = row
  BY <1>1, CommitTables
<1>8. CASE tx[s].op = "toggle"
  <2>1. k \in Users /\ k \notin Comments
    BY <1>0, <1>8, KeysAssumption DEF Shape
  <2>2. comments' = comments /\ CommentRows' = CommentRows
    BY <1>3, <1>7, <2>1 DEF CommentRows, Keys
  <2>3. tx[s].changed # "no" => tx[s].count = likes + Delta(s)
    BY <1>0, <1>2, <1>8 DEF InterInv, CountInv, CountAsRead, TxType
  <2>4. likes' = likes + Delta(s)
    BY <1>3, <2>1
  <2>5. CASE tx[s].changed = "inserted"
    <3>1. LikeRows' = LikeRows \union {k} /\ k \notin LikeRows
      BY <1>6, <1>7, <2>1, <2>5 DEF LikeRows, Keys
    <3>2. likes' = likes + 1
      BY <1>2, <2>4, <2>5
    <3>3. Ledger!Tell("toggle", k, "inserted", likes')
      BY <1>4, <1>8, <2>3, <2>4, <2>5 DEF Ledger!Tell
    <3>4. PICK u \in Users : u = k
      BY <2>1
    <3>5. Ledger!Like(u)
      BY <3>4, <1>3, <1>6, <2>2, <2>5, <3>1, <3>2, <3>3 DEF Ledger!Like, LikeRows, CommentRows
    <3>6. QED BY <3>5 DEF Ledger!LedgerNext
  <2>6. CASE tx[s].changed = "removed"
    <3>1. LikeRows' = LikeRows \ {k} /\ k \in LikeRows
      BY <1>6, <1>7, <2>1, <2>6 DEF LikeRows, Keys
    <3>2. likes' = likes - 1
      BY <1>0, <1>2, <2>4, <2>6
    <3>3. Ledger!Tell("toggle", k, "removed", likes')
      BY <1>4, <1>8, <2>3, <2>4, <2>6 DEF Ledger!Tell
    <3>4. PICK u \in Users : u = k
      BY <2>1
    <3>5. Ledger!Unlike(u)
      BY <3>4, <1>3, <1>6, <2>2, <2>6, <3>1, <3>2, <3>3 DEF Ledger!Unlike, LikeRows, CommentRows
    <3>6. QED BY <3>5 DEF Ledger!LedgerNext
  <2>7. CASE tx[s].changed = "no"
    <3>1. UNCHANGED tableVars
      BY <1>0, <1>2, <1>3, <1>7, <2>2, <2>4, <2>7
    <3>2. Ledger!Tell("toggle", k, "no", 0)
      BY <1>4, <1>8, <2>7 DEF Ledger!Tell
    <3>3. Ledger!Already(k)
      BY <3>1, <3>2, SameBook DEF Ledger!Already
    <3>4. QED BY <2>1, <3>3 DEF Ledger!LedgerNext
  <2>8. QED
    BY <1>0, <2>5, <2>6, <2>7 DEF TxType
<1>9. CASE tx[s].op \in {"add", "remove"}
  <2>1. k \in Comments /\ k \notin Users
    BY <1>0, <1>9, KeysAssumption DEF Shape
  <2>2. likes' = likes /\ LikeRows' = LikeRows
    BY <1>3, <1>7, <2>1 DEF LikeRows, Keys
  <2>3. comments' = comments + Delta(s)
    BY <1>3, <2>1
  <2>4. CASE tx[s].op = "add"
    <3>1. tx[s].changed = "inserted"
      BY <1>0, <2>4 DEF Shape, TxType
    <3>2. CommentRows' = CommentRows \union {k} /\ k \notin CommentRows
      BY <1>6, <1>7, <2>1, <3>1 DEF CommentRows, Keys
    <3>3. comments' = comments + 1
      BY <1>2, <2>3, <3>1
    <3>4. Ledger!Tell("add", k, "inserted", 0)
      BY <1>4, <2>4, <3>1 DEF Ledger!Tell
    <3>5. PICK c \in Comments : c = k
      BY <2>1
    <3>6. Ledger!Add(c)
      BY <3>5, <1>3, <1>6, <2>2, <3>1, <3>2, <3>3, <3>4 DEF Ledger!Add, LikeRows, CommentRows
    <3>7. QED BY <3>6 DEF Ledger!LedgerNext
  <2>5. CASE tx[s].op = "remove"
    <3>1. tx[s].changed = "removed"
      BY <1>0, <2>5 DEF Shape, TxType
    <3>2. CommentRows' = CommentRows \ {k} /\ k \in CommentRows
      BY <1>6, <1>7, <2>1, <3>1 DEF CommentRows, Keys
    <3>3. comments' = comments - 1
      BY <1>0, <1>2, <2>3, <3>1
    <3>4. Ledger!Tell("remove", k, "removed", 0)
      BY <1>4, <2>5, <3>1 DEF Ledger!Tell
    <3>5. PICK c \in Comments : c = k
      BY <2>1
    <3>6. Ledger!Remove(c)
      BY <3>5, <1>3, <1>6, <2>2, <3>1, <3>2, <3>3, <3>4 DEF Ledger!Remove, LikeRows, CommentRows
    <3>7. QED BY <3>6 DEF Ledger!LedgerNext
  <2>6. QED BY <1>9, <2>4, <2>5
<1>10. QED
  BY <1>5, <1>8, <1>9

(* Every statement, failure and abort is a step of the ledger. *)
LEMMA StepIsLedgerStep ==
  ASSUME InterInv, NEW s \in Sessions, Start(s) \/ Step(s) \/ Fail(s)
  PROVE  Ledger!LedgerNext
<1>1. ASSUME UNCHANGED tableVars, Silent PROVE Ledger!LedgerNext
  BY <1>1, QuietIsQuiet DEF Ledger!LedgerNext
<1>2. ASSUME Rollback(s), tx[s].pc # "idle" PROVE Ledger!LedgerNext
  BY <1>2, RollbackRefuses
<1>3. Shape(tx[s])
  BY DEF InterInv, LockInv, ShapeInv
<1>4. CASE Start(s)
  <2>1. UNCHANGED tableVars /\ Silent
    BY <1>4 DEF Start, ToggleLike, AddComment, DeleteComment, DeleteMessage, Begin
  <2>2. QED BY <1>1, <2>1
<1>5. CASE Select(s) \/ Bump(s)
  BY <1>1, <1>5 DEF Select, Bump
<1>6. CASE Insert(s) \/ Delete(s)
  <2>1. tx[s].pc # "idle" /\ (tx[s].pc \in {"delete", "find"} => tx[s].op \in {"remove", "toggle"})
    BY <1>3, <1>6 DEF Shape, Insert, Delete
  <2>2. (UNCHANGED tableVars /\ Silent) \/ Rollback(s)
    BY <1>6, <2>1 DEF Insert, Delete
  <2>3. QED BY <1>1, <1>2, <2>1, <2>2
<1>7. CASE Read(s) \/ LockMessage(s)
  BY <1>1, <1>2, <1>7 DEF Read, LockMessage
<1>8. CASE Commit(s)
  BY <1>8, CommitTakesEffect
<1>9. CASE Cascade(s)
  BY <1>9, CascadeDrops DEF Ledger!LedgerNext
<1>10. CASE DeadlockAbort(s)
  <2>1. tx[s].pc # "idle"
    BY <1>10, WaitingRequest DEF DeadlockAbort, Blocked
  <2>2. QED BY <1>2, <1>10, <2>1 DEF DeadlockAbort
<1>11. CASE Fail(s)
  BY <1>2, <1>3, <1>11 DEF Fail, Shape
<1>12. QED
  BY <1>4, <1>5, <1>6, <1>7, <1>8, <1>9, <1>10, <1>11 DEF Step

(* The transactions implement the ledger: likes, comments and the deletion of a  *)
(* message are atomic for any number of concurrent requests.                     *)
THEOREM TransactionsImplementLedger == Spec => ImplementsLedger
<1>1. Init => Ledger!LedgerInit
  <2> SUFFICES ASSUME Init PROVE Ledger!LedgerInit
    OBVIOUS
  <2>1. LikeRows = {} /\ CommentRows = {}
    BY DEF Init, LikeRows, CommentRows, Keys
  <2>2. shown = Ledger!Nothing
    <3>1. reply = NoReply /\ reply \in ReplyType
      BY IdleType DEF Init
    <3>2. shown = Ledger!Answer(NoReply.op, NoReply.ok, NoReply.key, NoReply.changed, 0)
      BY <3>1, ShownFields DEF shown, NoReply
    <3>3. QED BY <3>2 DEF NoReply, Ledger!Nothing
  <2>3. QED
    BY <2>1, <2>2 DEF Init, Ledger!LedgerInit, LikeRows, CommentRows
<1>2. InterInv /\ [Next]_vars => [Ledger!LedgerNext]_(Ledger!ledgerVars)
  <2> SUFFICES ASSUME InterInv, [Next]_vars
               PROVE  Ledger!LedgerNext \/ UNCHANGED Ledger!ledgerVars
    OBVIOUS
  <2>1. CASE UNCHANGED vars
    BY <2>1 DEF Ledger!ledgerVars, shown
  <2>2. ASSUME NEW s \in Sessions, Start(s) \/ Step(s) \/ Fail(s) PROVE Ledger!LedgerNext
    BY <2>2, StepIsLedgerStep
  <2>3. QED
    BY <2>1, <2>2 DEF Next
<1>3. QED
  BY <1>1, <1>2, InterInvAlways, PTL DEF Spec, ImplementsLedger, Ledger!LedgerSpec
=============================================================================
