---------------------------- MODULE NearbyCache ----------------------------
(***************************************************************************)
(* GET /messages/nearby with its Redis grid cache, against the writers of   *)
(* the messages table: service/message_service.go, cache/redis.go and the   *)
(* SQL function get_nearby_messages.                                        *)
(*                                                                         *)
(* One grid cell: the requests below all round to the same "grid:" prefix,  *)
(* so a cache key is what distinguishes them, the requester.  Messages are  *)
(* numbered by their distance from the cell.  Time is counted in units of   *)
(* which TTL make the cache's time to live and Patience the request timeout.*)
(***************************************************************************)
EXTENDS Naturals, FiniteSets

CONSTANTS Messages,  \* the messages that may be posted; a set of naturals, nearest first
          Users, Anon,      \* authenticated users, and the requester without a token
          Askers,    \* those of them who send a GET
          Prefix,    \* userID[:8], of each user
          Author, Kind, Visibility,  \* attributes of the messages (functions)
          Readers, Writers, \* request goroutines: GET, and POST or DELETE
          Limits,    \* the limits that clients ask for
          TTL,       \* cache.ttl
          Patience,  \* middleware.Timeout: how long a request's context lives
          MaxFaults  \* bound: how many Redis or database calls fail in a behaviour

ASSUME MessagesAssumption == Messages \subseteq Nat
ASSUME AskersAssumption == Askers \subseteq Users \union {Anon}
ASSUME PrefixAssumption == DOMAIN Prefix = Users
ASSUME AnonAssumption == Anon \notin Users /\ \A u \in Users : Prefix[u] # Anon
ASSUME AttributesAssumption ==
  /\ Author \in [Messages -> Users]
  /\ Kind \in [Messages -> {"standard", "mystery", "capsule"}]
  /\ Visibility \in [Messages -> {"public", "private"}]
ASSUME LimitsAssumption == Limits \subseteq Nat \ {0}
ASSUME TimesAssumption == TTL \in Nat \ {0} /\ Patience \in Nat \ {0}
ASSUME FaultsAssumption == MaxFaults \in Nat

Requesters == Users \union {Anon}
Keys == {Prefix[u] : u \in Users} \union {Anon}

VARIABLES
  status,    \* of each row: "absent" | "pending" (capsule) | "live" | "hidden" | "expired" | "deleted"
  unlocked,  \* message_unlocks: pairs <<message, user>>
  granted,   \* history: the pairs that were ever in message_unlocks
  cached,    \* the keys present in Redis
  entry,     \* what each key holds: a list, which of it is masked, its age, the age of its rows
  get,       \* GET in progress: pc "idle" | "query" | "mask" | "store", who asks, the limit,
             \* whether it may use the cache, what its user had unlocked when it began, the
             \* rows read, the ones whose content became "???", the time since they were read
             \* and since the request began
  answer,    \* the answer the last step sent, if it sent one: to whom, list, masked, unlocked before, degraded
  writing,   \* of each writer: "idle" | "scan" | "del"
  keys,      \* the keys a writer's SCAN collected
  faults     \* how many calls have failed so far

tableVars  == <<status, unlocked, granted>>
cacheVars  == <<cached, entry>>
writerVars == <<writing, keys>>
vars == <<status, unlocked, granted, cached, entry, get, answer, writing, keys, faults>>

\* Mutant: a key made of the cell alone.
GridKeyShared(u) == Anon

\* cache.GridKey within the cell: "anon", or the first eight characters of the user id.
GridKey(u) == IF u = Anon THEN Anon ELSE Prefix[u]

\* WHERE of get_nearby_messages, for the requester u.
VisibleTo(u) ==
  {m \in Messages : status[m] = "live" /\ (Visibility[m] = "public" \/ Author[m] = u)}

\* ORDER BY distance LIMIT k
Nearest(S, k) == {m \in S : Cardinality({x \in S : x < m}) < k}

NoAnswer == [user |-> Anon, list |-> {}, masked |-> {}, before |-> {}, degraded |-> FALSE]

NoReply == answer' = NoAnswer

NoEntry == [list |-> {}, masked |-> {}, age |-> 0, readAge |-> 0]

Idle == [pc |-> "idle", user |-> Anon, limit |-> 0, plain |-> FALSE, before |-> {},
         rows |-> {}, masked |-> {}, readAge |-> 0, busy |-> 0]

Fault == faults < MaxFaults /\ faults' = faults + 1
-----------------------------------------------------------------------------
Init ==
  /\ status = [m \in Messages |-> "absent"]
  /\ unlocked = {} /\ granted = {}
  /\ cached = {}
  /\ entry = [k \in Keys |-> NoEntry]
  /\ get = [r \in Readers |-> Idle]
  /\ answer = NoAnswer
  /\ writing = [w \in Writers |-> "idle"]
  /\ keys = [w \in Writers |-> {}]
  /\ faults = 0
-----------------------------------------------------------------------------
(* GetNearby.  The request q is answered; degraded: some call of it failed. *)
Answer(q, list, hide, degraded) ==
  answer' = [user |-> q.user, list |-> list, masked |-> hide,
             before |-> q.before, degraded |-> degraded]

Return(r) == get' = [get EXCEPT ![r] = Idle]

\* A request begins: what its user has unlocked by now it should read in clear.
NewRequest(u, k, p) ==
  [pc |-> "query", user |-> u, limit |-> k, plain |-> p,
   before |-> {m \in Messages : <<m, u>> \in unlocked},
   rows |-> {}, masked |-> {}, readAge |-> 0, busy |-> 0]

\* cache.Get finds the key: its list is the answer, whatever limit was asked for.
Hit(r, q) ==
  /\ get[r].pc = "idle"
  /\ q.plain
  /\ GridKey(q.user) \in cached
  /\ Answer(q, entry[GridKey(q.user)].list, entry[GridKey(q.user)].masked, FALSE)
  /\ UNCHANGED <<tableVars, cacheVars, get, writerVars, faults>>

\* No cache for this query (hashtag or sort), no such key, or Redis does not answer.
Miss(r, q) ==
  /\ get[r].pc = "idle"
  /\ IF q.plain /\ GridKey(q.user) \in cached THEN Fault ELSE UNCHANGED faults
  /\ get' = [get EXCEPT ![r] = q]
  /\ NoReply
  /\ UNCHANGED <<tableVars, cacheVars, writerVars>>

\* The context is cancelled: every further call of the request fails.
TimedOut(r) == get[r].busy >= Patience

\* repo.GetNearby.  An error while the rows are read ends the loop after the first n
\* and is not reported (rows.Err is not consulted).
Query(r) ==
  LET all == Nearest(VisibleTo(get[r].user), get[r].limit) IN
  /\ get[r].pc = "query" /\ ~TimedOut(r)
  /\ \E n \in 0 .. Cardinality(all) :
       /\ IF n = Cardinality(all) THEN UNCHANGED faults ELSE Fault
       /\ get' = [get EXCEPT ![r].pc = "mask", ![r].rows = Nearest(all, n)]
  /\ NoReply
  /\ UNCHANGED <<tableVars, cacheVars, writerVars>>

\* The query itself fails: the handler answers 500.
QueryError(r) ==
  /\ get[r].pc = "query"
  /\ IF TimedOut(r) THEN UNCHANGED faults ELSE Fault
  /\ Return(r)
  /\ NoReply
  /\ UNCHANGED <<tableVars, cacheVars, writerVars>>

\* The messages whose content the masking loop hides, when the IsUnlocked calls for
\* the messages of "failed" return an error.
ToMask(u, list, failed) ==
  {m \in list : /\ Kind[m] = "mystery" /\ Author[m] # u
                /\ <<m, u>> \notin unlocked \/ m \in failed}

\* Mutant: the cache store without !hasMaskedMystery.
MaskAndStore(r) ==
  LET q == get[r] IN
  /\ q.pc = "mask"
  /\ \E failed \in SUBSET q.rows :
       LET hide == ToMask(q.user, q.rows, failed) IN
       /\ CASE TimedOut(r) -> failed = q.rows /\ UNCHANGED faults
            [] ~TimedOut(r) /\ failed = {} -> UNCHANGED faults
            [] OTHER -> Fault
       /\ IF q.plain
            THEN get' = [get EXCEPT ![r].pc = "store", ![r].masked = hide] /\ NoReply
            ELSE Return(r) /\ Answer(q, q.rows, hide, failed # {})
  /\ UNCHANGED <<tableVars, cacheVars, writerVars>>

\* The masking loop, the ranking and the end of a request that does not store its list.
Mask(r) ==
  LET q == get[r] IN
  /\ q.pc = "mask"
  /\ \E failed \in SUBSET q.rows :
       LET hide == ToMask(q.user, q.rows, failed) IN
       /\ CASE TimedOut(r) -> failed = q.rows /\ UNCHANGED faults
            [] ~TimedOut(r) /\ failed = {} -> UNCHANGED faults
            [] OTHER -> Fault
       /\ IF q.plain /\ hide = {}
            THEN get' = [get EXCEPT ![r].pc = "store", ![r].masked = hide] /\ NoReply
            ELSE Return(r) /\ Answer(q, q.rows, hide, failed # {})
  /\ UNCHANGED <<tableVars, cacheVars, writerVars>>

\* Mutant: cache.Set is given a context that outlives the request.
StoreLate(r) ==
  LET q == get[r] IN
  /\ q.pc = "store"
  /\ Return(r)
  /\ Answer(q, q.rows, q.masked, FALSE)
  /\ cached' = cached \union {GridKey(q.user)}
  /\ entry' = [entry EXCEPT ![GridKey(q.user)] =
                 [list |-> q.rows, masked |-> q.masked, age |-> 0, readAge |-> q.readAge]]
  /\ UNCHANGED <<tableVars, writerVars, faults>>

\* cache.Set, whose failure is only logged.
Store(r) ==
  LET q == get[r] IN
  /\ q.pc = "store"
  /\ Return(r)
  /\ Answer(q, q.rows, q.masked, FALSE)
  /\ \/ /\ ~TimedOut(r)
        /\ cached' = cached \union {GridKey(q.user)}
        /\ entry' = [entry EXCEPT ![GridKey(q.user)] =
                       [list |-> q.rows, masked |-> q.masked, age |-> 0, readAge |-> q.readAge]]
        /\ UNCHANGED faults
     \/ /\ IF TimedOut(r) THEN UNCHANGED faults ELSE Fault
        /\ UNCHANGED cacheVars
  /\ UNCHANGED <<tableVars, writerVars>>
-----------------------------------------------------------------------------
(* Create and Delete: the statement on the table, then InvalidateZone.      *)
Create(w, m) ==
  /\ writing[w] = "idle"
  /\ status[m] = "absent"
  /\ \E s \in (IF Kind[m] = "capsule" THEN {"pending", "live"} ELSE {"live"}) :
       status' = [status EXCEPT ![m] = s]
  /\ writing' = [writing EXCEPT ![w] = "scan"]
  /\ NoReply
  /\ UNCHANGED <<unlocked, granted, cacheVars, get, keys, faults>>

\* DELETE ... WHERE id AND user_id; another user's call changes nothing.  The rows of
\* message_unlocks go with the message (ON DELETE CASCADE).
Delete(w, m) ==
  /\ writing[w] = "idle"
  /\ status[m] \notin {"absent", "deleted"}
  /\ status' = [status EXCEPT ![m] = "deleted"]
  /\ unlocked' = {p \in unlocked : p[1] # m}
  /\ writing' = [writing EXCEPT ![w] = "scan"]
  /\ NoReply
  /\ UNCHANGED <<granted, cacheVars, get, keys, faults>>

\* SCAN grid:* collects the keys; an error ends the iteration early and is ignored.
Scan(w) ==
  /\ writing[w] = "scan"
  /\ \E found \in SUBSET cached :
       /\ IF found = cached THEN UNCHANGED faults ELSE Fault
       /\ keys' = [keys EXCEPT ![w] = found]
       /\ writing' = [writing EXCEPT ![w] = IF found = {} THEN "idle" ELSE "del"]
  /\ NoReply
  /\ UNCHANGED <<tableVars, cacheVars, get>>

Del(w) ==
  /\ writing[w] = "del"
  /\ \/ /\ cached' = cached \ keys[w]
        /\ entry' = [k \in Keys |-> IF k \in keys[w] THEN NoEntry ELSE entry[k]]
        /\ UNCHANGED faults
     \/ Fault /\ UNCHANGED cacheVars
  /\ keys' = [keys EXCEPT ![w] = {}]
  /\ writing' = [writing EXCEPT ![w] = "idle"]
  /\ NoReply
  /\ UNCHANGED <<tableVars, get>>
-----------------------------------------------------------------------------
(* What changes the table without touching the cache: an unlock, the        *)
(* auto-hide of a reported message, and the passing of time.                *)
\* The INSERT of UnlockMystery, for a message that its query listed before: by now it
\* may be hidden.  A second unlock conflicts and does nothing.
Unlock(m, u) ==
  /\ status[m] \in {"live", "hidden"}
  /\ Kind[m] = "mystery"
  /\ Visibility[m] = "public" \/ Author[m] = u
  /\ <<m, u>> \notin unlocked
  /\ unlocked' = unlocked \union {<<m, u>>}
  /\ granted' = granted \union {<<m, u>>}
  /\ NoReply
  /\ UNCHANGED <<status, cacheVars, get, writerVars, faults>>

HideMessage(m) ==
  /\ status[m] \in {"live", "pending", "expired"}
  /\ status' = [status EXCEPT ![m] = "hidden"]
  /\ NoReply
  /\ UNCHANGED <<unlocked, granted, cacheVars, get, writerVars, faults>>

Reveal(m) ==
  /\ status[m] = "pending"
  /\ status' = [status EXCEPT ![m] = "live"]
  /\ NoReply
  /\ UNCHANGED <<unlocked, granted, cacheVars, get, writerVars, faults>>

Expire(m) ==
  /\ status[m] = "live" /\ Kind[m] # "mystery"
  /\ status' = [status EXCEPT ![m] = "expired"]
  /\ NoReply
  /\ UNCHANGED <<unlocked, granted, cacheVars, get, writerVars, faults>>

\* Mutant: no middleware.Timeout, a request may take for ever.
TickNoTimeout ==
  /\ cached' = {k \in cached : entry[k].age + 1 < TTL}
  /\ entry' = [k \in Keys |->
                 IF k \in cached' THEN [entry[k] EXCEPT !.age = @ + 1, !.readAge = @ + 1]
                                  ELSE NoEntry]
  /\ get' = [r \in Readers |->
               LET q == get[r] IN
               [q EXCEPT !.busy = IF q.pc = "idle" THEN 0 ELSE @ + 1,
                         !.readAge = IF q.pc \in {"mask", "store"} THEN @ + 1 ELSE 0]]
  /\ NoReply
  /\ UNCHANGED <<tableVars, writerVars, faults>>

\* One unit of time: Redis drops the keys whose time to live is over; a request does
\* not outlive its context.
Tick ==
  /\ \A r \in Readers : ~TimedOut(r)
  /\ cached' = {k \in cached : entry[k].age + 1 < TTL}
  /\ entry' = [k \in Keys |->
                 IF k \in cached' THEN [entry[k] EXCEPT !.age = @ + 1, !.readAge = @ + 1]
                                  ELSE NoEntry]
  /\ get' = [r \in Readers |->
               LET q == get[r] IN
               [q EXCEPT !.busy = IF q.pc = "idle" THEN 0 ELSE @ + 1,
                         !.readAge = IF q.pc \in {"mask", "store"} THEN @ + 1 ELSE 0]]
  /\ NoReply
  /\ UNCHANGED <<tableVars, writerVars, faults>>
-----------------------------------------------------------------------------
GetNearby(r) == \/ \E u \in Askers, k \in Limits, p \in BOOLEAN :
                     Hit(r, NewRequest(u, k, p)) \/ Miss(r, NewRequest(u, k, p))
                \/ Query(r) \/ Mask(r) \/ Store(r) \/ QueryError(r)

Next ==
  \/ \E r \in Readers : GetNearby(r)
  \/ \E w \in Writers : (\E m \in Messages : Create(w, m) \/ Delete(w, m)) \/ Scan(w) \/ Del(w)
  \/ \E m \in Messages : HideMessage(m) \/ Reveal(m) \/ Expire(m) \/ \E u \in Users : Unlock(m, u)
  \/ Tick

Spec == Init /\ [][Next]_vars
-----------------------------------------------------------------------------
Entry == [list : SUBSET Messages, masked : SUBSET Messages, age : Nat, readAge : Nat]

Request == [pc : {"idle", "query", "mask", "store"}, user : Requesters, limit : Nat,
            plain : BOOLEAN, before : SUBSET Messages, rows : SUBSET Messages,
            masked : SUBSET Messages, readAge : Nat, busy : 0 .. Patience]

Reply == [user : Requesters, list : SUBSET Messages, masked : SUBSET Messages,
          before : SUBSET Messages, degraded : BOOLEAN]

(* The value domains of the variables. *)
TypeOK ==
  /\ status \in [Messages -> {"absent", "pending", "live", "hidden", "expired", "deleted"}]
  /\ unlocked \subseteq granted /\ granted \subseteq Messages \X Users
  /\ cached \subseteq Keys
  /\ entry \in [Keys -> Entry]
  /\ get \in [Readers -> Request]
  /\ answer \in Reply
  /\ writing \in [Writers -> {"idle", "scan", "del"}]
  /\ keys \in [Writers -> SUBSET Keys]
  /\ faults \in 0 .. MaxFaults

(* Whoever may read the content of m: everyone, unless it is a mystery that *)
(* the reader has neither written nor unlocked.                             *)
MayRead(u, m) == Kind[m] # "mystery" \/ Author[m] = u \/ <<m, u>> \in granted

(* GetNearby never shows a locked mystery's content, and never lists a      *)
(* private message to another user, from the database or from the cache,    *)
(* when no two users share the prefix that the cache key is made of.        *)
OnlyReadable ==
  (\A u, v \in Users : Prefix[u] = Prefix[v] => u = v) =>
    \A m \in answer.list :
      /\ m \notin answer.masked => MayRead(answer.user, m)
      /\ Visibility[m] = "private" => Author[m] = answer.user

(* internal/cache/redis.go:43, "prefixe suffisant pour eviter les           *)
(* collisions": the key keeps the results of two users apart, so that what  *)
(* is read from the cache for a user was listed for that user.              *)
PrefixSeparates ==
  \A m \in answer.list : Visibility[m] = "private" => Author[m] = answer.user

(* A mystery unlocked before the request began is shown in clear, unless a  *)
(* database call failed or the message was deleted while the request ran:   *)
(* lists with masked content never enter the cache.                         *)
UnlockedIsReadable ==
  ~answer.degraded => \A m \in answer.masked \intersect answer.before : status[m] = "deleted"

(* The rows in the cache are never older than the time to live plus the     *)
(* time a request may take, whatever invalidations were missed or lost.     *)
\* In whole units: an entry is at most TTL - 1 old, its rows were at most Patience - 1 old.
StalenessBounded == \A k \in cached : entry[k].readAge <= (TTL - 1) + (Patience - 1)

(* docs/architecture.md:97: after a DELETE has invalidated the cache, no    *)
(* cached list still holds the message.                                     *)
InvalidationIsComplete ==
  (\A w \in Writers : writing[w] = "idle") =>
    \A k \in cached : \A m \in entry[k].list : status[m] # "deleted"
=============================================================================
