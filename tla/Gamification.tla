---------------------------- MODULE Gamification ----------------------------
(***************************************************************************)
(* What posting and unlocking leave behind in user_streaks and user_badges: *)
(* POST /messages, POST /messages/{id}/unlock, the deletion of messages,    *)
(* days going by, failing calls and restarts of the server.                 *)
(*                                                                         *)
(* A request is a goroutine; each SQL statement commits by itself.  The     *)
(* upsert of RecordPost is two steps, because CURRENT_DATE and its count of *)
(* zones belong to the statement's start while the row it updates is the    *)
(* latest one.  Errors of the gamification calls are ignored by the code.   *)
(***************************************************************************)
EXTENDS Integers, FiniteSets

CONSTANTS
  Sessions,    \* request goroutines
  Users, Mysteries, Zones,
  Drafts,      \* what may be posted: [zone |-> zone, capsule |-> whether it is a capsule]
  Milestones,  \* badges given for a statistic: [of |-> statistic, at |-> threshold]
  Legacy,      \* what a user may have posted before the gamification tables existed:
               \* [posts |-> rows of messages, zones |-> the zones they lie in]
  MaxDay,      \* bound: the last day
  MaxRequests, \* bound: requests that pass their checks
  MaxFaults    \* bound: failing calls and restarts

ASSUME BoundsAssumption == MaxDay \in Nat \ {0} /\ MaxRequests \in Nat /\ MaxFaults \in Nat
ASSUME FiniteAssumption == IsFiniteSet(Mysteries) /\ IsFiniteSet(Zones) /\ IsFiniteSet(Sessions)
ASSUME DraftsAssumption == Drafts \subseteq [zone : Zones, capsule : BOOLEAN]
ASSUME LegacyAssumption == Legacy \subseteq [posts : Nat, zones : SUBSET Zones]
ASSUME MilestonesAssumption ==
  Milestones \subseteq [of : {"posts", "zones", "streak", "unlocks"}, at : Nat \ {0}]

VARIABLES
  day,           \* CURRENT_DATE of a statement that begins now
  mine,          \* of each user, the zones in which there are rows of messages
  live,          \* mysteries that exist
  unlocks,       \* rows of message_unlocks: <<mystery, user>>
  unlocksCount,  \* messages.unlocks_count
  row,           \* user_streaks
  badges,        \* user_badges: <<user, badge>>
  req,           \* the requests in progress
  faults,
  begun,         \* requests so far
  created,       \* history: rows each user's posts inserted
  granted,       \* history: every row ever inserted into message_unlocks
  days,          \* history: days on which each user's posts were recorded
  visited,       \* history: zones in which each user ever posted
  capsules,      \* history: users who have posted a capsule
  overtaken      \* history: users of whom a statement of one day was recorded after one of
                 \* a later day

messageVars == <<mine, live, created, visited, capsules>>
unlockVars  == <<unlocks, unlocksCount, granted>>
streakVars  == <<row, days, overtaken>>
vars == <<day, messageVars, unlockVars, streakVars, badges, req, faults, begun>>

NoDay == -1   \* a NULL date; days are counted from 1, so it is never yesterday

\* A missing row: it reads as zeros, and the upserts insert what they would make of zeros.
NoRow == [streak |-> 0, best |-> 0, last |-> NoDay, posts |-> 0, zones |-> 0, unlocks |-> 0]
Row == [streak : Nat, best : Nat, last : Nat \union {NoDay}, posts : Nat, zones : Nat, unlocks : Nat]

CapsuleCreator == [of |-> "capsule", at |-> 1]
Badges == Milestones \union {CapsuleCreator}

\* today and zones: what the upsert's statement saw when it began; due: the badges
\* that what GetStreak read calls for.
None == ""
Idle == [pc |-> "idle", user |-> None, target |-> None, capsule |-> FALSE,
         today |-> 0, zones |-> 0, due |-> {}]
Request == [pc : {"idle", "record", "upsert", "unlock", "recordUnlock", "stats", "award"},
            user : Users \union {None}, target : Mysteries \union {None}, capsule : BOOLEAN,
            today : Nat, zones : Nat, due : SUBSET Badges]

Goto(s, l) == req' = [req EXCEPT ![s].pc = l]
\* A recording statement is over, and with it what it saw.
Recorded(s) == req' = [req EXCEPT ![s] = [@ EXCEPT !.pc = "stats", !.target = None, !.today = 0, !.zones = 0]]
End(s) == req' = [req EXCEPT ![s] = Idle]
Begin == begun < MaxRequests /\ begun' = begun + 1
Fault == faults < MaxFaults /\ faults' = faults + 1

\* The migration inserts a row for every user, with the count of the messages there are and
\* no other statistic; it awards nothing.
Migrated(old) == [NoRow EXCEPT !.posts = old.posts]

Init ==
  /\ \E old \in [Users -> Legacy] :
       /\ row = [u \in Users |-> Migrated(old[u])]
       /\ created = [u \in Users |-> old[u].posts]
       /\ mine = [u \in Users |-> old[u].zones]
  /\ visited = mine
  /\ days = [u \in Users |-> {}] /\ overtaken = {} /\ capsules = {}
  /\ day = 1
  /\ live = Mysteries /\ unlocks = {} /\ unlocksCount = [m \in Mysteries |-> 0] /\ granted = {}
  /\ badges = {}
  /\ req = [s \in Sessions |-> Idle]
  /\ faults = 0 /\ begun = 0
-----------------------------------------------------------------------------
InsertPost(u, d) ==
  /\ mine' = [mine EXCEPT ![u] = @ \union {d.zone}]
  /\ created' = [created EXCEPT ![u] = @ + 1]
  /\ visited' = [visited EXCEPT ![u] = @ \union {d.zone}]
  /\ capsules' = IF d.capsule THEN capsules \union {u} ELSE capsules
  /\ UNCHANGED live

\* A POST that AntiSpam has let through, up to MessageRepo.Create; the cache and the hub, which
\* come next, keep no state of this module.
Create(s, u, d) ==
  /\ req[s].pc = "idle"
  /\ Begin
  /\ InsertPost(u, d)
  /\ req' = [req EXCEPT ![s] = [Idle EXCEPT !.pc = "record", !.user = u, !.capsule = d.capsule]]
  /\ UNCHANGED <<day, unlockVars, streakVars, badges, faults>>

\* The INSERT's answer is lost: the request ends without gamification.  One that fails changes
\* nothing.
CreateError(s, u, d) ==
  /\ req[s].pc = "idle"
  /\ Begin
  /\ Fault
  /\ InsertPost(u, d)
  /\ UNCHANGED <<day, unlockVars, streakVars, badges, req>>
-----------------------------------------------------------------------------
\* RecordPost's statement begins: CURRENT_DATE and the count of zones are those of this moment.
BeginRecord(s) ==
  /\ req[s].pc = "record"
  /\ req' = [req EXCEPT ![s].pc = "upsert", ![s].today = day,
       ![s].zones = Cardinality(mine[req[s].user])]
  /\ UNCHANGED <<day, messageVars, unlockVars, streakVars, badges, faults, begun>>

\* Mutant: a gap between two posts is not noticed.
NextStreakGapless(r, today) == IF r.last = today THEN r.streak ELSE r.streak + 1

\* Mutant: a second post on one day starts again.
NextStreakForgetful(r, today) == IF r.last = today - 1 THEN r.streak + 1 ELSE 1

\* Mutant: a missed day takes one off.
NextStreakDecaying(r, today) ==
  CASE r.last = today -> r.streak [] r.last = today - 1 -> r.streak + 1 [] OTHER -> r.streak - 1

NextStreak(r, today) ==
  CASE r.last = today     -> r.streak
    [] r.last = today - 1 -> r.streak + 1
    [] OTHER              -> 1

\* INSERT ... ON CONFLICT DO UPDATE, on the row as it is when its lock is granted.
RecordPost(s) ==
  LET q == req[s]  r == row[q.user]  n == NextStreak(r, q.today) IN
  /\ q.pc = "upsert"
  /\ row' = [row EXCEPT ![q.user] =
       [streak |-> n, best |-> IF n > r.best THEN n ELSE r.best, last |-> q.today,
        posts |-> r.posts + 1, zones |-> q.zones, unlocks |-> r.unlocks]]
  /\ days' = [days EXCEPT ![q.user] = @ \union {q.today}]
  /\ overtaken' = IF r.last > q.today THEN overtaken \union {q.user} ELSE overtaken
  /\ Recorded(s)
  /\ UNCHANGED <<day, messageVars, unlockVars, badges, faults, begun>>

\* The statement fails; the code goes on.
RecordLost(s) ==
  /\ req[s].pc \in {"upsert", "recordUnlock"}
  /\ Fault
  /\ Recorded(s)
  /\ UNCHANGED <<day, messageVars, unlockVars, streakVars, badges, begun>>
-----------------------------------------------------------------------------
\* The target was found nearby and within its radius; otherwise nothing happens.
StartUnlock(s, u, m) ==
  /\ req[s].pc = "idle"
  /\ m \in live
  /\ Begin
  /\ req' = [req EXCEPT ![s] = [Idle EXCEPT !.pc = "unlock", !.user = u, !.target = m]]
  /\ UNCHANGED <<day, messageVars, unlockVars, streakVars, badges, faults>>

\* Mutant: recorded whether or not the row is new.
UnlockMysteryAgain(s) ==
  LET p == <<req[s].target, req[s].user>> IN
  /\ req[s].pc = "unlock"
  /\ p[1] \in live
  /\ unlocks' = unlocks \union {p}
  /\ unlocksCount' = [unlocksCount EXCEPT ![p[1]] = IF p \in unlocks THEN @ ELSE @ + 1]
  /\ granted' = granted \union {p}
  /\ Goto(s, "recordUnlock")
  /\ UNCHANGED <<day, messageVars, streakVars, badges, faults, begun>>

\* INSERT ... ON CONFLICT DO NOTHING and the trigger; a deleted mystery violates the foreign key.
UnlockMystery(s) ==
  LET p == <<req[s].target, req[s].user>> IN
  /\ req[s].pc = "unlock"
  /\ \/ /\ p[1] \in live /\ p \notin unlocks
        /\ unlocks' = unlocks \union {p}
        /\ unlocksCount' = [unlocksCount EXCEPT ![p[1]] = @ + 1]
        /\ granted' = granted \union {p}
        /\ Goto(s, "recordUnlock")
     \/ (p[1] \notin live \/ p \in unlocks) /\ End(s) /\ UNCHANGED unlockVars
  /\ UNCHANGED <<day, messageVars, streakVars, badges, faults, begun>>

\* Mutant: the unlock is counted and the badges are not looked at.
RecordUnlockOnly(s) ==
  /\ req[s].pc = "recordUnlock"
  /\ row' = [row EXCEPT ![req[s].user].unlocks = @ + 1]
  /\ End(s)
  /\ UNCHANGED <<day, messageVars, unlockVars, days, overtaken, badges, faults, begun>>

RecordUnlock(s) ==
  /\ req[s].pc = "recordUnlock"
  /\ row' = [row EXCEPT ![req[s].user].unlocks = @ + 1]
  /\ Recorded(s)
  /\ UNCHANGED <<day, messageVars, unlockVars, days, overtaken, badges, faults, begun>>
-----------------------------------------------------------------------------
Statistic(r, b) ==
  CASE b.of = "posts" -> r.posts [] b.of = "zones" -> r.zones
    [] b.of = "streak" -> r.streak [] b.of = "unlocks" -> r.unlocks

\* Mutant: one too early.
DueEarly(r, capsule) ==
  {b \in Milestones : Statistic(r, b) >= b.at - 1} \union (IF capsule THEN {CapsuleCreator} ELSE {})

Due(r, capsule) ==
  {b \in Milestones : Statistic(r, b) >= b.at} \union (IF capsule THEN {CapsuleCreator} ELSE {})

\* GetStreak: a missing row and an error both read as zeros.
GetStreak(s) ==
  LET Look(r) == req' = [req EXCEPT ![s] =
        [@ EXCEPT !.pc = "award", !.capsule = FALSE, !.due = Due(r, req[s].capsule)]]
  IN  /\ req[s].pc = "stats"
      /\ \/ Look(row[req[s].user]) /\ UNCHANGED faults
         \/ Look(NoRow) /\ Fault
      /\ UNCHANGED <<day, messageVars, unlockVars, streakVars, badges, begun>>

\* CheckAndAwardBadges and the capsule's badge: inserts that are ignored for badges already
\* there, each of which may fail without a trace.
AwardBadges(s) ==
  LET Award(D) == badges' = badges \union ({req[s].user} \X D) IN
  /\ req[s].pc = "award"
  /\ \/ Award(req[s].due) /\ UNCHANGED faults
     \/ Fault /\ \E D \in SUBSET req[s].due : Award(D)
  /\ End(s)
  /\ UNCHANGED <<day, messageVars, unlockVars, streakVars, begun>>
-----------------------------------------------------------------------------
\* DELETE of the last post in a zone; the others change nothing here, and no statistic is touched.
DeletePost(u, z) ==
  /\ z \in mine[u]
  /\ mine' = [mine EXCEPT ![u] = @ \ {z}]
  /\ UNCHANGED <<day, live, created, visited, capsules, unlockVars, streakVars, badges, req, faults, begun>>

\* DELETE of a mystery: its unlocks go with it.
DeleteMystery(m) ==
  /\ m \in live
  /\ live' = live \ {m}
  /\ unlocks' = {p \in unlocks : p[1] # m}
  /\ UNCHANGED <<day, mine, created, visited, capsules, unlocksCount, granted,
                 streakVars, badges, req, faults, begun>>

Midnight == day < MaxDay /\ day' = day + 1
            /\ UNCHANGED <<messageVars, unlockVars, streakVars, badges, req, faults, begun>>

\* The server stops and starts again: the requests in progress are gone.
Restart ==
  /\ Fault
  /\ req' = [s \in Sessions |-> Idle]
  /\ UNCHANGED <<day, messageVars, unlockVars, streakVars, badges, begun>>

Post(s) ==
  \/ \E u \in Users, d \in Drafts : Create(s, u, d) \/ CreateError(s, u, d)
  \/ BeginRecord(s) \/ RecordPost(s) \/ RecordLost(s)

Unlock(s) ==
  \/ \E u \in Users, m \in Mysteries : StartUnlock(s, u, m)
  \/ UnlockMystery(s) \/ RecordUnlock(s)

Next ==
  \/ \E s \in Sessions : Post(s) \/ Unlock(s) \/ GetStreak(s) \/ AwardBadges(s)
  \/ \E u \in Users, z \in Zones : DeletePost(u, z)
  \/ \E m \in Mysteries : DeleteMystery(m)
  \/ Midnight \/ Restart

Spec == Init /\ [][Next]_vars
-----------------------------------------------------------------------------
TypeOK ==
  /\ day \in 1 .. MaxDay
  /\ mine \in [Users -> SUBSET Zones] /\ live \subseteq Mysteries
  /\ created \in [Users -> Nat] /\ visited \in [Users -> SUBSET Zones] /\ capsules \subseteq Users
  /\ unlocks \subseteq Mysteries \X Users /\ granted \subseteq Mysteries \X Users
  /\ unlocksCount \in [Mysteries -> Nat]
  /\ row \in [Users -> Row] /\ days \in [Users -> SUBSET Nat] /\ overtaken \subseteq Users
  /\ badges \subseteq Users \X Badges
  /\ req \in [Sessions -> Request]
  /\ faults \in 0 .. MaxFaults /\ begun \in 0 .. MaxRequests

Busy(u) == \E s \in Sessions : req[s].pc # "idle" /\ req[s].user = u

(* Posts and unlocks are counted once each: never more often than there     *)
(* were rows, whatever fails, and exactly that often when nothing did.      *)
CountsExact ==
  \A u \in Users :
    LET got == Cardinality({p \in granted : p[2] = u}) IN
    /\ row[u].posts <= created[u] /\ row[u].unlocks <= got
    /\ faults = 0 /\ ~Busy(u) => row[u].posts = created[u] /\ row[u].unlocks = got

(* A streak of n is n days in a row on each of which a post was recorded,   *)
(* even when statements straddle midnight; the best streak happened too.    *)
StreakIsReal ==
  \A u \in Users :
    LET r == row[u] IN
    /\ (r.last - r.streak + 1) .. r.last \subseteq days[u]
    /\ r.streak <= r.best
    /\ \E d \in 0 .. MaxDay : (d - r.best + 1) .. d \subseteq days[u]

(* A streak is never cut short: the day before it began has no post, unless *)
(* a statement of an earlier day was recorded after one of a later day.     *)
StreakIsKept ==
  \A u \in Users \ overtaken : row[u].last # NoDay => row[u].last - row[u].streak \notin days[u]

Deserved(u, b) ==
  CASE b.of = "posts"   -> created[u] >= b.at
    [] b.of = "zones"   -> Cardinality(visited[u]) >= b.at
    [] b.of = "streak"  -> \E d \in 0 .. MaxDay : (d - b.at + 1) .. d \subseteq days[u]
    [] b.of = "unlocks" -> Cardinality({p \in granted : p[2] = u}) >= b.at
    [] OTHER            -> u \in capsules

(* A badge is only held by a user who once did what it stands for, whatever *)
(* other requests did between recording, reading and awarding.              *)
BadgesDeserved == \A p \in badges : Deserved(p[1], p[2])

\* A post or an unlock has been recorded in the user's row since it was made.
Active(u) == row[u].last # NoDay \/ row[u].unlocks > 0

(* No badge slips between the request that counts and the one that looks:   *)
(* without failures a user of whom a post or an unlock has been recorded    *)
(* and who is idle has every badge for posts and unlocks that the           *)
(* statistics call for, those of the posts the migration counted included.  *)
(* Until then the migrated posts have earned nothing.                       *)
BadgesAwarded ==
  \A u \in Users, b \in Milestones :
    faults = 0 /\ ~Busy(u) /\ Active(u) /\ b.of \in {"posts", "unlocks"}
      /\ Statistic(row[u], b) >= b.at => <<u, b>> \in badges
=============================================================================
