------------------------- MODULE GamificationProofs -------------------------
(* Streaks, counts and badges for any number of users, zones, mysteries and *)
(* request goroutines, any badge thresholds and any bound on days,          *)
(* requests and faults.                                                     *)
EXTENDS Gamification, FiniteSetTheorems, TLAPS

USE DEF vars, messageVars, unlockVars, streakVars

\* A request in progress belongs to a user.
ReqUsers == \A s \in Sessions : req[s].pc # "idle" => req[s].user \in Users

(* What a recording statement leaves of its request. *)
LEMMA RecordedRequest ==
  ASSUME req \in [Sessions -> Request], NEW s \in Sessions, Recorded(s)
  PROVE  /\ req' \in [Sessions -> Request]
         /\ \A t \in Sessions : t # s => req'[t] = req[t]
         /\ req'[s].pc = "stats" /\ req'[s].user = req[s].user
         /\ req'[s].capsule = req[s].capsule /\ req'[s].due = req[s].due
<1>1. PICK r : r = [req[s] EXCEPT !.pc = "stats", !.target = None, !.today = 0, !.zones = 0]
  OBVIOUS
<1>2. req' = [req EXCEPT ![s] = r]
  BY <1>1 DEF Recorded
<1>3. /\ r \in Request /\ r.pc = "stats" /\ r.user = req[s].user
      /\ r.capsule = req[s].capsule /\ r.due = req[s].due
  BY <1>1 DEF Request
<1>4. QED
  BY <1>2, <1>3

(* A session at rest carries no request. *)
LEMMA IdleRequest == Idle \in Request /\ Idle.pc = "idle" /\ Idle.due = {} /\ Idle.capsule = FALSE
  BY DEF Idle, Request

(* The end of a request. *)
LEMMA EndedRequest ==
  ASSUME req \in [Sessions -> Request], NEW s \in Sessions, End(s)
  PROVE  /\ req' \in [Sessions -> Request]
         /\ \A t \in Sessions : t # s => req'[t] = req[t]
         /\ req'[s] = Idle
  BY IdleRequest DEF End

(* The request of a POST that has just inserted its message. *)
LEMMA BegunPost ==
  ASSUME req \in [Sessions -> Request], NEW s \in Sessions, NEW u \in Users, NEW d \in Drafts, Create(s, u, d)
  PROVE  /\ req' \in [Sessions -> Request]
         /\ \A t \in Sessions : t # s => req'[t] = req[t]
         /\ req[s].pc = "idle" /\ req'[s].pc = "record" /\ req'[s].user = u /\ req'[s].due = {}
         /\ req'[s].capsule = d.capsule
<1>1. PICK r : r = [Idle EXCEPT !.pc = "record", !.user = u, !.capsule = d.capsule]
  OBVIOUS
<1>2. d.capsule \in BOOLEAN
  BY DraftsAssumption
<1>3. r \in Request /\ r.pc = "record" /\ r.user = u /\ r.due = {} /\ r.capsule = d.capsule
  BY <1>1, <1>2, IdleRequest DEF Request
<1>4. req[s].pc = "idle" /\ req' = [req EXCEPT ![s] = r]
  BY <1>1 DEF Create
<1>5. QED BY <1>3, <1>4

(* The request of an unlock that has just begun. *)
LEMMA BegunUnlock ==
  ASSUME req \in [Sessions -> Request], NEW s \in Sessions, NEW u \in Users, NEW m \in Mysteries,
         StartUnlock(s, u, m)
  PROVE  /\ req' \in [Sessions -> Request]
         /\ \A t \in Sessions : t # s => req'[t] = req[t]
         /\ req[s].pc = "idle" /\ req'[s].pc = "unlock" /\ req'[s].user = u /\ req'[s].due = {}
         /\ req'[s].capsule = FALSE
<1>1. PICK r : r = [Idle EXCEPT !.pc = "unlock", !.user = u, !.target = m]
  OBVIOUS
<1>2. r \in Request /\ r.pc = "unlock" /\ r.user = u /\ r.due = {} /\ r.capsule = FALSE
  BY <1>1, IdleRequest DEF Request
<1>3. req[s].pc = "idle" /\ req' = [req EXCEPT ![s] = r]
  BY <1>1 DEF StartUnlock
<1>4. QED BY <1>2, <1>3

(* An unlock that finds its mystery alive and not yet unlocked by its user goes on to record *)
(* it; any other one ends.                                                                   *)
LEMMA UnlockedRequest ==
  ASSUME TypeOK, ReqUsers, NEW s \in Sessions, UnlockMystery(s)
  PROVE  /\ req' \in [Sessions -> Request] /\ req[s].pc = "unlock" /\ req[s].user \in Users
         /\ \A t \in Sessions : t # s => req'[t] = req[t]
         /\ \/ req'[s] = Idle /\ UNCHANGED unlockVars
            \/ \E p \in Mysteries \X Users :
                 /\ p[1] \in live /\ p \notin unlocks /\ p[2] = req[s].user
                 /\ unlocks' = unlocks \union {p} /\ granted' = granted \union {p}
                 /\ req'[s].pc = "recordUnlock" /\ req'[s].user = req[s].user
                 /\ req'[s].due = req[s].due /\ req'[s].capsule = req[s].capsule
<1>1. req \in [Sessions -> Request] /\ live \subseteq Mysteries
  BY DEF TypeOK
<1>2. req[s].pc = "unlock" /\ req[s].user \in Users
  BY DEF UnlockMystery, ReqUsers
<1>3. CASE End(s) /\ UNCHANGED unlockVars
  BY <1>1, <1>2, <1>3, EndedRequest
<1>4. CASE ~(End(s) /\ UNCHANGED unlockVars)
  <2>1. PICK p : p = <<req[s].target, req[s].user>>
    OBVIOUS
  <2>2. /\ p[1] \in live /\ p \notin unlocks
        /\ unlocks' = unlocks \union {p} /\ granted' = granted \union {p}
        /\ req' = [req EXCEPT ![s].pc = "recordUnlock"]
    BY <1>4, <2>1 DEF UnlockMystery, Goto
  <2>3. p \in Mysteries \X Users /\ p[2] = req[s].user
    BY <1>1, <1>2, <2>1, <2>2
  <2>4. /\ req' \in [Sessions -> Request]
        /\ \A t \in Sessions : t # s => req'[t] = req[t]
        /\ req'[s].pc = "recordUnlock" /\ req'[s].user = req[s].user
        /\ req'[s].due = req[s].due /\ req'[s].capsule = req[s].capsule
    BY <1>1, <2>2 DEF Request
  <2>5. QED BY <1>2, <2>2, <2>3, <2>4
<1>5. QED BY <1>3, <1>4

(* What GetStreak leaves of its request: the badges due are those of the row, or *)
(* of no row when the read failed.                                               *)
LEMMA LookedRequest ==
  ASSUME req \in [Sessions -> Request], NEW s \in Sessions, GetStreak(s)
  PROVE  /\ req' \in [Sessions -> Request]
         /\ \A t \in Sessions : t # s => req'[t] = req[t]
         /\ req[s].pc = "stats" /\ req'[s].pc = "award" /\ req'[s].user = req[s].user
         /\ req'[s].capsule = FALSE
         /\ \/ req'[s].due = Due(row[req[s].user], req[s].capsule) /\ faults' = faults
            \/ req'[s].due = Due(NoRow, req[s].capsule) /\ Fault
<1>1. ASSUME NEW r, req' = [req EXCEPT ![s] = [req[s] EXCEPT !.pc = "award", !.capsule = FALSE,
                                               !.due = Due(r, req[s].capsule)]]
      PROVE  /\ req' \in [Sessions -> Request]
             /\ \A t \in Sessions : t # s => req'[t] = req[t]
             /\ req'[s].pc = "award" /\ req'[s].user = req[s].user
             /\ req'[s].capsule = FALSE /\ req'[s].due = Due(r, req[s].capsule)
  <2>1. Due(r, req[s].capsule) \subseteq Badges
    BY DEF Due, Badges
  <2>2. PICK q : q = [req[s] EXCEPT !.pc = "award", !.capsule = FALSE, !.due = Due(r, req[s].capsule)]
    OBVIOUS
  <2>3. /\ q \in Request /\ q.pc = "award" /\ q.user = req[s].user /\ q.capsule = FALSE
        /\ q.due = Due(r, req[s].capsule)
    BY <2>1, <2>2 DEF Request
  <2>4. QED BY <1>1, <2>2, <2>3
<1>2. \/ /\ req' = [req EXCEPT ![s] = [req[s] EXCEPT !.pc = "award", !.capsule = FALSE,
                                   !.due = Due(row[req[s].user], req[s].capsule)]]
         /\ faults' = faults
      \/ /\ req' = [req EXCEPT ![s] = [req[s] EXCEPT !.pc = "award", !.capsule = FALSE,
                                   !.due = Due(NoRow, req[s].capsule)]]
         /\ Fault
  BY DEF GetStreak
<1>3. req[s].pc = "stats"
  BY DEF GetStreak
<1>4. QED
  BY <1>1, <1>2, <1>3

(* Finite sets of zones and of unlocks have sizes. *)
LEMMA ZoneCounts ==
  ASSUME NEW A, A \subseteq Zones
  PROVE  IsFiniteSet(A) /\ Cardinality(A) \in Nat
  BY FiniteAssumption, FS_Subset, FS_CardinalityType

(* What the begin of RecordPost's statement leaves of its request. *)
LEMMA StatementRequest ==
  ASSUME TypeOK, ReqUsers, NEW s \in Sessions, BeginRecord(s)
  PROVE  /\ req' \in [Sessions -> Request]
         /\ \A t \in Sessions : t # s => req'[t] = req[t]
         /\ req'[s].pc = "upsert" /\ req'[s].user = req[s].user /\ req[s].user \in Users
         /\ req'[s].capsule = req[s].capsule /\ req'[s].due = req[s].due
         /\ req'[s].today = day /\ req'[s].zones = Cardinality(mine[req[s].user])
<1>1. req \in [Sessions -> Request] /\ req[s].user \in Users /\ day \in Nat
  BY BoundsAssumption DEF TypeOK, BeginRecord, ReqUsers
<1>2. Cardinality(mine[req[s].user]) \in Nat
  BY <1>1, ZoneCounts DEF TypeOK
<1>3. PICK q : q = [req[s] EXCEPT !.pc = "upsert", !.today = day, !.zones = Cardinality(mine[req[s].user])]
  OBVIOUS
<1>4. /\ q \in Request /\ q.pc = "upsert" /\ q.user = req[s].user /\ q.capsule = req[s].capsule
      /\ q.due = req[s].due /\ q.today = day /\ q.zones = Cardinality(mine[req[s].user])
  BY <1>1, <1>2, <1>3 DEF Request
<1>5. req' = [req EXCEPT ![s] = q]
  BY <1>1, <1>3 DEF BeginRecord
<1>6. QED
  BY <1>1, <1>4, <1>5

(* What RecordPost's statement does to the row of its user. *)
LEMMA RecordedRow ==
  ASSUME TypeOK, ReqUsers, NEW s \in Sessions, RecordPost(s), NEW u, u = req[s].user
  PROVE  /\ u \in Users /\ row' \in [Users -> Row]
         /\ \A v \in Users : v # u => row'[v] = row[v]
         /\ row'[u].streak = NextStreak(row[u], req[s].today) /\ row'[u].last = req[s].today
         /\ row'[u].best = IF row'[u].streak > row[u].best THEN row'[u].streak ELSE row[u].best
         /\ row'[u].posts = row[u].posts + 1 /\ row'[u].zones = req[s].zones
         /\ row'[u].unlocks = row[u].unlocks
<1>1. /\ req[s] \in Request /\ u \in Users /\ row \in [Users -> Row] /\ row[u] \in Row
  BY DEF TypeOK, RecordPost, ReqUsers
<1>2. PICK n : n = NextStreak(row[u], req[s].today)
  OBVIOUS
<1>3. n \in Nat
  BY <1>1, <1>2 DEF NextStreak, Row
<1>4. PICK r : r = [streak |-> n, best |-> IF n > row[u].best THEN n ELSE row[u].best,
                    last |-> req[s].today, posts |-> row[u].posts + 1, zones |-> req[s].zones,
                    unlocks |-> row[u].unlocks]
  OBVIOUS
<1>5. /\ r.streak = n /\ r.last = req[s].today /\ r.posts = row[u].posts + 1
      /\ r.best = IF n > row[u].best THEN n ELSE row[u].best
      /\ r.zones = req[s].zones /\ r.unlocks = row[u].unlocks
  BY <1>4
<1>6. r \in Row
  BY <1>1, <1>3, <1>4 DEF Row, Request
<1>7. row' = [row EXCEPT ![u] = r]
  BY <1>2, <1>4 DEF RecordPost
<1>8. QED
  BY <1>1, <1>2, <1>5, <1>6, <1>7

(* What RecordUnlock does to the row of its user. *)
LEMMA UnlockedRow ==
  ASSUME TypeOK, ReqUsers, NEW s \in Sessions, RecordUnlock(s), NEW u, u = req[s].user
  PROVE  /\ u \in Users /\ row' \in [Users -> Row]
         /\ \A v \in Users : v # u => row'[v] = row[v]
         /\ row'[u].streak = row[u].streak /\ row'[u].last = row[u].last
         /\ row'[u].best = row[u].best /\ row'[u].posts = row[u].posts
         /\ row'[u].zones = row[u].zones /\ row'[u].unlocks = row[u].unlocks + 1
<1>1. u \in Users /\ row \in [Users -> Row] /\ row[u] \in Row
  BY DEF TypeOK, RecordUnlock, ReqUsers
<1>2. PICK r : r = [row[u] EXCEPT !.unlocks = row[u].unlocks + 1]
  OBVIOUS
<1>3. /\ r \in Row /\ r.streak = row[u].streak /\ r.last = row[u].last /\ r.best = row[u].best
      /\ r.posts = row[u].posts /\ r.zones = row[u].zones /\ r.unlocks = row[u].unlocks + 1
  BY <1>1, <1>2 DEF Row
<1>4. row' = [row EXCEPT ![u] = r]
  BY <1>1, <1>2 DEF RecordUnlock
<1>5. QED
  BY <1>1, <1>3, <1>4

(* What an insert into messages does to the history of its user. *)
LEMMA InsertedPost ==
  ASSUME TypeOK, NEW u \in Users, NEW d \in Drafts, InsertPost(u, d)
  PROVE  /\ mine' \in [Users -> SUBSET Zones] /\ visited' \in [Users -> SUBSET Zones]
         /\ created' \in [Users -> Nat] /\ capsules' \subseteq Users /\ live' = live
         /\ \A v \in Users : /\ mine'[v] \subseteq mine[v] \union (visited'[v])
                             /\ visited[v] \subseteq visited'[v]
                             /\ created'[v] = IF v = u THEN created[v] + 1 ELSE created[v]
         /\ capsules \subseteq capsules' /\ (d.capsule => u \in capsules')
<1>1. d.zone \in Zones
  BY DraftsAssumption
<1>2. QED
  BY <1>1 DEF TypeOK, InsertPost

(* Every action keeps the value domains and the owner of a request. *)
LEMMA TypeStep == TypeOK /\ ReqUsers /\ [Next]_vars => TypeOK' /\ ReqUsers'
<1> SUFFICES ASSUME TypeOK, ReqUsers, [Next]_vars PROVE TypeOK' /\ ReqUsers'
  OBVIOUS
<1>0. req \in [Sessions -> Request] /\ faults \in 0 .. MaxFaults /\ begun \in 0 .. MaxRequests
  BY DEF TypeOK
<1>1. ASSUME NEW s \in Sessions, NEW u \in Users, NEW d \in Drafts, Create(s, u, d) PROVE TypeOK' /\ ReqUsers'
  <2>1. begun' \in 0 .. MaxRequests
    BY <1>0, <1>1, BoundsAssumption DEF Create, Begin
  <2>2. ReqUsers'
    BY <1>0, <1>1, BegunPost DEF ReqUsers
  <2>3. QED
    BY <1>0, <1>1, <2>1, <2>2, BegunPost, InsertedPost DEF Create, TypeOK
<1>2. ASSUME NEW s \in Sessions, NEW u \in Users, NEW d \in Drafts, CreateError(s, u, d) PROVE TypeOK' /\ ReqUsers'
  <2>1. begun' \in 0 .. MaxRequests /\ faults' \in 0 .. MaxFaults
    BY <1>0, <1>2, BoundsAssumption DEF CreateError, Begin, Fault
  <2>2. QED
    BY <1>2, <2>1, InsertedPost DEF CreateError, TypeOK, ReqUsers
<1>3. ASSUME NEW s \in Sessions, BeginRecord(s) PROVE TypeOK' /\ ReqUsers'
  <2>1. ReqUsers'
    BY <1>3, StatementRequest DEF ReqUsers
  <2>2. QED
    BY <1>3, <2>1, StatementRequest DEF BeginRecord, TypeOK
<1>4. ASSUME NEW s \in Sessions, RecordPost(s) PROVE TypeOK' /\ ReqUsers'
  <2>1. Recorded(s) /\ req[s].pc = "upsert" /\ req[s].user \in Users /\ req[s].today \in Nat
    BY <1>0, <1>4 DEF RecordPost, ReqUsers, Request
  <2>2. ReqUsers'
    BY <1>0, <2>1, RecordedRequest DEF ReqUsers
  <2>3. days' \in [Users -> SUBSET Nat] /\ overtaken' \subseteq Users
    BY <1>4, <2>1 DEF RecordPost, TypeOK
  <2>4. row' \in [Users -> Row] /\ req' \in [Sessions -> Request]
    BY <1>0, <1>4, <2>1, RecordedRow, RecordedRequest
  <2>5. QED
    BY <1>4, <2>2, <2>3, <2>4 DEF RecordPost, TypeOK
<1>5. ASSUME NEW s \in Sessions, RecordLost(s) PROVE TypeOK' /\ ReqUsers'
  <2>1. Recorded(s) /\ req[s].user \in Users
    BY <1>5 DEF RecordLost, ReqUsers
  <2>2. ReqUsers' /\ req' \in [Sessions -> Request]
    BY <1>0, <2>1, RecordedRequest DEF ReqUsers
  <2>3. faults' \in 0 .. MaxFaults
    BY <1>0, <1>5, BoundsAssumption DEF RecordLost, Fault
  <2>4. QED
    BY <1>5, <2>2, <2>3 DEF RecordLost, TypeOK
<1>6. ASSUME NEW s \in Sessions, NEW u \in Users, NEW m \in Mysteries, StartUnlock(s, u, m) PROVE TypeOK' /\ ReqUsers'
  <2>1. begun' \in 0 .. MaxRequests
    BY <1>0, <1>6, BoundsAssumption DEF StartUnlock, Begin
  <2>a. /\ req' \in [Sessions -> Request] /\ req'[s].user = u
        /\ \A t \in Sessions : t # s => req'[t] = req[t]
    BY <1>0, <1>6, BegunUnlock
  <2>2. ReqUsers' /\ req' \in [Sessions -> Request]
    BY <2>a DEF ReqUsers
  <2>3. QED
    BY <1>6, <2>1, <2>2 DEF StartUnlock, TypeOK
<1>7. ASSUME NEW s \in Sessions, UnlockMystery(s) PROVE TypeOK' /\ ReqUsers'
  <2>1. req[s].user \in Users
    BY <1>7 DEF UnlockMystery, ReqUsers
  <2>2. CASE End(s) /\ UNCHANGED unlockVars
    <3>1. ReqUsers' /\ req' \in [Sessions -> Request]
      BY <1>0, <2>2, EndedRequest, IdleRequest DEF ReqUsers
    <3>2. QED
      BY <1>7, <2>2, <3>1 DEF UnlockMystery, TypeOK
  <2>3. CASE ~(End(s) /\ UNCHANGED unlockVars)
    <3>1. /\ req[s].target \in live
          /\ unlocks' = unlocks \union {<<req[s].target, req[s].user>>}
          /\ granted' = granted \union {<<req[s].target, req[s].user>>}
          /\ unlocksCount' = [unlocksCount EXCEPT ![req[s].target] = unlocksCount[req[s].target] + 1]
          /\ req' = [req EXCEPT ![s].pc = "recordUnlock"]
      BY <1>7, <2>3 DEF UnlockMystery, Goto
    <3>2. ReqUsers' /\ req' \in [Sessions -> Request]
      BY <1>0, <2>1, <3>1 DEF ReqUsers, Request
    <3>3. /\ unlocks' \subseteq Mysteries \X Users /\ granted' \subseteq Mysteries \X Users
          /\ unlocksCount' \in [Mysteries -> Nat]
      BY <2>1, <3>1 DEF TypeOK
    <3>4. QED
      BY <1>7, <3>2, <3>3 DEF UnlockMystery, TypeOK
  <2>4. QED BY <2>2, <2>3
<1>8. ASSUME NEW s \in Sessions, RecordUnlock(s) PROVE TypeOK' /\ ReqUsers'
  <2>1. Recorded(s) /\ req[s].user \in Users
    BY <1>8 DEF RecordUnlock, ReqUsers
  <2>2. ReqUsers' /\ req' \in [Sessions -> Request]
    BY <1>0, <2>1, RecordedRequest DEF ReqUsers
  <2>3. row' \in [Users -> Row]
    BY <1>8, <2>1, UnlockedRow
  <2>4. QED
    BY <1>8, <2>2, <2>3 DEF RecordUnlock, TypeOK
<1>9. ASSUME NEW s \in Sessions, GetStreak(s) PROVE TypeOK' /\ ReqUsers'
  <2>1. ReqUsers' /\ req' \in [Sessions -> Request]
    BY <1>0, <1>9, LookedRequest DEF ReqUsers
  <2>2. faults' \in 0 .. MaxFaults
    BY <1>0, <1>9, BoundsAssumption DEF GetStreak, Fault
  <2>3. QED
    BY <1>9, <2>1, <2>2 DEF GetStreak, TypeOK
<1>10. ASSUME NEW s \in Sessions, AwardBadges(s) PROVE TypeOK' /\ ReqUsers'
  <2>1. End(s) /\ req[s].user \in Users /\ req[s].due \subseteq Badges
    BY <1>0, <1>10 DEF AwardBadges, ReqUsers, Request
  <2>2. ReqUsers' /\ req' \in [Sessions -> Request]
    BY <1>0, <2>1, EndedRequest, IdleRequest DEF ReqUsers
  <2>3. faults' \in 0 .. MaxFaults
    BY <1>0, <1>10, BoundsAssumption DEF AwardBadges, Fault
  <2>4. \E D \in SUBSET req[s].due : badges' = badges \union ({req[s].user} \X D)
    BY <1>10 DEF AwardBadges
  <2>5. badges' \subseteq Users \X Badges
    BY <2>1, <2>4 DEF TypeOK
  <2>6. QED
    BY <1>10, <2>2, <2>3, <2>5 DEF AwardBadges, TypeOK
<1>11. ASSUME NEW u \in Users, NEW z \in Zones, DeletePost(u, z) PROVE TypeOK' /\ ReqUsers'
  BY <1>11 DEF DeletePost, TypeOK, ReqUsers
<1>12. ASSUME NEW m \in Mysteries, DeleteMystery(m) PROVE TypeOK' /\ ReqUsers'
  BY <1>12 DEF DeleteMystery, TypeOK, ReqUsers
<1>13. ASSUME Midnight PROVE TypeOK' /\ ReqUsers'
  BY <1>13, BoundsAssumption DEF Midnight, TypeOK, ReqUsers
<1>14. ASSUME Restart PROVE TypeOK' /\ ReqUsers'
  <2>1. faults' \in 0 .. MaxFaults
    BY <1>0, <1>14, BoundsAssumption DEF Restart, Fault
  <2>2. QED
    BY <1>14, <2>1, IdleRequest DEF Restart, TypeOK, ReqUsers
<1>15. CASE UNCHANGED vars
  BY <1>15 DEF TypeOK, ReqUsers
<1>16. QED
  BY <1>1, <1>2, <1>3, <1>4, <1>5, <1>6, <1>7, <1>8, <1>9, <1>10, <1>11, <1>12, <1>13, <1>14, <1>15
     DEF Next, Post, Unlock

(* What the migration leaves: a count of the posts there are, and nothing else. *)
LEMMA InitialRows ==
  ASSUME Init, NEW u \in Users
  PROVE  /\ row[u] \in Row /\ created[u] \in Nat /\ mine[u] \subseteq Zones /\ visited[u] = mine[u]
         /\ row[u].posts = created[u] /\ row[u].unlocks = 0 /\ row[u].zones = 0
         /\ row[u].last = NoDay /\ row[u].streak = 0 /\ row[u].best = 0 /\ days[u] = {}
<1>1. PICK old \in [Users -> Legacy] :
        /\ row = [v \in Users |-> Migrated(old[v])]
        /\ created = [v \in Users |-> old[v].posts] /\ mine = [v \in Users |-> old[v].zones]
  BY DEF Init
<1>2. old[u].posts \in Nat /\ old[u].zones \subseteq Zones
  BY LegacyAssumption
<1>3. row[u] = [NoRow EXCEPT !.posts = old[u].posts]
  BY <1>1 DEF Migrated
<1>4. visited = mine /\ days[u] = {}
  BY DEF Init
<1>5. QED
  BY <1>1, <1>2, <1>3, <1>4 DEF NoRow, Row

(* The types, and that every request has a user, hold in every behaviour. *)
LEMMA TypeAlways == Spec => []TypeOK /\ []ReqUsers
<1>1. Init => TypeOK /\ ReqUsers
  <2> SUFFICES ASSUME Init PROVE TypeOK /\ ReqUsers
    OBVIOUS
  <2>1. /\ row = [u \in Users |-> row[u]] /\ created = [u \in Users |-> created[u]]
        /\ mine = [u \in Users |-> mine[u]] /\ visited = mine
    BY DEF Init
  <2>2. /\ row \in [Users -> Row] /\ created \in [Users -> Nat]
        /\ mine \in [Users -> SUBSET Zones] /\ visited \in [Users -> SUBSET Zones]
    BY <2>1, InitialRows
  <2>3. QED
    BY <2>2, IdleRequest, BoundsAssumption DEF Init, TypeOK, ReqUsers
<1>2. QED
  BY <1>1, TypeStep, PTL DEF Spec

(* The value domains of streaks, badges, unlocks and requests. *)
THEOREM GamificationTypeCorrect == Spec => []TypeOK
  BY TypeAlways, PTL
-----------------------------------------------------------------------------
(***************************************************************************)
(* Streaks.  A row has a last day exactly when it has a streak; a statement *)
(* of RecordPost that has begun has a day; and as long as no statement was  *)
(* overtaken, the last day is the latest of all that were recorded.         *)
(***************************************************************************)
TodayInv == \A s \in Sessions : req[s].pc = "upsert" => req[s].today \in 1 .. MaxDay

LastInv ==
  \A u \in Users : \/ row[u].last = NoDay /\ row[u].streak = 0
                   \/ row[u].last \in 1 .. MaxDay /\ row[u].streak >= 1

LatestInv == \A u \in Users \ overtaken : \A d \in days[u] : d <= row[u].last

StreakInv == TodayInv /\ LastInv /\ LatestInv /\ StreakIsReal /\ StreakIsKept

(* Only BeginRecord gives a statement its day. *)
LEMMA TodayStep == TypeOK /\ ReqUsers /\ TodayInv /\ [Next]_vars => TodayInv'
<1> SUFFICES ASSUME TypeOK, ReqUsers, TodayInv, [Next]_vars PROVE TodayInv'
  OBVIOUS
<1>0. req \in [Sessions -> Request] /\ day \in 1 .. MaxDay
  BY DEF TypeOK
<1>1. ASSUME NEW s \in Sessions, \A t \in Sessions : t # s => req'[t] = req[t],
             req'[s].pc # "upsert" \/ req'[s].today \in 1 .. MaxDay
      PROVE  TodayInv'
  BY <1>1 DEF TodayInv
<1>2. ASSUME req' = req PROVE TodayInv'
  BY <1>2 DEF TodayInv
<1>3. ASSUME NEW s \in Sessions, Post(s) PROVE TodayInv'
  <2>1. ASSUME NEW u \in Users, NEW d \in Drafts, Create(s, u, d) PROVE TodayInv'
    BY <1>0, <1>1, <2>1, BegunPost
  <2>2. ASSUME NEW u \in Users, NEW d \in Drafts, CreateError(s, u, d) PROVE TodayInv'
    BY <1>2, <2>2 DEF CreateError
  <2>3. CASE BeginRecord(s)
    BY <1>0, <1>1, <2>3, StatementRequest
  <2>4. CASE RecordPost(s) \/ RecordLost(s)
    <3>1. Recorded(s)
      BY <2>4 DEF RecordPost, RecordLost
    <3>2. QED BY <1>0, <1>1, <3>1, RecordedRequest
  <2>5. QED BY <1>3, <2>1, <2>2, <2>3, <2>4 DEF Post
<1>4. ASSUME NEW s \in Sessions, Unlock(s) PROVE TodayInv'
  <2>1. ASSUME NEW u \in Users, NEW m \in Mysteries, StartUnlock(s, u, m) PROVE TodayInv'
    BY <1>0, <1>1, <2>1, BegunUnlock
  <2>2. CASE UnlockMystery(s)
    <3>1. End(s) \/ req' = [req EXCEPT ![s].pc = "recordUnlock"]
      BY <2>2 DEF UnlockMystery, Goto
    <3>2. CASE End(s)
      BY <1>0, <1>1, <3>2, EndedRequest, IdleRequest
    <3>3. CASE req' = [req EXCEPT ![s].pc = "recordUnlock"]
      <4>1. req'[s].pc = "recordUnlock" /\ \A t \in Sessions : t # s => req'[t] = req[t]
        BY <1>0, <3>3 DEF Request
      <4>2. QED BY <1>1, <4>1
    <3>4. QED BY <3>1, <3>2, <3>3
  <2>3. CASE RecordUnlock(s)
    <3>1. Recorded(s)
      BY <2>3 DEF RecordUnlock
    <3>2. QED BY <1>0, <1>1, <3>1, RecordedRequest
  <2>4. QED BY <1>4, <2>1, <2>2, <2>3 DEF Unlock
<1>5. ASSUME NEW s \in Sessions, GetStreak(s) PROVE TodayInv'
  BY <1>0, <1>1, <1>5, LookedRequest
<1>6. ASSUME NEW s \in Sessions, AwardBadges(s) PROVE TodayInv'
  <2>1. End(s)
    BY <1>6 DEF AwardBadges
  <2>2. QED BY <1>0, <1>1, <2>1, EndedRequest, IdleRequest
<1>7. CASE Restart
  BY <1>7, IdleRequest DEF Restart, TodayInv
<1>8. CASE Midnight \/ UNCHANGED vars \/ (\E u \in Users, z \in Zones : DeletePost(u, z))
           \/ (\E m \in Mysteries : DeleteMystery(m))
  BY <1>2, <1>8 DEF Midnight, DeletePost, DeleteMystery
<1>9. QED
  BY <1>3, <1>4, <1>5, <1>6, <1>7, <1>8 DEF Next

(* The statements that write user_streaks; no other step touches it. *)
LEMMA RowActions ==
  ASSUME [Next]_vars
  PROVE  \/ UNCHANGED <<row, days, overtaken>>
         \/ \E s \in Sessions : RecordPost(s) \/ RecordUnlock(s)
  BY ZenonT(30) DEF Next, Post, Unlock, Create, CreateError, BeginRecord, RecordLost, StartUnlock, UnlockMystery,
     GetStreak, AwardBadges, DeletePost, DeleteMystery, Midnight, Restart

(* The streak of a row and its best streak stay runs of recorded days. *)
LEMMA RunStep ==
  ASSUME NEW D \in SUBSET Nat, NEW last \in Nat \union {NoDay}, NEW streak \in Nat, NEW best \in Nat,
         NEW today \in 1 .. MaxDay, NEW n,
         n = (IF last = today THEN streak ELSE IF last = today - 1 THEN streak + 1 ELSE 1),
         (last - streak + 1) .. last \subseteq D
  PROVE  (today - n + 1) .. today \subseteq D \union {today}
<1>0. last \in Int /\ today \in Nat
  BY BoundsAssumption DEF NoDay
<1>1. CASE last = today
  BY <1>0, <1>1
<1>2. CASE last = today - 1
  <2>1. n = streak + 1
    BY <1>0, <1>2
  <2>2. \A x \in (today - n + 1) .. today : x = today \/ x \in (last - streak + 1) .. last
    BY <1>0, <1>2, <2>1
  <2>3. QED BY <2>2
<1>3. CASE last # today /\ last # today - 1
  BY <1>0, <1>3
<1>4. QED BY <1>1, <1>2, <1>3

(* RecordPost extends, keeps or restarts a streak of recorded days. *)
LEMMA StreakStep == TypeOK /\ ReqUsers /\ StreakInv /\ [Next]_vars => StreakInv'
<1> SUFFICES ASSUME TypeOK, ReqUsers, StreakInv, [Next]_vars PROVE StreakInv'
  OBVIOUS
<1>0. TodayInv'
  BY TodayStep DEF StreakInv
<1>1. CASE UNCHANGED <<row, days, overtaken>>
  BY <1>0, <1>1 DEF StreakInv, LastInv, LatestInv, StreakIsReal, StreakIsKept
<1>2. ASSUME NEW s \in Sessions, RecordUnlock(s) PROVE StreakInv'
  <2>1. UNCHANGED <<days, overtaken>>
    BY <1>2 DEF RecordUnlock
  <2>2. \A v \in Users : row'[v].streak = row[v].streak /\ row'[v].last = row[v].last /\ row'[v].best = row[v].best
    BY <1>2, UnlockedRow
  <2>3. QED
    BY <1>0, <2>1, <2>2 DEF StreakInv, LastInv, LatestInv, StreakIsReal, StreakIsKept
<1>3. ASSUME NEW s \in Sessions, RecordPost(s) PROVE StreakInv'
  <2>1. PICK u : u = req[s].user
    OBVIOUS
  <2>2. PICK today : today = req[s].today
    OBVIOUS
  <2>3. today \in 1 .. MaxDay /\ u \in Users /\ row[u] \in Row /\ days[u] \in SUBSET Nat /\ today \in Nat
    BY <1>3, <2>1, <2>2, BoundsAssumption DEF RecordPost, StreakInv, TodayInv, ReqUsers, TypeOK
  <2>4. PICK n : n = row'[u].streak
    OBVIOUS
  <2>5. /\ n = NextStreak(row[u], today) /\ row'[u].last = today
        /\ row'[u].best = IF n > row[u].best THEN n ELSE row[u].best
        /\ \A v \in Users : v # u => row'[v] = row[v]
    BY <1>3, <2>1, <2>2, <2>4, RecordedRow
  <2>6. /\ days'[u] = days[u] \union {today} /\ \A v \in Users : v # u => days'[v] = days[v]
        /\ overtaken' = IF row[u].last > today THEN overtaken \union {u} ELSE overtaken
    BY <1>3, <2>1, <2>2, <2>3 DEF RecordPost, TypeOK
  <2>7. /\ row[u].last \in Nat \union {NoDay} /\ row[u].streak \in Nat /\ row[u].best \in Nat
        /\ row[u].last \in Int
    BY <2>3 DEF Row, NoDay
  <2>8. n = (IF row[u].last = today THEN row[u].streak ELSE IF row[u].last = today - 1 THEN row[u].streak + 1 ELSE 1)
    <3>1. CASE row[u].last = today
      BY <2>3, <2>5, <2>7, <3>1 DEF NextStreak
    <3>2. CASE row[u].last = today - 1
      BY <2>3, <2>5, <2>7, <3>2 DEF NextStreak
    <3>3. CASE row[u].last # today /\ row[u].last # today - 1
      BY <2>5, <3>3 DEF NextStreak
    <3>4. QED BY <3>1, <3>2, <3>3
  <2>9. /\ (row[u].last - row[u].streak + 1) .. row[u].last \subseteq days[u]
        /\ row[u].streak <= row[u].best
        /\ \E d \in 0 .. MaxDay : (d - row[u].best + 1) .. d \subseteq days[u]
        /\ \/ row[u].last = NoDay /\ row[u].streak = 0
           \/ row[u].last \in 1 .. MaxDay /\ row[u].streak >= 1
    BY <2>3 DEF StreakInv, StreakIsReal, LastInv
  <2>10. n >= 1 /\ n \in Nat
    BY <2>3, <2>7, <2>8, <2>9 DEF NoDay
  <2>11. LastInv'
    BY <2>3, <2>4, <2>5, <2>10 DEF StreakInv, LastInv
  <2>12. (today - n + 1) .. today \subseteq days'[u]
    BY <2>3, <2>6, <2>7, <2>8, <2>9, RunStep
  <2>13. \E d \in 0 .. MaxDay : (d - row'[u].best + 1) .. d \subseteq days'[u]
    <3>1. CASE n > row[u].best
      <4>1. row'[u].best = n /\ today \in 0 .. MaxDay
        BY <2>3, <2>5, <3>1, BoundsAssumption
      <4>2. QED BY <2>12, <4>1
    <3>2. CASE ~(n > row[u].best)
      BY <2>5, <2>6, <2>9, <3>2
    <3>3. QED BY <3>1, <3>2
  <2>14. n <= row'[u].best
    BY <2>5, <2>7, <2>10
  <2>15. StreakIsReal'
    <3>1. ASSUME NEW v \in Users
          PROVE  /\ (row'[v].last - row'[v].streak + 1) .. row'[v].last \subseteq days'[v]
                 /\ row'[v].streak <= row'[v].best
                 /\ \E d \in 0 .. MaxDay : (d - row'[v].best + 1) .. d \subseteq days'[v]
      <4>1. CASE v = u
        BY <2>4, <2>5, <2>12, <2>13, <2>14, <4>1
      <4>2. CASE v # u
        BY <2>5, <2>6, <4>2 DEF StreakInv, StreakIsReal
      <4>3. QED BY <4>1, <4>2
    <3>2. QED BY <3>1 DEF StreakIsReal
  <2>16. ASSUME u \notin overtaken'
         PROVE  /\ \A d \in days'[u] : d <= today
                /\ today - n \notin days'[u]
    <3>1. ~(row[u].last > today) /\ u \notin overtaken
      BY <2>6, <2>16
    <3>2. \A d \in days[u] : d \in Nat /\ d <= row[u].last
      BY <2>3, <3>1 DEF StreakInv, LatestInv
    <3>3. \A d \in days'[u] : d <= today
      BY <2>3, <2>6, <2>7, <3>1, <3>2
    <3>4. today - n # today
      BY <2>3, <2>10
    <3>5. today - n \notin days[u]
      <4>1. CASE row[u].last = today
        <5>1. row[u].last # NoDay /\ n = row[u].streak
          BY <2>3, <2>8, <4>1 DEF NoDay
        <5>2. row[u].last - row[u].streak \notin days[u]
          BY <2>3, <3>1, <5>1 DEF StreakInv, StreakIsKept
        <5>3. QED BY <4>1, <5>1, <5>2
      <4>2. CASE row[u].last = today - 1 /\ row[u].last # today
        <5>1. n = row[u].streak + 1
          BY <2>8, <4>2
        <5>2. CASE row[u].last = NoDay
          BY <3>2, <5>2 DEF NoDay
        <5>3. CASE row[u].last # NoDay
          <6>1. row[u].last - row[u].streak \notin days[u]
            BY <2>3, <3>1, <5>3 DEF StreakInv, StreakIsKept
          <6>2. today - n = row[u].last - row[u].streak
            BY <2>3, <2>7, <4>2, <5>1
          <6>3. QED BY <6>1, <6>2
        <5>4. QED BY <5>2, <5>3
      <4>3. CASE row[u].last # today - 1 /\ row[u].last # today
        <5>1. n = 1 /\ row[u].last < today - 1
          BY <2>3, <2>7, <2>8, <3>1, <4>3
        <5>2. QED BY <2>3, <2>7, <3>2, <5>1
      <4>4. QED BY <4>1, <4>2, <4>3
    <3>6. QED BY <2>6, <3>3, <3>4, <3>5
  <2>17. overtaken \subseteq overtaken'
    BY <2>6
  <2>18. LatestInv'
    BY <2>5, <2>6, <2>16, <2>17 DEF StreakInv, LatestInv
  <2>19. StreakIsKept'
    <3>1. ASSUME NEW v \in Users \ overtaken', row'[v].last # NoDay
          PROVE  row'[v].last - row'[v].streak \notin days'[v]
      <4>1. CASE v = u
        BY <2>4, <2>5, <2>16, <4>1
      <4>2. CASE v # u
        BY <2>5, <2>6, <2>17, <3>1, <4>2 DEF StreakInv, StreakIsKept
      <4>3. QED BY <4>1, <4>2
    <3>2. QED BY <3>1 DEF StreakIsKept
  <2>20. QED
    BY <1>0, <2>11, <2>15, <2>18, <2>19 DEF StreakInv
<1>4. QED
  BY <1>1, <1>2, <1>3, RowActions

(* The streak invariant holds in every behaviour. *)
LEMMA StreakAlways == Spec => []StreakInv
<1>1. Init => StreakInv
  <2> SUFFICES ASSUME Init PROVE StreakInv
    OBVIOUS
  <2>1. \A u \in Users : row[u].last = -1 /\ row[u].streak = 0 /\ row[u].best = 0 /\ days[u] = {}
    BY InitialRows DEF NoDay
  <2>2. (-1 - 0 + 1) .. -1 = {} /\ (0 - 0 + 1) .. 0 = {} /\ 0 \in 0 .. MaxDay
    BY BoundsAssumption
  <2>3. StreakIsReal
    BY <2>1, <2>2 DEF StreakIsReal
  <2>4. TodayInv /\ LastInv /\ LatestInv /\ StreakIsKept
    BY <2>1, IdleRequest DEF Init, TodayInv, LastInv, LatestInv, StreakIsKept, NoDay
  <2>5. QED BY <2>3, <2>4 DEF StreakInv
<1>2. QED
  BY <1>1, StreakStep, TypeAlways, PTL DEF Spec

(* A streak of n is n days in a row on which a post was recorded, however the    *)
(* statements straddle midnight, for any number of days and requests.            *)
THEOREM StreaksAreReal == Spec => []StreakIsReal
<1>1. StreakInv => StreakIsReal
  BY DEF StreakInv
<1>2. QED BY <1>1, StreakAlways, PTL

(* A streak is never cut short unless a statement of an earlier day was recorded *)
(* after one of a later day.                                                     *)
THEOREM StreaksAreKept == Spec => []StreakIsKept
<1>1. StreakInv => StreakIsKept
  BY DEF StreakInv
<1>2. QED BY <1>1, StreakAlways, PTL
-----------------------------------------------------------------------------
(***************************************************************************)
(* Counts.  What a row says plus what requests still have to record is      *)
(* never more than what happened, and exactly that while nothing failed;    *)
(* a grant whose mystery exists still has its row, so it is not made twice. *)
(***************************************************************************)
Posting(u)   == {s \in Sessions : req[s].pc \in {"record", "upsert"} /\ req[s].user = u}
Unlocking(u) == {s \in Sessions : req[s].pc = "recordUnlock" /\ req[s].user = u}
Granted(u)   == {p \in granted : p[2] = u}

GrantInv ==
  /\ \A p \in granted : p[1] \in live => p \in unlocks
  /\ \A u \in Users : IsFiniteSet(Granted(u))

TallyInv ==
  \A u \in Users :
    /\ row[u].posts + Cardinality(Posting(u)) <= created[u]
    /\ row[u].unlocks + Cardinality(Unlocking(u)) <= Cardinality(Granted(u))
    /\ faults = 0 => /\ row[u].posts + Cardinality(Posting(u)) = created[u]
                     /\ row[u].unlocks + Cardinality(Unlocking(u)) = Cardinality(Granted(u))

\* Whether a request has a post, or an unlock, of a user still to record.
InPost(s, u)   == IF req[s].pc \in {"record", "upsert"} /\ req[s].user = u THEN 1 ELSE 0
InUnlock(s, u) == IF req[s].pc = "recordUnlock" /\ req[s].user = u THEN 1 ELSE 0

(* A set of sessions that changes by one member at most. *)
LEMMA OneMember ==
  ASSUME NEW P \in SUBSET Sessions, NEW Q \in SUBSET Sessions, NEW s \in Sessions,
         \A t \in Sessions : t # s => (t \in P <=> t \in Q)
  PROVE  /\ Cardinality(P) \in Nat /\ Cardinality(Q) \in Nat
         /\ Cardinality(Q) = Cardinality(P) + (IF s \in Q THEN 1 ELSE 0) - (IF s \in P THEN 1 ELSE 0)
<1>1. IsFiniteSet(P) /\ IsFiniteSet(Q)
  BY FiniteAssumption, FS_Subset
<1>2. Cardinality(P) \in Nat /\ Cardinality(Q) \in Nat
  BY <1>1, FS_CardinalityType
<1>3. CASE s \in Q /\ s \notin P
  <2>1. Q = P \union {s}
    BY <1>3
  <2>2. QED BY <1>1, <1>2, <1>3, <2>1, FS_AddElement
<1>4. CASE s \notin Q /\ s \in P
  <2>1. Q = P \ {s}
    BY <1>4
  <2>2. QED BY <1>1, <1>2, <1>4, <2>1, FS_RemoveElement
<1>5. CASE s \in Q <=> s \in P
  <2>1. Q = P
    BY <1>5
  <2>2. QED BY <1>2, <1>5, <2>1
<1>6. QED BY <1>3, <1>4, <1>5

(* A step of one session changes what is still to be recorded by that session's share. *)
LEMMA StillToRecord ==
  ASSUME NEW s \in Sessions, \A t \in Sessions : t # s => req'[t] = req[t], NEW u
  PROVE  /\ Cardinality(Posting(u)) \in Nat /\ Cardinality(Posting(u)') \in Nat
         /\ Cardinality(Unlocking(u)) \in Nat /\ Cardinality(Unlocking(u)') \in Nat
         /\ Cardinality(Posting(u)') = Cardinality(Posting(u)) + InPost(s, u)' - InPost(s, u)
         /\ Cardinality(Unlocking(u)') = Cardinality(Unlocking(u)) + InUnlock(s, u)' - InUnlock(s, u)
<1>1. PICK P, Q : P = Posting(u) /\ Q = Posting(u)'
  OBVIOUS
<1>2. PICK V, W : V = Unlocking(u) /\ W = Unlocking(u)'
  OBVIOUS
<1>3. /\ P \in SUBSET Sessions /\ Q \in SUBSET Sessions /\ V \in SUBSET Sessions /\ W \in SUBSET Sessions
      /\ \A t \in Sessions : t # s => (t \in P <=> t \in Q) /\ (t \in V <=> t \in W)
  BY <1>1, <1>2 DEF Posting, Unlocking
<1>4. /\ InPost(s, u) = (IF s \in P THEN 1 ELSE 0) /\ InPost(s, u)' = (IF s \in Q THEN 1 ELSE 0)
      /\ InUnlock(s, u) = (IF s \in V THEN 1 ELSE 0) /\ InUnlock(s, u)' = (IF s \in W THEN 1 ELSE 0)
  BY <1>1, <1>2 DEF Posting, Unlocking, InPost, InUnlock
<1>5. /\ Cardinality(P) \in Nat /\ Cardinality(Q) \in Nat
      /\ Cardinality(Q) = Cardinality(P) + (IF s \in Q THEN 1 ELSE 0) - (IF s \in P THEN 1 ELSE 0)
  BY <1>3, OneMember
<1>6. /\ Cardinality(V) \in Nat /\ Cardinality(W) \in Nat
      /\ Cardinality(W) = Cardinality(V) + (IF s \in W THEN 1 ELSE 0) - (IF s \in V THEN 1 ELSE 0)
  BY <1>3, OneMember
<1>7. QED BY <1>1, <1>2, <1>4, <1>5, <1>6

(* A step of one session that gives and takes as much on both sides of a tally, or, *)
(* when it is a fault, takes at most as much, keeps the tallies.                    *)
LEMMA Balanced ==
  ASSUME TypeOK, TypeOK', GrantInv, TallyInv, NEW s \in Sessions, \A t \in Sessions : t # s => req'[t] = req[t],
         \A u \in Users :
           /\ IsFiniteSet(Granted(u)')
           /\ row'[u].posts - row[u].posts + InPost(s, u)' - InPost(s, u) <= created'[u] - created[u]
           /\ row'[u].unlocks - row[u].unlocks + InUnlock(s, u)' - InUnlock(s, u)
                <= Cardinality(Granted(u)') - Cardinality(Granted(u)),
         faults' = 0 => faults = 0 /\
           \A u \in Users :
             /\ row'[u].posts - row[u].posts + InPost(s, u)' - InPost(s, u) = created'[u] - created[u]
             /\ row'[u].unlocks - row[u].unlocks + InUnlock(s, u)' - InUnlock(s, u)
                  = Cardinality(Granted(u)') - Cardinality(Granted(u))
  PROVE  TallyInv'
<1> SUFFICES ASSUME NEW u \in Users
             PROVE  /\ row'[u].posts + Cardinality(Posting(u)') <= created'[u]
                    /\ row'[u].unlocks + Cardinality(Unlocking(u)') <= Cardinality(Granted(u)')
                    /\ faults' = 0 => /\ row'[u].posts + Cardinality(Posting(u)') = created'[u]
                                      /\ row'[u].unlocks + Cardinality(Unlocking(u)') = Cardinality(Granted(u)')
  BY DEF TallyInv
<1>1. PICK p0, p1, c0, c1, v0, v1, g0, g1, i0, i1, j0, j1 :
        /\ p0 = row[u].posts /\ p1 = row'[u].posts /\ c0 = created[u] /\ c1 = created'[u]
        /\ v0 = row[u].unlocks /\ v1 = row'[u].unlocks
        /\ g0 = Cardinality(Granted(u)) /\ g1 = Cardinality(Granted(u)')
        /\ i0 = InPost(s, u) /\ i1 = InPost(s, u)' /\ j0 = InUnlock(s, u) /\ j1 = InUnlock(s, u)'
  OBVIOUS
<1>2. PICK x0, x1, y0, y1 : /\ x0 = Cardinality(Posting(u)) /\ x1 = Cardinality(Posting(u)')
                            /\ y0 = Cardinality(Unlocking(u)) /\ y1 = Cardinality(Unlocking(u)')
  OBVIOUS
<1>3. row[u] \in Row /\ row'[u] \in Row /\ created[u] \in Nat /\ created'[u] \in Nat
  BY DEF TypeOK
<1>4. p0 \in Nat /\ p1 \in Nat /\ v0 \in Nat /\ v1 \in Nat /\ c0 \in Nat /\ c1 \in Nat
  BY <1>1, <1>3 DEF Row
<1>5. g0 \in Nat /\ g1 \in Nat
  BY <1>1, FS_CardinalityType DEF GrantInv
<1>6. i0 \in {0, 1} /\ i1 \in {0, 1} /\ j0 \in {0, 1} /\ j1 \in {0, 1}
  BY <1>1 DEF InPost, InUnlock
<1>7. /\ x0 \in Nat /\ x1 \in Nat /\ y0 \in Nat /\ y1 \in Nat
      /\ x1 = x0 + i1 - i0 /\ y1 = y0 + j1 - j0
  BY <1>1, <1>2, StillToRecord
<1>8. p0 + x0 <= c0 /\ v0 + y0 <= g0 /\ (faults = 0 => p0 + x0 = c0 /\ v0 + y0 = g0)
  BY <1>1, <1>2 DEF TallyInv
<1>9. /\ p1 - p0 + i1 - i0 <= c1 - c0 /\ v1 - v0 + j1 - j0 <= g1 - g0
      /\ faults' = 0 => faults = 0 /\ p1 - p0 + i1 - i0 = c1 - c0 /\ v1 - v0 + j1 - j0 = g1 - g0
  BY <1>1
<1>10. /\ p1 + x1 <= c1 /\ v1 + y1 <= g1 /\ (faults' = 0 => p1 + x1 = c1 /\ v1 + y1 = g1)
  BY <1>4, <1>5, <1>6, <1>7, <1>8, <1>9
<1>11. QED
  BY <1>1, <1>2, <1>10

(* A grant is made when its row is not there and the mystery is, so it is new. *)
LEMMA NewGrant ==
  ASSUME GrantInv, NEW p, p[1] \in live, p \notin unlocks, NEW u \in Users,
         granted' = granted \union {p}
  PROVE  /\ IsFiniteSet(Granted(u)')
         /\ Cardinality(Granted(u)') = Cardinality(Granted(u)) + (IF p[2] = u THEN 1 ELSE 0)
<1>1. p \notin granted /\ IsFiniteSet(Granted(u))
  BY DEF GrantInv
<1>2. CASE p[2] = u
  <2>1. Granted(u)' = Granted(u) \union {p} /\ p \notin Granted(u)
    BY <1>1, <1>2 DEF Granted
  <2>2. QED BY <1>1, <1>2, <2>1, FS_AddElement
<1>3. CASE p[2] # u
  <2>1. Granted(u)' = Granted(u) /\ Cardinality(Granted(u)) \in Nat
    BY <1>1, <1>3, FS_CardinalityType DEF Granted
  <2>2. QED BY <1>1, <1>3, <2>1
<1>4. QED BY <1>2, <1>3

(* The steps that touch unlocks, grants or mysteries. *)
LEMMA GrantActions ==
  ASSUME [Next]_vars
  PROVE  \/ UNCHANGED <<unlocks, granted, live>>
         \/ \E s \in Sessions : UnlockMystery(s)
         \/ \E m \in Mysteries : DeleteMystery(m)
<1>1. ASSUME NEW s \in Sessions, Post(s) PROVE UNCHANGED <<unlocks, granted, live>>
  BY <1>1 DEF Post, Create, CreateError, InsertPost, BeginRecord, RecordPost, RecordLost
<1>2. ASSUME NEW s \in Sessions, Unlock(s) PROVE UNCHANGED <<unlocks, granted, live>> \/ UnlockMystery(s)
  BY <1>2 DEF Unlock, StartUnlock, RecordUnlock
<1>3. QED
  BY <1>1, <1>2 DEF Next, GetStreak, AwardBadges, DeletePost, Midnight, Restart

(* Grants stay finite and, while their mystery lives, backed by a row. *)
LEMMA GrantStep == TypeOK /\ ReqUsers /\ GrantInv /\ [Next]_vars => GrantInv'
<1> SUFFICES ASSUME TypeOK, ReqUsers, GrantInv, [Next]_vars PROVE GrantInv'
  OBVIOUS
<1>1. CASE UNCHANGED <<unlocks, granted, live>>
  BY <1>1 DEF GrantInv, Granted
<1>2. ASSUME NEW s \in Sessions, UnlockMystery(s) PROVE GrantInv'
  <2>0. live' = live
    BY <1>2 DEF UnlockMystery
  <2>1. CASE UNCHANGED unlockVars
    BY <2>0, <2>1 DEF GrantInv, Granted
  <2>2. CASE ~UNCHANGED unlockVars
    <3>1. PICK p \in Mysteries \X Users :
            /\ p[1] \in live /\ p \notin unlocks
            /\ unlocks' = unlocks \union {p} /\ granted' = granted \union {p}
      BY <1>2, <2>2, UnlockedRequest
    <3>2. \A u \in Users : IsFiniteSet(Granted(u)')
      BY <3>1, NewGrant
    <3>3. \A q \in granted' : q[1] \in live' => q \in unlocks'
      BY <2>0, <3>1 DEF GrantInv
    <3>4. QED BY <3>2, <3>3 DEF GrantInv
  <2>3. QED BY <2>1, <2>2
<1>3. ASSUME NEW m \in Mysteries, DeleteMystery(m) PROVE GrantInv'
  BY <1>3 DEF DeleteMystery, GrantInv, Granted
<1>4. QED
  BY <1>1, <1>2, <1>3, GrantActions

(* Counted failures never go away. *)
LEMMA FaultsGrow == ASSUME TypeOK, [Next]_vars, faults' = 0 PROVE faults = 0 /\ ~Restart
<1>1. faults \in Nat /\ (Fault => faults' # 0)
  BY BoundsAssumption DEF TypeOK, Fault
<1>2. faults' = faults \/ Fault
  BY ZenonT(30) DEF Next, Post, Unlock, Create, CreateError, BeginRecord, RecordPost, RecordLost, StartUnlock,
     UnlockMystery, RecordUnlock, GetStreak, AwardBadges, DeletePost, DeleteMystery, Midnight, Restart
<1>3. QED BY <1>1, <1>2 DEF Restart

(* Posts and unlocks are inserted, recorded and lost one at a time. *)
LEMMA TallyStep == TypeOK /\ ReqUsers /\ GrantInv /\ TallyInv /\ [Next]_vars => TallyInv'
<1> SUFFICES ASSUME TypeOK, ReqUsers, GrantInv, TallyInv, [Next]_vars PROVE TallyInv'
  OBVIOUS
<1>0. /\ TypeOK' /\ GrantInv' /\ req \in [Sessions -> Request] /\ row \in [Users -> Row]
      /\ created \in [Users -> Nat]
      /\ faults' = 0 => faults = 0 /\ ~Restart
  BY TypeStep, GrantStep, FaultsGrow DEF TypeOK
<1>a. \A u \in Users : /\ row[u].posts \in Nat /\ row[u].unlocks \in Nat /\ created[u] \in Nat
                       /\ Cardinality(Granted(u)) \in Nat /\ IsFiniteSet(Granted(u)')
  BY <1>0, FS_CardinalityType DEF GrantInv, Row
<1>b. ASSUME UNCHANGED <<row, created, granted>>, NEW s \in Sessions, 
             \A t \in Sessions : t # s => req'[t] = req[t],
             \A u \in Users : InPost(s, u)' = InPost(s, u) /\ InUnlock(s, u)' = InUnlock(s, u)
      PROVE  TallyInv'
  <2>1. \A u \in Users : InPost(s, u) \in Nat /\ InUnlock(s, u) \in Nat
    BY DEF InPost, InUnlock
  <2>2. \A u \in Users : Cardinality(Granted(u)') = Cardinality(Granted(u))
    BY <1>b DEF Granted
  <2>3. QED
    BY <1>0, <1>a, <1>b, <2>1, <2>2, Balanced
<1>c. ASSUME UNCHANGED <<row, created, granted, req>> PROVE TallyInv'
  <2>1. \A u \in Users : /\ Cardinality(Posting(u)') = Cardinality(Posting(u))
                         /\ Cardinality(Unlocking(u)') = Cardinality(Unlocking(u))
                         /\ Cardinality(Granted(u)') = Cardinality(Granted(u))
    BY <1>c DEF Posting, Unlocking, Granted
  <2>2. QED BY <1>0, <1>c, <2>1 DEF TallyInv
<1>1. ASSUME NEW s \in Sessions, NEW u \in Users, NEW d \in Drafts, Create(s, u, d) PROVE TallyInv'
  <2>1. /\ row' = row /\ granted' = granted
        /\ \A v \in Users : created'[v] = IF v = u THEN created[v] + 1 ELSE created[v]
    BY <1>1, InsertedPost DEF Create
  <2>2. /\ \A t \in Sessions : t # s => req'[t] = req[t]
        /\ \A v \in Users : /\ InPost(s, v) = 0 /\ InPost(s, v)' = IF v = u THEN 1 ELSE 0
                            /\ InUnlock(s, v) = 0 /\ InUnlock(s, v)' = 0
    BY <1>0, <1>1, BegunPost DEF InPost, InUnlock
  <2>3. \A v \in Users : Cardinality(Granted(v)') = Cardinality(Granted(v))
    BY <2>1 DEF Granted
  <2>4. \A v \in Users : 
             /\ row'[v].posts - row[v].posts + InPost(s, v)' - InPost(s, v) = created'[v] - created[v]
             /\ row'[v].unlocks - row[v].unlocks + InUnlock(s, v)' - InUnlock(s, v)
                  = Cardinality(Granted(v)') - Cardinality(Granted(v))
    BY <1>a, <2>1, <2>2, <2>3
  <2>5. QED
    BY <1>0, <1>a, <2>1, <2>2, <2>3, Balanced
<1>2. ASSUME NEW s \in Sessions, NEW u \in Users, NEW d \in Drafts, CreateError(s, u, d) PROVE TallyInv'
  <2>1. /\ UNCHANGED <<row, granted, req>> /\ faults' # 0
        /\ \A v \in Users : created'[v] = IF v = u THEN created[v] + 1 ELSE created[v]
    BY <1>0, <1>2, InsertedPost, BoundsAssumption DEF CreateError, Fault, TypeOK
  <2>2. \A v \in Users : /\ Cardinality(Posting(v)') = Cardinality(Posting(v))
                         /\ Cardinality(Unlocking(v)') = Cardinality(Unlocking(v))
                         /\ Cardinality(Granted(v)') = Cardinality(Granted(v))
    BY <2>1 DEF Posting, Unlocking, Granted
  <2>3. \A v \in Users : Cardinality(Posting(v)) \in Nat
    BY StillToRecord, <2>1
  <2>4. QED BY <1>a, <2>1, <2>2, <2>3 DEF TallyInv
<1>3. ASSUME NEW s \in Sessions, BeginRecord(s) PROVE TallyInv'
  <2>1. UNCHANGED <<row, created, granted>> /\ req[s].pc = "record"
    BY <1>3 DEF BeginRecord
  <2>2. /\ \A t \in Sessions : t # s => req'[t] = req[t]
        /\ \A u \in Users : InPost(s, u)' = InPost(s, u) /\ InUnlock(s, u)' = InUnlock(s, u)
    BY <1>3, <2>1, StatementRequest DEF InPost, InUnlock
  <2>3. QED BY <1>b, <2>1, <2>2
<1>4. ASSUME NEW s \in Sessions, RecordPost(s) PROVE TallyInv'
  <2>1. UNCHANGED <<created, granted>> /\ req[s].pc = "upsert" /\ Recorded(s)
    BY <1>4 DEF RecordPost
  <2>2. \A v \in Users : /\ row'[v].posts = row[v].posts + InPost(s, v)
                         /\ row'[v].unlocks = row[v].unlocks
    BY <1>4, <1>a, <2>1, RecordedRow DEF InPost
  <2>3. /\ \A t \in Sessions : t # s => req'[t] = req[t]
        /\ \A v \in Users : InPost(s, v)' = 0 /\ InUnlock(s, v) = 0 /\ InUnlock(s, v)' = 0 /\ InPost(s, v) \in Nat
    BY <1>0, <2>1, RecordedRequest DEF InPost, InUnlock
  <2>4. \A v \in Users : Cardinality(Granted(v)') = Cardinality(Granted(v))
    BY <2>1 DEF Granted
  <2>5. \A v \in Users : 
             /\ row'[v].posts - row[v].posts + InPost(s, v)' - InPost(s, v) = created'[v] - created[v]
             /\ row'[v].unlocks - row[v].unlocks + InUnlock(s, v)' - InUnlock(s, v)
                  = Cardinality(Granted(v)') - Cardinality(Granted(v))
    BY <1>a, <2>1, <2>2, <2>3, <2>4
  <2>6. QED
    BY <1>0, <1>a, <2>1, <2>2, <2>3, <2>4, Balanced
<1>5. ASSUME NEW s \in Sessions, RecordLost(s) PROVE TallyInv'
  <2>1. UNCHANGED <<row, created, granted>> /\ Recorded(s) /\ faults' # 0
    BY <1>0, <1>5, BoundsAssumption DEF RecordLost, Fault, TypeOK
  <2>2. /\ \A t \in Sessions : t # s => req'[t] = req[t]
        /\ \A v \in Users : /\ InPost(s, v)' = 0 /\ InUnlock(s, v)' = 0
                            /\ InPost(s, v) \in Nat /\ InUnlock(s, v) \in Nat
    BY <1>0, <2>1, RecordedRequest DEF InPost, InUnlock
  <2>3. \A v \in Users : Cardinality(Granted(v)') = Cardinality(Granted(v))
    BY <2>1 DEF Granted
  <2>4. QED
    BY <1>0, <1>a, <2>1, <2>2, <2>3, Balanced
<1>6. ASSUME NEW s \in Sessions, NEW u \in Users, NEW m \in Mysteries, StartUnlock(s, u, m) PROVE TallyInv'
  <2>1. UNCHANGED <<row, created, granted>>
    BY <1>6 DEF StartUnlock
  <2>2. /\ \A t \in Sessions : t # s => req'[t] = req[t]
        /\ \A v \in Users : InPost(s, v)' = InPost(s, v) /\ InUnlock(s, v)' = InUnlock(s, v)
    BY <1>0, <1>6, BegunUnlock DEF InPost, InUnlock
  <2>3. QED BY <1>b, <2>1, <2>2
<1>7. ASSUME NEW s \in Sessions, UnlockMystery(s) PROVE TallyInv'
  <2>1. UNCHANGED <<row, created>> /\ req[s].pc = "unlock" /\ \A t \in Sessions : t # s => req'[t] = req[t]
    BY <1>7, UnlockedRequest DEF UnlockMystery
  <2>2. CASE req'[s] = Idle /\ UNCHANGED unlockVars
    <3>1. \A v \in Users : InPost(s, v)' = InPost(s, v) /\ InUnlock(s, v)' = InUnlock(s, v)
      BY <2>1, <2>2, IdleRequest DEF InPost, InUnlock
    <3>2. QED BY <1>b, <2>1, <2>2, <3>1
  <2>3. CASE ~(req'[s] = Idle /\ UNCHANGED unlockVars)
    <3>1. PICK p \in Mysteries \X Users :
            /\ p[1] \in live /\ p \notin unlocks /\ p[2] = req[s].user /\ granted' = granted \union {p}
            /\ req'[s].pc = "recordUnlock" /\ req'[s].user = req[s].user
      BY <1>7, <2>3, UnlockedRequest
    <3>2. \A v \in Users : Cardinality(Granted(v)') = Cardinality(Granted(v)) + (IF p[2] = v THEN 1 ELSE 0)
      BY <3>1, NewGrant
    <3>3. \A v \in Users : /\ InPost(s, v) = 0 /\ InPost(s, v)' = 0
                           /\ InUnlock(s, v) = 0 /\ InUnlock(s, v)' = IF p[2] = v THEN 1 ELSE 0
      BY <2>1, <3>1 DEF InPost, InUnlock
    <3>4. \A v \in Users : 
             /\ row'[v].posts - row[v].posts + InPost(s, v)' - InPost(s, v) = created'[v] - created[v]
             /\ row'[v].unlocks - row[v].unlocks + InUnlock(s, v)' - InUnlock(s, v)
                  = Cardinality(Granted(v)') - Cardinality(Granted(v))
      BY <1>a, <2>1, <3>2, <3>3
    <3>5. QED
      BY <1>0, <1>a, <2>1, <3>2, <3>3, Balanced
  <2>4. QED BY <2>2, <2>3
<1>8. ASSUME NEW s \in Sessions, RecordUnlock(s) PROVE TallyInv'
  <2>1. UNCHANGED <<created, granted>> /\ req[s].pc = "recordUnlock" /\ Recorded(s)
    BY <1>8 DEF RecordUnlock
  <2>2. \A v \in Users : /\ row'[v].unlocks = row[v].unlocks + InUnlock(s, v)
                         /\ row'[v].posts = row[v].posts
    BY <1>8, <1>a, <2>1, UnlockedRow DEF InUnlock
  <2>3. /\ \A t \in Sessions : t # s => req'[t] = req[t]
        /\ \A v \in Users : InUnlock(s, v)' = 0 /\ InPost(s, v) = 0 /\ InPost(s, v)' = 0 /\ InUnlock(s, v) \in Nat
    BY <1>0, <2>1, RecordedRequest DEF InPost, InUnlock
  <2>4. \A v \in Users : Cardinality(Granted(v)') = Cardinality(Granted(v))
    BY <2>1 DEF Granted
  <2>5. \A v \in Users : 
             /\ row'[v].posts - row[v].posts + InPost(s, v)' - InPost(s, v) = created'[v] - created[v]
             /\ row'[v].unlocks - row[v].unlocks + InUnlock(s, v)' - InUnlock(s, v)
                  = Cardinality(Granted(v)') - Cardinality(Granted(v))
    BY <1>a, <2>1, <2>2, <2>3, <2>4
  <2>6. QED
    BY <1>0, <1>a, <2>1, <2>2, <2>3, <2>4, Balanced
<1>9. ASSUME NEW s \in Sessions, GetStreak(s) PROVE TallyInv'
  <2>1. UNCHANGED <<row, created, granted>>
    BY <1>9 DEF GetStreak
  <2>2. /\ \A t \in Sessions : t # s => req'[t] = req[t]
        /\ \A v \in Users : InPost(s, v)' = InPost(s, v) /\ InUnlock(s, v)' = InUnlock(s, v)
    BY <1>0, <1>9, LookedRequest DEF InPost, InUnlock
  <2>3. QED BY <1>b, <2>1, <2>2
<1>10. ASSUME NEW s \in Sessions, AwardBadges(s) PROVE TallyInv'
  <2>1. UNCHANGED <<row, created, granted>> /\ End(s) /\ req[s].pc = "award"
    BY <1>10 DEF AwardBadges
  <2>2. /\ \A t \in Sessions : t # s => req'[t] = req[t]
        /\ \A v \in Users : InPost(s, v)' = InPost(s, v) /\ InUnlock(s, v)' = InUnlock(s, v)
    BY <1>0, <2>1, EndedRequest, IdleRequest DEF InPost, InUnlock
  <2>3. QED BY <1>b, <2>1, <2>2
<1>11. CASE \/ \E u \in Users, z \in Zones : DeletePost(u, z)
            \/ \E m \in Mysteries : DeleteMystery(m)
            \/ Midnight \/ UNCHANGED vars
  BY <1>c, <1>11 DEF DeletePost, DeleteMystery, Midnight
<1>12. CASE Restart
  <2>1. UNCHANGED <<row, created, granted>> /\ req' = [t \in Sessions |-> Idle] /\ faults' # 0
    BY <1>0, <1>12 DEF Restart
  <2>2. \A v \in Users : /\ Posting(v)' = {} /\ Unlocking(v)' = {}
                         /\ Cardinality(Granted(v)') = Cardinality(Granted(v))
    BY <2>1, IdleRequest DEF Posting, Unlocking, Granted
  <2>3. \A v \in Users : Cardinality(Posting(v)) \in Nat /\ Cardinality(Unlocking(v)) \in Nat
    <3>1. \A v \in Users : Posting(v) \in SUBSET Sessions /\ Unlocking(v) \in SUBSET Sessions
      BY DEF Posting, Unlocking
    <3>2. QED BY <3>1, FiniteAssumption, FS_Subset, FS_CardinalityType
  <2>4. \A v \in Users : Cardinality(Posting(v)') = 0 /\ Cardinality(Unlocking(v)') = 0
    BY <2>2, FS_EmptySet
  <2>5. QED BY <1>a, <2>1, <2>2, <2>3, <2>4 DEF TallyInv
<1>13. QED
  BY <1>1, <1>2, <1>3, <1>4, <1>5, <1>6, <1>7, <1>8, <1>9, <1>10, <1>11, <1>12 DEF Next, Post, Unlock

(* Grants and tallies hold from the start and in every step. *)
LEMMA TallyAlways == Spec => []GrantInv /\ []TallyInv
<1>1. Init => GrantInv /\ TallyInv
  <2> SUFFICES ASSUME Init PROVE GrantInv /\ TallyInv
    OBVIOUS
  <2>1. \A u \in Users : Posting(u) = {} /\ Unlocking(u) = {} /\ Granted(u) = {}
    BY IdleRequest DEF Init, Posting, Unlocking, Granted
  <2>2. \A u \in Users : row[u].posts = created[u] /\ row[u].unlocks = 0 /\ created[u] \in Nat
    BY InitialRows
  <2>3. Cardinality({}) = 0 /\ IsFiniteSet({})
    BY FS_EmptySet
  <2>4. granted = {}
    BY DEF Init
  <2>5. GrantInv
    BY <2>1, <2>3, <2>4 DEF GrantInv
  <2>6. TallyInv
    BY <2>1, <2>2, <2>3 DEF TallyInv
  <2>7. QED BY <2>5, <2>6
<1>2. QED
  BY <1>1, GrantStep, TallyStep, TypeAlways, PTL DEF Spec

(* Posts and unlocks are counted once each, whatever the requests of a user interleave: *)
(* never more often than there were rows, and exactly that often when nothing failed.   *)
THEOREM CountsAreExact == Spec => []CountsExact
<1>1. TypeOK /\ GrantInv /\ TallyInv => CountsExact
  <2> SUFFICES ASSUME TypeOK, GrantInv, TallyInv, NEW u \in Users
               PROVE  /\ row[u].posts <= created[u] /\ row[u].unlocks <= Cardinality(Granted(u))
                      /\ faults = 0 /\ ~Busy(u) => /\ row[u].posts = created[u]
                                                   /\ row[u].unlocks = Cardinality(Granted(u))
    BY DEF CountsExact, Granted
  <2>1. Posting(u) \in SUBSET Sessions /\ Unlocking(u) \in SUBSET Sessions
    BY DEF Posting, Unlocking
  <2>2. Cardinality(Posting(u)) \in Nat /\ Cardinality(Unlocking(u)) \in Nat
    BY <2>1, FiniteAssumption, FS_Subset, FS_CardinalityType
  <2>3. /\ row[u].posts \in Nat /\ row[u].unlocks \in Nat /\ created[u] \in Nat
        /\ Cardinality(Granted(u)) \in Nat
    BY FS_CardinalityType DEF TypeOK, Row, GrantInv
  <2>4. ~Busy(u) => Posting(u) = {} /\ Unlocking(u) = {}
    BY DEF Busy, Posting, Unlocking
  <2>5. ~Busy(u) => Cardinality(Posting(u)) = 0 /\ Cardinality(Unlocking(u)) = 0
    BY <2>4, FS_EmptySet
  <2>6. QED BY <2>2, <2>3, <2>5 DEF TallyInv
<1>2. QED BY <1>1, TypeAlways, TallyAlways, PTL
-----------------------------------------------------------------------------
(***************************************************************************)
(* Badges.  The zones a statement has counted, a row holds or a user still  *)
(* has rows in were all visited; what a request carries towards its awards  *)
(* is deserved.  And a badge that the row calls for is held, or a request   *)
(* is on its way to award it.                                               *)
(***************************************************************************)
ZoneInv ==
  /\ \A u \in Users : mine[u] \subseteq visited[u] /\ row[u].zones <= Cardinality(visited[u])
  /\ \A s \in Sessions : req[s].pc = "upsert" => req[s].zones <= Cardinality(visited[req[s].user])

CarriedInv ==
  \A s \in Sessions : req[s].pc # "idle" =>
    /\ req[s].capsule => req[s].user \in capsules
    /\ \A b \in req[s].due : Deserved(req[s].user, b)

AwardInv ==
  faults = 0 =>
    \A u \in Users, b \in Milestones :
      Active(u) /\ b.of \in {"posts", "unlocks"} /\ Statistic(row[u], b) >= b.at =>
        \/ <<u, b>> \in badges
        \/ \E s \in Sessions : /\ req[s].user = u
                               /\ req[s].pc = "stats" \/ (req[s].pc = "award" /\ b \in req[s].due)

(* Deletions and failures take nothing back of what a user has done. *)
LEMMA HistoryGrows ==
  ASSUME TypeOK, ReqUsers, [Next]_vars, NEW u \in Users
  PROVE  /\ created[u] <= created'[u] /\ visited[u] \subseteq visited'[u]
         /\ days[u] \subseteq days'[u] /\ granted \subseteq granted' /\ capsules \subseteq capsules'
<1>0. created[u] \in Nat
  BY DEF TypeOK
<1>1. created[u] <= created'[u] /\ visited[u] \subseteq visited'[u] /\ capsules \subseteq capsules'
  <2>1. ASSUME NEW v \in Users, NEW d \in Drafts, InsertPost(v, d)
        PROVE  created[u] <= created'[u] /\ visited[u] \subseteq visited'[u] /\ capsules \subseteq capsules'
    BY <1>0, <2>1, InsertedPost
  <2>2. CASE UNCHANGED <<created, visited, capsules>>
    BY <1>0, <2>2
  <2>3. \/ UNCHANGED <<created, visited, capsules>>
        \/ \E v \in Users, d \in Drafts : InsertPost(v, d)
    BY ZenonT(30) DEF Next, Post, Unlock, Create, CreateError, BeginRecord, RecordPost, RecordLost, StartUnlock,
       UnlockMystery, RecordUnlock, GetStreak, AwardBadges, DeletePost, DeleteMystery, Midnight, Restart
  <2>4. QED BY <2>1, <2>2, <2>3
<1>2. days[u] \subseteq days'[u]
  <2>1. CASE \E s \in Sessions : RecordPost(s)
    BY <2>1 DEF RecordPost, TypeOK
  <2>2. CASE \E s \in Sessions : RecordUnlock(s)
    BY <2>2 DEF RecordUnlock
  <2>3. QED BY <2>1, <2>2, RowActions
<1>3. granted \subseteq granted'
  BY GrantActions DEF UnlockMystery, DeleteMystery
<1>4. QED BY <1>1, <1>2, <1>3

(* The kinds of badges. *)
LEMMA BadgeKinds ==
  ASSUME NEW b \in Badges
  PROVE  \/ b \in Milestones /\ b.of \in {"posts", "zones", "streak", "unlocks"} /\ b.at \in Nat \ {0}
         \/ b = CapsuleCreator /\ b.of = "capsule"
  BY MilestonesAssumption DEF Badges, CapsuleCreator

(* What Deserved says of each kind. *)
LEMMA DeservedKinds ==
  ASSUME NEW u, NEW b
  PROVE  /\ b.of = "posts"   => (Deserved(u, b) <=> created[u] >= b.at)
         /\ b.of = "zones"   => (Deserved(u, b) <=> Cardinality(visited[u]) >= b.at)
         /\ b.of = "streak"  => (Deserved(u, b) <=> \E d \in 0 .. MaxDay : (d - b.at + 1) .. d \subseteq days[u])
         /\ b.of = "unlocks" => (Deserved(u, b) <=> Cardinality(Granted(u)) >= b.at)
         /\ b.of = "capsule" => (Deserved(u, b) <=> u \in capsules)
  BY DEF Deserved, Granted

(* What Deserved says of each kind after a step. *)
LEMMA DeservedKindsNext ==
  ASSUME NEW u, NEW b
  PROVE  /\ b.of = "posts"   => (Deserved(u, b)' <=> created'[u] >= b.at)
         /\ b.of = "zones"   => (Deserved(u, b)' <=> Cardinality(visited'[u]) >= b.at)
         /\ b.of = "streak"  => (Deserved(u, b)' <=> \E d \in 0 .. MaxDay : (d - b.at + 1) .. d \subseteq days'[u])
         /\ b.of = "unlocks" => (Deserved(u, b)' <=> Cardinality(Granted(u)') >= b.at)
         /\ b.of = "capsule" => (Deserved(u, b)' <=> u \in capsules')
  BY DEF Deserved, Granted

(* A badge that was deserved stays deserved. *)
LEMMA DeservedStays ==
  ASSUME TypeOK, ReqUsers, GrantInv, [Next]_vars, NEW u \in Users, NEW b \in Badges, Deserved(u, b)
  PROVE  Deserved(u, b)'
<1>1. /\ created[u] \in Nat /\ created'[u] \in Nat /\ created[u] <= created'[u]
      /\ visited[u] \subseteq visited'[u] /\ visited'[u] \subseteq Zones
      /\ days[u] \subseteq days'[u] /\ granted \subseteq granted' /\ capsules \subseteq capsules'
  BY HistoryGrows, TypeStep DEF TypeOK
<1>2. CASE b.of = "posts" /\ b.at \in Nat
  BY <1>1, <1>2, DeservedKinds, DeservedKindsNext
<1>3. CASE b.of = "zones" /\ b.at \in Nat
  <2>1. PICK A, B : A = visited[u] /\ B = visited'[u]
    OBVIOUS
  <2>2. IsFiniteSet(B) /\ A \in SUBSET B
    BY <1>1, <2>1, ZoneCounts
  <2>3. Cardinality(A) \in Nat /\ Cardinality(B) \in Nat /\ Cardinality(A) <= Cardinality(B)
    BY <2>2, FS_Subset, FS_CardinalityType
  <2>4. Cardinality(A) >= b.at
    BY <1>3, <2>1, DeservedKinds
  <2>5. Cardinality(B) >= b.at
    BY <1>3, <2>3, <2>4
  <2>6. QED BY <1>3, <2>1, <2>5, DeservedKindsNext
<1>4. CASE b.of = "streak"
  BY <1>1, <1>4, DeservedKinds, DeservedKindsNext
<1>5. CASE b.of = "unlocks" /\ b.at \in Nat
  <2>1. PICK A, B : A = Granted(u) /\ B = Granted(u)'
    OBVIOUS
  <2>2. IsFiniteSet(B) /\ A \in SUBSET B
    BY <1>1, <2>1, GrantStep DEF GrantInv, Granted
  <2>3. Cardinality(A) \in Nat /\ Cardinality(B) \in Nat /\ Cardinality(A) <= Cardinality(B)
    BY <2>2, FS_Subset, FS_CardinalityType
  <2>4. Cardinality(A) >= b.at
    BY <1>5, <2>1, DeservedKinds
  <2>5. Cardinality(B) >= b.at
    BY <1>5, <2>3, <2>4
  <2>6. QED BY <1>5, <2>1, <2>5, DeservedKindsNext
<1>6. CASE b.of = "capsule"
  BY <1>1, <1>6, DeservedKinds, DeservedKindsNext
<1>7. QED BY <1>2, <1>3, <1>4, <1>5, <1>6, BadgeKinds

(* What a row calls for is deserved, at the moment GetStreak reads it. *)
LEMMA DueDeserved ==
  ASSUME TypeOK, StreakInv, GrantInv, TallyInv, ZoneInv, NEW u \in Users, NEW c, c => u \in capsules,
         NEW b \in Due(row[u], c) \union Due(NoRow, c)
  PROVE  Deserved(u, b)
<1>0. /\ row[u] \in Row /\ created[u] \in Nat /\ visited[u] \subseteq Zones /\ days[u] \subseteq Nat
  BY DEF TypeOK
<1>a. /\ row[u].posts \in Nat /\ row[u].zones \in Nat /\ row[u].streak \in Nat /\ row[u].unlocks \in Nat
      /\ Cardinality(visited[u]) \in Nat /\ Cardinality(Granted(u)) \in Nat
  BY <1>0, ZoneCounts, FS_CardinalityType DEF Row, GrantInv
<1>1. CASE b \notin Milestones
  <2>1. b = CapsuleCreator /\ c
    BY <1>1 DEF Due
  <2>2. QED BY <2>1, DeservedKinds DEF CapsuleCreator
<1>2. CASE b \in Milestones
  <2>1. b.of \in {"posts", "zones", "streak", "unlocks"} /\ b.at \in Nat \ {0}
    BY <1>2, MilestonesAssumption
  <2>2. b # CapsuleCreator
    BY <2>1 DEF CapsuleCreator
  <2>3. Statistic(row[u], b) >= b.at \/ Statistic(NoRow, b) >= b.at
    BY <2>2 DEF Due
  <2>4. Statistic(NoRow, b) = 0
    BY <2>1 DEF Statistic, NoRow
  <2>5. Statistic(row[u], b) >= b.at
    BY <2>1, <2>3, <2>4
  <2>6. Posting(u) \in SUBSET Sessions /\ Unlocking(u) \in SUBSET Sessions
    BY DEF Posting, Unlocking
  <2>7. Cardinality(Posting(u)) \in Nat /\ Cardinality(Unlocking(u)) \in Nat
    BY <2>6, FiniteAssumption, FS_Subset, FS_CardinalityType
  <2>8. CASE b.of = "posts"
    <3>1. row[u].posts >= b.at
      BY <2>5, <2>8 DEF Statistic
    <3>2. created[u] >= b.at
      BY <1>0, <1>a, <2>1, <2>7, <3>1 DEF TallyInv
    <3>3. QED BY <2>8, <3>2, DeservedKinds
  <2>9. CASE b.of = "zones"
    <3>1. row[u].zones >= b.at
      BY <2>5, <2>9 DEF Statistic
    <3>2. Cardinality(visited[u]) >= b.at
      BY <1>a, <2>1, <3>1 DEF ZoneInv
    <3>3. QED BY <2>9, <3>2, DeservedKinds
  <2>10. CASE b.of = "streak"
    <3>1. row[u].streak >= b.at
      BY <2>5, <2>10 DEF Statistic
    <3>2. /\ row[u].last \in 1 .. MaxDay
          /\ (row[u].last - row[u].streak + 1) .. row[u].last \subseteq days[u]
      BY <1>a, <2>1, <3>1 DEF StreakInv, LastInv, StreakIsReal
    <3>3. PICK l, n, a : l = row[u].last /\ n = row[u].streak /\ a = b.at
      OBVIOUS
    <3>4. l \in Nat /\ l \in 0 .. MaxDay /\ n \in Nat /\ a \in Nat /\ n >= a /\ (l - n + 1) .. l \subseteq days[u]
      BY <1>a, <2>1, <3>1, <3>2, <3>3, BoundsAssumption
    <3>5. (l - a + 1) .. l \subseteq (l - n + 1) .. l
      BY <3>4
    <3>6. \E d \in 0 .. MaxDay : (d - a + 1) .. d \subseteq days[u]
      BY <3>4, <3>5
    <3>7. QED BY <2>10, <3>3, <3>6, DeservedKinds
  <2>11. CASE b.of = "unlocks"
    <3>1. row[u].unlocks >= b.at
      BY <2>5, <2>11 DEF Statistic
    <3>2. Cardinality(Granted(u)) >= b.at
      BY <1>a, <2>1, <2>7, <3>1 DEF TallyInv
    <3>3. QED BY <2>11, <3>2, DeservedKinds
  <2>12. QED BY <2>1, <2>8, <2>9, <2>10, <2>11
<1>3. QED BY <1>1, <1>2

(* How a step can change a request. *)
LEMMA RequestMoves ==
  ASSUME TypeOK, ReqUsers, [Next]_vars, NEW t \in Sessions
  PROVE  \/ req'[t] = req[t]
         \/ req'[t].pc = "idle" /\ (UnlockMystery(t) \/ AwardBadges(t) \/ Restart)
         \/ \E u \in Users, d \in Drafts : Create(t, u, d)
         \/ \E u \in Users, m \in Mysteries : StartUnlock(t, u, m)
         \/ BeginRecord(t)
         \/ /\ req[t].pc \in {"upsert", "unlock", "recordUnlock"} /\ req'[t].pc \in {"recordUnlock", "stats"}
            /\ req'[t].user = req[t].user /\ req'[t].due = req[t].due /\ req'[t].capsule = req[t].capsule
         \/ GetStreak(t)
<1> DEFINE Moved(s) == 
         \/ req'[s] = req[s]
         \/ req'[s].pc = "idle" /\ (UnlockMystery(s) \/ AwardBadges(s) \/ Restart)
         \/ \E u \in Users, d \in Drafts : Create(s, u, d)
         \/ \E u \in Users, m \in Mysteries : StartUnlock(s, u, m)
         \/ BeginRecord(s)
         \/ /\ req[s].pc \in {"upsert", "unlock", "recordUnlock"} /\ req'[s].pc \in {"recordUnlock", "stats"}
            /\ req'[s].user = req[s].user /\ req'[s].due = req[s].due /\ req'[s].capsule = req[s].capsule
         \/ GetStreak(s)
<1>0. req \in [Sessions -> Request]
  BY DEF TypeOK
<1>a. ASSUME NEW s \in Sessions, \A r \in Sessions : r # s => req'[r] = req[r], Moved(s) PROVE Moved(t)
  BY <1>a
<1>1. ASSUME NEW s \in Sessions, NEW u \in Users, NEW d \in Drafts, Create(s, u, d) PROVE Moved(t)
  <2>1. \A r \in Sessions : r # s => req'[r] = req[r]
    BY <1>0, <1>1, BegunPost
  <2>2. Moved(s)
    BY <1>1
  <2>3. QED BY <1>a, <2>1, <2>2
<1>2. ASSUME NEW s \in Sessions, NEW u \in Users, NEW m \in Mysteries, StartUnlock(s, u, m) PROVE Moved(t)
  <2>1. \A r \in Sessions : r # s => req'[r] = req[r]
    BY <1>0, <1>2, BegunUnlock
  <2>2. Moved(s)
    BY <1>2
  <2>3. QED BY <1>a, <2>1, <2>2
<1>3. ASSUME NEW s \in Sessions, BeginRecord(s) PROVE Moved(t)
  <2>1. \A r \in Sessions : r # s => req'[r] = req[r]
    BY <1>3, StatementRequest
  <2>2. Moved(s)
    BY <1>3
  <2>3. QED BY <1>a, <2>1, <2>2
<1>4. ASSUME NEW s \in Sessions, RecordPost(s) \/ RecordLost(s) \/ RecordUnlock(s) PROVE Moved(t)
  <2>1. Recorded(s) /\ req[s].pc \in {"upsert", "recordUnlock"}
    BY <1>4 DEF RecordPost, RecordLost, RecordUnlock
  <2>2. \A r \in Sessions : r # s => req'[r] = req[r]
    BY <1>0, <2>1, RecordedRequest
  <2>3. Moved(s)
    BY <1>0, <2>1, RecordedRequest
  <2>4. QED BY <1>a, <2>2, <2>3
<1>5. ASSUME NEW s \in Sessions, UnlockMystery(s) PROVE Moved(t)
  <2>1. \A r \in Sessions : r # s => req'[r] = req[r]
    BY <1>5, UnlockedRequest
  <2>2. Moved(s)
    BY <1>5, UnlockedRequest, IdleRequest
  <2>3. QED BY <1>a, <2>1, <2>2
<1>6. ASSUME NEW s \in Sessions, GetStreak(s) PROVE Moved(t)
  <2>1. \A r \in Sessions : r # s => req'[r] = req[r]
    BY <1>0, <1>6, LookedRequest
  <2>2. Moved(s)
    BY <1>6
  <2>3. QED BY <1>a, <2>1, <2>2
<1>7. ASSUME NEW s \in Sessions, AwardBadges(s) PROVE Moved(t)
  <2>1. End(s)
    BY <1>7 DEF AwardBadges
  <2>2. Moved(s) /\ \A r \in Sessions : r # s => req'[r] = req[r]
    BY <1>0, <1>7, <2>1, EndedRequest, IdleRequest
  <2>3. QED BY <1>a, <2>2
<1>8. CASE Restart
  BY <1>8, IdleRequest DEF Restart
<1>9. CASE UNCHANGED req
  BY <1>9
<1>b. QED
  BY <1>1, <1>2, <1>3, <1>4, <1>5, <1>6, <1>7, <1>8, <1>9
     DEF Next, Post, Unlock, CreateError, DeletePost, DeleteMystery, Midnight

(* The zones counted in a statement or a row are zones in which the user has posted. *)
LEMMA ZoneStep == TypeOK /\ ReqUsers /\ ZoneInv /\ [Next]_vars => ZoneInv'
<1> SUFFICES ASSUME TypeOK, ReqUsers, ZoneInv, [Next]_vars PROVE ZoneInv'
  OBVIOUS
<1>0. TypeOK' /\ ReqUsers' /\ req \in [Sessions -> Request]
  BY TypeStep DEF TypeOK
<1>1. ASSUME NEW u \in Users
      PROVE  /\ Cardinality(visited[u]) \in Nat /\ Cardinality(visited'[u]) \in Nat
             /\ Cardinality(visited[u]) <= Cardinality(visited'[u])
             /\ Cardinality(mine[u]) \in Nat /\ Cardinality(mine[u]) <= Cardinality(visited[u])
  <2>1. PICK A, B, C : A = visited[u] /\ B = visited'[u] /\ C = mine[u]
    OBVIOUS
  <2>2. B \subseteq Zones /\ A \subseteq Zones /\ A \in SUBSET B /\ C \in SUBSET A
    BY <1>0, <2>1, HistoryGrows DEF TypeOK, ZoneInv
  <2>3. IsFiniteSet(B) /\ IsFiniteSet(A) /\ IsFiniteSet(C)
    BY <2>2, ZoneCounts, FS_Subset
  <2>4. QED BY <2>1, <2>2, <2>3, FS_Subset, FS_CardinalityType
<1>2. ASSUME NEW u \in Users PROVE mine'[u] \subseteq visited'[u]
  <2>1. mine[u] \subseteq visited'[u]
    BY HistoryGrows DEF ZoneInv
  <2>2. ASSUME NEW v \in Users, NEW d \in Drafts, InsertPost(v, d) PROVE mine'[u] \subseteq visited'[u]
    BY <2>1, <2>2, InsertedPost
  <2>3. CASE \E v \in Users, z \in Zones : DeletePost(v, z)
    BY <2>1, <2>3 DEF DeletePost, TypeOK
  <2>4. \/ UNCHANGED mine
        \/ \E v \in Users, d \in Drafts : InsertPost(v, d)
        \/ \E v \in Users, z \in Zones : DeletePost(v, z)
    BY ZenonT(30) DEF Next, Post, Unlock, Create, CreateError, BeginRecord, RecordPost, RecordLost, StartUnlock,
       UnlockMystery, RecordUnlock, GetStreak, AwardBadges, DeleteMystery, Midnight, Restart
  <2>5. QED BY <2>1, <2>2, <2>3, <2>4
<1>3. ASSUME NEW u \in Users PROVE row'[u].zones <= Cardinality(visited[u])
  <2>1. row[u].zones <= Cardinality(visited[u])
    BY DEF ZoneInv
  <2>2. ASSUME NEW s \in Sessions, RecordPost(s) PROVE row'[u].zones <= Cardinality(visited[u])
    <3>1. req[s].pc = "upsert"
      BY <2>2 DEF RecordPost
    <3>2. req[s].zones <= Cardinality(visited[req[s].user])
      BY <3>1 DEF ZoneInv
    <3>3. QED BY <2>1, <2>2, <3>2, RecordedRow
  <2>3. ASSUME NEW s \in Sessions, RecordUnlock(s) PROVE row'[u].zones <= Cardinality(visited[u])
    BY <2>1, <2>3, UnlockedRow
  <2>4. QED BY <2>1, <2>2, <2>3, RowActions
<1>4. ASSUME NEW u \in Users PROVE row'[u].zones \in Nat
  BY <1>0 DEF TypeOK, Row
<1>5. ASSUME NEW s \in Sessions, req'[s].pc = "upsert" PROVE req'[s].zones <= Cardinality(visited'[req'[s].user])
  <2>1. \/ req'[s] = req[s] \/ BeginRecord(s)
    BY <1>0, <1>5, RequestMoves, BegunPost, BegunUnlock, LookedRequest
  <2>2. CASE BeginRecord(s)
    <3>1. req'[s].user \in Users /\ req'[s].zones = Cardinality(mine[req'[s].user])
      BY <2>2, StatementRequest
    <3>2. QED BY <1>1, <3>1
  <2>3. CASE req'[s] = req[s]
    <3>1. req[s].user \in Users /\ req[s].zones \in Nat /\ req[s].zones <= Cardinality(visited[req[s].user])
      BY <1>0, <1>5, <2>3 DEF ReqUsers, Request, ZoneInv
    <3>2. QED BY <1>1, <2>3, <3>1
  <2>4. QED BY <2>1, <2>2, <2>3
<1>6. QED
  BY <1>1, <1>2, <1>3, <1>4, <1>5 DEF ZoneInv

(* What a request carries towards its awards is deserved. *)
LEMMA CarriedStep ==
  /\ TypeOK /\ ReqUsers /\ StreakInv /\ GrantInv /\ TallyInv /\ ZoneInv /\ CarriedInv
  /\ [Next]_vars
  => CarriedInv'
<1> SUFFICES ASSUME TypeOK, ReqUsers, StreakInv, GrantInv, TallyInv, ZoneInv, CarriedInv, [Next]_vars,
                    NEW s \in Sessions, req'[s].pc # "idle"
             PROVE  /\ req'[s].capsule => req'[s].user \in capsules'
                    /\ \A b \in req'[s].due : Deserved(req[s].user, b)'
  BY DEF CarriedInv
<1>0. req \in [Sessions -> Request]
  BY DEF TypeOK
<1>1. ASSUME req[s].pc # "idle", req'[s].user = req[s].user, req'[s].due = req[s].due,
             req'[s].capsule = req[s].capsule
      PROVE  /\ req'[s].capsule => req'[s].user \in capsules'
             /\ \A b \in req'[s].due : Deserved(req[s].user, b)'
  <2>1. req[s].user \in Users /\ req[s].due \subseteq Badges
    BY <1>0, <1>1 DEF ReqUsers, Request
  <2>2. /\ req[s].capsule => req[s].user \in capsules
        /\ \A b \in req[s].due : Deserved(req[s].user, b)
    BY <1>1 DEF CarriedInv
  <2>3. capsules \subseteq capsules'
    BY <2>1, HistoryGrows
  <2>4. PICK u : u = req[s].user
    OBVIOUS
  <2>5. \A b \in req[s].due : Deserved(u, b)'
    BY <2>1, <2>2, <2>4, DeservedStays
  <2>6. u = req'[s].user
    BY <1>1, <2>4
  <2>7. \A b \in req'[s].due : Deserved(u, b)'
    BY <1>1, <2>5
  <2>8. \A b \in req'[s].due : Deserved(req[s].user, b)'
    BY <2>6, <2>7 DEF Deserved
  <2>9. QED BY <1>1, <2>2, <2>3, <2>8
<1>2. ASSUME NEW u \in Users, NEW d \in Drafts, Create(s, u, d)
      PROVE  /\ req'[s].capsule => req'[s].user \in capsules'
             /\ \A b \in req'[s].due : Deserved(req[s].user, b)'
  <2>1. d.capsule => u \in capsules'
    BY <1>2, InsertedPost DEF Create
  <2>2. QED BY <1>0, <1>2, <2>1, BegunPost
<1>3. ASSUME NEW u \in Users, NEW m \in Mysteries, StartUnlock(s, u, m)
      PROVE  /\ req'[s].capsule => req'[s].user \in capsules'
             /\ \A b \in req'[s].due : Deserved(req[s].user, b)'
  BY <1>0, <1>3, BegunUnlock
<1>4. ASSUME GetStreak(s)
      PROVE  /\ req'[s].capsule => req'[s].user \in capsules'
             /\ \A b \in req'[s].due : Deserved(req[s].user, b)'
  <2>1. PICK u, c : u = req[s].user /\ c = req[s].capsule
    OBVIOUS
  <2>2. /\ u \in Users /\ (c => u \in capsules) /\ req'[s].user = u /\ req'[s].capsule = FALSE
        /\ req'[s].due \subseteq Due(row[u], c) \union Due(NoRow, c)
    BY <1>0, <1>4, <2>1, LookedRequest DEF CarriedInv, ReqUsers
  <2>3. \A b \in req'[s].due : b \in Badges /\ Deserved(u, b)
    <3>1. Due(row[u], c) \union Due(NoRow, c) \subseteq Badges
      BY DEF Due, Badges
    <3>2. QED BY <2>2, <3>1, DueDeserved
  <2>4. \A b \in req'[s].due : Deserved(u, b)'
    BY <2>2, <2>3, DeservedStays
  <2>5. \A b \in req'[s].due : Deserved(req[s].user, b)'
    BY <2>2, <2>4 DEF Deserved
  <2>6. QED BY <2>2, <2>5
<1>5. CASE req'[s] = req[s]
  BY <1>1, <1>5
<1>6. CASE BeginRecord(s)
  <2>1. req[s].pc = "record"
    BY <1>6 DEF BeginRecord
  <2>2. QED BY <1>1, <1>6, <2>1, StatementRequest
<1>7. QED
  BY <1>1, <1>2, <1>3, <1>4, <1>5, <1>6, RequestMoves

(* Only what a request carries is awarded. *)
LEMMA BadgeStep ==
  TypeOK /\ ReqUsers /\ GrantInv /\ CarriedInv /\ BadgesDeserved /\ [Next]_vars => BadgesDeserved'
<1> SUFFICES ASSUME TypeOK, ReqUsers, GrantInv, CarriedInv, BadgesDeserved, [Next]_vars
             PROVE  BadgesDeserved'
  OBVIOUS
<1>1. \A p \in badges : p[1] \in Users /\ p[2] \in Badges /\ Deserved(p[1], p[2])
  BY DEF TypeOK, BadgesDeserved
<1>2. \A p \in badges : Deserved(p[1], p[2])'
  BY <1>1, DeservedStays
<1>3. ASSUME NEW s \in Sessions, AwardBadges(s) PROVE BadgesDeserved'
  <2>1. PICK u : u = req[s].user
    OBVIOUS
  <2>2. /\ req[s].pc = "award" /\ \E D \in SUBSET req[s].due : badges' = badges \union ({u} \X D)
    BY <1>3, <2>1 DEF AwardBadges
  <2>3. u \in Users /\ req[s].due \subseteq Badges /\ \A b \in req[s].due : Deserved(u, b)
    BY <2>1, <2>2 DEF TypeOK, ReqUsers, Request, CarriedInv
  <2>4. \A b \in req[s].due : Deserved(u, b)'
    BY <2>3, DeservedStays
  <2>5. \A p \in badges' : p \in badges \/ (p[1] = u /\ p[2] \in req[s].due)
    BY <2>2
  <2>6. \A p \in badges' : Deserved(p[1], p[2])'
    BY <1>2, <2>4, <2>5
  <2>7. QED BY <2>6 DEF BadgesDeserved
<1>4. CASE UNCHANGED badges
  BY <1>2, <1>4 DEF BadgesDeserved
<1>5. UNCHANGED badges \/ \E s \in Sessions : AwardBadges(s)
  BY ZenonT(30) DEF Next, Post, Unlock, Create, CreateError, BeginRecord, RecordPost, RecordLost, StartUnlock,
     UnlockMystery, RecordUnlock, GetStreak, DeletePost, DeleteMystery, Midnight, Restart
<1>6. QED BY <1>3, <1>4, <1>5

(* Zones, what requests carry and badges, from the start and in every step. *)
LEMMA BadgesAlways == Spec => [](ZoneInv /\ CarriedInv /\ BadgesDeserved)
<1>1. Init => ZoneInv /\ CarriedInv /\ BadgesDeserved
  <2> SUFFICES ASSUME Init PROVE ZoneInv /\ CarriedInv /\ BadgesDeserved
    OBVIOUS
  <2>1. \A s \in Sessions : req[s].pc = "idle"
    BY IdleRequest DEF Init
  <2>2. \A u \in Users : /\ mine[u] \subseteq visited[u] /\ row[u].zones = 0
                         /\ Cardinality(visited[u]) \in Nat
    BY InitialRows, FiniteAssumption, FS_Subset, FS_CardinalityType
  <2>3. ZoneInv
    BY <2>1, <2>2 DEF ZoneInv
  <2>4. QED BY <2>1, <2>3 DEF Init, CarriedInv, BadgesDeserved
<1>2. /\ TypeOK /\ ReqUsers /\ StreakInv /\ GrantInv /\ TallyInv
      /\ ZoneInv /\ CarriedInv /\ BadgesDeserved /\ [Next]_vars
      => (ZoneInv /\ CarriedInv /\ BadgesDeserved)'
  BY ZoneStep, CarriedStep, BadgeStep
<1>3. QED
  BY <1>1, <1>2, TypeAlways, StreakAlways, TallyAlways, PTL DEF Spec

(* A badge is only held by a user who once did what it stands for, whatever other *)
(* requests did between recording, reading and awarding, and whatever failed.     *)
THEOREM BadgesAreDeserved == Spec => []BadgesDeserved
  BY BadgesAlways, PTL

(* The request that makes a statistic call for a badge goes on to look, and the one that *)
(* looks sees the badge due and awards it.                                               *)
LEMMA AwardStep == TypeOK /\ ReqUsers /\ AwardInv /\ [Next]_vars => AwardInv'
<1> DEFINE OnItsWay(u, b) ==
      \/ <<u, b>> \in badges
      \/ \E s \in Sessions : /\ req[s].user = u
                             /\ req[s].pc = "stats" \/ (req[s].pc = "award" /\ b \in req[s].due)
<1> SUFFICES ASSUME TypeOK, ReqUsers, AwardInv, [Next]_vars, faults' = 0, NEW u \in Users, NEW b \in Milestones,
                    b.of \in {"posts", "unlocks"}, Active(u)', Statistic(row'[u], b) >= b.at
             PROVE  OnItsWay(u, b)'
  BY DEF AwardInv
<1>0. /\ req \in [Sessions -> Request] /\ faults = 0 /\ ~Restart /\ ~Fault
  BY FaultsGrow, BoundsAssumption DEF TypeOK, Fault
<1>1. ASSUME NEW s \in Sessions, RecordPost(s) \/ RecordUnlock(s), req[s].user = u PROVE OnItsWay(u, b)'
  <2>1. Recorded(s)
    BY <1>1 DEF RecordPost, RecordUnlock
  <2>2. req'[s].pc = "stats" /\ req'[s].user = u
    BY <1>0, <1>1, <2>1, RecordedRequest
  <2>3. QED BY <2>2
<1>2. ASSUME ~\E s \in Sessions : (RecordPost(s) \/ RecordUnlock(s)) /\ req[s].user = u PROVE OnItsWay(u, b)'
  <2>1. row'[u] = row[u]
    BY <1>2, RowActions, RecordedRow, UnlockedRow
  <2>2. OnItsWay(u, b)
    BY <1>0, <2>1 DEF AwardInv, Active
  <2>3. badges \subseteq badges'
    BY ZenonT(30) DEF Next, Post, Unlock, Create, CreateError, BeginRecord, RecordPost, RecordLost, StartUnlock,
       UnlockMystery, RecordUnlock, GetStreak, AwardBadges, DeletePost, DeleteMystery, Midnight, Restart
  <2>4. CASE <<u, b>> \in badges
    BY <2>3, <2>4
  <2>5. ASSUME NEW s \in Sessions, req[s].user = u,
               req[s].pc = "stats" \/ (req[s].pc = "award" /\ b \in req[s].due)
        PROVE  OnItsWay(u, b)'
    <3>1. CASE req'[s] = req[s]
      BY <2>5, <3>1
    <3>2. CASE GetStreak(s)
      <4>1. req'[s].pc = "award" /\ req'[s].user = u /\ req'[s].due = Due(row[u], req[s].capsule)
        BY <1>0, <2>5, <3>2, LookedRequest
      <4>2. b \in Due(row[u], req[s].capsule)
        BY <2>1 DEF Due
      <4>3. QED BY <4>1, <4>2
    <3>3. CASE AwardBadges(s)
      <4>1. b \in req[s].due /\ badges' = badges \union ({u} \X req[s].due)
        BY <1>0, <2>5, <3>3 DEF AwardBadges
      <4>2. QED BY <4>1
    <3>4. req'[s] = req[s] \/ GetStreak(s) \/ AwardBadges(s)
      BY <1>0, <2>5, RequestMoves DEF Create, StartUnlock, BeginRecord, UnlockMystery
    <3>5. QED BY <3>1, <3>2, <3>3, <3>4
  <2>6. QED BY <2>2, <2>4, <2>5
<1>3. QED BY <1>1, <1>2

(* No badge slips between the request that counts and the one that looks: without     *)
(* failures an idle user of whom something has been recorded has every badge for posts *)
(* and unlocks that the statistics call for, however many requests of that user run   *)
(* at once and however many posts the migration had counted.                          *)
THEOREM BadgesAreAwarded == Spec => []BadgesAwarded
<1>1. Init => AwardInv
  BY InitialRows DEF AwardInv, Active
<1>2. AwardInv => BadgesAwarded
  BY DEF AwardInv, BadgesAwarded, Busy
<1>3. QED
  BY <1>1, <1>2, AwardStep, TypeAlways, PTL DEF Spec
=============================================================================
