--------------------------- MODULE ThrottleProofs ---------------------------
(* The bounds that the two limiters keep, for any number of addresses and   *)
(* users, any burst and any times.                                          *)
EXTENDS Throttle, TLAPS

USE DEF throttleVars, bucketVars, spamVars

(* Append adds one element at the end and keeps the others. *)
LEMMA Appended ==
  ASSUME NEW s \in Seq(Nat), NEW x \in Nat
  PROVE  /\ Append(s, x) \in Seq(Nat)
         /\ Len(Append(s, x)) = Len(s) + 1
         /\ \A i \in 1 .. Len(s) : Append(s, x)[i] = s[i]
         /\ Append(s, x)[Len(s) + 1] = x
  OBVIOUS

(* A full bucket is enough for a request, in whatever parts a token is counted. *)
LEMMA FullBucket == Full \in Nat /\ Full >= Grain /\ Grain \in Nat \ {0} /\ Full # 0
<1>1. \A b \in Nat \ {0}, g \in Nat \ {0} : b * g \in Nat /\ b * g >= g
  OBVIOUS
<1>2. QED
  BY <1>1, TimesAssumption DEF Full

(* The cost of the requests from the i-th to the n-th, and of one more. *)
LEMMA Costs ==
  ASSUME NEW n \in Int, NEW i \in Int
  PROVE  /\ Cost(n - i + 1) \in Int
         /\ Cost(n + 1 - i + 1) = Cost(n - i + 1) + Grain
         /\ Cost(n - i + 2) = Cost(n - i + 1) + Grain
         /\ i = n + 1 => Cost(n + 1 - i + 1) = Grain
<1>1. \A g \in Int, k \in Int : k * g \in Int /\ (k + 1) * g = k * g + g /\ 1 * g = g
  OBVIOUS
<1>2. /\ n - i + 1 \in Int
      /\ n + 1 - i + 1 = (n - i + 1) + 1 /\ n - i + 2 = (n - i + 1) + 1
      /\ i = n + 1 => n + 1 - i + 1 = 1
  OBVIOUS
<1>3. Grain \in Int
  BY TimesAssumption
<1> DEFINE k == n - i + 1
<1>4. k \in Int
  BY <1>2
<1> HIDE DEF k
<1>5. k * Grain \in Int /\ (k + 1) * Grain = k * Grain + Grain /\ 1 * Grain = Grain
  BY <1>1, <1>3, <1>4
<1>6. QED
  BY <1>2, <1>5 DEF Cost, k

(* The elements of a sequence of times are times. *)
LEMMA Element == \A s \in Seq(Nat) : Len(s) \in Nat /\ \A i \in 1 .. Len(s) : s[i] \in Nat
  OBVIOUS

(* k requests and r tokens within a burst b since p; both clocks and tokens move on. *)
LEMMA StillBounded ==
  ASSUME NEW b \in Nat, NEW k \in Int, NEW r \in Nat, NEW q \in Nat, NEW t \in Nat, NEW v \in Nat,
         NEW p \in Nat, t <= v
  PROVE  /\ p <= t /\ k + r <= b + (t - p) /\ q <= r + (v - t) => p <= v /\ k + q <= b + (v - p)
         /\ k + r >= b + (t - p) /\ q >= r + (v - t) => k + q >= b + (v - p)
  OBVIOUS

(* The clock never runs behind what was noted. *)
NotedInPast ==
  /\ \A c \in Clients : lastSeen[c] <= now
  /\ \A u \in Posters : lastAction[u] <= now

TypeInv == ThrottleTypeOK /\ NotedInPast

(* A refilled bucket holds between no tokens and a burst. *)
LEMMA RefilledTyped ==
  ASSUME TypeInv
  PROVE  \A c \in Clients : Refilled(c) \in 0 .. Full
<1> SUFFICES ASSUME NEW c \in Clients PROVE Refilled(c) \in 0 .. Full
  OBVIOUS
<1>1. tokens[c] \in 0 .. Full /\ lastSeen[c] \in Nat /\ now \in Nat /\ lastSeen[c] <= now
  BY TimesAssumption DEF TypeInv, ThrottleTypeOK, NotedInPast
<1>2. QED
  BY <1>1, FullBucket DEF Refilled

(* Every step keeps the types, and notes nothing in the future. *)
LEMMA TypeStep == TypeInv /\ [ThrottleNext]_throttleVars => TypeInv'
<1> SUFFICES ASSUME TypeInv, [ThrottleNext]_throttleVars PROVE TypeInv'
  OBVIOUS
<1> USE TimesAssumption DEF TypeInv, ThrottleTypeOK, NotedInPast
<1>1. ASSUME NEW c \in Clients, RateLimit(c) PROVE TypeInv'
  <2>1. Refilled(c) \in 0 .. Full
    BY RefilledTyped
  <2>2. passed' \in [Clients -> Seq(Nat)]
    <3>1. Append(passed[c], now) \in Seq(Nat)
      BY Appended
    <3>2. passed' = passed \/ passed' = [passed EXCEPT ![c] = Append(@, now)]
      BY <1>1 DEF RateLimit
    <3>3. QED
      BY <3>1, <3>2
  <2>3. tokens' \in [Clients -> 0 .. Full]
    <3>1. \E t \in 0 .. Full : tokens' = [tokens EXCEPT ![c] = t]
      <4>1. CASE Refilled(c) >= Grain
        <5>1. Refilled(c) - Grain \in 0 .. Full
          BY <2>1, <4>1, FullBucket
        <5>2. QED
          BY <1>1, <2>1, <4>1, <5>1, FullBucket DEF RateLimit
      <4>2. CASE Refilled(c) < Grain
        BY <1>1, <2>1, <4>2, FullBucket DEF RateLimit
      <4>3. QED
        BY <2>1, <4>1, <4>2, FullBucket
    <3>2. QED
      BY <3>1
  <2>4. refused' \in [Clients -> SUBSET (Nat \X Nat)]
    <3>1. now \in Nat /\ Len(passed[c]) \in Nat
      OBVIOUS
    <3>2. refused[c] \union {<<now, Len(passed[c])>>} \in SUBSET (Nat \X Nat)
      BY <3>1
    <3>3. QED
      BY <1>1, <3>2 DEF RateLimit
  <2>5. /\ visitors' \subseteq Clients
        /\ lastSeen' \in [Clients -> 0 .. MaxNow] /\ \A d \in Clients : lastSeen'[d] <= now
        /\ UNCHANGED <<now, spamVars>>
    BY <1>1 DEF RateLimit
  <2>6. QED
    BY <2>2, <2>3, <2>4, <2>5
<1>2. ASSUME NEW u \in Posters, AntiSpam(u) PROVE TypeInv'
  <2>1. admits' \in [Posters -> Seq(Nat)]
    BY <1>2, Appended DEF AntiSpam
  <2>2. QED
    BY <1>2, <2>1 DEF AntiSpam
<1>3. CASE CleanupVisitors
  BY <1>3 DEF CleanupVisitors
<1>4. CASE CleanupActions
  BY <1>4 DEF CleanupActions
<1>5. CASE Tick
  BY <1>5 DEF Tick
<1>6. CASE UNCHANGED throttleVars
  BY <1>6
<1>7. QED
  BY <1>1, <1>2, <1>3, <1>4, <1>5, <1>6 DEF ThrottleNext

(* At start no address and no user is known. *)
LEMMA TypeStart == ThrottleInit => TypeInv
  BY TimesAssumption, FullBucket DEF ThrottleInit, TypeInv, ThrottleTypeOK, NotedInPast

(* The variables of RateLimit and AntiSpam keep their types: a bucket never *)
(* holds fewer than no tokens or more than a burst.                         *)
THEOREM TypeCorrect == ThrottleSpec => []ThrottleTypeOK
<1>1. TypeInv => ThrottleTypeOK
  BY DEF TypeInv
<1>2. QED
  BY <1>1, TypeStart, TypeStep, PTL DEF ThrottleSpec
-----------------------------------------------------------------------------
(* AntiSpam's entry is the user's last admission, and a user without one    *)
(* has not been let through for at least a cooldown.                        *)
LastAdmission ==
  \A u \in Posters :
    LET n == Len(admits[u]) IN
    /\ u \in known => n > 0 /\ lastAction[u] = admits[u][n]
    /\ n > 0 => admits[u][n] <= now /\ (u \notin known => now - admits[u][n] >= Cooldown)

SpamInv == LastAdmission /\ SpacedPosts

(* Every step keeps the last admission noted or a cooldown ago. *)
LEMMA SpamStep == TypeInv /\ SpamInv /\ [ThrottleNext]_throttleVars => SpamInv'
<1> SUFFICES ASSUME TypeInv, SpamInv, [ThrottleNext]_throttleVars PROVE SpamInv'
  OBVIOUS
<1> USE TimesAssumption DEF TypeInv, ThrottleTypeOK, NotedInPast, SpamInv, LastAdmission, SpacedPosts
<1>1. ASSUME NEW u \in Posters, AntiSpam(u) PROVE SpamInv'
  <2> DEFINE s == admits[u]
             n == Len(s)
  <2>1. s \in Seq(Nat) /\ n \in Nat /\ now \in Nat /\ lastAction[u] \in Nat
    OBVIOUS
  <2>2. n > 0 => now - s[n] >= Cooldown
    BY <1>1, <2>1 DEF AntiSpam
  <2>3. \A i \in 1 .. n : s[i] \in Nat /\ now - s[i] >= Cooldown
    <3> SUFFICES ASSUME NEW i \in 1 .. n PROVE s[i] \in Nat /\ now - s[i] >= Cooldown
      OBVIOUS
    <3>1. s[i] \in Nat /\ s[n] \in Nat /\ (i < n => s[n] - s[i] >= Cooldown)
      BY <2>1
    <3>2. n > 0 /\ (i < n \/ i = n) /\ Cooldown \in Nat
      BY <2>1
    <3> HIDE DEF s, n
    <3>3. QED
      BY SMTT(30), <2>1, <2>2, <3>1, <3>2
  <2>4. admits'[u] = Append(s, now) /\ \A v \in Posters \ {u} : admits'[v] = admits[v]
    BY <1>1 DEF AntiSpam
  <2>5. /\ Len(Append(s, now)) = n + 1
        /\ \A i \in 1 .. n : Append(s, now)[i] = s[i]
        /\ Append(s, now)[n + 1] = now
    BY <2>1, Appended
  <2>6. LastAdmission'
    BY <1>1, <2>1, <2>4, <2>5 DEF AntiSpam
  <2>7. SpacedPosts'
    <3>1. ASSUME NEW i \in 1 .. n + 1, NEW j \in 1 .. n + 1, i < j
          PROVE  admits'[u][j] - admits'[u][i] >= Cooldown
      <4>1. CASE j = n + 1
        BY <2>1, <2>3, <2>4, <2>5, <3>1, <4>1
      <4>2. CASE j # n + 1
        BY SMTT(30), <2>1, <2>4, <2>5, <3>1, <4>2
      <4>3. QED
        BY <4>1, <4>2
    <3>2. DOMAIN admits'[u] = 1 .. n + 1
      BY <2>1, <2>4, <2>5, Appended
    <3>3. QED
      BY <2>1, <2>4, <3>1, <3>2
  <2>8. QED
    BY <2>6, <2>7
<1>2. CASE CleanupActions
  <2>1. ASSUME NEW u \in Posters, u \in known, u \notin known'
        PROVE  now - lastAction[u] >= Cooldown
    BY <1>2, <2>1 DEF CleanupActions
  <2>2. QED
    BY <1>2, <2>1 DEF CleanupActions
<1>3. CASE Tick
  BY <1>3 DEF Tick
<1>4. ASSUME NEW c \in Clients, RateLimit(c) PROVE SpamInv'
  BY <1>4 DEF RateLimit
<1>5. CASE CleanupVisitors
  BY <1>5 DEF CleanupVisitors
<1>6. CASE UNCHANGED throttleVars
  BY <1>6
<1>7. QED
  BY <1>1, <1>2, <1>3, <1>4, <1>5, <1>6 DEF ThrottleNext

(* AntiSpam admits a user at most once per cooldown: forgetting an entry    *)
(* after two cooldowns never lets somebody through early.                   *)
THEOREM OnePostPerCooldown == ThrottleSpec => []SpacedPosts
<1>1. ThrottleInit => SpamInv
  BY DEF ThrottleInit, SpamInv, LastAdmission, SpacedPosts
<1>2. SpamInv => SpacedPosts
  BY DEF SpamInv
<1>3. QED
  BY <1>1, <1>2, TypeStart, TypeStep, SpamStep, PTL DEF ThrottleSpec
-----------------------------------------------------------------------------
(* Since any earlier request of an address, the requests let through and    *)
(* what its bucket would hold now are within a burst and the time gone by:  *)
(* an entry is forgotten only when its bucket is full again.                *)
BucketBounded ==
  \A c \in Clients :
    LET n == Len(passed[c]) IN
    \A i \in 1 .. n : /\ passed[c][i] <= now
                      /\ Cost(n - i + 1) + Refilled(c) <= Full + (now - passed[c][i])

(* A bucket that is not full was emptied by requests in a recent stretch.   *)
BucketSpent ==
  \A c \in Clients :
    LET n == Len(passed[c]) IN
    Refilled(c) = Full
      \/ \E i \in 1 .. n : Cost(n - i + 1) + Refilled(c) >= Full + (now - passed[c][i])

RefusalsPast == \A c \in Clients : \A r \in refused[c] : r[2] <= Len(passed[c])

BucketInv == BucketBounded /\ BucketSpent /\ WindowBound /\ RefusalsPast /\ RefusalsDeserved

(* A step that adds neither request nor refusal keeps the invariant of an   *)
(* address if the bucket has gained no more than the clock.                 *)
LEMMA QuietStep ==
  ASSUME TypeInv, BucketInv, UNCHANGED <<passed, refused>>, now' \in Nat, now' >= now,
         \A c \in Clients : /\ Refilled(c)' \in 0 .. Full
                            /\ Refilled(c)' <= Refilled(c) + (now' - now)
                            /\ Refilled(c)' = Full \/ Refilled(c)' >= Refilled(c) + (now' - now)
  PROVE  BucketInv'
<1> USE TimesAssumption
<1>0. /\ now \in Nat /\ Full \in Nat
      /\ \A c \in Clients : Refilled(c) \in 0 .. Full /\ passed[c] \in Seq(Nat)
  BY RefilledTyped, FullBucket DEF TypeInv, ThrottleTypeOK
<1>1. BucketBounded'
  <2> SUFFICES ASSUME NEW c \in Clients, NEW i \in 1 .. Len(passed[c])
               PROVE  /\ passed[c][i] <= now'
                      /\ Cost(Len(passed[c]) - i + 1) + Refilled(c)' <= Full + (now' - passed[c][i])
    BY DEF BucketBounded
  <2>1. /\ passed[c][i] <= now
        /\ Cost(Len(passed[c]) - i + 1) + Refilled(c) <= Full + (now - passed[c][i])
    BY DEF BucketInv, BucketBounded
  <2>2. passed[c] \in Seq(Nat) /\ Refilled(c) \in Nat /\ Refilled(c)' \in Nat
    BY <1>0
  <2>3. passed[c][i] \in Nat /\ Cost(Len(passed[c]) - i + 1) \in Int
    <3>1. passed[c][i] \in Nat /\ Len(passed[c]) \in Int /\ i \in Int
      BY <2>2, Element
    <3>2. QED
      BY <3>1, Costs, Zenon
  <2>4. QED
    BY <1>0, <2>1, <2>2, <2>3, StillBounded
<1>2. BucketSpent'
  <2> SUFFICES ASSUME NEW c \in Clients, Refilled(c)' # Full
               PROVE  \E i \in 1 .. Len(passed[c]) :
                        Cost(Len(passed[c]) - i + 1) + Refilled(c)' >= Full + (now' - passed[c][i])
    BY DEF BucketSpent
  <2>1. Refilled(c) \in Nat /\ Refilled(c)' \in 0 .. Full /\ Refilled(c)' >= Refilled(c) + (now' - now)
    BY <1>0
  <2>2. Refilled(c) # Full
    BY <1>0, <2>1
  <2>3. PICK i \in 1 .. Len(passed[c]) :
          Cost(Len(passed[c]) - i + 1) + Refilled(c) >= Full + (now - passed[c][i])
    BY <2>2 DEF BucketInv, BucketSpent
  <2>4. passed[c] \in Seq(Nat)
    BY <1>0
  <2>5. passed[c][i] \in Nat /\ Cost(Len(passed[c]) - i + 1) \in Int
    <3>1. passed[c][i] \in Nat /\ Len(passed[c]) \in Int /\ i \in Int
      BY <2>4, Element
    <3>2. QED
      BY <3>1, Costs, Zenon
  <2>6. Cost(Len(passed[c]) - i + 1) + Refilled(c)' >= Full + (now' - passed[c][i])
    <3> DEFINE k == Cost(Len(passed[c]) - i + 1)
               r == Refilled(c)
               q == Refilled(c)'
               p == passed[c][i]
    <3>1. k \in Int /\ r \in Nat /\ q \in Nat /\ p \in Nat /\ now \in Nat /\ Full \in Nat
      BY <1>0, <2>1, <2>5
    <3>2. k + r >= Full + (now - p) /\ q >= r + (now' - now)
      BY <2>1, <2>3
    <3> HIDE DEF k, r, q, p
    <3>3. k + q >= Full + (now' - p)
      BY <3>1, <3>2, StillBounded
    <3>4. QED
      BY <3>3 DEF k, r, q, p
  <2>7. QED
    BY <2>6
<1>3. WindowBound' /\ RefusalsPast' /\ RefusalsDeserved'
  BY DEF BucketInv, WindowBound, RefusalsPast, RefusalsDeserved
<1>4. QED
  BY <1>1, <1>2, <1>3 DEF BucketInv

(* What a request that is let through or refused does to its address. *)
LEMMA RateLimitStep ==
  ASSUME TypeInv, TypeInv', BucketInv, NEW c \in Clients, RateLimit(c)
  PROVE  BucketInv'
<1> DEFINE s == passed[c]
           n == Len(s)
           t == Refilled(c)
<1>0. /\ now \in Nat /\ now' = now /\ Full \in Nat /\ Grain \in Nat \ {0} /\ t \in 0 .. Full
      /\ s \in Seq(Nat) /\ n \in Nat /\ \A i \in 1 .. n : s[i] \in Nat
  <2>1. s \in Seq(Nat) /\ now \in Nat /\ now' = now
    BY DEF TypeInv, ThrottleTypeOK, RateLimit
  <2>2. QED
    BY <2>1, Element, RefilledTyped, FullBucket
<1>1. \A d \in Clients \ {c} : /\ passed'[d] = passed[d] /\ refused'[d] = refused[d]
                               /\ Refilled(d)' = Refilled(d)
  BY DEF RateLimit, Refilled, TypeInv, ThrottleTypeOK
<1>2. Refilled(c)' = tokens'[c]
  <2>1. c \in visitors' /\ lastSeen'[c] = now /\ tokens'[c] \in 0 .. Full /\ now' = now
    BY DEF RateLimit, TypeInv, ThrottleTypeOK
  <2>2. QED
    BY <1>0, <2>1 DEF Refilled
<1>3. /\ \A i \in 1 .. n : s[i] <= now /\ Cost(n - i + 1) + t <= Full + (now - s[i])
      /\ t = Full \/ \E i \in 1 .. n : Cost(n - i + 1) + t >= Full + (now - s[i])
      /\ \A i, j \in 1 .. n : i <= j => Cost(j - i + 1) <= Full + (s[j] - s[i])
      /\ \A r \in refused[c] : r[2] <= n /\ \E i \in 1 .. r[2] : Cost(r[2] - i + 2) > Full + (r[1] - s[i])
  <2>1. DOMAIN s = 1 .. n
    BY <1>0
  <2>2. QED
    BY <2>1 DEF BucketInv, BucketBounded, BucketSpent, WindowBound, RefusalsPast, RefusalsDeserved
<1>4. SUFFICES
        LET m == Len(passed'[c]) IN
        /\ \A i \in 1 .. m : passed'[c][i] <= now /\ Cost(m - i + 1) + tokens'[c] <= Full + (now - passed'[c][i])
        /\ tokens'[c] = Full
             \/ \E i \in 1 .. m : Cost(m - i + 1) + tokens'[c] >= Full + (now - passed'[c][i])
        /\ \A i, j \in DOMAIN passed'[c] : i <= j => Cost(j - i + 1) <= Full + (passed'[c][j] - passed'[c][i])
        /\ \A r \in refused'[c] :
             r[2] <= m /\ \E i \in 1 .. r[2] : Cost(r[2] - i + 2) > Full + (r[1] - passed'[c][i])
  <2>1. BucketBounded' /\ BucketSpent'
    BY <1>0, <1>1, <1>2, <1>4 DEF BucketInv, BucketBounded, BucketSpent
  <2>2. WindowBound' /\ RefusalsPast' /\ RefusalsDeserved'
    BY <1>1, <1>4 DEF BucketInv, WindowBound, RefusalsPast, RefusalsDeserved
  <2>3. QED
    BY <2>1, <2>2 DEF BucketInv
<1>5. CASE t < Grain
  <2>1. passed'[c] = s /\ tokens'[c] = t /\ refused'[c] = refused[c] \union {<<now, n>>}
    BY <1>0, <1>5 DEF RateLimit, TypeInv, ThrottleTypeOK
  <2>2. \E i \in 1 .. n : Cost(n - i + 2) > Full + (now - s[i])
    <3>1. t # Full
      BY <1>0, <1>5, FullBucket
    <3>2. PICK i \in 1 .. n : Cost(n - i + 1) + t >= Full + (now - s[i])
      BY <1>3, <3>1
    <3>3. i \in Int /\ n \in Int /\ s[i] \in Nat
      BY <1>0
    <3>4. Cost(n - i + 2) = Cost(n - i + 1) + Grain /\ Cost(n - i + 1) \in Int
      BY <3>3, Costs, Zenon
    <3> DEFINE x == Cost(n - i + 1)
               y == Cost(n - i + 2)
               z == s[i]
    <3>5. /\ x \in Int /\ y = x + Grain /\ x + t >= Full + (now - z)
          /\ z \in Nat /\ t \in Nat /\ t < Grain /\ Grain \in Nat /\ Full \in Nat /\ now \in Nat
      BY <1>0, <1>5, <3>2, <3>3, <3>4
    <3> HIDE DEF x, y, z, t
    <3>6. y > Full + (now - z)
      BY <3>5
    <3>7. QED
      BY <3>6 DEF y, z
  <2>3. DOMAIN s = 1 .. n
    BY <1>0
  <2>4. \A i \in 1 .. n : s[i] <= now /\ Cost(n - i + 1) + tokens'[c] <= Full + (now - s[i])
    BY <1>3, <2>1
  <2>5. tokens'[c] = Full \/ \E i \in 1 .. n : Cost(n - i + 1) + tokens'[c] >= Full + (now - s[i])
    BY <1>3, <2>1
  <2>6. ASSUME NEW r \in refused'[c]
        PROVE  r[2] <= n /\ \E i \in 1 .. r[2] : Cost(r[2] - i + 2) > Full + (r[1] - s[i])
    <3>1. CASE r \in refused[c]
      BY <1>3, <3>1
    <3>2. CASE r = <<now, n>>
      BY SMTT(30), <1>0, <2>2, <3>2
    <3>3. QED
      BY <2>1, <2>6, <3>1, <3>2
  <2>7. passed'[c] = s /\ Len(s) = n /\ DOMAIN s = 1 .. n
    BY <2>1, <2>3
  <2> HIDE DEF s, n, t
  <2>8. QED
    BY <1>3, <2>4, <2>5, <2>6, <2>7
<1>6. CASE t >= Grain
  <2>1. passed'[c] = Append(s, now) /\ tokens'[c] = t - Grain /\ refused'[c] = refused[c]
    BY <1>0, <1>6 DEF RateLimit, TypeInv, ThrottleTypeOK
  <2>2. /\ Len(Append(s, now)) = n + 1 /\ DOMAIN Append(s, now) = 1 .. n + 1
        /\ \A i \in 1 .. n : Append(s, now)[i] = s[i]
        /\ Append(s, now)[n + 1] = now
    BY <1>0, Appended
  <2> DEFINE p == Append(s, now)
  <2> HIDE DEF p, s, n, t
  <2>3. /\ p[n + 1] = now
        /\ \A i \in 1 .. n + 1 : i = n + 1 \/ (i \in 1 .. n /\ p[i] = s[i])
    BY <1>0, <2>2 DEF p
  <2>4. \A i \in 1 .. n + 1 : p[i] <= now /\ Cost(n + 1 - i + 1) + (t - Grain) <= Full + (now - p[i])
    <3> SUFFICES ASSUME NEW i \in 1 .. n + 1
                 PROVE  p[i] <= now /\ Cost(n + 1 - i + 1) + (t - Grain) <= Full + (now - p[i])
      OBVIOUS
    <3>1. CASE i = n + 1
      <4>1. Cost(n + 1 - i + 1) = Grain /\ p[i] = now
        <5>1. i \in Int /\ n \in Int
          BY <1>0
        <5>2. Cost(n + 1 - i + 1) = Grain
          BY <3>1, <5>1, Costs, Zenon
        <5>3. QED
          BY <2>3, <3>1, <5>2
      <4>2. QED
        BY <1>0, <4>1, FullBucket
    <3>2. CASE i \in 1 .. n /\ p[i] = s[i]
      <4>1. s[i] \in Nat /\ s[i] <= now /\ Cost(n - i + 1) + t <= Full + (now - s[i])
        BY <1>0, <1>3, <3>2
      <4>2. Cost(n + 1 - i + 1) = Cost(n - i + 1) + Grain /\ Cost(n - i + 1) \in Int
        <5>1. i \in Int /\ n \in Int
          BY <1>0, <3>2
        <5>2. QED
          BY <5>1, Costs, Zenon
      <4>3. QED
        BY <1>0, <3>2, <4>1, <4>2
    <3>3. QED
      BY <2>3, <3>1, <3>2
  <2>5. t - Grain = Full \/ \E i \in 1 .. n + 1 : Cost(n + 1 - i + 1) + (t - Grain) >= Full + (now - p[i])
    <3>1. CASE t = Full
      <4>1. Cost(n + 1 - (n + 1) + 1) + (t - Grain) >= Full + (now - p[n + 1]) /\ n + 1 \in 1 .. n + 1
        <5>1. n \in Int /\ n + 1 \in Int /\ n + 1 \in 1 .. n + 1
          BY <1>0
        <5>2. Cost(n + 1 - (n + 1) + 1) = Grain
          BY <5>1, Costs, Zenon
        <5>3. QED
          BY <1>0, <2>3, <3>1, <5>1, <5>2
      <4>2. QED
        BY <4>1
    <3>2. CASE t # Full
      <4>1. PICK i \in 1 .. n : Cost(n - i + 1) + t >= Full + (now - s[i])
        BY <1>3, <3>2
      <4>2. i \in 1 .. n + 1 /\ p[i] = s[i] /\ s[i] \in Nat
        BY <1>0, <2>2 DEF p
      <4>3. Cost(n + 1 - i + 1) = Cost(n - i + 1) + Grain /\ Cost(n - i + 1) \in Int
        <5>1. i \in Int /\ n \in Int
          BY <1>0, <4>1
        <5>2. QED
          BY <5>1, Costs, Zenon
      <4>4. Cost(n + 1 - i + 1) + (t - Grain) >= Full + (now - p[i])
        BY <1>0, <4>1, <4>2, <4>3
      <4>5. QED
        BY <4>2, <4>4
    <3>3. QED
      BY <3>1, <3>2
  <2>6. \A i, j \in 1 .. n + 1 : i <= j => Cost(j - i + 1) <= Full + (p[j] - p[i])
    <3> SUFFICES ASSUME NEW i \in 1 .. n + 1, NEW j \in 1 .. n + 1, i <= j
                 PROVE  Cost(j - i + 1) <= Full + (p[j] - p[i])
      OBVIOUS
    <3>1. CASE j = n + 1
      <4>1. p[i] \in Nat
        BY <1>0, <2>3
      <4>2. p[j] = now /\ Cost(n + 1 - i + 1) + (t - Grain) <= Full + (now - p[i])
        BY <2>3, <2>4, <3>1
      <4>3. Cost(n + 1 - i + 1) \in Int
        <5>1. n \in Int /\ i \in Int
          BY <1>0
        <5>2. Cost(n + 1 - i + 1) = Cost(n - i + 1) + Grain /\ Cost(n - i + 1) \in Int
          BY <5>1, Costs, Zenon
        <5>3. QED BY <1>0, <5>2
      <4>4. QED
        BY <1>0, <1>6, <3>1, <4>1, <4>2, <4>3
    <3>2. CASE j # n + 1
      <4>1. i \in 1 .. n /\ j \in 1 .. n /\ p[i] = s[i] /\ p[j] = s[j]
        BY <1>0, <2>2, <3>2 DEF p
      <4>2. QED
        BY <1>3, <4>1
    <3>3. QED
      BY <3>1, <3>2
  <2>7. ASSUME NEW r \in refused[c]
        PROVE  r[2] <= n + 1 /\ \E i \in 1 .. r[2] : Cost(r[2] - i + 2) > Full + (r[1] - p[i])
    <3>1. r[1] \in Nat /\ r[2] \in Nat
      BY DEF TypeInv, ThrottleTypeOK
    <3>2. PICK i \in 1 .. r[2] : Cost(r[2] - i + 2) > Full + (r[1] - s[i])
      BY <1>3
    <3>3. r[2] <= n /\ i \in 1 .. n
      BY <1>0, <1>3, <3>1
    <3>4. p[i] = s[i]
      BY <2>2, <3>3 DEF p
    <3>5. QED
      BY <1>0, <3>1, <3>2, <3>3, <3>4
  <2>8. /\ passed'[c] = p /\ Len(p) = n + 1 /\ DOMAIN p = 1 .. n + 1
        /\ tokens'[c] = t - Grain /\ refused'[c] = refused[c]
    BY <2>1, <2>2 DEF p
  <2> DEFINE m == Len(passed'[c])
  <2>9. m = n + 1
    BY <2>8
  <2> HIDE DEF m
  <2>10. \A i \in 1 .. m : passed'[c][i] <= now /\ Cost(m - i + 1) + tokens'[c] <= Full + (now - passed'[c][i])
    BY <1>0, <2>4, <2>8, <2>9
  <2>11. tokens'[c] = Full
           \/ \E i \in 1 .. m : Cost(m - i + 1) + tokens'[c] >= Full + (now - passed'[c][i])
    BY <1>0, <2>5, <2>8, <2>9
  <2>12. \A i, j \in DOMAIN passed'[c] : i <= j => Cost(j - i + 1) <= Full + (passed'[c][j] - passed'[c][i])
    BY <2>6, <2>8
  <2>13. \A r \in refused'[c] :
           r[2] <= m /\ \E i \in 1 .. r[2] : Cost(r[2] - i + 2) > Full + (r[1] - passed'[c][i])
    BY <2>7, <2>8, <2>9
  <2>14. QED
    BY <2>10, <2>11, <2>12, <2>13 DEF m
<1>7. QED
  BY <1>0, <1>5, <1>6

(* Every step keeps both inequalities between tokens and admissions. *)
LEMMA BucketStep == TypeInv /\ TypeInv' /\ BucketInv /\ [ThrottleNext]_throttleVars => BucketInv'
<1> SUFFICES ASSUME TypeInv, TypeInv', BucketInv, [ThrottleNext]_throttleVars PROVE BucketInv'
  OBVIOUS
<1> USE TimesAssumption, RefillAssumption
<1>0. /\ now \in Nat /\ now' \in Nat /\ Full \in Nat
      /\ \A c \in Clients : /\ Refilled(c) \in 0 .. Full /\ Refilled(c)' \in 0 .. Full
                            /\ passed[c] \in Seq(Nat)
                            /\ tokens[c] \in 0 .. Full /\ lastSeen[c] \in Nat /\ lastSeen[c] <= now
  <2>1. (\A c \in Clients : Refilled(c) \in 0 .. Full)'
    BY RefilledTyped, PTL
  <2>2. \A c \in Clients : Refilled(c) \in 0 .. Full
    BY RefilledTyped
  <2>3. now' \in Nat
    BY DEF TypeInv, ThrottleTypeOK
  <2>4. /\ now \in Nat
        /\ \A c \in Clients : /\ passed[c] \in Seq(Nat) /\ tokens[c] \in 0 .. Full
                              /\ lastSeen[c] \in Nat /\ lastSeen[c] <= now
    BY DEF TypeInv, ThrottleTypeOK, NotedInPast
  <2>5. QED
    BY <2>1, <2>2, <2>3, <2>4, FullBucket
<1>1. ASSUME NEW c \in Clients, RateLimit(c) PROVE BucketInv'
  BY <1>1, RateLimitStep
<1>2. CASE CleanupVisitors
  <2>1. ASSUME NEW c \in Clients PROVE Refilled(c)' = Refilled(c)
    <3>1. UNCHANGED <<now, tokens, lastSeen>>
          /\ (c \in visitors' => c \in visitors)
          /\ (c \in visitors /\ c \notin visitors' => now - lastSeen[c] > Minute)
      BY <1>2, <1>0 DEF CleanupVisitors
    <3>2. CASE c \in visitors /\ c \notin visitors'
      BY <1>0, <3>1, <3>2 DEF Refilled
    <3>3. CASE c \notin visitors \/ c \in visitors'
      BY <1>0, <3>1, <3>3 DEF Refilled
    <3>4. QED
      BY <3>2, <3>3
  <2>2. UNCHANGED <<now, passed, refused>>
    BY <1>2 DEF CleanupVisitors
  <2>3. QED
    BY <1>0, <2>1, <2>2, QuietStep
<1>3. CASE Tick
  <2>1. now' = now + 1 /\ UNCHANGED <<visitors, tokens, lastSeen, passed, refused>>
    BY <1>3 DEF Tick
  <2>2. ASSUME NEW c \in Clients
        PROVE  /\ Refilled(c)' <= Refilled(c) + (now' - now)
               /\ Refilled(c)' = Full \/ Refilled(c)' >= Refilled(c) + (now' - now)
    BY SMTT(30), <1>0, <2>1 DEF Refilled
  <2>3. QED
    BY <1>0, <2>1, <2>2, QuietStep
<1>4. ASSUME UNCHANGED <<now, bucketVars>> PROVE BucketInv'
  <2>1. \A c \in Clients : Refilled(c)' = Refilled(c)
    BY <1>4 DEF Refilled
  <2>2. QED
    BY <1>0, <1>4, <2>1, QuietStep
<1>5. QED
  BY <1>1, <1>2, <1>3, <1>4 DEF ThrottleNext, AntiSpam, CleanupActions

(* At start nobody was let through. *)
LEMMA BucketStart == ThrottleInit => BucketInv
<1> SUFFICES ASSUME ThrottleInit PROVE BucketInv
  OBVIOUS
<1>1. \A c \in Clients : Len(passed[c]) = 0 /\ DOMAIN passed[c] = {} /\ refused[c] = {} /\ Refilled(c) = Full
  <2> SUFFICES ASSUME NEW c \in Clients
               PROVE  Len(passed[c]) = 0 /\ DOMAIN passed[c] = {} /\ refused[c] = {} /\ Refilled(c) = Full
    OBVIOUS
  <2>1. passed[c] = <<>> /\ refused[c] = {} /\ c \notin visitors
    BY DEF ThrottleInit
  <2>2. Refilled(c) = Full
    BY <2>1 DEF Refilled
  <2>3. QED
    BY <2>1, <2>2
<1>2. QED
  BY <1>1 DEF BucketInv, BucketBounded, BucketSpent, WindowBound, RefusalsPast, RefusalsDeserved

(* Within any stretch of time an address gets through at most a burst and   *)
(* one request per Grain units of time: the cleanup goroutine never refills a      *)
(* bucket early, because a bucket is full before it is forgotten.           *)
THEOREM RateIsBounded == ThrottleSpec => []WindowBound
<1>1. BucketInv => WindowBound
  BY DEF BucketInv
<1>2. QED
  BY <1>1, TypeStart, TypeStep, BucketStart, BucketStep, PTL DEF ThrottleSpec

(* A request is answered with 429 only if with it the address would have    *)
(* had more than a burst and what came back since some earlier request, in  *)
(* whatever parts tokens and time are counted.                              *)
THEOREM RefusalsAreDeserved == ThrottleSpec => []RefusalsDeserved
<1>1. BucketInv => RefusalsDeserved
  BY DEF BucketInv
<1>2. QED
  BY <1>1, TypeStart, TypeStep, BucketStart, BucketStep, PTL DEF ThrottleSpec
=============================================================================
