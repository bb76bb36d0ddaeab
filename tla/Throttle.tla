------------------------------ MODULE Throttle ------------------------------
(***************************************************************************)
(* middleware/ratelimit.go: the token bucket per remote address and the     *)
(* cooldown per user, each a map under its own mutex with a goroutine that  *)
(* forgets old entries.  A handler's critical section is one step.          *)
(*                                                                         *)
(* The clock of the code counts nanoseconds and its tokens are fractional:  *)
(* a token comes back in Grain units of time (1/rate seconds), and a bucket *)
(* is counted in the parts of a token that one unit brings back.            *)
(***************************************************************************)
EXTENDS Integers, Sequences

CONSTANTS Clients,    \* remote addresses, each an IP with a port
          Posters,    \* authenticated users
          Burst,      \* maxBurst
          Grain,      \* parts of a token, and the units of time it takes to come back
          Minute,     \* age at which RateLimit's cleanup drops an entry
          Documented, \* requests in a minute that the documentation speaks of
          Cooldown,   \* of AntiSpam
          MaxNow      \* bound: the last moment

Full == Burst * Grain

ASSUME TimesAssumption ==
  /\ Burst \in Nat \ {0} /\ Grain \in Nat \ {0} /\ Documented \in Nat
  /\ Cooldown \in Nat \ {0} /\ MaxNow \in Nat
\* An empty bucket fills up before it is forgotten: 20 tokens at 10 a second, and a minute.
ASSUME RefillAssumption == Minute \in Nat /\ Minute >= Full

VARIABLES
  now,
  visitors,    \* addresses with a bucket
  tokens,      \* ... what was left in it, in parts of a token
  lastSeen,    \* ... when it was last looked at
  known,       \* users with an entry in lastAction
  lastAction,  \* ... and its time
  passed,      \* history: of each address, the times of the requests let through
  refused,     \* history: of each refusal, its time and how many had been let through
  admits       \* history: of each user, the times at which AntiSpam let a request through

bucketVars == <<visitors, tokens, lastSeen, passed, refused>>
spamVars   == <<known, lastAction, admits>>
throttleVars == <<now, bucketVars, spamVars>>

ThrottleInit ==
  /\ now = 0
  /\ visitors = {}
  /\ tokens = [c \in Clients |-> 0] /\ lastSeen = [c \in Clients |-> 0]
  /\ passed = [c \in Clients |-> <<>>] /\ refused = [c \in Clients |-> {}]
  /\ known = {}
  /\ lastAction = [u \in Posters |-> 0] /\ admits = [u \in Posters |-> <<>>]

\* Mutant: the refill is not capped.
RefilledUncapped(c) == IF c \in visitors THEN tokens[c] + (now - lastSeen[c]) ELSE Full

\* Mutant: nothing comes back.
RefilledNever(c) == IF c \in visitors THEN tokens[c] ELSE Full

\* A new address starts with a full bucket; another one's has been filling up.
Refilled(c) ==
  LET t == tokens[c] + (now - lastSeen[c]) IN
  IF c \in visitors /\ t <= Full THEN t ELSE Full

\* The request goes on, or is answered with 429; the bucket is brought up to date either way.
RateLimit(c) ==
  LET t == Refilled(c) IN
  /\ visitors' = visitors \union {c}
  /\ lastSeen' = [lastSeen EXCEPT ![c] = now]
  /\ \/ /\ t >= Grain
        /\ tokens' = [tokens EXCEPT ![c] = t - Grain]
        /\ passed' = [passed EXCEPT ![c] = Append(@, now)]
        /\ UNCHANGED refused
     \/ /\ t < Grain
        /\ tokens' = [tokens EXCEPT ![c] = t]
        /\ refused' = [refused EXCEPT ![c] = @ \union {<<now, Len(passed[c])>>}]
        /\ UNCHANGED passed
  /\ UNCHANGED <<now, spamVars>>

CleanupVisitors ==
  /\ visitors' = {c \in visitors : now - lastSeen[c] <= Minute}
  /\ UNCHANGED <<now, tokens, lastSeen, passed, refused, spamVars>>

\* A user with a recent entry is answered with 429, which changes nothing.
AntiSpam(u) ==
  /\ ~(u \in known /\ now - lastAction[u] < Cooldown)
  /\ known' = known \union {u}
  /\ lastAction' = [lastAction EXCEPT ![u] = now]
  /\ admits' = [admits EXCEPT ![u] = Append(@, now)]
  /\ UNCHANGED <<now, bucketVars>>

\* Mutant: entries go before the cooldown is over.
CleanupEager ==
  /\ known' = {u \in known : now = lastAction[u]}
  /\ UNCHANGED <<now, bucketVars, lastAction, admits>>

CleanupActions ==
  /\ known' = {u \in known : now - lastAction[u] <= 2 * Cooldown}
  /\ UNCHANGED <<now, bucketVars, lastAction, admits>>

Tick == now < MaxNow /\ now' = now + 1 /\ UNCHANGED <<bucketVars, spamVars>>

ThrottleNext ==
  \/ \E c \in Clients : RateLimit(c)
  \/ \E u \in Posters : AntiSpam(u)
  \/ CleanupVisitors \/ CleanupActions \/ Tick

ThrottleSpec == ThrottleInit /\ [][ThrottleNext]_throttleVars
-----------------------------------------------------------------------------
ThrottleTypeOK ==
  /\ now \in 0 .. MaxNow
  /\ visitors \subseteq Clients
  /\ tokens \in [Clients -> 0 .. Full] /\ lastSeen \in [Clients -> 0 .. MaxNow]
  /\ passed \in [Clients -> Seq(Nat)] /\ refused \in [Clients -> SUBSET (Nat \X Nat)]
  /\ known \subseteq Posters
  /\ lastAction \in [Posters -> 0 .. MaxNow] /\ admits \in [Posters -> Seq(Nat)]

\* What so many requests cost.
Cost(requests) == requests * Grain

(* In any stretch of time an address gets through at most a burst and what  *)
(* came back meanwhile, also when its bucket was forgotten in between.      *)
WindowBound ==
  \A c \in Clients : \A i, j \in DOMAIN passed[c] :
    i <= j => Cost(j - i + 1) <= Full + (passed[c][j] - passed[c][i])

(* Nobody is refused without need: had the refused request been let through *)
(* as well, the address would have had more than a burst and what came back *)
(* since some earlier request.                                              *)
RefusalsDeserved ==
  \A c \in Clients : \A r \in refused[c] :
    \E i \in 1 .. r[2] : Cost(r[2] - i + 2) > Full + (r[1] - passed[c][i])

(* docs/architecture.md:142, "Rate limiting par IP (100 req/min,            *)
(* in-memory)": an address alone, one of the possibly many of an IP, gets   *)
(* no more than that through in any minute.                                 *)
DocumentedRate ==
  \A c \in Clients : \A i, j \in DOMAIN passed[c] :
    i <= j /\ passed[c][j] - passed[c][i] < Minute => j - i + 1 <= Documented

(* AntiSpam lets one user through at most once per cooldown, whenever the   *)
(* cleanup runs.                                                            *)
SpacedPosts ==
  \A u \in Posters : \A i, j \in DOMAIN admits[u] :
    i < j => admits[u][j] - admits[u][i] >= Cooldown
=============================================================================
