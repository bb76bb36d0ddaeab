------------------------- MODULE NearbyCacheProofs -------------------------
(* What the nearby query may show, for any messages, users, requests, time  *)
(* to live, timeout and number of faults.                                   *)
EXTENDS NearbyCache, TLAPS

USE DEF vars, tableVars, cacheVars, writerVars

(* Whoever sends a request is a requester. *)
LEMMA AskersIn == Askers \subseteq Requesters
  BY AskersAssumption DEF Requesters

(* Every requester has a key. *)
LEMMA KeyOfRequester == \A u \in Requesters : GridKey(u) \in Keys
  BY DEF GridKey, Keys, Requesters

(* LIMIT adds no row. *)
LEMMA NearestWithin == \A S, k : Nearest(S, k) \subseteq S
  BY DEF Nearest

(* The records that stand for "nothing" have the types of the others. *)
LEMMA NothingTyped == NoAnswer \in Reply /\ NoEntry \in Entry /\ Idle \in Request
  BY TimesAssumption DEF NoAnswer, Reply, NoEntry, Entry, Idle, Request, Requesters

(* A request that begins has the type of requests. *)
LEMMA NewRequestTyped ==
  ASSUME NEW u \in Requesters, NEW k \in Limits, NEW p \in BOOLEAN
  PROVE  NewRequest(u, k, p) \in Request
  BY LimitsAssumption, TimesAssumption DEF NewRequest, Request

(* The answer of a step is NoAnswer or is built from typed parts. *)
LEMMA AnswerTyped ==
  ASSUME NEW q \in Request, NEW list \in SUBSET Messages, NEW hide \in SUBSET Messages,
         NEW d \in BOOLEAN, Answer(q, list, hide, d)
  PROVE  answer' \in Reply
  BY DEF Answer, Request, Reply

(* Faults are counted up to their bound. *)
LEMMA FaultTyped ==
  ASSUME faults \in 0 .. MaxFaults, Fault \/ UNCHANGED faults
  PROVE  faults' \in 0 .. MaxFaults
  BY FaultsAssumption DEF Fault

(* Only listed messages are masked. *)
LEMMA ToMaskWithin == \A u, list, failed : ToMask(u, list, failed) \subseteq list
  BY DEF ToMask

(* The store keeps the types of the cache. *)
LEMMA StoreTyped ==
  ASSUME TypeOK, NEW r \in Readers, Store(r)
  PROVE  /\ cached' \subseteq Keys
         /\ entry' \in [Keys -> Entry]
<1>1. get[r] \in Request
  BY DEF TypeOK
<1>2. GridKey(get[r].user) \in Keys
  BY <1>1, KeyOfRequester DEF Request
<1>3. [list |-> get[r].rows, masked |-> get[r].masked, age |-> 0, readAge |-> get[r].readAge]
        \in Entry
  BY <1>1 DEF Request, Entry
<1>4. QED
  BY <1>2, <1>3 DEF TypeOK, Store

(* A unit of time keeps the types: it passes only while no request is past its timeout. *)
LEMMA TickTyped ==
  ASSUME TypeOK, Tick
  PROVE  cached' \subseteq Keys /\ entry' \in [Keys -> Entry] /\ get' \in [Readers -> Request]
<1>1. cached' \subseteq Keys
  BY DEF TypeOK, Tick
<1>2. ASSUME NEW k \in Keys PROVE entry'[k] \in Entry
  <2>1. entry[k] \in Entry
    BY DEF TypeOK
  <2>2. entry[k].age + 1 \in Nat /\ entry[k].readAge + 1 \in Nat
    BY <2>1 DEF Entry
  <2>3. [entry[k] EXCEPT !.age = entry[k].age + 1, !.readAge = entry[k].readAge + 1] \in Entry
    BY <2>1, <2>2 DEF Entry
  <2>4. QED
    BY <2>3, NothingTyped DEF Tick
<1>3. ASSUME NEW r \in Readers PROVE get'[r] \in Request
  <2>0. get[r] \in Request /\ ~(get[r].busy >= Patience)
    BY DEF TypeOK, Tick, TimedOut
  <2>1. get[r] \in Request /\ get[r].busy \in 0 .. Patience /\ get[r].busy < Patience
    BY <2>0, TimesAssumption DEF Request
  <2>2. ASSUME NEW b \in 0 .. Patience, NEW a \in Nat
        PROVE  [get[r] EXCEPT !.busy = b, !.readAge = a] \in Request
    BY <2>1 DEF Request
  <2>3. get[r].readAge \in Nat
    BY <2>1 DEF Request
  <2> DEFINE b == IF get[r].pc = "idle" THEN 0 ELSE get[r].busy + 1
             a == IF get[r].pc \in {"mask", "store"} THEN get[r].readAge + 1 ELSE 0
  <2>4. b \in 0 .. Patience
    BY <2>1, TimesAssumption
  <2>5. a \in Nat
    BY <2>3
  <2>6. get'[r] = [get[r] EXCEPT !.busy = b, !.readAge = a]
    BY DEF Tick
  <2> HIDE DEF a, b
  <2>7. QED
    BY <2>2, <2>4, <2>5, <2>6
<1>4. entry' = [k \in Keys |-> entry'[k]] /\ get' = [r \in Readers |-> get'[r]]
  BY DEF Tick
<1>5. QED
  BY <1>1, <1>2, <1>3, <1>4

(* The rows that the query step keeps are visible to its requester. *)
LEMMA QueryRows ==
  ASSUME NEW r \in Readers, Query(r)
  PROVE  \E rows \in SUBSET VisibleTo(get[r].user) :
           get' = [get EXCEPT ![r].pc = "mask", ![r].rows = rows]
<1> DEFINE all == Nearest(VisibleTo(get[r].user), get[r].limit)
<1>1. PICK n \in 0 .. Cardinality(all) :
        get' = [get EXCEPT ![r].pc = "mask", ![r].rows = Nearest(all, n)]
  BY DEF Query
<1>2. Nearest(all, n) \subseteq all /\ all \subseteq VisibleTo(get[r].user)
  BY NearestWithin
<1> HIDE DEF all
<1>3. QED
  BY <1>1, <1>2

(* Every action keeps the value domains. *)
LEMMA TypeStep == TypeOK /\ [Next]_vars => TypeOK'
<1> SUFFICES ASSUME TypeOK, [Next]_vars PROVE TypeOK'
  OBVIOUS
<1>1. ASSUME NEW r \in Readers, NEW u \in Requesters, NEW k \in Limits, NEW p \in BOOLEAN,
             Hit(r, NewRequest(u, k, p))
      PROVE  TypeOK'
  <2> DEFINE q == NewRequest(u, k, p)
  <2>1. q \in Request
    BY NewRequestTyped
  <2>2. entry[GridKey(q.user)] \in Entry
    BY <2>1, KeyOfRequester DEF TypeOK, Request
  <2>3. /\ entry[GridKey(q.user)].list \in SUBSET Messages
        /\ entry[GridKey(q.user)].masked \in SUBSET Messages
    BY <2>2 DEF Entry
  <2>4. Answer(q, entry[GridKey(q.user)].list, entry[GridKey(q.user)].masked, FALSE)
    BY <1>1 DEF Hit
  <2>5. answer' \in Reply
    BY <2>1, <2>3, <2>4, AnswerTyped
  <2>6. QED
    BY <1>1, <2>5 DEF Hit, TypeOK
<1>2. ASSUME NEW r \in Readers, NEW u \in Requesters, NEW k \in Limits, NEW p \in BOOLEAN,
             Miss(r, NewRequest(u, k, p))
      PROVE  TypeOK'
  <2>1. faults' \in 0 .. MaxFaults
    BY <1>2, FaultTyped DEF Miss, TypeOK
  <2>2. QED
    BY <1>2, <2>1, NewRequestTyped, NothingTyped DEF Miss, NoReply, TypeOK
<1>3. ASSUME NEW r \in Readers, Query(r) PROVE TypeOK'
  <2>1. faults' \in 0 .. MaxFaults
    BY <1>3, FaultTyped DEF Query, TypeOK
  <2>2. PICK rows \in SUBSET VisibleTo(get[r].user) :
          get' = [get EXCEPT ![r].pc = "mask", ![r].rows = rows]
    BY <1>3, QueryRows
  <2>3. get[r] \in Request /\ rows \in SUBSET Messages
    BY DEF VisibleTo, TypeOK
  <2>4. get' \in [Readers -> Request]
    <3>1. [get[r] EXCEPT !.pc = "mask", !.rows = rows] \in Request
      BY <2>3 DEF Request
    <3>2. QED
      BY <2>2, <3>1 DEF TypeOK
  <2>5. QED
    BY <1>3, <2>1, <2>4, NothingTyped DEF Query, NoReply, TypeOK
<1>4. ASSUME NEW r \in Readers, QueryError(r) PROVE TypeOK'
  <2>1. faults' \in 0 .. MaxFaults
    BY <1>4, FaultTyped DEF QueryError, TypeOK
  <2>2. QED
    BY <1>4, <2>1, NothingTyped DEF QueryError, Return, NoReply, TypeOK
<1>5. ASSUME NEW r \in Readers, Mask(r) PROVE TypeOK'
  <2>1. get[r] \in Request /\ get[r].rows \in SUBSET Messages
    BY DEF TypeOK, Request
  <2>2. PICK failed \in SUBSET get[r].rows :
          LET hide == ToMask(get[r].user, get[r].rows, failed) IN
          /\ Fault \/ UNCHANGED faults
          /\ \/ /\ get' = [get EXCEPT ![r].pc = "store", ![r].masked = hide]
                /\ NoReply
             \/ Return(r) /\ Answer(get[r], get[r].rows, hide, failed # {})
    BY <1>5 DEF Mask
  <2> DEFINE hide == ToMask(get[r].user, get[r].rows, failed)
  <2>3. hide \in SUBSET Messages
    BY <2>1, ToMaskWithin
  <2>4. faults' \in 0 .. MaxFaults
    BY <2>2, FaultTyped DEF TypeOK
  <2> HIDE DEF hide
  <2>5. get' \in [Readers -> Request] /\ answer' \in Reply
    <3>1. CASE get' = [get EXCEPT ![r].pc = "store", ![r].masked = hide] /\ NoReply
      BY ZenonT(30), <3>1, <2>3, NothingTyped DEF NoReply, TypeOK, Request
    <3>2. CASE Return(r) /\ Answer(get[r], get[r].rows, hide, failed # {})
      <4>1. answer' \in Reply
        BY <3>2, <2>1, <2>3, AnswerTyped
      <4>2. QED
        BY <3>2, <4>1, NothingTyped DEF Return, TypeOK
    <3>3. QED
      BY <2>2, <3>1, <3>2 DEF hide
  <2>6. QED
    BY <1>5, <2>4, <2>5 DEF Mask, TypeOK
<1>6. ASSUME NEW r \in Readers, Store(r) PROVE TypeOK'
  <2>1. get[r] \in Request /\ get[r].rows \in SUBSET Messages /\ get[r].masked \in SUBSET Messages
    BY DEF TypeOK, Request
  <2>2. answer' \in Reply
    BY <1>6, <2>1, AnswerTyped DEF Store
  <2>3. faults' \in 0 .. MaxFaults
    BY <1>6, FaultTyped DEF Store, TypeOK
  <2>4. get' \in [Readers -> Request]
    BY <1>6, NothingTyped DEF Store, Return, TypeOK
  <2>5. QED
    BY <1>6, <2>2, <2>3, <2>4, StoreTyped DEF Store, TypeOK
<1>7. ASSUME NEW w \in Writers, NEW m \in Messages, Create(w, m) PROVE TypeOK'
  BY <1>7, NothingTyped DEF Create, NoReply, TypeOK
<1>8. ASSUME NEW w \in Writers, NEW m \in Messages, Delete(w, m) PROVE TypeOK'
  BY <1>8, NothingTyped DEF Delete, NoReply, TypeOK
<1>9. ASSUME NEW w \in Writers, Scan(w) PROVE TypeOK'
  <2>1. faults' \in 0 .. MaxFaults
    BY <1>9, FaultTyped DEF Scan, TypeOK
  <2>2. QED
    BY <1>9, <2>1, NothingTyped DEF Scan, NoReply, TypeOK
<1>10. ASSUME NEW w \in Writers, Del(w) PROVE TypeOK'
  <2>1. faults' \in 0 .. MaxFaults
    BY <1>10, FaultTyped DEF Del, TypeOK
  <2>2. QED
    BY <1>10, <2>1, NothingTyped DEF Del, NoReply, TypeOK
<1>11. ASSUME NEW m \in Messages, HideMessage(m) \/ Reveal(m) \/ Expire(m) PROVE TypeOK'
  BY <1>11, NothingTyped DEF HideMessage, Reveal, Expire, NoReply, TypeOK
<1>12. ASSUME NEW m \in Messages, NEW u \in Users, Unlock(m, u) PROVE TypeOK'
  BY <1>12, NothingTyped DEF Unlock, NoReply, TypeOK
<1>13. CASE Tick
  BY <1>13, TickTyped, NothingTyped DEF Tick, NoReply, TypeOK
<1>14. CASE UNCHANGED vars
  BY <1>14 DEF TypeOK
<1>15. QED
  BY <1>1, <1>2, <1>3, <1>4, <1>5, <1>6, <1>7, <1>8, <1>9, <1>10, <1>11, <1>12, <1>13, <1>14,
     AskersIn
  DEF Next, GetNearby

(* The initial state has its types. *)
LEMMA TypeInit == Init => TypeOK
  BY NothingTyped, FaultsAssumption DEF Init, TypeOK

(* The variables of the nearby query keep their types, for every instance:  *)
(* in particular no request is busy for longer than its timeout.            *)
THEOREM TypeCorrect == Spec => []TypeOK
  BY TypeInit, TypeStep, PTL DEF Spec
-----------------------------------------------------------------------------
(***************************************************************************)
(* OnlyReadable.  It is about the answer of a step; what makes it inductive *)
(* is that a list is fit for its requester from the moment it is read (as   *)
(* to visibility) or masked (as to content), and in the cache for as long   *)
(* as it stays there, since a permission to read is never withdrawn.        *)
(***************************************************************************)
Distinct == \A u, v \in Users : Prefix[u] = Prefix[v] => u = v

Fit(u, list, hide) ==
  \A m \in list : /\ m \notin hide => MayRead(u, m)
                  /\ Visibility[m] = "private" => Author[m] = u

RowsVisible ==
  \A r \in Readers : get[r].pc \in {"mask", "store"} =>
    \A m \in get[r].rows : Visibility[m] = "private" => Author[m] = get[r].user
ToStoreFit ==
  \A r \in Readers : get[r].pc = "store" => Fit(get[r].user, get[r].rows, get[r].masked)
CacheFit ==
  Distinct => \A u \in Requesters : GridKey(u) \in cached =>
                Fit(u, entry[GridKey(u)].list, entry[GridKey(u)].masked)

ReadableInv == RowsVisible /\ ToStoreFit /\ CacheFit /\ OnlyReadable

(* No step withdraws a permission to read. *)
LEMMA GrantedGrows == [Next]_vars => granted \subseteq granted'
<1> SUFFICES ASSUME [Next]_vars PROVE granted \subseteq granted'
  OBVIOUS
<1>1. ASSUME NEW r \in Readers, GetNearby(r) PROVE granted' = granted
  BY <1>1 DEF GetNearby, Hit, Miss, Query, QueryError, Mask, Store
<1>2. ASSUME NEW w \in Writers, (\E m \in Messages : Create(w, m) \/ Delete(w, m)) \/ Scan(w) \/ Del(w)
      PROVE  granted' = granted
  BY <1>2 DEF Create, Delete, Scan, Del
<1>3. ASSUME NEW m \in Messages, HideMessage(m) \/ Reveal(m) \/ Expire(m) PROVE granted' = granted
  BY <1>3 DEF HideMessage, Reveal, Expire
<1>4. ASSUME NEW m \in Messages, NEW u \in Users, Unlock(m, u)
      PROVE  granted' = granted \union {<<m, u>>}
  BY <1>4 DEF Unlock
<1>5. CASE Tick \/ UNCHANGED vars
  BY <1>5 DEF Tick
<1>6. QED
  BY <1>1, <1>2, <1>3, <1>4, <1>5 DEF Next

(* What a requester may read, he may read for good: unlocks are remembered. *)
LEMMA FitKept ==
  ASSUME [Next]_vars, NEW u, NEW list, NEW hide, Fit(u, list, hide)
  PROVE  Fit(u, list, hide)'
  BY GrantedGrows DEF Fit, MayRead

(* With distinct prefixes, no two requesters have the same key. *)
LEMMA KeysApart ==
  ASSUME Distinct, NEW u \in Requesters, NEW v \in Requesters, GridKey(u) = GridKey(v)
  PROVE  u = v
  BY AnonAssumption DEF Distinct, Requesters, GridKey

(* What the masking loop leaves in clear may be read. *)
LEMMA MaskedFit ==
  ASSUME TypeOK, NEW u, NEW list \in SUBSET Messages, NEW failed,
         \A m \in list : Visibility[m] = "private" => Author[m] = u
  PROVE  Fit(u, list, ToMask(u, list, failed))
  BY DEF Fit, MayRead, ToMask, TypeOK

(* A fit answer satisfies OnlyReadable; so does none. *)
LEMMA FitAnswer ==
  ASSUME [Next]_vars, NEW q, NEW list, NEW hide, NEW d,
         Answer(q, list, hide, d), Distinct => Fit(q.user, list, hide)
  PROVE  OnlyReadable'
<1>1. answer'.user = q.user /\ answer'.list = list /\ answer'.masked = hide
  BY DEF Answer
<1>2. Distinct => Fit(q.user, list, hide)'
  BY FitKept
<1>3. QED
  BY <1>1, <1>2 DEF OnlyReadable, Distinct, Fit, MayRead

(* A step without an answer shows nothing. *)
LEMMA NoAnswerFit == NoReply => OnlyReadable'
  BY DEF NoReply, NoAnswer, OnlyReadable

(* The lists of requests that a step leaves alone stay fit. *)
LEMMA GetsKept ==
  ASSUME TypeOK, [Next]_vars, RowsVisible, ToStoreFit,
         \A r \in Readers : \/ get'[r].pc \in {"idle", "query"}
                            \/ /\ get'[r].pc = get[r].pc /\ get'[r].user = get[r].user
                               /\ get'[r].rows = get[r].rows /\ get'[r].masked = get[r].masked
  PROVE  RowsVisible' /\ ToStoreFit'
<1>1. RowsVisible'
  BY DEF RowsVisible
<1>2. ASSUME NEW r \in Readers, get'[r].pc = "store"
      PROVE  Fit(get[r].user, get[r].rows, get[r].masked)'
  <2>1. Fit(get[r].user, get[r].rows, get[r].masked)
    BY <1>2 DEF ToStoreFit
  <2>2. QED
    BY <1>2, <2>1, GrantedGrows DEF Fit, MayRead
<1>3. QED
  BY <1>1, <1>2 DEF ToStoreFit

(* So do the entries of the cache. *)
LEMMA CacheKept ==
  ASSUME [Next]_vars, CacheFit,
         \A k \in cached' : /\ k \in cached
                            /\ entry'[k].list = entry[k].list
                            /\ entry'[k].masked = entry[k].masked
  PROVE  CacheFit'
<1> SUFFICES ASSUME Distinct, NEW u \in Requesters, GridKey(u) \in cached'
             PROVE  Fit(u, entry[GridKey(u)].list, entry[GridKey(u)].masked)'
  BY DEF CacheFit, Distinct, GridKey
<1>1. Fit(u, entry[GridKey(u)].list, entry[GridKey(u)].masked)
  BY DEF CacheFit
<1>2. QED
  BY <1>1, GrantedGrows DEF Fit, MayRead, GridKey

(* Every step keeps lists fit for whoever will read them. *)
LEMMA ReadableStep == TypeOK /\ ReadableInv /\ [Next]_vars => ReadableInv'
<1> SUFFICES ASSUME TypeOK, ReadableInv, [Next]_vars PROVE ReadableInv'
  OBVIOUS
<1>0. RowsVisible /\ ToStoreFit /\ CacheFit
  BY DEF ReadableInv
<1>1. ASSUME NEW r \in Readers, NEW u \in Requesters, NEW k \in Limits, NEW p \in BOOLEAN,
             Hit(r, NewRequest(u, k, p))
      PROVE  ReadableInv'
  <2> DEFINE q == NewRequest(u, k, p)
  <2>1. q.user = u
    BY DEF NewRequest
  <2>2. Distinct => Fit(q.user, entry[GridKey(q.user)].list, entry[GridKey(q.user)].masked)
    BY <1>0, <1>1, <2>1 DEF CacheFit, Hit
  <2>3. OnlyReadable'
    BY <1>1, <2>2, FitAnswer DEF Hit
  <2>4. RowsVisible' /\ ToStoreFit'
    BY <1>0, <1>1, GetsKept DEF Hit
  <2>5. CacheFit'
    BY <1>0, <1>1, CacheKept DEF Hit
  <2>6. QED
    BY <2>3, <2>4, <2>5 DEF ReadableInv
<1>2. ASSUME NEW r \in Readers, NEW u \in Requesters, NEW k \in Limits, NEW p \in BOOLEAN,
             Miss(r, NewRequest(u, k, p))
      PROVE  ReadableInv'
  <2>1. NewRequest(u, k, p).pc = "query"
    BY DEF NewRequest
  <2>2. RowsVisible' /\ ToStoreFit'
    BY <1>0, <1>2, <2>1, GetsKept DEF Miss, TypeOK
  <2>3. CacheFit'
    BY <1>0, <1>2, CacheKept DEF Miss
  <2>4. QED
    BY <1>2, <2>2, <2>3, NoAnswerFit DEF ReadableInv, Miss
<1>3. ASSUME NEW r \in Readers, Query(r) PROVE ReadableInv'
  <2>1. PICK rows \in SUBSET VisibleTo(get[r].user) :
          get' = [get EXCEPT ![r].pc = "mask", ![r].rows = rows]
    BY <1>3, QueryRows
  <2>2. \A m \in rows : Visibility[m] = "private" => Author[m] = get[r].user
    BY AttributesAssumption DEF VisibleTo
  <2>3. /\ get'[r].pc = "mask" /\ get'[r].rows = rows /\ get'[r].user = get[r].user
        /\ \A x \in Readers \ {r} : get'[x] = get[x]
    BY <2>1 DEF TypeOK, Request
  <2>4. RowsVisible'
    BY <1>0, <2>2, <2>3 DEF RowsVisible
  <2>5. ToStoreFit'
    BY <1>0, <2>3, GrantedGrows DEF ToStoreFit, Fit, MayRead
  <2>6. CacheFit'
    BY <1>0, <1>3, CacheKept DEF Query
  <2>7. QED
    BY <1>3, <2>4, <2>5, <2>6, NoAnswerFit DEF ReadableInv, Query
<1>4. ASSUME NEW r \in Readers, QueryError(r) PROVE ReadableInv'
  <2>1. RowsVisible' /\ ToStoreFit'
    BY <1>0, <1>4, GetsKept DEF QueryError, Return, Idle, TypeOK
  <2>2. CacheFit'
    BY <1>0, <1>4, CacheKept DEF QueryError
  <2>3. QED
    BY <1>4, <2>1, <2>2, NoAnswerFit DEF ReadableInv, QueryError
<1>5. ASSUME NEW r \in Readers, Mask(r) PROVE ReadableInv'
  <2>1. get[r] \in Request /\ get[r].rows \in SUBSET Messages /\ get[r].pc = "mask"
    BY <1>5 DEF TypeOK, Request, Mask
  <2>2. PICK failed \in SUBSET get[r].rows :
          LET hide == ToMask(get[r].user, get[r].rows, failed) IN
          \/ get' = [get EXCEPT ![r].pc = "store", ![r].masked = hide] /\ NoReply
          \/ Return(r) /\ Answer(get[r], get[r].rows, hide, failed # {})
    BY <1>5 DEF Mask
  <2> DEFINE hide == ToMask(get[r].user, get[r].rows, failed)
  <2>3. Fit(get[r].user, get[r].rows, hide)
    BY <1>0, <2>1, MaskedFit DEF RowsVisible
  <2>4. CacheFit'
    BY <1>0, <1>5, CacheKept DEF Mask
  <2> HIDE DEF hide
  <2>5. CASE get' = [get EXCEPT ![r].pc = "store", ![r].masked = hide] /\ NoReply
    <3>1. /\ get'[r].rows = get[r].rows /\ get'[r].user = get[r].user
          /\ get'[r].masked = hide /\ get'[r].pc = "store"
          /\ \A x \in Readers \ {r} : get'[x] = get[x]
      BY <2>1, <2>5 DEF TypeOK, Request
    <3>2. RowsVisible'
      BY <1>0, <2>1, <3>1 DEF RowsVisible
    <3>3. ToStoreFit'
      BY <1>0, <2>3, <3>1, GrantedGrows DEF ToStoreFit, Fit, MayRead
    <3>4. QED
      BY <2>4, <2>5, <3>2, <3>3, NoAnswerFit DEF ReadableInv
  <2>6. CASE Return(r) /\ Answer(get[r], get[r].rows, hide, failed # {})
    <3>1. RowsVisible' /\ ToStoreFit'
      BY <1>0, <2>6, GetsKept DEF Return, Idle, TypeOK
    <3>2. OnlyReadable'
      BY <2>3, <2>6, FitAnswer
    <3>3. QED
      BY <2>4, <3>1, <3>2 DEF ReadableInv
  <2>7. QED
    BY <2>2, <2>5, <2>6 DEF hide
<1>6. ASSUME NEW r \in Readers, Store(r) PROVE ReadableInv'
  <2>1. get[r] \in Request /\ get[r].pc = "store" /\ Fit(get[r].user, get[r].rows, get[r].masked)
    BY <1>0, <1>6 DEF TypeOK, Store, ToStoreFit
  <2>2. OnlyReadable'
    BY <1>6, <2>1, FitAnswer DEF Store
  <2>3. RowsVisible' /\ ToStoreFit'
    BY <1>0, <1>6, GetsKept DEF Store, Return, Idle, TypeOK
  <2>4. CacheFit'
    <3> DEFINE g == GridKey(get[r].user)
    <3>0. get[r].user \in Requesters
      BY <2>1 DEF Request
    <3>1. CASE UNCHANGED cacheVars
      BY <1>0, <3>1, CacheKept
    <3>2. CASE /\ cached' = cached \union {g}
               /\ entry' = [entry EXCEPT ![g] = [list |-> get[r].rows, masked |-> get[r].masked,
                                                age |-> 0, readAge |-> get[r].readAge]]
      <4> SUFFICES ASSUME Distinct, NEW u \in Requesters, GridKey(u) \in cached'
                   PROVE  Fit(u, entry[GridKey(u)].list, entry[GridKey(u)].masked)'
        BY DEF CacheFit, Distinct, GridKey
      <4>1. CASE GridKey(u) = g
        <5>1. u = get[r].user
          BY <4>1, <3>0, KeysApart
        <5>2. g \in Keys
          BY <3>0, KeyOfRequester
        <5>3. entry'[g].list = get[r].rows /\ entry'[g].masked = get[r].masked
          BY <3>2, <5>2 DEF TypeOK
        <5>4. QED
          BY <2>1, <4>1, <5>1, <5>3, GrantedGrows DEF Fit, MayRead, GridKey
      <4>2. CASE GridKey(u) # g
        <5>1. GridKey(u) \in cached /\ entry'[GridKey(u)] = entry[GridKey(u)]
          BY <3>2, <4>2, KeyOfRequester DEF TypeOK
        <5>2. Fit(u, entry[GridKey(u)].list, entry[GridKey(u)].masked)
          BY <1>0, <5>1 DEF CacheFit
        <5>3. QED
          BY <5>1, <5>2, GrantedGrows DEF Fit, MayRead, GridKey
      <4>3. QED
        BY <4>1, <4>2
    <3>3. QED
      BY <1>6, <3>1, <3>2 DEF Store
  <2>5. QED
    BY <2>2, <2>3, <2>4 DEF ReadableInv
<1>7. ASSUME NEW w \in Writers,
             (\E m \in Messages : Create(w, m) \/ Delete(w, m)) \/ Scan(w)
      PROVE  ReadableInv'
  <2>1. NoReply /\ UNCHANGED <<cached, entry, get>>
    BY <1>7 DEF Create, Delete, Scan
  <2>2. QED
    BY <1>0, <2>1, GetsKept, CacheKept, NoAnswerFit DEF ReadableInv
<1>8. ASSUME NEW w \in Writers, Del(w) PROVE ReadableInv'
  <2>1. NoReply /\ UNCHANGED get /\ \A k \in cached' : k \in cached /\ entry'[k] = entry[k]
    BY <1>8 DEF Del, TypeOK
  <2>2. QED
    BY <1>0, <2>1, GetsKept, CacheKept, NoAnswerFit DEF ReadableInv
<1>9. ASSUME NEW m \in Messages,
             HideMessage(m) \/ Reveal(m) \/ Expire(m) \/ \E u \in Users : Unlock(m, u)
      PROVE  ReadableInv'
  <2>1. NoReply /\ UNCHANGED <<cached, entry, get>>
    BY <1>9 DEF HideMessage, Reveal, Expire, Unlock
  <2>2. QED
    BY <1>0, <2>1, GetsKept, CacheKept, NoAnswerFit DEF ReadableInv
<1>10. CASE Tick
  <2>1. \A r \in Readers : /\ get'[r].pc = get[r].pc /\ get'[r].user = get[r].user
                           /\ get'[r].rows = get[r].rows /\ get'[r].masked = get[r].masked
    BY ZenonT(30), <1>10 DEF Tick, TypeOK, Request
  <2>2. RowsVisible' /\ ToStoreFit'
    BY <1>0, <2>1, GetsKept
  <2>3. \A k \in cached' : /\ k \in cached
                           /\ entry'[k].list = entry[k].list /\ entry'[k].masked = entry[k].masked
    BY ZenonT(30), <1>10 DEF Tick, TypeOK, Entry
  <2>4. CacheFit'
    BY <1>0, <2>3, CacheKept
  <2>5. QED
    BY <1>10, <2>2, <2>4, NoAnswerFit DEF ReadableInv, Tick
<1>11. CASE UNCHANGED vars
  <2>1. OnlyReadable'
    BY <1>11 DEF ReadableInv, OnlyReadable, MayRead
  <2>2. QED
    BY <1>0, <1>11, <2>1, GetsKept, CacheKept DEF ReadableInv
<1>12. QED
  BY <1>1, <1>2, <1>3, <1>4, <1>5, <1>6, <1>7, <1>8, <1>9, <1>10, <1>11, AskersIn DEF Next, GetNearby

(* At start there is no list. *)
LEMMA ReadableInit == Init => ReadableInv
  BY DEF Init, ReadableInv, RowsVisible, ToStoreFit, CacheFit, OnlyReadable, Idle, NoAnswer

(* GetNearby shows nobody a private message of someone else or the content  *)
(* of a mystery they have neither written nor unlocked, through whatever    *)
(* cache hits, races with writers, partial reads and failed unlock checks,  *)
(* as long as no two users share the prefix used in the key.                *)
THEOREM NearbyShowsOnlyReadable == Spec => []OnlyReadable
<1>1. TypeOK /\ ReadableInv /\ [Next]_vars => (TypeOK /\ ReadableInv)'
  BY TypeStep, ReadableStep
<1>2. TypeOK /\ ReadableInv => OnlyReadable
  BY DEF ReadableInv
<1>3. QED
  BY <1>1, <1>2, TypeInit, ReadableInit, PTL DEF Spec
-----------------------------------------------------------------------------
(***************************************************************************)
(* UnlockedIsReadable.  No list with masked content reaches the cache, and  *)
(* what a request's user had unlocked when it began stays unlocked until    *)
(* the message is deleted, which is final.                                  *)
(***************************************************************************)
CacheClear == \A k \in cached : entry[k].masked = {}
ToStoreClear == \A r \in Readers : get[r].pc = "store" => get[r].masked = {}
Lasting(u, before) == \A m \in before : <<m, u>> \in unlocked \/ status[m] = "deleted"
BeforeLasts == \A r \in Readers : Lasting(get[r].user, get[r].before)

ClearInv == CacheClear /\ ToStoreClear /\ BeforeLasts /\ UnlockedIsReadable

(* An unlock is undone only by the deletion of its message, and a deleted   *)
(* message stays deleted.                                                   *)
LEMMA LastingStep ==
  ASSUME TypeOK, [Next]_vars, NEW u, NEW before \in SUBSET Messages, Lasting(u, before)
  PROVE  \A m \in before : <<m, u>> \in unlocked' \/ status'[m] = "deleted"
<1> SUFFICES ASSUME NEW x \in before PROVE <<x, u>> \in unlocked' \/ status'[x] = "deleted"
  OBVIOUS
<1>0. x \in Messages /\ (<<x, u>> \in unlocked \/ status[x] = "deleted")
  BY DEF Lasting
<1>1. ASSUME NEW r \in Readers, GetNearby(r) PROVE UNCHANGED <<status, unlocked>>
  BY <1>1 DEF GetNearby, Hit, Miss, Query, QueryError, Mask, Store
<1>2. ASSUME NEW w \in Writers, NEW m \in Messages, Create(w, m)
      PROVE  unlocked' = unlocked /\ (status[x] = "deleted" => status'[x] = "deleted")
  BY <1>0, <1>2 DEF Create, TypeOK
<1>3. ASSUME NEW w \in Writers, NEW m \in Messages, Delete(w, m)
      PROVE  <<x, u>> \in unlocked' \/ status'[x] = "deleted"
  <2>1. CASE x = m
    BY <1>0, <1>3, <2>1 DEF Delete, TypeOK
  <2>2. CASE x # m
    <3>1. status'[x] = status[x]
      BY <1>0, <1>3, <2>2 DEF Delete, TypeOK
    <3>2. <<x, u>> \in unlocked => <<x, u>> \in unlocked'
      BY <1>3, <2>2 DEF Delete
    <3>3. QED
      BY <1>0, <3>1, <3>2
  <2>3. QED
    BY <2>1, <2>2
<1>4. ASSUME NEW w \in Writers, Scan(w) \/ Del(w) PROVE UNCHANGED <<status, unlocked>>
  BY <1>4 DEF Scan, Del
<1>5. ASSUME NEW m \in Messages, HideMessage(m) \/ Reveal(m) \/ Expire(m)
      PROVE  unlocked' = unlocked /\ (status[x] = "deleted" => status'[x] = "deleted")
  BY <1>0, <1>5 DEF HideMessage, Reveal, Expire, TypeOK
<1>6. ASSUME NEW m \in Messages, NEW v \in Users, Unlock(m, v)
      PROVE  unlocked \subseteq unlocked' /\ status' = status
  BY <1>6 DEF Unlock
<1>7. CASE Tick \/ UNCHANGED vars
  BY <1>0, <1>7 DEF Tick
<1>8. QED
  BY <1>0, <1>1, <1>2, <1>3, <1>4, <1>5, <1>6, <1>7 DEF Next

(* The requests after a step have the user and the unlocks before the       *)
(* request that they had, or have just begun, or are idle.                  *)
LEMMA BeforeKept ==
  ASSUME TypeOK, [Next]_vars, BeforeLasts,
         \A r \in Readers :
           \/ get'[r].user = get[r].user /\ get'[r].before = get[r].before
           \/ \A m \in get'[r].before : <<m, get'[r].user>> \in unlocked'
  PROVE  BeforeLasts'
<1> SUFFICES ASSUME NEW r \in Readers PROVE Lasting(get[r].user, get[r].before)'
  BY DEF BeforeLasts
<1>1. CASE get'[r].user = get[r].user /\ get'[r].before = get[r].before
  <2> DEFINE u == get[r].user
             before == get[r].before
  <2>1. Lasting(u, before) /\ before \in SUBSET Messages
    BY DEF BeforeLasts, TypeOK, Request
  <2>2. \A m \in before : <<m, u>> \in unlocked' \/ status'[m] = "deleted"
    BY <2>1, LastingStep
  <2>3. QED
    BY <1>1, <2>2 DEF Lasting
<1>2. CASE \A m \in get'[r].before : <<m, get'[r].user>> \in unlocked'
  BY <1>2 DEF Lasting
<1>3. QED
  BY <1>1, <1>2

(* A step without an answer hides nothing. *)
LEMMA NoAnswerClear == NoReply => UnlockedIsReadable'
  BY DEF NoReply, NoAnswer, UnlockedIsReadable

(* An answer that masks nothing hides nothing that was unlocked. *)
LEMMA ClearAnswer ==
  ASSUME NEW q, NEW list, NEW d, Answer(q, list, {}, d)
  PROVE  UnlockedIsReadable'
  BY DEF Answer, UnlockedIsReadable

(* Every step keeps masked messages out of the cache. *)
LEMMA ClearStep == TypeOK /\ ClearInv /\ [Next]_vars => ClearInv'
<1> SUFFICES ASSUME TypeOK, ClearInv, [Next]_vars PROVE ClearInv'
  OBVIOUS
<1>0. CacheClear /\ ToStoreClear /\ BeforeLasts
  BY DEF ClearInv
<1>a. Idle.pc = "idle" /\ Idle.before = {}
  BY DEF Idle
<1>1. ASSUME NEW r \in Readers, NEW u \in Requesters, NEW k \in Limits, NEW p \in BOOLEAN,
             Hit(r, NewRequest(u, k, p))
      PROVE  ClearInv'
  <2> DEFINE q == NewRequest(u, k, p)
  <2>1. entry[GridKey(q.user)].masked = {}
    BY <1>0, <1>1 DEF CacheClear, Hit
  <2>2. UnlockedIsReadable'
    BY <1>1, <2>1, ClearAnswer DEF Hit
  <2>3. BeforeLasts'
    BY <1>0, <1>1, BeforeKept DEF Hit
  <2>4. QED
    BY <1>0, <1>1, <2>2, <2>3 DEF Hit, ClearInv, CacheClear, ToStoreClear
<1>2. ASSUME NEW r \in Readers, NEW u \in Requesters, NEW k \in Limits, NEW p \in BOOLEAN,
             Miss(r, NewRequest(u, k, p))
      PROVE  ClearInv'
  <2> DEFINE q == NewRequest(u, k, p)
  <2>1. q.pc = "query" /\ \A m \in q.before : <<m, q.user>> \in unlocked
    BY DEF NewRequest
  <2> HIDE DEF q
  <2>2. get' = [get EXCEPT ![r] = q] /\ UNCHANGED <<unlocked, cached, entry>> /\ NoReply
    BY <1>2 DEF Miss, q
  <2>3. BeforeLasts'
    BY <1>0, <2>1, <2>2, BeforeKept DEF TypeOK
  <2>4. QED
    BY <1>0, <2>1, <2>2, <2>3, NoAnswerClear DEF TypeOK, ClearInv, CacheClear, ToStoreClear
<1>3. ASSUME NEW r \in Readers, Query(r) PROVE ClearInv'
  <2>1. PICK rows \in SUBSET VisibleTo(get[r].user) :
          get' = [get EXCEPT ![r].pc = "mask", ![r].rows = rows]
    BY <1>3, QueryRows
  <2>2. /\ get'[r].pc = "mask" /\ get'[r].before = get[r].before /\ get'[r].user = get[r].user
        /\ \A x \in Readers \ {r} : get'[x] = get[x]
    BY <2>1 DEF TypeOK, Request
  <2>3. BeforeLasts'
    BY <1>0, <2>2, BeforeKept
  <2>4. UNCHANGED <<cached, entry>> /\ NoReply
    BY <1>3 DEF Query
  <2>5. QED
    BY <1>0, <2>2, <2>3, <2>4, NoAnswerClear DEF ClearInv, CacheClear, ToStoreClear
<1>4. ASSUME NEW r \in Readers, QueryError(r) PROVE ClearInv'
  <2>1. get' = [get EXCEPT ![r] = Idle] /\ UNCHANGED <<cached, entry>> /\ NoReply
    BY <1>4 DEF QueryError, Return
  <2>2. BeforeLasts'
    BY <1>0, <1>a, <2>1, BeforeKept DEF TypeOK
  <2>3. QED
    BY <1>0, <1>a, <2>1, <2>2, NoAnswerClear DEF TypeOK, ClearInv, CacheClear, ToStoreClear
<1>5. ASSUME NEW r \in Readers, Mask(r) PROVE ClearInv'
  <2>1. get[r] \in Request
    BY DEF TypeOK
  <2>2. PICK failed \in SUBSET get[r].rows :
          LET hide == ToMask(get[r].user, get[r].rows, failed) IN
          \/ /\ hide = {} /\ NoReply
             /\ get' = [get EXCEPT ![r].pc = "store", ![r].masked = hide]
          \/ Return(r) /\ Answer(get[r], get[r].rows, hide, failed # {})
    BY <1>5 DEF Mask
  <2> DEFINE hide == ToMask(get[r].user, get[r].rows, failed)
  <2>3. failed = {} => \A m \in hide : <<m, get[r].user>> \notin unlocked
    BY DEF ToMask
  <2>4. UNCHANGED <<cached, entry, status, unlocked>>
    BY <1>5 DEF Mask
  <2> HIDE DEF hide
  <2>5. CASE hide = {} /\ NoReply /\ get' = [get EXCEPT ![r].pc = "store", ![r].masked = hide]
    <3>1. /\ get'[r].masked = {} /\ get'[r].before = get[r].before /\ get'[r].user = get[r].user
          /\ \A x \in Readers \ {r} : get'[x] = get[x]
      BY <2>1, <2>5 DEF TypeOK, Request
    <3>2. BeforeLasts'
      BY <1>0, <3>1, BeforeKept
    <3>3. QED
      BY <1>0, <2>4, <2>5, <3>1, <3>2, NoAnswerClear DEF ClearInv, CacheClear, ToStoreClear
  <2>6. CASE Return(r) /\ Answer(get[r], get[r].rows, hide, failed # {})
    <3>1. get' = [get EXCEPT ![r] = Idle]
      BY <2>6 DEF Return
    <3>2. BeforeLasts'
      BY <1>0, <1>a, <3>1, BeforeKept DEF TypeOK
    <3>3. /\ answer'.masked = hide /\ answer'.before = get[r].before
          /\ answer'.degraded = (failed # {})
      BY <2>6 DEF Answer
    <3>4. UnlockedIsReadable'
      BY <1>0, <2>3, <2>4, <3>3 DEF UnlockedIsReadable, BeforeLasts, Lasting
    <3>5. QED
      BY <1>0, <1>a, <2>4, <3>1, <3>2, <3>4 DEF TypeOK, ClearInv, CacheClear, ToStoreClear
  <2>7. QED
    BY <2>2, <2>5, <2>6 DEF hide
<1>6. ASSUME NEW r \in Readers, Store(r) PROVE ClearInv'
  <2>1. get[r].masked = {}
    BY <1>0, <1>6 DEF Store, ToStoreClear
  <2>2. UnlockedIsReadable'
    BY <1>6, <2>1, ClearAnswer DEF Store
  <2>3. get' = [get EXCEPT ![r] = Idle]
    BY <1>6 DEF Store, Return
  <2>4. BeforeLasts' /\ ToStoreClear'
    BY <1>0, <1>a, <2>3, BeforeKept DEF TypeOK, ToStoreClear
  <2>5. CacheClear'
    <3>1. CASE UNCHANGED cacheVars
      BY <1>0, <3>1 DEF CacheClear
    <3>2. CASE ~UNCHANGED cacheVars
      <4>1. PICK k \in Keys : /\ cached' = cached \union {k}
                              /\ entry' = [entry EXCEPT ![k] =
                                   [list |-> get[r].rows, masked |-> get[r].masked,
                                    age |-> 0, readAge |-> get[r].readAge]]
        BY <1>6, <3>2, KeyOfRequester DEF Store, TypeOK, Request
      <4>2. QED
        BY <1>0, <2>1, <4>1 DEF CacheClear, TypeOK
    <3>3. QED
      BY <3>1, <3>2
  <2>6. QED
    BY <2>2, <2>4, <2>5 DEF ClearInv
<1>7. ASSUME NEW w \in Writers,
             (\E m \in Messages : Create(w, m) \/ Delete(w, m)) \/ Scan(w) \/ Del(w)
      PROVE  ClearInv'
  <2>1. NoReply /\ UNCHANGED get
    BY <1>7 DEF Create, Delete, Scan, Del
  <2>2. BeforeLasts'
    BY <1>0, <2>1, BeforeKept
  <2>3. CacheClear'
    BY <1>0, <1>7 DEF Create, Delete, Scan, Del, CacheClear, TypeOK
  <2>4. QED
    BY <1>0, <2>1, <2>2, <2>3, NoAnswerClear DEF ClearInv, ToStoreClear
<1>8. ASSUME NEW m \in Messages,
             HideMessage(m) \/ Reveal(m) \/ Expire(m) \/ \E u \in Users : Unlock(m, u)
      PROVE  ClearInv'
  <2>1. NoReply /\ UNCHANGED <<cached, entry, get>>
    BY <1>8 DEF HideMessage, Reveal, Expire, Unlock
  <2>2. BeforeLasts'
    BY <1>0, <2>1, BeforeKept
  <2>3. QED
    BY <1>0, <2>1, <2>2, NoAnswerClear DEF ClearInv, CacheClear, ToStoreClear
<1>9. CASE Tick
  <2>1. \A r \in Readers : /\ get'[r].pc = get[r].pc /\ get'[r].user = get[r].user
                           /\ get'[r].before = get[r].before /\ get'[r].masked = get[r].masked
    BY ZenonT(30), <1>9 DEF Tick, TypeOK, Request
  <2>2. BeforeLasts' /\ ToStoreClear'
    BY <1>0, <2>1, BeforeKept DEF ToStoreClear
  <2>3. \A k \in cached' : k \in cached /\ entry'[k].masked = entry[k].masked
    BY ZenonT(30), <1>9 DEF Tick, TypeOK, Entry
  <2>4. QED
    BY <1>0, <1>9, <2>2, <2>3, NoAnswerClear DEF ClearInv, CacheClear, Tick
<1>10. CASE UNCHANGED vars
  BY <1>10 DEF ClearInv, CacheClear, ToStoreClear, BeforeLasts, Lasting, UnlockedIsReadable
<1>11. QED
  BY <1>1, <1>2, <1>3, <1>4, <1>5, <1>6, <1>7, <1>8, <1>9, <1>10, AskersIn DEF Next, GetNearby

(* At start nothing is cached and nobody waits. *)
LEMMA ClearInit == Init => ClearInv
  BY DEF Init, ClearInv, CacheClear, ToStoreClear, BeforeLasts, Lasting, UnlockedIsReadable,
         Idle, NoAnswer

(* A user who has unlocked a mystery reads it in every list requested from  *)
(* then on, cached or not, unless a call failed or the message was deleted  *)
(* meanwhile.                                                               *)
THEOREM NearbyShowsUnlocked == Spec => []UnlockedIsReadable
<1>1. TypeOK /\ ClearInv /\ [Next]_vars => (TypeOK /\ ClearInv)'
  BY TypeStep, ClearStep
<1>2. TypeOK /\ ClearInv => UnlockedIsReadable
  BY DEF ClearInv
<1>3. QED
  BY <1>1, <1>2, TypeInit, ClearInit, PTL DEF Spec
-----------------------------------------------------------------------------
(***************************************************************************)
(* StalenessBounded.  An entry is younger than the time to live, its rows   *)
(* are older than it by at most what the request that stored it took, and   *)
(* no request takes longer than its timeout.                                *)
(***************************************************************************)
EntryAges == \A k \in cached : entry[k].age < TTL /\ entry[k].readAge < entry[k].age + Patience
RequestAges == \A r \in Readers : get[r].readAge <= get[r].busy

AgeInv == EntryAges /\ RequestAges

(* Every step keeps the ages of lists within their bounds. *)
LEMMA AgeStep == TypeOK /\ AgeInv /\ [Next]_vars => AgeInv'
<1> SUFFICES ASSUME TypeOK, EntryAges, RequestAges, [Next]_vars PROVE EntryAges' /\ RequestAges'
  BY DEF AgeInv
<1>a. Idle.readAge = 0 /\ Idle.busy = 0
  BY DEF Idle
<1>1. ASSUME NEW r \in Readers, NEW u \in Requesters, NEW k \in Limits, NEW p \in BOOLEAN,
             Hit(r, NewRequest(u, k, p)) \/ Miss(r, NewRequest(u, k, p))
      PROVE  EntryAges' /\ RequestAges'
  <2>1. NewRequest(u, k, p).readAge = 0 /\ NewRequest(u, k, p).busy = 0
    BY DEF NewRequest
  <2>2. UNCHANGED <<cached, entry>>
    BY <1>1 DEF Hit, Miss
  <2>3. get' = get \/ get' = [get EXCEPT ![r] = NewRequest(u, k, p)]
    BY <1>1 DEF Hit, Miss
  <2>4. RequestAges'
    BY <2>1, <2>3 DEF RequestAges, TypeOK
  <2>5. QED
    BY <2>2, <2>4 DEF EntryAges
<1>2. ASSUME NEW r \in Readers, Query(r) PROVE EntryAges' /\ RequestAges'
  <2>1. PICK rows : get' = [get EXCEPT ![r].pc = "mask", ![r].rows = rows]
    BY <1>2, QueryRows
  <2>2. \A x \in Readers : get'[x].readAge = get[x].readAge /\ get'[x].busy = get[x].busy
    BY <2>1 DEF TypeOK, Request
  <2>3. QED
    BY <1>2, <2>2 DEF Query, EntryAges, RequestAges
<1>3. ASSUME NEW r \in Readers, QueryError(r) PROVE EntryAges' /\ RequestAges'
  BY <1>3, <1>a DEF QueryError, Return, EntryAges, RequestAges, TypeOK
<1>4. ASSUME NEW r \in Readers, Mask(r) PROVE EntryAges' /\ RequestAges'
  <2>1. \/ Return(r)
        \/ \E hide : get' = [get EXCEPT ![r].pc = "store", ![r].masked = hide]
    BY <1>4 DEF Mask
  <2>2. RequestAges'
    BY <1>a, <2>1 DEF Return, RequestAges, TypeOK, Request
  <2>3. QED
    BY <1>4, <2>2 DEF Mask, EntryAges
<1>5. ASSUME NEW r \in Readers, Store(r) PROVE EntryAges' /\ RequestAges'
  <2>1. RequestAges'
    BY <1>5, <1>a DEF Store, Return, RequestAges, TypeOK
  <2>2. get[r].readAge \in Nat /\ get[r].readAge <= get[r].busy /\ get[r].busy <= Patience
    BY TimesAssumption DEF RequestAges, TypeOK, Request
  <2>3. CASE UNCHANGED cacheVars
    BY <2>1, <2>3 DEF EntryAges
  <2>4. CASE ~UNCHANGED cacheVars
    <3>1. PICK k \in Keys : /\ cached' = cached \union {k}
                            /\ entry' = [entry EXCEPT ![k] =
                                 [list |-> get[r].rows, masked |-> get[r].masked,
                                  age |-> 0, readAge |-> get[r].readAge]]
      BY <1>5, <2>4, KeyOfRequester DEF Store, TypeOK, Request
    <3>2. /\ entry'[k].age = 0 /\ entry'[k].readAge = get[r].readAge
          /\ \A x \in Keys \ {k} : entry'[x] = entry[x]
      BY <3>1 DEF TypeOK
    <3>3. get[r].readAge < Patience
      BY <1>5, <2>2, <2>4, TimesAssumption DEF Store, TimedOut, TypeOK, Request
    <3>4. 0 < TTL /\ entry'[k].readAge < entry'[k].age + Patience
      BY <2>2, <3>2, <3>3, TimesAssumption
    <3>5. QED
      BY <2>1, <3>1, <3>2, <3>4 DEF EntryAges
  <2>5. QED
    BY <2>3, <2>4
<1>6. ASSUME NEW w \in Writers,
             (\E m \in Messages : Create(w, m) \/ Delete(w, m)) \/ Scan(w) \/ Del(w)
      PROVE  EntryAges' /\ RequestAges'
  BY <1>6 DEF Create, Delete, Scan, Del, EntryAges, RequestAges, TypeOK
<1>7. ASSUME NEW m \in Messages,
             HideMessage(m) \/ Reveal(m) \/ Expire(m) \/ \E u \in Users : Unlock(m, u)
      PROVE  EntryAges' /\ RequestAges'
  BY <1>7 DEF HideMessage, Reveal, Expire, Unlock, EntryAges, RequestAges
<1>8. CASE Tick
  <2>1. ASSUME NEW k \in cached'
        PROVE  entry'[k].age < TTL /\ entry'[k].readAge < entry'[k].age + Patience
    <3>1. k \in cached /\ k \in Keys /\ entry[k].age + 1 < TTL /\ entry[k] \in Entry
      BY <1>8, <2>1 DEF Tick, TypeOK
    <3>2. /\ entry'[k].age = entry[k].age + 1
          /\ entry'[k].readAge = entry[k].readAge + 1
      BY <1>8, <2>1, <3>1 DEF Tick, Entry
    <3>3. entry[k].readAge < entry[k].age + Patience /\ entry[k].age \in Nat /\ entry[k].readAge \in Nat
      BY <3>1 DEF EntryAges, Entry
    <3>4. QED
      BY <3>1, <3>2, <3>3, TimesAssumption
  <2>2. ASSUME NEW r \in Readers PROVE get'[r].readAge <= get'[r].busy
    <3>1. get[r] \in Request /\ get[r].readAge \in Nat /\ get[r].busy \in Nat
      BY TimesAssumption DEF TypeOK, Request
    <3>2. /\ get'[r].busy = IF get[r].pc = "idle" THEN 0 ELSE get[r].busy + 1
          /\ get'[r].readAge = IF get[r].pc \in {"mask", "store"} THEN get[r].readAge + 1 ELSE 0
      BY <1>8, <3>1 DEF Tick, Request
    <3>3. QED
      BY <3>1, <3>2 DEF RequestAges
  <2>3. QED
    BY <2>1, <2>2 DEF EntryAges, RequestAges
<1>9. CASE UNCHANGED vars
  BY <1>9 DEF EntryAges, RequestAges
<1>10. QED
  BY <1>1, <1>2, <1>3, <1>4, <1>5, <1>6, <1>7, <1>8, <1>9, AskersIn DEF Next, GetNearby

(* Whatever invalidations were lost or came too early, no cached list was   *)
(* read longer ago than the time to live plus the request timeout.          *)
THEOREM NearbyStalenessBounded == Spec => []StalenessBounded
<1>1. Init => AgeInv
  BY DEF Init, AgeInv, EntryAges, RequestAges, Idle
<1>2. TypeOK /\ AgeInv /\ [Next]_vars => (TypeOK /\ AgeInv)'
  BY TypeStep, AgeStep
<1>3. TypeOK /\ AgeInv => StalenessBounded
  <2> SUFFICES ASSUME TypeOK, EntryAges, NEW k \in cached
               PROVE  entry[k].readAge <= (TTL - 1) + (Patience - 1)
    BY DEF AgeInv, StalenessBounded
  <2>1. entry[k].age \in Nat /\ entry[k].readAge \in Nat
    BY DEF TypeOK, Entry
  <2>2. QED
    BY <2>1, TimesAssumption DEF EntryAges
<1>4. QED
  BY <1>1, <1>2, <1>3, TypeInit, PTL DEF Spec
=============================================================================
