---------------------------- MODULE ListingProofs ----------------------------
(***************************************************************************)
(* Paging by offset for any number of messages and users, any page sizes    *)
(* and any length of a day.                                                 *)
(***************************************************************************)
EXTENDS Listing, FiniteSetTheorems, TLAPS

USE DEF listingVars
-----------------------------------------------------------------------------
(***************************************************************************)
(* Places in a sorted finite set of numbers.  They are what ORDER BY makes  *)
(* of a set: one row per place, no place left out.                          *)
(***************************************************************************)
FiniteRows(S) == S \subseteq Nat /\ IsFiniteSet(S)

\* The rows whose place is one of a .. b.
Between(kind, S, a, b) == {x \in S : Place(kind, S, x) \in a .. b}

(* A place is a number below the number of rows. *)
LEMMA PlaceType ==
  ASSUME NEW kind, NEW S, FiniteRows(S), NEW x \in Nat
  PROVE  /\ Place(kind, S, x) \in Nat
         /\ x \in S => Place(kind, S, x) < Cardinality(S)
<1> DEFINE A == {y \in S : Precedes(kind, y, x)}
<1>1. A \in SUBSET S /\ IsFiniteSet(S) /\ x \notin A
  BY DEF FiniteRows, Precedes
<1>2. /\ IsFiniteSet(A) /\ Cardinality(A) <= Cardinality(S)
      /\ Cardinality(S) = Cardinality(A) => S = A
  <2> HIDE DEF A
  <2> QED BY <1>1, FS_Subset
<1>3. Cardinality(A) \in Nat /\ Cardinality(S) \in Nat
  <2> HIDE DEF A
  <2> QED BY <1>1, <1>2, FS_CardinalityType
<1>4. Place(kind, S, x) = Cardinality(A)
  BY DEF Place
<1>5. x \in S => S # A
  BY <1>1
<1> HIDE DEF A
<1>6. QED
  BY <1>2, <1>3, <1>4, <1>5

(* A row that comes earlier has a smaller place. *)
LEMMA PlaceOrder ==
  ASSUME NEW kind, NEW S, FiniteRows(S), NEW x \in S, NEW z \in S, Precedes(kind, x, z)
  PROVE  Place(kind, S, x) < Place(kind, S, z)
<1> DEFINE A == {y \in S : Precedes(kind, y, x)}
           B == {y \in S : Precedes(kind, y, z)}
<1>1. x \in Nat /\ z \in Nat /\ S \subseteq Nat
  BY DEF FiniteRows
<1>2. A \in SUBSET B /\ x \in B /\ x \notin A
  <2>1. \A y \in S : Precedes(kind, y, x) => Precedes(kind, y, z)
    BY <1>1 DEF Precedes
  <2>2. ~Precedes(kind, x, x)
    BY <1>1 DEF Precedes
  <2>3. QED BY <2>1, <2>2
<1>3. B \in SUBSET S /\ IsFiniteSet(S)
  BY DEF FiniteRows
<1>4. Place(kind, S, x) = Cardinality(A) /\ Place(kind, S, z) = Cardinality(B)
  BY DEF Place
<1> HIDE DEF A, B
<1>5. IsFiniteSet(B)
  BY <1>3, FS_Subset
<1>6. Cardinality(A) <= Cardinality(B) /\ (Cardinality(B) = Cardinality(A) => B = A)
  BY <1>2, <1>5, FS_Subset
<1>7. Cardinality(A) \in Nat /\ Cardinality(B) \in Nat
  BY <1>1, <1>4, PlaceType
<1>8. QED
  BY <1>2, <1>4, <1>6, <1>7

(* No two rows share a place. *)
LEMMA PlacesApart ==
  ASSUME NEW kind, NEW S, FiniteRows(S), NEW x \in S, NEW z \in S,
         Place(kind, S, x) = Place(kind, S, z)
  PROVE  x = z
<1>1. x \in Nat /\ z \in Nat
  BY DEF FiniteRows
<1>2. Place(kind, S, x) \in Nat /\ Place(kind, S, z) \in Nat
  BY <1>1, PlaceType
<1>3. ~Precedes(kind, x, z)
  BY <1>2, PlaceOrder
<1>4. ~Precedes(kind, z, x)
  BY <1>2, PlaceOrder
<1>5. QED
  BY <1>1, <1>3, <1>4 DEF Precedes

(* There are at most as many rows as places, *)
LEMMA AtMostBetween ==
  ASSUME NEW kind, NEW S, FiniteRows(S), NEW a \in Int, NEW n \in Nat,
         NEW T \in SUBSET Between(kind, S, a, a + n - 1)
  PROVE  IsFiniteSet(T) /\ Cardinality(T) \in Nat /\ Cardinality(T) <= n
<1> DEFINE I == a .. (a + n - 1)
           f == [x \in T |-> Place(kind, S, x)]
<1>1. \A x \in T : x \in S /\ Place(kind, S, x) \in I
  BY DEF Between
<1>2. f \in [T -> I]
  BY <1>1
<1>3. \A x, z \in T : f[x] = f[z] => x = z
  BY <1>1, PlacesApart
<1>4. f \in Injection(T, I)
  BY <1>2, <1>3 DEF Injection, IsInjective
<1>5. IsFiniteSet(I) /\ Cardinality(I) = n
  <2>1. a + n - 1 \in Int
    OBVIOUS
  <2>2. IsFiniteSet(I) /\ Cardinality(I) = IF a > a + n - 1 THEN 0 ELSE (a + n - 1) - a + 1
    BY <2>1, FS_Interval
  <2>3. QED BY <2>2
<1> HIDE DEF f, I
<1>6. IsFiniteSet(T) /\ Cardinality(T) <= n
  BY <1>4, <1>5, FS_Injection
<1>7. QED
  BY <1>6, FS_CardinalityType

(* and every place up to the number of rows is taken. *)
LEMMA PlaceTaken ==
  ASSUME NEW kind, NEW S, FiniteRows(S), NEW i \in Nat, i < Cardinality(S)
  PROVE  \E x \in S : Place(kind, S, x) = i
<1> DEFINE n == Cardinality(S)
           I == 0 .. (n - 1)
           f == [x \in S |-> Place(kind, S, x)]
<1>1. S \subseteq Nat /\ IsFiniteSet(S) /\ n \in Nat
  BY FS_CardinalityType DEF FiniteRows
<1>2. \A x \in S : Place(kind, S, x) \in I
  BY <1>1, PlaceType
<1>3. \A x, z \in S : f[x] = f[z] => x = z
  BY PlacesApart
<1>4. f \in Injection(S, I)
  BY <1>2, <1>3 DEF Injection, IsInjective
<1>5. IsFiniteSet(I) /\ Cardinality(I) = n
  <2>1. n - 1 \in Int /\ 0 \in Int
    BY <1>1
  <2> HIDE DEF n
  <2>2. IsFiniteSet(I) /\ Cardinality(I) = IF 0 > n - 1 THEN 0 ELSE (n - 1) - 0 + 1
    BY <2>1, FS_Interval
  <2>3. QED BY <1>1, <2>2
<1>6. f \in Surjection(S, I)
  <2> HIDE DEF f, I
  <2> QED BY <1>4, <1>5, FS_Injection
<1>7. i \in I
  BY <1>1
<1>8. \E x \in S : f[x] = i
  <2> HIDE DEF f, I
  <2> QED BY <1>6, <1>7 DEF Surjection
<1>9. QED BY <1>8

(* So the rows of a stretch of taken places are as many as the places. *)
LEMMA AllBetween ==
  ASSUME NEW kind, NEW S, FiniteRows(S), NEW a \in Nat, NEW b \in Nat, a <= b, b < Cardinality(S)
  PROVE  /\ IsFiniteSet(Between(kind, S, a, b))
         /\ Cardinality(Between(kind, S, a, b)) = b - a + 1
<1> DEFINE T == Between(kind, S, a, b)
           I == a .. b
           f == [x \in T |-> Place(kind, S, x)]
<1>1. \A x \in T : x \in S /\ Place(kind, S, x) \in I
  BY DEF Between
<1>2. \A x, z \in T : f[x] = f[z] => x = z
  BY <1>1, PlacesApart
<1>3. f \in Injection(T, I)
  BY <1>1, <1>2 DEF Injection, IsInjective
<1>4. ASSUME NEW i \in I PROVE \E x \in T : f[x] = i
  <2>1. Cardinality(S) \in Nat
    BY FS_CardinalityType DEF FiniteRows
  <2>2. i \in Nat /\ i < Cardinality(S)
    BY <2>1, <1>4
  <2>3. PICK x \in S : Place(kind, S, x) = i
    BY <2>2, PlaceTaken
  <2>4. x \in T
    BY <2>3, <1>4 DEF Between
  <2>5. QED BY <2>3, <2>4
<1>5. f \in Surjection(T, I)
  BY <1>1, <1>4 DEF Surjection
<1>6. IsFiniteSet(I) /\ Cardinality(I) = b - a + 1
  BY FS_Interval
<1> HIDE DEF f, I, T
<1>7. IsFiniteSet(T) /\ Cardinality(T) = Cardinality(I)
  BY <1>3, <1>5, <1>6, FS_Injection
<1>8. QED BY <1>6, <1>7 DEF T

(* Rows that go away move a row up by no more places than there are of them. *)
LEMMA PlaceMoves ==
  ASSUME NEW kind, NEW S, NEW T, FiniteRows(S), FiniteRows(T), NEW x \in Nat
  PROVE  Cardinality(S \ T) \in Nat /\ Place(kind, S, x) <= Place(kind, T, x) + Cardinality(S \ T)
<1> DEFINE A == {y \in S : Precedes(kind, y, x)}
           B == {y \in T : Precedes(kind, y, x)}
           D == S \ T
<1>1. IsFiniteSet(S) /\ IsFiniteSet(T)
  BY DEF FiniteRows
<1>2. IsFiniteSet(D)
  BY <1>1, FS_Difference
<1>3. A \subseteq S /\ B \subseteq T /\ A \subseteq B \union D
  OBVIOUS
<1>4. Place(kind, S, x) = Cardinality(A) /\ Place(kind, T, x) = Cardinality(B)
  BY DEF Place
<1> HIDE DEF A, B, D
<1>5. IsFiniteSet(B)
  BY <1>1, <1>3, FS_Subset
<1>6. /\ IsFiniteSet(B \union D) /\ IsFiniteSet(B \intersect D)
      /\ Cardinality(B \union D) = Cardinality(B) + Cardinality(D) - Cardinality(B \intersect D)
  BY <1>2, <1>5, FS_Union, FS_Intersection
<1>7. IsFiniteSet(A) /\ Cardinality(A) <= Cardinality(B \union D)
  BY <1>3, <1>6, FS_Subset
<1>8. /\ Cardinality(A) \in Nat /\ Cardinality(B) \in Nat /\ Cardinality(D) \in Nat
      /\ Cardinality(B \union D) \in Nat /\ Cardinality(B \intersect D) \in Nat
  BY <1>2, <1>5, <1>6, <1>7, FS_CardinalityType
<1>9. QED
  BY <1>4, <1>6, <1>7, <1>8 DEF D
-----------------------------------------------------------------------------
(***************************************************************************)
(* The walk.  A client is past the rows in the places before its offset.    *)
(* Rows listed all along that it is past and has not seen are as many as    *)
(* went away at most: a row that goes away lets one row slip past the       *)
(* offset.  Rows seen that it is not past will come again, and every such   *)
(* row was pushed back by one that came.  A row seen never comes back once  *)
(* it is gone, which is why its reveal must be in the past (SeenPast).      *)
(***************************************************************************)
TablesOK ==
  /\ hour \in 1 .. MaxHour
  /\ board \in Seq([reveal : Nat, expires : Nat, live : BOOLEAN]) /\ Len(board) <= MaxPosts
  /\ joined \subseteq Usernames /\ IsFiniteSet(joined)

SteadyListed == walk.steady \subseteq Listed(walk.kind)

SeenPast ==
  IF walk.kind = "user" THEN walk.seen \subseteq joined
  ELSE walk.seen \subseteq {i \in DOMAIN board : board[i].reveal <= hour}

WalkPlace(x) == Place(walk.kind, Listed(walk.kind), x)

Skipped  == {x \in walk.steady \ walk.seen : WalkPlace(x) < walk.offset}
ToRepeat == {x \in walk.seen \intersect Listed(walk.kind) : WalkPlace(x) >= walk.offset}

WalkInv ==
  walk.kind # "none" =>
    /\ SteadyListed /\ SeenPast
    /\ Cardinality(Skipped) <= walk.gone
    /\ walk.again + Cardinality(ToRepeat) <= walk.come

Walk == [kind : {"none", "hashtag", "user"}, size : Int, offset : Nat, seen : SUBSET Nat,
         steady : SUBSET Nat, gone : Nat, come : Nat, again : Nat]

ListInv == TablesOK /\ walk \in Walk /\ WalkInv

(* What is listed is a finite set of numbers, before a step and after it. *)
LEMMA RowsFinite ==
  ASSUME NEW J \in SUBSET Usernames, IsFiniteSet(J), NEW M, NEW b \in Seq(M), NEW V \in SUBSET DOMAIN b
  PROVE  FiniteRows(J) /\ FiniteRows(V)
<1>1. FiniteRows(J)
  BY ListingAssumption DEF FiniteRows
<1>2. Len(b) \in Nat /\ DOMAIN b = 1 .. Len(b)
  OBVIOUS
<1>3. IsFiniteSet(1 .. Len(b)) /\ V \in SUBSET (1 .. Len(b))
  BY <1>2, FS_Interval
<1>4. IsFiniteSet(V)
  BY <1>3, FS_Subset
<1>5. QED BY <1>1, <1>2, <1>4 DEF FiniteRows

LEMMA ListedFinite ==
  /\ TablesOK => FiniteRows(joined) /\ FiniteRows(Visible)
  /\ TablesOK' => FiniteRows(joined') /\ FiniteRows(Visible')
<1>1. Visible \subseteq DOMAIN board /\ Visible' \subseteq DOMAIN board'
  BY DEF Visible
<1>2. QED BY <1>1, RowsFinite DEF TablesOK

(* The elements of a sequence. *)
LEMMA SeqElement == ASSUME NEW M, NEW s \in Seq(M), NEW i \in DOMAIN s PROVE s[i] \in M
  OBVIOUS

(* A post has a reveal and an expiry that are times or absent. *)
LEMMA NewMessageType ==
  ASSUME TablesOK, NEW req \in PostRequests, ValidPost(req)
  PROVE  ScheduledAt(req) \in Nat /\ ExpiresAt(req) \in Nat
<1>1. /\ hour \in Nat /\ Day \in Nat /\ MaxHour \in Nat
      /\ req.date \in {0, -1} \union 1 .. MaxHour
  BY ListingAssumption DEF TablesOK, PostRequests, NoDate, BadDate
<1>2. ScheduledAt(req) \in Nat
  BY <1>1 DEF ScheduledAt, ValidPost, NoDate, BadDate
<1>3. CASE MessageType(req) = "standard"
  <2>1. ExpiresAt(req) = hour + Day
    BY <1>3 DEF ExpiresAt
  <2>2. QED BY <1>1, <1>2, <2>1
<1>4. CASE MessageType(req) = "capsule" /\ req.date # BadDate
  <2>1. ExpiresAt(req) = req.date + Day
    BY <1>4 DEF ExpiresAt
  <2>2. req.date \in Nat
    BY <1>1, <1>4 DEF BadDate
  <2>3. QED BY <1>1, <1>2, <2>1, <2>2
<1>5. CASE MessageType(req) # "standard" /\ ~(MessageType(req) = "capsule" /\ req.date # BadDate)
  <2>1. ExpiresAt(req) = NoDate
    BY <1>5 DEF ExpiresAt
  <2>2. QED BY <1>2, <2>1 DEF NoDate
<1>6. QED
  BY <1>3, <1>4, <1>5

(* Every page has room for a row. *)
LEMMA PageSizeType == ASSUME NEW asked \in Int PROVE PageSize(asked) \in Nat /\ PageSize(asked) >= 1
  BY ListingAssumption DEF PageSize

(* A set within two others is no larger than both. *)
LEMMA AddedBound ==
  ASSUME NEW A, NEW B, IsFiniteSet(A), IsFiniteSet(B), NEW n \in Nat, Cardinality(B) <= n,
         NEW C \in SUBSET (A \union B)
  PROVE  Cardinality(C) <= Cardinality(A) + n
<1>1. /\ IsFiniteSet(A \union B) /\ IsFiniteSet(A \intersect B)
      /\ Cardinality(A \union B) = Cardinality(A) + Cardinality(B) - Cardinality(A \intersect B)
  BY FS_Union, FS_Intersection
<1>2. IsFiniteSet(C) /\ Cardinality(C) <= Cardinality(A \union B)
  BY <1>1, FS_Subset
<1>3. /\ Cardinality(A) \in Nat /\ Cardinality(B) \in Nat /\ Cardinality(C) \in Nat
      /\ Cardinality(A \union B) \in Nat /\ Cardinality(A \intersect B) \in Nat
  BY <1>1, <1>2, FS_CardinalityType
<1>4. QED BY <1>1, <1>2, <1>3

(* What a change of the tables leaves of the walk. *)
LEMMA FollowedWalk ==
  ASSUME walk \in Walk, Followed, walk.kind # "none", NEW before, NEW after,
         before = Listed(walk.kind), after = IF walk.kind = "user" THEN joined' ELSE Visible',
         FiniteRows(before), FiniteRows(after)
  PROVE  /\ walk' \in Walk /\ walk'.kind = walk.kind /\ Listed(walk.kind)' = after
         /\ walk'.offset = walk.offset /\ walk'.seen = walk.seen /\ walk'.again = walk.again
         /\ walk'.steady = walk.steady \intersect after
         /\ walk'.gone = walk.gone + Cardinality(before \ after)
         /\ walk'.come = walk.come + Cardinality(after \ before)
<1>1. Cardinality(before \ after) \in Nat /\ Cardinality(after \ before) \in Nat
  BY FS_Difference, FS_CardinalityType DEF FiniteRows
<1>2. PICK st, g, c : /\ st = walk.steady \intersect after
                      /\ g = walk.gone + Cardinality(before \ after)
                      /\ c = walk.come + Cardinality(after \ before)
  OBVIOUS
<1>3. walk' = [walk EXCEPT !.steady = st, !.gone = g, !.come = c]
  BY <1>2 DEF Followed
<1>4. st \in SUBSET Nat /\ g \in Nat /\ c \in Nat
  BY <1>1, <1>2 DEF Walk
<1>5. /\ walk' \in Walk /\ walk'.kind = walk.kind
      /\ walk'.offset = walk.offset /\ walk'.seen = walk.seen /\ walk'.again = walk.again
      /\ walk'.steady = st /\ walk'.gone = g /\ walk'.come = c
  BY <1>3, <1>4 DEF Walk
<1>6. Listed(walk.kind)' = after
  BY <1>5 DEF Listed
<1>7. QED BY <1>2, <1>5, <1>6

(* At start nobody walks. *)
LEMMA ListInvInit == ListingInit => ListInv
<1> SUFFICES ASSUME ListingInit PROVE ListInv
  OBVIOUS
<1>1. TablesOK
  BY ListingAssumption, FS_EmptySet DEF ListingInit, TablesOK
<1>2. walk \in Walk
  BY DEF ListingInit, Home, Walk
<1>3. WalkInv
  BY DEF ListingInit, WalkInv, Home
<1>4. QED BY <1>1, <1>2, <1>3 DEF ListInv

(* A change of the tables: the client's debts grow by no more than what went and came, *)
(* provided that no row that was seen comes back.                                      *)
LEMMA ChangeStep ==
  ASSUME walk \in Walk, WalkInv, Followed, walk.kind # "none", NEW before, NEW after,
         before = Listed(walk.kind), after = IF walk.kind = "user" THEN joined' ELSE Visible',
         FiniteRows(before), FiniteRows(after), walk.seen \intersect after \subseteq before
  PROVE  /\ SteadyListed'
         /\ Cardinality(Skipped') <= walk'.gone
         /\ walk'.again + Cardinality(ToRepeat') <= walk'.come
<1> DEFINE k == walk.kind
           o == walk.offset
           g == Cardinality(before \ after)
           c == Cardinality(after \ before)
<1>1. /\ walk' \in Walk /\ walk'.kind = k /\ Listed(walk.kind)' = after
      /\ walk'.offset = o /\ walk'.seen = walk.seen /\ walk'.again = walk.again
      /\ walk'.steady = walk.steady \intersect after
      /\ walk'.gone = walk.gone + g /\ walk'.come = walk.come + c
  BY FollowedWalk
<1>2. /\ walk.steady \subseteq before /\ walk.seen \subseteq Nat /\ o \in Nat
      /\ walk.gone \in Nat /\ walk.come \in Nat /\ walk.again \in Nat
  BY DEF WalkInv, SteadyListed, Walk
<1>3. /\ Skipped = {x \in walk.steady \ walk.seen : Place(k, before, x) < o}
      /\ ToRepeat = {x \in walk.seen \intersect before : Place(k, before, x) >= o}
      /\ Skipped' = {x \in (walk.steady \intersect after) \ walk.seen : Place(k, after, x) < o}
      /\ ToRepeat' = {x \in walk.seen \intersect after : Place(k, after, x) >= o}
  BY <1>1 DEF Skipped, ToRepeat, WalkPlace
<1>4. SteadyListed'
  BY <1>1 DEF SteadyListed
<1>5. Cardinality(Skipped) <= walk.gone /\ walk.again + Cardinality(ToRepeat) <= walk.come
  BY DEF WalkInv
<1>6. before \subseteq Nat /\ after \subseteq Nat /\ IsFiniteSet(before) /\ IsFiniteSet(after)
  BY DEF FiniteRows
<1>7. /\ g \in Nat /\ \A x \in Nat : Place(k, before, x) <= Place(k, after, x) + g
      /\ c \in Nat /\ \A x \in Nat : Place(k, after, x) <= Place(k, before, x) + c
  BY PlaceMoves
<1>8. \A x \in Nat : Place(k, before, x) \in Nat /\ Place(k, after, x) \in Nat
  BY PlaceType
<1>9. IsFiniteSet(Skipped) /\ IsFiniteSet(ToRepeat)
  <2>1. Skipped \in SUBSET before /\ ToRepeat \in SUBSET before
    BY <1>2, <1>3
  <2>2. QED BY <1>6, <2>1, FS_Subset
<1> HIDE DEF k, o, g, c
<1>10. Cardinality(Skipped') <= Cardinality(Skipped) + g
  <2> DEFINE T == Skipped' \ Skipped
  <2>1. T \in SUBSET Between(k, before, o, o + g - 1)
    <3> SUFFICES ASSUME NEW x \in T PROVE x \in Between(k, before, o, o + g - 1)
      OBVIOUS
    <3>1. x \in walk.steady /\ x \notin walk.seen /\ Place(k, after, x) < o
      BY <1>3
    <3>2. x \in before /\ x \in Nat /\ ~(Place(k, before, x) < o)
      BY <1>2, <1>3, <1>6, <3>1
    <3>3. Place(k, before, x) \in o .. (o + g - 1)
      BY <1>2, <1>7, <1>8, <3>1, <3>2
    <3>4. QED BY <3>2, <3>3 DEF Between
  <2> HIDE DEF T
  <2>2. IsFiniteSet(T) /\ Cardinality(T) \in Nat /\ Cardinality(T) <= g
    <3>1. o \in Int
      BY <1>2
    <3>2. QED BY <1>7, <2>1, <3>1, AtMostBetween
  <2>3. Skipped' \in SUBSET (Skipped \union T)
    BY DEF T
  <2>4. QED
    BY <1>7, <1>9, <2>2, <2>3, AddedBound
<1>11. Cardinality(ToRepeat') <= Cardinality(ToRepeat) + c
  <2> DEFINE T == ToRepeat' \ ToRepeat
  <2>1. T \in SUBSET Between(k, before, o - c, (o - c) + c - 1)
    <3> SUFFICES ASSUME NEW x \in T PROVE x \in Between(k, before, o - c, (o - c) + c - 1)
      OBVIOUS
    <3>1. x \in walk.seen /\ x \in after /\ Place(k, after, x) >= o
      BY <1>3
    <3>2. x \in before /\ x \in Nat /\ ~(Place(k, before, x) >= o)
      BY <1>2, <1>3, <1>6, <3>1
    <3>3. Place(k, before, x) \in (o - c) .. ((o - c) + c - 1)
      BY <1>2, <1>7, <1>8, <3>1, <3>2
    <3>4. QED BY <3>2, <3>3 DEF Between
  <2> HIDE DEF T
  <2>2. IsFiniteSet(T) /\ Cardinality(T) \in Nat /\ Cardinality(T) <= c
    <3>1. o - c \in Int
      BY <1>2, <1>7
    <3>2. QED BY <1>7, <2>1, <3>1, AtMostBetween
  <2>3. ToRepeat' \in SUBSET (ToRepeat \union T)
    BY DEF T
  <2>4. QED
    BY <1>7, <1>9, <2>2, <2>3, AddedBound
<1>12. Cardinality(Skipped) \in Nat /\ Cardinality(ToRepeat) \in Nat
  BY <1>9, FS_CardinalityType
<1>13. Cardinality(Skipped') \in Nat /\ Cardinality(ToRepeat') \in Nat
  <2>1. Skipped' \in SUBSET after /\ ToRepeat' \in SUBSET after
    BY <1>3
  <2>2. QED BY <1>6, <2>1, FS_Subset, FS_CardinalityType
<1>14. QED
  BY <1>1, <1>2, <1>4, <1>5, <1>7, <1>10, <1>11, <1>12, <1>13

\* No row that was seen comes back, and what was seen stays known and past.
SeenStays ==
  walk.kind # "none" =>
    /\ walk.seen \intersect (IF walk.kind = "user" THEN joined' ELSE Visible') \subseteq Listed(walk.kind)
    /\ IF walk.kind = "user" THEN walk.seen \subseteq joined'
       ELSE walk.seen \subseteq {i \in DOMAIN board' : board'[i].reveal <= hour'}

(* Whatever changes the tables that way keeps the invariant. *)
LEMMA FollowedStep == ASSUME ListInv, TablesOK', SeenStays, Followed PROVE ListInv'
<1>1. CASE walk.kind = "none"
  <2>1. walk' = walk
    BY <1>1 DEF Followed
  <2>2. QED BY <1>1, <2>1 DEF ListInv, WalkInv
<1>2. CASE walk.kind # "none"
  <2>1. PICK before : before = Listed(walk.kind)
    OBVIOUS
  <2>2. PICK after : after = IF walk.kind = "user" THEN joined' ELSE Visible'
    OBVIOUS
  <2>3. FiniteRows(before)
    BY <2>1, ListedFinite DEF ListInv, Listed
  <2>4. FiniteRows(after)
    BY <2>2, ListedFinite
  <2>5. walk.seen \intersect after \subseteq before
    BY <1>2, <2>1, <2>2 DEF SeenStays
  <2>6. walk \in Walk /\ WalkInv
    BY DEF ListInv
  <2>7. /\ SteadyListed' /\ Cardinality(Skipped') <= walk'.gone
        /\ walk'.again + Cardinality(ToRepeat') <= walk'.come
    BY <1>2, <2>1, <2>2, <2>3, <2>4, <2>5, <2>6, ChangeStep
  <2>8. walk' \in Walk /\ walk'.kind = walk.kind /\ walk'.seen = walk.seen
    BY <1>2, <2>1, <2>2, <2>3, <2>4, <2>6, FollowedWalk
  <2>9. SeenPast'
    BY <1>2, <2>8 DEF SeenStays, SeenPast
  <2>10. QED
    BY <2>7, <2>8, <2>9 DEF ListInv, WalkInv
<1>3. QED BY <1>1, <1>2

(* POST, DELETE, a registration and an hour that goes by are such changes. *)
LEMMA TablesStep ==
  ASSUME ListInv,
         \/ \E req \in PostRequests : CreateMessage(req)
         \/ \E i \in DOMAIN board : DeleteListed(i)
         \/ \E n \in Usernames : NewUser(n)
         \/ HourPasses
  PROVE  ListInv'
<1>0. /\ TablesOK
      /\ walk.kind # "none" => SeenPast
      /\ Len(board) \in Nat /\ DOMAIN board = 1 .. Len(board) /\ hour \in Nat /\ MaxHour \in Nat
      /\ \A i \in DOMAIN board :
           board[i].reveal \in Nat /\ board[i].expires \in Nat /\ board[i].live \in BOOLEAN
  <2>1. TablesOK /\ WalkInv
    BY DEF ListInv
  <2>2. \A i \in DOMAIN board : board[i] \in [reveal : Nat, expires : Nat, live : BOOLEAN]
    BY <2>1, SeqElement DEF TablesOK
  <2>3. /\ Len(board) \in Nat /\ DOMAIN board = 1 .. Len(board)
        /\ hour \in Nat /\ MaxHour \in Nat
    BY <2>1, ListingAssumption DEF TablesOK
  <2>4. QED BY <2>1, <2>2, <2>3 DEF WalkInv
<1>1. ASSUME NEW req \in PostRequests, CreateMessage(req) PROVE TablesOK' /\ SeenStays /\ Followed
  <2>1. PICK m : m = [reveal |-> ScheduledAt(req), expires |-> ExpiresAt(req), live |-> TRUE]
    OBVIOUS
  <2>2. /\ Len(board) < MaxPosts /\ ValidPost(req) /\ board' = Append(board, m)
        /\ hour' = hour /\ joined' = joined /\ Followed
    BY <1>1, <2>1 DEF CreateMessage
  <2>3. m \in [reveal : Nat, expires : Nat, live : BOOLEAN]
    BY <1>0, <2>1, <2>2, NewMessageType
  <2>4. TablesOK'
    BY <1>0, <2>2, <2>3, ListingAssumption DEF TablesOK
  <2>5. DOMAIN board \subseteq DOMAIN board' /\ \A i \in DOMAIN board : board'[i] = board[i]
    BY <1>0, <2>2, <2>3 DEF TablesOK
  <2>6. SeenStays
    BY <1>0, <2>2, <2>5 DEF SeenStays, SeenPast, Listed, Visible, Shows
  <2>7. QED BY <2>2, <2>4, <2>6
<1>2. ASSUME NEW i \in DOMAIN board, DeleteListed(i) PROVE TablesOK' /\ SeenStays /\ Followed
  <2>1. PICK m : m = [reveal |-> NoDate, expires |-> NoDate, live |-> FALSE]
    OBVIOUS
  <2>2. /\ board' = [board EXCEPT ![i] = m] /\ m.live = FALSE /\ m.reveal = 0
        /\ hour' = hour /\ joined' = joined /\ Followed
    BY <1>2, <2>1 DEF DeleteListed, NoDate
  <2>3. m \in [reveal : Nat, expires : Nat, live : BOOLEAN]
    BY <2>1 DEF NoDate
  <2>4. TablesOK'
    BY <1>0, <2>2, <2>3 DEF TablesOK
  <2>5. /\ DOMAIN board = DOMAIN board' /\ board'[i] = m
        /\ \A j \in DOMAIN board : j # i => board'[j] = board[j]
    BY <1>0, <2>2, <2>3 DEF TablesOK
  <2>6. SeenStays
    BY <1>0, <2>2, <2>5 DEF SeenStays, SeenPast, Listed, Visible, Shows
  <2>7. QED BY <2>2, <2>4, <2>6
<1>3. ASSUME NEW n \in Usernames, NewUser(n) PROVE TablesOK' /\ SeenStays /\ Followed
  <2>1. joined' = joined \union {n} /\ hour' = hour /\ board' = board /\ Followed
    BY <1>3 DEF NewUser
  <2>2. IsFiniteSet(joined')
    BY <1>0, <2>1, FS_AddElement DEF TablesOK
  <2>3. TablesOK'
    BY <1>0, <2>1, <2>2 DEF TablesOK
  <2>4. SeenStays
    BY <1>0, <2>1 DEF SeenStays, SeenPast, Listed, Visible, Shows
  <2>5. QED BY <2>1, <2>3, <2>4
<1>4. ASSUME HourPasses PROVE TablesOK' /\ SeenStays /\ Followed
  <2>1. hour < MaxHour /\ hour' = hour + 1 /\ joined' = joined /\ board' = board /\ Followed
    BY <1>4 DEF HourPasses
  <2>2. TablesOK'
    BY <1>0, <2>1 DEF TablesOK
  <2>3. SeenStays
    BY <1>0, <2>1 DEF SeenStays, SeenPast, Listed, Visible, Shows, NoDate
  <2>4. QED BY <2>1, <2>2, <2>3
<1>5. TablesOK' /\ SeenStays /\ Followed
  BY <1>1, <1>2, <1>3, <1>4
<1>6. QED BY <1>5, FollowedStep

(* A client that begins has seen nothing and is past nothing. *)
LEMMA BeginStep ==
  ASSUME ListInv, NEW kind \in {"hashtag", "user"}, NEW asked \in Asked, BeginWalk(kind, asked)
  PROVE  ListInv'
<1>1. /\ hour' = hour /\ board' = board /\ joined' = joined
      /\ walk' = [Home EXCEPT !.kind = kind, !.size = asked, !.steady = Listed(kind)]
  BY DEF BeginWalk
<1>2. FiniteRows(Listed(kind)) /\ Listed(kind) \in SUBSET Nat
  BY ListedFinite DEF ListInv, Listed, FiniteRows
<1>3. /\ walk' \in Walk /\ walk'.kind = kind /\ walk'.offset = 0 /\ walk'.seen = {}
      /\ walk'.steady = Listed(kind) /\ walk'.gone = 0 /\ walk'.come = 0 /\ walk'.again = 0
  BY <1>1, <1>2, ListingAssumption DEF Home, Walk
<1>4. Listed(walk.kind)' = Listed(kind)
  BY <1>1, <1>3 DEF Listed, Visible, Shows
<1>5. TablesOK'
  BY <1>1 DEF ListInv, TablesOK
<1>6. SteadyListed' /\ SeenPast'
  BY <1>3, <1>4 DEF SteadyListed, SeenPast
<1>7. Skipped' = {} /\ ToRepeat' = {}
  <2>1. ToRepeat' = {}
    BY <1>3 DEF ToRepeat
  <2>2. ASSUME NEW x \in Skipped' PROVE FALSE
    <3>1. x \in Listed(kind) /\ Place(kind, Listed(kind), x) < 0
      BY <1>3, <1>4 DEF Skipped, WalkPlace
    <3>2. x \in Nat
      BY <1>2, <3>1
    <3>3. Place(kind, Listed(kind), x) \in Nat
      BY <1>2, <3>2, PlaceType
    <3>4. QED BY <3>1, <3>3
  <2>3. QED BY <2>1, <2>2
<1>8. QED
  BY <1>3, <1>5, <1>6, <1>7, FS_EmptySet DEF ListInv, WalkInv

(* A page takes the client past its own rows and no others. *)
LEMMA PageRows ==
  ASSUME NEW kind, NEW S, FiniteRows(S), NEW o \in Nat, NEW n \in Nat, NEW P,
         P = Between(kind, S, o, o + n - 1)
  PROVE  /\ IsFiniteSet(P) /\ Cardinality(P) \in Nat
         /\ \A x \in S : x \in P <=> Place(kind, S, x) \in o .. (o + Cardinality(P) - 1)
<1>1. IsFiniteSet(P) /\ Cardinality(P) \in Nat /\ Cardinality(P) <= n
  <2>1. o \in Int /\ P \in SUBSET Between(kind, S, o, o + n - 1)
    OBVIOUS
  <2>2. QED BY <2>1, AtMostBetween
<1>2. \A x \in S : Place(kind, S, x) \in Nat /\ Place(kind, S, x) < Cardinality(S)
  BY PlaceType DEF FiniteRows
<1>3. ASSUME NEW x \in S, o <= Place(kind, S, x), Place(kind, S, x) < o + Cardinality(P) PROVE x \in P
  BY <1>1, <1>2, <1>3 DEF Between
<1>4. ASSUME NEW x \in P PROVE x \in S /\ o <= Place(kind, S, x) /\ Place(kind, S, x) < o + Cardinality(P)
  <2>1. PICK p : p = Place(kind, S, x)
    OBVIOUS
  <2>2. x \in S /\ p \in Nat /\ o <= p /\ p <= o + n - 1 /\ p < Cardinality(S)
    BY <1>2, <2>1 DEF Between
  <2>3. IsFiniteSet(Between(kind, S, o, p)) /\ Cardinality(Between(kind, S, o, p)) = p - o + 1
    BY <2>2, AllBetween
  <2>4. Between(kind, S, o, p) \in SUBSET P
    <3> SUFFICES ASSUME NEW y \in Between(kind, S, o, p) PROVE y \in P
      OBVIOUS
    <3>1. y \in S /\ Place(kind, S, y) \in o .. p
      BY DEF Between
    <3>2. Place(kind, S, y) \in o .. (o + n - 1)
      BY <2>2, <3>1
    <3>3. QED BY <3>1, <3>2 DEF Between
  <2>5. p - o + 1 <= Cardinality(P)
    BY <1>1, <2>3, <2>4, FS_Subset
  <2>6. QED BY <1>1, <2>1, <2>2, <2>5
<1>5. QED BY <1>1, <1>2, <1>3, <1>4

(* One page more: rows that come again leave the rows to come again, and no row is skipped. *)
LEMMA SearchStep == ASSUME ListInv, Search PROVE ListInv'
<1> DEFINE k == walk.kind
           S == Listed(walk.kind)
           o == walk.offset
<1>1. /\ hour' = hour /\ board' = board /\ joined' = joined /\ k # "none" /\ walk \in Walk /\ WalkInv
  BY DEF Search, ListInv
<1>2. TablesOK'
  BY <1>1 DEF ListInv, TablesOK
<1>3. CASE NextPage = {}
  <2>1. walk' = Home
    BY <1>3 DEF Search
  <2>2. QED BY <1>2, <2>1 DEF ListInv, WalkInv, Home, Walk
<1>4. CASE NextPage # {}
  <2>1. FiniteRows(S) /\ S \in SUBSET Nat
    BY ListedFinite DEF ListInv, Listed, FiniteRows
  <2>2. PICK n \in Nat : n = PageSize(walk.size)
    BY <1>1, PageSizeType DEF Walk
  <2>3. PICK P : P = NextPage
    OBVIOUS
  <2>4. P = Between(k, S, o, o + n - 1) /\ P \in SUBSET S
    BY <2>2, <2>3 DEF NextPage, Page, Between
  <2>5. o \in Nat
    BY <1>1 DEF Walk
  <2>6. /\ IsFiniteSet(P) /\ Cardinality(P) \in Nat
        /\ \A x \in S : x \in P <=> o <= Place(k, S, x) /\ Place(k, S, x) < o + Cardinality(P)
    <3> HIDE DEF k, S, o
    <3>1. FiniteRows(S) /\ o \in Nat /\ n \in Nat /\ P = Between(k, S, o, o + n - 1)
      BY <2>1, <2>2, <2>4, <2>5
    <3>2. IsFiniteSet(P) /\ Cardinality(P) \in Nat
      BY <3>1, PageRows
    <3>3. \A x \in S : x \in P <=> Place(k, S, x) \in o .. (o + Cardinality(P) - 1)
      BY <3>1, PageRows, Zenon
    <3>4. \A x \in S : Place(k, S, x) \in Nat
      BY <2>1, PlaceType
    <3>5. QED BY <2>5, <3>2, <3>3, <3>4
  <2>7. PICK R : R = P \intersect walk.seen
    OBVIOUS
  <2>8. IsFiniteSet(R) /\ Cardinality(R) \in Nat
    BY <2>6, <2>7, FS_Intersection, FS_CardinalityType
  <2>9. PICK w, seen, a : /\ w = o + Cardinality(P) /\ seen = walk.seen \union P
                          /\ a = walk.again + Cardinality(R)
    OBVIOUS
  <2>a. walk' = [walk EXCEPT !.offset = w, !.seen = seen, !.again = a]
    BY <1>4, <2>3, <2>7, <2>9 DEF Search
  <2>b. w \in Nat /\ seen \in SUBSET Nat /\ a \in Nat
    BY <1>1, <2>1, <2>4, <2>5, <2>6, <2>8, <2>9 DEF Walk
  <2>c. /\ walk' \in Walk /\ walk'.kind = walk.kind /\ walk'.steady = walk.steady
        /\ walk'.gone = walk.gone /\ walk'.come = walk.come
        /\ walk'.offset = w /\ walk'.seen = seen /\ walk'.again = a
    BY <1>1, <2>a, <2>b DEF Walk
  <2>10. /\ walk' \in Walk /\ walk'.kind = k /\ walk'.steady = walk.steady
         /\ walk'.gone = walk.gone /\ walk'.come = walk.come
         /\ walk'.offset = o + Cardinality(P) /\ walk'.seen = walk.seen \union P
         /\ walk'.again = walk.again + Cardinality(R)
    BY <2>9, <2>c
  <2>11. Listed(walk.kind)' = S
    BY <1>1, <2>10 DEF Listed, Visible, Shows
  <2>12. SteadyListed'
    BY <1>1, <2>10, <2>11 DEF WalkInv, SteadyListed
  <2>13. SeenPast'
    <3>1. P \subseteq IF k = "user" THEN joined ELSE {i \in DOMAIN board : board[i].reveal <= hour}
      <4>1. hour \in Nat
        BY DEF ListInv, TablesOK
      <4>2. Visible \subseteq {i \in DOMAIN board : board[i].reveal <= hour}
        BY <4>1 DEF Visible, Shows, NoDate
      <4>3. QED BY <2>4, <4>2 DEF Listed
    <3>2. SeenPast
      BY <1>1 DEF WalkInv
    <3>3. QED BY <1>1, <2>10, <3>1, <3>2 DEF SeenPast
  <2>14. /\ Skipped = {x \in walk.steady \ walk.seen : Place(k, S, x) < o}
         /\ ToRepeat = {x \in walk.seen \intersect S : Place(k, S, x) >= o}
         /\ Skipped' = {x \in walk.steady \ (walk.seen \union P) : Place(k, S, x) < o + Cardinality(P)}
         /\ ToRepeat' = {x \in (walk.seen \union P) \intersect S : Place(k, S, x) >= o + Cardinality(P)}
    BY <2>10, <2>11 DEF Skipped, ToRepeat, WalkPlace
  <2>15. \A x \in S : Place(k, S, x) \in Nat
    BY <2>1, PlaceType
  <2>16. walk.steady \subseteq S
    BY <1>1 DEF WalkInv, SteadyListed
  <2>17. IsFiniteSet(Skipped) /\ IsFiniteSet(ToRepeat)
    <3>1. Skipped \in SUBSET S /\ ToRepeat \in SUBSET S /\ IsFiniteSet(S)
      BY <2>1, <2>14, <2>16 DEF FiniteRows
    <3>2. QED BY <3>1, FS_Subset
  <2> HIDE DEF k, S, o
  <2>18. Cardinality(Skipped') <= Cardinality(Skipped)
    <3>1. Skipped' \in SUBSET Skipped
      BY <2>5, <2>6, <2>14, <2>15, <2>16
    <3>2. QED BY <2>17, <3>1, FS_Subset
  <2>19. Cardinality(ToRepeat') + Cardinality(R) <= Cardinality(ToRepeat)
    <3>1. ToRepeat' \union R \in SUBSET ToRepeat /\ ToRepeat' \intersect R = {}
      <4>1. ASSUME NEW x \in ToRepeat' PROVE x \in ToRepeat /\ x \notin P
        BY <2>5, <2>6, <2>14, <2>15
      <4>2. ASSUME NEW x \in R PROVE x \in ToRepeat
        BY <2>4, <2>5, <2>6, <2>7, <2>14, <2>15
      <4>3. QED BY <2>7, <4>1, <4>2
    <3>2. ToRepeat' \in SUBSET ToRepeat
      BY <3>1
    <3>3. IsFiniteSet(ToRepeat') /\ IsFiniteSet(ToRepeat' \union R)
      BY <2>17, <3>1, <3>2, FS_Subset
    <3>4. Cardinality(ToRepeat' \union R) <= Cardinality(ToRepeat)
      BY <2>17, <3>1, FS_Subset
    <3>5. Cardinality(ToRepeat' \union R) = Cardinality(ToRepeat') + Cardinality(R) - Cardinality({})
      BY <2>8, <3>1, <3>3, FS_Union
    <3>6. Cardinality({}) = 0 /\ Cardinality(ToRepeat') \in Nat
      BY <3>3, FS_EmptySet, FS_CardinalityType
    <3>7. QED BY <2>8, <3>4, <3>5, <3>6
  <2>20. /\ Cardinality(Skipped) \in Nat /\ Cardinality(ToRepeat) \in Nat
         /\ Cardinality(Skipped') \in Nat /\ Cardinality(ToRepeat') \in Nat
    <3>1. Skipped' \in SUBSET Skipped /\ ToRepeat' \in SUBSET ToRepeat
      BY <2>5, <2>6, <2>14, <2>15, <2>16
    <3>2. QED BY <2>17, <3>1, FS_Subset, FS_CardinalityType
  <2>21. /\ walk.gone \in Nat /\ walk.come \in Nat /\ walk.again \in Nat
         /\ Cardinality(Skipped) <= walk.gone /\ walk.again + Cardinality(ToRepeat) <= walk.come
    BY <1>1 DEF WalkInv, Walk, k
  <2>22. /\ Cardinality(Skipped') <= walk'.gone
         /\ walk'.again + Cardinality(ToRepeat') <= walk'.come
    BY <2>8, <2>10, <2>18, <2>19, <2>20, <2>21
  <2>23. QED
    BY <1>2, <2>10, <2>12, <2>13, <2>22 DEF ListInv, WalkInv
<1>5. QED BY <1>3, <1>4

(* Every step keeps the invariant. *)
LEMMA ListInvStep == ListInv /\ [ListingNext]_listingVars => ListInv'
<1> SUFFICES ASSUME ListInv, [ListingNext]_listingVars PROVE ListInv'
  OBVIOUS
<1>1. CASE UNCHANGED listingVars
  BY <1>1 DEF ListInv, TablesOK, WalkInv, SteadyListed, SeenPast, Skipped, ToRepeat, WalkPlace,
     Listed, Visible, Shows
<1>2. CASE Search
  BY <1>2, SearchStep
<1>3. CASE \E kind \in {"hashtag", "user"}, a \in Asked : BeginWalk(kind, a)
  BY <1>3, BeginStep
<1>4. QED
  BY <1>1, <1>2, <1>3, TablesStep DEF ListingNext

(* An empty page means that the client is past every row. *)
LEMMA EmptyPage ==
  ASSUME ListInv, walk.kind # "none", NextPage = {}
  PROVE  walk.steady \ walk.seen = Skipped
<1> DEFINE k == walk.kind
           S == Listed(walk.kind)
           o == walk.offset
<1>1. FiniteRows(S) /\ S \in SUBSET Nat
  BY ListedFinite DEF ListInv, Listed, FiniteRows
<1>2. walk \in Walk /\ walk.steady \subseteq S
  BY DEF ListInv, WalkInv, SteadyListed
<1>3. PICK n \in Nat : n = PageSize(walk.size) /\ n >= 1
  BY <1>2, PageSizeType DEF Walk
<1>4. o \in Nat
  BY <1>2 DEF Walk
<1>5. Between(k, S, o, o + n - 1) = {}
  BY <1>3 DEF NextPage, Page, Between
<1>6. Cardinality(S) \in Nat /\ \A x \in S : Place(k, S, x) \in Nat /\ Place(k, S, x) < Cardinality(S)
  BY <1>1, PlaceType, FS_CardinalityType DEF FiniteRows
<1>7. \A x \in S : Place(k, S, x) < o
  <2> HIDE DEF k, S, o
  <2>1. CASE o < Cardinality(S)
    <3>1. PICK x \in S : Place(k, S, x) = o
      BY <1>1, <1>4, <2>1, PlaceTaken
    <3>2. o \in o .. (o + n - 1)
      BY <1>3, <1>4
    <3>3. QED BY <1>5, <3>1, <3>2 DEF Between
  <2>2. CASE ~(o < Cardinality(S))
    BY <1>4, <1>6, <2>2
  <2>3. QED BY <2>1, <2>2
<1>8. QED
  BY <1>2, <1>7 DEF Skipped, WalkPlace

(* The types, as the invariant has them. *)
LEMMA ListInvTyped == ListInv => ListingTypeOK
  BY DEF ListInv, TablesOK, Walk, ListingTypeOK

(* The types of the tables and of the client's book keeping. *)
THEOREM ListingTypeCorrect == ListingSpec => []ListingTypeOK
  BY ListInvTyped, ListInvInit, ListInvStep, PTL DEF ListingSpec

(* Paging by offset over tables that change, for any number of messages and users: a client *)
(* that comes to an empty page of GET /search has missed at most as many of the rows listed  *)
(* all along as rows went away, and no more rows came twice than new ones appeared.          *)
THEOREM PagesMissNoMore == ListingSpec => []PagesMissOnlyRemoved
<1>1. ListInv => PagesMissOnlyRemoved
  <2> SUFFICES ASSUME ListInv, walk.kind # "none"
               PROVE  /\ NextPage = {} => Cardinality(walk.steady \ walk.seen) <= walk.gone
                      /\ walk.again <= walk.come
    BY DEF PagesMissOnlyRemoved
  <2>1. /\ Cardinality(Skipped) <= walk.gone /\ walk.again + Cardinality(ToRepeat) <= walk.come
        /\ walk.again \in Nat /\ walk.come \in Nat
    BY DEF ListInv, WalkInv, Walk
  <2>2. Cardinality(ToRepeat) \in Nat
    <3>1. IsFiniteSet(Listed(walk.kind)) /\ ToRepeat \in SUBSET Listed(walk.kind)
      BY ListedFinite DEF ListInv, Listed, FiniteRows, ToRepeat
    <3>2. QED BY <3>1, FS_Subset, FS_CardinalityType
  <2>3. NextPage = {} => Cardinality(walk.steady \ walk.seen) <= walk.gone
    BY <2>1, EmptyPage
  <2>4. QED BY <2>1, <2>2, <2>3
<1>2. QED
  BY <1>1, ListInvInit, ListInvStep, PTL DEF ListingSpec

\* A walk that no row of the list left and none joined.
Undisturbed == walk.kind # "none" /\ walk.gone = 0 /\ walk.come = 0

(* While nothing leaves or joins the list, paging by offset is exact: the client that comes *)
(* to an empty page has seen every row that was listed all along, and no row twice.         *)
THEOREM UndisturbedWalkIsExact ==
  ListingSpec => [](Undisturbed => walk.again = 0 /\ (NextPage = {} => walk.steady \subseteq walk.seen))
<1>1. ListInv /\ PagesMissOnlyRemoved =>
        (Undisturbed => walk.again = 0 /\ (NextPage = {} => walk.steady \subseteq walk.seen))
  <2> SUFFICES ASSUME ListInv, PagesMissOnlyRemoved, Undisturbed
               PROVE  walk.again = 0 /\ (NextPage = {} => walk.steady \subseteq walk.seen)
    OBVIOUS
  <2>1. /\ NextPage = {} => Cardinality(walk.steady \ walk.seen) <= 0
        /\ walk.again <= 0 /\ walk.again \in Nat
    BY DEF PagesMissOnlyRemoved, Undisturbed, ListInv, WalkInv, Walk
  <2>2. IsFiniteSet(walk.steady \ walk.seen)
    <3>1. IsFiniteSet(Listed(walk.kind)) /\ walk.steady \subseteq Listed(walk.kind)
      BY ListedFinite DEF Undisturbed, ListInv, WalkInv, SteadyListed, Listed, FiniteRows
    <3>2. walk.steady \ walk.seen \in SUBSET Listed(walk.kind)
      BY <3>1
    <3>3. QED BY <3>1, <3>2, FS_Subset
  <2>3. Cardinality(walk.steady \ walk.seen) \in Nat
    BY <2>2, FS_CardinalityType
  <2>4. NextPage = {} => walk.steady \ walk.seen = {}
    BY <2>1, <2>2, <2>3, FS_EmptySet
  <2>5. QED BY <2>1, <2>4
<1>2. QED
  BY <1>1, PagesMissNoMore, ListInvInit, ListInvStep, PTL DEF ListingSpec
=============================================================================
