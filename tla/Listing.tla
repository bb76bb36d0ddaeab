------------------------------ MODULE Listing -------------------------------
(***************************************************************************)
(* What the search lists: messages between their reveal and their expiry    *)
(* (MessageRepo.Create fixes both), newest first, and users by name; and a  *)
(* client that walks through the pages of GET /search while messages are    *)
(* posted, revealed, deleted and expire, and users register.                *)
(*                                                                         *)
(* All messages carry the hashtag and all names match the query.  The total *)
(* that is counted before the page is only displayed and left out, like the *)
(* masking of mysteries, which changes no list.                             *)
(***************************************************************************)
EXTENDS Integers, Sequences, FiniteSets

CONSTANTS Day,         \* 24 hours, the life of a message
          DefaultPage, \* page size when none, or nonsense, is asked for: 20
          MaxPage,     \* largest page: 50
          Asked,       \* page sizes that clients ask for
          Usernames,   \* usernames, in their order
          MaxPosts,    \* bound: messages
          MaxHour      \* bound: the last hour

ASSUME ListingAssumption ==
  /\ Day \in Nat \ {0} /\ DefaultPage \in 1 .. MaxPage /\ MaxPage \in Nat
  /\ Asked \subseteq Int /\ Usernames \subseteq Nat /\ MaxPosts \in Nat /\ MaxHour \in Nat \ {0}

VARIABLES hour,
          board,  \* the messages in the order of their creation; live: not deleted
          joined, \* usernames in the table users
          walk    \* the client: where it is, what it has seen, what changed meanwhile

listingVars == <<hour, board, joined, walk>>

NoDate  == 0   \* NULL, or an empty scheduled_at
BadDate == -1  \* a scheduled_at that is not in RFC 3339
Types   == {"", "standard", "mystery", "capsule"}
PostRequests == [type : Types, date : {NoDate, BadDate} \union 1 .. MaxHour, blank : BOOLEAN]

Home == [kind |-> "none", size |-> 0, offset |-> 0, seen |-> {},
         steady |-> {}, gone |-> 0, come |-> 0, again |-> 0]

ListingInit == hour = 1 /\ board = <<>> /\ joined = {} /\ walk = Home
-----------------------------------------------------------------------------
\* CreateMessageRequest.Validate; sizes, coordinates and visibility are always good here.
ValidPost(req) == req.type = "capsule" => req.date # NoDate

MessageType(req) == IF req.type = "" THEN "standard" ELSE req.type

ScheduledAt(req) == IF req.type = "capsule" /\ req.date # BadDate THEN req.date ELSE NoDate

\* A date that does not parse leaves a capsule without reveal and expiry.
ExpiresAt(req) ==
  CASE MessageType(req) = "standard" -> hour + Day
    [] MessageType(req) = "capsule" /\ req.date # BadDate -> req.date + Day
    [] OTHER -> NoDate

\* expires_at IS NULL OR expires_at > NOW(), scheduled_at IS NULL OR scheduled_at <= NOW()
Shows(m) ==
  /\ m.live
  /\ m.expires = NoDate \/ m.expires > hour
  /\ m.reveal = NoDate \/ m.reveal <= hour

Visible == {i \in DOMAIN board : Shows(board[i])}

\* What a search lists, and in which order: messages newest first, users by name.
Listed(kind) == IF kind = "user" THEN joined ELSE Visible

Precedes(kind, x, y) == IF kind = "user" THEN x < y ELSE x > y

\* How many of the rows come before x.
Place(kind, rows, x) == Cardinality({y \in rows : Precedes(kind, y, x)})

\* A change of the tables, seen by the client that is walking.
Followed ==
  LET before == Listed(walk.kind)
      after == IF walk.kind = "user" THEN joined' ELSE Visible' IN
  walk' = IF walk.kind = "none" THEN walk
          ELSE [walk EXCEPT !.steady = @ \intersect after,
                            !.gone = @ + Cardinality(before \ after),
                            !.come = @ + Cardinality(after \ before)]
-----------------------------------------------------------------------------
\* POST /messages; of a blank text TrimSpace leaves nothing, which the table refuses.
CreateMessage(req) ==
  /\ Len(board) < MaxPosts
  /\ ValidPost(req) /\ ~req.blank
  /\ board' = Append(board, [reveal |-> ScheduledAt(req), expires |-> ExpiresAt(req),
                             live |-> TRUE])
  /\ UNCHANGED <<hour, joined>>
  /\ Followed

DeleteListed(i) ==
  /\ board[i].live
  /\ board' = [board EXCEPT ![i] = [reveal |-> NoDate, expires |-> NoDate, live |-> FALSE]]
  /\ UNCHANGED <<hour, joined>>
  /\ Followed

NewUser(n) ==
  /\ n \notin joined
  /\ joined' = joined \union {n}
  /\ UNCHANGED <<hour, board>>
  /\ Followed

HourPasses ==
  /\ hour < MaxHour
  /\ hour' = hour + 1
  /\ UNCHANGED <<board, joined>>
  /\ Followed
-----------------------------------------------------------------------------
\* parseInt and the handler's clamp; the one in SearchService then changes nothing.
PageSize(asked) == CASE asked <= 0 -> DefaultPage
                     [] asked > MaxPage -> MaxPage
                     [] OTHER -> asked

BeginWalk(kind, asked) ==
  /\ walk = Home
  /\ walk' = [Home EXCEPT !.kind = kind, !.size = asked, !.steady = Listed(kind)]
  /\ UNCHANGED <<hour, board, joined>>

\* Mutant: the page begins one row late.
PageLate(kind, offset, size) ==
  {x \in Listed(kind) : Place(kind, Listed(kind), x) \in offset + 1 .. offset + size}

\* ORDER BY ... LIMIT $2 OFFSET $3
Page(kind, offset, size) ==
  {x \in Listed(kind) : Place(kind, Listed(kind), x) \in offset .. offset + size - 1}

NextPage == Page(walk.kind, walk.offset, PageSize(walk.size))

\* One page; the client goes on after as many rows as it got, until it gets none.
Search ==
  /\ walk.kind # "none"
  /\ walk' = IF NextPage = {} THEN Home
             ELSE [walk EXCEPT !.offset = @ + Cardinality(NextPage),
                               !.seen = @ \union NextPage,
                               !.again = @ + Cardinality(NextPage \intersect walk.seen)]
  /\ UNCHANGED <<hour, board, joined>>

ListingNext ==
  \/ \E req \in PostRequests : CreateMessage(req)
  \/ \E i \in DOMAIN board : DeleteListed(i)
  \/ \E n \in Usernames : NewUser(n)
  \/ \E k \in {"hashtag", "user"}, a \in Asked : BeginWalk(k, a)
  \/ HourPasses \/ Search

ListingSpec == ListingInit /\ [][ListingNext]_listingVars
-----------------------------------------------------------------------------
ListingTypeOK ==
  /\ hour \in 1 .. MaxHour
  /\ board \in Seq([reveal : Nat, expires : Nat, live : BOOLEAN]) /\ Len(board) <= MaxPosts
  /\ joined \subseteq Usernames
  /\ walk \in [kind : {"none", "hashtag", "user"}, size : Int, offset : Nat, seen : SUBSET Nat,
               steady : SUBSET Nat, gone : Nat, come : Nat, again : Nat]

(* Paging by offset over tables that change: a client that gets an empty    *)
(* page has missed at most as many of the rows that were listed all along   *)
(* as rows went away meanwhile, and no row came twice except once for each  *)
(* that appeared.                                                           *)
PagesMissOnlyRemoved ==
  walk.kind # "none" =>
    /\ NextPage = {} => Cardinality(walk.steady \ walk.seen) <= walk.gone
    /\ walk.again <= walk.come
=============================================================================
