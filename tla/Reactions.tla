----------------------------- MODULE Reactions ------------------------------
(***************************************************************************)
(* Emoji reactions to one message: ToggleReaction of                        *)
(* repository/interaction_repo.go, which selects, writes and reads the      *)
(* summary in statements that commit one by one, and the popup of the       *)
(* application (widgets/message_popup.dart), which shows every tap at once, *)
(* does not wait for the answers and puts back a snapshot on an error.      *)
(*                                                                         *)
(* The requests of other users touch rows of their own, so each of them is  *)
(* one step; they only move the counts.                                     *)
(***************************************************************************)
EXTENDS Naturals, FiniteSets

CONSTANTS Others,  \* users other than the owner of the popup
          Emojis,  \* the emoji that Validate allows
          MaxTaps  \* bound: taps in the popup

ASSUME ReactionsAssumption == IsFiniteSet(Others) /\ Emojis # {} /\ MaxTaps \in Nat

Taps == 1 .. MaxTaps

\* The id of a row from before the popup was opened; a row inserted for a tap has the tap's.
Earlier == MaxTaps + 1
Ids == 0 .. Earlier

VARIABLES
  posted,   \* the row of the message exists
  owned,    \* id of the owner's row of each emoji, 0 when there is none
  theirs,   \* the other users' rows: user and emoji
  popup,    \* _reactions: of each emoji its count (0: not listed) and the owner's mark
  call,     \* of each tap its request: step, emoji, id seen, snapshot, summary, read as
  taps,     \* taps so far
  reads,    \* summaries read so far
  shown,    \* history: the read the popup shows, 0 before it shows any
  muddled   \* history: an answer was overtaken or lost after the write, or an error met
            \* another tap, and no tap has been answered since that met none

tableRows == <<posted, owned, theirs>>
reactionVars == <<tableRows, popup, call, taps, reads, shown, muddled>>

\* GetReactionsByMessage, and the list of nearby messages (GetReactionsByMessages)
Summary(own, others) ==
  [e \in Emojis |-> [count   |-> Cardinality({u \in Others : <<u, e>> \in others})
                                 + (IF own[e] = 0 THEN 0 ELSE 1),
                     reacted |-> own[e] # 0]]

NoCall == [pc |-> "none", emoji |-> CHOOSE e \in Emojis : TRUE, id |-> 0,
           old |-> Summary([e \in Emojis |-> 0], {}), alone |-> TRUE,
           new |-> Summary([e \in Emojis |-> 0], {}), read |-> 0]

\* The owner may have reacted before.  The popup opens on a list whose marks may be older
\* than the rows: reacting does not invalidate the cache.
ReactionsInit ==
  /\ posted = TRUE
  /\ owned \in [Emojis -> {0, Earlier}] /\ theirs = {}
  /\ \E marked \in [Emojis -> {0, Earlier}] : popup = Summary(marked, theirs)
  /\ call = [t \in Taps |-> NoCall]
  /\ taps = 0 /\ reads = 0 /\ shown = 0 /\ muddled = FALSE

InFlight == {t \in Taps : call[t].pc \notin {"none", "done"}}
-----------------------------------------------------------------------------
\* The optimistic update of one emoji
Flipped(s) == IF s.reacted THEN [count |-> s.count - 1, reacted |-> FALSE]
                           ELSE [count |-> s.count + 1, reacted |-> TRUE]

\* _toggleReaction up to its request
Tap(e) ==
  LET t == taps + 1 IN
  /\ taps < MaxTaps
  /\ taps' = t
  /\ popup' = [popup EXCEPT ![e] = Flipped(@)]
  /\ call' = [u \in Taps |->
       CASE u = t -> [NoCall EXCEPT !.pc = "select", !.emoji = e, !.old = popup,
                                    !.alone = (InFlight = {})]
         [] u \in InFlight -> [call[u] EXCEPT !.alone = FALSE]
         [] OTHER -> call[u]]
  /\ UNCHANGED <<tableRows, reads, shown, muddled>>

Select(t) ==
  /\ call[t].pc = "select"
  /\ call' = [call EXCEPT ![t].pc = IF owned[call[t].emoji] = 0 THEN "insert" ELSE "delete",
                          ![t].id = owned[call[t].emoji]]
  /\ UNCHANGED <<tableRows, popup, taps, reads, shown, muddled>>

\* UNIQUE and the foreign key may refuse the row; the request is then answered with 500.
Insert(t) ==
  LET e == call[t].emoji IN
  /\ call[t].pc = "insert"
  /\ IF owned[e] = 0 /\ posted
       THEN owned' = [owned EXCEPT ![e] = t] /\ call' = [call EXCEPT ![t].pc = "summary"]
       ELSE UNCHANGED owned /\ call' = [call EXCEPT ![t].pc = "failed"]
  /\ UNCHANGED <<posted, theirs, popup, taps, reads, shown, muddled>>

\* DELETE ... WHERE id: a row that is gone goes unnoticed.
Delete(t) ==
  LET e == call[t].emoji IN
  /\ call[t].pc = "delete"
  /\ owned' = IF owned[e] = call[t].id THEN [owned EXCEPT ![e] = 0] ELSE owned
  /\ call' = [call EXCEPT ![t].pc = "summary", ![t].id = 0]
  /\ UNCHANGED <<posted, theirs, popup, taps, reads, shown, muddled>>

GetReactionsByMessage(t) ==
  /\ call[t].pc = "summary"
  /\ reads' = reads + 1
  /\ call' = [call EXCEPT ![t].pc = "answered", ![t].new = Summary(owned, theirs),
                          ![t].read = reads + 1]
  /\ UNCHANGED <<tableRows, popup, taps, shown, muddled>>

\* A statement, the request or its answer fails; past the write that is a lost answer.
Fail(t) ==
  /\ call[t].pc \in {"select", "insert", "delete", "summary", "answered"}
  /\ call' = [call EXCEPT ![t].pc = "failed", ![t].new = NoCall.new]
  /\ muddled' = (muddled \/ call[t].pc \in {"summary", "answered"})
  /\ UNCHANGED <<tableRows, popup, taps, reads, shown>>

\* The popup takes over the summary of an answer, whatever it shows by then ...
Answer(t) ==
  /\ call[t].pc = "answered"
  /\ popup' = call[t].new
  /\ call' = [call EXCEPT ![t] = [NoCall EXCEPT !.pc = "done"]]
  /\ shown' = call[t].read
  /\ muddled' = (~call[t].alone /\ (muddled \/ call[t].read < shown))
  /\ UNCHANGED <<tableRows, taps, reads>>

\* Mutant: the optimistic update stays.
RevertMissing(t) ==
  /\ call[t].pc = "failed"
  /\ call' = [call EXCEPT ![t] = [NoCall EXCEPT !.pc = "done"]]
  /\ muddled' = (muddled \/ ~call[t].alone)
  /\ UNCHANGED <<tableRows, popup, taps, reads, shown>>

\* ... and on an error goes back to what it showed before the tap.
Revert(t) ==
  /\ call[t].pc = "failed"
  /\ popup' = call[t].old
  /\ call' = [call EXCEPT ![t] = [NoCall EXCEPT !.pc = "done"]]
  /\ muddled' = (muddled \/ ~call[t].alone)
  /\ UNCHANGED <<tableRows, taps, reads, shown>>
-----------------------------------------------------------------------------
ToggleByOther(u, e) ==
  /\ posted
  /\ theirs' = IF <<u, e>> \in theirs THEN theirs \ {<<u, e>>} ELSE theirs \union {<<u, e>>}
  /\ UNCHANGED <<posted, owned, popup, call, taps, reads, shown, muddled>>

\* ON DELETE CASCADE
DeletePosted ==
  /\ posted
  /\ posted' = FALSE
  /\ owned' = [e \in Emojis |-> 0] /\ theirs' = {}
  /\ UNCHANGED <<popup, call, taps, reads, shown, muddled>>

ReactionsNext ==
  \/ \E e \in Emojis : Tap(e) \/ \E u \in Others : ToggleByOther(u, e)
  \/ \E t \in Taps : \/ Select(t) \/ Insert(t) \/ Delete(t) \/ GetReactionsByMessage(t)
                     \/ Fail(t) \/ Answer(t) \/ Revert(t)
  \/ DeletePosted

ReactionsSpec == ReactionsInit /\ [][ReactionsNext]_reactionVars
-----------------------------------------------------------------------------
Summaries == [Emojis -> [count : Nat, reacted : BOOLEAN]]

ReactionsTypeOK ==
  /\ posted \in BOOLEAN
  /\ owned \in [Emojis -> Ids] /\ theirs \subseteq Others \X Emojis
  /\ popup \in Summaries
  /\ call \in [Taps -> [pc : {"none", "select", "insert", "delete", "summary", "answered",
                              "failed", "done"},
                        emoji : Emojis, id : Ids, old : Summaries, alone : BOOLEAN,
                        new : Summaries, read : 0 .. MaxTaps]]
  /\ taps \in 0 .. MaxTaps /\ reads \in 0 .. MaxTaps /\ shown \in 0 .. MaxTaps
  /\ muddled \in BOOLEAN

(* Overlapping taps may go wrong in three ways: of two that insert the same *)
(* row the second is refused, and an error puts back a snapshot that knows  *)
(* nothing of the other tap; an answer may be overtaken by a later one; an  *)
(* answer may be lost after its change.  (Two that delete the same row are  *)
(* both answered, and the second has changed nothing.)  None of this        *)
(* outlasts the next tap that overlaps no other and is answered: once no    *)
(* request is in flight the popup has a mark where the user has a row and   *)
(* nowhere else, and a tap on its own finds the row as it selected it.      *)
PopupAgrees ==
  /\ posted /\ ~muddled /\ shown > 0 /\ InFlight = {} =>
       \A e \in Emojis : popup[e].reacted = (owned[e] # 0)
  /\ \A t \in Taps : posted /\ call[t].alone /\ call[t].pc \in {"insert", "delete"} =>
       owned[call[t].emoji] = call[t].id
=============================================================================
