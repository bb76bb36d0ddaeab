----------------------------- MODULE Moderation -----------------------------
(***************************************************************************)
(* Reports of one message and its automatic hiding: ReportMessage inserts a *)
(* report, counts the reports and hides the message, three statements that  *)
(* commit one by one.  The table content_reports is external (its migration *)
(* is missing): ON CONFLICT DO NOTHING presumes one report per user and     *)
(* message, and a report goes with its message like every other row.        *)
(***************************************************************************)
EXTENDS Naturals, FiniteSets

CONSTANTS Handlers,   \* request goroutines
          Reporters,  \* users
          HideAt,     \* reports that hide a message, 3 in the code
          MaxErrors   \* bound: failing statements

ASSUME ModerationAssumption ==
  IsFiniteSet(Reporters) /\ HideAt \in Nat \ {0} /\ MaxErrors \in Nat

VARIABLES present,  \* the row of the message exists
          hidden,   \* messages.is_hidden
          reports,  \* rows of content_reports: their reporters
          step,     \* which statement each request is at; the first one starts it
          errors

moderationVars == <<present, hidden, reports, step, errors>>

ModerationInit ==
  /\ present = TRUE /\ hidden = FALSE /\ reports = {}
  /\ step = [h \in Handlers |-> "insert"]
  /\ errors = 0

Goto(h, l) == step' = [step EXCEPT ![h] = l]
Error == errors < MaxErrors /\ errors' = errors + 1

\* A report by u; a second one by the same user is ignored, and the request goes on.  Without
\* the message the foreign key fails and nothing happens.
ReportMessage(h, u) ==
  /\ step[h] = "insert"
  /\ present
  /\ reports' = reports \union {u}
  /\ \/ Goto(h, "count") /\ UNCHANGED errors
     \/ Error /\ UNCHANGED step        \* only the answer is lost
  /\ UNCHANGED <<present, hidden>>

\* Mutant: more than three reports.
GetReportCountStrict(h) ==
  /\ step[h] = "count"
  /\ Goto(h, IF Cardinality(reports) > HideAt THEN "hide" ELSE "insert")
  /\ UNCHANGED <<present, hidden, reports, errors>>

\* Any failure here or later is ignored: the report is saved.
GetReportCount(h) ==
  /\ step[h] = "count"
  /\ \/ Goto(h, IF Cardinality(reports) >= HideAt THEN "hide" ELSE "insert") /\ UNCHANGED errors
     \/ Error /\ Goto(h, "insert")
  /\ UNCHANGED <<present, hidden, reports>>

\* An UPDATE, of no row if the message is gone.
HideMessage(h) ==
  /\ step[h] = "hide"
  /\ \/ hidden' = present /\ UNCHANGED errors
     \/ Error /\ UNCHANGED hidden
  /\ Goto(h, "insert")
  /\ UNCHANGED <<present, reports>>

\* The author deletes the message.
DeleteReported ==
  /\ present
  /\ present' = FALSE /\ hidden' = FALSE /\ reports' = {}
  /\ UNCHANGED <<step, errors>>

ModerationNext ==
  \/ \E h \in Handlers : \/ \E u \in Reporters : ReportMessage(h, u)
                         \/ GetReportCount(h) \/ HideMessage(h)
  \/ DeleteReported

ModerationSpec == ModerationInit /\ [][ModerationNext]_moderationVars
-----------------------------------------------------------------------------
ModerationTypeOK ==
  /\ present \in BOOLEAN /\ hidden \in BOOLEAN
  /\ reports \subseteq Reporters
  /\ step \in [Handlers -> {"insert", "count", "hide"}]
  /\ errors \in 0 .. MaxErrors

(* Auto-hide: the message is hidden only with enough reports of different   *)
(* users, and, when no statement failed, is hidden once the requests that   *)
(* brought them have ended, however they overlapped.                        *)
HiddenIffReported ==
  /\ hidden => Cardinality(reports) >= HideAt
  /\ /\ present /\ errors = 0 /\ Cardinality(reports) >= HideAt
     /\ \A h \in Handlers : step[h] = "insert"
     => hidden
=============================================================================
