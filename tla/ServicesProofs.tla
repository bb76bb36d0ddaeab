--------------------------- MODULE ServicesProofs ---------------------------
(***************************************************************************)
(* Proofs about the smaller components: auto-hide, the session of a phone, *)
(* the start and end of the server, and the reaction popup, each for every *)
(* value of its constants.                                                 *)
(***************************************************************************)
EXTENDS MCServices, ThrottleProofs, ListingProofs, LiveFeedProofs, FiniteSetTheorems, TLAPS

(***************************************************************************)
(* Reports.  Auto-hide for any number of users and concurrent reports.     *)
(***************************************************************************)
Enough == Cardinality(reports) >= HideAt

(* One more report is still enough reports. *)
LEMMA ReportsGrow ==
  ASSUME reports \subseteq Reporters, NEW u \in Reporters, reports' = reports \union {u}, Enough
  PROVE  Enough'
<1>1. IsFiniteSet(reports') /\ reports \subseteq reports'
  BY ModerationAssumption, FS_Subset
<1>2. Cardinality(reports) \in Nat /\ Cardinality(reports') \in Nat
      /\ Cardinality(reports) <= Cardinality(reports')
  BY <1>1, FS_Subset, FS_CardinalityType
<1>3. QED
  BY <1>2, ModerationAssumption DEF Enough

(* While enough reports of a message that is still there have not hidden it, *)
(* a request that will is on its way, unless a statement failed; a request   *)
(* that is about to hide has counted enough, and counts do not go back.      *)
HidingUnderway ==
  present /\ errors = 0 /\ Enough /\ ~hidden => \E h \in Handlers : step[h] # "insert"

CountedEnough == present /\ (\E h \in Handlers : step[h] = "hide") => Enough

\* A deleted message has no flag.
FlagOfPresent == hidden => present

ModerationInv ==
  ModerationTypeOK /\ HidingUnderway /\ CountedEnough /\ FlagOfPresent /\ (hidden => Enough)

(* Every statement of a report, and the deletion, keep the invariant. *)
LEMMA ModerationStep == ModerationInv /\ [ModerationNext]_moderationVars => ModerationInv'
<1> SUFFICES ASSUME ModerationInv, [ModerationNext]_moderationVars PROVE ModerationInv'
  OBVIOUS
<1> USE ModerationAssumption
        DEF ModerationInv, ModerationTypeOK, HidingUnderway, CountedEnough, FlagOfPresent, Goto, Error
<1>1. ASSUME NEW h \in Handlers, NEW u \in Reporters, ReportMessage(h, u) PROVE ModerationInv'
  <2>1. Enough => Enough'
    BY <1>1, ReportsGrow DEF ReportMessage
  <2>2. errors' = 0 => step'[h] = "count"
    BY <1>1 DEF ReportMessage
  <2>3. QED
    BY <1>1, <2>1, <2>2 DEF ReportMessage
<1>2. ASSUME NEW h \in Handlers, GetReportCount(h) PROVE ModerationInv'
  <2>1. Enough' <=> Enough
    BY <1>2 DEF GetReportCount, Enough
  <2>2. CASE Enough
    BY <1>2, <2>1, <2>2 DEF GetReportCount, Enough
  <2>3. CASE ~Enough
    BY <1>2, <2>1, <2>3 DEF GetReportCount, Enough
  <2>4. QED
    BY <2>2, <2>3
<1>3. ASSUME NEW h \in Handlers, HideMessage(h) PROVE ModerationInv'
  <2>1. Enough' <=> Enough
    BY <1>3 DEF HideMessage, Enough
  <2>2. QED
    BY <1>3, <2>1 DEF HideMessage
<1>4. CASE DeleteReported
  BY <1>4 DEF DeleteReported
<1>5. CASE UNCHANGED moderationVars
  BY <1>5 DEF Enough, moderationVars
<1>6. QED
  BY <1>1, <1>2, <1>3, <1>4, <1>5 DEF ModerationNext

(* Before the first report nothing is hidden. *)
LEMMA ModerationStart == ModerationInit => ModerationInv
<1>1. ModerationInit => ~Enough
  BY FS_EmptySet, ModerationAssumption DEF ModerationInit, Enough
<1>2. ModerationInit => ModerationTypeOK
  <2>1. ModerationInit => errors \in 0 .. MaxErrors
    BY ModerationAssumption DEF ModerationInit
  <2>2. ModerationInit => step \in [Handlers -> {"insert", "count", "hide"}]
    BY DEF ModerationInit
  <2>3. ModerationInit => present \in BOOLEAN /\ hidden \in BOOLEAN /\ reports \subseteq Reporters
    BY Zenon DEF ModerationInit
  <2>4. QED
    BY <2>1, <2>2, <2>3 DEF ModerationTypeOK
<1>3. ModerationInit => HidingUnderway
  BY <1>1 DEF HidingUnderway
<1>4. ModerationInit => CountedEnough
  BY DEF ModerationInit, CountedEnough
<1>5. ModerationInit => FlagOfPresent
  BY DEF ModerationInit, FlagOfPresent
<1>6. QED
  BY <1>2, <1>3, <1>4, <1>5, Zenon DEF ModerationInit, ModerationInv

(* However reports of one message overlap, it is hidden only with enough    *)
(* reporters, and is hidden when their requests have ended, unless a        *)
(* statement failed.                                                        *)
THEOREM AutoHideIsExact == ModerationSpec => []HiddenIffReported
<1>1. ModerationInv => HiddenIffReported
  BY DEF ModerationInv, HidingUnderway, HiddenIffReported, Enough
<1>2. QED
  BY <1>1, ModerationStart, ModerationStep, PTL DEF ModerationSpec
-----------------------------------------------------------------------------
(***************************************************************************)
(* The session.  The copies of the token agree, for every set of names and *)
(* emails and every lifetime of a token.  SessionAgrees speaks of screens at *)
(* rest; Underway adds what holds between the steps of init and logout.    *)
(***************************************************************************)
Underway ==
  /\ doing = "splash" => apiToken = stored /\ provider.token = stored
  /\ doing = "clearing" => apiToken = NoToken /\ provider = LoggedOut
  /\ doing = "leaving" => stored = NoToken

SessionInv == SessionTypeOK /\ SessionAgrees /\ Underway

(* The absence of a token has the type of a token. *)
LEMMA EmptyTypes ==
  /\ NoToken \in Tokens
  /\ LoggedOut \in [token : Tokens, user : Emails \union {Nobody}]
  BY SessionAssumption DEF NoToken, LoggedOut, Tokens

(* A token that the server makes has the type of a token. *)
LEMMA GeneratedType ==
  ASSUME clock \in 0 .. MaxClock, NEW e \in Emails
  PROVE  GenerateToken(e) \in Tokens
  BY SessionAssumption DEF GenerateToken, Tokens

(* A row of users, whoever registered it. *)
LEMMA RowType ==
  ASSUME NEW n \in Names, NEW e \in Emails, NEW b \in BOOLEAN
  PROVE  [name |-> n, email |-> e, mine |-> b] \in [name : Names, email : Emails, mine : BOOLEAN]
  BY Zenon

(* The first state, with nobody registered and the application off.         *)
LEMMA SessionInitInv == SessionInit => SessionInv
  BY EmptyTypes, SessionAssumption
  DEF SessionInit, SessionInv, SessionTypeOK, SessionAgrees, Underway, LoggedOut, NoToken

(* No step of the server, of the application or of the system that ends it  *)
(* makes the copies disagree.                                               *)
LEMMA SessionStepInv == SessionInv /\ [SessionNext]_sessionVars => SessionInv'
<1> SUFFICES ASSUME SessionInv, [SessionNext]_sessionVars PROVE SessionInv'
  OBVIOUS
<1> USE DEF SessionInv, SessionTypeOK, SessionAgrees, Underway, memory
<1>1. ASSUME NEW n \in Names, NEW e \in Emails, RegisterElsewhere(n, e) PROVE SessionInv'
  <2>1. users' \subseteq [name : Names, email : Emails, mine : BOOLEAN]
    BY <1>1, RowType DEF RegisterElsewhere
  <2>2. QED
    BY <1>1, <2>1 DEF RegisterElsewhere
<1>2. CASE StartApp
  BY <1>2 DEF StartApp, NoToken
<1>3. CASE Me
  <2>1. ASSUME provider' = [provider EXCEPT !.user = apiToken.sub], doing' = "ready",
               UNCHANGED apiToken
        PROVE  SessionInv'
    <3>1. apiToken.sub \in Emails \union {Nobody}
      BY DEF Tokens
    <3>2. provider' \in [token : Tokens, user : Emails \union {Nobody}]
      BY <2>1, <3>1
    <3>3. QED
      BY <1>3, <2>1, <3>2 DEF Me
  <2>2. ASSUME provider' = LoggedOut, apiToken' = NoToken, doing' = "clearing"
        PROVE  SessionInv'
    BY <1>3, <2>2, EmptyTypes DEF Me
  <2>3. QED
    BY <1>3, <2>1, <2>2 DEF Me
<1>4. CASE Cleared
  BY <1>4, EmptyTypes DEF Cleared, LoggedOut, NoToken
<1>5. ASSUME NEW n \in Names, NEW e \in Emails, Register(n, e) PROVE SessionInv'
  <2>1. users' \subseteq [name : Names, email : Emails, mine : BOOLEAN]
    BY <1>5, RowType DEF Register
  <2>2. QED
    BY <1>5, <2>1, GeneratedType DEF Register, AtLogin
<1>6. ASSUME NEW e \in Emails, Login(e) PROVE SessionInv'
  BY <1>6, GeneratedType DEF Login, AtLogin
<1>7. CASE AnswerLost
  BY <1>7, EmptyTypes DEF AnswerLost
<1>8. CASE SaveAuth
  <2>1. reply.sub \in Emails \union {Nobody}
    BY DEF Tokens
  <2>2. QED
    BY <1>8, <2>1, EmptyTypes DEF SaveAuth
<1>9. CASE AuthSaved
  BY <1>9 DEF AuthSaved
<1>10. CASE Logout
  BY <1>10, EmptyTypes DEF Logout
<1>11. CASE LogoutDone
  BY <1>11, EmptyTypes DEF LogoutDone, LoggedOut, NoToken
<1>12. CASE Request
  <2>1. acted'.shown = provider.user /\ acted'.as \in {Nobody, apiToken.sub}
    BY <1>12 DEF Request
  <2>2. apiToken.sub \in Emails \union {Nobody} /\ provider.user = apiToken.sub
    BY <1>12 DEF Request, Tokens
  <2>3. acted' \in [as : Emails \union {Nobody}, shown : Emails \union {Nobody}]
    BY <1>12, <2>2 DEF Request
  <2>4. QED
    BY <1>12, <2>1, <2>2, <2>3 DEF Request
<1>13. CASE Kill
  BY <1>13, EmptyTypes DEF Kill
<1>14. CASE Wait
  BY <1>14, SessionAssumption DEF Wait
<1>15. CASE UNCHANGED sessionVars
  BY <1>15 DEF sessionVars
<1>16. QED
  BY <1>1, <1>2, <1>3, <1>4, <1>5, <1>6, <1>7, <1>8, <1>9, <1>10, <1>11, <1>12, <1>13,
     <1>14, <1>15 DEF SessionNext

(* auth_provider.dart: its token, the one ApiService sends and the one in   *)
(* the preferences agree whenever a screen can be used, and the server acts *)
(* for no account but the one shown, wherever the process was killed.       *)
THEOREM CopiesAgree == SessionSpec => []SessionAgrees
<1>1. SessionInv => SessionAgrees
  BY DEF SessionInv
<1>2. QED
  BY <1>1, SessionInitInv, SessionStepInv, PTL DEF SessionSpec
-----------------------------------------------------------------------------
(***************************************************************************)
(* The server.  It stops gracefully, for every number of connections and   *)
(* every grace period.  What ShutdownIsGraceful says of a running handler  *)
(* follows from what each stage of main leaves open (Stage).               *)
(***************************************************************************)
Served == pool = "open" /\ redis \in {"open", "off"}

\* What is open, and which connections there may be, in each stage of main.
Stage ==
  /\ stage \in {"start", "ping", "exit"} => \A c \in Sockets : conn[c] = "closed"
  /\ stage = "ping" => pool = "open"
  /\ stage \in {"serving", "draining"} => Served
  /\ stage \in {"closing", "closing pool"} => \A c \in Sockets : conn[c] \in {"closed", "hijacked"}
  /\ stage # "exit" => cut = {}
  /\ cut # {} => \/ ending = "listen"
                 \/ ending = "forced" /\ waited = Grace

ServerInv == ServerTypeOK /\ Stage

(* No handler runs in a stage in which something is missing or closed.      *)
LEMMA StageIsGraceful == ServerInv => ShutdownIsGraceful
  BY DEF ServerInv, ServerTypeOK, Stage, Served, ShutdownIsGraceful, Active

(* A process that has just started.                                         *)
LEMMA ServerInitInv == ServerInit => ServerInv
  BY ServerAssumption DEF ServerInit, ServerInv, ServerTypeOK, Stage, Served

(* The end of the process closes every connection; which handlers it may    *)
(* cut off is for the caller to show.                                       *)
LEMMA ExitInv ==
  ASSUME NEW why \in {"boot", "listen", "forced", "clean"},
         ServerInv, Exit(why),
         pool' \in {"none", "open", "closed"}, UNCHANGED redis,
         Active # {} => why = "listen" \/ (why = "forced" /\ waited = Grace)
  PROVE  ServerInv'
  BY DEF Exit, ServerInv, ServerTypeOK, Stage, Served, Active

(* A connection that moves while main serves, drains or closes.             *)
LEMMA MoveInv ==
  ASSUME ServerInv, NEW c \in Sockets, NEW from,
         NEW to \in {"closed", "new", "active", "idle", "hijacked"},
         Move(c, from, to), Running,
         stage \in {"closing", "closing pool"} => to \in {"closed", "hijacked"}
  PROVE  ServerInv'
  BY DEF Move, Running, ServerInv, ServerTypeOK, Stage, Served

(* Every step of main, of a connection and of the clock keeps the stages.   *)
LEMMA ServerStepInv == ServerInv /\ [ServerNext]_serverVars => ServerInv'
<1> SUFFICES ASSUME ServerInv, [ServerNext]_serverVars PROVE ServerInv'
  OBVIOUS
<1> USE DEF ServerInv, ServerTypeOK, Stage, Served
<1>1. ASSUME NEW c \in Sockets, Dial(c) PROVE ServerInv'
  BY <1>1, MoveInv DEF Dial, Running
<1>2. ASSUME NEW c \in Sockets, Handle(c) PROVE ServerInv'
  <2>1. stage \in {"serving", "draining"}
    BY <1>2 DEF Handle, Running, Move
  <2>2. QED
    BY <1>2, <2>1, MoveInv DEF Handle
<1>3. ASSUME NEW c \in Sockets, Respond(c) PROVE ServerInv'
  BY <1>3, MoveInv DEF Respond
<1>4. ASSUME NEW c \in Sockets, UpgradeWS(c) PROVE ServerInv'
  BY <1>4, MoveInv DEF UpgradeWS
<1>5. ASSUME NEW c \in Sockets, HangUp(c) PROVE ServerInv'
  BY <1>5, MoveInv DEF HangUp
<1>6. ASSUME NEW c \in Sockets, CloseIdle(c) PROVE ServerInv'
  BY <1>6, MoveInv DEF CloseIdle, Running
<1>7. CASE NewPool
  <2>1. Active = {}
    BY <1>7 DEF NewPool, Active
  <2>2. CASE Exit("boot") /\ UNCHANGED <<pool, redis>>
    BY <2>1, <2>2, ExitInv
  <2>3. CASE /\ pool' = "open" /\ stage' = "ping"
             /\ UNCHANGED <<redis, conn, waited, cut, ending>>
    BY <1>7, <2>3 DEF NewPool
  <2>4. QED
    BY <1>7, <2>2, <2>3 DEF NewPool
<1>8. CASE PingPool
  <2>1. Active = {}
    BY <1>8 DEF PingPool, Active
  <2>2. CASE Exit("boot") /\ UNCHANGED <<pool, redis>>
    BY <2>1, <2>2, ExitInv
  <2>3. CASE /\ redis' \in {"open", "off"} /\ stage' = "serving"
             /\ UNCHANGED <<pool, conn, waited, cut, ending>>
    BY <1>8, <2>3 DEF PingPool
  <2>4. QED
    BY <1>8, <2>2, <2>3 DEF PingPool
<1>9. CASE ListenFails
  BY <1>9 DEF ListenFails, Exit, Active
<1>10. CASE Signal
  BY <1>10 DEF Signal
<1>11. CASE Drained
  BY <1>11 DEF Drained
<1>12. CASE Second
  BY <1>12, ServerAssumption DEF Second
<1>13. CASE GraceOver
  BY <1>13, ExitInv DEF GraceOver
<1>14. CASE CloseRedis
  BY <1>14 DEF CloseRedis
<1>15. CASE ClosePool
  <2>1. Active = {}
    BY <1>15 DEF ClosePool, Active
  <2>2. QED
    BY <1>15, <2>1, ExitInv DEF ClosePool
<1>16. CASE UNCHANGED serverVars
  BY <1>16 DEF serverVars
<1>17. QED
  BY <1>1, <1>2, <1>3, <1>4, <1>5, <1>6, <1>7, <1>8, <1>9, <1>10, <1>11, <1>12, <1>13,
     <1>14, <1>15, <1>16 DEF ServerNext

(* main.go, for every number of connections and any grace period: handlers  *)
(* only run while the pool is open and the cache is open or off, and a      *)
(* shutdown cuts one off only when the whole grace period has passed.       *)
THEOREM ServerStopsGracefully == ServerSpec => []ShutdownIsGraceful
  BY StageIsGraceful, ServerInitInv, ServerStepInv, PTL DEF ServerSpec
-----------------------------------------------------------------------------
(***************************************************************************)
(* Reactions.  The marks of the popup are right once no request is in       *)
(* flight.  On the way there: every write is followed by a read that has a  *)
(* later number, so the latest summary has the marks of the rows unless a   *)
(* write has not been read yet; that summary is shown or still to come; and *)
(* a tap that was alone all the time remembers marks that were right.       *)
(***************************************************************************)
\* The summaries that a popup may show: a reaction of one's own has been counted.
Marks == {m \in Summaries : \A e \in Emojis : m[e].reacted => m[e].count > 0}

Right(marks) == \A e \in Emojis : marks[e].reacted = (owned[e] # 0)

Call == [pc : {"none", "select", "insert", "delete", "summary", "answered", "failed", "done"},
         emoji : Emojis, id : Ids, old : Marks, alone : BOOLEAN,
         new : Marks, read : Nat]

CallInv ==
  /\ posted \in BOOLEAN /\ muddled \in BOOLEAN
  /\ owned \in [Emojis -> Ids] /\ theirs \subseteq Others \X Emojis /\ popup \in Marks
  /\ call \in [Taps -> Call]
  /\ taps \in 0 .. MaxTaps /\ reads \in Nat /\ shown \in Nat
  /\ \A t \in InFlight : call[t].emoji \in Emojis /\ t <= taps

\* Summaries are numbered, and each number is given once.
NumberInv ==
  /\ shown <= reads
  /\ \A t \in Taps : call[t].pc = "answered" => call[t].read <= reads /\ call[t].read # shown
  /\ \A t, u \in Taps : call[t].pc = "answered" /\ call[u].pc = "answered" /\ t # u
                          => call[t].read # call[u].read

\* The latest summary is shown or waits for the popup, and has the marks of the rows.
LatestRead ==
  ~muddled => /\ shown = reads \/ \E t \in Taps : call[t].pc = "answered" /\ call[t].read = reads
              /\ posted /\ (\A t \in Taps : call[t].pc # "summary") =>
                   \A t \in Taps : call[t].pc = "answered" /\ call[t].read = reads => Right(call[t].new)

\* A tap that has been alone is the only one in flight.  Before its write it remembers marks
\* that are still those of the rows if they were right, and the row it has selected is as it
\* was; the summary it has read is the latest one and right.
Remembers(t) == posted /\ ~muddled /\ shown > 0 /\ call[t].pc \in {"select", "insert", "delete", "failed"}
                  => Right(call[t].old)

Selected(t) == posted /\ call[t].pc \in {"insert", "delete"} => owned[call[t].emoji] = call[t].id

HasRead(t) == call[t].pc = "answered" => call[t].read = reads /\ (posted => Right(call[t].new))

AloneInv ==
  \A t \in InFlight : call[t].alone => InFlight = {t} /\ Remembers(t) /\ Selected(t) /\ HasRead(t)

PopupInv == CallInv /\ NumberInv /\ LatestRead /\ AloneInv /\ PopupAgrees

(* The bound on taps is a number, and so are the ids of rows. *)
LEMMA TapBound ==
  /\ MaxTaps \in Nat /\ 0 \in 0 .. MaxTaps
  /\ Taps \subseteq Ids /\ {0, Earlier} \subseteq Ids /\ Ids \subseteq Nat
  BY ReactionsAssumption DEF Taps, Ids, Earlier

(* The summary that the server reads has the marks of the rows. *)
LEMMA SummaryMarks ==
  ASSUME NEW own \in [Emojis -> Nat], NEW others
  PROVE  /\ Summary(own, others) \in Marks
         /\ \A e \in Emojis : Summary(own, others)[e].reacted = (own[e] # 0)
<1>1. ASSUME NEW e \in Emojis PROVE Cardinality({u \in Others : <<u, e>> \in others}) \in Nat
  <2>1. {u \in Others : <<u, e>> \in others} \in SUBSET Others
    OBVIOUS
  <2>2. IsFiniteSet({u \in Others : <<u, e>> \in others})
    BY <2>1, ReactionsAssumption, FS_Subset
  <2>3. QED BY <2>2, FS_CardinalityType
<1>2. PICK f : \A e \in Emojis : f[e] = Cardinality({u \in Others : <<u, e>> \in others})
  <2>1. PICK g : g = [e \in Emojis |-> Cardinality({u \in Others : <<u, e>> \in others})]
    OBVIOUS
  <2>2. QED BY <2>1
<1>3. Summary(own, others) = [e \in Emojis |-> [count |-> f[e] + (IF own[e] = 0 THEN 0 ELSE 1), reacted |-> own[e] # 0]]
  BY <1>2 DEF Summary
<1>4. \A e \in Emojis : f[e] \in Nat
  BY <1>1, <1>2
<1>5. ASSUME NEW e \in Emojis
      PROVE  /\ Summary(own, others)[e] \in [count : Nat, reacted : BOOLEAN]
             /\ Summary(own, others)[e].reacted = (own[e] # 0)
             /\ own[e] # 0 => Summary(own, others)[e].count > 0
  <2>1. PICK b \in BOOLEAN : b = (own[e] # 0)
    OBVIOUS
  <2>2. PICK n \in Nat : n = f[e] + (IF own[e] = 0 THEN 0 ELSE 1)
    BY <1>4
  <2>3. Summary(own, others)[e] = [count |-> n, reacted |-> b]
    BY <1>3, <2>1, <2>2
  <2>4. own[e] # 0 => n > 0
    BY <1>4, <2>2
  <2>5. QED BY <2>1, <2>3, <2>4
<1>6. Summary(own, others) \in Summaries
  <2>1. PICK g : g = Summary(own, others)
    OBVIOUS
  <2>2. \A e \in Emojis : g[e] \in [count : Nat, reacted : BOOLEAN]
    BY <1>5, <2>1
  <2>3. DOMAIN g = Emojis /\ g = [e \in DOMAIN g |-> g[e]]
    BY <1>3, <2>1
  <2>4. QED BY <2>1, <2>2, <2>3 DEF Summaries
<1>7. QED BY <1>5, <1>6 DEF Marks

(* The empty call. *)
LEMMA NoCallType ==
  NoCall \in Call /\ NoCall.pc = "none" /\ NoCall.new \in Marks /\ NoCall.read = 0
<1>1. PICK s : s = Summary([e \in Emojis |-> 0], {})
  OBVIOUS
<1>2. s \in Marks
  BY <1>1, SummaryMarks
<1>3. NoCall = [pc |-> "none", emoji |-> NoCall.emoji, id |-> 0, old |-> s, alone |-> TRUE, new |-> s, read |-> 0]
  BY <1>1 DEF NoCall
<1>4. PICK m : m = NoCall.emoji
  OBVIOUS
<1>5. NoCall = [pc |-> "none", emoji |-> m, id |-> 0, old |-> s, alone |-> TRUE, new |-> s, read |-> 0]
  BY <1>3, <1>4
<1>6. m \in Emojis
  BY <1>4, ReactionsAssumption DEF NoCall
<1>7. QED BY <1>2, <1>5, <1>6, TapBound DEF Call

(* What each step of a request leaves of it; the requests of other taps stay as they are. *)
LEMMA CallSteps ==
  ASSUME CallInv, NEW t \in Taps,
         Select(t) \/ Insert(t) \/ Delete(t) \/ GetReactionsByMessage(t) \/ Fail(t) \/ Answer(t) \/ Revert(t)
  PROVE  /\ call' \in [Taps -> Call]
         /\ \A u \in Taps : u # t => call'[u] = call[u]
         /\ Select(t) \/ Insert(t) \/ Delete(t) \/ GetReactionsByMessage(t) \/ Fail(t) =>
              call'[t].emoji = call[t].emoji /\ call'[t].old = call[t].old /\ call'[t].alone = call[t].alone
         /\ Select(t) => call[t].pc = "select" /\ call'[t].pc \in {"insert", "delete"}
         /\ Insert(t) => call[t].pc = "insert" /\
              (\/ call'[t].pc = "summary"
               \/ call'[t].pc = "failed" /\ owned' = owned)
         /\ Delete(t) => call[t].pc = "delete" /\ call'[t].pc = "summary"
         /\ GetReactionsByMessage(t) => /\ call[t].pc = "summary" /\ call'[t].pc = "answered"
                                        /\ call'[t].new = Summary(owned, theirs)
                                        /\ call'[t].read = reads + 1
         /\ Fail(t) => call'[t].pc = "failed"
         /\ Answer(t) \/ Revert(t) => call'[t].pc = "done"
<1>0. call \in [Taps -> Call] /\ call[t] \in Call /\ t \in Nat
  BY ReactionsAssumption DEF CallInv, Taps
<1> DEFINE Same(r) == r.emoji = call[t].emoji /\ r.old = call[t].old /\ r.alone = call[t].alone
<1>1. ASSUME NEW r \in Call, call' = [call EXCEPT ![t] = r]
      PROVE  call' \in [Taps -> Call] /\ (\A u \in Taps : u # t => call'[u] = call[u]) /\ call'[t] = r
  BY <1>0, <1>1
<1>2. ASSUME NEW l \in {"summary", "failed"}, call' = [call EXCEPT ![t].pc = l]
      PROVE  call' = [call EXCEPT ![t] = call'[t]] /\ call'[t] \in Call /\ call'[t].pc = l /\ Same(call'[t])
  <2>1. PICK r : r = [call[t] EXCEPT !.pc = l]
    OBVIOUS
  <2>2. r \in Call /\ r.pc = l /\ Same(r)
    BY <1>0, <2>1 DEF Call
  <2>3. call' = [call EXCEPT ![t] = r]
    BY <1>2, <2>1
  <2>4. QED BY <1>0, <2>2, <2>3
<1>3. ASSUME Select(t)
      PROVE  \E r \in Call : call' = [call EXCEPT ![t] = r] /\ Same(r) /\ r.pc \in {"insert", "delete"}
  <2>1. PICK l, i : /\ l = (IF owned[call[t].emoji] = 0 THEN "insert" ELSE "delete")
                    /\ i = owned[call[t].emoji]
    OBVIOUS
  <2>2. call[t].emoji \in Emojis
    BY <1>3 DEF Select, CallInv, InFlight
  <2>3. l \in {"insert", "delete"} /\ i \in Ids
    BY <2>1, <2>2 DEF CallInv
  <2>4. PICK r : r = [call[t] EXCEPT !.pc = l, !.id = i]
    OBVIOUS
  <2>5. r \in Call /\ r.pc = l /\ Same(r)
    BY <1>0, <2>3, <2>4 DEF Call
  <2>6. call' = [call EXCEPT ![t].pc = l, ![t].id = i]
    BY <1>3, <2>1 DEF Select
  <2>7. call' = [call EXCEPT ![t] = r]
    BY <1>0, <2>4, <2>6
  <2>8. QED BY <2>3, <2>5, <2>7
<1>4. ASSUME Insert(t)
      PROVE  \E r \in Call : /\ call' = [call EXCEPT ![t] = r] /\ Same(r)
                             /\ r.pc = "summary" \/ (r.pc = "failed" /\ owned' = owned)
  <2>1. \/ call' = [call EXCEPT ![t].pc = "summary"]
        \/ call' = [call EXCEPT ![t].pc = "failed"] /\ owned' = owned
    BY <1>4 DEF Insert
  <2>2. QED BY <1>2, <2>1
<1>5. ASSUME Delete(t)
      PROVE  \E r \in Call : call' = [call EXCEPT ![t] = r] /\ Same(r) /\ r.pc = "summary"
  <2>1. PICK r : r = [call[t] EXCEPT !.pc = "summary", !.id = 0]
    OBVIOUS
  <2>2. r \in Call /\ r.pc = "summary" /\ Same(r)
    BY <1>0, <2>1, TapBound DEF Call
  <2>3. call' = [call EXCEPT ![t] = r]
    BY <1>0, <1>5, <2>1 DEF Delete
  <2>4. QED BY <2>2, <2>3
<1>6. ASSUME GetReactionsByMessage(t)
      PROVE  \E r \in Call : /\ call' = [call EXCEPT ![t] = r] /\ Same(r) /\ r.pc = "answered"
                             /\ r.new = Summary(owned, theirs) /\ r.read = reads + 1
  <2>1. PICK s, n : s = Summary(owned, theirs) /\ n = reads + 1
    OBVIOUS
  <2>a. owned \in [Emojis -> Nat] /\ reads \in Nat
    BY TapBound DEF CallInv
  <2>2. s \in Marks /\ n \in Nat
    BY <2>1, <2>a, SummaryMarks
  <2>3. PICK r : r = [call[t] EXCEPT !.pc = "answered", !.new = s, !.read = n]
    OBVIOUS
  <2>4. r \in Call /\ r.pc = "answered" /\ r.new = s /\ r.read = n /\ Same(r)
    BY <1>0, <2>2, <2>3 DEF Call
  <2>5. call' = [call EXCEPT ![t].pc = "answered", ![t].new = s, ![t].read = n]
    BY <1>6, <2>1 DEF GetReactionsByMessage
  <2>6. call' = [call EXCEPT ![t] = r]
    BY <1>0, <2>3, <2>5
  <2>7. QED BY <2>1, <2>4, <2>6
<1>7. ASSUME Fail(t)
      PROVE  \E r \in Call : call' = [call EXCEPT ![t] = r] /\ Same(r) /\ r.pc = "failed"
  <2>1. PICK s : s = NoCall.new
    OBVIOUS
  <2>2. s \in Marks
    BY <2>1, NoCallType
  <2>3. PICK r : r = [call[t] EXCEPT !.pc = "failed", !.new = s]
    OBVIOUS
  <2>4. r \in Call /\ r.pc = "failed" /\ Same(r)
    BY <1>0, <2>2, <2>3 DEF Call
  <2>5. call' = [call EXCEPT ![t].pc = "failed", ![t].new = s]
    BY <1>7, <2>1 DEF Fail
  <2>6. call' = [call EXCEPT ![t] = r]
    BY <1>0, <2>3, <2>5
  <2>7. QED BY <2>4, <2>6
<1>8. ASSUME Answer(t) \/ Revert(t)
      PROVE  \E r \in Call : call' = [call EXCEPT ![t] = r] /\ r.pc = "done"
  <2>1. PICK r : r = [NoCall EXCEPT !.pc = "done"]
    OBVIOUS
  <2>2. r \in Call /\ r.pc = "done"
    BY <2>1, NoCallType DEF Call
  <2>3. call' = [call EXCEPT ![t] = r]
    BY <1>8, <2>1 DEF Answer, Revert
  <2>4. QED BY <2>2, <2>3
<1>9. call' \in [Taps -> Call] /\ \A u \in Taps : u # t => call'[u] = call[u]
  BY <1>1, <1>3, <1>4, <1>5, <1>6, <1>7, <1>8
<1>10. Select(t) => Same(call'[t]) /\ call[t].pc = "select" /\ call'[t].pc \in {"insert", "delete"}
  BY <1>1, <1>3 DEF Select
<1>11. Insert(t) => /\ Same(call'[t]) /\ call[t].pc = "insert"
                    /\ call'[t].pc = "summary" \/ (call'[t].pc = "failed" /\ owned' = owned)
  BY <1>1, <1>4 DEF Insert
<1>12. Delete(t) => Same(call'[t]) /\ call[t].pc = "delete" /\ call'[t].pc = "summary"
  BY <1>1, <1>5 DEF Delete
<1>13. GetReactionsByMessage(t) => /\ Same(call'[t]) /\ call[t].pc = "summary" /\ call'[t].pc = "answered"
                                   /\ call'[t].new = Summary(owned, theirs) /\ call'[t].read = reads + 1
  BY <1>1, <1>6 DEF GetReactionsByMessage
<1>14. Fail(t) => Same(call'[t]) /\ call'[t].pc = "failed"
  BY <1>1, <1>7
<1>15. Answer(t) \/ Revert(t) => call'[t].pc = "done"
  BY <1>1, <1>8
<1>16. QED
  BY <1>9, <1>10, <1>11, <1>12, <1>13, <1>14, <1>15

(* What a tap leaves of the requests. *)
LEMMA TapCalls ==
  ASSUME CallInv, NEW e \in Emojis, Tap(e), NEW t, t = taps + 1
  PROVE  /\ t \in Taps /\ call' \in [Taps -> Call] /\ t \notin InFlight
         /\ call'[t].pc = "select" /\ call'[t].emoji = e /\ call'[t].old = popup
         /\ call'[t].alone = (InFlight = {})
         /\ \A u \in InFlight : /\ call'[u].alone = FALSE /\ call'[u].pc = call[u].pc
                                /\ call'[u].emoji = call[u].emoji
                                /\ call'[u].new = call[u].new /\ call'[u].read = call[u].read
<1>0. /\ taps \in 0 .. MaxTaps /\ taps < MaxTaps /\ call \in [Taps -> Call] /\ popup \in Marks
      /\ InFlight \subseteq Taps /\ \A u \in InFlight : u <= taps
  BY DEF CallInv, Tap, InFlight
<1>1. t \in Taps /\ t \notin InFlight
  BY <1>0, ReactionsAssumption DEF Taps
<1>3. PICK r : r = [NoCall EXCEPT !.pc = "select", !.emoji = e, !.old = popup, !.alone = (InFlight = {})]
  OBVIOUS
<1>5. r \in Call /\ r.pc = "select" /\ r.emoji = e /\ r.old = popup /\ r.alone = (InFlight = {})
  BY <1>0, <1>3, NoCallType DEF Call
<1> DEFINE After(u) == CASE u = taps + 1 -> [NoCall EXCEPT !.pc = "select", !.emoji = e, !.old = popup,
                                                           !.alone = (InFlight = {})]
                         [] u \in InFlight -> [call[u] EXCEPT !.alone = FALSE]
                         [] OTHER -> call[u]
<1>6. call' = [u \in Taps |-> After(u)]
  BY DEF Tap
<1>7. call'[t] = r
  BY <1>1, <1>3, <1>6
<1>8. ASSUME NEW u \in InFlight
      PROVE  /\ call'[u] \in Call /\ call'[u].alone = FALSE /\ call'[u].pc = call[u].pc
             /\ call'[u].emoji = call[u].emoji /\ call'[u].new = call[u].new /\ call'[u].read = call[u].read
  <2>1. PICK q : q = [call[u] EXCEPT !.alone = FALSE]
    OBVIOUS
  <2>2. call[u] \in Call /\ u \in Taps /\ u # t
    BY <1>0, <1>1
  <2>3. /\ q \in Call /\ q.alone = FALSE /\ q.pc = call[u].pc
        /\ q.emoji = call[u].emoji /\ q.new = call[u].new /\ q.read = call[u].read
    BY <2>1, <2>2 DEF Call
  <2>4. call'[u] = q
    BY <1>6, <2>1, <2>2
  <2>5. QED BY <2>3, <2>4
<1>9. \A u \in Taps : u = t \/ u \in InFlight \/ call'[u] = call[u]
  BY <1>6
<1>10. call' \in [Taps -> Call]
  <2>1. \A u \in Taps : call'[u] \in Call
    BY <1>0, <1>5, <1>7, <1>8, <1>9
  <2> HIDE DEF After
  <2>2. QED BY <1>6, <2>1
<1>11. QED
  BY <1>1, <1>5, <1>7, <1>8, <1>9, <1>10

(* A tap leaves the requests alone that are not in flight. *)
LEMMA TapOthers ==
  ASSUME CallInv, NEW e \in Emojis, Tap(e), NEW u \in Taps, u # taps + 1, u \notin InFlight
  PROVE  call'[u] = call[u]
  BY DEF Tap

(* A request that goes on stays in flight, one that ends leaves. *)
LEMMA FlightSteps ==
  ASSUME CallInv, NEW t \in Taps
  PROVE  /\ Select(t) \/ Insert(t) \/ Delete(t) \/ GetReactionsByMessage(t) \/ Fail(t) =>
              t \in InFlight /\ InFlight' = InFlight
         /\ Answer(t) \/ Revert(t) => t \in InFlight /\ InFlight' = InFlight \ {t}
<1>1. ASSUME Select(t) \/ Insert(t) \/ Delete(t) \/ GetReactionsByMessage(t) \/ Fail(t)
      PROVE  t \in InFlight /\ InFlight' = InFlight
  <2>1. call[t].pc \in {"select", "insert", "delete", "summary", "answered"}
    BY <1>1 DEF Select, Insert, Delete, GetReactionsByMessage, Fail
  <2>2. /\ call'[t].pc \in {"insert", "delete", "summary", "failed", "answered"}
        /\ \A u \in Taps : u # t => call'[u] = call[u]
    BY <1>1, CallSteps
  <2>3. QED BY <2>1, <2>2 DEF InFlight
<1>2. ASSUME Answer(t) \/ Revert(t) PROVE t \in InFlight /\ InFlight' = InFlight \ {t}
  <2>1. call[t].pc \in {"failed", "answered"}
    BY <1>2 DEF Answer, Revert
  <2>2. call'[t].pc = "done" /\ \A u \in Taps : u # t => call'[u] = call[u]
    BY <1>2, CallSteps
  <2>3. QED BY <2>1, <2>2 DEF InFlight
<1>3. QED BY <1>1, <1>2

(* Every step keeps the value domains. *)
LEMMA CallStep == CallInv /\ [ReactionsNext]_reactionVars => CallInv'
<1> SUFFICES ASSUME CallInv, [ReactionsNext]_reactionVars PROVE CallInv'
  OBVIOUS
<1>0. /\ owned \in [Emojis -> Ids] /\ reads \in Nat /\ shown \in Nat
      /\ taps \in 0 .. MaxTaps /\ popup \in Marks
      /\ call \in [Taps -> Call]
  BY DEF CallInv
<1>1. ASSUME NEW e \in Emojis, Tap(e) PROVE CallInv'
  <2>1. PICK t : t = taps + 1
    OBVIOUS
  <2>2. /\ popup[e] \in [count : Nat, reacted : BOOLEAN]
        /\ popup[e].reacted => popup[e].count > 0
    BY <1>0 DEF Marks, Summaries
  <2>3. /\ Flipped(popup[e]) \in [count : Nat, reacted : BOOLEAN]
        /\ Flipped(popup[e]).reacted => Flipped(popup[e]).count > 0
    BY <2>2 DEF Flipped
  <2>4. popup' = [popup EXCEPT ![e] = Flipped(popup[e])] /\ taps' = t
    BY <1>1, <2>1 DEF Tap
  <2>5. popup' \in Marks /\ taps' \in 0 .. MaxTaps
    <3>1. PICK x : x = Flipped(popup[e])
      OBVIOUS
    <3>2. popup' \in Marks
      BY <1>0, <2>3, <2>4, <3>1 DEF Marks, Summaries
    <3>3. taps < MaxTaps
      BY <1>1 DEF Tap
    <3>4. QED
      BY <1>0, <2>1, <2>4, <3>2, <3>3, TapBound
  <2>6. call' \in [Taps -> Call]
    BY <1>1, <2>1, TapCalls
  <2>7. ASSUME NEW u \in InFlight' PROVE call'[u].emoji \in Emojis /\ u <= taps'
    <3>1. u \in Taps /\ call'[u].pc \notin {"none", "done"}
      BY DEF InFlight
    <3>2. CASE u = t
      <4>1. call'[t].emoji = e
        BY <1>1, <2>1, TapCalls
      <4>2. t \in Nat /\ t <= t
        BY <1>0, <2>1
      <4>3. QED BY <2>4, <3>2, <4>1, <4>2
    <3>3. CASE u \in InFlight
      <4>1. call[u].emoji \in Emojis /\ u <= taps
        BY <3>3 DEF CallInv
      <4>2. call'[u].emoji = call[u].emoji
        BY <1>1, <2>1, <3>3, TapCalls
      <4>3. u \in Nat
        BY <3>1, ReactionsAssumption DEF Taps
      <4>4. QED BY <1>0, <2>1, <2>4, <4>1, <4>2, <4>3
    <3>4. CASE u # t /\ u \notin InFlight
      <4>1. call'[u] = call[u]
        BY <1>1, <2>1, <3>1, <3>4, TapOthers
      <4>2. QED BY <3>1, <3>4, <4>1 DEF InFlight
    <3>5. QED BY <3>2, <3>3, <3>4
  <2>8. QED BY <1>1, <2>5, <2>6, <2>7 DEF CallInv, Tap, tableRows
<1>2. ASSUME NEW t \in Taps,
             Select(t) \/ Insert(t) \/ Delete(t) \/ GetReactionsByMessage(t) \/ Fail(t)
      PROVE  CallInv'
  <2>1. InFlight' = InFlight /\ t \in InFlight /\ t \in Nat
    BY <1>2, FlightSteps, ReactionsAssumption DEF Taps
  <2>2. /\ call' \in [Taps -> Call] /\ \A u \in Taps : u # t => call'[u] = call[u]
        /\ call'[t].emoji = call[t].emoji
    BY <1>2, CallSteps
  <2>3. UNCHANGED <<posted, theirs, popup, taps, shown>>
    BY <1>2 DEF Select, Insert, Delete, GetReactionsByMessage, Fail, tableRows
  <2>4. call[t].emoji \in Emojis
    BY <2>1 DEF CallInv
  <2>5. owned' \in [Emojis -> Ids]
    <3>1. t \in Ids /\ 0 \in Ids
      BY TapBound
    <3>2. CASE Insert(t)
      BY <1>0, <2>4, <3>1, <3>2 DEF Insert
    <3>3. CASE Delete(t)
      BY <1>0, <2>4, <3>1, <3>3 DEF Delete
    <3>4. CASE UNCHANGED owned
      BY <1>0, <3>4
    <3>5. QED
      BY <1>2, <3>2, <3>3, <3>4 DEF Select, GetReactionsByMessage, Fail, tableRows
  <2>6. reads' \in Nat
    BY <1>0, <1>2 DEF Select, Insert, Delete, GetReactionsByMessage, Fail
  <2>7. muddled' \in BOOLEAN
    BY <1>2, Zenon DEF CallInv, Select, Insert, Delete, GetReactionsByMessage, Fail
  <2>8. \A u \in InFlight' : call'[u].emoji \in Emojis /\ u <= taps'
    BY <2>1, <2>2, <2>3 DEF CallInv, InFlight
  <2>9. QED BY <2>2, <2>3, <2>5, <2>6, <2>7, <2>8 DEF CallInv
<1>3. ASSUME NEW t \in Taps, Answer(t) \/ Revert(t) PROVE CallInv'
  <2>1. InFlight' = InFlight \ {t}
    BY <1>3, FlightSteps
  <2>2. call' \in [Taps -> Call] /\ \A u \in Taps : u # t => call'[u] = call[u]
    BY <1>3, CallSteps
  <2>3. UNCHANGED <<posted, owned, theirs, taps, reads>>
    BY <1>3 DEF Answer, Revert, tableRows
  <2>4. call[t].new \in Marks /\ call[t].old \in Marks /\ call[t].read \in Nat
    BY <1>0 DEF Call
  <2>5. popup' \in Marks /\ shown' \in Nat
    BY <1>0, <1>3, <2>4 DEF Answer, Revert
  <2>6. muddled' \in BOOLEAN
    BY <1>3, Zenon DEF CallInv, Answer, Revert
  <2>7. \A u \in InFlight' : call'[u].emoji \in Emojis /\ u <= taps'
    BY <2>1, <2>2, <2>3 DEF CallInv, InFlight
  <2>8. QED BY <2>2, <2>3, <2>5, <2>6, <2>7 DEF CallInv
<1>4. ASSUME NEW u \in Others, NEW e \in Emojis, ToggleByOther(u, e) PROVE CallInv'
  BY <1>4 DEF ToggleByOther, CallInv, InFlight
<1>5. CASE DeletePosted
  BY <1>0, <1>5, TapBound DEF DeletePosted, CallInv, InFlight
<1>6. CASE UNCHANGED reactionVars
  BY <1>6 DEF reactionVars, tableRows, CallInv, InFlight
<1>7. QED
  BY <1>1, <1>2, <1>3, <1>4, <1>5, <1>6 DEF ReactionsNext

(* Numbers of summaries stay in order and distinct. *)
LEMMA NumberStep == CallInv /\ NumberInv /\ [ReactionsNext]_reactionVars => NumberInv'
<1> SUFFICES ASSUME CallInv, NumberInv, [ReactionsNext]_reactionVars PROVE NumberInv'
  OBVIOUS
<1>0. /\ reads \in Nat /\ shown \in Nat /\ \A t \in Taps : call[t].read \in Nat
  BY DEF CallInv, Call
<1>1. ASSUME UNCHANGED <<shown, reads>>,
             \A t \in Taps : call'[t].pc = "answered" => call[t].pc = "answered" /\ call'[t].read = call[t].read
      PROVE  NumberInv'
  BY <1>1 DEF NumberInv
<1>2. ASSUME NEW e \in Emojis, Tap(e) PROVE NumberInv'
  <2>1. UNCHANGED <<shown, reads>>
    BY <1>2 DEF Tap
  <2>2. ASSUME NEW u \in Taps, call'[u].pc = "answered"
        PROVE  call[u].pc = "answered" /\ call'[u].read = call[u].read
    <3>1. PICK t : t = taps + 1
      OBVIOUS
    <3>2. u # t
      BY <1>2, <2>2, <3>1, TapCalls
    <3>3. CASE u \in InFlight
      BY <1>2, <2>2, <3>1, <3>3, TapCalls
    <3>4. CASE u \notin InFlight
      BY <1>2, <2>2, <3>1, <3>2, <3>4, TapOthers
    <3>5. QED BY <3>3, <3>4
  <2>3. QED BY <1>1, <2>1, <2>2
<1>3. ASSUME NEW t \in Taps, Select(t) \/ Insert(t) \/ Delete(t) \/ Fail(t) \/ Revert(t) PROVE NumberInv'
  <2>1. UNCHANGED <<shown, reads>>
    BY <1>3 DEF Select, Insert, Delete, Fail, Revert
  <2>2. call'[t].pc # "answered" /\ \A u \in Taps : u # t => call'[u] = call[u]
    BY <1>3, CallSteps
  <2>3. QED BY <1>1, <2>1, <2>2
<1>4. ASSUME NEW t \in Taps, GetReactionsByMessage(t) PROVE NumberInv'
  <2>1. shown' = shown /\ reads' = reads + 1
    BY <1>4 DEF GetReactionsByMessage
  <2>2. call'[t].read = reads + 1 /\ \A u \in Taps : u # t => call'[u] = call[u]
    BY <1>4, CallSteps
  <2>3. \A u \in Taps : u # t /\ call'[u].pc = "answered" => call'[u].read <= reads /\ call'[u].read # shown
    BY <2>2 DEF NumberInv
  <2>4. \A u \in Taps : u # t => call'[u].read \in Nat
    BY <1>0, <2>2
  <2>5. shown <= reads
    BY DEF NumberInv
  <2>6. shown' <= reads' /\ \A u \in Taps : call'[u].pc = "answered" => call'[u].read <= reads' /\ call'[u].read # shown'
    BY <1>0, <2>1, <2>2, <2>3, <2>4, <2>5
  <2>7. \A u, v \in Taps : call'[u].pc = "answered" /\ call'[v].pc = "answered" /\ u # v
                             => call'[u].read # call'[v].read
    <3>1. ASSUME NEW u \in Taps, NEW v \in Taps, call'[u].pc = "answered", call'[v].pc = "answered", u # v
          PROVE  call'[u].read # call'[v].read
      <4>1. CASE u # t /\ v # t
        BY <2>2, <3>1, <4>1 DEF NumberInv
      <4>2. CASE u = t
        BY <1>0, <2>2, <2>3, <2>4, <3>1, <4>2
      <4>3. CASE v = t
        BY <1>0, <2>2, <2>3, <2>4, <3>1, <4>3
      <4>4. QED BY <4>1, <4>2, <4>3
    <3>2. QED BY <3>1
  <2>8. QED BY <2>6, <2>7 DEF NumberInv
<1>5. ASSUME NEW t \in Taps, Answer(t) PROVE NumberInv'
  <2>1. shown' = call[t].read /\ reads' = reads /\ call[t].pc = "answered"
    BY <1>5 DEF Answer
  <2>2. call'[t].pc = "done" /\ \A u \in Taps : u # t => call'[u] = call[u]
    BY <1>5, CallSteps
  <2>3. QED BY <2>1, <2>2 DEF NumberInv
<1>6. CASE UNCHANGED <<shown, reads, call>>
  BY <1>6 DEF NumberInv
<1>7. QED
  BY <1>2, <1>3, <1>4, <1>5, <1>6 DEF ReactionsNext, ToggleByOther, DeletePosted, reactionVars

(* Only the answer of a tap that was alone sets things right, and a deleted message does *)
(* not come back.                                                                       *)
LEMMA OnceMuddled ==
  ASSUME [ReactionsNext]_reactionVars
  PROVE  /\ posted' => posted
         /\ ~muddled' => ~muddled \/ \E t \in Taps : Answer(t) /\ call[t].alone
<1>1. posted' => posted
  BY DEF ReactionsNext, Tap, ToggleByOther, Select, Insert, Delete, GetReactionsByMessage, Fail, Answer,
     Revert, DeletePosted, reactionVars, tableRows
<1>2. ASSUME ~muddled' PROVE ~muddled \/ \E t \in Taps : Answer(t) /\ call[t].alone
  <2>1. ASSUME NEW t \in Taps, Fail(t) PROVE ~muddled
    BY <1>2, <2>1 DEF Fail
  <2>2. ASSUME NEW t \in Taps, Answer(t) PROVE ~muddled \/ call[t].alone
    BY <1>2, <2>2 DEF Answer
  <2>3. ASSUME NEW t \in Taps, Revert(t) PROVE ~muddled
    BY <1>2, <2>3 DEF Revert
  <2>4. CASE muddled' = muddled
    BY <1>2, <2>4
  <2>5. QED
    BY <2>1, <2>2, <2>3, <2>4
       DEF ReactionsNext, Tap, ToggleByOther, Select, Insert, Delete, GetReactionsByMessage, DeletePosted, reactionVars
<1>3. QED BY <1>1, <1>2

(* A write is not forgotten: until it is read the summary is still to come, and the *)
(* latest summary read after it has its marks.                                      *)
LEMMA LatestStep ==
  CallInv /\ NumberInv /\ LatestRead /\ AloneInv /\ [ReactionsNext]_reactionVars => LatestRead'
<1> SUFFICES ASSUME CallInv, NumberInv, LatestRead, AloneInv, [ReactionsNext]_reactionVars, ~muddled' PROVE LatestRead'
  BY DEF LatestRead
<1>0. /\ reads \in Nat /\ shown \in Nat /\ \A t \in Taps : call[t].read \in Nat
  BY DEF CallInv, Call
<1> DEFINE Waiting == \E t \in Taps : call[t].pc = "answered" /\ call[t].read = reads
           Written == \E t \in Taps : call[t].pc = "summary"
           Current == \A t \in Taps : call[t].pc = "answered" /\ call[t].read = reads => Right(call[t].new)
<1>1. ASSUME shown' = reads' \/ Waiting', posted' /\ ~Written' => Current' PROVE LatestRead'
  BY <1>1 DEF LatestRead
<1>2. ASSUME ~muddled PROVE (shown = reads \/ Waiting) /\ (posted /\ ~Written => Current)
  BY <1>2 DEF LatestRead
<1> HIDE DEF Waiting, Written, Current
<1>3. ASSUME ~muddled, UNCHANGED <<shown, reads, owned>>, posted' => posted,
             \A t \in Taps : call[t].pc = "answered" <=> call'[t].pc = "answered",
             \A t \in Taps : call[t].pc = "answered" => call'[t].read = call[t].read /\ call'[t].new = call[t].new,
             \A t \in Taps : call[t].pc = "summary" => call'[t].pc = "summary"
      PROVE  LatestRead'
  <2>1. shown' = reads' \/ Waiting'
    BY <1>2, <1>3 DEF Waiting
  <2>2. posted' /\ ~Written' => Current'
    BY <1>2, <1>3 DEF Written, Current, Right
  <2>3. QED BY <1>1, <2>1, <2>2
<1>4. ASSUME NEW e \in Emojis, Tap(e) PROVE LatestRead'
  <2>1. PICK t : t = taps + 1
    OBVIOUS
  <2>2. UNCHANGED <<shown, reads, owned, posted, muddled>>
    BY <1>4 DEF Tap, tableRows
  <2>3. /\ t \notin InFlight /\ call'[t].pc = "select"
        /\ \A u \in InFlight : call'[u].pc = call[u].pc /\ call'[u].new = call[u].new /\ call'[u].read = call[u].read
    BY <1>4, <2>1, TapCalls
  <2>a. \A u \in Taps : u # t /\ u \notin InFlight => call'[u] = call[u]
    BY <1>4, <2>1, TapOthers
  <2>4. \A u \in Taps : call[u].pc \in {"answered", "summary"} => u \in InFlight
    BY DEF InFlight
  <2>5. ASSUME NEW u \in Taps
        PROVE  /\ call[u].pc = "answered" <=> call'[u].pc = "answered"
               /\ call[u].pc = "answered" => call'[u].read = call[u].read /\ call'[u].new = call[u].new
               /\ call[u].pc = "summary" => call'[u].pc = "summary"
    <3>1. CASE u = t
      BY <2>3, <2>4, <3>1
    <3>2. CASE u \in InFlight
      BY <2>3, <3>2
    <3>3. CASE u # t /\ u \notin InFlight
      BY <2>a, <3>3
    <3>4. QED BY <3>1, <3>2, <3>3
  <2>6. QED BY <1>3, <2>2, <2>5
<1>5. ASSUME NEW t \in Taps, Select(t) \/ Revert(t) PROVE LatestRead'
  <2>1. UNCHANGED <<shown, reads, owned, posted>> /\ ~muddled
    <3>1. CASE Select(t)
      BY <3>1 DEF Select, tableRows
    <3>2. CASE Revert(t)
      BY <3>2 DEF Revert, tableRows
    <3>3. QED BY <1>5, <3>1, <3>2
  <2>2. /\ call[t].pc \in {"select", "failed"} /\ call'[t].pc \in {"insert", "delete", "done"}
        /\ \A u \in Taps : u # t => call'[u] = call[u]
    BY <1>5, CallSteps DEF Select, Revert
  <2>3. QED BY <1>3, <2>1, <2>2
<1>6. ASSUME NEW t \in Taps, Insert(t) \/ Delete(t) PROVE LatestRead'
  <2>1. UNCHANGED <<shown, reads, posted, muddled>>
    BY <1>6 DEF Insert, Delete
  <2>2. /\ call[t].pc \in {"insert", "delete"}
        /\ call'[t].pc = "summary" \/ (call'[t].pc = "failed" /\ owned' = owned)
        /\ \A u \in Taps : u # t => call'[u] = call[u]
    BY <1>6, CallSteps
  <2>3. CASE call'[t].pc = "failed" /\ owned' = owned
    BY <1>3, <2>1, <2>2, <2>3
  <2>4. CASE call'[t].pc = "summary"
    <3>1. shown' = reads' \/ Waiting'
      BY <1>2, <2>1, <2>2 DEF Waiting
    <3>2. Written'
      BY <2>4 DEF Written
    <3>3. QED BY <1>1, <3>1, <3>2
  <2>5. QED BY <2>2, <2>3, <2>4
<1>7. ASSUME NEW t \in Taps, GetReactionsByMessage(t) PROVE LatestRead'
  <2>1. reads' = reads + 1 /\ owned' = owned /\ owned \in [Emojis -> Nat]
    BY <1>7, TapBound DEF GetReactionsByMessage, tableRows, CallInv
  <2>2. /\ call'[t].pc = "answered" /\ call'[t].new = Summary(owned, theirs) /\ call'[t].read = reads + 1
        /\ \A u \in Taps : u # t => call'[u] = call[u]
    BY <1>7, CallSteps
  <2>3. Waiting'
    BY <2>1, <2>2 DEF Waiting
  <2>4. \A e \in Emojis : call'[t].new[e].reacted = (owned'[e] # 0)
    BY <2>1, <2>2, SummaryMarks
  <2>5. \A u \in Taps : u # t => ~(call'[u].pc = "answered" /\ call'[u].read = reads')
    BY <1>0, <2>1, <2>2 DEF NumberInv
  <2>6. Current'
    BY <2>4, <2>5 DEF Current, Right
  <2>7. QED BY <1>1, <2>3, <2>6
<1>8. ASSUME NEW t \in Taps, Fail(t) PROVE LatestRead'
  <2>1. UNCHANGED <<shown, reads, owned, posted>> /\ ~muddled /\ call[t].pc \notin {"summary", "answered"}
    BY <1>8 DEF Fail, tableRows
  <2>2. /\ call'[t].pc = "failed"
        /\ \A u \in Taps : u # t => call'[u] = call[u]
    BY <1>8, CallSteps
  <2>3. QED BY <1>3, <2>1, <2>2
<1>a. ASSUME NEW t \in Taps, Answer(t), call[t].alone PROVE LatestRead'
  <2>1. t \in InFlight /\ InFlight' = InFlight \ {t} /\ call[t].pc = "answered"
    BY <1>a, FlightSteps DEF Answer
  <2>2. InFlight' = {} /\ call[t].read = reads
    BY <1>a, <2>1 DEF AloneInv, HasRead
  <2>3. \A u \in Taps : call'[u].pc # "answered"
    BY <2>2 DEF InFlight
  <2>4. shown' = reads'
    BY <1>a, <2>2 DEF Answer
  <2>5. Current'
    BY <2>3 DEF Current
  <2>6. QED BY <1>1, <2>4, <2>5
<1>9. ASSUME NEW t \in Taps, Answer(t), ~call[t].alone PROVE LatestRead'
  <2>1. /\ UNCHANGED <<reads, owned, posted>> /\ ~muddled /\ shown' = call[t].read /\ ~(call[t].read < shown)
        /\ call[t].pc = "answered"
    BY <1>9 DEF Answer, tableRows
  <2>2. /\ call'[t].pc = "done"
        /\ \A u \in Taps : u # t => call'[u] = call[u]
    BY <1>9, CallSteps
  <2>3. shown' = reads' \/ Waiting'
    <3>1. CASE call[t].read = reads
      BY <2>1, <3>1
    <3>2. CASE call[t].read # reads
      <4>1. call[t].read <= reads /\ shown # reads
        BY <1>0, <2>1, <3>2 DEF NumberInv
      <4>2. PICK u \in Taps : call[u].pc = "answered" /\ call[u].read = reads
        BY <1>2, <2>1, <4>1 DEF Waiting
      <4>3. u # t
        BY <3>2, <4>2
      <4>4. QED BY <2>1, <2>2, <4>2, <4>3 DEF Waiting
    <3>3. QED BY <3>1, <3>2
  <2>4. posted' /\ ~Written' => Current'
    <3>1. Written => Written'
      BY <2>1, <2>2 DEF Written
    <3>2. Current => Current'
      BY <2>1, <2>2 DEF Current, Right
    <3>3. QED BY <1>2, <2>1, <3>1, <3>2
  <2>5. QED BY <1>1, <2>3, <2>4
<1>10. ASSUME NEW u \in Others, NEW e \in Emojis, ToggleByOther(u, e) PROVE LatestRead'
  BY <1>3, <1>10 DEF ToggleByOther
<1>11. CASE DeletePosted
  <2>1. UNCHANGED <<shown, reads, call, muddled>> /\ ~posted'
    BY <1>11 DEF DeletePosted
  <2>2. shown' = reads' \/ Waiting'
    BY <1>2, <2>1 DEF Waiting
  <2>3. QED BY <1>1, <2>1, <2>2
<1>12. CASE UNCHANGED reactionVars
  BY <1>3, <1>12 DEF reactionVars, tableRows
<1>13. QED
  BY <1>4, <1>5, <1>6, <1>7, <1>8, <1>a, <1>9, <1>10, <1>11, <1>12 DEF ReactionsNext

(* A tap that was alone put its mark on a popup that was right, and nothing else has written. *)
LEMMA AloneStep ==
  CallInv /\ NumberInv /\ AloneInv /\ PopupAgrees /\ [ReactionsNext]_reactionVars => AloneInv'
<1> SUFFICES ASSUME CallInv, NumberInv, AloneInv, PopupAgrees, [ReactionsNext]_reactionVars,
                    NEW t \in InFlight', call'[t].alone
             PROVE  InFlight' = {t} /\ Remembers(t)' /\ Selected(t)' /\ HasRead(t)'
  BY DEF AloneInv
<1>0. t \in Taps /\ (posted' => posted) /\ InFlight \subseteq Taps
  BY OnceMuddled DEF InFlight
<1>1. ASSUME NEW e \in Emojis, Tap(e)
      PROVE  InFlight' = {t} /\ Remembers(t)' /\ Selected(t)' /\ HasRead(t)'
  <2>1. PICK n : n = taps + 1
    OBVIOUS
  <2>2. /\ n \in Taps /\ call'[n].pc = "select" /\ call'[n].old = popup /\ call'[n].alone = (InFlight = {})
        /\ \A u \in InFlight : call'[u].alone = FALSE /\ call'[u].pc = call[u].pc
    BY <1>1, <2>1, TapCalls
  <2>a. \A u \in Taps : u # n /\ u \notin InFlight => call'[u] = call[u]
    BY <1>1, <2>1, TapOthers
  <2>3. InFlight' = InFlight \union {n}
    BY <2>2, <2>a DEF InFlight
  <2>4. t = n /\ InFlight = {}
    BY <2>2, <2>3
  <2>5. UNCHANGED <<posted, owned, muddled, shown>>
    BY <1>1 DEF Tap, tableRows
  <2>6. Remembers(t)'
    BY <2>2, <2>4, <2>5 DEF PopupAgrees, Remembers, Right
  <2>7. QED BY <2>2, <2>3, <2>4, <2>6 DEF Selected, HasRead
<1>2. ASSUME NEW u \in Taps,
             Select(u) \/ Insert(u) \/ Delete(u) \/ GetReactionsByMessage(u) \/ Fail(u)
      PROVE  InFlight' = {t} /\ Remembers(t)' /\ Selected(t)' /\ HasRead(t)'
  <2>1. InFlight' = InFlight /\ u \in InFlight /\ shown' = shown
    BY <1>2, FlightSteps DEF Select, Insert, Delete, GetReactionsByMessage, Fail
  <2>2. call'[u].old = call[u].old /\ call'[u].alone = call[u].alone /\ \A v \in Taps : v # u => call'[v] = call[v]
    BY <1>2, CallSteps
  <2>3. call[t].alone /\ InFlight = {t} /\ u = t
    BY <1>0, <2>1, <2>2 DEF AloneInv
  <2>a. ~muddled' => ~muddled
    BY <1>2 DEF Select, Insert, Delete, GetReactionsByMessage, Fail
  <2>4. ASSUME posted', ~muddled', shown' > 0, call'[t].pc \in {"select", "insert", "delete", "failed"}
        PROVE  owned' = owned /\ call[t].pc \in {"select", "insert", "delete", "failed"}
    <3>1. CASE Select(u)
      BY <2>3, <3>1 DEF Select, tableRows
    <3>2. CASE Insert(u) \/ Delete(u)
      BY <2>3, <2>4, <3>2, CallSteps
    <3>3. CASE GetReactionsByMessage(u)
      BY <2>3, <2>4, <3>3, CallSteps
    <3>4. CASE Fail(u)
      BY <2>3, <2>4, <3>4 DEF Fail, tableRows
    <3>5. QED BY <1>2, <3>1, <3>2, <3>3, <3>4
  <2>5. Remembers(t)'
    BY <1>0, <2>1, <2>2, <2>3, <2>a, <2>4 DEF AloneInv, Remembers, Right
  <2>6. Selected(t)'
    <3>1. CASE Select(u)
      <4>1. call'[t].id = owned[call[t].emoji] /\ call'[t].emoji = call[t].emoji /\ owned' = owned
        <5>1. call[t] \in Call /\ call \in [Taps -> Call]
          BY <1>0 DEF CallInv
        <5>2. QED BY <1>0, <2>3, <3>1, <5>1 DEF Select, tableRows, Call
      <4>2. QED BY <4>1 DEF Selected
    <3>2. CASE ~Select(u)
      <4>1. call'[t].pc \notin {"insert", "delete"}
        BY <1>2, <2>3, <3>2, CallSteps
      <4>2. QED BY <4>1 DEF Selected
    <3>3. QED BY <3>1, <3>2
  <2>7. HasRead(t)'
    <3>1. CASE GetReactionsByMessage(u)
      <4>1. call'[t].read = reads' /\ call'[t].new = Summary(owned, theirs) /\ owned' = owned
        BY <2>3, <3>1, CallSteps DEF GetReactionsByMessage, tableRows
      <4>2. owned \in [Emojis -> Nat]
        BY TapBound DEF CallInv
      <4>3. \A e \in Emojis : call'[t].new[e].reacted = (owned'[e] # 0)
        BY <4>1, <4>2, SummaryMarks
      <4>4. QED BY <4>1, <4>3 DEF HasRead, Right
    <3>2. CASE ~GetReactionsByMessage(u)
      <4>1. call'[t].pc # "answered"
        BY <1>2, <2>3, <3>2, CallSteps
      <4>2. QED BY <4>1 DEF HasRead
    <3>3. QED BY <3>1, <3>2
  <2>8. QED BY <2>1, <2>3, <2>5, <2>6, <2>7
<1>3. ASSUME NEW u \in Taps, Answer(u) \/ Revert(u)
      PROVE  FALSE
  <2>1. u \in InFlight /\ InFlight' = InFlight \ {u}
    BY <1>3, FlightSteps
  <2>2. call'[t] = call[t] /\ t \in InFlight /\ t # u
    BY <1>0, <1>3, <2>1, CallSteps
  <2>3. QED BY <2>1, <2>2 DEF AloneInv
<1>4. ASSUME NEW u \in Others, NEW e \in Emojis, ToggleByOther(u, e)
      PROVE  InFlight' = {t} /\ Remembers(t)' /\ Selected(t)' /\ HasRead(t)'
  BY <1>4 DEF ToggleByOther, AloneInv, Remembers, Selected, HasRead, Right, InFlight
<1>5. CASE DeletePosted
  BY <1>5 DEF DeletePosted, AloneInv, Remembers, Selected, HasRead, InFlight
<1>6. CASE UNCHANGED reactionVars
  BY <1>6 DEF reactionVars, tableRows, AloneInv, Remembers, Selected, HasRead, Right, InFlight
<1>7. QED
  BY <1>1, <1>2, <1>3, <1>4, <1>5, <1>6 DEF ReactionsNext

(* The last answer shows the latest summary, and the error of a lone tap what was right before. *)
LEMMA PopupStep ==
  ASSUME PopupInv, [ReactionsNext]_reactionVars, posted', ~muddled', shown' > 0, InFlight' = {}
  PROVE  \A e \in Emojis : popup'[e].reacted = (owned'[e] # 0)
<1>0. CallInv /\ NumberInv /\ LatestRead /\ AloneInv /\ PopupAgrees /\ posted
  BY OnceMuddled DEF PopupInv
<1>1. ASSUME NEW e \in Emojis, Tap(e) PROVE FALSE
  <2>1. PICK n : n = taps + 1
    OBVIOUS
  <2>2. n \in Taps /\ call'[n].pc = "select"
    BY <1>0, <1>1, <2>1, TapCalls
  <2>3. QED BY <2>2 DEF InFlight
<1>2. ASSUME NEW t \in Taps,
             Select(t) \/ Insert(t) \/ Delete(t) \/ GetReactionsByMessage(t) \/ Fail(t)
      PROVE  FALSE
  BY <1>0, <1>2, FlightSteps
<1>3. ASSUME NEW t \in Taps, Answer(t) PROVE \A e \in Emojis : popup'[e].reacted = (owned'[e] # 0)
  <2>1. InFlight = {t}
    BY <1>0, <1>3, FlightSteps
  <2>a. popup' = call[t].new /\ owned' = owned /\ call[t].pc = "answered"
    BY <1>3 DEF Answer, tableRows
  <2>b. CASE call[t].alone
    BY <1>0, <2>1, <2>a, <2>b DEF AloneInv, HasRead, Right
  <2> SUFFICES ASSUME ~call[t].alone PROVE \A e \in Emojis : popup'[e].reacted = (owned'[e] # 0)
    BY <2>b
  <2>2. /\ popup' = call[t].new /\ owned' = owned /\ call[t].pc = "answered" /\ ~(call[t].read < shown)
        /\ ~muddled
    BY <1>3, <2>a DEF Answer
  <2>3. \A u \in Taps : call[u].pc # "summary" /\ (call[u].pc = "answered" => u = t)
    BY <2>1, <2>2 DEF InFlight
  <2>4. call[t].read = reads
    <3>1. call[t].read \in Nat /\ reads \in Nat /\ shown \in Nat
      BY <1>0 DEF CallInv, Call
    <3>2. call[t].read <= reads /\ call[t].read # shown
      BY <1>0, <2>2 DEF NumberInv
    <3>3. shown # reads
      BY <2>2, <3>1, <3>2
    <3>4. QED BY <1>0, <2>2, <2>3, <3>3 DEF LatestRead
  <2>5. Right(call[t].new)
    BY <1>0, <2>2, <2>3, <2>4 DEF LatestRead
  <2>6. QED BY <2>2, <2>5 DEF Right
<1>4. ASSUME NEW t \in Taps, Revert(t) PROVE \A e \in Emojis : popup'[e].reacted = (owned'[e] # 0)
  <2>1. t \in InFlight
    BY <1>0, <1>4, FlightSteps
  <2>2. popup' = call[t].old /\ owned' = owned /\ shown' = shown /\ call[t].pc = "failed" /\ call[t].alone
        /\ ~muddled
    BY <1>4 DEF Revert, tableRows
  <2>3. Right(call[t].old)
    BY <1>0, <2>1, <2>2 DEF AloneInv, Remembers
  <2>4. QED BY <2>2, <2>3 DEF Right
<1>5. CASE UNCHANGED <<popup, owned, shown, call, muddled>>
  BY <1>0, <1>5 DEF PopupAgrees, InFlight
<1>6. QED
  BY <1>1, <1>2, <1>3, <1>4, <1>5
     DEF ReactionsNext, ToggleByOther, DeletePosted, reactionVars, tableRows

(* A popup that has just opened, with no tap. *)
LEMMA PopupStart == ReactionsInit => PopupInv
<1> SUFFICES ASSUME ReactionsInit PROVE PopupInv
  OBVIOUS
<1>1. \A t \in Taps : call[t] = NoCall /\ call[t].pc = "none"
  BY NoCallType DEF ReactionsInit
<1>2. InFlight = {}
  BY <1>1 DEF InFlight
<1>3. popup \in Marks
  <2>1. PICK marked \in [Emojis -> {0, Earlier}] : popup = Summary(marked, theirs)
    BY DEF ReactionsInit
  <2>2. marked \in [Emojis -> Nat]
    BY TapBound
  <2>3. QED BY <2>1, <2>2, SummaryMarks
<1>4. CallInv
  BY <1>2, <1>3, NoCallType, TapBound DEF ReactionsInit, CallInv
<1>5. NumberInv /\ LatestRead /\ AloneInv /\ PopupAgrees
  BY <1>1, <1>2 DEF ReactionsInit, NumberInv, LatestRead, AloneInv, PopupAgrees
<1>6. QED BY <1>4, <1>5 DEF PopupInv

(* message_popup.dart against ToggleReaction, for any taps, emojis and users: once the     *)
(* requests have ended the popup has a mark where the user has a row and nowhere else,     *)
(* unless answers overtook each other, one was lost after its change or an error met       *)
(* another tap.                                                                            *)
THEOREM PopupShowsRows == ReactionsSpec => []PopupAgrees
<1>1. PopupInv /\ [ReactionsNext]_reactionVars => PopupInv'
  <2> SUFFICES ASSUME PopupInv, [ReactionsNext]_reactionVars PROVE PopupInv'
    OBVIOUS
  <2>1. CallInv' /\ NumberInv' /\ LatestRead' /\ AloneInv'
    BY CallStep, NumberStep, LatestStep, AloneStep DEF PopupInv
  <2>2. \A t \in Taps : posted' /\ call'[t].alone /\ call'[t].pc \in {"insert", "delete"} =>
          owned'[call'[t].emoji] = call'[t].id
    BY <2>1 DEF AloneInv, Selected, InFlight
  <2>3. PopupAgrees'
    BY <2>2, PopupStep DEF PopupAgrees
  <2>4. QED BY <2>1, <2>3 DEF PopupInv
<1>2. PopupInv => PopupAgrees
  BY DEF PopupInv
<1>3. QED
  BY <1>1, <1>2, PopupStart, PTL DEF ReactionsSpec
-----------------------------------------------------------------------------
(***************************************************************************)
(* Types of all services.  What is not obvious is that a count in the popup *)
(* never goes below zero (Marks: what is taken back had been counted) and   *)
(* that there are no more summaries than taps (ReadsInv: a tap that has not *)
(* read yet will read at most once).                                        *)
(***************************************************************************)
ToRead == {t \in Taps : call[t].pc \in {"select", "insert", "delete", "summary"}}

ReadsInv ==
  /\ reads + Cardinality(ToRead) <= taps
  /\ \A t \in Taps : call[t].read <= reads

(* The taps that will still read are finitely many. *)
LEMMA ToReadFinite == IsFiniteSet(ToRead) /\ Cardinality(ToRead) \in Nat
<1>1. IsFiniteSet(Taps)
  BY FS_Interval, TapBound DEF Taps
<1>2. ToRead \in SUBSET Taps
  BY DEF ToRead
<1>3. QED BY <1>1, <1>2, FS_Subset, FS_CardinalityType

(* A step that lets no tap read keeps the bound. *)
LEMMA NoNewRead ==
  ASSUME CallInv, ReadsInv, UNCHANGED <<taps, reads>>, ToRead' \in SUBSET ToRead,
         \A t \in Taps : call'[t].read = call[t].read \/ call'[t].read = 0
  PROVE  ReadsInv'
<1>1. /\ IsFiniteSet(ToRead') /\ Cardinality(ToRead') <= Cardinality(ToRead)
      /\ Cardinality(ToRead') \in Nat /\ Cardinality(ToRead) \in Nat
  BY ToReadFinite, FS_Subset, FS_CardinalityType
<1>2. reads \in Nat /\ taps \in Nat
  BY TapBound DEF CallInv
<1>3. reads' + Cardinality(ToRead') <= taps'
  BY <1>1, <1>2 DEF ReadsInv
<1>4. \A t \in Taps : call'[t].read <= reads'
  BY <1>2 DEF ReadsInv
<1>5. QED BY <1>3, <1>4 DEF ReadsInv

(* Each tap reads at most one summary. *)
LEMMA ReadsStep == CallInv /\ ReadsInv /\ [ReactionsNext]_reactionVars => ReadsInv'
<1> SUFFICES ASSUME CallInv, ReadsInv, [ReactionsNext]_reactionVars PROVE ReadsInv'
  OBVIOUS
<1>0. /\ reads \in Nat /\ taps \in Nat /\ call \in [Taps -> Call]
      /\ \A t \in Taps : call[t].read \in Nat /\ call[t].read <= reads
      /\ IsFiniteSet(ToRead) /\ Cardinality(ToRead) \in Nat
      /\ reads + Cardinality(ToRead) <= taps
  BY TapBound, ToReadFinite DEF CallInv, Call, ReadsInv
<1>1. ASSUME NEW e \in Emojis, Tap(e) PROVE ReadsInv'
  <2>1. PICK t : t = taps + 1
    OBVIOUS
  <2>2. /\ t \in Taps /\ t \notin InFlight /\ call'[t].pc = "select"
        /\ \A u \in InFlight : call'[u].pc = call[u].pc /\ call'[u].read = call[u].read
    BY <1>1, <2>1, TapCalls
  <2>3. \A u \in Taps : u # t => call'[u].pc = call[u].pc /\ call'[u].read = call[u].read
    BY <1>1, <2>1, <2>2, TapOthers
  <2>4. ToRead' = ToRead \union {t} /\ t \notin ToRead
    BY <2>2, <2>3 DEF ToRead, InFlight
  <2>5. IsFiniteSet(ToRead') /\ Cardinality(ToRead') = Cardinality(ToRead) + 1
    BY <1>0, <2>4, FS_AddElement
  <2>6. taps' = taps + 1 /\ reads' = reads
    BY <1>1 DEF Tap
  <2>7. reads' + Cardinality(ToRead') <= taps'
    BY <1>0, <2>5, <2>6
  <2>8. call'[t].read = 0
    <3>1. PICK q : q = [NoCall EXCEPT !.pc = "select", !.emoji = e, !.old = popup, !.alone = (InFlight = {})]
      OBVIOUS
    <3>2. q.read = 0
      BY <3>1, NoCallType DEF Call
    <3>3. call'[t] = q
      BY <1>1, <2>1, <2>2, <3>1 DEF Tap
    <3>4. QED BY <3>2, <3>3
  <2>9. \A u \in Taps : call'[u].read <= reads'
    BY <1>0, <2>3, <2>6, <2>8
  <2>10. QED BY <2>7, <2>9 DEF ReadsInv
<1>2. ASSUME NEW t \in Taps, Select(t) \/ Insert(t) \/ Delete(t) \/ Fail(t) PROVE ReadsInv'
  <2>1. UNCHANGED <<taps, reads>>
    BY <1>2 DEF Select, Insert, Delete, Fail
  <2>2. /\ call'[t].pc \in {"insert", "delete", "summary", "failed"}
        /\ \A u \in Taps : u # t => call'[u] = call[u]
    BY <1>2, CallSteps
  <2>3. call[t].pc \in {"select", "insert", "delete", "summary"} \/ call'[t].pc = "failed"
    BY <1>2, CallSteps
  <2>4. ToRead' \in SUBSET ToRead
    BY <2>2, <2>3 DEF ToRead
  <2>5. call'[t].read = call[t].read
    <3>0. call[t] \in Call
      BY <1>0
    <3>1. CASE Select(t)
      BY <1>0, <3>0, <3>1 DEF Select, Call
    <3>2. CASE Insert(t)
      BY <1>0, <3>0, <3>2 DEF Insert, Call
    <3>3. CASE Delete(t)
      BY <1>0, <3>0, <3>3 DEF Delete, Call
    <3>4. CASE Fail(t)
      BY <1>0, <3>0, <3>4 DEF Fail, Call
    <3>5. QED BY <1>2, <3>1, <3>2, <3>3, <3>4
  <2>6. QED BY <2>1, <2>2, <2>4, <2>5, NoNewRead
<1>3. ASSUME NEW t \in Taps, GetReactionsByMessage(t) PROVE ReadsInv'
  <2>1. /\ call[t].pc = "summary" /\ call'[t].pc = "answered" /\ call'[t].read = reads + 1
        /\ \A u \in Taps : u # t => call'[u] = call[u]
    BY <1>3, CallSteps
  <2>2. reads' = reads + 1 /\ taps' = taps
    BY <1>3 DEF GetReactionsByMessage
  <2>3. ToRead' = ToRead \ {t} /\ t \in ToRead
    BY <2>1 DEF ToRead
  <2>4. Cardinality(ToRead') = Cardinality(ToRead) - 1
    BY <1>0, <2>3, FS_RemoveElement
  <2>5. reads' + Cardinality(ToRead') <= taps'
    BY <1>0, <2>2, <2>4
  <2>6. \A u \in Taps : call'[u].read <= reads'
    BY <1>0, <2>1, <2>2
  <2>7. QED BY <2>5, <2>6 DEF ReadsInv
<1>4. ASSUME NEW t \in Taps, Answer(t) \/ Revert(t) PROVE ReadsInv'
  <2>1. UNCHANGED <<taps, reads>> /\ call' = [call EXCEPT ![t] = [NoCall EXCEPT !.pc = "done"]]
    BY <1>4 DEF Answer, Revert
  <2>2. call'[t].pc = "done" /\ \A u \in Taps : u # t => call'[u] = call[u]
    BY <1>4, CallSteps
  <2>3. call'[t].read = 0
    <3>1. PICK q : q = [NoCall EXCEPT !.pc = "done"]
      OBVIOUS
    <3>2. q.read = 0
      BY <3>1, NoCallType DEF Call
    <3>3. QED BY <1>0, <2>1, <3>1, <3>2
  <2>4. ToRead' \in SUBSET ToRead
    BY <2>2 DEF ToRead
  <2>5. QED BY <2>1, <2>2, <2>3, <2>4, NoNewRead
<1>5. CASE UNCHANGED <<taps, reads, call>>
  <2>1. ToRead' \in SUBSET ToRead
    BY <1>5 DEF ToRead
  <2>2. QED BY <1>5, <2>1, NoNewRead
<1>6. QED
  BY <1>1, <1>2, <1>3, <1>4, <1>5 DEF ReactionsNext, ToggleByOther, DeletePosted, reactionVars

(* What the types of the reactions follow from. *)
ReactionsInv == CallInv /\ NumberInv /\ ReadsInv

(* Before the first tap nothing has been read. *)
LEMMA ReactionsStart == ReactionsInit => ReactionsInv
<1> SUFFICES ASSUME ReactionsInit PROVE ReactionsInv
  OBVIOUS
<1>1. CallInv /\ NumberInv
  BY PopupStart DEF PopupInv
<1>2. \A t \in Taps : call[t].pc = "none" /\ call[t].read = 0
  BY NoCallType DEF ReactionsInit
<1>3. ToRead = {}
  BY <1>2 DEF ToRead
<1>4. reads + Cardinality(ToRead) <= taps
  BY <1>3, FS_EmptySet DEF ReactionsInit
<1>5. QED
  BY <1>1, <1>2, <1>4 DEF ReactionsInit, ReactionsInv, ReadsInv

(* The bounds of the types, from the numbering and the count of summaries. *)
LEMMA ReactionsTyped == ReactionsInv => ReactionsTypeOK
<1> SUFFICES ASSUME ReactionsInv PROVE ReactionsTypeOK
  OBVIOUS
<1>1. CallInv /\ NumberInv /\ ReadsInv
  BY DEF ReactionsInv
<1>2. /\ reads \in 0 .. MaxTaps /\ shown \in 0 .. MaxTaps
      /\ \A t \in Taps : call[t].read \in 0 .. MaxTaps
  <2>1. /\ reads \in Nat /\ taps \in 0 .. MaxTaps /\ shown \in Nat /\ shown <= reads
        /\ \A t \in Taps : call[t].read \in Nat /\ call[t].read <= reads
        /\ Cardinality(ToRead) \in Nat /\ reads + Cardinality(ToRead) <= taps
    BY <1>1, ToReadFinite DEF CallInv, Call, NumberInv, ReadsInv
  <2>2. QED BY <2>1, TapBound
<1>3. Marks \subseteq Summaries
  BY DEF Marks
<1>4. call \in [Taps -> [pc : {"none", "select", "insert", "delete", "summary", "answered",
                              "failed", "done"},
                        emoji : Emojis, id : Ids, old : Summaries, alone : BOOLEAN,
                        new : Summaries, read : 0 .. MaxTaps]]
  <2>1. ASSUME NEW t \in Taps
        PROVE  call[t] \in [pc : {"none", "select", "insert", "delete", "summary", "answered",
                                 "failed", "done"},
                           emoji : Emojis, id : Ids, old : Summaries, alone : BOOLEAN,
                           new : Summaries, read : 0 .. MaxTaps]
    <3>1. call[t] \in Call
      BY <1>1 DEF CallInv
    <3>2. QED BY <1>2, <1>3, <3>1 DEF Call
  <2>2. call \in [Taps -> Call]
    BY <1>1 DEF CallInv
  <2>3. QED BY <2>1, <2>2
<1>5. QED
  BY <1>1, <1>2, <1>3, <1>4 DEF CallInv, ReactionsTypeOK

(* A step of one component is a step, or none, of every component. *)
LEMMA StepOfParts ==
  ASSUME [Next]_<<part, throttleVars, moderationVars, sessionVars, reactionVars, listingVars, serverVars, feedVars>>
  PROVE  /\ part' = part
         /\ [ThrottleNext]_throttleVars /\ [ModerationNext]_moderationVars
         /\ [SessionNext]_sessionVars /\ [ReactionsNext]_reactionVars
         /\ [ListingNext]_listingVars /\ [ServerNext]_serverVars /\ [FeedNext]_feedVars
  BY Zenon DEF Next

ServicesInv == /\ part \in Parts /\ TypeInv /\ ModerationInv /\ SessionInv
               /\ ReactionsInv /\ ListInv /\ ServerInv /\ LoadInv

(* The variables of every service keep their types, in whichever of them steps are taken: *)
(* a bucket holds no more than its burst, the popup never shows a negative count, there   *)
(* are no more summaries than taps.                                                       *)
THEOREM ServicesTypeCorrect == Spec => []TypeOK
<1>1. Init => ServicesInv
  BY TypeStart, ModerationStart, SessionInitInv, ReactionsStart, ListInvInit, ServerInitInv, LoadStart, Zenon
     DEF Init, ServicesInv
<1>2. ServicesInv
        /\ [Next]_<<part, throttleVars, moderationVars, sessionVars, reactionVars, listingVars, serverVars, feedVars>>
        => ServicesInv'
  <2> SUFFICES ASSUME ServicesInv,
                      [Next]_<<part, throttleVars, moderationVars, sessionVars, reactionVars,
                               listingVars, serverVars, feedVars>>
               PROVE  ServicesInv'
    OBVIOUS
  <2>1. /\ part' = part
        /\ [ThrottleNext]_throttleVars /\ [ModerationNext]_moderationVars
        /\ [SessionNext]_sessionVars /\ [ReactionsNext]_reactionVars
        /\ [ListingNext]_listingVars /\ [ServerNext]_serverVars /\ [FeedNext]_feedVars
    BY StepOfParts
  <2>2. ReactionsInv'
    BY <2>1, CallStep, NumberStep, ReadsStep DEF ServicesInv, ReactionsInv
  <2>3. TypeInv' /\ ListInv'
    BY <2>1, TypeStep, ListInvStep DEF ServicesInv
  <2>4. ModerationInv' /\ SessionInv' /\ ServerInv' /\ LoadInv'
    BY <2>1, ModerationStep, SessionStepInv, ServerStepInv, LoadStep DEF ServicesInv
  <2>5. QED BY <2>1, <2>2, <2>3, <2>4 DEF ServicesInv
<1>3. ServicesInv => TypeOK
  <2>1. ListInv => ListingTypeOK
    BY ListInvTyped
  <2>2. QED
    BY <2>1, ReactionsTyped
       DEF ServicesInv, TypeInv, ModerationInv, SessionInv, ServerInv, LoadInv, TypeOK
<1>4. QED
  BY <1>1, <1>2, <1>3, PTL DEF Spec
=============================================================================
