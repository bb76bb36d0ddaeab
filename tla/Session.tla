------------------------------ MODULE Session -------------------------------
(***************************************************************************)
(* One phone's session: the accounts and tokens of service/auth_service.go  *)
(* and middleware/auth.go, and the AuthProvider of the application, which   *)
(* keeps the token in three places: its own field, ApiService, and the      *)
(* preferences, the only one that outlives the process.                     *)
(*                                                                         *)
(* A step is what runs between two awaits.  An account is known by its      *)
(* email; a request that validation, a CHECK or a wrong password refuses    *)
(* changes nothing and is left out.                                         *)
(***************************************************************************)
EXTENDS Naturals

CONSTANTS Names, Emails,  \* usernames and emails, each unique in the table users
          Nobody,         \* no account
          Lifetime,       \* jwtExpiry
          MaxClock        \* bound: the last moment

ASSUME SessionAssumption ==
  Nobody \notin Emails /\ Lifetime \in Nat \ {0} /\ MaxClock \in Nat

VARIABLES
  users,     \* rows of users; mine: registered with the password the phone's owner types
  clock,
  stored,    \* the token in the preferences
  provider,  \* AuthProvider: its token and user
  apiToken,  \* ApiService: the token of the next request
  doing,    \* what the application is doing, "off" when it is not running
  reply,     \* the token of an answer to register or login that is on its way
  acted      \* history: as whom the server ran the last request, and the user then shown

memory == <<provider, apiToken, reply>>
sessionVars == <<users, clock, stored, memory, doing, acted>>

NoToken   == [sub |-> Nobody, exp |-> 0]
LoggedOut == [token |-> NoToken, user |-> Nobody]
Tokens    == [sub : Emails \union {Nobody}, exp : 0 .. MaxClock + Lifetime]

SessionInit ==
  /\ users = {} /\ clock = 0
  /\ stored = NoToken /\ provider = LoggedOut /\ apiToken = NoToken /\ reply = NoToken
  /\ doing = "off"
  /\ acted = [as |-> Nobody, shown |-> Nobody]
-----------------------------------------------------------------------------
(* The server. *)

\* UNIQUE (username), UNIQUE (email)
Free(n, e) == \A u \in users : u.name # n /\ u.email # e

\* GetByEmail and GetByID
Accounts(e) == {u \in users : u.email = e}

GenerateToken(e) == [sub |-> e, exp |-> clock + Lifetime]

ValidateToken(t) == t.sub # Nobody /\ clock < t.exp

\* Somebody else registers.
RegisterElsewhere(n, e) ==
  /\ Free(n, e)
  /\ users' = users \union {[name |-> n, email |-> e, mine |-> FALSE]}
  /\ UNCHANGED <<clock, stored, memory, doing, acted>>
-----------------------------------------------------------------------------
(* The application. *)

\* AuthProvider.init up to its request; without a token there is nothing to ask.
StartApp ==
  /\ doing = "off"
  /\ provider' = [token |-> stored, user |-> Nobody]
  /\ apiToken' = stored
  /\ doing' = IF stored = NoToken THEN "ready" ELSE "splash"
  /\ UNCHANGED <<users, clock, stored, reply, acted>>

\* GET /auth/me: the account, or an error that ends the session, be it a refusal, a failing
\* statement (answered with 404) or a request that never got through.
Me ==
  /\ doing = "splash"
  /\ \/ /\ ValidateToken(apiToken) /\ Accounts(apiToken.sub) # {}
        /\ provider' = [provider EXCEPT !.user = apiToken.sub]
        /\ doing' = "ready"
        /\ UNCHANGED apiToken
     \/ /\ provider' = LoggedOut /\ apiToken' = NoToken
        /\ doing' = "clearing"
  /\ UNCHANGED <<users, clock, stored, reply, acted>>

\* await prefs.remove('token')
Cleared ==
  /\ doing = "clearing"
  /\ stored' = NoToken
  /\ doing' = "ready"
  /\ UNCHANGED <<users, clock, memory, acted>>

AtLogin == doing = "ready" /\ provider.token = NoToken

Register(n, e) ==
  /\ AtLogin
  /\ Free(n, e)
  /\ users' = users \union {[name |-> n, email |-> e, mine |-> TRUE]}
  /\ reply' = GenerateToken(e)
  /\ doing' = "waiting"
  /\ UNCHANGED <<clock, stored, provider, apiToken, acted>>

Login(e) ==
  /\ AtLogin
  /\ \E u \in Accounts(e) : u.mine
  /\ reply' = GenerateToken(e)
  /\ doing' = "waiting"
  /\ UNCHANGED <<users, clock, stored, provider, apiToken, acted>>

\* The answer does not arrive: an error is shown, and the account may exist.
AnswerLost ==
  /\ doing = "waiting"
  /\ reply' = NoToken
  /\ doing' = "ready"
  /\ UNCHANGED <<users, clock, stored, provider, apiToken, acted>>

\* _saveAuth up to the write of the preferences
SaveAuth ==
  /\ doing = "waiting"
  /\ provider' = [token |-> reply, user |-> reply.sub]
  /\ apiToken' = reply /\ reply' = NoToken
  /\ doing' = "saving"
  /\ UNCHANGED <<users, clock, stored, acted>>

AuthSaved ==
  /\ doing = "saving"
  /\ stored' = provider.token
  /\ doing' = "ready"
  /\ UNCHANGED <<users, clock, memory, acted>>

\* The preferences first ...
Logout ==
  /\ doing = "ready" /\ provider.token # NoToken
  /\ stored' = NoToken
  /\ doing' = "leaving"
  /\ UNCHANGED <<users, clock, memory, acted>>

\* Mutant: ApiService keeps the token.
LoggedOutHalf ==
  /\ doing = "leaving"
  /\ provider' = LoggedOut
  /\ doing' = "ready"
  /\ UNCHANGED <<users, clock, stored, apiToken, reply, acted>>

\* ... then the fields.
LogoutDone ==
  /\ doing = "leaving"
  /\ provider' = LoggedOut /\ apiToken' = NoToken
  /\ doing' = "ready"
  /\ UNCHANGED <<users, clock, stored, reply, acted>>

\* Any other request of the application.  Auth refuses a bad token, OptionalAuth serves it
\* like a request without one.
Request ==
  /\ doing \in {"ready", "leaving"}
  /\ acted' = [as |-> IF ValidateToken(apiToken) THEN apiToken.sub ELSE Nobody,
               shown |-> provider.user]
  /\ UNCHANGED <<users, clock, stored, memory, doing>>

\* The system ends the process, wherever it is.
Kill ==
  /\ doing # "off"
  /\ provider' = LoggedOut /\ apiToken' = NoToken /\ reply' = NoToken
  /\ doing' = "off"
  /\ UNCHANGED <<users, clock, stored, acted>>

Wait ==
  /\ clock < MaxClock
  /\ clock' = clock + 1
  /\ UNCHANGED <<users, stored, memory, doing, acted>>

SessionNext ==
  \/ \E n \in Names, e \in Emails : Register(n, e) \/ RegisterElsewhere(n, e)
  \/ \E e \in Emails : Login(e)
  \/ StartApp \/ Me \/ Cleared \/ AnswerLost \/ SaveAuth \/ AuthSaved
  \/ Logout \/ LogoutDone \/ Request \/ Kill \/ Wait

SessionSpec == SessionInit /\ [][SessionNext]_sessionVars
-----------------------------------------------------------------------------
SessionTypeOK ==
  /\ users \subseteq [name : Names, email : Emails, mine : BOOLEAN]
  /\ clock \in 0 .. MaxClock
  /\ stored \in Tokens /\ apiToken \in Tokens /\ reply \in Tokens
  /\ provider \in [token : Tokens, user : Emails \union {Nobody}]
  /\ doing \in {"off", "splash", "clearing", "ready", "waiting", "saving", "leaving"}
  /\ acted \in [as : Emails \union {Nobody}, shown : Emails \union {Nobody}]

(* While a screen can be used the token of the requests is the provider's,  *)
(* its account is the user shown, and the server acts for nobody else; at   *)
(* rest the preferences hold the same token, so that a restart brings back  *)
(* this session and no other, wherever earlier processes were killed.       *)
SessionAgrees ==
  /\ doing \in {"ready", "waiting", "saving", "leaving"} =>
       apiToken = provider.token /\ provider.user = provider.token.sub
  /\ doing \in {"ready", "waiting"} => stored = provider.token
  /\ acted.as \in {Nobody, acted.shown}

(* auth_provider.dart:25, "Token expired or invalid": init clears a session *)
(* only if the server refuses its token.                                    *)
ClearedOnlyIfRefused == doing = "clearing" => ~ValidateToken(stored)
=============================================================================
