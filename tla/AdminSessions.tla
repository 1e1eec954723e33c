--------------------------- MODULE AdminSessions ---------------------------
(***************************************************************************)
(* Who may use the management API: login and authorize of admin.rs, over   *)
(* the accounts of Credentials.                                            *)
(*                                                                         *)
(* The server keeps nothing of a session.  A token names a user and a time *)
(* of expiry and is signed with a key made of the user's password, so it   *)
(* is the file of accounts that withdraws it; logout only clears the       *)
(* browser's cookie.  One token is followed, with the time it has left.    *)
(***************************************************************************)
EXTENDS Credentials

CONSTANTS
    ADMIN_SESSION_TTL_SECS,
    TokenConfigured   \* the service was started with a token file

ASSUME SessionsAssumption == ADMIN_SESSION_TTL_SECS \in Nat \ {0} /\ TokenConfigured \in BOOLEAN

VARIABLES
    token,     \* the last one issued: its user and the password that signed it
    left,      \* expires_at - now, 0 without a token
    withdrawn  \* the last completed change of its account took its password away,
               \* and no reset has overlapped a change since

sessionVars == <<token, left, withdrawn>>
allVars == <<vars, sessionVars>>

SessionInit == Init /\ token = None /\ left = 0 /\ withdrawn = FALSE

----------------------------------------------------------------------------
\* The claims, signed; the time is in left.
issue_session_token(u, password) == [user |-> u, password |-> password]

\* login compares with the file and issues a token.
login(u, password) ==
    /\ Save!Intact /\ Save!Stored[u] = password
    /\ token' = issue_session_token(u, password)
    /\ left' = ADMIN_SESSION_TTL_SECS
    /\ withdrawn' = FALSE
    /\ UNCHANGED vars

\* Time passes; a token that has expired is never good again and is forgotten.
Tick ==
    /\ left > 0
    /\ left' = left - 1
    /\ token' = IF left' = 0 THEN None ELSE token
    /\ withdrawn' = (withdrawn /\ left' > 0)
    /\ UNCHANGED vars
\* Mutant of validate_session_token: any token of a user that exists is good.
NamedValidateSessionToken ==
    /\ token # None /\ left > 0
    /\ Save!Intact /\ Save!Stored[token.user] # None

\* validate_session_token: not expired, and signed with the password that its
\* user has in the file now.
validate_session_token ==
    /\ token # None /\ left > 0
    /\ Save!Intact /\ Save!Stored[token.user] = token.password

\* authorize: a request comes with the service token, which is no account, with
\* the session's cookie, or with a name and a password.
Callers == [by : {"bearer", "cookie"}] \cup [by : {"basic"}, user : Users, password : Passwords]
authorize(caller) ==
    CASE caller.by = "bearer" -> TokenConfigured
      [] caller.by = "cookie" -> validate_session_token
      [] caller.by = "basic" -> Save!Intact /\ Save!Stored[caller.user] = caller.password
AuthorizedRequest(h, r) == (\E caller \in Callers : authorize(caller)) /\ Request(h, r)

\* A change of the file is a change of one account; if it is the account of the
\* token, the token is good if and only if its password was set again.
Followed ==
    /\ UNCHANGED <<token, left>>
    /\ withdrawn' =
         LET changes == {w \in Writers : path' # path /\ pc[w] = "rename" /\ pc'[w] = "idle"
                                           /\ token # None /\ op[w].user = token.user}
         IN  /\ clashed = "no" /\ clashed' = "no"
             /\ IF changes = {} THEN withdrawn
                ELSE \E w \in changes : op[w].password # token.password

SessionNext ==
    \/ \E u \in Users, password \in Passwords : login(u, password)
    \/ Tick
    \/ /\ \/ \E h \in Handlers : \/ \E r \in Requests : AuthorizedRequest(h, r)
                                 \/ Lock(h) \/ Disconnect(h)
          \/ \E c \in Resets, r \in Requests : Reset(c, r)
          \/ \E w \in Writers : WriterNext(w)
          \/ Crash
       /\ ClashNoted
       /\ Followed

SessionSpec == SessionInit /\ [][SessionNext]_allVars

----------------------------------------------------------------------------
\* A session ends with the password it was opened with: once a change, a
\* deletion or a reset of its account is complete, its token is refused, although
\* no session is recorded anywhere, until the same password is set again or a
\* reset that overlaps another change brings it back.
SessionWithdrawn == withdrawn => ~validate_session_token
=============================================================================
