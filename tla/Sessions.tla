------------------------------ MODULE Sessions ------------------------------
(***************************************************************************)
(* The sessions of one account: logins, requests that present a cookie,    *)
(* logouts and the operator's password reset.  Each is one READ COMMITTED  *)
(* transaction; a login and a reset write in several statements, and the   *)
(* check of a cookie reads the session in one and the user in the next.    *)
(***************************************************************************)
EXTENDS Naturals, FiniteSets

CONSTANTS Logins, Requests,  \* concurrent transactions of each kind
          SESSION_TTL,
          MaxSessions, MaxResets, MaxNow,  \* bounds
          None

VARIABLES now,
          password_version,  \* of the committed user row
          sessions,     \* the committed auth_sessions rows by id
          login, reset, request,  \* the transactions
          resets        \* resets committed (history)

vars == <<now, password_version, sessions, login, reset, request, resets>>

Ids == 1..MaxSessions
Used == {i \in Ids : sessions[i] # None} \cup
        {login[l].id : l \in {l \in Logins : login[l].at = "commit"}}

Idle == [at |-> "idle", id |-> None, row |-> None, ended |-> FALSE]

Init ==
    /\ now = 0
    /\ password_version = 1
    /\ sessions = [i \in Ids |-> None]
    /\ login = [l \in Logins |-> Idle]
    /\ reset = [at |-> "idle", read |-> 0, revoked |-> {}]
    /\ request = [q \in Requests |-> Idle]
    /\ resets = 0

Elapse == /\ now < MaxNow /\ now' = now + 1
          /\ UNCHANGED <<password_version, sessions, login, reset, request, resets>>

----------------------------------------------------------------------------
(* POST /auth/login.                                                        *)

\* authenticate reads the user and the password is right.  An attempt that is
\* wrong, or that the counter of failures in the process refuses, writes no row.
Authenticate(l) ==
    /\ login[l].at = "idle"
    /\ login' = [login EXCEPT ![l].at = "issue"]
    /\ UNCHANGED <<now, password_version, sessions, reset, request, resets>>

\* issue_session reads the user again, and its version goes into the row.
NewRow == [version |-> password_version, expires |-> now + SESSION_TTL, revoked |-> FALSE,
           under |-> resets]

Issue(l) ==
    /\ login[l].at = "issue"
    /\ \E id \in Ids \ Used :
          login' = [login EXCEPT ![l] = [at |-> "commit", id |-> id, row |-> NewRow,
                                         ended |-> FALSE]]
    /\ UNCHANGED <<now, password_version, sessions, reset, request, resets>>

CommitLogin(l) ==
    /\ login[l].at = "commit"
    /\ sessions' = [sessions EXCEPT ![login[l].id] = login[l].row]
    /\ login' = [login EXCEPT ![l] = Idle]
    /\ UNCHANGED <<now, password_version, reset, request, resets>>

AbortLogin(l) ==
    /\ login[l].at # "idle"
    /\ login' = [login EXCEPT ![l] = Idle]
    /\ UNCHANGED <<now, password_version, sessions, reset, request, resets>>

----------------------------------------------------------------------------
(* intel reset-password, by one operator at a time.                         *)

Live(i) == sessions[i] # None /\ ~sessions[i].revoked

ReadUser ==
    /\ reset.at = "idle" /\ resets < MaxResets
    /\ reset' = [at |-> "revoke", read |-> password_version, revoked |-> {}]
    /\ UNCHANGED <<now, password_version, sessions, login, request, resets>>

Revoked(i) == [version |-> sessions[i].version, expires |-> sessions[i].expires,
               revoked |-> TRUE, under |-> sessions[i].under]

\* revoke_all_sessions, after the update of the user: the sessions that are
\* committed when the statement runs.
RevokeAll ==
    /\ reset.at = "revoke"
    /\ reset' = [at |-> "commit", read |-> reset.read, revoked |-> {i \in Ids : Live(i)}]
    /\ UNCHANGED <<now, password_version, sessions, login, request, resets>>

CommitReset ==
    /\ reset.at = "commit"
    /\ password_version' = reset.read + 1
    /\ sessions' = [i \in Ids |-> IF i \in reset.revoked
                                  THEN Revoked(i) ELSE sessions[i]]
    /\ resets' = resets + 1
    /\ reset' = [at |-> "idle", read |-> 0, revoked |-> {}]
    /\ UNCHANGED <<now, login, request>>

AbortReset ==
    /\ reset.at # "idle"
    /\ reset' = [at |-> "idle", read |-> 0, revoked |-> {}]
    /\ UNCHANGED <<now, password_version, sessions, login, request, resets>>

----------------------------------------------------------------------------
(* A request with a cookie: validate_session_detail, then its own work.     *)

Ended(i) ==
    \/ sessions[i].revoked
    \/ now >= sessions[i].expires
    \/ sessions[i].under < resets

\* The session row: gone on revoked or expired.
ReadSession(q) ==
    /\ request[q].at = "idle"
    /\ \E i \in Ids :
          /\ Live(i) /\ now < sessions[i].expires
          /\ request' = [request EXCEPT ![q] =
                [at |-> "user", id |-> i, row |-> sessions[i], ended |-> Ended(i)]]
    /\ UNCHANGED <<now, password_version, sessions, login, reset, resets>>

\* Mutant: revoking the sessions is thought to be enough.
CurrentAlways(q) == TRUE

\* The user row, a statement later.
Current(q) == request[q].row.version = password_version

CheckUser(q) ==
    /\ request[q].at = "user"
    /\ request' = [request EXCEPT ![q] =
                      IF Current(q) THEN [request[q] EXCEPT !.at = "accepted"] ELSE Idle]
    /\ UNCHANGED <<now, password_version, sessions, login, reset, resets>>

\* POST /auth/logout revokes the session of the request, once.
Logout(q) ==
    /\ request[q].at = "accepted"
    /\ sessions' = [sessions EXCEPT ![request[q].id] = Revoked(request[q].id)]
    /\ request' = [request EXCEPT ![q] = Idle]
    /\ UNCHANGED <<now, password_version, login, reset, resets>>

Respond(q) ==
    /\ request[q].at # "idle"
    /\ request' = [request EXCEPT ![q] = Idle]
    /\ UNCHANGED <<now, password_version, sessions, login, reset, resets>>

Next ==
    \/ Elapse
    \/ \E l \in Logins : Authenticate(l) \/ Issue(l) \/ CommitLogin(l) \/ AbortLogin(l)
    \/ ReadUser \/ RevokeAll \/ CommitReset \/ AbortReset
    \/ \E q \in Requests : ReadSession(q) \/ CheckUser(q) \/ Logout(q) \/ Respond(q)

Spec == Init /\ [][Next]_vars

----------------------------------------------------------------------------
\* What has ended stays ended (注销吊销, 重置密码并使 session 失效): no request
\* is accepted on a session that, when its check began, was logged out, had
\* expired, or had been issued before a reset, also when the login that issued
\* it committed after the reset had revoked all the sessions it saw.
EndedIsRefused == \A q \in Requests : request[q].at = "accepted" => ~request[q].ended
=============================================================================
