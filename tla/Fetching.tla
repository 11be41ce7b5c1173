------------------------------ MODULE Fetching ------------------------------
(***************************************************************************)
(* Fetch jobs of one worker process that go to one host.  Each builds its  *)
(* request with a deadline, waits for a slot of the politeness gate, keeps *)
(* the gate's distance to the last release and then follows the host's     *)
(* redirects until there is an outcome, which decides how its job ends.    *)
(* The host answers what it likes and as slowly as it likes.               *)
(***************************************************************************)
EXTENDS Naturals, Sequences, FiniteSets

CONSTANTS Requests,
          Concurrency,  \* DEFAULT_PER_DOMAIN_CONCURRENCY
          MinInterval,  \* DEFAULT_MIN_INTERVAL_SECONDS
          Timeout,      \* fetch_timeout_seconds
          MAX_REDIRECTS,
          Responses,    \* statuses a host answers with
          MaxNow,       \* bound
          Never

VARIABLES now,
          at,           \* where each request is, in the end what it came to
          waiters,      \* the semaphore's queue
          last_release,
          wakes,        \* when a request that holds a slot has slept enough
          deadline,     \* deadline_at of each request
          hop,          \* redirects followed
          login_hop,    \* one of them looked like a login
          status,       \* CaptureResult.status of a capture
          started,      \* when each request sent its first GET (history)
          path          \* the redirects it is given (history)

vars == <<now, at, waiters, last_release, wakes, deadline, hop, login_hop,
          status, started, path>>

gate == <<waiters, last_release, wakes>>
exchange == <<hop, login_hop, path>>

\* _failure_for: how the fetch job ends; a capture, an unchanged page and a
\* page without a browser are no failures.
JobEnds(result) ==
    IF result \in {"http_429", "http_5xx", "timeout", "network", "redirect_limit"}
    THEN "transient"
    ELSE IF result = "access_denied" THEN "access_blocked"
    ELSE IF result = "blocked" THEN "scope_violation"
    ELSE IF result \in {"http_4xx", "body_too_large"} THEN "permanent"
    ELSE result

Init ==
    /\ now = 0
    /\ at = [r \in Requests |-> "new"]
    /\ waiters = <<>>
    /\ last_release = Never
    /\ wakes = [r \in Requests |-> 0]
    /\ deadline = [r \in Requests |-> 0]
    /\ hop = [r \in Requests |-> 0]
    /\ login_hop = [r \in Requests |-> FALSE]
    /\ status = [r \in Requests |-> 0]
    /\ started = [r \in Requests |-> Never]
    /\ path = [r \in Requests |-> {}]

Elapse == /\ now < MaxNow /\ now' = now + 1
          /\ UNCHANGED <<at, gate, deadline, exchange, status, started>>

Holding == {r \in Requests : at[r] \in {"sleeping", "fetching"}}

\* The handler fixes the deadline before it asks the gate.
Ask(r) ==
    /\ at[r] = "new"
    /\ deadline' = [deadline EXCEPT ![r] = now + Timeout]
    /\ at' = [at EXCEPT ![r] = "waiting"]
    /\ waiters' = Append(waiters, r)
    /\ UNCHANGED <<now, last_release, wakes, exchange, status, started>>

\* The semaphore is fair; whoever gets a slot looks at the last release once.
Acquire(r) ==
    /\ waiters # <<>> /\ Head(waiters) = r /\ at[r] = "waiting"
    /\ Cardinality(Holding) < Concurrency
    /\ waiters' = Tail(waiters)
    /\ at' = [at EXCEPT ![r] = "sleeping"]
    /\ wakes' = [wakes EXCEPT ![r] = IF last_release = Never THEN now
                                     ELSE IF last_release + MinInterval > now
                                          THEN last_release + MinInterval ELSE now]
    /\ UNCHANGED <<now, last_release, deadline, exchange, status, started>>

\* What is left of the deadline bounds the exchange.
Send(r) ==
    /\ at[r] = "sleeping" /\ now >= wakes[r]
    /\ at' = [at EXCEPT ![r] = "fetching"]
    /\ started' = [started EXCEPT ![r] = now]
    /\ UNCHANGED <<now, gate, deadline, exchange, status>>

\* Mutant: a failed request is not noted as a release.
LeaveOnSuccess(r, result) ==
    /\ at' = [at EXCEPT ![r] = JobEnds(result)]
    /\ last_release' = IF result = "captured" THEN now ELSE last_release

\* The slot is given back however the request ends.
Leave(r, result) ==
    /\ at' = [at EXCEPT ![r] = JobEnds(result)]
    /\ last_release' = now

Done(r, result) ==
    /\ Leave(r, result)
    /\ hop' = [hop EXCEPT ![r] = 0]
    /\ login_hop' = [login_hop EXCEPT ![r] = FALSE]
    /\ path' = [path EXCEPT ![r] = {}]
    /\ wakes' = [wakes EXCEPT ![r] = 0]
    /\ deadline' = [deadline EXCEPT ![r] = 0]
    /\ UNCHANGED <<now, waiters, started>>

\* Mutant: only the last redirect counts.
LooksLikeLoginNow(r, target) == target = "login"

\* A hop to a login page is remembered through the hops that follow it.
LooksLikeLogin(r, target) == login_hop[r] \/ target = "login"

\* A redirect: the target is checked, then followed.
Redirect(r) ==
    /\ at[r] = "fetching" /\ now < deadline[r]
    /\ \/ Done(r, "blocked") /\ UNCHANGED status
       \/ hop[r] = MAX_REDIRECTS /\ Done(r, "redirect_limit") /\ UNCHANGED status
       \/ /\ hop[r] < MAX_REDIRECTS
          /\ \E target \in {"login", "page"} :
                /\ path' = [path EXCEPT ![r] = path[r] \cup {target}]
                /\ login_hop' = [login_hop EXCEPT ![r] = LooksLikeLogin(r, target)]
          /\ hop' = [hop EXCEPT ![r] = hop[r] + 1]
          /\ UNCHANGED <<now, at, gate, deadline, status, started>>

\* The outcome of the response that is no redirect to follow: one of the 3xx
\* range that names no location is none.
Terminal(r, response) ==
    IF hop[r] = MAX_REDIRECTS THEN "redirect_limit"
    ELSE IF response = 304 THEN "no_change"
    ELSE IF response = 429 THEN "http_429"
    ELSE IF response \in {401, 403} \/ (login_hop[r] /\ response = 200) THEN "access_denied"
    ELSE IF response >= 500 THEN "http_5xx"
    ELSE IF response >= 400 THEN "http_4xx"
    ELSE "body"

\* A body is too large, is a page without text that needs the browser (which
\* loads the first URL again), or is the capture.
OfBody == {"body_too_large", "browser_unavailable", "rendered", "captured"}

Respond(r) ==
    /\ at[r] = "fetching" /\ now < deadline[r]
    /\ \E response \in Responses :
         LET result == Terminal(r, response) IN
         \E final \in IF result = "body" THEN OfBody ELSE {result} :
            /\ Done(r, final)
            /\ status' = [status EXCEPT ![r] = IF final = "captured" THEN response ELSE 0]

\* asyncio.timeout, or the transport gives up.
Break(r) ==
    /\ at[r] = "fetching"
    /\ \/ now >= deadline[r] /\ Done(r, "timeout")
       \/ Done(r, "network")
    /\ UNCHANGED status

\* The job is cancelled or loses its lease while it waits, sleeps or fetches;
\* a slot is given back, and the release noted, also by a request that has
\* not sent anything.
Cancel(r) ==
    \/ /\ at[r] = "waiting"
       /\ at' = [at EXCEPT ![r] = "cancelled"]
       /\ waiters' = SelectSeq(waiters, LAMBDA w : w # r)
       /\ UNCHANGED <<now, last_release, wakes, deadline, exchange, status, started>>
    \/ /\ r \in Holding
       /\ Done(r, "cancelled")
       /\ UNCHANGED status

Next == Elapse \/ \E r \in Requests :
    Ask(r) \/ Acquire(r) \/ Send(r) \/ Redirect(r) \/ Respond(r) \/ Break(r) \/ Cancel(r)

Spec == Init /\ [][Next]_vars

----------------------------------------------------------------------------
\* What the gate keeps: in less than MinInterval a host is not sent more
\* requests of fetch jobs than it has slots, whatever order they acquire, sleep,
\* fail or are cancelled in.  It counts the first GET of each: the hops of a
\* redirect are sent as they come, and the pages of a discovery pass no gate.
\* (Nor does it keep two requests apart.)
BurstBounded ==
    \A t \in 0..now :
        Cardinality({r \in Requests : started[r] # Never
                        /\ t <= started[r] /\ started[r] < t + MinInterval}) <= Concurrency

Captures(r) == at[r] # "captured" /\ at'[r] = "captured"

\* A page that answers 200 behind a login is no capture, however many redirects
\* lie between the login and the page and whatever else the host answers; a page
\* whose static form needs a browser is rendered from the first URL and is
\* exempt.  An answer behind a login that is not 200 and no error is a capture.
LoginIsNoCapture ==
    [][\A r \in Requests :
          Captures(r) /\ status'[r] = 200 => "login" \notin path[r]]_vars

=============================================================================
