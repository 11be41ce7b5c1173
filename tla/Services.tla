------------------------------ MODULE Services ------------------------------
(***************************************************************************)
(* The services around the pipeline: edits of the workspace, the           *)
(* scheduler's tick, fetches of one host, report jobs and sessions.  They  *)
(* share no row that two of them write, so a behaviour follows one, and    *)
(* what is not followed stays as it was.                                   *)
(***************************************************************************)
EXTENDS Workspace

CONSTANTS MaxNow,                                               \* the clock's bound
          Schedulers, Interval, Day, ReportHour, MaxSwitches,   \* Scheduler
          FetchRequests, Concurrency, MinInterval, Timeout,
          MAX_REDIRECTS, Responses,                             \* Fetching
          Jobs, Drafts, PacketLimit, MaxAttempts, MaxEvidence,  \* Reports
          Logins, CookieRequests, SESSION_TTL, MaxSessions, MaxResets  \* Sessions

ASSUME ServicesAssumption ==
    /\ None \notin Nat
    /\ Interval \in Nat \ {0} /\ Day \in Nat \ {0}
    /\ IsFiniteSet(FetchRequests)
    /\ Concurrency \in Nat \ {0} /\ MinInterval \in Nat
    /\ Responses \subseteq 200 .. 599
    /\ Drafts \subseteq SUBSET SUBSET Nat
    /\ SESSION_TTL \in Nat

VARIABLES part, now,
          feed, sub, industry, jobs, tick, switches, lastOn,
          at, waiters, last_release, wakes, deadline, hop, login_hop, status, started, path,
          evidence, job, run, reports, report_citations, stale,
          password_version, sessions, login, reset, request, resets

ticking == <<feed, sub, industry, jobs, tick, switches, lastOn>>
fetching == <<at, waiters, last_release, wakes, deadline, hop, login_hop, status, started, path>>
reporting == <<evidence, job, run, reports, report_citations, stale>>
signing == <<password_version, sessions, login, reset, request, resets>>

Beat == INSTANCE Scheduler
Host == INSTANCE Fetching WITH Requests <- FetchRequests, Never <- None
Report == INSTANCE Reports
Account == INSTANCE Sessions WITH Requests <- CookieRequests

ServicesInit ==
    /\ part \in {"workspace", "tick", "fetch", "report", "account"}
    /\ Init /\ (part = "workspace" \/ kind = "industry")
    /\ Beat!Init /\ (part = "tick" \/ (feed.next_poll_at = None /\ feed.user_enabled))
    /\ Host!Init /\ Report!Init /\ Account!Init

WorkspaceStep == Next /\ UNCHANGED <<now, ticking, fetching, reporting, signing>>
TickStep == Beat!Next /\ UNCHANGED <<vars, fetching, reporting, signing>>
FetchStep == Host!Next /\ UNCHANGED <<vars, ticking, reporting, signing>>
ReportStep == Report!Next /\ UNCHANGED <<vars, now, ticking, fetching, signing>>
AccountStep == Account!Next /\ UNCHANGED <<vars, ticking, fetching, reporting>>

ServicesNext ==
    /\ UNCHANGED part
    /\ \/ part = "workspace" /\ WorkspaceStep
       \/ part = "tick" /\ TickStep
       \/ part = "fetch" /\ FetchStep
       \/ part = "report" /\ ReportStep
       \/ part = "account" /\ AccountStep

servicesVars == <<part, vars, now, ticking, fetching, reporting, signing>>

ServicesSpec == ServicesInit /\ [][ServicesNext]_servicesVars

----------------------------------------------------------------------------
\* Scheduler: no job names a period that began after a pause.
PausedIsQuiet == part = "tick" => Beat!PausedIsQuiet

\* Fetching: a host is not sent more than its slots within an interval.
BurstBounded == part = "fetch" => Host!BurstBounded

\* Fetching: a page that answers 200 behind a login is no capture.
LoginIsNoCapture == Host!LoginIsNoCapture

\* Reports: a snapshot shows what its own packet supports.
SnapshotsAreSupported == part = "report" => Report!SnapshotsAreSupported

\* Sessions: no request is accepted on a session that has ended.
EndedIsRefused == part = "account" => Account!EndedIsRefused
=============================================================================
