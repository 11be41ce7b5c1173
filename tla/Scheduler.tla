----------------------------- MODULE Scheduler -----------------------------
(***************************************************************************)
(* The scheduler's tick: it reads which feeds, daily reports and watches   *)
(* are due and enqueues a job for each under an idempotency key.  Several  *)
(* schedulers may run.  A tick is one transaction of several statements    *)
(* that all use the time at which it began; meanwhile the owner switches   *)
(* the industry, the subscription and the feed on and off.                 *)
(***************************************************************************)
EXTENDS Naturals, FiniteSets

CONSTANTS Schedulers,
          Interval,     \* hours between polls of the feed and checks of the watch
          Day,          \* hours of a day
          ReportHour,   \* DEFAULT_REPORT_LOCAL_HOUR
          MaxNow, MaxSwitches,  \* bounds
          None

VARIABLES now,
          feed,         \* the owner's feed row
          sub,          \* the status of the industry's subscription to it
          industry,     \* the status of the industry
          jobs,         \* the keys of the jobs that exist
          tick,         \* the tick each scheduler is in
          switches,     \* how often the owner has switched something
          lastOn        \* when a poll, and the industry, were last switched on

vars == <<now, feed, sub, industry, jobs, tick, switches, lastOn>>

schedule_slot(t) == t \div Interval
local_date(t) == t \div Day

\* Mutant: a subscription counts whatever the state of its industry.
PollablePaused(f, s, i) ==
    f.status = "active" /\ (f.user_enabled \/ s = "active")

\* due_feeds_stmt: the owner's own switch, or an active subscription of an
\* active industry.
Pollable(f, s, i) ==
    f.status = "active" /\ (f.user_enabled \/ (s = "active" /\ i = "active"))

If(cond, key) == IF cond THEN {key} ELSE {}

\* NULL is never due.
due_feeds(t) ==
    If(/\ Pollable(feed, sub, industry)
       /\ feed.next_poll_at # None /\ feed.next_poll_at <= t,
       <<"discover", schedule_slot(t), feed.row_version>>)

daily_report_targets(t) ==
    If(industry = "active" /\ t % Day = ReportHour, <<"report_build", local_date(t)>>)

\* last_checked_at stays NULL: an active watch is due at every tick.
due_watches(t) == If(industry = "active", <<"watch_check", schedule_slot(t)>>)

TickAt(at, t, due, inserted) == [at |-> at, now |-> t, due |-> due, inserted |-> inserted]

Idle == TickAt("idle", 0, {}, {})

\* next_poll_at is NULL in every row the program creates; a row with another
\* value has been prepared by hand.
Init ==
    /\ now = 0
    /\ feed \in [status : {"active"}, user_enabled : BOOLEAN,
                 next_poll_at : {None, 0}, row_version : {1}]
    /\ sub = "active"
    /\ industry = "active"
    /\ jobs = {}
    /\ tick = [s \in Schedulers |-> Idle]
    /\ switches = 0
    /\ lastOn = [discover |-> 0, industry |-> 0]

\* What the owner has left on at time t (history, not part of the program).
NoteOn(t, f, s, i) ==
    lastOn' = [discover |-> IF f.status # "active" THEN lastOn.discover
                            ELSE IF f.user_enabled \/ <<s, i>> = <<"active", "active">>
                                 THEN t ELSE lastOn.discover,
               industry |-> IF i = "active" THEN t ELSE lastOn.industry]

Elapse ==
    /\ now < MaxNow
    /\ now' = now + 1
    /\ NoteOn(now + 1, feed, sub, industry)
    /\ UNCHANGED <<feed, sub, industry, jobs, tick, switches>>

Other(status) == IF status = "active" THEN "paused" ELSE "active"

Patched(status, enabled) ==
    [status |-> status, user_enabled |-> enabled,
     next_poll_at |-> feed.next_poll_at, row_version |-> feed.row_version + 1]

\* The owner pauses or resumes; every PATCH of a feed makes a new version.
Switch ==
    /\ switches < MaxSwitches
    /\ switches' = switches + 1
    /\ \/ /\ industry' = Other(industry)
          /\ UNCHANGED <<sub, feed>>
       \/ /\ sub' = Other(sub)
          /\ UNCHANGED <<industry, feed>>
       \/ /\ \/ feed' = Patched(feed.status, ~feed.user_enabled)
             \/ feed' = Patched(Other(feed.status), feed.user_enabled)
          /\ UNCHANGED <<industry, sub>>
    /\ NoteOn(now, feed', sub', industry')
    /\ UNCHANGED <<now, jobs, tick>>

Begin(s) ==
    /\ tick[s].at = "idle"
    /\ tick' = [tick EXCEPT ![s] = TickAt("feeds", now, {}, {})]
    /\ UNCHANGED <<now, feed, sub, industry, jobs, switches, lastOn>>

\* One of the three reads, as the database is at that moment.
Query(s) ==
    /\ tick[s].due = {}
    /\ LET t == tick[s].now
           Goes(from, to, due) ==
               /\ tick[s].at = from
               /\ tick' = [tick EXCEPT ![s] = TickAt(to, t, due, tick[s].inserted)]
       IN
       \/ Goes("feeds", "reports", due_feeds(t))
       \/ Goes("reports", "watches", daily_report_targets(t))
       \/ Goes("watches", "commit", due_watches(t))
    /\ UNCHANGED <<now, feed, sub, industry, jobs, switches, lastOn>>

\* INSERT ... ON CONFLICT DO NOTHING: it waits for another transaction that
\* has inserted the key, and counts the job as created when the row is new.
Enqueue(s) ==
    \E key \in tick[s].due :
        /\ \A r \in Schedulers \ {s} : key \notin tick[r].inserted
        /\ tick' = [tick EXCEPT ![s] =
               TickAt(tick[s].at, tick[s].now, tick[s].due \ {key},
                      tick[s].inserted \cup If(key \notin jobs, key))]
        /\ UNCHANGED <<now, feed, sub, industry, jobs, switches, lastOn>>

Commit(s) ==
    /\ tick[s].at = "commit" /\ tick[s].due = {}
    /\ jobs' = jobs \cup tick[s].inserted
    /\ tick' = [tick EXCEPT ![s] = Idle]
    /\ UNCHANGED <<now, feed, sub, industry, switches, lastOn>>

\* An error or a crash ends the process; it is started again and ticks anew.
Die(s) ==
    /\ tick[s].at # "idle"
    /\ tick' = [tick EXCEPT ![s] = Idle]
    /\ UNCHANGED <<now, feed, sub, industry, jobs, switches, lastOn>>

Next == \/ Elapse \/ Switch
        \/ \E s \in Schedulers : Begin(s) \/ Query(s) \/ Enqueue(s) \/ Commit(s) \/ Die(s)

Spec == Init /\ [][Next]_vars

----------------------------------------------------------------------------
(* 行业 pause 停止新定时任务 (scheduler.py:5-8): a job belongs to a slot or a
   day in which what it serves was on, or that began before it was switched
   off.  A tick reads, waits for another tick and commits late, and still no
   job names a period that began after the pause. *)
PausedIsQuiet ==
    \A key \in jobs :
        IF key[1] = "discover" THEN key[2] <= schedule_slot(lastOn.discover)
        ELSE IF key[1] = "report_build" THEN key[2] <= local_date(lastOn.industry)
        ELSE key[2] <= schedule_slot(lastOn.industry)
=============================================================================
