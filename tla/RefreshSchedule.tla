-------------------------- MODULE RefreshSchedule --------------------------
(***************************************************************************)
(* When accounts are refreshed without the user asking: the loop of the    *)
(* process that has a window (refresh_loop.rs), the backoff that defers an  *)
(* account after failures (refresh_backoff.rs), and the runs the phone's    *)
(* operating system starts while the app is closed (background_refresh.rs,  *)
(* platform/ios_background.rs).  What one refresh does is AccountRefresh's  *)
(* subject; here a refresh is an attempt that is answered.                  *)
(*                                                                         *)
(* There are two clocks.  The wall clock (SystemTime) decides whether a     *)
(* refresh is due: it goes on while the machine sleeps and can be set back. *)
(* The monotonic clock (Instant, tokio's timers) measures the loop's sleep, *)
(* the backoff and the run's time limit, and stops while the machine        *)
(* sleeps.  Times are kept relative to now, in units of one poll of the     *)
(* loop, and saturate where nothing tells them apart any more.              *)
(***************************************************************************)
EXTENDS Integers, FiniteSets

CONSTANTS
  Accounts,      \* the accounts that may be in the store
  Platforms,     \* what the app runs on, of "desktop", "android" and "ios"
  Intervals,     \* the refresh intervals the settings offer
  PollTick,      \* REFRESH_POLL_TICK: the loop's sleep between two checks
  DueSlack,      \* BACKGROUND_DUE_SLACK: how early a background run still counts
  BackoffBase,   \* the delay after the second failure in a row
  BackoffMax,    \* the longest an account is ever deferred
  Hints,         \* the Retry-After delays a provider may ask for
  RunTimeout     \* the time limit of a background run

ASSUME ScheduleAssumption ==
  /\ Platforms \subseteq {"desktop", "android", "ios"}
  /\ Intervals \subseteq Nat \ {0} /\ Intervals # {}
  /\ Hints \subseteq Nat
  /\ {PollTick, BackoffBase, BackoffMax, RunTimeout} \subseteq Nat \ {0}
  /\ DueSlack \in Nat

VARIABLES
  platform,   \* what this app runs on
  process,    \* "none", "headless" (started by the system) or "window"
  loop,       \* the refresh loop: "off", "start", "check", "round" or "waiting"
  last,       \* wall time since the loop's last round, or Never or Ahead
  slept,      \* how long the loop has been in its select
  overdue,    \* how long, awake, the loop has left a due refresh waiting
  interval,   \* settings.account_refresh_minutes
  permits,    \* the Notify permits stored: "check", "schedule"
  present,    \* the accounts in the store
  suspended,  \* those whose auth_required is set
  modelsOnly, \* those whose last usage only lists the models of an API key
  failures,   \* RefreshBackoff: failures in a row of each account
  wait,       \* RefreshBackoff: how long it is still deferred
  snapshot,   \* wall time since its last_usage was fetched, or Never or Ahead
  pending,    \* per caller, the refreshes it still awaits
  run,        \* the background run: "idle" or "refreshing"
  runLeft,    \* time left to the background run
  request,    \* iOS: a BGAppRefreshTaskRequest is pending
  task        \* iOS: a BGAppRefreshTask is running, not yet reported as over

loopVars == <<loop, last, slept, overdue, permits>>
backoffVars == <<failures, wait>>
runVars == <<run, runLeft>>
iosVars == <<request, task>>
allVars == <<platform, process, loopVars, interval, present, suspended, modelsOnly, backoffVars,
          snapshot, pending, runVars, iosVars>>

Callers == {"loop", "run", "user"}
Longest == CHOOSE n \in Intervals : \A i \in Intervals : i <= n
Smaller(x, y) == IF x < y THEN x ELSE y

(* A moment in the wall clock's past: how long ago it was, Never when there  *)
(* is none, Ahead when the clock was set back and it now lies ahead.        *)
Never == -1
Ahead == -2
Ages == (0 .. Longest) \cup {Never, Ahead}
Older(age) == IF age \in {Never, Ahead} THEN age ELSE Smaller(age + 1, Longest)
SetBack(age) == IF age = Never THEN Never ELSE Ahead

(* account_refresh_is_due: a refresh that seems to lie ahead is due.        *)
IsDue_WaitsForTheClock(age, after) == age \notin {Never, Ahead} /\ age >= after

IsDue(age, after) == age = Ahead \/ (age # Never /\ age >= after)

LoopIsDue == last = Never \/ IsDue(last, interval)

(* background_refresh_is_due: the newest reading decides for all accounts;  *)
(* one that lies ahead is the newest, and due.                              *)
NewestIsDue ==
  /\ present # {}
  /\ \/ \E a \in present : snapshot[a] = Ahead
     \/ \A a \in present : \/ snapshot[a] = Never
                            \/ snapshot[a] >= interval - Smaller(DueSlack, interval)

(* should_auto_refresh: neither a suspended account nor an AI Studio key     *)
(* without a Cloud project, whose usage only lists models.                  *)
Refreshable == present \ (suspended \cup modelsOnly)

(* refresh_accounts_with: the accounts an automatic refresh goes to.        *)
Eligible == {a \in Refreshable : wait[a] = 0}

InFlight == UNION {pending[c] : c \in Callers}

(* failure_delay, with its jitter of up to a fifth rounded to whole units.  *)
FailureDelay(count, hint, jitter) ==
  LET exponential == IF count <= 1 THEN 0 ELSE BackoffBase * 2 ^ Smaller(count - 2, 6)
      base == IF exponential > hint THEN exponential ELSE hint
  IN IF base = 0 THEN 0 ELSE Smaller(base + jitter, BackoffMax)

(* The number of failures after which the delay no longer grows.            *)
Enough == CHOOSE n \in 2 .. 8 : /\ FailureDelay(n, 0, 0) = FailureDelay(8, 0, 0)
                                /\ \A k \in 2 .. n - 1 : FailureDelay(k, 0, 0) < FailureDelay(8, 0, 0)

\* Every variable has its type; clocks and delays are within their bounds.
LoopTypeOK ==
  /\ platform \in Platforms
  /\ process \in {"none", "headless", "window"}
  /\ loop \in {"off", "start", "check", "round", "waiting"}
  /\ last \in Ages /\ slept \in 0 .. PollTick /\ overdue \in Nat
  /\ interval \in Intervals
  /\ permits \subseteq {"check", "schedule"}
  /\ present \subseteq Accounts
  /\ suspended \subseteq Accounts /\ modelsOnly \subseteq Accounts
  /\ failures \in [Accounts -> 0 .. Enough] /\ wait \in [Accounts -> 0 .. BackoffMax]
  /\ snapshot \in [Accounts -> Ages]
  /\ pending \in [Callers -> SUBSET Accounts]
  /\ run \in {"idle", "refreshing"} /\ runLeft \in 0 .. RunTimeout
  /\ request \in BOOLEAN /\ task \in BOOLEAN

(* A desktop app and a phone app the user opens; nothing is signed in yet    *)
(* or some accounts are, read from the store with no reading or an old one. *)
LoopInit ==
  /\ platform \in Platforms
  /\ process = "window" /\ loop = "start"
  /\ last = Never /\ slept = 0 /\ overdue = 0 /\ permits = {}
  /\ interval \in Intervals
  /\ present \in SUBSET Accounts /\ suspended = {} /\ modelsOnly = {}
  /\ failures = [a \in Accounts |-> 0] /\ wait = [a \in Accounts |-> 0]
  /\ snapshot = [a \in Accounts |-> Never]
  /\ pending = [c \in Callers |-> {}]
  /\ run = "idle" /\ runLeft = 0
  /\ request \in {FALSE, platform = "ios"} /\ task = FALSE

--------------------------------------------------------------------------
(* The loop.                                                               *)

LoopStarts ==
  /\ loop = "start"
  /\ loop' = "check"
  /\ UNCHANGED <<platform, process, last, slept, overdue, permits, interval, present, suspended,
                 modelsOnly, backoffVars, snapshot, pending, runVars, iosVars>>

RoundStarts ==
  /\ loop = "check" /\ LoopIsDue
  /\ loop' = "round" /\ overdue' = 0
  /\ pending' = [pending EXCEPT !["loop"] = Eligible]
  /\ UNCHANGED <<platform, process, last, slept, permits, interval, present, suspended,
                 modelsOnly, backoffVars, snapshot, runVars, iosVars>>

RoundEnds ==
  /\ loop = "round" /\ pending["loop"] = {}
  /\ loop' = "check" /\ last' = 0
  /\ UNCHANGED <<platform, process, slept, overdue, permits, interval, present, suspended,
                 modelsOnly, backoffVars, snapshot, pending, runVars, iosVars>>

LoopWaits ==
  /\ loop = "check" /\ ~LoopIsDue
  /\ loop' = "waiting" /\ slept' = 0 /\ overdue' = 0
  /\ UNCHANGED <<platform, process, last, permits, interval, present, suspended,
                 modelsOnly, backoffVars, snapshot, pending, runVars, iosVars>>

(* The first arms of the select: the tick, a check asked for, a new         *)
(* interval.  Each only makes the loop look at the clock again.             *)
TickIsOver_WholeInterval == slept >= interval

TickIsOver == slept >= PollTick

LoopWakes ==
  /\ loop = "waiting"
  /\ \/ TickIsOver /\ permits' = permits
     \/ \E p \in permits : permits' = permits \ {p}
  /\ loop' = "check"
  /\ UNCHANGED <<platform, process, last, slept, overdue, interval, present, suspended,
                 modelsOnly, backoffVars, snapshot, pending, runVars, iosVars>>

(* wakeup_refresh: only a loop that waits hears it; another one loses it.   *)
Wakeup ==
  IF loop = "waiting" THEN loop' = "check" /\ last' = Never ELSE UNCHANGED <<loop, last>>

--------------------------------------------------------------------------
(* One refresh's answer, and what the user does.                           *)

Forgets(a) == /\ failures' = [failures EXCEPT ![a] = 0]
              /\ wait' = [wait EXCEPT ![a] = 0]

Fails(a, hint, jitter) ==
  LET count == Smaller(failures[a] + 1, Enough)
  IN /\ failures' = [failures EXCEPT ![a] = count]
     /\ wait' = [wait EXCEPT ![a] = FailureDelay(count, hint, jitter)]

(* save_success, save_failure or the suspension of an account whose sign-in *)
(* cannot be read.  An account removed meanwhile gets no more than a failure *)
(* counted, when it was looked up before its removal.  One answer serves     *)
(* every caller that waits for this account.                                *)
Answered(a) ==
  /\ a \in InFlight
  /\ pending' = [c \in Callers |-> pending[c] \ {a}]
  /\ \/ /\ a \notin present
        /\ UNCHANGED <<suspended, modelsOnly, backoffVars, snapshot>>
     \/ /\ a \in present
        /\ suspended' = suspended \ {a} /\ snapshot' = [snapshot EXCEPT ![a] = 0]
        /\ modelsOnly' \in {modelsOnly \ {a}, modelsOnly \cup {a}}
        /\ Forgets(a)
     \/ /\ suspended' = suspended \ {a}
        /\ \E hint \in Hints \cup {0}, jitter \in 0 .. 1 : Fails(a, hint, jitter)
        /\ UNCHANGED <<modelsOnly, snapshot>>
     \/ /\ a \in present
        /\ suspended' = suspended \cup {a}
        /\ Forgets(a)
        /\ UNCHANGED <<modelsOnly, snapshot>>
  /\ UNCHANGED <<platform, process, loopVars, interval, present, runVars, iosVars>>

(* "Refresh" on one account: it ignores the backoff and the suspension.     *)
UserRefreshes(a) ==
  /\ process = "window" /\ a \in present \ pending["user"]
  /\ pending' = [pending EXCEPT !["user"] = @ \cup {a}]
  /\ UNCHANGED <<platform, process, loopVars, interval, present, suspended, modelsOnly, backoffVars,
                 snapshot, runVars, iosVars>>

(* An import from another device writes the account and wakes the loop; a    *)
(* sign-in writes it and reads its usage at once, without the loop.         *)
Imported(a) ==
  /\ process = "window" /\ a \notin InFlight
  /\ present' = present \cup {a} /\ suspended' = suspended \ {a}
  /\ Wakeup
  /\ UNCHANGED <<platform, process, slept, overdue, permits, interval, modelsOnly, backoffVars,
                 snapshot, pending, runVars, iosVars>>

Removed(a) ==
  /\ process = "window" /\ a \in present
  /\ present' = present \ {a} /\ suspended' = suspended \ {a}
  /\ modelsOnly' = modelsOnly \ {a}
  /\ snapshot' = [snapshot EXCEPT ![a] = Never]
  /\ Forgets(a)
  /\ UNCHANGED <<platform, process, loopVars, interval, pending, runVars, iosVars>>

SetInterval(minutes) ==
  /\ process = "window" /\ minutes # interval
  /\ interval' = minutes /\ permits' = permits \cup {"schedule"}
  /\ UNCHANGED <<platform, process, loop, last, slept, overdue, present, suspended,
                 modelsOnly, backoffVars, snapshot, pending, runVars, iosVars>>

(* schedule_next: iOS may refuse a request (Background App Refresh is off)   *)
(* or lack the framework; then no other than the one pending is there.      *)
ScheduleNext == request' \in {request, TRUE}

(* A focus or resume event: request_refresh_check, and on iOS schedule_next. *)
ReturnsToApp ==
  /\ process = "window"
  /\ permits' = permits \cup {"check"}
  /\ IF platform = "ios" THEN ScheduleNext ELSE UNCHANGED request
  /\ UNCHANGED <<platform, process, loop, last, slept, overdue, interval, present, suspended,
                 modelsOnly, backoffVars, snapshot, pending, runVars, task>>

--------------------------------------------------------------------------
(* Background runs.                                                        *)

(* refresh_state: the run refreshes when the newest reading is old enough   *)
(* and a saved sign-in can be read; otherwise, or when the saved data does   *)
(* not load, it is over at once: a run that is due may be skipped.           *)
RunBegins ==
  \/ /\ NewestIsDue
     /\ run' = "refreshing" /\ runLeft' = RunTimeout
     /\ pending' = [pending EXCEPT !["run"] = Eligible]
  \/ /\ run' = "idle" /\ runLeft' = 0 /\ pending' = pending

(* complete(): the task is reported as over by whoever swaps the flag first. *)
Complete == task' = FALSE

Headless == process' = IF process = "none" THEN "headless" ELSE process

AndroidRuns ==
  /\ platform = "android" /\ run = "idle"
  /\ Headless /\ RunBegins
  /\ UNCHANGED <<platform, loopVars, interval, present, suspended, modelsOnly, backoffVars, snapshot,
                 iosVars>>

(* handle asks for the next run first: the launched request is used up.     *)
AsksForNext == request' \in BOOLEAN

IosLaunches ==
  /\ platform = "ios" /\ request /\ run = "idle" /\ ~task
  /\ AsksForNext
  /\ Headless
  /\ task' = TRUE
  /\ RunBegins
  /\ UNCHANGED <<platform, loopVars, interval, present, suspended, modelsOnly, backoffVars,
                 snapshot>>

IosExpires ==
  /\ platform = "ios" /\ task
  /\ Complete
  /\ UNCHANGED <<platform, process, loopVars, interval, present, suspended, modelsOnly, backoffVars,
                 snapshot, pending, runVars, request>>

(* The worker's end: every refresh was answered, or the time is up.  Then    *)
(* the run's waits are dropped: what it led ends without a result for those  *)
(* who joined it, what others lead goes on for them.                        *)
RunEnds ==
  /\ run = "refreshing"
  /\ \/ pending["run"] = {} /\ pending' = pending
     \/ /\ runLeft = 0 /\ pending["run"] # {}
        /\ \E led \in SUBSET pending["run"] :
             pending' = [c \in Callers |-> IF c = "run" THEN {} ELSE pending[c] \ led]
  /\ run' = "idle" /\ runLeft' = 0
  /\ IF platform = "ios" THEN Complete ELSE UNCHANGED task
  /\ UNCHANGED <<platform, process, loopVars, interval, present, suspended, modelsOnly, backoffVars,
                 snapshot, request>>

(* A run that had nothing to do still completes its task.                   *)
IdleRunCompletes ==
  /\ platform = "ios" /\ task /\ run = "idle"
  /\ Complete
  /\ UNCHANGED <<platform, process, loopVars, interval, present, suspended, modelsOnly, backoffVars,
                 snapshot, pending, runVars, request>>

(* Opening the app: its first window starts the loop, in the state a        *)
(* background run may already have built.                                   *)
Opens ==
  /\ process # "window"
  /\ process' = "window" /\ loop' = "start"
  /\ last' = Never /\ slept' = 0 /\ overdue' = 0
  /\ IF platform = "ios" THEN ScheduleNext ELSE UNCHANGED request
  /\ UNCHANGED <<platform, permits, interval, present, suspended, modelsOnly, backoffVars, snapshot,
                 pending, runVars, task>>

(* The system or the user ends the process: what was only in memory is gone, *)
(* the store and the pending request stay.                                  *)
Killed ==
  /\ process # "none"
  /\ process' = "none" /\ loop' = "off"
  /\ last' = Never /\ slept' = 0 /\ overdue' = 0 /\ permits' = {}
  /\ failures' = [a \in Accounts |-> 0] /\ wait' = [a \in Accounts |-> 0]
  /\ pending' = [c \in Callers |-> {}]
  /\ run' = "idle" /\ runLeft' = 0
  /\ task' = FALSE
  /\ UNCHANGED <<platform, interval, present, suspended, modelsOnly, snapshot, request>>

--------------------------------------------------------------------------
(* Time.                                                                   *)

(* One unit passes while the machine is awake; what a timer has made ready   *)
(* runs first.                                                              *)
Tick ==
  /\ loop \notin {"start", "check"}
  /\ ~(loop = "waiting" /\ TickIsOver)
  /\ ~(run = "refreshing" /\ runLeft = 0)
  /\ last' = Older(last)
  /\ snapshot' = [a \in Accounts |-> Older(snapshot[a])]
  /\ slept' = IF loop = "waiting" THEN slept + 1 ELSE slept
  /\ overdue' = IF loop = "waiting" /\ LoopIsDue THEN overdue + 1 ELSE overdue
  /\ wait' = [a \in Accounts |-> IF wait[a] = 0 THEN 0 ELSE wait[a] - 1]
  /\ runLeft' = IF runLeft = 0 THEN 0 ELSE runLeft - 1
  /\ UNCHANGED <<platform, process, loop, permits, interval, present, suspended, modelsOnly, failures,
                 pending, run, iosVars>>

(* The machine sleeps, or the wall clock is set forward.                    *)
Sleeps ==
  /\ last' = Older(last)
  /\ snapshot' = [a \in Accounts |-> Older(snapshot[a])]
  /\ UNCHANGED <<platform, process, loop, slept, overdue, permits, interval, present, suspended,
                 modelsOnly, backoffVars, pending, runVars, iosVars>>

(* The wall clock is set back, far enough that waiting for it is hopeless.  *)
ClockIsSetBack ==
  /\ last' = SetBack(last)
  /\ snapshot' = [a \in Accounts |-> SetBack(snapshot[a])]
  /\ UNCHANGED <<platform, process, loop, slept, overdue, permits, interval, present, suspended,
                 modelsOnly, backoffVars, pending, runVars, iosVars>>

--------------------------------------------------------------------------
LoopSteps == LoopStarts \/ RoundStarts \/ RoundEnds \/ LoopWaits \/ LoopWakes
RunSteps == RunEnds \/ IdleRunCompletes

LoopNext ==
  \/ LoopStarts \/ RoundStarts \/ RoundEnds \/ LoopWaits \/ LoopWakes
  \/ \E a \in Accounts : Answered(a) \/ UserRefreshes(a) \/ Imported(a) \/ Removed(a)
  \/ \E minutes \in Intervals : SetInterval(minutes)
  \/ ReturnsToApp
  \/ AndroidRuns \/ IosLaunches \/ IosExpires \/ RunEnds \/ IdleRunCompletes
  \/ Opens \/ Killed
  \/ Tick \/ Sleeps \/ ClockIsSetBack

LoopSpec == LoopInit /\ [][LoopNext]_allVars

(* The runtime schedules the loop and the worker, every refresh is answered  *)
(* or times out, and awake time passes however busy the user is.  Nothing is *)
(* asked of the phone: iOS may start no run at all, and a run may be skipped. *)
Fairness ==
  /\ WF_allVars(LoopSteps) /\ WF_allVars(RunSteps) /\ SF_allVars(Tick)
  /\ \A a \in Accounts : WF_allVars(Answered(a))

FairLoopSpec == LoopSpec /\ Fairness

--------------------------------------------------------------------------
(* "Short ticks bound that lateness" (refresh_loop.rs): however the machine  *)
(* sleeps and the clocks move, a due refresh is left waiting for at most one *)
(* tick of awake time.                                                      *)
DueRefreshWaitsOneTick == overdue <= PollTick

(* While the app is open, an account that stays in the store is tried again  *)
(* and again, unless it is suspended or its usage only lists models: although *)
(* failures defer it, the clock is set back, the process was killed, wakeups  *)
(* are lost and background runs, skipped or cut off, refresh beside the loop. *)
EveryAccountIsTried ==
  \A a \in Accounts : []<>(a \in InFlight \/ a \notin Refreshable \/ process # "window")

=============================================================================
