------------------------------ MODULE LocalApi ------------------------------
(***************************************************************************)
(* The local API (bridge_api.rs): the controller that follows the setting  *)
(* and keeps the server up, and the token bucket every request is charged  *)
(* to.  Commands (commands/bridge.rs) change the setting at any time and   *)
(* wake the controller with a tokio Notify, which remembers one            *)
(* notification when nobody waits.                                         *)
(*                                                                         *)
(* Every client connects from 127.0.0.1, so there is one bucket for each   *)
(* of the two lanes.  Time is counted in ticks; a tick refills one unit, a *)
(* request costs Cost units and a full bucket holds Full.                  *)
(***************************************************************************)
EXTENDS Integers, FiniteSets

CONSTANTS
    Requests,   \* requests handled at a time
    Cost,       \* ticks per second: what one request costs
    Full,       \* RATE_LIMIT_BURST requests
    TTL,        \* RATE_LIMIT_ENTRY_TTL
    MaxTime     \* bound of the clock

ASSUME CostAssumption == Cost \in Nat \ {0}
ASSUME FullAssumption == Full \in Nat /\ Cost <= Full
ASSUME TTLAssumption == TTL \in Nat /\ Full <= TTL
ASSUME MaxTimeAssumption == MaxTime \in Nat

VARIABLES
    enabled,    \* settings.paseo_bridge_enabled
    blocked,    \* bridge_unavailable: why the API cannot run, decided at start-up
    port,       \* is the API's port free for this app?
    controller, \* where run_controller is
    waiter,     \* its Notified future: none, registered or woken
    permit,     \* the notification Notify remembers
    running,    \* api_runtime.running
    now,        \* the clock
    request,    \* each request: its lane and the instant it read
    bucket,     \* bridge_rate_limit
    used        \* history: what each lane was let through, less the time its clock was set back

controllerVars == <<controller, waiter, permit, running>>
environmentVars == <<enabled, blocked, port>>
rateVars == <<now, request, bucket>>
vars == <<environmentVars, controllerVars, rateVars, used>>

Lanes == {"authorized", "rejected"}
NoRequest == [at |-> "free", lane |-> "rejected", stamp |-> 0]

\* A bucket that is not in the map; the instant it was dropped is history.
FullBucket(t) == [held |-> FALSE, units |-> Full, updated |-> t]
HeldBucket(n, t) == [held |-> TRUE, units |-> n, updated |-> t]

\* Start-up: no client has a bucket, and the controller is about to look at the setting.
Init ==
    /\ enabled \in BOOLEAN /\ blocked \in BOOLEAN /\ port = "free"
    /\ controller = "check" /\ waiter = "none" /\ permit = FALSE /\ running = FALSE
    /\ now = 0 /\ request = [r \in Requests |-> NoRequest]
    /\ bucket = [l \in Lanes |-> FullBucket(0)]
    /\ used = [l \in Lanes |-> 0]

(***************************************************************************)
(* tokio::sync::Notify with notify_one.                                    *)
(***************************************************************************)
\* Mutant: notify_waiters, which forgets a notification nobody waits for.
Notify_Waiters ==
    /\ waiter' = IF waiter = "registered" THEN "woken" ELSE waiter
    /\ UNCHANGED permit

Notify ==
    IF waiter = "registered"
    THEN waiter' = "woken" /\ UNCHANGED permit
    ELSE permit' = TRUE /\ UNCHANGED waiter

Register == ~permit /\ waiter = "none" /\ waiter' = "registered" /\ UNCHANGED permit

\* The wait is over: a remembered notification, or one sent to the waiter.
Notified ==
    \/ waiter = "woken" /\ waiter' = "none" /\ UNCHANGED permit
    \/ waiter = "none" /\ permit /\ permit' = FALSE /\ UNCHANGED waiter

\* A future that is dropped hands on the notification it was given.
DropWaiter ==
    /\ waiter' = "none"
    /\ permit' = (permit \/ waiter = "woken")

(***************************************************************************)
(* The setting.                                                            *)
(***************************************************************************)
SetEnabled(b) ==
    /\ enabled # b
    /\ enabled' = b
    /\ Notify
    /\ UNCHANGED <<blocked, port, controller, running, rateVars, used>>

\* Putting every setting back to its default wakes the controller when any of them changes.
ResetSettings ==
    /\ enabled' = FALSE
    /\ Notify
    /\ UNCHANGED <<blocked, port, controller, running, rateVars, used>>

\* Another program takes or releases the port.
PortChanges ==
    /\ controller \notin {"serving", "draining"}
    /\ port' = IF port = "free" THEN "taken" ELSE "free"
    /\ UNCHANGED <<enabled, blocked, controllerVars, rateVars, used>>

(***************************************************************************)
(* The controller.                                                         *)
(***************************************************************************)
Check ==
    /\ controller = "check"
    /\ IF enabled /\ ~blocked
       THEN controller' = "bind" /\ UNCHANGED running
       ELSE controller' = "idle" /\ running' = FALSE
    /\ UNCHANGED <<environmentVars, waiter, permit, rateVars, used>>

Bind ==
    /\ controller = "bind"
    /\ controller' = IF port = "free" THEN "serving" ELSE "failed"
    /\ running' = (port = "free")
    /\ UNCHANGED <<environmentVars, waiter, permit, rateVars, used>>

Wait ==
    /\ controller \in {"idle", "failed", "serving"}
    /\ Register
    /\ UNCHANGED <<environmentVars, controller, running, rateVars, used>>

Wake ==
    /\ controller \in {"idle", "failed"}
    /\ Notified
    /\ controller' = "check"
    /\ UNCHANGED <<environmentVars, running, rateVars, used>>

\* Mutant: a failed bind is tried again only when the setting changes.
RetryBind_Never ==
    /\ FALSE
    /\ UNCHANGED vars

RetryBind ==
    /\ controller = "failed"
    /\ DropWaiter
    /\ controller' = "check"
    /\ UNCHANGED <<environmentVars, running, rateVars, used>>

\* The shutdown future of the running server: a change that left the API enabled
\* is waited past.
Watch ==
    /\ controller = "serving"
    /\ Notified
    /\ controller' = IF enabled THEN "serving" ELSE "draining"
    /\ UNCHANGED <<environmentVars, running, rateVars, used>>

\* A graceful shutdown answers the requests it has before it ends.
Drained ==
    /\ controller = "draining"
    /\ \A r \in Requests : request[r].at = "free"
    /\ controller' = "check" /\ running' = FALSE
    /\ UNCHANGED <<environmentVars, waiter, permit, rateVars, used>>

ServerFails ==
    /\ controller = "serving"
    /\ DropWaiter
    /\ running' = FALSE
    /\ controller' = IF enabled THEN "sleep" ELSE "check"
    /\ UNCHANGED <<environmentVars, rateVars, used>>

SleptOver ==
    /\ controller = "sleep"
    /\ controller' = "check"
    /\ UNCHANGED <<environmentVars, waiter, permit, running, rateVars, used>>

(***************************************************************************)
(* Requests.                                                               *)
(***************************************************************************)
Elapsed(from, to) == IF from < to THEN to - from ELSE 0
AtMost(n, bound) == IF n < bound THEN n ELSE bound

\* A request finds its lane from the token it presents, and reads the clock
\* before it takes the lock on the buckets.
Arrive(r, lane) ==
    /\ controller = "serving" /\ request[r].at = "free"
    /\ request' = [request EXCEPT ![r] = [at |-> "stamped", lane |-> lane, stamp |-> now]]
    /\ UNCHANGED <<environmentVars, controllerVars, now, bucket, used>>

\* Entries idle for the TTL leave the map.
Pruned(b, t) ==
    IF b.held /\ Elapsed(b.updated, t) >= TTL THEN FullBucket(t) ELSE b

\* Mutant: the instant of the last refill is kept.
Refilled_KeepsClock(b, t) ==
    HeldBucket(IF b.held THEN AtMost(b.units + Elapsed(b.updated, t), Full) ELSE Full, b.updated)

\* A bucket that is not in the map is made full, whenever it was dropped.
Refilled(b, t) ==
    HeldBucket(IF b.held THEN AtMost(b.units + Elapsed(b.updated, t), Full) ELSE Full, t)

Admits(b) == b.units >= Cost

Charge(r) ==
    LET l == request[r].lane
        t == request[r].stamp
        old == Pruned(bucket[l], t)
        b == Refilled(old, t)
        cost == IF Admits(b) THEN Cost ELSE 0
    IN
    /\ request[r].at = "stamped"
    /\ bucket' = [k \in Lanes |-> IF k = l THEN [b EXCEPT !.units = @ - cost]
                                           ELSE Pruned(bucket[k], t)]
    /\ used' = [used EXCEPT ![l] = @ + cost - Elapsed(t, old.updated)]
    /\ request' = [request EXCEPT ![r] = NoRequest]
    /\ UNCHANGED <<environmentVars, controllerVars, now>>

Tick ==
    /\ now < MaxTime
    /\ now' = now + 1
    /\ UNCHANGED <<environmentVars, controllerVars, request, bucket, used>>

(***************************************************************************)
(* The specification.                                                      *)
(***************************************************************************)
ControllerStep == Check \/ Bind \/ Wait \/ Wake \/ RetryBind \/ Watch \/ Drained \/ SleptOver

Environment ==
    \/ \E b \in BOOLEAN : SetEnabled(b)
    \/ ResetSettings \/ PortChanges \/ ServerFails \/ Tick
    \/ \E r \in Requests, lane \in Lanes : Arrive(r, lane)

Next == ControllerStep \/ Environment \/ \E r \in Requests : Charge(r)

Spec == Init /\ [][Next]_vars

\* The controller's task is scheduled and its three-second sleeps end; as long as
\* there are requests, some are answered.
Fairness == WF_vars(ControllerStep) /\ WF_vars(\E r \in Requests : Charge(r))

FairSpec == Spec /\ Fairness

(***************************************************************************)
(* Properties.                                                             *)
(***************************************************************************)
Buckets == [held : BOOLEAN, units : 0..Full, updated : Nat]

\* Every variable has its type; no bucket is overdrawn or holds more than the burst.
TypeOK ==
    /\ enabled \in BOOLEAN /\ blocked \in BOOLEAN /\ port \in {"free", "taken"}
    /\ controller \in {"check", "idle", "bind", "failed", "serving", "draining", "sleep"}
    /\ waiter \in {"none", "registered", "woken"} /\ permit \in BOOLEAN /\ running \in BOOLEAN
    /\ now \in Nat
    /\ request \in [Requests -> [at : {"free", "stamped"}, lane : Lanes, stamp : 0..now]]
    /\ bucket \in [Lanes -> Buckets]
    /\ \A l \in Lanes : bucket[l].updated <= now /\ (bucket[l].held \/ bucket[l].units = Full)
    /\ used \in [Lanes -> Int]

\* A controller about to bind, or serving, with the API switched off has a
\* notification coming, and so has one that sleeps with the API switched on:
\* a click that comes between its check and its wait is not lost (bridge_api.rs:43-76).
NoLostWakeup ==
    LET coming == permit \/ waiter = "woken" IN
    /\ controller \in {"bind", "serving"} /\ ~enabled => coming
    /\ controller = "idle" /\ enabled /\ ~blocked => coming

\* The requests let through on a lane since start-up cost no more than a burst and
\* what was refilled since (bridge_api.rs:33-37), but for the time by which requests
\* overtook each other between reading the clock and taking the lock, which used
\* leaves out: that time is refilled twice.
RateBound ==
    \A l \in Lanes : used[l] <= Full + now

\* While the API stays switched on and its port is free, it keeps coming up.
StaysOn == ~blocked /\ <>[](enabled /\ port = "free") => []<>(controller = "serving" /\ running)
=============================================================================
