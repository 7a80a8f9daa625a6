------------------------------- MODULE SignIn -------------------------------
(***************************************************************************)
(* Sign-in attempts on a desktop: the one pending login of the app         *)
(* (state.rs), the commands that start, poll and cancel it                 *)
(* (commands/auth.rs), and what each kind of attempt runs in the           *)
(* background: a loopback callback server, a timeout, a private window     *)
(* with its close and Back handlers, and the work that exchanges a code or *)
(* probes a cookie and then saves the account.                             *)
(*                                                                         *)
(* All of it races: commands run on the main thread, window events too,    *)
(* and every await of the background work is a point where the attempt may *)
(* be cancelled, time out, finish, or be replaced by a new one.  The user  *)
(* and the provider are the environment.                                   *)
(***************************************************************************)
EXTENDS Naturals, FiniteSets

CONSTANTS
    Attempts,   \* attempt ids, numbered in the order they begin
    Tasks,      \* callback requests, status polls and cookie captures at a time
    Kinds,      \* the kinds of sign-in this instance starts
    None

Browser == {"oauth", "studio"}      \* served by a loopback callback
Cookie == {"grok", "opencode"}      \* captured from the window's cookies
AllKinds == Browser \cup Cookie \cup {"select"}

ASSUME NumbersAssumption == Attempts \subseteq Nat /\ Tasks \subseteq Nat
ASSUME KindsAssumption == Kinds \subseteq AllKinds
ASSUME NoneAssumption == None \notin Attempts \cup Tasks /\ None \notin AllKinds

VARIABLES
    pending,    \* AppState::pending_login: an attempt and its status
    kind,       \* what each attempt signs in to; None before it begins
    start,      \* how far its start command is
    listening,  \* attempts whose callback server runs (login_shutdowns)
    timer,      \* each attempt's timeout task
    window,     \* the attempt each sign-in window belongs to, by label
    seen,       \* callback_seen: attempts whose window reached the callback
    closing,    \* attempts whose window will close after its result page
    claimed,    \* callback_claimed: attempts whose callback was taken
    queued,     \* AppState::pending_auth_exchange
    task,       \* the background work
    saved,      \* history: attempts whose account was saved
    spent,      \* at the provider: attempts whose code was used up
    settled     \* history: attempts whose exchange got an answer, good or bad

attemptVars == <<kind, start>>
windowVars == <<window, seen, closing>>
historyVars == <<saved, spent, settled>>
vars == <<pending, attemptVars, listening, timer, windowVars, claimed, queued, task,
          historyVars>>

Labels == {"provider"} \cup Cookie
Label(a) == IF kind[a] \in Browser THEN "provider" ELSE kind[a]
Statuses == {"none", "waiting", "choose", "complete", "failed"}
NoLogin == [attempt |-> None, status |-> "none"]
Free == [at |-> "free", attempt |-> None, from |-> None]

\* A new attempt has an id no attempt had before; a new task is none of those that run.
NewAttempt(a) == start[a] = "unused" /\ \A b \in Attempts : b < a => start[b] # "unused"
NewTask(t) == task[t] = Free /\ \A u \in Tasks : u < t => task[u] # Free

Init ==
    /\ pending = NoLogin
    /\ kind = [a \in Attempts |-> None] /\ start = [a \in Attempts |-> "unused"]
    /\ listening = {} /\ timer = [a \in Attempts |-> "off"]
    /\ window = [l \in Labels |-> None] /\ seen = {} /\ closing = {}
    /\ claimed = {} /\ queued = None
    /\ task = [t \in Tasks |-> Free]
    /\ saved = {} /\ spent = {} /\ settled = {}

(***************************************************************************)
(* The shared login table.                                                 *)
(***************************************************************************)
Waiting(a) == pending = [attempt |-> a, status |-> "waiting"]

InProgress == pending.status \in {"waiting", "choose"}

IfWaiting(a, status) ==
    IF Waiting(a) THEN [pending EXCEPT !.status = status] ELSE pending

FailIfWaiting(a) == pending' = IfWaiting(a, "failed")

ClearPending(a) == pending' = IF pending.attempt = a THEN NoLogin ELSE pending

StopServer(a) == listening' = listening \ {a}

AbortResources(a) ==
    /\ StopServer(a)
    /\ queued' = IF queued = a THEN None ELSE queued

\* What a window's CloseRequested handler does for the attempt it was opened for.
WindowClosed(a) ==
    IF kind[a] \in Browser
    THEN IF a \in seen THEN UNCHANGED <<pending, listening, queued>>
                       ELSE FailIfWaiting(a) /\ AbortResources(a)
    ELSE FailIfWaiting(a) /\ UNCHANGED <<listening, queued>>

(***************************************************************************)
(* Starting an attempt.                                                    *)
(***************************************************************************)
Begin(a, k) ==
    /\ NewAttempt(a) /\ ~InProgress /\ k # "select"
    /\ pending' = [attempt |-> a, status |-> "waiting"]
    /\ kind' = [kind EXCEPT ![a] = k]
    /\ start' = [start EXCEPT ![a] = IF k \in Browser THEN "bind" ELSE "open"]
    /\ UNCHANGED <<listening, timer, windowVars, claimed, queued, task, historyVars>>

BindFails(a) ==
    /\ start[a] = "bind"
    /\ start' = [start EXCEPT ![a] = "done"]
    /\ ClearPending(a)
    /\ UNCHANGED <<kind, listening, timer, windowVars, claimed, queued, task, historyVars>>

\* Registering the shutdown sender, and spawning the callback server and the timeout.
Listens(a) ==
    /\ start[a] = "bind"
    /\ start' = [start EXCEPT ![a] = "open"]
    /\ listening' = listening \cup {a}
    /\ timer' = [timer EXCEPT ![a] = "armed"]
    /\ UNCHANGED <<pending, kind, windowVars, claimed, queued, task, historyVars>>

\* A provider's sign-in binds the port its redirect names, AI Studio's one of its own.
ListenOAuth(a) == kind[a] = "oauth" /\ Listens(a)
ListenStudio(a) == kind[a] = "studio" /\ Listens(a)
Listen(a) == ListenOAuth(a) \/ ListenStudio(a)

\* The window takes its label; the one that had it is dismissed first, which runs
\* that window's close handler.
Opened(a) ==
    LET l == Label(a) old == window[l] IN
    /\ start[a] = "open"
    /\ start' = [start EXCEPT ![a] = "done"]
    /\ window' = [window EXCEPT ![l] = a]
    /\ closing' = closing \ {old}
    /\ IF old = None THEN UNCHANGED <<pending, listening, queued>> ELSE WindowClosed(old)
    /\ UNCHANGED <<kind, seen, claimed, task, historyVars>>

NotOpened(a) ==
    LET l == Label(a) IN
    /\ start[a] = "open"
    /\ start' = [start EXCEPT ![a] = "done"]
    /\ window' = [window EXCEPT ![l] = None]
    /\ closing' = closing \ {window[l]}
    /\ UNCHANGED <<kind, timer, seen, claimed, task, historyVars>>

OpenWindow(a) == kind[a] \in Browser /\ Opened(a) /\ UNCHANGED timer

OpenFails(a) ==
    LET old == window["provider"] IN
    /\ kind[a] \in Browser /\ NotOpened(a)
    /\ FailIfWaiting(a)
    /\ listening' = listening \ ({a} \cup ({old} \ seen))
    /\ queued' = IF queued \in {a, old} \ (seen \ {a}) THEN None ELSE queued

\* A private profile of its own, then the window, then the timeout.
OpensPrivately(a) == Opened(a) /\ timer' = [timer EXCEPT ![a] = "armed"]
OpenGrok(a) == kind[a] = "grok" /\ OpensPrivately(a)
OpenOpenCode(a) == kind[a] = "opencode" /\ OpensPrivately(a)
OpenCookieWindow(a) == OpenGrok(a) \/ OpenOpenCode(a)

OpenCookieFails(a) ==
    kind[a] \in Cookie /\ NotOpened(a) /\ ClearPending(a) /\ UNCHANGED <<listening, queued>>

\* AI Studio, a project typed by the user: starts over any login that is not
\* waiting, and has neither a window nor a server nor a timeout.
SelectProject(t, a) ==
    /\ NewAttempt(a) /\ NewTask(t)
    /\ pending.status # "waiting" /\ "select" \in Kinds
    /\ pending' = [attempt |-> a, status |-> "waiting"]
    /\ kind' = [kind EXCEPT ![a] = "select"]
    /\ start' = [start EXCEPT ![a] = "done"]
    /\ task' = [task EXCEPT ![t] = [at |-> "select", attempt |-> a, from |-> "select"]]
    /\ UNCHANGED <<listening, timer, windowVars, claimed, queued, historyVars>>

\* Every error returns early; saving the selection takes the account's lock with
\* blocking_lock inside an async function, which panics.  Neither ends the attempt.
SelectEnds(t) ==
    /\ task[t].at = "select"
    /\ task' = [task EXCEPT ![t] = Free]
    /\ UNCHANGED <<pending, attemptVars, listening, timer, windowVars, claimed, queued, historyVars>>

(***************************************************************************)
(* The user, and the timeout.                                              *)
(***************************************************************************)
\* Cancelling closes every sign-in window, one that an earlier attempt left included.
Cancel(a) ==
    /\ start[a] # "unused"
    /\ queued' = IF queued = a THEN None ELSE queued
    /\ IF pending.attempt = a /\ InProgress
       THEN /\ pending' = [pending EXCEPT !.status = "failed"]
            /\ window' = [l \in Labels |-> None] /\ closing' = {}
            /\ listening' = listening \ ({a} \cup ({window["provider"]} \ seen))
       ELSE StopServer(a) /\ UNCHANGED <<pending, window, closing>>
    /\ UNCHANGED <<attemptVars, timer, seen, claimed, task, historyVars>>

CloseWindow(l) ==
    /\ window[l] # None
    /\ window' = [window EXCEPT ![l] = None]
    /\ closing' = closing \ {window[l]}
    /\ WindowClosed(window[l])
    /\ UNCHANGED <<attemptVars, timer, seen, claimed, task, historyVars>>

\* The Back button on a provider's page gives up whether or not the callback was seen.
Back(l) ==
    LET a == window[l] IN
    /\ a # None
    /\ window' = [window EXCEPT ![l] = None]
    /\ closing' = closing \ {a}
    /\ FailIfWaiting(a)
    /\ IF kind[a] \in Browser THEN AbortResources(a) ELSE UNCHANGED <<listening, queued>>
    /\ UNCHANGED <<attemptVars, timer, seen, claimed, task, historyVars>>

\* An attempt that ended before is left alone, and cannot wait again.
TimeOut(a) ==
    /\ timer[a] = "armed" /\ Waiting(a)
    /\ timer' = [timer EXCEPT ![a] = "due"]
    /\ UNCHANGED <<pending, attemptVars, listening, windowVars, claimed, queued, task, historyVars>>

\* The check above is only a hint: the attempt may have ended since.  A cookie
\* sign-in's window is looked up by its label, so it may be a later attempt's.
GiveUp(a) ==
    LET l == Label(a) IN
    /\ timer[a] = "due"
    /\ timer' = [timer EXCEPT ![a] = "off"]
    /\ IF kind[a] \in Browser
       THEN FailIfWaiting(a) /\ AbortResources(a) /\ UNCHANGED <<window, closing>>
       ELSE /\ pending' = IF Waiting(window[l]) THEN IfWaiting(window[l], "failed")
                                               ELSE IfWaiting(a, "failed")
            /\ window' = [window EXCEPT ![l] = None]
            /\ closing' = closing \ {window[l]}
            /\ UNCHANGED <<listening, queued>>
    /\ UNCHANGED <<attemptVars, seen, claimed, task, historyVars>>

AutoClose(a) ==
    /\ a \in closing
    /\ closing' = closing \ {a}
    /\ window' = [l \in Labels |-> IF window[l] = a THEN None ELSE window[l]]
    /\ WindowClosed(a)
    /\ UNCHANGED <<attemptVars, timer, seen, claimed, task, historyVars>>

(***************************************************************************)
(* The loopback callback.                                                  *)
(***************************************************************************)
\* The window is sent to the callback address, with a code or with an error.
Redirect(t, a, answer) ==
    /\ window["provider"] = a /\ a \in listening \ closing /\ NewTask(t)
    /\ seen' = seen \cup {a}
    /\ task' = [task EXCEPT ![t] = [at |-> answer, attempt |-> a, from |-> "callback"]]
    /\ UNCHANGED <<pending, attemptVars, listening, timer, window, closing, claimed, queued, historyVars>>

\* The result page is shown; five seconds later its window closes.
Answer(t) ==
    /\ task' = [task EXCEPT ![t] = Free]
    /\ closing' = IF task[t].attempt = window["provider"]
                  THEN closing \cup {task[t].attempt} ELSE closing

\* Mutant: a second callback is not told from the first.
Claim_Always(t) ==
    LET a == task[t].attempt IN
    /\ task[t].at \in {"code", "error"} /\ kind[a] = "oauth"
    /\ claimed' = claimed \cup {a}
    /\ \/ /\ task[t].at = "code" /\ Waiting(a)
          /\ task' = [task EXCEPT ![t].at = "exchange"]
          /\ UNCHANGED <<pending, listening, closing>>
       \/ /\ task[t].at = "error" \/ ~Waiting(a)
          /\ FailIfWaiting(a) /\ StopServer(a) /\ Answer(t)
    /\ UNCHANGED <<attemptVars, timer, window, seen, queued, historyVars>>

Claim(t) ==
    LET a == task[t].attempt IN
    /\ task[t].at \in {"code", "error"} /\ kind[a] = "oauth"
    /\ claimed' = claimed \cup {a}
    /\ IF a \in claimed
       THEN Answer(t) /\ UNCHANGED <<pending, listening>>
       ELSE \/ /\ task[t].at = "code" /\ Waiting(a)
               /\ task' = [task EXCEPT ![t].at = "exchange"]
               /\ UNCHANGED <<pending, listening, closing>>
            \/ /\ task[t].at = "error" \/ ~Waiting(a)
               /\ FailIfWaiting(a) /\ StopServer(a) /\ Answer(t)
    /\ UNCHANGED <<attemptVars, timer, window, seen, queued, historyVars>>

\* A failed exchange that used the code up all the same, or did not.
MaySpend(a) == spent' \in {spent, spent \cup {a}}

\* exchange_tokens: each of up to five tries first asks whether the attempt still
\* waits.  A connection that failed, and an answer that is late (a timeout, a 408 or a
\* 504), are worth another try; either may hide that the provider took the code.
Exchange(t) ==
    LET a == task[t].attempt IN
    /\ task[t].at = "exchange"
    /\ \/ /\ Waiting(a) /\ a \notin spent
          /\ spent' = spent \cup {a} /\ settled' = settled \cup {a}
          /\ task' = [task EXCEPT ![t].at = "identified"]
       \/ /\ Waiting(a)
          /\ MaySpend(a) /\ settled' = settled \cup {a}
          /\ task' = [task EXCEPT ![t].at = "refused"]
       \/ /\ Waiting(a)
          /\ MaySpend(a) /\ UNCHANGED settled
          /\ \E at \in {"exchange", "unreachable"} : task' = [task EXCEPT ![t].at = at]
       \/ /\ ~Waiting(a)
          /\ task' = [task EXCEPT ![t].at = "refused"]
          /\ UNCHANGED <<spent, settled>>
    /\ UNCHANGED <<pending, attemptVars, listening, timer, windowVars, claimed, queued, saved>>

\* The last check before the account is saved.
Identify(t) ==
    /\ task[t].at = "identified"
    /\ task' = [task EXCEPT ![t].at = IF Waiting(task[t].attempt) THEN "persist" ELSE "refused"]
    /\ UNCHANGED <<pending, attemptVars, listening, timer, windowVars, claimed, queued, historyVars>>

PersistCode(t) ==
    LET a == task[t].attempt IN
    /\ task[t].at = "persist" /\ task[t].from \in {"callback", "poll"}
    /\ \/ /\ saved' = saved \cup {a}
          /\ task' = [task EXCEPT ![t].at = "saved"]
       \/ /\ task' = [task EXCEPT ![t].at = "refused"]
          /\ UNCHANGED saved
    /\ UNCHANGED <<pending, attemptVars, listening, timer, windowVars, claimed, queued, spent, settled>>

\* Mutant: an attempt that was cancelled during the save stays failed.
FinishCode_IfWaiting(t) ==
    LET a == task[t].attempt IN
    /\ task[t].at = "saved" /\ task[t].from \in {"callback", "poll"}
    /\ pending' = IfWaiting(a, "complete")
    /\ IF task[t].from = "callback"
       THEN StopServer(a) /\ Answer(t)
       ELSE task' = [task EXCEPT ![t] = Free] /\ UNCHANGED <<listening, closing>>
    /\ UNCHANGED <<attemptVars, timer, window, seen, claimed, queued, historyVars>>

\* A saved account is reported even when the attempt was cancelled meanwhile.
FinishCode(t) ==
    LET a == task[t].attempt IN
    /\ task[t].at = "saved" /\ task[t].from \in {"callback", "poll"}
    /\ pending' = IF pending.attempt = a THEN [pending EXCEPT !.status = "complete"] ELSE pending
    /\ IF task[t].from = "callback"
       THEN StopServer(a) /\ Answer(t)
       ELSE task' = [task EXCEPT ![t] = Free] /\ UNCHANGED <<listening, closing>>
    /\ UNCHANGED <<attemptVars, timer, window, seen, claimed, queued, historyVars>>

\* Mutant: a failed callback leaves its server running.
ExchangeFails_KeepsServer(t) ==
    LET a == task[t].attempt IN
    /\ \/ task[t].at = "refused"
       \/ task[t].at = "unreachable" /\ (task[t].from = "poll" \/ ~Waiting(a))
    /\ FailIfWaiting(a)
    /\ IF task[t].from = "callback"
       THEN Answer(t) /\ UNCHANGED <<listening, queued>>
       ELSE AbortResources(a) /\ task' = [task EXCEPT ![t] = Free] /\ UNCHANGED closing
    /\ UNCHANGED <<attemptVars, timer, window, seen, claimed, historyVars>>

\* A poll restores nothing: its failure, retryable or not, is the attempt's.
ExchangeFails(t) ==
    LET a == task[t].attempt IN
    /\ \/ task[t].at = "refused"
       \/ task[t].at = "unreachable" /\ (task[t].from = "poll" \/ ~Waiting(a))
    /\ FailIfWaiting(a)
    /\ IF task[t].from = "callback"
       THEN StopServer(a) /\ Answer(t) /\ UNCHANGED queued
       ELSE AbortResources(a) /\ task' = [task EXCEPT ![t] = Free] /\ UNCHANGED closing
    /\ UNCHANGED <<attemptVars, timer, window, seen, claimed, historyVars>>

\* The provider could not be reached and the attempt waits: the code is kept for
\* the next status poll.  The check and the write do not share a lock.
KeepCode(t) ==
    /\ task[t].at = "unreachable" /\ task[t].from = "callback" /\ Waiting(task[t].attempt)
    /\ task' = [task EXCEPT ![t].at = "keep"]
    /\ UNCHANGED <<pending, attemptVars, listening, timer, windowVars, claimed, queued, historyVars>>

QueueCode(t) ==
    /\ task[t].at = "keep"
    /\ queued' = task[t].attempt
    /\ StopServer(task[t].attempt) /\ Answer(t)
    /\ UNCHANGED <<pending, attemptVars, timer, window, seen, claimed, historyVars>>

\* Mutant: a kept code is exchanged without asking whether the attempt waits.
Poll_Unchecked(t) ==
    /\ queued # None /\ NewTask(t)
    /\ \A u \in Tasks : task[u].from # "poll"
    /\ queued' = None
    /\ task' = [task EXCEPT ![t] = [at |-> "exchange", attempt |-> queued, from |-> "poll"]]
    /\ UNCHANGED <<pending, attemptVars, listening, timer, windowVars, claimed, historyVars>>

\* login_status: one poll at a time; it takes the kept code before it looks at
\* whether the attempt still waits.
Poll(t) ==
    /\ queued # None /\ NewTask(t)
    /\ \A u \in Tasks : task[u].from # "poll"
    /\ queued' = None
    /\ task' = IF Waiting(queued)
               THEN [task EXCEPT ![t] = [at |-> "exchange", attempt |-> queued, from |-> "poll"]]
               ELSE task
    /\ UNCHANGED <<pending, attemptVars, listening, timer, windowVars, claimed, historyVars>>

(***************************************************************************)
(* AI Studio's callback: it has no claim, and exchanges and saves the      *)
(* grant under the account's lock before it looks for the project.         *)
(***************************************************************************)
Granting == {t \in Tasks : task[t].at = "grant"}

StudioCallback(t) ==
    LET a == task[t].attempt IN
    /\ task[t].at \in {"code", "error"} /\ kind[a] = "studio"
    /\ \/ /\ task[t].at = "code" /\ Waiting(a) /\ Granting = {}
          /\ task' = [task EXCEPT ![t].at = "grant"]
          /\ UNCHANGED <<pending, listening, closing>>
       \/ /\ task[t].at = "error" \/ ~Waiting(a)
          /\ FailIfWaiting(a) /\ StopServer(a) /\ Answer(t)
    /\ UNCHANGED <<attemptVars, timer, window, seen, claimed, queued, historyVars>>

\* A code that was exchanged before is refused; a cancelled attempt saves nothing.
StudioGrant(t) ==
    LET a == task[t].attempt IN
    /\ task[t].at = "grant"
    /\ \/ /\ a \notin spent /\ Waiting(a)
          /\ spent' = spent \cup {a} /\ saved' = saved \cup {a}
          /\ task' = [task EXCEPT ![t].at = "project"]
          /\ UNCHANGED <<pending, listening, closing>>
       \/ /\ FailIfWaiting(a) /\ StopServer(a) /\ Answer(t)
          /\ MaySpend(a) /\ UNCHANGED saved
    /\ UNCHANGED <<attemptVars, timer, window, seen, claimed, queued, settled>>

\* Google does not tell the key's project, and lists several, page by page.
ChooseProject(a) == pending' = IfWaiting(a, "choose")

\* Google refuses, or cannot be reached, when it is asked for the project, whether its
\* monitoring is on, or to turn that on, which it is asked about for up to a minute.
ProjectFails(a) == FailIfWaiting(a)

StudioOutcome(t) ==
    LET a == task[t].attempt IN
    /\ task[t].at = "project"
    /\ ChooseProject(a) \/ ProjectFails(a)
    /\ StopServer(a) /\ Answer(t)
    /\ UNCHANGED <<attemptVars, timer, window, seen, claimed, queued, historyVars>>

\* One project: saving it panics (blocking_lock inside an async function), and
\* the request dies without an answer.
StudioPanics(t) ==
    /\ task[t].at = "project"
    /\ task' = [task EXCEPT ![t] = Free]
    /\ UNCHANGED <<pending, attemptVars, listening, timer, windowVars, claimed, queued, historyVars>>

(***************************************************************************)
(* Cookie sign-ins.  One capture at a time runs for an attempt.            *)
(***************************************************************************)
Captured(t, a) ==
    /\ window[kind[a]] = a /\ Waiting(a) /\ NewTask(t)
    /\ \A u \in Tasks : task[u].attempt # a
    /\ task' = [task EXCEPT ![t] = [at |-> "probe", attempt |-> a, from |-> "capture"]]
    /\ UNCHANGED <<pending, attemptVars, listening, timer, windowVars, claimed, queued, historyVars>>

\* Grok's thread polls the cookies until they change.
CaptureGrok(t, a) == kind[a] = "grok" /\ Captured(t, a)

\* OpenCode's are read when the Go page has loaded; again after a read that failed.
CaptureOpenCode(t, a) == kind[a] = "opencode" /\ Captured(t, a)

DismissCookieWindow(a) ==
    /\ window' = [l \in Labels |-> IF l \in Cookie /\ window[l] = a THEN None ELSE window[l]]
    /\ closing' = closing \ {a}

\* Nobody is signed in yet, or the service's answer was unreadable: captured again later.
NotSignedIn(t) ==
    /\ task[t].at = "probe"
    /\ task' = [task EXCEPT ![t] = Free]
    /\ UNCHANGED <<pending, attemptVars, listening, timer, windowVars, claimed, queued, historyVars>>

\* Grok asks after the probe, OpenCode after reading the cookie.
SignedIn(t) ==
    LET a == task[t].attempt IN
    /\ task[t].at = "probe"
    /\ task' = IF Waiting(a) THEN [task EXCEPT ![t].at = "persist"] ELSE [task EXCEPT ![t] = Free]
    /\ IF ~Waiting(a) /\ kind[a] = "grok"
       THEN DismissCookieWindow(a)
       ELSE UNCHANGED <<window, closing>>
    /\ UNCHANGED <<pending, attemptVars, listening, timer, seen, claimed, queued, historyVars>>

\* The account that signed in is updated, or added, with its session.
SaveSession(t) ==
    LET a == task[t].attempt IN
    /\ task[t].at = "persist" /\ task[t].from = "capture"
    /\ \/ /\ saved' = saved \cup {a}
          /\ task' = [task EXCEPT ![t].at = "saved"]
          /\ UNCHANGED <<pending, window, closing>>
       \/ /\ task' = [task EXCEPT ![t] = Free]
          /\ FailIfWaiting(a) /\ DismissCookieWindow(a)
          /\ UNCHANGED saved
    /\ UNCHANGED <<attemptVars, listening, timer, seen, claimed, queued, spent,
                   settled>>

\* A Grok account is the one its usage names, or the label; an OpenCode account is the
\* workspace of the page the user opened.
PersistGrok(t) == SaveSession(t) /\ kind[task[t].attempt] = "grok"
PersistOpenCode(t) == SaveSession(t) /\ kind[task[t].attempt] = "opencode"
PersistCookie(t) == PersistGrok(t) \/ PersistOpenCode(t)

\* The first refresh is over; the attempt is finished only if it still waits.
FinishCookie(t) ==
    LET a == task[t].attempt IN
    /\ task[t].at = "saved" /\ task[t].from = "capture"
    /\ task' = [task EXCEPT ![t] = Free]
    /\ pending' = IfWaiting(a, "complete")
    /\ closing' = IF Waiting(a) /\ window[kind[a]] = a THEN closing \cup {a} ELSE closing
    /\ UNCHANGED <<attemptVars, listening, timer, window, seen, claimed, queued, historyVars>>

\* The first refresh failed: OpenCode calls the sign-in failed; Grok does so only
\* when the account is gone from the store.
RefreshFails(t) ==
    LET a == task[t].attempt IN
    /\ task[t].at = "saved" /\ task[t].from = "capture"
    /\ task' = [task EXCEPT ![t] = Free]
    /\ saved' \in IF kind[a] = "grok" THEN {saved \ {a}} ELSE {saved, saved \ {a}}
    /\ FailIfWaiting(a) /\ DismissCookieWindow(a)
    /\ UNCHANGED <<attemptVars, listening, timer, seen, claimed, queued, spent,
                   settled>>

(***************************************************************************)
(* The specification.                                                      *)
(***************************************************************************)
StartStep(a) ==
    \/ BindFails(a) \/ Listen(a)
    \/ OpenWindow(a) \/ OpenFails(a) \/ OpenCookieWindow(a) \/ OpenCookieFails(a)

TaskStep(t) ==
    \/ SelectEnds(t) \/ Claim(t) \/ Exchange(t) \/ Identify(t) \/ PersistCode(t)
    \/ FinishCode(t) \/ ExchangeFails(t) \/ KeepCode(t) \/ QueueCode(t)
    \/ StudioCallback(t) \/ StudioGrant(t) \/ StudioOutcome(t) \/ StudioPanics(t)
    \/ NotSignedIn(t) \/ SignedIn(t) \/ PersistCookie(t) \/ FinishCookie(t) \/ RefreshFails(t)

TimerStep(a) == TimeOut(a) \/ GiveUp(a)

Environment ==
    \/ \E a \in Attempts : Cancel(a) \/ AutoClose(a) \/ \E k \in Kinds : Begin(a, k)
    \/ \E l \in Labels : CloseWindow(l) \/ Back(l)
    \/ \E t \in Tasks :
          \/ Poll(t)
          \/ \E a \in Attempts :
                \/ SelectProject(t, a) \/ CaptureGrok(t, a) \/ CaptureOpenCode(t, a)
                \/ \E answer \in {"code", "error"} : Redirect(t, a, answer)

Next ==
    \/ \E a \in Attempts : StartStep(a) \/ TimerStep(a)
    \/ \E t \in Tasks : TaskStep(t)
    \/ Environment

Spec == Init /\ [][Next]_vars

(***************************************************************************)
(* Properties.                                                             *)
(***************************************************************************)
Stages == {"free", "select", "code", "error", "exchange", "identified", "persist", "saved",
           "refused", "unreachable", "keep", "grant", "project", "probe"}

\* Every variable has its type; a login is pending exactly when it has an attempt, and
\* background work is some attempt's.
TypeOK ==
    /\ pending \in [attempt : Attempts \cup {None}, status : Statuses]
    /\ (pending.attempt = None) = (pending.status = "none")
    /\ kind \in [Attempts -> AllKinds \cup {None}]
    /\ start \in [Attempts -> {"unused", "bind", "open", "done"}]
    /\ timer \in [Attempts -> {"off", "armed", "due"}]
    /\ window \in [Labels -> Attempts \cup {None}]
    /\ {listening, seen, closing, claimed, saved, spent, settled} \subseteq SUBSET Attempts
    /\ queued \in Attempts \cup {None}
    /\ task \in [Tasks -> [at : Stages, attempt : Attempts \cup {None},
                           from : {"callback", "poll", "capture", "select", None}]]
    /\ \A t \in Tasks : task[t] # Free => task[t].attempt # None

\* An authorization code works once (mod.rs:63-65, CHANGELOG.md:913): no two requests
\* present one at a time, and none presents it again after the provider answered.  A
\* code whose answer was lost is presented again, spent or not: exchange.rs:6-7 takes it
\* for still good.  (A provider's sign-in: AI Studio's callback has no claim.)
CodeRetriedUnanswered ==
    /\ \A t, u \in Tasks :
          task[t].at = "exchange" /\ task[u].at \in {"exchange", "identified", "persist"}
             /\ task[t].attempt = task[u].attempt => t = u
    /\ \A t \in Tasks : task[t].at = "exchange" => task[t].attempt \notin settled

\* No exchange starts for an attempt that was cancelled, timed out or replaced, not
\* even for a code that a request put aside just after the cancel cleared it.
NoExchangeOnceEnded ==
    [][\A t \in Tasks :
          task[t].at # "exchange" /\ task'[t].at = "exchange" => Waiting(task'[t].attempt)]_vars

\* Nobody works on it any more, the account is there, and the login table still
\* shows the attempt: then it shows that it is connected (exchange.rs:190-199).
Reported(a) ==
    /\ a \in saved /\ pending.attempt = a /\ \A t \in Tasks : task[t].attempt # a
    => pending.status = "complete"

\* For browser sign-ins: an account that was saved is never reported as failed.
SavedIsReported == \A a \in Attempts : kind[a] = "oauth" => Reported(a)

(***************************************************************************)
(* The inductive invariant of the login table and of the background work.  *)
(***************************************************************************)
\* An attempt has a kind from its beginning on; only a browser's binds
\* a port, and one whose project is typed in has no timeout.
AttemptsBegan ==
    \A a \in Attempts :
        /\ start[a] = "unused" <=> kind[a] = None
        /\ start[a] = "bind" => kind[a] \in Browser
        /\ a \in saved => kind[a] # None
        /\ timer[a] # "off" => kind[a] \in Browser \cup Cookie

Bound(a) == start[a] \notin {"unused", "bind"}

\* A callback server is a browser sign-in's whose port is bound; a window is at the
\* label of its attempt.
ServersFit ==
    /\ \A a \in listening : kind[a] \in Browser /\ Bound(a)
    /\ \A l \in Labels : window[l] # None => kind[window[l]] # None /\ Label(window[l]) = l

\* What runs in the background is work of its attempt's kind.
WorkFits ==
    \A t \in Tasks : task[t] # Free =>
        LET a == task[t].attempt IN
        /\ a \in Attempts /\ Bound(a)
        /\ \/ /\ kind[a] = "oauth" /\ task[t].from \in {"callback", "poll"}
              /\ task[t].at \in {"code", "error", "exchange", "identified", "persist", "saved",
                                 "refused", "unreachable", "keep"}
           \/ /\ kind[a] = "studio" /\ task[t].from = "callback"
              /\ task[t].at \in {"code", "error", "grant", "project"}
           \/ /\ kind[a] \in Cookie /\ task[t].from = "capture"
              /\ task[t].at \in {"probe", "persist", "saved"}
           \/ kind[a] = "select" /\ task[t].from = "select" /\ task[t].at = "select"

HasCode(t) ==
    \/ task[t].at \in {"exchange", "identified", "unreachable", "keep"}
    \/ task[t].at = "persist" /\ task[t].from # "capture"

\* A code that was claimed is in the hands of one request or put aside for a poll,
\* and it got no answer before that; what a poll takes has no server any more.
CodesAreSingle ==
    /\ \A t, u \in Tasks :
          HasCode(t) /\ HasCode(u) /\ task[t].attempt = task[u].attempt => t = u
    /\ \A t \in Tasks : HasCode(t) =>
          /\ task[t].attempt \in claimed /\ task[t].attempt # queued
          /\ task[t].at \in {"exchange", "unreachable", "keep"} => task[t].attempt \notin settled
    /\ queued # None =>
          /\ kind[queued] = "oauth" /\ Bound(queued)
          /\ queued \in claimed /\ queued \notin settled /\ queued \notin listening
    /\ \A t \in Tasks : task[t].from = "poll" => task[t].attempt \notin listening
    /\ settled \subseteq claimed

\* A saved account that is not reported yet is about to be.
SavedShows ==
    \A a \in Attempts : kind[a] = "oauth" /\ a \in saved /\ pending.attempt = a =>
        \/ pending.status = "complete"
        \/ \E t \in Tasks : task[t].attempt = a /\ task[t].at = "saved"

LoginInv == AttemptsBegan /\ ServersFit /\ WorkFits /\ CodesAreSingle /\ SavedShows
=============================================================================
