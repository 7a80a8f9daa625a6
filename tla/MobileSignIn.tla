---------------------------- MODULE MobileSignIn ----------------------------
(***************************************************************************)
(* Sign-in attempts on a phone.  The app has one WebView, and a sign-in    *)
(* loads the provider's page into it, over the app's own page; on Android  *)
(* a sign-in with a browser's callback opens in the browser's tab instead, *)
(* when there is one.  Each attempt has a watch that polls the page or the *)
(* tab until the attempt ends and then brings the app back                 *)
(* (auth/mobile_auth.rs, auth/sign_in_tab.rs).                             *)
(*                                                                         *)
(* The login table, the callback server, the exchange and the cookie work  *)
(* are those of SignIn.  An app is built either for desktops or for        *)
(* phones; the initial state chooses, so that one run covers both builds.  *)
(* Google AI Studio's sign-in, which opens the system browser on a phone,  *)
(* is left to the desktop build.                                           *)
(***************************************************************************)
EXTENDS SignIn

VARIABLES
    build,      \* what the app was compiled for; an Android phone without a browser that
                \* has such tabs behaves like "ios"
    page,       \* the page in the WebView, and the attempt that brought it there
    watch,      \* each attempt's poll loop
    left,       \* left_app_shell: attempts whose watch saw another page than the app's
    taken,      \* intercept_started, capture_started
    result,     \* RESULT_PAGE: the result page was asked for since the last sign-in opened
    jar,        \* the attempt whose session the WebView's cookies hold, and those that
                \* began although it could not be cleared
    tab,        \* the attempt the newest browser tab was opened for, while it is there
    closed,     \* the attempt whose tab the user closed, until its watch reads it
    borrowed    \* history: attempts that captured another attempt's session

watchVars == <<watch, left, taken>>
webVars == <<page, result, jar>>
tabVars == <<tab, closed>>
mobileVars == <<build, webVars, watchVars, tabVars, borrowed>>
allVars == <<vars, mobileVars>>

MobileKinds == {"oauth", "grok", "opencode"}
AppPage == [at |-> "app", of |-> None]
Answers == {"code", "error"}

BuildInit ==
    /\ Init
    /\ build \in {"desktop", "android", "ios"}
    /\ page = AppPage /\ result = FALSE /\ jar = {}
    /\ watch = [a \in Attempts |-> "off"] /\ left = {} /\ taken = {}
    /\ tab = None /\ closed = {}
    /\ borrowed = {}

Current(a) == pending.attempt = a

\* The window loads a provider's page or the callback only while a sign-in is in
\* progress; the app's own page and the result page it made, always.
MayLoad(at) == at \in {"app", "result", "blank"} \/ InProgress

Load(at, a) ==
    /\ page' = IF MayLoad(at) THEN [at |-> at, of |-> a] ELSE page
    /\ result' = (result \/ (MayLoad(at) /\ at \in {"callback", "result"}))

ReturnToApp == page' = AppPage /\ UNCHANGED result

(***************************************************************************)
(* Opening the sign-in.                                                    *)
(***************************************************************************)
\* Mutant: the session of an earlier sign-in is left in the WebView.
ForgetSignIn_Not(a) == UNCHANGED jar

\* The cookies of the sign-in hosts are dropped; that may fail, which does not stop
\* the sign-in.
ForgetSignIn(a) == jar' \in {{}} \cup (IF jar = {} THEN {} ELSE {jar \cup {a}})

\* (The timeout of a browser sign-in was set when its server was.)
OpenInWebView(a) ==
    /\ start[a] = "open"
    /\ start' = [start EXCEPT ![a] = "done"]
    /\ timer' = IF kind[a] \in Cookie THEN [timer EXCEPT ![a] = "armed"] ELSE timer
    /\ watch' = [watch EXCEPT ![a] = "delay"]
    /\ result' = FALSE
    /\ ForgetSignIn(a)
    /\ UNCHANGED <<pending, kind, listening, windowVars, claimed, queued, task, historyVars>>
    /\ UNCHANGED <<build, page, left, taken, tabVars, borrowed>>

InTab(a) == build = "android" /\ kind[a] = "oauth"

\* The activity keeps track of the newest tab only.
OpenTab(a) ==
    /\ start[a] = "open" /\ InTab(a)
    /\ start' = [start EXCEPT ![a] = "done"]
    /\ watch' = [watch EXCEPT ![a] = "tab"]
    /\ tab' = a /\ closed' = {}
    /\ UNCHANGED <<pending, kind, listening, timer, windowVars, claimed, queued, task, historyVars>>
    /\ UNCHANGED <<build, webVars, left, taken, borrowed>>

MobileStart(a) ==
    \/ (BindFails(a) \/ Listen(a) \/ OpenFails(a) \/ OpenCookieFails(a)) /\ UNCHANGED mobileVars
    \/ ~InTab(a) /\ OpenInWebView(a)
    \/ OpenTab(a)

\* A phone's timeout has no window to close: it acts as soon as it has looked.
GiveUpWaiting(a) ==
    /\ timer[a] = "armed" /\ Waiting(a)
    /\ timer' = [timer EXCEPT ![a] = "off"]
    /\ FailIfWaiting(a)
    /\ IF kind[a] = "oauth" THEN AbortResources(a) ELSE UNCHANGED <<listening, queued>>
    /\ UNCHANGED <<attemptVars, windowVars, claimed, task, historyVars>>
    /\ UNCHANGED mobileVars

(***************************************************************************)
(* The watch of a sign-in in the WebView.                                  *)
(***************************************************************************)
WatchEnds(a) ==
    /\ watch' = [watch EXCEPT ![a] = "off"]
    /\ left' = left \ {a} /\ taken' = taken \ {a}

\* A quarter of a second later the page is loaded, if the attempt is still the
\* current one; that it no longer waits is left to the navigation guard.  When the
\* page cannot be loaded the attempt fails, and its callback server is left running.
Leave(a) ==
    /\ watch[a] = "delay"
    /\ \/ /\ Current(a)
          /\ watch' = [watch EXCEPT ![a] = "poll"]
          /\ Load("signin", a) /\ UNCHANGED <<pending, left, taken>>
       \/ /\ Current(a)
          /\ watch' = [watch EXCEPT ![a] = "failed"]
          /\ FailIfWaiting(a)
          /\ UNCHANGED <<page, result, left, taken>>
       \/ /\ ~Current(a)
          /\ WatchEnds(a) /\ UNCHANGED <<pending, page, result>>
    /\ UNCHANGED <<attemptVars, listening, timer, windowVars, claimed, queued, task, historyVars>>
    /\ UNCHANGED <<build, jar, tabVars, borrowed>>

Ended(a) == ~Waiting(a) \/ queued = a

\* A browser sign-in's callback server may have put its page up already.
ShowResult(a) ==
    /\ watch' = [watch EXCEPT ![a] = "hold"]
    /\ IF result THEN UNCHANGED <<page, result>> ELSE Load("result", a)
    /\ UNCHANGED <<left, taken>>

\* Mutant: the watch of a sign-in that failed just stops.
EndPoll_Stays(a) ==
    /\ watch[a] = "poll" /\ Ended(a)
    /\ IF Current(a) /\ pending.status = "complete"
       THEN ShowResult(a)
       ELSE WatchEnds(a) /\ UNCHANGED <<page, result>>
    /\ UNCHANGED <<vars, build, jar, tabVars, borrowed>>

\* The attempt is over, or its code waits for a status poll, which only the app's
\* page makes: the app comes back, after the result page if there is one to show.
\* The WebView of an attempt that was replaced is not touched.
EndPoll(a) ==
    /\ watch[a] = "poll" /\ Ended(a)
    /\ IF Current(a) /\ pending.status = "complete"
       THEN ShowResult(a)
       ELSE WatchEnds(a) /\ IF Current(a) THEN ReturnToApp ELSE UNCHANGED <<page, result>>
    /\ UNCHANGED <<vars, build, jar, tabVars, borrowed>>

\* Mutant: whose sign-in is on screen is not looked at.
HoldEnds_AnyPage(a) ==
    /\ watch[a] = "hold"
    /\ WatchEnds(a) /\ ReturnToApp
    /\ UNCHANGED <<vars, build, jar, tabVars, borrowed>>

\* Five seconds later, or earlier when the user left the page.
HoldEnds(a) ==
    /\ watch[a] = "hold"
    /\ WatchEnds(a)
    /\ IF Current(a) THEN ReturnToApp ELSE UNCHANGED <<page, result>>
    /\ UNCHANGED <<vars, build, jar, tabVars, borrowed>>

\* Google's single sign-on ends on about:blank: the sign-in page is loaded again.
Reload(a) ==
    /\ watch[a] = "poll" /\ ~Ended(a) /\ page.at = "blank"
    /\ Load("signin", a)
    /\ UNCHANGED vars
    /\ UNCHANGED <<build, jar, watchVars, tabVars, borrowed>>

\* The app's page again: the user left the sign-in, which is forgotten.
Abandon(a) ==
    /\ watch[a] = "poll" /\ ~Ended(a) /\ page.at = "app" /\ a \in left
    /\ WatchEnds(a)
    /\ ClearPending(a) /\ AbortResources(a)
    /\ UNCHANGED <<attemptVars, timer, windowVars, claimed, task, historyVars>>
    /\ UNCHANGED <<build, webVars, tabVars, borrowed>>

SeesPage(a) ==
    /\ watch[a] = "poll" /\ ~Ended(a) /\ page.at \notin {"app", "blank"}
    /\ left' = left \cup {a}

\* A page that needs nothing from the watch.
Notice(a) ==
    /\ SeesPage(a) /\ a \notin left
    /\ (page.at = "callback" \/ (kind[a] = "opencode" /\ page.at = "site") => a \in taken)
    /\ UNCHANGED vars
    /\ UNCHANGED <<build, webVars, watch, taken, tabVars, borrowed>>

\* A callback request; one that comes after the first was claimed is answered at
\* once and changes nothing.
Request(t, a, answer) ==
    IF a \in claimed
    THEN UNCHANGED task
    ELSE /\ NewTask(t)
         /\ task' = [task EXCEPT ![t] = [at |-> answer, attempt |-> a, from |-> "callback"]]

\* The watch reads the callback's query from the address, whether or not the
\* callback server gets the request too.
Intercept(t, a, answer) ==
    /\ SeesPage(a) /\ page.at = "callback" /\ a \notin taken
    /\ taken' = taken \cup {a}
    /\ Request(t, a, answer)
    /\ UNCHANGED <<pending, attemptVars, listening, timer, windowVars, claimed, queued, historyVars>>
    /\ UNCHANGED <<build, webVars, watch, tabVars, borrowed>>

(***************************************************************************)
(* The cookies of the WebView.  What they hold is told by the attempt that *)
(* signed in; an attempt reads the cookies of its own provider only.       *)
(***************************************************************************)
HasSession(a) == \E b \in jar : kind[b] = kind[a]

Read(t, a) ==
    /\ Waiting(a) /\ NewTask(t) /\ HasSession(a)
    /\ task' = [task EXCEPT ![t] = [at |-> "probe", attempt |-> a, from |-> "capture"]]
    /\ borrowed' = IF a \in jar THEN borrowed ELSE borrowed \cup {a}
    /\ UNCHANGED <<pending, attemptVars, listening, timer, windowVars, claimed, queued, historyVars>>

\* Grok's thread reads the cookies from the start, whatever page is shown, one
\* probe at a time.
PollCookies(t, a) ==
    /\ kind[a] = "grok" /\ start[a] = "done"
    /\ \A u \in Tasks : task[u].attempt # a
    /\ Read(t, a)
    /\ UNCHANGED <<build, webVars, watchVars, tabVars>>

\* OpenCode reads them when the watch sees the Go page; once, unless that fails.
CaptureOnPage(t, a) ==
    /\ SeesPage(a) /\ kind[a] = "opencode" /\ page.at = "site" /\ a \notin taken
    /\ Read(t, a)
    /\ taken' = taken \cup {a}
    /\ UNCHANGED <<build, webVars, watch, tabVars>>

\* Grok, signed in on the provider's account page only: the WebView is sent on to
\* the service's own page, whichever attempt it shows by now.
NotSignedInYet(t) ==
    /\ NotSignedIn(t)
    /\ IF kind[task[t].attempt] = "grok"
       THEN /\ \/ page.at = "signin" /\ kind[page.of] = "grok" /\ Load("site", page.of)
               \/ UNCHANGED <<page, result>>
            /\ UNCHANGED taken
       ELSE UNCHANGED <<page, result>> /\ taken' = taken \ {task[t].attempt}
    /\ UNCHANGED <<build, jar, watch, left, tabVars, borrowed>>

(***************************************************************************)
(* The watch of a sign-in in the browser's tab.                            *)
(***************************************************************************)
\* The app returns over the tab a little later, so that the user can read it; a
\* tab the user closed is not waited for.
TabEnds(a) ==
    /\ watch[a] = "tab" /\ Ended(a)
    /\ watch' = [watch EXCEPT ![a] = IF a \in closed THEN "off" ELSE "glance"]
    /\ closed' = closed \ {a}
    /\ UNCHANGED <<vars, build, webVars, left, taken, tab, borrowed>>

\* That the user closed the tab is read once.  After the provider's redirect the
\* attempt may finish without it; before, it is cancelled.
TabWasClosed(a) ==
    /\ watch[a] = "tab" /\ ~Ended(a) /\ a \in closed
    /\ closed' = closed \ {a}
    /\ IF a \in claimed
       THEN UNCHANGED <<pending, listening, queued, watchVars>>
       ELSE WatchEnds(a) /\ FailIfWaiting(a) /\ AbortResources(a)
    /\ UNCHANGED <<attemptVars, timer, windowVars, claimed, task, historyVars>>
    /\ UNCHANGED <<build, webVars, tab, borrowed>>

\* Tabs are numbered: the watch closes its own or none.
TabReturns(a) ==
    /\ watch[a] = "glance"
    /\ WatchEnds(a)
    /\ tab' = IF tab = a THEN None ELSE tab
    /\ closed' = closed \ {a}
    /\ UNCHANGED <<vars, build, webVars, borrowed>>

WatchStep(a) ==
    \/ Leave(a) \/ EndPoll(a) \/ HoldEnds(a)
    \/ Reload(a) \/ Abandon(a) \/ Notice(a)
    \/ TabEnds(a) \/ TabWasClosed(a) \/ TabReturns(a)
    \/ \E t \in Tasks :
          CaptureOnPage(t, a) \/ \E answer \in Answers : Intercept(t, a, answer)

(***************************************************************************)
(* The user and the provider's pages.                                      *)
(***************************************************************************)
OnProvider == page.at \in {"signin", "site"}

\* The Back button that the app puts on the provider's page: the watch sees the
\* fragment it sets, unless the attempt has ended by then.
GoBack(a) ==
    /\ watch[a] = "poll" /\ ~Ended(a) /\ OnProvider
    /\ WatchEnds(a) /\ ReturnToApp
    /\ FailIfWaiting(a) /\ AbortResources(a)
    /\ UNCHANGED <<attemptVars, timer, windowVars, claimed, task, historyVars>>
    /\ UNCHANGED <<build, jar, tabVars, borrowed>>

\* The provider's page goes on: to its site once somebody has signed in, or to an
\* empty page.
PageMoves ==
    /\ OnProvider /\ InProgress
    /\ \/ /\ kind[page.of] \in Cookie
          /\ jar' = {page.of}
          /\ \E at \in {"signin", "site"} : Load(at, page.of)
       \/ UNCHANGED jar /\ Load("blank", page.of)
    /\ UNCHANGED <<vars, build, watchVars, tabVars, borrowed>>

\* The provider redirects to the callback: the WebView asks the server for it.
PageRedirects(t, answer) ==
    LET a == page.of IN
    /\ page.at = "signin" /\ kind[a] = "oauth" /\ InProgress
    /\ Load("callback", a)
    /\ IF a \in listening THEN Request(t, a, answer) ELSE UNCHANGED task
    /\ UNCHANGED <<pending, attemptVars, listening, timer, windowVars, claimed, queued, historyVars>>
    /\ UNCHANGED <<build, jar, watchVars, tabVars, borrowed>>

\* (One request: the same callback asked for twice is the other builds'.)
TabRedirects(t, answer) ==
    /\ tab \in listening \ claimed /\ \A u \in Tasks : task[u].attempt # tab
    /\ Request(t, tab, answer)
    /\ UNCHANGED <<pending, attemptVars, listening, timer, windowVars, claimed, queued, historyVars>>
    /\ UNCHANGED mobileVars

\* The system's back gesture, or the result page's own button.
UserReturns ==
    /\ page.at # "app" /\ ReturnToApp
    /\ UNCHANGED <<vars, build, jar, watchVars, tabVars, borrowed>>

UserClosesTab ==
    /\ tab # None
    /\ closed' = closed \cup {tab} /\ tab' = None
    /\ UNCHANGED <<vars, build, webVars, watchVars, borrowed>>

\* The commands come from the app's page.
Command ==
    /\ page.at = "app"
    /\ \/ \E a \in Attempts : Cancel(a) \/ \E k \in Kinds \cap MobileKinds : Begin(a, k)
       \/ \E t \in Tasks : Poll(t)
    /\ UNCHANGED mobileVars

MobileEnvironment ==
    \/ Command \/ PageMoves \/ UserReturns \/ UserClosesTab
    \/ \E a \in Attempts : GoBack(a)
    \/ \E t \in Tasks :
          \/ \E answer \in Answers : PageRedirects(t, answer) \/ TabRedirects(t, answer)
          \/ \E a \in Attempts : PollCookies(t, a)

(***************************************************************************)
(* The specification.                                                      *)
(***************************************************************************)
MobileTask(t) ==
    IF task[t].at = "probe"
    THEN NotSignedInYet(t) \/ (SignedIn(t) /\ UNCHANGED mobileVars)
    ELSE TaskStep(t) /\ UNCHANGED mobileVars

StartOf(a) ==
    \/ build = "desktop" /\ StartStep(a) /\ UNCHANGED mobileVars
    \/ build # "desktop" /\ MobileStart(a)

TimerOf(a) ==
    \/ build = "desktop" /\ TimerStep(a) /\ UNCHANGED mobileVars
    \/ build # "desktop" /\ GiveUpWaiting(a)

TaskOf(t) ==
    \/ build = "desktop" /\ TaskStep(t) /\ UNCHANGED mobileVars
    \/ build # "desktop" /\ MobileTask(t)

EnvironmentOf ==
    \/ build = "desktop" /\ Environment /\ UNCHANGED mobileVars
    \/ build # "desktop" /\ MobileEnvironment

BuildNext ==
    \/ \E a \in Attempts : StartOf(a) \/ TimerOf(a) \/ WatchStep(a)
    \/ \E t \in Tasks : TaskOf(t)
    \/ EnvironmentOf

BuildSpec == BuildInit /\ [][BuildNext]_allVars

\* A timer that was set goes off, and a watch polls on until its loop ends.  The
\* user, the provider's pages and its answers owe nothing.
BuildFairness == \A a \in Attempts : WF_allVars(TimerOf(a)) /\ WF_allVars(WatchStep(a))

FairBuildSpec == BuildSpec /\ BuildFairness

(***************************************************************************)
(* Properties.                                                             *)
(***************************************************************************)
\* A watch that wakes up late, after its result page or its tab's last glance,
\* takes neither the page nor the tab from a newer sign-in that waits in it
\* (mobile_auth.rs:413-415, sign_in_tab.rs:143).
NewerSignInIsKept ==
    [][\A a, b \in Attempts :
          a # b /\ Waiting(b) /\ WatchStep(a)
             => (page.of = b => page' = page) /\ (tab = b => tab' = tab)]_allVars

\* Whatever ends an attempt that has a callback server (a cancel, a closed window or
\* tab, the Back button, leaving the page, the timeout, a failure, success) stops
\* the server too (CHANGELOG.md:913); only the sign-in page that could not be loaded
\* on a phone leaves it running.
ServerStops ==
    [][\A a \in listening :
          Waiting(a) /\ ~Waiting(a)' => a \notin listening' \/ watch'[a] = "failed"]_allVars

\* The app's page always comes back: no sign-in, however it ends, leaves the user
\* on a provider's page or on an empty one in the app's only window.
AppComesBack == page.at # "app" ~> page.at = "app"

\* The session that an attempt reads from the WebView and saves as its account is
\* one the user signed in to during that attempt, unless the cookies of the last
\* one could not be cleared (mobile_auth.rs:231-233).
SessionIsOwn == borrowed = {}

(***************************************************************************)
(* The inductive invariant of both builds.                                 *)
(***************************************************************************)
\* Every variable of a phone's sign-ins has its type.
MobileTypeOK ==
    /\ TypeOK
    /\ build \in {"desktop", "android", "ios"}
    /\ page \in [at : {"app", "signin", "site", "blank", "callback", "result"},
                 of : Attempts \cup {None}]
    /\ watch \in [Attempts -> {"off", "delay", "poll", "failed", "hold", "tab", "glance"}]
    /\ {left, taken, jar, closed, borrowed} \subseteq SUBSET Attempts
    /\ result \in BOOLEAN /\ tab \in Attempts \cup {None}

\* The WebView shows the app or a page of the attempt in the login table.
PagesAreOwn ==
    /\ page.at # "app" => page.of # None /\ (pending = NoLogin \/ pending.attempt = page.of)
    /\ page.at = "callback" => kind[page.of] = "oauth"

\* Only a phone has a WebView, watches and tabs, and it knows three kinds of sign-in.
BuildFits ==
    /\ \A a \in Attempts : watch[a] # "off" => build # "desktop" /\ start[a] = "done"
    /\ build = "desktop" => page = AppPage /\ jar = {}
    /\ build # "desktop" => \A a \in Attempts : kind[a] \in MobileKinds \cup {None}

\* While a cookie sign-in waits, the WebView's cookies are its own.
JarIsOwn ==
    \A a \in Attempts :
        Waiting(a) /\ start[a] = "done" /\ kind[a] \in Cookie /\ jar # {} => a \in jar

SignInInv == LoginInv /\ PagesAreOwn /\ BuildFits /\ JarIsOwn /\ SessionIsOwn
=============================================================================
