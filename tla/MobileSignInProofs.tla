------------------------- MODULE MobileSignInProofs -------------------------
(***************************************************************************)
(* What the sign-ins of both builds keep in every instance: the types, the *)
(* invariant of the login table and of the WebView, that a code is         *)
(* presented once, that a saved account is reported, that no attempt takes *)
(* another's session, and what no step does: exchange a code for an        *)
(* attempt that has ended, leave its callback server running, or take the  *)
(* page or the tab from a newer one.                                       *)
(*                                                                         *)
(* The invariant has a part for the login table (LoginInv), which every    *)
(* step of a desktop keeps, and one for the WebView, which only a phone's  *)
(* steps touch; each part has a lemma with one step per action.            *)
(***************************************************************************)
EXTENDS MobileSignIn, TLAPS

(* The providers' variants of a step differ only in whom they are for. *)
USE DEF ListenOAuth, ListenStudio, Listens, OpenGrok, OpenOpenCode, OpensPrivately,
        ChooseProject, ProjectFails, PersistGrok, PersistOpenCode, SaveSession

-----------------------------------------------------------------------------
(* Types.                                                                  *)

(* Every step of the login table keeps its types: one step per action. *)
LEMMA LoginTypes == ASSUME TypeOK, Next PROVE TypeOK'
<1> USE NumbersAssumption, KindsAssumption, NoneAssumption
    DEF attemptVars, windowVars, historyVars, Waiting, InProgress, IfWaiting,
        FailIfWaiting, ClearPending, StopServer, AbortResources, Answer, Free, NoLogin,
        Labels, Label, Cookie, Browser, AllKinds, NewTask, Answers, DismissCookieWindow
<1> USE DEF TypeOK, Statuses, Stages, NewAttempt
<1>1. ASSUME NEW a \in Attempts, NEW k \in Kinds, Begin(a, k) PROVE TypeOK'
  BY <1>1 DEF Begin
<1>2. ASSUME NEW a \in Attempts, BindFails(a) PROVE TypeOK'
  BY <1>2 DEF BindFails
<1>3. ASSUME NEW a \in Attempts, Listen(a) PROVE TypeOK'
  BY <1>3 DEF Listen
<1>4. ASSUME NEW a \in Attempts, OpenWindow(a) PROVE TypeOK'
  BY <1>4 DEF OpenWindow, Opened, WindowClosed
<1>5. ASSUME NEW a \in Attempts, OpenFails(a) PROVE TypeOK'
  BY <1>5 DEF OpenFails, NotOpened
<1>6. ASSUME NEW a \in Attempts, OpenCookieWindow(a) PROVE TypeOK'
  BY <1>6 DEF OpenCookieWindow, Opened, WindowClosed
<1>7. ASSUME NEW a \in Attempts, OpenCookieFails(a) PROVE TypeOK'
  BY <1>7 DEF OpenCookieFails, NotOpened
<1>8. ASSUME NEW a \in Attempts, TimeOut(a) PROVE TypeOK'
  BY <1>8 DEF TimeOut
<1>9. ASSUME NEW a \in Attempts, GiveUp(a) PROVE TypeOK'
  BY <1>9 DEF GiveUp
<1>10. ASSUME NEW a \in Attempts, Cancel(a) PROVE TypeOK'
  BY <1>10 DEF Cancel
<1>11. ASSUME NEW a \in Attempts, AutoClose(a) PROVE TypeOK'
  BY <1>11 DEF AutoClose, WindowClosed
<1>12. ASSUME NEW l \in Labels, CloseWindow(l) PROVE TypeOK'
  BY <1>12 DEF CloseWindow, WindowClosed
<1>13. ASSUME NEW l \in Labels, Back(l) PROVE TypeOK'
  BY <1>13 DEF Back
<1>14. ASSUME NEW t \in Tasks, NEW a \in Attempts, SelectProject(t, a) PROVE TypeOK'
  BY <1>14 DEF SelectProject
<1>15. ASSUME NEW t \in Tasks, NEW a \in Attempts, CaptureGrok(t, a) PROVE TypeOK'
  BY <1>15 DEF CaptureGrok, Captured
<1>16. ASSUME NEW t \in Tasks, NEW a \in Attempts, CaptureOpenCode(t, a) PROVE TypeOK'
  BY <1>16 DEF CaptureOpenCode, Captured
<1>17. ASSUME NEW t \in Tasks, NEW a \in Attempts, NEW answer \in Answers, Redirect(t, a, answer)
       PROVE  TypeOK'
  BY <1>17 DEF Redirect
<1>18. ASSUME NEW t \in Tasks, Poll(t) PROVE TypeOK'
  BY <1>18 DEF Poll
<1>19. ASSUME NEW t \in Tasks, SelectEnds(t) PROVE TypeOK'
  BY <1>19 DEF SelectEnds
<1>20. ASSUME NEW t \in Tasks, Claim(t) PROVE TypeOK'
  BY <1>20 DEF Claim
<1>21. ASSUME NEW t \in Tasks, Exchange(t) PROVE TypeOK'
  <2>1. spent' \subseteq Attempts /\ settled' \subseteq Attempts /\ saved' = saved
    BY <1>21 DEF Exchange, MaySpend
  <2> QED BY <1>21, <2>1 DEF Exchange
<1>22. ASSUME NEW t \in Tasks, Identify(t) PROVE TypeOK'
  BY <1>22 DEF Identify
<1>23. ASSUME NEW t \in Tasks, PersistCode(t) PROVE TypeOK'
  <2>1. saved' \subseteq Attempts /\ UNCHANGED <<spent, settled>>
    BY <1>23 DEF PersistCode
  <2> QED BY <1>23, <2>1 DEF PersistCode
<1>24. ASSUME NEW t \in Tasks, FinishCode(t) PROVE TypeOK'
  BY <1>24 DEF FinishCode
<1>25. ASSUME NEW t \in Tasks, ExchangeFails(t) PROVE TypeOK'
  BY <1>25 DEF ExchangeFails
<1>26. ASSUME NEW t \in Tasks, KeepCode(t) PROVE TypeOK'
  BY <1>26 DEF KeepCode
<1>27. ASSUME NEW t \in Tasks, QueueCode(t) PROVE TypeOK'
  BY <1>27 DEF QueueCode
<1>28. ASSUME NEW t \in Tasks, StudioCallback(t) PROVE TypeOK'
  BY <1>28 DEF StudioCallback
<1>29. ASSUME NEW t \in Tasks, StudioGrant(t) PROVE TypeOK'
  BY <1>29 DEF StudioGrant, MaySpend
<1>30. ASSUME NEW t \in Tasks, StudioOutcome(t) PROVE TypeOK'
  BY <1>30 DEF StudioOutcome
<1>31. ASSUME NEW t \in Tasks, StudioPanics(t) PROVE TypeOK'
  BY <1>31 DEF StudioPanics
<1>32. ASSUME NEW t \in Tasks, NotSignedIn(t) PROVE TypeOK'
  BY <1>32 DEF NotSignedIn
<1>33. ASSUME NEW t \in Tasks, SignedIn(t) PROVE TypeOK'
  BY <1>33 DEF SignedIn
<1>34. ASSUME NEW t \in Tasks, PersistCookie(t) PROVE TypeOK'
  BY <1>34 DEF PersistCookie
<1>35. ASSUME NEW t \in Tasks, FinishCookie(t) PROVE TypeOK'
  BY <1>35 DEF FinishCookie
<1>36. ASSUME NEW t \in Tasks, RefreshFails(t) PROVE TypeOK'
  BY <1>36 DEF RefreshFails
<1> HIDE DEF TypeOK
<1> QED
  BY <1>1, <1>2, <1>3, <1>4, <1>5, <1>6, <1>7, <1>8, <1>9, <1>10, <1>11, <1>12,
     <1>13, <1>14, <1>15, <1>16, <1>17, <1>18, <1>19, <1>20, <1>21, <1>22,
     <1>23, <1>24, <1>25, <1>26, <1>27, <1>28, <1>29, <1>30, <1>31, <1>32,
     <1>33, <1>34, <1>35, <1>36
     DEF Next, StartStep, TimerStep, TaskStep, Environment

(* What has begun stays begun. *)
LEMMA AttemptsStep ==
  ASSUME TypeOK, LoginInv, Next
  PROVE  AttemptsBegan'
<1> USE NumbersAssumption, KindsAssumption, NoneAssumption
    DEF attemptVars, windowVars, historyVars, Waiting, InProgress, IfWaiting,
        FailIfWaiting, ClearPending, StopServer, AbortResources, Answer, Free, NoLogin,
        Labels, Label, Cookie, Browser, AllKinds, NewTask, Answers, DismissCookieWindow
<1>0. /\ AttemptsBegan /\ WorkFits
      /\ kind \in [Attempts -> AllKinds \cup {None}] /\ saved \subseteq Attempts
      /\ start \in [Attempts -> {"unused", "bind", "open", "done"}]
      /\ timer \in [Attempts -> {"off", "armed", "due"}]
  BY DEF TypeOK, LoginInv
<1>1. CASE UNCHANGED <<kind, start, saved, timer>>
  BY <1>0, <1>1 DEF AttemptsBegan
<1>2. ASSUME NEW a \in Attempts, NEW k \in Kinds, Begin(a, k) PROVE AttemptsBegan'
  BY <1>2, <1>0 DEF Begin, AttemptsBegan, WorkFits, NewAttempt
<1>3. ASSUME NEW a \in Attempts, BindFails(a) PROVE AttemptsBegan'
  BY <1>3, <1>0 DEF BindFails, AttemptsBegan, WorkFits, NewAttempt
<1>4. ASSUME NEW a \in Attempts, Listen(a) PROVE AttemptsBegan'
  BY <1>4, <1>0 DEF Listen, AttemptsBegan, WorkFits, NewAttempt
<1>5. ASSUME NEW a \in Attempts, OpenWindow(a) PROVE AttemptsBegan'
  BY <1>5, <1>0
     DEF OpenWindow, Opened, WindowClosed, AttemptsBegan, WorkFits, NewAttempt
<1>6. ASSUME NEW a \in Attempts, OpenFails(a) PROVE AttemptsBegan'
  BY <1>6, <1>0 DEF OpenFails, NotOpened, AttemptsBegan, WorkFits, NewAttempt
<1>7. ASSUME NEW a \in Attempts, OpenCookieWindow(a) PROVE AttemptsBegan'
  BY <1>7, <1>0
     DEF OpenCookieWindow, Opened, WindowClosed, AttemptsBegan, WorkFits,
         NewAttempt
<1>8. ASSUME NEW a \in Attempts, OpenCookieFails(a) PROVE AttemptsBegan'
  BY <1>8, <1>0
     DEF OpenCookieFails, NotOpened, AttemptsBegan, WorkFits, NewAttempt
<1>9. ASSUME NEW a \in Attempts, TimeOut(a) PROVE AttemptsBegan'
  BY <1>9, <1>0 DEF TimeOut, AttemptsBegan, WorkFits, NewAttempt
<1>10. ASSUME NEW a \in Attempts, GiveUp(a) PROVE AttemptsBegan'
  BY <1>10, <1>0 DEF GiveUp, AttemptsBegan, WorkFits, NewAttempt
<1>11. ASSUME NEW t \in Tasks, NEW a \in Attempts, SelectProject(t, a)
       PROVE  AttemptsBegan'
  BY <1>11, <1>0 DEF SelectProject, AttemptsBegan, WorkFits, NewAttempt
<1>12. ASSUME NEW t \in Tasks, PersistCode(t) PROVE AttemptsBegan'
  BY <1>12, <1>0 DEF PersistCode, AttemptsBegan, WorkFits
<1>13. ASSUME NEW t \in Tasks, StudioGrant(t) PROVE AttemptsBegan'
  BY <1>13, <1>0 DEF StudioGrant, MaySpend, AttemptsBegan, WorkFits
<1>14. ASSUME NEW t \in Tasks, PersistCookie(t) PROVE AttemptsBegan'
  BY <1>14, <1>0 DEF PersistCookie, AttemptsBegan, WorkFits
<1>15. ASSUME NEW t \in Tasks, RefreshFails(t) PROVE AttemptsBegan'
  BY <1>15, <1>0 DEF RefreshFails, AttemptsBegan, WorkFits
<1>16. ASSUME NEW a \in Attempts,
              Cancel(a) \/ AutoClose(a)
       PROVE  UNCHANGED <<kind, start, saved, timer>>
  BY <1>16 DEF Cancel, AutoClose, WindowClosed
<1>17. ASSUME NEW l \in Labels,
              CloseWindow(l) \/ Back(l)
       PROVE  UNCHANGED <<kind, start, saved, timer>>
  BY <1>17 DEF CloseWindow, WindowClosed, Back
<1>18. ASSUME NEW t \in Tasks, NEW a \in Attempts,
              CaptureGrok(t, a) \/ CaptureOpenCode(t, a)
       PROVE  UNCHANGED <<kind, start, saved, timer>>
  BY <1>18 DEF CaptureGrok, Captured, CaptureOpenCode
<1>19. ASSUME NEW t \in Tasks, NEW a \in Attempts, NEW answer \in Answers, Redirect(t, a, answer)
       PROVE  UNCHANGED <<kind, start, saved, timer>>
  BY <1>19 DEF Redirect
<1>20. ASSUME NEW t \in Tasks,
              Poll(t) \/ SelectEnds(t) \/ Claim(t) \/ Exchange(t) \/ Identify(t) \/
              FinishCode(t) \/ ExchangeFails(t) \/ KeepCode(t) \/ QueueCode(t) \/
              StudioCallback(t) \/ StudioOutcome(t) \/ StudioPanics(t) \/
              NotSignedIn(t) \/ SignedIn(t) \/ FinishCookie(t)
       PROVE  UNCHANGED <<kind, start, saved, timer>>
  BY <1>20
     DEF Poll, SelectEnds, Claim, Exchange, Identify, FinishCode,
         ExchangeFails, KeepCode, QueueCode, StudioCallback, StudioOutcome,
         StudioPanics, NotSignedIn, SignedIn, FinishCookie
<1> QED
  BY <1>1, <1>2, <1>3, <1>4, <1>5, <1>6, <1>7, <1>8, <1>9, <1>10, <1>11, <1>12,
     <1>13, <1>14, <1>15, <1>16, <1>17, <1>18, <1>19, <1>20
     DEF Next, StartStep, TimerStep, TaskStep, Environment

(* Servers and windows stay with their attempts. *)
LEMMA ServersStep ==
  ASSUME TypeOK, LoginInv, Next
  PROVE  ServersFit'
<1> USE NumbersAssumption, KindsAssumption, NoneAssumption
    DEF attemptVars, windowVars, historyVars, Waiting, InProgress, IfWaiting,
        FailIfWaiting, ClearPending, StopServer, AbortResources, Answer, Free, NoLogin,
        Labels, Label, Cookie, Browser, AllKinds, NewTask, Answers, DismissCookieWindow
<1>0. /\ ServersFit /\ AttemptsBegan /\ listening \subseteq Attempts
      /\ kind \in [Attempts -> AllKinds \cup {None}] /\ window \in [Labels -> Attempts \cup {None}]
      /\ start \in [Attempts -> {"unused", "bind", "open", "done"}]
  BY DEF TypeOK, LoginInv
<1>1. CASE UNCHANGED <<kind, start, listening, window>>
  BY <1>0, <1>1 DEF ServersFit, Bound
<1>2. ASSUME NEW a \in Attempts, NEW k \in Kinds, Begin(a, k) PROVE ServersFit'
  BY <1>2, <1>0 DEF Begin, ServersFit, AttemptsBegan, NewAttempt, Bound
<1>3. ASSUME NEW a \in Attempts, BindFails(a) PROVE ServersFit'
  BY <1>3, <1>0 DEF BindFails, ServersFit, AttemptsBegan, NewAttempt, Bound
<1>4. ASSUME NEW a \in Attempts, Listen(a) PROVE ServersFit'
  <2> HIDE DEF Listens
  <2>1. Listens(a) /\ kind[a] \in Browser
    BY <1>4 DEF Listen
  <2> QED
    BY <2>1, <1>0 DEF Listens, ServersFit, AttemptsBegan, NewAttempt, Bound
<1>5. ASSUME NEW a \in Attempts, OpenWindow(a) PROVE ServersFit'
  BY <1>5, <1>0
     DEF OpenWindow, Opened, WindowClosed, ServersFit, AttemptsBegan,
         NewAttempt, Bound
<1>6. ASSUME NEW a \in Attempts, OpenFails(a) PROVE ServersFit'
  BY <1>6, <1>0
     DEF OpenFails, NotOpened, ServersFit, AttemptsBegan, NewAttempt, Bound
<1>7. ASSUME NEW a \in Attempts, OpenCookieWindow(a) PROVE ServersFit'
  BY <1>7, <1>0
     DEF OpenCookieWindow, Opened, WindowClosed, ServersFit, AttemptsBegan,
         NewAttempt, Bound
<1>8. ASSUME NEW a \in Attempts, OpenCookieFails(a) PROVE ServersFit'
  BY <1>8, <1>0
     DEF OpenCookieFails, NotOpened, ServersFit, AttemptsBegan, NewAttempt,
         Bound
<1>9. ASSUME NEW a \in Attempts, GiveUp(a) PROVE ServersFit'
  BY <1>9, <1>0 DEF GiveUp, ServersFit, AttemptsBegan, NewAttempt, Bound
<1>10. ASSUME NEW a \in Attempts, Cancel(a) PROVE ServersFit'
  BY <1>10, <1>0 DEF Cancel, ServersFit, AttemptsBegan, NewAttempt, Bound
<1>11. ASSUME NEW a \in Attempts, AutoClose(a) PROVE ServersFit'
  BY <1>11, <1>0
     DEF AutoClose, WindowClosed, ServersFit, AttemptsBegan, NewAttempt, Bound
<1>12. ASSUME NEW l \in Labels, CloseWindow(l) PROVE ServersFit'
  BY <1>12, <1>0
     DEF CloseWindow, WindowClosed, ServersFit, AttemptsBegan, NewAttempt,
         Bound
<1>13. ASSUME NEW l \in Labels, Back(l) PROVE ServersFit'
  BY <1>13, <1>0 DEF Back, ServersFit, AttemptsBegan, NewAttempt, Bound
<1>14. ASSUME NEW t \in Tasks, NEW a \in Attempts, SelectProject(t, a) PROVE ServersFit'
  BY <1>14, <1>0 DEF SelectProject, ServersFit, AttemptsBegan, NewAttempt, Bound
<1>15. ASSUME NEW t \in Tasks, Claim(t) PROVE ServersFit'
  BY <1>15, <1>0 DEF Claim, ServersFit, Bound
<1>16. ASSUME NEW t \in Tasks, FinishCode(t) PROVE ServersFit'
  BY <1>16, <1>0 DEF FinishCode, ServersFit, Bound
<1>17. ASSUME NEW t \in Tasks, ExchangeFails(t) PROVE ServersFit'
  BY <1>17, <1>0 DEF ExchangeFails, ServersFit, Bound
<1>18. ASSUME NEW t \in Tasks, QueueCode(t) PROVE ServersFit'
  BY <1>18, <1>0 DEF QueueCode, ServersFit, Bound
<1>19. ASSUME NEW t \in Tasks, StudioCallback(t) PROVE ServersFit'
  BY <1>19, <1>0 DEF StudioCallback, ServersFit, Bound
<1>20. ASSUME NEW t \in Tasks, StudioGrant(t) PROVE ServersFit'
  BY <1>20, <1>0 DEF StudioGrant, MaySpend, ServersFit, Bound
<1>21. ASSUME NEW t \in Tasks, StudioOutcome(t) PROVE ServersFit'
  BY <1>21, <1>0 DEF StudioOutcome, ServersFit, Bound
<1>22. ASSUME NEW t \in Tasks, SignedIn(t) PROVE ServersFit'
  BY <1>22, <1>0 DEF SignedIn, ServersFit, Bound
<1>23. ASSUME NEW t \in Tasks, PersistCookie(t) PROVE ServersFit'
  BY <1>23, <1>0 DEF PersistCookie, ServersFit, Bound
<1>24. ASSUME NEW t \in Tasks, RefreshFails(t) PROVE ServersFit'
  BY <1>24, <1>0 DEF RefreshFails, ServersFit, Bound
<1>25. ASSUME NEW a \in Attempts, TimeOut(a)
       PROVE  UNCHANGED <<kind, start, listening, window>>
  BY <1>25 DEF TimeOut
<1>26. ASSUME NEW t \in Tasks, NEW a \in Attempts,
              CaptureGrok(t, a) \/ CaptureOpenCode(t, a)
       PROVE  UNCHANGED <<kind, start, listening, window>>
  BY <1>26 DEF CaptureGrok, Captured, CaptureOpenCode
<1>27. ASSUME NEW t \in Tasks, NEW a \in Attempts, NEW answer \in Answers, Redirect(t, a, answer)
       PROVE  UNCHANGED <<kind, start, listening, window>>
  BY <1>27 DEF Redirect
<1>28. ASSUME NEW t \in Tasks,
              Poll(t) \/ SelectEnds(t) \/ Exchange(t) \/ Identify(t) \/
              PersistCode(t) \/ KeepCode(t) \/ StudioPanics(t) \/ NotSignedIn(t) \/
              FinishCookie(t)
       PROVE  UNCHANGED <<kind, start, listening, window>>
  BY <1>28
     DEF Poll, SelectEnds, Exchange, Identify, PersistCode, KeepCode,
         StudioPanics, NotSignedIn, FinishCookie
<1> QED
  BY <1>1, <1>2, <1>3, <1>4, <1>5, <1>6, <1>7, <1>8, <1>9, <1>10, <1>11, <1>12,
     <1>13, <1>14, <1>15, <1>16, <1>17, <1>18, <1>19, <1>20, <1>21, <1>22,
     <1>23, <1>24, <1>25, <1>26, <1>27, <1>28
     DEF Next, StartStep, TimerStep, TaskStep, Environment

(* What runs in the background goes on with its own work. *)
LEMMA WorkStep ==
  ASSUME TypeOK, LoginInv, Next
  PROVE  WorkFits'
<1> USE NumbersAssumption, KindsAssumption, NoneAssumption
    DEF attemptVars, windowVars, historyVars, Waiting, InProgress, IfWaiting,
        FailIfWaiting, ClearPending, StopServer, AbortResources, Answer, Free, NoLogin,
        Labels, Label, Cookie, Browser, AllKinds, NewTask, Answers, DismissCookieWindow
<1>0. /\ WorkFits /\ ServersFit /\ AttemptsBegan /\ CodesAreSingle
      /\ listening \subseteq Attempts /\ queued \in Attempts \cup {None}
      /\ kind \in [Attempts -> AllKinds \cup {None}]
      /\ start \in [Attempts -> {"unused", "bind", "open", "done"}]
      /\ task \in [Tasks -> [at : Stages, attempt : Attempts \cup {None},
                             from : {"callback", "poll", "capture", "select", None}]]
  BY DEF TypeOK, LoginInv
<1>1. CASE UNCHANGED <<kind, start, task>>
  BY <1>0, <1>1 DEF WorkFits, Bound
<1>2. ASSUME NEW a \in Attempts, NEW k \in Kinds, Begin(a, k) PROVE WorkFits'
  BY <1>2, <1>0 DEF Begin, WorkFits, AttemptsBegan, NewAttempt, Bound
<1>3. ASSUME NEW a \in Attempts, BindFails(a) PROVE WorkFits'
  BY <1>3, <1>0 DEF BindFails, WorkFits, AttemptsBegan, NewAttempt, Bound
<1>4. ASSUME NEW a \in Attempts, Listen(a) PROVE WorkFits'
  <2> HIDE DEF Listens
  <2>1. Listens(a) /\ kind[a] \in Browser
    BY <1>4 DEF Listen
  <2> QED
    BY <2>1, <1>0 DEF Listens, WorkFits, AttemptsBegan, NewAttempt, Bound
<1>5. ASSUME NEW a \in Attempts, OpenWindow(a) PROVE WorkFits'
  BY <1>5, <1>0
     DEF OpenWindow, Opened, WindowClosed, WorkFits, AttemptsBegan, NewAttempt,
         Bound
<1>6. ASSUME NEW a \in Attempts, OpenFails(a) PROVE WorkFits'
  BY <1>6, <1>0
     DEF OpenFails, NotOpened, WorkFits, AttemptsBegan, NewAttempt, Bound
<1>7. ASSUME NEW a \in Attempts, OpenCookieWindow(a) PROVE WorkFits'
  BY <1>7, <1>0
     DEF OpenCookieWindow, Opened, WindowClosed, WorkFits, AttemptsBegan,
         NewAttempt, Bound
<1>8. ASSUME NEW a \in Attempts, OpenCookieFails(a) PROVE WorkFits'
  BY <1>8, <1>0
     DEF OpenCookieFails, NotOpened, WorkFits, AttemptsBegan, NewAttempt, Bound
<1>9. ASSUME NEW t \in Tasks, NEW a \in Attempts, SelectProject(t, a) PROVE WorkFits'
  BY <1>9, <1>0 DEF SelectProject, WorkFits, AttemptsBegan, NewAttempt, Bound
<1>10. ASSUME NEW t \in Tasks, NEW a \in Attempts, CaptureGrok(t, a) PROVE WorkFits'
  BY <1>10, <1>0
     DEF CaptureGrok, Captured, WorkFits, AttemptsBegan, NewAttempt, Bound
<1>11. ASSUME NEW t \in Tasks, NEW a \in Attempts, CaptureOpenCode(t, a) PROVE WorkFits'
  BY <1>11, <1>0
     DEF CaptureOpenCode, Captured, WorkFits, AttemptsBegan, NewAttempt, Bound
<1>12. ASSUME NEW t \in Tasks, NEW a \in Attempts, NEW answer \in Answers,
             Redirect(t, a, answer)
      PROVE  WorkFits'
  <2>1. \A u \in Tasks :
          task'[u] = IF u = t THEN [at |-> answer, attempt |-> a, from |-> "callback"]
                              ELSE task[u]
    BY <1>12, <1>0 DEF Redirect
  <2>2. a \in listening /\ UNCHANGED <<kind, start>>
    BY <1>12 DEF Redirect
  <2>3. kind[a] \in Browser /\ Bound(a)
    BY <1>0, <2>2 DEF ServersFit
  <2>4. \A u \in Tasks : u # t => task'[u] = task[u]
    BY <2>1
  <2>5. /\ task'[t].attempt = a /\ task'[t].from = "callback" /\ task'[t].at \in Answers
        /\ a \in Attempts
    BY <2>1
  <2>6. \A u \in Tasks : u # t /\ task'[u] # Free => task[u] # Free
    BY <2>4
  <2>7. WorkFits
    BY <1>0
  <2> DEFINE Fits(u) ==
        LET b == task[u].attempt IN
        /\ b \in Attempts /\ Bound(b)
        /\ \/ /\ kind[b] = "oauth" /\ task[u].from \in {"callback", "poll"}
              /\ task[u].at \in {"code", "error", "exchange", "identified", "persist", "saved",
                                 "refused", "unreachable", "keep"}
           \/ /\ kind[b] = "studio" /\ task[u].from = "callback"
              /\ task[u].at \in {"code", "error", "grant", "project"}
           \/ /\ kind[b] \in Cookie /\ task[u].from = "capture"
              /\ task[u].at \in {"probe", "persist", "saved"}
           \/ kind[b] = "select" /\ task[u].from = "select" /\ task[u].at = "select"
  <2>8. \A u \in Tasks : task[u] # Free => Fits(u)
    BY <2>7 DEF WorkFits
  <2>9. Fits(t)'
    BY <2>2, <2>3, <2>5 DEF Bound
  <2>10. ASSUME NEW u \in Tasks, u # t, task'[u] # Free PROVE Fits(u)'
    BY <2>2, <2>4, <2>6, <2>8, <2>10 DEF Bound
  <2>11. \A u \in Tasks : task'[u] # Free => Fits(u)'
    BY <2>9, <2>10
  <2> QED BY <2>11 DEF WorkFits
<1>13. ASSUME NEW t \in Tasks, Poll(t) PROVE WorkFits'
  <2>1. CASE UNCHANGED task
    BY <1>13, <1>0, <2>1 DEF Poll, WorkFits, Bound
  <2>2. CASE task' = [task EXCEPT ![t] =
                        [at |-> "exchange", attempt |-> queued, from |-> "poll"]]
    <3>1. \A u \in Tasks :
            task'[u] = IF u = t THEN [at |-> "exchange", attempt |-> queued, from |-> "poll"]
                                ELSE task[u]
      BY <1>0, <2>2
    <3>2. queued \in Attempts /\ kind[queued] = "oauth" /\ Bound(queued)
      BY <1>13, <1>0 DEF Poll, CodesAreSingle
    <3>3. UNCHANGED <<kind, start>>
      BY <1>13 DEF Poll
    <3>4. \A u \in Tasks : u # t => task'[u] = task[u]
      BY <3>1
    <3>5. /\ task'[t].attempt = queued /\ task'[t].from = "poll"
          /\ task'[t].at = "exchange"
      BY <3>1
    <3> QED BY <1>0, <3>2, <3>3, <3>4, <3>5 DEF WorkFits, Bound
  <2> QED BY <1>13, <2>1, <2>2 DEF Poll
<1>14. ASSUME NEW t \in Tasks, SelectEnds(t) PROVE WorkFits'
  BY <1>14, <1>0 DEF SelectEnds, WorkFits, Bound
<1>15. ASSUME NEW t \in Tasks, Claim(t) PROVE WorkFits'
  BY <1>15, <1>0 DEF Claim, WorkFits, Bound
<1>16. ASSUME NEW t \in Tasks, Exchange(t) PROVE WorkFits'
  BY <1>16, <1>0 DEF Exchange, MaySpend, WorkFits, Bound
<1>17. ASSUME NEW t \in Tasks, Identify(t) PROVE WorkFits'
  BY <1>17, <1>0 DEF Identify, WorkFits, Bound
<1>18. ASSUME NEW t \in Tasks, PersistCode(t) PROVE WorkFits'
  BY <1>18, <1>0 DEF PersistCode, WorkFits, Bound
<1>19. ASSUME NEW t \in Tasks, FinishCode(t) PROVE WorkFits'
  BY <1>19, <1>0 DEF FinishCode, WorkFits, Bound
<1>20. ASSUME NEW t \in Tasks, ExchangeFails(t) PROVE WorkFits'
  BY <1>20, <1>0 DEF ExchangeFails, WorkFits, Bound
<1>21. ASSUME NEW t \in Tasks, KeepCode(t) PROVE WorkFits'
  BY <1>21, <1>0 DEF KeepCode, WorkFits, Bound
<1>22. ASSUME NEW t \in Tasks, QueueCode(t) PROVE WorkFits'
  BY <1>22, <1>0 DEF QueueCode, WorkFits, Bound
<1>23. ASSUME NEW t \in Tasks, StudioCallback(t) PROVE WorkFits'
  BY <1>23, <1>0 DEF StudioCallback, WorkFits, Bound
<1>24. ASSUME NEW t \in Tasks, StudioGrant(t) PROVE WorkFits'
  BY <1>24, <1>0 DEF StudioGrant, MaySpend, WorkFits, Bound
<1>25. ASSUME NEW t \in Tasks, StudioOutcome(t) PROVE WorkFits'
  BY <1>25, <1>0 DEF StudioOutcome, WorkFits, Bound
<1>26. ASSUME NEW t \in Tasks, StudioPanics(t) PROVE WorkFits'
  BY <1>26, <1>0 DEF StudioPanics, WorkFits, Bound
<1>27. ASSUME NEW t \in Tasks, NotSignedIn(t) PROVE WorkFits'
  BY <1>27, <1>0 DEF NotSignedIn, WorkFits, Bound
<1>28. ASSUME NEW t \in Tasks, SignedIn(t) PROVE WorkFits'
  BY <1>28, <1>0 DEF SignedIn, WorkFits, Bound
<1>29. ASSUME NEW t \in Tasks, PersistCookie(t) PROVE WorkFits'
  BY <1>29, <1>0 DEF PersistCookie, WorkFits, Bound
<1>30. ASSUME NEW t \in Tasks, FinishCookie(t) PROVE WorkFits'
  BY <1>30, <1>0 DEF FinishCookie, WorkFits, Bound
<1>31. ASSUME NEW t \in Tasks, RefreshFails(t) PROVE WorkFits'
  BY <1>31, <1>0 DEF RefreshFails, WorkFits, Bound
<1>32. ASSUME NEW a \in Attempts,
              TimeOut(a) \/ GiveUp(a) \/ Cancel(a) \/ AutoClose(a)
       PROVE  UNCHANGED <<kind, start, task>>
  BY <1>32 DEF TimeOut, GiveUp, Cancel, AutoClose, WindowClosed
<1>33. ASSUME NEW l \in Labels,
              CloseWindow(l) \/ Back(l)
       PROVE  UNCHANGED <<kind, start, task>>
  BY <1>33 DEF CloseWindow, WindowClosed, Back
<1> QED
  BY <1>1, <1>2, <1>3, <1>4, <1>5, <1>6, <1>7, <1>8, <1>9, <1>10, <1>11, <1>12,
     <1>13, <1>14, <1>15, <1>16, <1>17, <1>18, <1>19, <1>20, <1>21, <1>22,
     <1>23, <1>24, <1>25, <1>26, <1>27, <1>28, <1>29, <1>30, <1>31, <1>32,
     <1>33
     DEF Next, StartStep, TimerStep, TaskStep, Environment

(* A request that is over has no code any more. *)
LEMMA EndDropsCode ==
  ASSUME NEW t \in Tasks, listening \subseteq Attempts,
         \A u \in Tasks : task'[u] = IF u = t THEN Free ELSE task[u]
  PROVE  /\ \A u \in Tasks : HasCode(u)' <=> u # t /\ HasCode(u)
         /\ task'[t].attempt \notin listening
BY NoneAssumption DEF HasCode, Free

(* So it keeps the others' apart. *)
LEMMA EndKeepsCodes ==
  ASSUME CodesAreSingle, listening \subseteq Attempts, NEW t \in Tasks,
         \A u \in Tasks : task'[u] = IF u = t THEN Free ELSE task[u],
         UNCHANGED <<kind, start, queued, settled>>,
         claimed \subseteq claimed', listening' \subseteq listening
  PROVE  CodesAreSingle'
<1>1. \A u \in Tasks : HasCode(u)' <=> u # t /\ HasCode(u)
  BY EndDropsCode
<1>2. \A u \in Tasks : u # t => task'[u] = task[u]
  OBVIOUS
<1>3. \A u \in Tasks : task'[u].from = "poll" => task'[u].attempt \notin listening'
  BY <1>2, EndDropsCode DEF CodesAreSingle
<1> QED BY <1>1, <1>2, <1>3 DEF CodesAreSingle, Bound

(* No step hands a code to two requests. *)
LEMMA CodesStep ==
  ASSUME TypeOK, LoginInv, Next
  PROVE  CodesAreSingle'
<1> USE NumbersAssumption, KindsAssumption, NoneAssumption
    DEF attemptVars, windowVars, historyVars, Waiting, InProgress, IfWaiting,
        FailIfWaiting, ClearPending, StopServer, AbortResources, Answer, Free, NoLogin,
        Labels, Label, Cookie, Browser, AllKinds, NewTask, Answers, DismissCookieWindow
<1>0. /\ WorkFits /\ ServersFit /\ AttemptsBegan /\ CodesAreSingle
      /\ settled \subseteq Attempts /\ listening \subseteq Attempts /\ queued \in Attempts \cup {None}
      /\ kind \in [Attempts -> AllKinds \cup {None}]
      /\ start \in [Attempts -> {"unused", "bind", "open", "done"}]
      /\ task \in [Tasks -> [at : Stages, attempt : Attempts \cup {None},
                             from : {"callback", "poll", "capture", "select", None}]]
  BY DEF TypeOK, LoginInv
<1>1. CASE UNCHANGED <<kind, start, task, claimed, queued, settled, listening>>
  BY <1>0, <1>1 DEF CodesAreSingle, HasCode, Bound
<1>2. ASSUME NEW a \in Attempts, NEW k \in Kinds, Begin(a, k) PROVE CodesAreSingle'
  BY <1>2, <1>0
     DEF Begin, CodesAreSingle, HasCode, WorkFits, ServersFit, AttemptsBegan,
         NewAttempt, Bound
<1>3. ASSUME NEW a \in Attempts, BindFails(a) PROVE CodesAreSingle'
  BY <1>3, <1>0
     DEF BindFails, CodesAreSingle, HasCode, WorkFits, ServersFit,
         AttemptsBegan, NewAttempt, Bound
<1>4. ASSUME NEW a \in Attempts, Listen(a) PROVE CodesAreSingle'
  <2> HIDE DEF Listens
  <2>1. Listens(a) /\ kind[a] \in Browser
    BY <1>4 DEF Listen
  <2> QED
    BY <2>1, <1>0
       DEF Listens, CodesAreSingle, HasCode, WorkFits, ServersFit, AttemptsBegan,
           NewAttempt, Bound
<1>5. ASSUME NEW a \in Attempts, OpenWindow(a) PROVE CodesAreSingle'
  BY <1>5, <1>0
     DEF OpenWindow, Opened, WindowClosed, CodesAreSingle, HasCode, WorkFits,
         ServersFit, AttemptsBegan, NewAttempt, Bound
<1>6. ASSUME NEW a \in Attempts, OpenFails(a) PROVE CodesAreSingle'
  BY <1>6, <1>0
     DEF OpenFails, NotOpened, CodesAreSingle, HasCode, WorkFits, ServersFit,
         AttemptsBegan, NewAttempt, Bound
<1>7. ASSUME NEW a \in Attempts, OpenCookieWindow(a) PROVE CodesAreSingle'
  BY <1>7, <1>0
     DEF OpenCookieWindow, Opened, WindowClosed, CodesAreSingle, HasCode,
         WorkFits, ServersFit, AttemptsBegan, NewAttempt, Bound
<1>8. ASSUME NEW a \in Attempts, OpenCookieFails(a) PROVE CodesAreSingle'
  BY <1>8, <1>0
     DEF OpenCookieFails, NotOpened, CodesAreSingle, HasCode, WorkFits,
         ServersFit, AttemptsBegan, NewAttempt, Bound
<1>9. ASSUME NEW a \in Attempts, GiveUp(a) PROVE CodesAreSingle'
  BY <1>9, <1>0
     DEF GiveUp, CodesAreSingle, HasCode, WorkFits, ServersFit, AttemptsBegan,
         NewAttempt, Bound
<1>10. ASSUME NEW a \in Attempts, Cancel(a) PROVE CodesAreSingle'
  BY <1>10, <1>0
     DEF Cancel, CodesAreSingle, HasCode, WorkFits, ServersFit, AttemptsBegan,
         NewAttempt, Bound
<1>11. ASSUME NEW a \in Attempts, AutoClose(a) PROVE CodesAreSingle'
  BY <1>11, <1>0
     DEF AutoClose, WindowClosed, CodesAreSingle, HasCode, WorkFits,
         ServersFit, AttemptsBegan, NewAttempt, Bound
<1>12. ASSUME NEW l \in Labels, CloseWindow(l) PROVE CodesAreSingle'
  BY <1>12, <1>0
     DEF CloseWindow, WindowClosed, CodesAreSingle, HasCode, WorkFits,
         ServersFit, AttemptsBegan, NewAttempt, Bound
<1>13. ASSUME NEW l \in Labels, Back(l) PROVE CodesAreSingle'
  BY <1>13, <1>0
     DEF Back, CodesAreSingle, HasCode, WorkFits, ServersFit, AttemptsBegan,
         NewAttempt, Bound
<1>14. ASSUME NEW t \in Tasks, NEW a \in Attempts, SelectProject(t, a)
       PROVE  CodesAreSingle'
  BY <1>14, <1>0
     DEF SelectProject, CodesAreSingle, HasCode, WorkFits, ServersFit,
         AttemptsBegan, NewAttempt, Bound
<1>15. ASSUME NEW t \in Tasks, NEW a \in Attempts, CaptureGrok(t, a)
       PROVE  CodesAreSingle'
  BY <1>15, <1>0
     DEF CaptureGrok, Captured, CodesAreSingle, HasCode, WorkFits, ServersFit,
         AttemptsBegan, NewAttempt, Bound
<1>16. ASSUME NEW t \in Tasks, NEW a \in Attempts, CaptureOpenCode(t, a)
       PROVE  CodesAreSingle'
  BY <1>16, <1>0
     DEF CaptureOpenCode, Captured, CodesAreSingle, HasCode, WorkFits,
         ServersFit, AttemptsBegan, NewAttempt, Bound
<1>17. ASSUME NEW t \in Tasks, NEW a \in Attempts, NEW answer \in Answers, Redirect(t, a, answer)
       PROVE  CodesAreSingle'
  BY <1>17, <1>0
     DEF Redirect, CodesAreSingle, HasCode, WorkFits, ServersFit,
         AttemptsBegan, NewAttempt, Bound
<1>18. ASSUME NEW t \in Tasks, Poll(t) PROVE CodesAreSingle'
  BY <1>18, <1>0 DEF Poll, CodesAreSingle, HasCode, WorkFits, Bound
<1>19. ASSUME NEW t \in Tasks, SelectEnds(t) PROVE CodesAreSingle'
  <2>1. \A u \in Tasks : task'[u] = IF u = t THEN Free ELSE task[u]
    BY <1>19, <1>0 DEF SelectEnds
  <2>2. UNCHANGED <<kind, start, claimed, queued, settled, listening>>
    BY <1>19 DEF SelectEnds
  <2> QED BY <1>0, <2>1, <2>2, EndKeepsCodes
<1>20. ASSUME NEW t \in Tasks, Claim(t) PROVE CodesAreSingle'
  <2> DEFINE b == task[t].attempt
  <2>1. claimed' = claimed \cup {b} /\ UNCHANGED <<kind, start, queued, settled>>
        /\ listening' \subseteq listening
    BY <1>20 DEF Claim
  <2>2. CASE \A u \in Tasks : task'[u] = IF u = t THEN Free ELSE task[u]
    BY <1>0, <2>1, <2>2, EndKeepsCodes
  <2>3. CASE /\ b \notin claimed /\ kind[b] = "oauth"
             /\ \A u \in Tasks :
                  task'[u] = IF u = t THEN [task[t] EXCEPT !.at = "exchange"] ELSE task[u]
    <3>1. b \in Attempts /\ b \notin settled /\ b # queued
      BY <1>20, <1>0, <2>3 DEF CodesAreSingle, WorkFits, Claim
    <3>2. \A u \in Tasks : HasCode(u) => task[u].attempt # b
      BY <1>0, <2>3 DEF CodesAreSingle
    <3>3. HasCode(t)' /\ task'[t].attempt = b /\ task[t].from = task'[t].from
      BY <1>0, <2>3 DEF HasCode
    <3>4. \A u \in Tasks : u # t => (HasCode(u)' <=> HasCode(u)) /\ task'[u] = task[u]
      BY <2>3 DEF HasCode
    <3> QED
      BY <1>0, <2>1, <2>3, <3>1, <3>2, <3>3, <3>4
         DEF CodesAreSingle, Bound
  <2> QED BY <1>20, <1>0, <2>2, <2>3 DEF Claim
<1>21. ASSUME NEW t \in Tasks, Exchange(t) PROVE CodesAreSingle'
  BY <1>21, <1>0 DEF Exchange, MaySpend, CodesAreSingle, HasCode, WorkFits, Bound
<1>22. ASSUME NEW t \in Tasks, Identify(t) PROVE CodesAreSingle'
  BY <1>22, <1>0 DEF Identify, CodesAreSingle, HasCode, WorkFits, Bound
<1>23. ASSUME NEW t \in Tasks, PersistCode(t) PROVE CodesAreSingle'
  BY <1>23, <1>0 DEF PersistCode, CodesAreSingle, HasCode, WorkFits, Bound
<1>24. ASSUME NEW t \in Tasks, FinishCode(t) PROVE CodesAreSingle'
  BY <1>24, <1>0 DEF FinishCode, CodesAreSingle, HasCode, WorkFits, Bound
<1>25. ASSUME NEW t \in Tasks, ExchangeFails(t) PROVE CodesAreSingle'
  BY <1>25, <1>0 DEF ExchangeFails, CodesAreSingle, HasCode, WorkFits, Bound
<1>26. ASSUME NEW t \in Tasks, KeepCode(t) PROVE CodesAreSingle'
  BY <1>26, <1>0 DEF KeepCode, CodesAreSingle, HasCode, WorkFits, Bound
<1>27. ASSUME NEW t \in Tasks, QueueCode(t) PROVE CodesAreSingle'
  <2> DEFINE b == task[t].attempt
  <2>1. \A u \in Tasks : task'[u] = IF u = t THEN Free ELSE task[u]
    BY <1>27, <1>0 DEF QueueCode
  <2>2. queued' = b /\ listening' = listening \ {b} /\ UNCHANGED <<kind, start, claimed, settled>>
    BY <1>27 DEF QueueCode
  <2>3. HasCode(t) /\ task[t].at = "keep" /\ b \in Attempts /\ kind[b] = "oauth" /\ Bound(b)
    BY <1>27, <1>0 DEF QueueCode, HasCode, WorkFits
  <2>4. /\ b \in claimed /\ b \notin settled
        /\ \A u \in Tasks : HasCode(u) /\ task[u].attempt = b => u = t
    BY <1>0, <2>3 DEF CodesAreSingle
  <2>5. \A u \in Tasks : HasCode(u)' <=> u # t /\ HasCode(u)
    BY <1>0, <2>1, EndDropsCode
  <2>6. \A u \in Tasks : HasCode(u)' => task'[u].attempt # b
    BY <2>1, <2>4, <2>5
  <2>7. \A u \in Tasks : task'[u].from = "poll" => task'[u].attempt \notin listening'
    <3>1. task'[t].attempt \notin listening'
      BY <1>0, <2>1, <2>2, EndDropsCode
    <3>2. \A u \in Tasks : u # t => task'[u] = task[u]
      BY <2>1
    <3> QED BY <1>0, <2>2, <3>1, <3>2 DEF CodesAreSingle
  <2> QED
    BY <1>0, <2>1, <2>2, <2>3, <2>4, <2>5, <2>6, <2>7
       DEF CodesAreSingle, Bound
<1>28. ASSUME NEW t \in Tasks, StudioCallback(t) PROVE CodesAreSingle'
  BY <1>28, <1>0 DEF StudioCallback, CodesAreSingle, HasCode, WorkFits, Bound
<1>29. ASSUME NEW t \in Tasks, StudioGrant(t) PROVE CodesAreSingle'
  BY <1>29, <1>0 DEF StudioGrant, MaySpend, CodesAreSingle, HasCode, WorkFits, Bound
<1>30. ASSUME NEW t \in Tasks, StudioOutcome(t) PROVE CodesAreSingle'
  BY <1>30, <1>0 DEF StudioOutcome, CodesAreSingle, HasCode, WorkFits, Bound
<1>31. ASSUME NEW t \in Tasks, StudioPanics(t) PROVE CodesAreSingle'
  <2>1. \A u \in Tasks : task'[u] = IF u = t THEN Free ELSE task[u]
    BY <1>31, <1>0 DEF StudioPanics
  <2>2. UNCHANGED <<kind, start, claimed, queued, settled, listening>>
    BY <1>31 DEF StudioPanics
  <2> QED BY <1>0, <2>1, <2>2, EndKeepsCodes
<1>32. ASSUME NEW t \in Tasks, NotSignedIn(t) PROVE CodesAreSingle'
  <2>1. \A u \in Tasks : task'[u] = IF u = t THEN Free ELSE task[u]
    BY <1>32, <1>0 DEF NotSignedIn
  <2>2. UNCHANGED <<kind, start, claimed, queued, settled, listening>>
    BY <1>32 DEF NotSignedIn
  <2> QED BY <1>0, <2>1, <2>2, EndKeepsCodes
<1>33. ASSUME NEW t \in Tasks, SignedIn(t) PROVE CodesAreSingle'
  BY <1>33, <1>0 DEF SignedIn, CodesAreSingle, HasCode, WorkFits, Bound
<1>34. ASSUME NEW t \in Tasks, PersistCookie(t) PROVE CodesAreSingle'
  BY <1>34, <1>0 DEF PersistCookie, CodesAreSingle, HasCode, WorkFits, Bound
<1>35. ASSUME NEW t \in Tasks, FinishCookie(t) PROVE CodesAreSingle'
  BY <1>35, <1>0 DEF FinishCookie, CodesAreSingle, HasCode, WorkFits, Bound
<1>36. ASSUME NEW t \in Tasks, RefreshFails(t) PROVE CodesAreSingle'
  BY <1>36, <1>0 DEF RefreshFails, CodesAreSingle, HasCode, WorkFits, Bound
<1>37. ASSUME NEW a \in Attempts, TimeOut(a)
       PROVE  UNCHANGED <<kind, start, task, claimed, queued, settled, listening>>
  BY <1>37 DEF TimeOut
<1> QED
  BY <1>1, <1>2, <1>3, <1>4, <1>5, <1>6, <1>7, <1>8, <1>9, <1>10, <1>11, <1>12,
     <1>13, <1>14, <1>15, <1>16, <1>17, <1>18, <1>19, <1>20, <1>21, <1>22,
     <1>23, <1>24, <1>25, <1>26, <1>27, <1>28, <1>29, <1>30, <1>31, <1>32,
     <1>33, <1>34, <1>35, <1>36, <1>37
     DEF Next, StartStep, TimerStep, TaskStep, Environment

(* What is saved stays announced. *)
LEMMA SavedStep ==
  ASSUME TypeOK, LoginInv, Next
  PROVE  SavedShows'
<1> USE NumbersAssumption, KindsAssumption, NoneAssumption
    DEF attemptVars, windowVars, historyVars, Waiting, InProgress, IfWaiting,
        FailIfWaiting, ClearPending, StopServer, AbortResources, Answer, Free, NoLogin,
        Labels, Label, Cookie, Browser, AllKinds, NewTask, Answers, DismissCookieWindow
<1>0. /\ WorkFits /\ ServersFit /\ AttemptsBegan /\ SavedShows
      /\ pending \in [attempt : Attempts \cup {None}, status : Statuses]
      /\ listening \subseteq Attempts /\ queued \in Attempts \cup {None}
      /\ kind \in [Attempts -> AllKinds \cup {None}]
      /\ start \in [Attempts -> {"unused", "bind", "open", "done"}]
      /\ task \in [Tasks -> [at : Stages, attempt : Attempts \cup {None},
                             from : {"callback", "poll", "capture", "select", None}]]
  BY DEF TypeOK, LoginInv
<1>1. CASE UNCHANGED <<kind, saved, pending, task>>
  BY <1>0, <1>1 DEF SavedShows
<1>2. ASSUME NEW a \in Attempts, NEW k \in Kinds, Begin(a, k) PROVE SavedShows'
  <2>1. start[a] = "unused" /\ pending'.attempt = a /\ UNCHANGED <<saved, task>>
    BY <1>2 DEF Begin, NewAttempt
  <2>2. a \notin saved
    BY <1>0, <2>1 DEF AttemptsBegan
  <2> QED BY <2>1, <2>2 DEF SavedShows
<1>3. ASSUME NEW a \in Attempts, BindFails(a) PROVE SavedShows'
  BY <1>3, <1>0 DEF BindFails, SavedShows, WorkFits, AttemptsBegan, NewAttempt
<1>4. ASSUME NEW a \in Attempts, OpenWindow(a) PROVE SavedShows'
  BY <1>4, <1>0
     DEF OpenWindow, Opened, WindowClosed, SavedShows, WorkFits, AttemptsBegan,
         NewAttempt
<1>5. ASSUME NEW a \in Attempts, OpenFails(a) PROVE SavedShows'
  BY <1>5, <1>0
     DEF OpenFails, NotOpened, SavedShows, WorkFits, AttemptsBegan, NewAttempt
<1>6. ASSUME NEW a \in Attempts, OpenCookieWindow(a) PROVE SavedShows'
  BY <1>6, <1>0
     DEF OpenCookieWindow, Opened, WindowClosed, SavedShows, WorkFits,
         AttemptsBegan, NewAttempt
<1>7. ASSUME NEW a \in Attempts, OpenCookieFails(a) PROVE SavedShows'
  BY <1>7, <1>0
     DEF OpenCookieFails, NotOpened, SavedShows, WorkFits, AttemptsBegan,
         NewAttempt
<1>8. ASSUME NEW a \in Attempts, GiveUp(a) PROVE SavedShows'
  BY <1>8, <1>0 DEF GiveUp, SavedShows, WorkFits, AttemptsBegan, NewAttempt
<1>9. ASSUME NEW a \in Attempts, Cancel(a) PROVE SavedShows'
  <2>1. \/ UNCHANGED pending
        \/ pending.status \in {"waiting", "choose"} /\ pending'.attempt = pending.attempt
    BY <1>9, <1>0 DEF Cancel
  <2> QED BY <1>9, <1>0, <2>1 DEF Cancel, SavedShows
<1>10. ASSUME NEW a \in Attempts, AutoClose(a) PROVE SavedShows'
  BY <1>10, <1>0
     DEF AutoClose, WindowClosed, SavedShows, WorkFits, AttemptsBegan,
         NewAttempt
<1>11. ASSUME NEW l \in Labels, CloseWindow(l) PROVE SavedShows'
  BY <1>11, <1>0
     DEF CloseWindow, WindowClosed, SavedShows, WorkFits, AttemptsBegan,
         NewAttempt
<1>12. ASSUME NEW l \in Labels, Back(l) PROVE SavedShows'
  BY <1>12, <1>0 DEF Back, SavedShows, WorkFits, AttemptsBegan, NewAttempt
<1>13. ASSUME NEW t \in Tasks, NEW a \in Attempts, SelectProject(t, a) PROVE SavedShows'
  BY <1>13, <1>0
     DEF SelectProject, SavedShows, WorkFits, AttemptsBegan, NewAttempt
<1>14. ASSUME NEW t \in Tasks, NEW a \in Attempts, CaptureGrok(t, a) PROVE SavedShows'
  BY <1>14, <1>0
     DEF CaptureGrok, Captured, SavedShows, WorkFits, AttemptsBegan, NewAttempt
<1>15. ASSUME NEW t \in Tasks, NEW a \in Attempts, CaptureOpenCode(t, a)
       PROVE  SavedShows'
  BY <1>15, <1>0
     DEF CaptureOpenCode, Captured, SavedShows, WorkFits, AttemptsBegan,
         NewAttempt
<1>16. ASSUME NEW t \in Tasks, NEW a \in Attempts, NEW answer \in Answers,
             Redirect(t, a, answer)
      PROVE  SavedShows'
  <2>1. \A u \in Tasks : u # t => task'[u] = task[u]
    BY <1>16, <1>0 DEF Redirect
  <2>2. task[t] = Free /\ UNCHANGED <<kind, saved, pending>>
    BY <1>16 DEF Redirect
  <2>3. \A u \in Tasks : task[u].at = "saved" => task'[u] = task[u]
    <3>1. task[t].at # "saved"
      BY <2>2
    <3> QED BY <2>1, <3>1
  <2>4. SavedShows
    BY <1>0
  <2>5. SUFFICES ASSUME NEW b \in Attempts, (kind[b] = "oauth" /\ b \in saved)',
                        pending'.attempt = b, pending'.status # "complete"
                 PROVE  \E u \in Tasks : task'[u].attempt = b /\ task'[u].at = "saved"
    BY DEF SavedShows
  <2>6. PICK u \in Tasks : task[u].attempt = b /\ task[u].at = "saved"
    BY <2>2, <2>4, <2>5 DEF SavedShows
  <2> QED BY <2>3, <2>6
<1>17. ASSUME NEW t \in Tasks, Poll(t) PROVE SavedShows'
  BY <1>17, <1>0 DEF Poll, SavedShows, WorkFits
<1>18. ASSUME NEW t \in Tasks, SelectEnds(t) PROVE SavedShows'
  BY <1>18, <1>0 DEF SelectEnds, SavedShows, WorkFits
<1>19. ASSUME NEW t \in Tasks, Claim(t) PROVE SavedShows'
  BY <1>19, <1>0 DEF Claim, SavedShows, WorkFits
<1>20. ASSUME NEW t \in Tasks, Exchange(t) PROVE SavedShows'
  BY <1>20, <1>0 DEF Exchange, MaySpend, SavedShows, WorkFits
<1>21. ASSUME NEW t \in Tasks, Identify(t) PROVE SavedShows'
  BY <1>21, <1>0 DEF Identify, SavedShows, WorkFits
<1>22. ASSUME NEW t \in Tasks, PersistCode(t) PROVE SavedShows'
  BY <1>22, <1>0 DEF PersistCode, SavedShows, WorkFits
<1>23. ASSUME NEW t \in Tasks, FinishCode(t) PROVE SavedShows'
  BY <1>23, <1>0 DEF FinishCode, SavedShows, WorkFits
<1>24. ASSUME NEW t \in Tasks, ExchangeFails(t) PROVE SavedShows'
  BY <1>24, <1>0 DEF ExchangeFails, SavedShows, WorkFits
<1>25. ASSUME NEW t \in Tasks, KeepCode(t) PROVE SavedShows'
  BY <1>25, <1>0 DEF KeepCode, SavedShows, WorkFits
<1>26. ASSUME NEW t \in Tasks, QueueCode(t) PROVE SavedShows'
  <2>1. \A u \in Tasks : task'[u] = IF u = t THEN Free ELSE task[u]
    BY <1>26, <1>0 DEF QueueCode
  <2>2. task[t].at # "saved" /\ UNCHANGED <<kind, saved, pending>>
    BY <1>26 DEF QueueCode
  <2> QED BY <1>0, <2>1, <2>2 DEF SavedShows
<1>27. ASSUME NEW t \in Tasks, StudioCallback(t) PROVE SavedShows'
  BY <1>27, <1>0 DEF StudioCallback, SavedShows, WorkFits
<1>28. ASSUME NEW t \in Tasks, StudioGrant(t) PROVE SavedShows'
  BY <1>28, <1>0 DEF StudioGrant, MaySpend, SavedShows, WorkFits
<1>29. ASSUME NEW t \in Tasks, StudioOutcome(t) PROVE SavedShows'
  BY <1>29, <1>0 DEF StudioOutcome, SavedShows, WorkFits
<1>30. ASSUME NEW t \in Tasks, StudioPanics(t) PROVE SavedShows'
  <2>1. \A u \in Tasks : task'[u] = IF u = t THEN Free ELSE task[u]
    BY <1>30, <1>0 DEF StudioPanics
  <2>2. task[t].at # "saved" /\ UNCHANGED <<kind, saved, pending>>
    BY <1>30 DEF StudioPanics
  <2> QED BY <1>0, <2>1, <2>2 DEF SavedShows
<1>31. ASSUME NEW t \in Tasks, NotSignedIn(t) PROVE SavedShows'
  BY <1>31, <1>0 DEF NotSignedIn, SavedShows, WorkFits
<1>32. ASSUME NEW t \in Tasks, SignedIn(t) PROVE SavedShows'
  BY <1>32, <1>0 DEF SignedIn, SavedShows, WorkFits
<1>33. ASSUME NEW t \in Tasks, PersistCookie(t) PROVE SavedShows'
  <2> DEFINE a == task[t].attempt
  <2>1. a \in Attempts /\ kind[a] \in Cookie
    BY <1>33, <1>0 DEF PersistCookie, WorkFits
  <2>2. /\ UNCHANGED kind /\ saved' \subseteq saved \cup {a}
        /\ \A u \in Tasks \ {t} : task'[u] = task[u]
    BY <1>33, <1>0 DEF PersistCookie
  <2>3. pending' = pending \/ (pending.attempt = a /\ pending'.attempt = a)
    BY <1>33, <1>0 DEF PersistCookie
  <2>4. kind[a] # "oauth"
    BY <2>1 DEF Cookie
  <2> HIDE DEF a
  <2>5. ASSUME NEW b \in Attempts, kind'[b] = "oauth", b \in saved', pending'.attempt = b
        PROVE  \/ pending'.status = "complete"
               \/ \E u \in Tasks : task'[u].attempt = b /\ task'[u].at = "saved"
    <3>1. b # a /\ b \in saved /\ kind[b] = "oauth" /\ pending' = pending
      BY <2>2, <2>3, <2>4, <2>5
    <3>2. CASE \E u \in Tasks : task[u].attempt = b /\ task[u].at = "saved"
      <4>1. PICK u \in Tasks : task[u].attempt = b /\ task[u].at = "saved"
        BY <3>2
      <4>2. u # t
        BY <3>1, <4>1 DEF a
      <4> QED BY <2>2, <4>1, <4>2
    <3> QED BY <1>0, <2>5, <3>1, <3>2 DEF SavedShows
  <2> QED BY <2>5 DEF SavedShows
<1>34. ASSUME NEW t \in Tasks, FinishCookie(t) PROVE SavedShows'
  BY <1>34, <1>0 DEF FinishCookie, SavedShows, WorkFits
<1>35. ASSUME NEW t \in Tasks, RefreshFails(t) PROVE SavedShows'
  BY <1>35, <1>0 DEF RefreshFails, SavedShows, WorkFits
<1>36. ASSUME NEW a \in Attempts,
              Listen(a) \/ TimeOut(a)
       PROVE  UNCHANGED <<kind, saved, pending, task>>
  BY <1>36 DEF Listen, TimeOut
<1> QED
  BY <1>1, <1>2, <1>3, <1>4, <1>5, <1>6, <1>7, <1>8, <1>9, <1>10, <1>11, <1>12,
     <1>13, <1>14, <1>15, <1>16, <1>17, <1>18, <1>19, <1>20, <1>21, <1>22,
     <1>23, <1>24, <1>25, <1>26, <1>27, <1>28, <1>29, <1>30, <1>31, <1>32,
     <1>33, <1>34, <1>35, <1>36
     DEF Next, StartStep, TimerStep, TaskStep, Environment

(* Every step of the login table keeps its invariant. *)
LEMMA LoginStep == ASSUME TypeOK, LoginInv, Next PROVE TypeOK' /\ LoginInv'
BY LoginTypes, AttemptsStep, ServersStep, WorkStep, CodesStep, SavedStep
   DEF LoginInv

-----------------------------------------------------------------------------
(* What a phone does to the login table besides.                           *)

(* An attempt whose page or tab is opened. *)
LEMMA OpeningKeepsLogin ==
  ASSUME TypeOK, LoginInv, NEW a \in Attempts, start[a] = "open",
         start' = [start EXCEPT ![a] = "done"],
         timer' \in [Attempts -> {"off", "armed", "due"}],
         timer' = timer \/ (kind[a] \in Cookie /\ timer' = [timer EXCEPT ![a] = "armed"]),
         UNCHANGED <<pending, kind, listening, windowVars, claimed, queued, task, historyVars>>
  PROVE  TypeOK' /\ LoginInv'
<1> USE DEF windowVars, historyVars
<1>1. TypeOK'
  BY DEF TypeOK
<1>2. /\ \A b \in Attempts : \/ start'[b] = start[b]
                             \/ start[b] = "open" /\ start'[b] = "done"
      /\ \A b \in Attempts : Bound(b) => Bound(b)'
      /\ \A b \in Attempts : timer'[b] # "off" => timer[b] # "off" \/ kind[b] \in Cookie
  BY DEF TypeOK, Bound
<1>3. /\ queued \in Attempts \cup {None} /\ listening \subseteq Attempts
  BY DEF TypeOK
<1>4. AttemptsBegan'
  BY <1>2 DEF LoginInv, AttemptsBegan
<1>5. ServersFit'
  BY <1>2, <1>3 DEF LoginInv, ServersFit, Label
<1>6. WorkFits'
  BY <1>2 DEF LoginInv, WorkFits
<1>7. CodesAreSingle'
  BY <1>2, <1>3 DEF LoginInv, CodesAreSingle, HasCode
<1>8. SavedShows'
  BY DEF LoginInv, SavedShows
<1> QED BY <1>1, <1>4, <1>5, <1>6, <1>7, <1>8 DEF LoginInv

(* An attempt that is given up. *)
LEMMA GivingUpKeepsLogin ==
  ASSUME TypeOK, LoginInv, NEW a \in Attempts,
         pending' \in {pending, NoLogin, IfWaiting(a, "failed")},
         listening' \subseteq listening, queued' \in {queued, None},
         timer' \in [Attempts -> {"off", "armed", "due"}],
         \A b \in Attempts : timer'[b] # "off" => timer[b] # "off",
         UNCHANGED <<attemptVars, windowVars, claimed, task, historyVars>>
  PROVE  TypeOK' /\ LoginInv'
<1> USE DEF attemptVars, windowVars, historyVars
<1>1. TypeOK'
  BY NoneAssumption DEF TypeOK, IfWaiting, Waiting, NoLogin, Statuses
<1>2. AttemptsBegan'
  BY DEF LoginInv, AttemptsBegan
<1>3. ServersFit'
  BY DEF LoginInv, ServersFit, Label, Bound
<1>4. WorkFits'
  BY DEF LoginInv, WorkFits, Bound
<1>5. CodesAreSingle'
  <2>1. \A t \in Tasks : HasCode(t)' <=> HasCode(t)
    BY DEF HasCode
  <2>2. \A t \in Tasks : HasCode(t) => task[t].attempt # None
    BY DEF TypeOK, HasCode, Free
  <2> QED BY <2>1, <2>2 DEF LoginInv, CodesAreSingle, Bound
<1>6. SavedShows'
  <2>1. \/ UNCHANGED pending
        \/ pending'.attempt = None
        \/ pending.status = "waiting" /\ pending'.attempt = pending.attempt
    BY DEF TypeOK, IfWaiting, Waiting, NoLogin
  <2> QED BY <2>1, NoneAssumption DEF LoginInv, SavedShows
<1> QED BY <1>1, <1>2, <1>3, <1>4, <1>5, <1>6 DEF LoginInv

(* A callback or a capture that begins. *)
LEMMA BeginningKeepsLogin ==
  ASSUME TypeOK, LoginInv, NEW t \in Tasks, NEW a \in Attempts, NEW at, NEW from,
         NewTask(t), task' = [task EXCEPT ![t] = [at |-> at, attempt |-> a, from |-> from]],
         Bound(a),
         \/ kind[a] \in Browser /\ at \in Answers /\ from = "callback"
         \/ kind[a] \in Cookie /\ at = "probe" /\ from = "capture",
         UNCHANGED <<pending, attemptVars, listening, timer, windowVars, claimed, queued,
                     historyVars>>
  PROVE  TypeOK' /\ LoginInv'
<1> USE DEF attemptVars, windowVars, historyVars
<1>1. /\ \A u \in Tasks : u # t => task'[u] = task[u]
      /\ task'[t] = [at |-> at, attempt |-> a, from |-> from]
      /\ task[t] = Free
  BY DEF TypeOK, NewTask
<1>2. TypeOK'
  BY NoneAssumption DEF TypeOK, Stages, Answers
<1>3. AttemptsBegan'
  BY DEF LoginInv, AttemptsBegan
<1>4. ServersFit'
  BY DEF LoginInv, ServersFit, Label, Bound
<1>5. WorkFits'
  BY <1>1 DEF LoginInv, WorkFits, Bound, Answers, Browser
<1>6. CodesAreSingle'
  <2>1. \A u \in Tasks : HasCode(u)' <=> HasCode(u) /\ u # t
    BY <1>1 DEF HasCode, Answers, Free
  <2>2. from # "poll"
    OBVIOUS
  <2> QED BY <1>1, <2>1, <2>2 DEF LoginInv, CodesAreSingle, Bound
<1>7. SavedShows'
  BY <1>1 DEF LoginInv, SavedShows, Free
<1> QED BY <1>2, <1>3, <1>4, <1>5, <1>6, <1>7 DEF LoginInv

(* Every step of either build keeps the invariant of the login table. *)
LEMMA BuildKeepsLogin ==
  ASSUME MobileTypeOK, SignInInv, [BuildNext]_allVars
  PROVE  TypeOK' /\ LoginInv'
<1>0. /\ TypeOK /\ LoginInv /\ PagesAreOwn /\ BuildFits
      /\ page.of \in Attempts \cup {None} /\ tab \in Attempts \cup {None}
  BY DEF MobileTypeOK, SignInInv
<1> USE DEF mobileVars, watchVars, webVars, tabVars
<1>1. CASE Next
  BY <1>0, <1>1, LoginStep
<1>2. CASE UNCHANGED vars
  BY <1>0, <1>2 DEF TypeOK, LoginInv, AttemptsBegan, ServersFit, WorkFits, CodesAreSingle,
     SavedShows, HasCode, Bound, Label, vars, attemptVars, windowVars, historyVars
<1>3. ASSUME NEW a \in Attempts,
             OpenInWebView(a) \/ OpenTab(a)
      PROVE  TypeOK' /\ LoginInv'
  <2>1. /\ start[a] = "open" /\ start' = [start EXCEPT ![a] = "done"]
        /\ UNCHANGED <<pending, kind, listening, windowVars, claimed, queued, task, historyVars>>
        /\ timer' \in [Attempts -> {"off", "armed", "due"}]
        /\ timer' = timer \/ (kind[a] \in Cookie /\ timer' = [timer EXCEPT ![a] = "armed"])
    BY <1>0, <1>3 DEF OpenInWebView, OpenTab, TypeOK
  <2> QED BY <1>0, <2>1, OpeningKeepsLogin
<1>4. ASSUME NEW a \in Attempts,
             GiveUpWaiting(a) \/ Leave(a) \/ Abandon(a) \/ TabWasClosed(a) \/ GoBack(a)
      PROVE  TypeOK' /\ LoginInv'
  <2>1. /\ pending' \in {pending, NoLogin, IfWaiting(a, "failed")}
        /\ listening' \subseteq listening /\ queued' \in {queued, None}
        /\ timer' \in [Attempts -> {"off", "armed", "due"}]
        /\ \A b \in Attempts : timer'[b] # "off" => timer[b] # "off"
        /\ UNCHANGED <<attemptVars, windowVars, claimed, task, historyVars>>
    BY <1>0, <1>4 DEF GiveUpWaiting, Leave, Abandon, TabWasClosed, GoBack, FailIfWaiting,
       ClearPending, AbortResources, StopServer, attemptVars, TypeOK
  <2> QED BY <1>0, <2>1, GivingUpKeepsLogin
<1>5. ASSUME NEW t \in Tasks, NEW a \in Attempts, Read(t, a), kind[a] \in Cookie,
             start[a] = "done"
      PROVE  TypeOK' /\ LoginInv'
  BY <1>0, <1>5, BeginningKeepsLogin DEF Read, Bound
<1>6. ASSUME NEW t \in Tasks, NEW a \in Attempts,
             CaptureOnPage(t, a) \/ PollCookies(t, a)
      PROVE  TypeOK' /\ LoginInv'
  <2>1. Read(t, a) /\ kind[a] \in Cookie /\ start[a] = "done"
    BY <1>0, <1>6 DEF CaptureOnPage, PollCookies, SeesPage, Cookie, BuildFits
  <2> QED BY <1>5, <2>1
<1>7. ASSUME NEW t \in Tasks, NEW a \in Attempts, NEW answer \in Answers,
             Request(t, a, answer), kind[a] \in Browser, Bound(a),
             UNCHANGED <<pending, attemptVars, listening, timer, windowVars, claimed, queued,
                         historyVars>>
      PROVE  TypeOK' /\ LoginInv'
  <2>1. CASE UNCHANGED task
    BY <1>2, <1>7, <2>1 DEF vars
  <2>2. CASE /\ NewTask(t)
             /\ task' = [task EXCEPT ![t] = [at |-> answer, attempt |-> a, from |-> "callback"]]
    BY <1>0, <1>7, <2>2, BeginningKeepsLogin
  <2> QED BY <1>7, <2>1, <2>2 DEF Request
<1>8. ASSUME NEW t \in Tasks, NEW a \in Attempts, NEW answer \in Answers,
             Intercept(t, a, answer)
      PROVE  TypeOK' /\ LoginInv'
  <2>1. page.at = "callback" /\ Waiting(a) /\ start[a] = "done"
    BY <1>0, <1>8 DEF Intercept, SeesPage, Ended, BuildFits
  <2>2. page.of = a /\ kind[a] = "oauth"
    BY <1>0, <2>1, NoneAssumption DEF PagesAreOwn, Waiting, NoLogin
  <2> QED BY <1>7, <1>8, <2>1, <2>2 DEF Intercept, Bound, Browser
<1>9. ASSUME NEW t \in Tasks, NEW answer \in Answers,
             PageRedirects(t, answer) \/ TabRedirects(t, answer)
      PROVE  TypeOK' /\ LoginInv'
  <2>1. PICK a \in Attempts \cup {None} :
          \/ a \notin listening /\ UNCHANGED task
          \/ a \in listening /\ Request(t, a, answer)
    BY <1>0, <1>9 DEF PageRedirects, TabRedirects
  <2>2. /\ UNCHANGED <<pending, attemptVars, listening, timer, windowVars, claimed, queued,
                       historyVars>>
        /\ a \in listening => a \in Attempts /\ kind[a] \in Browser /\ Bound(a)
    BY <1>0, <1>9 DEF PageRedirects, TabRedirects, LoginInv, ServersFit, TypeOK
  <2> QED BY <1>2, <1>7, <2>1, <2>2 DEF vars
<1>10. CASE \/ \E a \in Attempts : \/ EndPoll(a) \/ HoldEnds(a) \/ Reload(a) \/ Notice(a)
                                   \/ TabEnds(a) \/ TabReturns(a)
            \/ PageMoves \/ UserReturns \/ UserClosesTab
  BY <1>2, <1>10 DEF EndPoll, HoldEnds, Reload, Notice, TabEnds, TabReturns, PageMoves,
     UserReturns, UserClosesTab
<1>11. CASE Command
  BY <1>1, <1>11 DEF Command, Next, Environment
<1>12. ASSUME NEW t \in Tasks, TaskStep(t) \/ NotSignedInYet(t) \/ SignedIn(t)
       PROVE  TypeOK' /\ LoginInv'
  BY <1>1, <1>12 DEF NotSignedInYet, Next, TaskStep
<1>13. ASSUME NEW a \in Attempts,
              StartStep(a) \/ TimerStep(a)
       PROVE  TypeOK' /\ LoginInv'
  BY <1>1, <1>13 DEF Next
<1>14. ASSUME NEW a \in Attempts, MobileStart(a) PROVE TypeOK' /\ LoginInv'
  BY <1>3, <1>13, <1>14 DEF MobileStart, StartStep
<1>15. ASSUME NEW a \in Attempts, WatchStep(a) PROVE TypeOK' /\ LoginInv'
  BY <1>4, <1>6, <1>8, <1>10, <1>15 DEF WatchStep
<1>16. CASE MobileEnvironment
  BY <1>4, <1>6, <1>9, <1>10, <1>11, <1>16 DEF MobileEnvironment
<1>17. CASE Environment
  BY <1>1, <1>17 DEF Next
<1> QED
  BY <1>2, <1>4, <1>12, <1>13, <1>14, <1>15, <1>16, <1>17
  DEF BuildNext, StartOf, TimerOf, TaskOf, EnvironmentOf, MobileTask, allVars

(* What only happens on a phone. *)
PhoneStep ==
    \/ \E a \in Attempts :
          \/ build # "desktop" /\ (OpenInWebView(a) \/ OpenTab(a) \/ GiveUpWaiting(a) \/ GoBack(a))
          \/ Leave(a) \/ EndPoll(a) \/ HoldEnds(a) \/ Reload(a) \/ Abandon(a) \/ Notice(a)
          \/ TabEnds(a) \/ TabWasClosed(a) \/ TabReturns(a)
          \/ \E t \in Tasks :
                \/ CaptureOnPage(t, a) \/ (build # "desktop" /\ PollCookies(t, a))
                \/ \E answer \in Answers : Intercept(t, a, answer)
    \/ /\ build # "desktop"
       /\ \/ PageMoves \/ UserReturns \/ UserClosesTab
          \/ \E t \in Tasks :
                \/ NotSignedInYet(t)
                \/ \E answer \in Answers : PageRedirects(t, answer) \/ TabRedirects(t, answer)

(* Every step of a phone keeps its types. *)
LEMMA PhoneTypes ==
  ASSUME MobileTypeOK, SignInInv, PhoneStep, TypeOK'
  PROVE  MobileTypeOK'
<1> USE NoneAssumption
    DEF vars, mobileVars, attemptVars, windowVars, historyVars, watchVars, webVars,
        tabVars, Waiting, InProgress, IfWaiting, FailIfWaiting, ClearPending, StopServer, AbortResources,
        NoLogin, Current, Ended, Load, MayLoad, ReturnToApp, AppPage, WatchEnds, SeesPage,
        ShowResult, ForgetSignIn, OnProvider, Cookie, MobileKinds
<1>0. MobileTypeOK /\ PagesAreOwn /\ TypeOK'
  BY DEF SignInInv
<1>1. ASSUME NEW a \in Attempts, build # "desktop", OpenInWebView(a) PROVE MobileTypeOK'
  <2>1. jar' \subseteq Attempts
    BY <1>0, <1>1 DEF OpenInWebView, MobileTypeOK
  <2>2. /\ watch' = [watch EXCEPT ![a] = "delay"] /\ result' = FALSE
        /\ UNCHANGED <<build, page, left, taken, tab, closed, borrowed>>
    BY <1>1 DEF OpenInWebView
  <2> QED BY <1>0, <2>1, <2>2 DEF MobileTypeOK
<1>2. ASSUME NEW a \in Attempts, build # "desktop", OpenTab(a) PROVE MobileTypeOK'
  BY <1>0, <1>2 DEF OpenTab, MobileTypeOK, PagesAreOwn
<1>3. ASSUME NEW a \in Attempts, build # "desktop", GiveUpWaiting(a) PROVE MobileTypeOK'
  BY <1>0, <1>3 DEF GiveUpWaiting, MobileTypeOK, PagesAreOwn
<1>4. ASSUME NEW a \in Attempts, Leave(a) PROVE MobileTypeOK'
  BY <1>0, <1>4 DEF Leave, MobileTypeOK, PagesAreOwn
<1>5. ASSUME NEW a \in Attempts, EndPoll(a) PROVE MobileTypeOK'
  <2>1. CASE ShowResult(a)
    <3>1. /\ page' \in {page, [at |-> "result", of |-> a]} /\ result' \in BOOLEAN
      BY <1>0, <2>1 DEF MobileTypeOK
    <3>2. /\ watch' = [watch EXCEPT ![a] = "hold"]
          /\ UNCHANGED <<build, left, taken, jar, tab, closed, borrowed>>
      BY <1>5, <2>1 DEF EndPoll
    <3> QED BY <1>0, <3>1, <3>2 DEF MobileTypeOK
  <2>2. CASE WatchEnds(a) /\ (ReturnToApp \/ UNCHANGED <<page, result>>)
    BY <1>0, <1>5, <2>2 DEF EndPoll, MobileTypeOK
  <2> QED BY <1>5, <2>1, <2>2 DEF EndPoll
<1>6. ASSUME NEW a \in Attempts, HoldEnds(a) PROVE MobileTypeOK'
  BY <1>0, <1>6 DEF HoldEnds, MobileTypeOK, PagesAreOwn
<1>7. ASSUME NEW a \in Attempts, Reload(a) PROVE MobileTypeOK'
  BY <1>0, <1>7 DEF Reload, MobileTypeOK, PagesAreOwn
<1>8. ASSUME NEW a \in Attempts, Abandon(a) PROVE MobileTypeOK'
  BY <1>0, <1>8 DEF Abandon, MobileTypeOK, PagesAreOwn
<1>9. ASSUME NEW a \in Attempts, Notice(a) PROVE MobileTypeOK'
  BY <1>0, <1>9 DEF Notice, MobileTypeOK, PagesAreOwn
<1>10. ASSUME NEW t \in Tasks, NEW a \in Attempts, NEW answer \in Answers, Intercept(t, a, answer)
       PROVE  MobileTypeOK'
  BY <1>0, <1>10 DEF Intercept, MobileTypeOK, PagesAreOwn
<1>11. ASSUME NEW t \in Tasks, NEW a \in Attempts, CaptureOnPage(t, a)
       PROVE  MobileTypeOK'
  BY <1>0, <1>11 DEF CaptureOnPage, Read, MobileTypeOK, PagesAreOwn
<1>12. ASSUME NEW t \in Tasks, NEW a \in Attempts, build # "desktop", PollCookies(t, a)
       PROVE  MobileTypeOK'
  BY <1>0, <1>12 DEF PollCookies, Read, MobileTypeOK, PagesAreOwn
<1>13. ASSUME NEW t \in Tasks, build # "desktop", NotSignedInYet(t) PROVE MobileTypeOK'
  BY <1>0, <1>13 DEF NotSignedInYet, NotSignedIn, MobileTypeOK, PagesAreOwn
<1>14. ASSUME NEW a \in Attempts, TabEnds(a) PROVE MobileTypeOK'
  BY <1>0, <1>14 DEF TabEnds, MobileTypeOK, PagesAreOwn
<1>15. ASSUME NEW a \in Attempts, TabWasClosed(a) PROVE MobileTypeOK'
  BY <1>0, <1>15 DEF TabWasClosed, MobileTypeOK, PagesAreOwn
<1>16. ASSUME NEW a \in Attempts, TabReturns(a) PROVE MobileTypeOK'
  BY <1>0, <1>16 DEF TabReturns, MobileTypeOK, PagesAreOwn
<1>17. ASSUME NEW a \in Attempts, build # "desktop", GoBack(a) PROVE MobileTypeOK'
  BY <1>0, <1>17 DEF GoBack, MobileTypeOK, PagesAreOwn
<1>18. CASE build # "desktop" /\ PageMoves
  BY <1>0, <1>18 DEF PageMoves, MobileTypeOK, PagesAreOwn
<1>19. ASSUME NEW t \in Tasks, NEW answer \in Answers, build # "desktop", PageRedirects(t, answer)
       PROVE  MobileTypeOK'
  BY <1>0, <1>19 DEF PageRedirects, MobileTypeOK, PagesAreOwn
<1>20. ASSUME NEW t \in Tasks, NEW answer \in Answers, build # "desktop", TabRedirects(t, answer)
       PROVE  MobileTypeOK'
  BY <1>0, <1>20 DEF TabRedirects, MobileTypeOK, PagesAreOwn
<1>21. CASE build # "desktop" /\ UserReturns
  BY <1>0, <1>21 DEF UserReturns, MobileTypeOK, PagesAreOwn
<1>22. CASE build # "desktop" /\ UserClosesTab
  BY <1>0, <1>22 DEF UserClosesTab, MobileTypeOK, PagesAreOwn
<1> QED
  BY <1>1, <1>2, <1>3, <1>4, <1>5, <1>6, <1>7, <1>8, <1>9, <1>10, <1>11, <1>12,
     <1>13, <1>14, <1>15, <1>16, <1>17, <1>18, <1>19, <1>20, <1>21, <1>22
     DEF PhoneStep

(* The WebView stays with the attempt in the login table. *)
LEMMA PhonePages ==
  ASSUME MobileTypeOK, SignInInv, PhoneStep
  PROVE  PagesAreOwn'
<1> USE NoneAssumption
    DEF vars, mobileVars, attemptVars, windowVars, historyVars, watchVars, webVars,
        tabVars, Waiting, InProgress, IfWaiting, FailIfWaiting, ClearPending, StopServer, AbortResources,
        NoLogin, Current, Ended, Load, MayLoad, ReturnToApp, AppPage, WatchEnds, SeesPage,
        ShowResult, ForgetSignIn, OnProvider, Cookie, MobileKinds
<1>0. /\ PagesAreOwn /\ BuildFits /\ JarIsOwn /\ SessionIsOwn
      /\ pending \in [attempt : Attempts \cup {None}, status : Statuses]
      /\ (pending.attempt = None) = (pending.status = "none")
      /\ kind \in [Attempts -> AllKinds \cup {None}]
      /\ start \in [Attempts -> {"unused", "bind", "open", "done"}]
      /\ page \in [at : {"app", "signin", "site", "blank", "callback", "result"},
                   of : Attempts \cup {None}]
      /\ watch \in [Attempts -> {"off", "delay", "poll", "failed", "hold", "tab", "glance"}]
      /\ jar \subseteq Attempts
  BY DEF MobileTypeOK, TypeOK, SignInInv
<1>1. CASE UNCHANGED <<page, pending, kind>>
  BY <1>0, <1>1 DEF PagesAreOwn
<1>2. ASSUME NEW a \in Attempts, OpenInWebView(a) \/ OpenTab(a)
      PROVE  UNCHANGED <<page, pending, kind>>
  BY <1>2 DEF OpenInWebView, OpenTab
<1>3. ASSUME NEW a \in Attempts, Notice(a) \/ TabEnds(a) \/ TabReturns(a)
      PROVE  UNCHANGED <<page, pending, kind>>
  BY <1>3 DEF Notice, TabEnds, TabReturns
<1>4. ASSUME NEW t \in Tasks, NEW a \in Attempts, NEW answer \in Answers, Intercept(t, a, answer)
      PROVE  UNCHANGED <<page, pending, kind>>
  BY <1>4 DEF Intercept
<1>5. ASSUME NEW t \in Tasks, NEW a \in Attempts, CaptureOnPage(t, a)
      PROVE  UNCHANGED <<page, pending, kind>>
  BY <1>5 DEF CaptureOnPage, Read
<1>6. ASSUME NEW t \in Tasks, NEW a \in Attempts, PollCookies(t, a)
      PROVE  UNCHANGED <<page, pending, kind>>
  BY <1>6 DEF PollCookies, Read
<1>7. ASSUME NEW t \in Tasks, NEW answer \in Answers, TabRedirects(t, answer)
      PROVE  UNCHANGED <<page, pending, kind>>
  BY <1>7 DEF TabRedirects
<1>8. ASSUME UserClosesTab PROVE UNCHANGED <<page, pending, kind>>
  BY <1>8 DEF UserClosesTab
<1>9. ASSUME NEW a \in Attempts, build # "desktop", GiveUpWaiting(a) PROVE PagesAreOwn'
  BY <1>0, <1>9 DEF GiveUpWaiting, PagesAreOwn
<1>10. ASSUME NEW a \in Attempts, Leave(a) PROVE PagesAreOwn'
  BY <1>0, <1>10 DEF Leave, PagesAreOwn
<1>11. ASSUME NEW a \in Attempts, EndPoll(a) PROVE PagesAreOwn'
  BY <1>0, <1>11 DEF EndPoll, PagesAreOwn
<1>12. ASSUME NEW a \in Attempts, HoldEnds(a) PROVE PagesAreOwn'
  BY <1>0, <1>12 DEF HoldEnds, PagesAreOwn
<1>13. ASSUME NEW a \in Attempts, Reload(a) PROVE PagesAreOwn'
  BY <1>0, <1>13 DEF Reload, PagesAreOwn
<1>14. ASSUME NEW a \in Attempts, Abandon(a) PROVE PagesAreOwn'
  BY <1>0, <1>14 DEF Abandon, PagesAreOwn
<1>15. ASSUME NEW t \in Tasks, build # "desktop", NotSignedInYet(t) PROVE PagesAreOwn'
  BY <1>0, <1>15 DEF NotSignedInYet, NotSignedIn, PagesAreOwn
<1>16. ASSUME NEW a \in Attempts, TabWasClosed(a) PROVE PagesAreOwn'
  BY <1>0, <1>16 DEF TabWasClosed, PagesAreOwn
<1>17. ASSUME NEW a \in Attempts, build # "desktop", GoBack(a) PROVE PagesAreOwn'
  BY <1>0, <1>17 DEF GoBack, PagesAreOwn
<1>18. CASE build # "desktop" /\ PageMoves
  BY <1>0, <1>18 DEF PageMoves, PagesAreOwn
<1>19. ASSUME NEW t \in Tasks, NEW answer \in Answers, build # "desktop", PageRedirects(t, answer)
       PROVE  PagesAreOwn'
  BY <1>0, <1>19 DEF PageRedirects, PagesAreOwn
<1>20. CASE build # "desktop" /\ UserReturns
  BY <1>0, <1>20 DEF UserReturns, PagesAreOwn
<1> QED
  BY <1>1, <1>2, <1>3, <1>4, <1>5, <1>6, <1>7, <1>8, <1>9, <1>10, <1>11, <1>12,
     <1>13, <1>14, <1>15, <1>16, <1>17, <1>18, <1>19, <1>20
     DEF PhoneStep

(* A desktop stays without a WebView. *)
LEMMA PhoneBuild ==
  ASSUME MobileTypeOK, SignInInv, PhoneStep
  PROVE  BuildFits'
<1> USE NoneAssumption
    DEF vars, mobileVars, attemptVars, windowVars, historyVars, watchVars, webVars,
        tabVars, Waiting, InProgress, IfWaiting, FailIfWaiting, ClearPending, StopServer, AbortResources,
        NoLogin, Current, Ended, Load, MayLoad, ReturnToApp, AppPage, WatchEnds, SeesPage,
        ShowResult, ForgetSignIn, OnProvider, Cookie, MobileKinds
<1>0. /\ PagesAreOwn /\ BuildFits /\ JarIsOwn /\ SessionIsOwn
      /\ pending \in [attempt : Attempts \cup {None}, status : Statuses]
      /\ (pending.attempt = None) = (pending.status = "none")
      /\ kind \in [Attempts -> AllKinds \cup {None}]
      /\ start \in [Attempts -> {"unused", "bind", "open", "done"}]
      /\ page \in [at : {"app", "signin", "site", "blank", "callback", "result"},
                   of : Attempts \cup {None}]
      /\ watch \in [Attempts -> {"off", "delay", "poll", "failed", "hold", "tab", "glance"}]
      /\ jar \subseteq Attempts
  BY DEF MobileTypeOK, TypeOK, SignInInv
<1>1. CASE UNCHANGED <<build, watch, start, page, jar, kind>>
  BY <1>0, <1>1 DEF BuildFits
<1>2. ASSUME NEW a \in Attempts, GiveUpWaiting(a)
      PROVE  UNCHANGED <<build, watch, start, page, jar, kind>>
  BY <1>2 DEF GiveUpWaiting
<1>3. ASSUME NEW a \in Attempts, Notice(a)
      PROVE  UNCHANGED <<build, watch, start, page, jar, kind>>
  BY <1>3 DEF Notice
<1>4. ASSUME NEW t \in Tasks, NEW a \in Attempts, NEW answer \in Answers, Intercept(t, a, answer)
      PROVE  UNCHANGED <<build, watch, start, page, jar, kind>>
  BY <1>4 DEF Intercept
<1>5. ASSUME NEW t \in Tasks, NEW a \in Attempts, CaptureOnPage(t, a)
      PROVE  UNCHANGED <<build, watch, start, page, jar, kind>>
  BY <1>5 DEF CaptureOnPage, Read
<1>6. ASSUME NEW t \in Tasks, NEW a \in Attempts, PollCookies(t, a)
      PROVE  UNCHANGED <<build, watch, start, page, jar, kind>>
  BY <1>6 DEF PollCookies, Read
<1>7. ASSUME NEW t \in Tasks, NEW answer \in Answers, TabRedirects(t, answer)
      PROVE  UNCHANGED <<build, watch, start, page, jar, kind>>
  BY <1>7 DEF TabRedirects
<1>8. ASSUME UserClosesTab PROVE UNCHANGED <<build, watch, start, page, jar, kind>>
  BY <1>8 DEF UserClosesTab
<1>9. ASSUME NEW a \in Attempts, build # "desktop", OpenInWebView(a) PROVE BuildFits'
  BY <1>0, <1>9 DEF OpenInWebView, BuildFits
<1>10. ASSUME NEW a \in Attempts, build # "desktop", OpenTab(a) PROVE BuildFits'
  BY <1>0, <1>10 DEF OpenTab, BuildFits
<1>11. ASSUME NEW a \in Attempts, Leave(a) PROVE BuildFits'
  BY <1>0, <1>11 DEF Leave, BuildFits
<1>12. ASSUME NEW a \in Attempts, EndPoll(a) PROVE BuildFits'
  BY <1>0, <1>12 DEF EndPoll, BuildFits
<1>13. ASSUME NEW a \in Attempts, HoldEnds(a) PROVE BuildFits'
  BY <1>0, <1>13 DEF HoldEnds, BuildFits
<1>14. ASSUME NEW a \in Attempts, Reload(a) PROVE BuildFits'
  BY <1>0, <1>14 DEF Reload, BuildFits
<1>15. ASSUME NEW a \in Attempts, Abandon(a) PROVE BuildFits'
  BY <1>0, <1>15 DEF Abandon, BuildFits
<1>16. ASSUME NEW t \in Tasks, build # "desktop", NotSignedInYet(t) PROVE BuildFits'
  BY <1>0, <1>16 DEF NotSignedInYet, NotSignedIn, BuildFits
<1>17. ASSUME NEW a \in Attempts, TabEnds(a) PROVE BuildFits'
  BY <1>0, <1>17 DEF TabEnds, BuildFits
<1>18. ASSUME NEW a \in Attempts, TabWasClosed(a) PROVE BuildFits'
  BY <1>0, <1>18 DEF TabWasClosed, BuildFits
<1>19. ASSUME NEW a \in Attempts, TabReturns(a) PROVE BuildFits'
  BY <1>0, <1>19 DEF TabReturns, BuildFits
<1>20. ASSUME NEW a \in Attempts, build # "desktop", GoBack(a) PROVE BuildFits'
  BY <1>0, <1>20 DEF GoBack, BuildFits
<1>21. CASE build # "desktop" /\ PageMoves
  BY <1>0, <1>21 DEF PageMoves, BuildFits
<1>22. ASSUME NEW t \in Tasks, NEW answer \in Answers, build # "desktop", PageRedirects(t, answer)
       PROVE  BuildFits'
  BY <1>0, <1>22 DEF PageRedirects, BuildFits
<1>23. CASE build # "desktop" /\ UserReturns
  BY <1>0, <1>23 DEF UserReturns, BuildFits
<1> QED
  BY <1>1, <1>2, <1>3, <1>4, <1>5, <1>6, <1>7, <1>8, <1>9, <1>10, <1>11, <1>12,
     <1>13, <1>14, <1>15, <1>16, <1>17, <1>18, <1>19, <1>20, <1>21, <1>22,
     <1>23
     DEF PhoneStep

(* The cookies stay those of the attempt that waits. *)
LEMMA PhoneJar ==
  ASSUME MobileTypeOK, SignInInv, PhoneStep
  PROVE  JarIsOwn'
<1> USE NoneAssumption
    DEF vars, mobileVars, attemptVars, windowVars, historyVars, watchVars, webVars,
        tabVars, Waiting, InProgress, IfWaiting, FailIfWaiting, ClearPending, StopServer, AbortResources,
        NoLogin, Current, Ended, Load, MayLoad, ReturnToApp, AppPage, WatchEnds, SeesPage,
        ShowResult, ForgetSignIn, OnProvider, Cookie, MobileKinds
<1>0. /\ PagesAreOwn /\ BuildFits /\ JarIsOwn /\ SessionIsOwn
      /\ pending \in [attempt : Attempts \cup {None}, status : Statuses]
      /\ (pending.attempt = None) = (pending.status = "none")
      /\ kind \in [Attempts -> AllKinds \cup {None}]
      /\ start \in [Attempts -> {"unused", "bind", "open", "done"}]
      /\ page \in [at : {"app", "signin", "site", "blank", "callback", "result"},
                   of : Attempts \cup {None}]
      /\ watch \in [Attempts -> {"off", "delay", "poll", "failed", "hold", "tab", "glance"}]
      /\ jar \subseteq Attempts
  BY DEF MobileTypeOK, TypeOK, SignInInv
<1>1. CASE UNCHANGED <<pending, kind, start, jar>>
  BY <1>0, <1>1 DEF JarIsOwn
<1>2. ASSUME NEW a \in Attempts,
             EndPoll(a) \/ HoldEnds(a) \/ Reload(a) \/ Notice(a) \/ TabEnds(a) \/
             TabReturns(a)
      PROVE  UNCHANGED <<pending, kind, start, jar>>
  BY <1>2 DEF EndPoll, HoldEnds, Reload, Notice, TabEnds, TabReturns
<1>3. ASSUME NEW t \in Tasks, NEW a \in Attempts, NEW answer \in Answers, Intercept(t, a, answer)
      PROVE  UNCHANGED <<pending, kind, start, jar>>
  BY <1>3 DEF Intercept
<1>4. ASSUME NEW t \in Tasks, NEW a \in Attempts, CaptureOnPage(t, a)
      PROVE  UNCHANGED <<pending, kind, start, jar>>
  BY <1>4 DEF CaptureOnPage, Read
<1>5. ASSUME NEW t \in Tasks, NEW a \in Attempts, PollCookies(t, a)
      PROVE  UNCHANGED <<pending, kind, start, jar>>
  BY <1>5 DEF PollCookies, Read
<1>6. ASSUME NEW t \in Tasks, NotSignedInYet(t)
      PROVE  UNCHANGED <<pending, kind, start, jar>>
  BY <1>6 DEF NotSignedInYet, NotSignedIn
<1>7. ASSUME NEW t \in Tasks, NEW answer \in Answers,
             PageRedirects(t, answer) \/ TabRedirects(t, answer)
      PROVE  UNCHANGED <<pending, kind, start, jar>>
  BY <1>7 DEF PageRedirects, TabRedirects
<1>8. ASSUME UserReturns \/ UserClosesTab PROVE UNCHANGED <<pending, kind, start, jar>>
  BY <1>8 DEF UserReturns, UserClosesTab
<1>9. ASSUME NEW a \in Attempts, build # "desktop", OpenInWebView(a) PROVE JarIsOwn'
  BY <1>0, <1>9 DEF OpenInWebView, JarIsOwn, PagesAreOwn
<1>10. ASSUME NEW a \in Attempts, build # "desktop", OpenTab(a) PROVE JarIsOwn'
  BY <1>0, <1>10 DEF OpenTab, InTab, JarIsOwn
<1>11. ASSUME NEW a \in Attempts, build # "desktop", GiveUpWaiting(a) PROVE JarIsOwn'
  BY <1>0, <1>11 DEF GiveUpWaiting, JarIsOwn, PagesAreOwn
<1>12. ASSUME NEW a \in Attempts, Leave(a) PROVE JarIsOwn'
  BY <1>0, <1>12 DEF Leave, JarIsOwn, PagesAreOwn
<1>13. ASSUME NEW a \in Attempts, Abandon(a) PROVE JarIsOwn'
  BY <1>0, <1>13 DEF Abandon, JarIsOwn, PagesAreOwn
<1>14. ASSUME NEW a \in Attempts, TabWasClosed(a) PROVE JarIsOwn'
  BY <1>0, <1>14 DEF TabWasClosed, JarIsOwn, PagesAreOwn
<1>15. ASSUME NEW a \in Attempts, build # "desktop", GoBack(a) PROVE JarIsOwn'
  BY <1>0, <1>15 DEF GoBack, JarIsOwn, PagesAreOwn
<1>16. CASE build # "desktop" /\ PageMoves
  BY <1>0, <1>16 DEF PageMoves, JarIsOwn, PagesAreOwn
<1> QED
  BY <1>1, <1>2, <1>3, <1>4, <1>5, <1>6, <1>7, <1>8, <1>9, <1>10, <1>11, <1>12,
     <1>13, <1>14, <1>15, <1>16
     DEF PhoneStep

(* No attempt captures the session of another. *)
LEMMA PhoneSession ==
  ASSUME MobileTypeOK, SignInInv, PhoneStep
  PROVE  SessionIsOwn'
<1> USE NoneAssumption
    DEF vars, mobileVars, attemptVars, windowVars, historyVars, watchVars, webVars,
        tabVars, Waiting, InProgress, IfWaiting, FailIfWaiting, ClearPending, StopServer, AbortResources,
        NoLogin, Current, Ended, Load, MayLoad, ReturnToApp, AppPage, WatchEnds, SeesPage,
        ShowResult, ForgetSignIn, OnProvider, Cookie, MobileKinds
<1>0. /\ PagesAreOwn /\ BuildFits /\ JarIsOwn /\ SessionIsOwn
      /\ pending \in [attempt : Attempts \cup {None}, status : Statuses]
      /\ (pending.attempt = None) = (pending.status = "none")
      /\ kind \in [Attempts -> AllKinds \cup {None}]
      /\ start \in [Attempts -> {"unused", "bind", "open", "done"}]
      /\ page \in [at : {"app", "signin", "site", "blank", "callback", "result"},
                   of : Attempts \cup {None}]
      /\ watch \in [Attempts -> {"off", "delay", "poll", "failed", "hold", "tab", "glance"}]
      /\ jar \subseteq Attempts
  BY DEF MobileTypeOK, TypeOK, SignInInv
<1>1. CASE UNCHANGED <<borrowed>>
  BY <1>0, <1>1 DEF SessionIsOwn
<1>2. ASSUME NEW a \in Attempts,
             OpenInWebView(a) \/ OpenTab(a) \/ GiveUpWaiting(a) \/ GoBack(a)
      PROVE  UNCHANGED <<borrowed>>
  BY <1>2 DEF OpenInWebView, OpenTab, GiveUpWaiting, GoBack
<1>3. ASSUME NEW a \in Attempts,
             Leave(a) \/ EndPoll(a) \/ HoldEnds(a) \/ Reload(a) \/ Abandon(a) \/
             Notice(a) \/ TabEnds(a) \/ TabWasClosed(a) \/ TabReturns(a)
      PROVE  UNCHANGED <<borrowed>>
  BY <1>3
     DEF Leave, EndPoll, HoldEnds, Reload, Abandon, Notice, TabEnds,
         TabWasClosed, TabReturns
<1>4. ASSUME NEW t \in Tasks, NEW a \in Attempts, NEW answer \in Answers, Intercept(t, a, answer)
      PROVE  UNCHANGED <<borrowed>>
  BY <1>4 DEF Intercept
<1>5. ASSUME NEW t \in Tasks, NotSignedInYet(t)
      PROVE  UNCHANGED <<borrowed>>
  BY <1>5 DEF NotSignedInYet, NotSignedIn
<1>6. ASSUME PageMoves \/ UserReturns \/ UserClosesTab PROVE UNCHANGED <<borrowed>>
  BY <1>6 DEF PageMoves, UserReturns, UserClosesTab
<1>7. ASSUME NEW t \in Tasks, NEW answer \in Answers,
             PageRedirects(t, answer) \/ TabRedirects(t, answer)
      PROVE  UNCHANGED <<borrowed>>
  BY <1>7 DEF PageRedirects, TabRedirects
<1>8. ASSUME NEW t \in Tasks, NEW a \in Attempts, CaptureOnPage(t, a)
      PROVE  SessionIsOwn'
  BY <1>0, <1>8
     DEF CaptureOnPage, Read, SessionIsOwn, JarIsOwn, BuildFits, HasSession
<1>9. ASSUME NEW t \in Tasks, NEW a \in Attempts, build # "desktop", PollCookies(t, a)
      PROVE  SessionIsOwn'
  BY <1>0, <1>9
     DEF PollCookies, Read, SessionIsOwn, JarIsOwn, BuildFits, HasSession
<1> QED
  BY <1>1, <1>2, <1>3, <1>4, <1>5, <1>6, <1>7, <1>8, <1>9 DEF PhoneStep

-----------------------------------------------------------------------------
(* Both builds together.                                                   *)

(* The steps of the login table that a phone takes too leave the attempt and *)
(* its kind, and start no attempt's wait anew.                               *)
LEMMA TableMoves ==
  ASSUME TypeOK, LoginInv,
         \/ \E a \in Attempts : \/ BindFails(a) \/ Listen(a) \/ OpenFails(a)
                                \/ OpenCookieFails(a) \/ Cancel(a)
         \/ \E t \in Tasks : TaskStep(t) \/ Poll(t)
  PROVE  /\ UNCHANGED kind
         /\ pending' = NoLogin \/ pending'.attempt = pending.attempt
         /\ \A a \in Attempts : start[a] = "done" => start'[a] = "done"
         /\ \A a \in Attempts : Waiting(a)' /\ start'[a] = "done" =>
                                  Waiting(a) /\ start[a] = "done"
<1> DEFINE Quiet == /\ UNCHANGED kind
                    /\ pending' = NoLogin \/ pending'.attempt = pending.attempt
                    /\ \A a \in Attempts : start[a] = "done" => start'[a] = "done"
                    /\ \A a \in Attempts : Waiting(a)' /\ start'[a] = "done" =>
                                             Waiting(a) /\ start[a] = "done"
<1>0. /\ pending \in [attempt : Attempts \cup {None}, status : Statuses]
      /\ start \in [Attempts -> {"unused", "bind", "open", "done"}]
      /\ AttemptsBegan
  BY DEF TypeOK, LoginInv
<1> USE NoneAssumption
    DEF attemptVars, Waiting, InProgress, IfWaiting, FailIfWaiting, ClearPending, NoLogin
<1>1. ASSUME NEW a \in Attempts,
             BindFails(a) \/ Listen(a) \/ OpenFails(a) \/ OpenCookieFails(a) \/ Cancel(a)
      PROVE  Quiet
  BY <1>0, <1>1
     DEF BindFails, Listen, OpenFails, OpenCookieFails, NotOpened, Cancel
<1>2. ASSUME NEW t \in Tasks, TaskStep(t) \/ Poll(t) PROVE Quiet
  <2> DEFINE Keeps == /\ UNCHANGED attemptVars
                      /\ \/ UNCHANGED pending
                         \/ pending'.attempt = pending.attempt /\ pending'.status # "waiting"
  <2>1. ASSUME SelectEnds(t) \/ Claim(t) \/ Exchange(t) \/ Identify(t) \/ PersistCode(t) \/ Poll(t)
        PROVE  Keeps
    BY <2>1, <1>0 DEF SelectEnds, Claim, Exchange, Identify, PersistCode, Poll
  <2>2. ASSUME FinishCode(t) \/ ExchangeFails(t) \/ KeepCode(t) \/ QueueCode(t)
        PROVE  Keeps
    BY <2>2, <1>0 DEF FinishCode, ExchangeFails, KeepCode, QueueCode
  <2>3. ASSUME StudioCallback(t) \/ StudioGrant(t) \/ StudioOutcome(t) \/ StudioPanics(t)
        PROVE  Keeps
    BY <2>3, <1>0 DEF StudioCallback, StudioGrant, StudioOutcome, StudioPanics, ChooseProject,
       ProjectFails
  <2>4. ASSUME \/ NotSignedIn(t) \/ SignedIn(t) \/ PersistCookie(t) \/ FinishCookie(t)
               \/ RefreshFails(t)
        PROVE  Keeps
    BY <2>4, <1>0 DEF NotSignedIn, SignedIn, PersistCookie, FinishCookie, RefreshFails
  <2>5. Keeps
    BY <1>2, <2>1, <2>2, <2>3, <2>4 DEF TaskStep
  <2>6. UNCHANGED kind /\ UNCHANGED start
    BY <2>5
  <2>7. pending' = NoLogin \/ pending'.attempt = pending.attempt
    BY <2>5
  <2>8. \A a \in Attempts : Waiting(a)' => Waiting(a)
    BY <2>5
  <2> QED BY <2>6, <2>7, <2>8
<1> QED BY <1>1, <1>2

(* Every step of either build keeps all of the invariant. *)
LEMMA BuildStep ==
  ASSUME MobileTypeOK, SignInInv, [BuildNext]_allVars
  PROVE  MobileTypeOK' /\ SignInInv'
<1>1. TypeOK' /\ LoginInv'
  BY BuildKeepsLogin
<1>0. /\ TypeOK /\ LoginInv /\ AttemptsBegan
      /\ PagesAreOwn /\ BuildFits /\ JarIsOwn /\ SessionIsOwn
      /\ kind \in [Attempts -> AllKinds \cup {None}]
      /\ start \in [Attempts -> {"unused", "bind", "open", "done"}]
      /\ page.of \in Attempts \cup {None}
  BY DEF MobileTypeOK, TypeOK, SignInInv, LoginInv
<1>2. CASE PhoneStep
  BY <1>1, <1>2, PhoneTypes, PhonePages, PhoneBuild, PhoneJar, PhoneSession
     DEF SignInInv
<1>3. ASSUME UNCHANGED mobileVars, PagesAreOwn', BuildFits', JarIsOwn'
      PROVE  MobileTypeOK' /\ SignInInv'
  BY <1>0, <1>1, <1>3 DEF MobileTypeOK, SignInInv, SessionIsOwn, mobileVars, webVars, watchVars,
     tabVars
(* A step of the desktop build. *)
<1>4. CASE build = "desktop" /\ UNCHANGED mobileVars
  <2>1. page = AppPage /\ page' = AppPage /\ jar' = {} /\ \A a \in Attempts : watch[a] = "off"
    BY <1>0, <1>4 DEF BuildFits, mobileVars, webVars
  <2>2. PagesAreOwn' /\ BuildFits' /\ JarIsOwn'
    BY <1>4, <2>1
       DEF PagesAreOwn, BuildFits, JarIsOwn, AppPage, mobileVars, watchVars
  <2> QED BY <1>3, <1>4, <2>2
(* A step of the login table on a phone. *)
<1>5. CASE /\ UNCHANGED mobileVars
           /\ \/ \E a \in Attempts : \/ BindFails(a) \/ Listen(a) \/ OpenFails(a)
                                     \/ OpenCookieFails(a) \/ Cancel(a)
              \/ \E t \in Tasks : TaskStep(t) \/ Poll(t)
  <2>1. /\ UNCHANGED <<kind, build, page, watch, jar>>
        /\ pending' = NoLogin \/ pending'.attempt = pending.attempt
        /\ \A a \in Attempts : start[a] = "done" => start'[a] = "done"
        /\ \A a \in Attempts : Waiting(a)' /\ start'[a] = "done" =>
                                 Waiting(a) /\ start[a] = "done"
    BY <1>0, <1>5, TableMoves DEF mobileVars, webVars, watchVars
  <2>0. pending = NoLogin => pending' = NoLogin
    <3>1. /\ pending' \in [attempt : Attempts \cup {None}, status : Statuses]
          /\ (pending'.attempt = None) = (pending'.status = "none")
      BY <1>1 DEF TypeOK
    <3> QED BY <2>1, <3>1 DEF NoLogin
  <2>2. PagesAreOwn'
    BY <1>0, <2>0, <2>1 DEF PagesAreOwn
  <2>3. BuildFits'
    BY <1>0, <2>1 DEF BuildFits
  <2>4. JarIsOwn'
    BY <1>0, <2>1 DEF JarIsOwn
  <2> QED BY <1>3, <1>5, <2>2, <2>3, <2>4
<1>6. ASSUME NEW a \in Attempts, NEW k \in Kinds \cap MobileKinds, Begin(a, k),
             page.at = "app", UNCHANGED mobileVars
      PROVE  MobileTypeOK' /\ SignInInv'
  <2>1. /\ kind' = [kind EXCEPT ![a] = k] /\ start'[a] # "done" /\ start[a] = "unused"
        /\ \A b \in Attempts : b # a => start'[b] = start[b] /\ ~Waiting(b)'
        /\ UNCHANGED <<build, page, watch, jar>>
    BY <1>0, <1>6 DEF Begin, NewAttempt, Waiting, mobileVars, webVars, watchVars
  <2>2. PagesAreOwn' /\ JarIsOwn'
    BY <1>6, <2>1 DEF PagesAreOwn, JarIsOwn
  <2>3. BuildFits'
    BY <1>0, <2>1 DEF BuildFits
  <2> QED BY <1>3, <1>6, <2>2, <2>3
<1>7. CASE UNCHANGED allVars
  <2>1. UNCHANGED <<vars, mobileVars, pending, kind, start, build, page, watch, jar>>
    BY <1>7 DEF allVars, vars, mobileVars, attemptVars, webVars, watchVars
  <2>2. PagesAreOwn' /\ BuildFits' /\ JarIsOwn'
    BY <1>0, <2>1 DEF PagesAreOwn, BuildFits, JarIsOwn, Waiting
  <2> QED BY <1>3, <2>1, <2>2
<1>8. CASE Command
  BY <1>5, <1>6, <1>8 DEF Command
<1>9. CASE \E a \in Attempts : build # "desktop" /\ (MobileStart(a) \/ GiveUpWaiting(a))
  BY <1>2, <1>5, <1>9 DEF MobileStart, PhoneStep
<1>10. CASE \E t \in Tasks : build # "desktop" /\ MobileTask(t)
  BY <1>2, <1>5, <1>10 DEF MobileTask, PhoneStep, TaskStep
<1>11. CASE \E a \in Attempts : WatchStep(a)
  BY <1>2, <1>11 DEF WatchStep, PhoneStep
<1>12. CASE build # "desktop" /\ MobileEnvironment
  BY <1>2, <1>8, <1>12 DEF MobileEnvironment, PhoneStep
<1> QED
  BY <1>4, <1>7, <1>9, <1>10, <1>11, <1>12
  DEF BuildNext, StartOf, TimerOf, TaskOf, EnvironmentOf

(* The invariant of the sign-ins: the login table's, and on a phone that the *)
(* WebView and its cookies are those of the attempt in the table.            *)
THEOREM SignInsAreSound == BuildSpec => [](MobileTypeOK /\ SignInInv)
<1>1. BuildInit => MobileTypeOK /\ SignInInv
  <2> SUFFICES ASSUME BuildInit PROVE MobileTypeOK /\ SignInInv
    OBVIOUS
  <2> USE NoneAssumption DEF BuildInit, Init, NoLogin, Free
  <2>1. TypeOK
    BY DEF TypeOK, Statuses, Stages
  <2>2. MobileTypeOK
    BY <2>1 DEF MobileTypeOK, AppPage
  <2>3. AttemptsBegan /\ ServersFit /\ WorkFits /\ SavedShows
    BY DEF AttemptsBegan, ServersFit, WorkFits, SavedShows
  <2>4. CodesAreSingle
    BY DEF CodesAreSingle, HasCode
  <2>5. PagesAreOwn /\ BuildFits /\ JarIsOwn /\ SessionIsOwn
    BY DEF PagesAreOwn, BuildFits, JarIsOwn, SessionIsOwn, AppPage
  <2> QED BY <2>2, <2>3, <2>4, <2>5 DEF SignInInv, LoginInv
<1>2. MobileTypeOK /\ SignInInv /\ [BuildNext]_allVars => MobileTypeOK' /\ SignInInv'
  BY BuildStep
<1> QED
  BY <1>1, <1>2, PTL DEF BuildSpec

(* Every variable of both builds keeps its type. *)
THEOREM TypeCorrect == BuildSpec => []MobileTypeOK
  BY SignInsAreSound, PTL

(* Whoever reads the callback and however often it is asked for, put aside   *)
(* or retried: no two requests present a provider's code at a time, and none *)
(* presents it again once an exchange was answered.  (One whose answer was   *)
(* lost may be presented again although the provider took it.)               *)
THEOREM CodesAreRetriedUnanswered == BuildSpec => []CodeRetriedUnanswered
<1>1. MobileTypeOK /\ SignInInv => CodeRetriedUnanswered
  <2> SUFFICES ASSUME MobileTypeOK, SignInInv PROVE CodeRetriedUnanswered
    OBVIOUS
  <2>1. CodesAreSingle /\ WorkFits
    BY DEF SignInInv, LoginInv
  <2>2. \A t \in Tasks : task[t].at = "exchange" => HasCode(t) /\ kind[task[t].attempt] = "oauth"
    BY <2>1 DEF HasCode, WorkFits, Free
  <2>3. \A t, u \in Tasks :
          /\ task[t].at = "exchange" /\ task[u].at \in {"exchange", "identified", "persist"}
          /\ task[t].attempt = task[u].attempt
          => HasCode(u)
    BY <2>1, <2>2 DEF HasCode, WorkFits, Cookie, Free
  <2> QED BY <2>1, <2>2, <2>3 DEF CodeRetriedUnanswered, CodesAreSingle
<1> QED
  BY <1>1, SignInsAreSound, PTL

(* A browser sign-in whose account was saved is never left reported as       *)
(* failed, not even when it was cancelled while the account was being saved. *)
THEOREM SavedAreReported == BuildSpec => []SavedIsReported
<1>1. SignInInv => SavedIsReported
  BY DEF SignInInv, LoginInv, SavedShows, SavedIsReported, Reported
<1> QED
  BY <1>1, SignInsAreSound, PTL

(* No attempt ever takes the session another one left in the WebView, unless *)
(* the cookies could not be cleared when it began.                           *)
THEOREM SessionsAreOwn == BuildSpec => []SessionIsOwn
<1>1. SignInInv => SessionIsOwn
  BY DEF SignInInv
<1> QED
  BY <1>1, SignInsAreSound, PTL

-----------------------------------------------------------------------------
(* What a step may never do.                                               *)

(* A step of the desktop that ends the wait of an attempt stops its server. *)
LEMMA EndStopsServer ==
  ASSUME TypeOK, LoginInv, Next, NEW a \in listening, Waiting(a), ~Waiting(a)'
  PROVE  a \notin listening'
<1> USE NumbersAssumption, KindsAssumption, NoneAssumption
    DEF attemptVars, windowVars, historyVars, Waiting, InProgress, IfWaiting,
        FailIfWaiting, ClearPending, StopServer, AbortResources, Answer, Free, NoLogin,
        Labels, Label, Cookie, Browser, AllKinds, NewTask, Answers, DismissCookieWindow
<1>0. /\ pending \in [attempt : Attempts \cup {None}, status : Statuses]
      /\ listening \subseteq Attempts /\ window \in [Labels -> Attempts \cup {None}]
      /\ ServersFit /\ WorkFits /\ AttemptsBegan
      /\ \A t \in Tasks : task[t].from = "poll" => task[t].attempt \notin listening
  BY DEF TypeOK, LoginInv, CodesAreSingle
<1>1. ASSUME NEW b \in Attempts, Listen(b) \/ TimeOut(b) PROVE FALSE
  BY <1>1 DEF Listen, TimeOut
<1>2. ASSUME NEW t \in Tasks, NEW b \in Attempts,
             CaptureGrok(t, b) \/ CaptureOpenCode(t, b)
      PROVE  FALSE
  BY <1>2 DEF CaptureGrok, Captured, CaptureOpenCode
<1>3. ASSUME NEW t \in Tasks, NEW b \in Attempts, NEW answer \in Answers, Redirect(t, b, answer)
      PROVE  FALSE
  BY <1>3 DEF Redirect
<1>4. ASSUME NEW t \in Tasks,
             Poll(t) \/ SelectEnds(t) \/ Exchange(t) \/ Identify(t) \/
             PersistCode(t) \/ KeepCode(t) \/ QueueCode(t) \/ StudioPanics(t) \/
             NotSignedIn(t) \/ SignedIn(t)
      PROVE  FALSE
  BY <1>4
     DEF Poll, SelectEnds, Exchange, Identify, PersistCode, KeepCode,
         QueueCode, StudioPanics, NotSignedIn, SignedIn
<1>5. ASSUME NEW b \in Attempts, NEW k \in Kinds, Begin(b, k) PROVE a \notin listening'
  BY <1>0, <1>5
     DEF Begin, ServersFit, WorkFits, AttemptsBegan, NewAttempt, Bound
<1>6. ASSUME NEW b \in Attempts, BindFails(b) PROVE a \notin listening'
  BY <1>0, <1>6
     DEF BindFails, ServersFit, WorkFits, AttemptsBegan, NewAttempt, Bound
<1>7. ASSUME NEW b \in Attempts, OpenWindow(b) PROVE a \notin listening'
  BY <1>0, <1>7
     DEF OpenWindow, Opened, WindowClosed, ServersFit, WorkFits, AttemptsBegan,
         NewAttempt, Bound
<1>8. ASSUME NEW b \in Attempts, OpenFails(b) PROVE a \notin listening'
  BY <1>0, <1>8
     DEF OpenFails, NotOpened, ServersFit, WorkFits, AttemptsBegan, NewAttempt,
         Bound
<1>9. ASSUME NEW b \in Attempts, OpenCookieWindow(b) PROVE a \notin listening'
  BY <1>0, <1>9
     DEF OpenCookieWindow, Opened, WindowClosed, ServersFit, WorkFits,
         AttemptsBegan, NewAttempt, Bound
<1>10. ASSUME NEW b \in Attempts, OpenCookieFails(b) PROVE a \notin listening'
  BY <1>0, <1>10
     DEF OpenCookieFails, NotOpened, ServersFit, WorkFits, AttemptsBegan,
         NewAttempt, Bound
<1>11. ASSUME NEW b \in Attempts, GiveUp(b) PROVE a \notin listening'
  BY <1>0, <1>11
     DEF GiveUp, ServersFit, WorkFits, AttemptsBegan, NewAttempt, Bound
<1>12. ASSUME NEW b \in Attempts, Cancel(b) PROVE a \notin listening'
  BY <1>0, <1>12
     DEF Cancel, ServersFit, WorkFits, AttemptsBegan, NewAttempt, Bound
<1>13. ASSUME NEW b \in Attempts, AutoClose(b) PROVE a \notin listening'
  BY <1>0, <1>13
     DEF AutoClose, WindowClosed, ServersFit, WorkFits, AttemptsBegan,
         NewAttempt, Bound
<1>14. ASSUME NEW l \in Labels, CloseWindow(l) PROVE a \notin listening'
  BY <1>0, <1>14
     DEF CloseWindow, WindowClosed, ServersFit, WorkFits, AttemptsBegan,
         NewAttempt, Bound
<1>15. ASSUME NEW l \in Labels, Back(l) PROVE a \notin listening'
  BY <1>0, <1>15
     DEF Back, ServersFit, WorkFits, AttemptsBegan, NewAttempt, Bound
<1>16. ASSUME NEW t \in Tasks, NEW b \in Attempts, SelectProject(t, b)
       PROVE  a \notin listening'
  BY <1>0, <1>16
     DEF SelectProject, ServersFit, WorkFits, AttemptsBegan, NewAttempt, Bound
<1>17. ASSUME NEW t \in Tasks, Claim(t) PROVE a \notin listening'
  BY <1>0, <1>17
     DEF Claim, ServersFit, WorkFits, AttemptsBegan, NewAttempt, Bound
<1>18. ASSUME NEW t \in Tasks, FinishCode(t) PROVE a \notin listening'
  BY <1>0, <1>18
     DEF FinishCode, ServersFit, WorkFits, AttemptsBegan, NewAttempt, Bound
<1>19. ASSUME NEW t \in Tasks, ExchangeFails(t) PROVE a \notin listening'
  BY <1>0, <1>19
     DEF ExchangeFails, ServersFit, WorkFits, AttemptsBegan, NewAttempt, Bound
<1>20. ASSUME NEW t \in Tasks, StudioCallback(t) PROVE a \notin listening'
  BY <1>0, <1>20
     DEF StudioCallback, ServersFit, WorkFits, AttemptsBegan, NewAttempt, Bound
<1>21. ASSUME NEW t \in Tasks, StudioGrant(t) PROVE a \notin listening'
  BY <1>0, <1>21
     DEF StudioGrant, MaySpend, ServersFit, WorkFits, AttemptsBegan, NewAttempt, Bound
<1>22. ASSUME NEW t \in Tasks, StudioOutcome(t) PROVE a \notin listening'
  BY <1>0, <1>22
     DEF StudioOutcome, ServersFit, WorkFits, AttemptsBegan, NewAttempt, Bound
<1>23. ASSUME NEW t \in Tasks, PersistCookie(t) PROVE a \notin listening'
  BY <1>0, <1>23
     DEF PersistCookie, ServersFit, WorkFits, AttemptsBegan, NewAttempt, Bound
<1>24. ASSUME NEW t \in Tasks, FinishCookie(t) PROVE a \notin listening'
  BY <1>0, <1>24
     DEF FinishCookie, ServersFit, WorkFits, AttemptsBegan, NewAttempt, Bound
<1>25. ASSUME NEW t \in Tasks, RefreshFails(t) PROVE a \notin listening'
  BY <1>0, <1>25
     DEF RefreshFails, ServersFit, WorkFits, AttemptsBegan, NewAttempt, Bound
<1> QED
  BY <1>1, <1>2, <1>3, <1>4, <1>5, <1>6, <1>7, <1>8, <1>9, <1>10, <1>11, <1>12,
     <1>13, <1>14, <1>15, <1>16, <1>17, <1>18, <1>19, <1>20, <1>21, <1>22,
     <1>23, <1>24, <1>25
     DEF Next, StartStep, TimerStep, TaskStep, Environment

(* So does a step of a phone, except when the sign-in page cannot be loaded. *)
LEMMA PhoneStopsServer ==
  ASSUME MobileTypeOK, SignInInv, PhoneStep, NEW a \in listening, Waiting(a), ~Waiting(a)'
  PROVE  a \notin listening' \/ watch'[a] = "failed"
<1> USE NoneAssumption
    DEF vars, mobileVars, attemptVars, windowVars, historyVars, watchVars, webVars,
        tabVars, Waiting, InProgress, IfWaiting, FailIfWaiting, ClearPending, StopServer, AbortResources,
        NoLogin, Current, Ended, Load, MayLoad, ReturnToApp, AppPage, WatchEnds, SeesPage,
        ShowResult, ForgetSignIn, OnProvider, Cookie, MobileKinds
<1>0. /\ pending \in [attempt : Attempts \cup {None}, status : Statuses]
      /\ listening \subseteq Attempts /\ ServersFit /\ BuildFits
      /\ watch \in [Attempts -> {"off", "delay", "poll", "failed", "hold", "tab", "glance"}]
  BY DEF MobileTypeOK, TypeOK, SignInInv, LoginInv
<1>1. ASSUME NEW b \in Attempts,
             OpenInWebView(b) \/ OpenTab(b) \/ EndPoll(b) \/ HoldEnds(b) \/
             Reload(b) \/ Notice(b) \/ TabEnds(b) \/ TabReturns(b)
      PROVE  FALSE
  BY <1>1
     DEF OpenInWebView, OpenTab, EndPoll, HoldEnds, Reload, Notice, TabEnds,
         TabReturns
<1>2. ASSUME NEW t \in Tasks, NEW b \in Attempts, NEW answer \in Answers, Intercept(t, b, answer)
      PROVE  FALSE
  BY <1>2 DEF Intercept
<1>3. ASSUME NEW t \in Tasks, NEW b \in Attempts,
             CaptureOnPage(t, b) \/ PollCookies(t, b)
      PROVE  FALSE
  BY <1>3 DEF CaptureOnPage, Read, PollCookies
<1>4. ASSUME NEW t \in Tasks, NotSignedInYet(t) PROVE FALSE
  BY <1>4 DEF NotSignedInYet, NotSignedIn
<1>5. ASSUME PageMoves \/ UserReturns \/ UserClosesTab PROVE FALSE
  BY <1>5 DEF PageMoves, UserReturns, UserClosesTab
<1>6. ASSUME NEW t \in Tasks, NEW answer \in Answers,
             PageRedirects(t, answer) \/ TabRedirects(t, answer)
      PROVE  FALSE
  BY <1>6 DEF PageRedirects, TabRedirects
<1>7. ASSUME NEW b \in Attempts, build # "desktop", GiveUpWaiting(b)
      PROVE  a \notin listening' \/ watch'[a] = "failed"
  BY <1>0, <1>7 DEF GiveUpWaiting, ServersFit, BuildFits, Browser, AllKinds
<1>8. ASSUME NEW b \in Attempts, Leave(b)
      PROVE  a \notin listening' \/ watch'[a] = "failed"
  BY <1>0, <1>8 DEF Leave, ServersFit, BuildFits, Browser, AllKinds
<1>9. ASSUME NEW b \in Attempts, Abandon(b)
      PROVE  a \notin listening' \/ watch'[a] = "failed"
  BY <1>0, <1>9 DEF Abandon, ServersFit, BuildFits, Browser, AllKinds
<1>10. ASSUME NEW b \in Attempts, TabWasClosed(b)
      PROVE  a \notin listening' \/ watch'[a] = "failed"
  BY <1>0, <1>10 DEF TabWasClosed, ServersFit, BuildFits, Browser, AllKinds
<1>11. ASSUME NEW b \in Attempts, build # "desktop", GoBack(b)
      PROVE  a \notin listening' \/ watch'[a] = "failed"
  BY <1>0, <1>11 DEF GoBack, ServersFit, BuildFits, Browser, AllKinds
<1> QED
  BY <1>1, <1>2, <1>3, <1>4, <1>5, <1>6, <1>7, <1>8, <1>9, <1>10, <1>11
     DEF PhoneStep

(* On a desktop an exchange begins by asking whether its attempt waits. *)
LEMMA ExchangeAsks ==
  ASSUME TypeOK, Next, NEW t \in Tasks, task[t].at # "exchange", task'[t].at = "exchange"
  PROVE  Waiting(task'[t].attempt)
<1> USE NumbersAssumption, KindsAssumption, NoneAssumption
    DEF attemptVars, windowVars, historyVars, Waiting, InProgress, IfWaiting,
        FailIfWaiting, ClearPending, StopServer, AbortResources, Answer, Free, NoLogin,
        Labels, Label, Cookie, Browser, AllKinds, NewTask, Answers, DismissCookieWindow
<1>0. /\ task \in [Tasks -> [at : Stages, attempt : Attempts \cup {None},
                               from : {"callback", "poll", "capture", "select", None}]]
  BY DEF TypeOK
<1>1. ASSUME NEW a \in Attempts, NEW k \in Kinds, Begin(a, k) PROVE FALSE
  BY <1>1 DEF Begin
<1>2. ASSUME NEW a \in Attempts,
             BindFails(a) \/ Listen(a) \/ OpenWindow(a) \/ OpenFails(a) \/
             OpenCookieWindow(a) \/ OpenCookieFails(a) \/ TimeOut(a) \/ GiveUp(a) \/
             Cancel(a) \/ AutoClose(a)
      PROVE  FALSE
  BY <1>2
     DEF BindFails, Listen, OpenWindow, Opened, WindowClosed, OpenFails,
         NotOpened, OpenCookieWindow, OpenCookieFails, TimeOut, GiveUp, Cancel,
         AutoClose
<1>3. ASSUME NEW l \in Labels, CloseWindow(l) \/ Back(l) PROVE FALSE
  BY <1>3 DEF CloseWindow, WindowClosed, Back
<1>4. ASSUME NEW u \in Tasks, NEW a \in Attempts, SelectProject(u, a) PROVE FALSE
  BY <1>0, <1>4 DEF SelectProject
<1>5. ASSUME NEW u \in Tasks, NEW a \in Attempts, CaptureGrok(u, a) PROVE FALSE
  BY <1>0, <1>5 DEF CaptureGrok, Captured
<1>6. ASSUME NEW u \in Tasks, NEW a \in Attempts, CaptureOpenCode(u, a) PROVE FALSE
  BY <1>0, <1>6 DEF CaptureOpenCode, Captured
<1>7. ASSUME NEW u \in Tasks, NEW a \in Attempts, NEW answer \in Answers, Redirect(u, a, answer)
      PROVE  FALSE
  BY <1>0, <1>7 DEF Redirect
<1>8. ASSUME NEW u \in Tasks, Poll(u) PROVE Waiting(task'[t].attempt)
  BY <1>0, <1>8 DEF Poll
<1>9. ASSUME NEW u \in Tasks, SelectEnds(u) PROVE FALSE
  BY <1>0, <1>9 DEF SelectEnds
<1>10. ASSUME NEW u \in Tasks, Claim(u) PROVE Waiting(task'[t].attempt)
  BY <1>0, <1>10 DEF Claim
<1>11. ASSUME NEW u \in Tasks, Exchange(u) PROVE FALSE
  BY <1>0, <1>11 DEF Exchange
<1>12. ASSUME NEW u \in Tasks, Identify(u) PROVE FALSE
  BY <1>0, <1>12 DEF Identify
<1>13. ASSUME NEW u \in Tasks, PersistCode(u) PROVE FALSE
  BY <1>0, <1>13 DEF PersistCode
<1>14. ASSUME NEW u \in Tasks, FinishCode(u) PROVE FALSE
  BY <1>0, <1>14 DEF FinishCode
<1>15. ASSUME NEW u \in Tasks, ExchangeFails(u) PROVE FALSE
  BY <1>0, <1>15 DEF ExchangeFails
<1>16. ASSUME NEW u \in Tasks, KeepCode(u) PROVE FALSE
  BY <1>0, <1>16 DEF KeepCode
<1>17. ASSUME NEW u \in Tasks, QueueCode(u) PROVE FALSE
  BY <1>0, <1>17 DEF QueueCode
<1>18. ASSUME NEW u \in Tasks, StudioCallback(u) PROVE FALSE
  BY <1>0, <1>18 DEF StudioCallback
<1>19. ASSUME NEW u \in Tasks, StudioGrant(u) PROVE FALSE
  BY <1>0, <1>19 DEF StudioGrant
<1>20. ASSUME NEW u \in Tasks, StudioOutcome(u) PROVE FALSE
  BY <1>0, <1>20 DEF StudioOutcome
<1>21. ASSUME NEW u \in Tasks, StudioPanics(u) PROVE FALSE
  BY <1>0, <1>21 DEF StudioPanics
<1>22. ASSUME NEW u \in Tasks, NotSignedIn(u) PROVE FALSE
  BY <1>0, <1>22 DEF NotSignedIn
<1>23. ASSUME NEW u \in Tasks, SignedIn(u) PROVE FALSE
  BY <1>0, <1>23 DEF SignedIn
<1>24. ASSUME NEW u \in Tasks, PersistCookie(u) PROVE FALSE
  BY <1>0, <1>24 DEF PersistCookie
<1>25. ASSUME NEW u \in Tasks, FinishCookie(u) PROVE FALSE
  BY <1>0, <1>25 DEF FinishCookie
<1>26. ASSUME NEW u \in Tasks, RefreshFails(u) PROVE FALSE
  BY <1>0, <1>26 DEF RefreshFails
<1> QED
  BY <1>1, <1>2, <1>3, <1>4, <1>5, <1>6, <1>7, <1>8, <1>9, <1>10, <1>11, <1>12,
     <1>13, <1>14, <1>15, <1>16, <1>17, <1>18, <1>19, <1>20, <1>21, <1>22,
     <1>23, <1>24, <1>25, <1>26
     DEF Next, StartStep, TimerStep, TaskStep, Environment

(* What only a phone does begins no exchange. *)
LEMMA PhoneExchangesNothing ==
  ASSUME MobileTypeOK, PhoneStep, NEW t \in Tasks, task'[t].at = "exchange"
  PROVE  task[t].at = "exchange"
<1>0. /\ task \in [Tasks -> [at : Stages, attempt : Attempts \cup {None},
                               from : {"callback", "poll", "capture", "select", None}]]
  BY DEF MobileTypeOK, TypeOK
<1> USE DEF vars, Answers, Request
<1>1. ASSUME NEW a \in Attempts,
             OpenInWebView(a) \/ OpenTab(a) \/ GiveUpWaiting(a) \/ Leave(a) \/
             EndPoll(a) \/ HoldEnds(a) \/ Reload(a) \/ Abandon(a) \/ Notice(a) \/
             TabEnds(a) \/ TabWasClosed(a) \/ TabReturns(a) \/ GoBack(a)
      PROVE  UNCHANGED task
  BY <1>1
     DEF OpenInWebView, OpenTab, GiveUpWaiting, Leave, EndPoll, HoldEnds,
         Reload, Abandon, Notice, TabEnds, TabWasClosed, TabReturns, GoBack
<1>2. ASSUME PageMoves \/ UserReturns \/ UserClosesTab PROVE UNCHANGED task
  BY <1>2 DEF PageMoves, UserReturns, UserClosesTab
<1>3. ASSUME NEW u \in Tasks, NEW a \in Attempts, NEW answer \in Answers, Intercept(u, a, answer)
      PROVE  task[t].at = "exchange"
  BY <1>0, <1>3 DEF Intercept, Free
<1>4. ASSUME NEW u \in Tasks, NEW a \in Attempts, CaptureOnPage(u, a)
      PROVE  task[t].at = "exchange"
  BY <1>0, <1>4 DEF CaptureOnPage, Read, Free
<1>5. ASSUME NEW u \in Tasks, NEW a \in Attempts, PollCookies(u, a)
      PROVE  task[t].at = "exchange"
  BY <1>0, <1>5 DEF PollCookies, Read, Free
<1>6. ASSUME NEW u \in Tasks, NotSignedInYet(u) PROVE task[t].at = "exchange"
  BY <1>0, <1>6 DEF NotSignedInYet, NotSignedIn, Free
<1>7. ASSUME NEW u \in Tasks, NEW answer \in Answers, PageRedirects(u, answer)
      PROVE  task[t].at = "exchange"
  BY <1>0, <1>7 DEF PageRedirects, Free
<1>8. ASSUME NEW u \in Tasks, NEW answer \in Answers, TabRedirects(u, answer)
      PROVE  task[t].at = "exchange"
  BY <1>0, <1>8 DEF TabRedirects, Free
<1> QED
  BY <1>1, <1>2, <1>3, <1>4, <1>5, <1>6, <1>7, <1>8 DEF PhoneStep

(* Each step is one of the login table's, or only a phone's. *)
LEMMA BuildSteps == ASSUME BuildNext PROVE Next \/ PhoneStep
<1>1. ASSUME NEW a \in Attempts,
             StartOf(a) \/ TimerOf(a) \/ WatchStep(a)
      PROVE  Next \/ PhoneStep
  BY <1>1
     DEF StartOf, TimerOf, WatchStep, MobileStart, StartStep, Next, PhoneStep
<1>2. ASSUME NEW t \in Tasks, TaskOf(t) PROVE Next \/ PhoneStep
  BY <1>2 DEF TaskOf, MobileTask, TaskStep, Next, PhoneStep
<1>3. CASE EnvironmentOf
  BY <1>3
     DEF EnvironmentOf, Environment, MobileEnvironment, Command, Next,
         PhoneStep
<1> QED BY <1>1, <1>2, <1>3 DEF BuildNext

(* Whatever ends an attempt stops its callback server, except on a phone    *)
(* whose WebView cannot load the sign-in page.                              *)
THEOREM EndedStopsServer == BuildSpec => ServerStops
<1> DEFINE Stops == \A a \in listening :
               Waiting(a) /\ ~Waiting(a)' => a \notin listening' \/ watch'[a] = "failed"
<1>1. ASSUME MobileTypeOK, SignInInv, [BuildNext]_allVars PROVE [Stops]_allVars
  <2>1. CASE Next
    BY <1>1, <2>1, EndStopsServer DEF MobileTypeOK, SignInInv
  <2>2. CASE PhoneStep
    BY <1>1, <2>2, PhoneStopsServer
  <2> QED BY <1>1, <2>1, <2>2, BuildSteps
<1> QED
  BY <1>1, SignInsAreSound, PTL DEF BuildSpec, ServerStops

(* No code is exchanged for an attempt that has ended. *)
THEOREM EndedIsNotExchanged == BuildSpec => NoExchangeOnceEnded
<1> DEFINE Asks == \A t \in Tasks :
               task[t].at # "exchange" /\ task'[t].at = "exchange" => Waiting(task'[t].attempt)
<1>1. ASSUME MobileTypeOK, [BuildNext]_allVars PROVE [Asks]_vars
  <2>1. CASE Next
    BY <1>1, <2>1, ExchangeAsks DEF MobileTypeOK
  <2>2. CASE PhoneStep
    BY <1>1, <2>2, PhoneExchangesNothing
  <2>3. CASE UNCHANGED allVars
    BY <2>3 DEF allVars
  <2> QED BY <1>1, <2>1, <2>2, <2>3, BuildSteps
<1> QED
  BY <1>1, TypeCorrect, PTL DEF BuildSpec, NoExchangeOnceEnded

(* A watch that is late touches neither the page nor the tab of the sign-in *)
(* that waits by now.                                                       *)
THEOREM LateWatchIsHarmless == BuildSpec => NewerSignInIsKept
<1> DEFINE Kept == \A a, b \in Attempts :
               a # b /\ Waiting(b) /\ WatchStep(a)
                  => (page.of = b => page' = page) /\ (tab = b => tab' = tab)
<1>1. Kept
  <2> SUFFICES ASSUME NEW a \in Attempts, NEW b \in Attempts, a # b, Waiting(b), WatchStep(a)
               PROVE  (page.of = b => page' = page) /\ (tab = b => tab' = tab)
    OBVIOUS
  <2>1. ~Current(a) /\ Ended(a)
    BY DEF Current, Ended, Waiting
  <2> QED
    BY <2>1 DEF WatchStep, Leave, EndPoll, HoldEnds, Reload, Abandon, Notice, SeesPage, TabEnds,
       TabWasClosed, TabReturns, CaptureOnPage, Intercept, WatchEnds, webVars, tabVars
<1> QED
  BY <1>1, PTL DEF BuildSpec, NewerSignInIsKept

=============================================================================
