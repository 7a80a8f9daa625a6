------------------------- MODULE PairingSessionProofs -------------------------
(***************************************************************************)
(* What PairingSession keeps in every instance: its types, that an active  *)
(* session always has a task or a handler about to remove it, and, when no *)
(* link is followed twice, that the code a user compared is the code that  *)
(* was confirmed and that a session dismissed before its confirmation      *)
(* transfers nothing.  At the end, what the usage history keeps of a       *)
(* removed account (UsageHistory).                                         *)
(***************************************************************************)
EXTENDS PairingSession, UsageHistory, TLAPS

(* Host and client sessions are installed alike. *)
USE DEF InstallHost, InstallClient, Installs

-----------------------------------------------------------------------------
(* The commands.                                                           *)

Places == {"ready", "lookup", "found", "reset", "resetOff", "bind", "parse", "status",
           "install", "take", "answer", "ok", "failed"}

(* A command that goes on to another place stays a command. *)
LEMMA Continues ==
  ASSUME call \in [Calls -> Commands], NEW c \in Calls, NEW where \in Places,
         Goto(c, where)
  PROVE  call' \in [Calls -> Commands]
BY DEF Goto, Commands, Places

(* A command that returns leaves a command. *)
LEMMA Returns ==
  ASSUME call \in [Calls -> Commands], NEW c \in Calls, NEW where \in Places,
         Return(c, where)
  PROVE  call' \in [Calls -> Commands]
<1>1. [Idle EXCEPT !.at = where, !.kind = call[c].kind,
                   !.superseded = call[c].superseded] \in Commands
  BY DEF Commands, Places, Idle
<1> QED BY <1>1 DEF Return

(* Cancelling changes its own command and marks those it overtakes. *)
LEMMA Cancels ==
  ASSUME call \in [Calls -> Commands], NEW c \in Calls,
         NEW kind \in {"host", "client", "cancel"}, NEW next \in Places,
         Cancel(c, kind, next)
  PROVE  call' \in [Calls -> Commands]
<1>1. call'[c] \in Commands
  <2>1. [call[c] EXCEPT !.kind = kind, !.at = next] \in Commands
    BY DEF Commands, Places
  <2> QED BY <2>1 DEF Cancel
<1>2. ASSUME NEW d \in Calls, d # c PROVE call'[d] \in Commands
  <2> DEFINE overtaken == kind = "cancel" /\ call[d].at \in {"bind", "status", "install"}
  <2>1. call'[d] = [call[d] EXCEPT !.superseded = @ \/ overtaken]
    BY <1>2 DEF Cancel
  <2>2. call[d].superseded \in BOOLEAN
    BY DEF Commands
  <2>3. (call[d].superseded \/ overtaken) \in BOOLEAN
    BY <2>2
  <2>4. ASSUME NEW x \in BOOLEAN PROVE [call[d] EXCEPT !.superseded = x] \in Commands
    BY DEF Commands
  <2> HIDE DEF overtaken
  <2> QED BY <2>1, <2>3, <2>4
<1>3. call' = [d \in Calls |-> call'[d]]
  BY DEF Cancel
<1> QED BY <1>1, <1>2, <1>3

(* Every step leaves every command a command. *)
LEMMA CommandStep ==
  ASSUME TypeOK, [Next]_vars
  PROVE  call' \in [Calls -> Commands]
<1>1. /\ call \in [Calls -> Commands] /\ epoch \in Nat
      /\ status \in [kind : Kinds, run : Runs \cup {None}]
      /\ status.kind = "sas" => status.run \in Runs
      /\ sid \in [Runs -> Runs \cup Links \cup {None}]
      /\ sasSlot \in Runs \cup {None}
  BY DEF TypeOK
<1>2. ASSUME NEW c \in Calls, StartHost(c) PROVE call' \in [Calls -> Commands]
  BY <1>1, <1>2, Cancels DEF StartHost, Places
<1>3. ASSUME NEW c \in Calls, StartClient(c) PROVE call' \in [Calls -> Commands]
  BY <1>1, <1>3, Cancels DEF StartClient, Places
<1>4. ASSUME NEW c \in Calls, StartClientByCode(c) PROVE call' \in [Calls -> Commands]
  <2>1. [call[c] EXCEPT !.kind = "code", !.at = "lookup"] \in Commands
    BY ZenonT(60), <1>1 DEF Commands
  <2>2. call' = [call EXCEPT ![c] = [call[c] EXCEPT !.kind = "code", !.at = "lookup"]]
    BY <1>1, <1>4 DEF StartClientByCode
  <2> QED BY <1>1, <2>1, <2>2
<1>5. ASSUME NEW c \in Calls, LookUp(c) PROVE call' \in [Calls -> Commands]
  BY <1>1, <1>5, Continues, Returns DEF LookUp, Places
<1>6. ASSUME NEW c \in Calls, CancelCommand(c) PROVE call' \in [Calls -> Commands]
  BY <1>1, <1>6, Cancels DEF CancelCommand, Places
<1>7. ASSUME NEW c \in Calls, CancelCommandEnds(c) PROVE call' \in [Calls -> Commands]
  BY <1>1, <1>7, Returns DEF CancelCommandEnds, Places
<1>8. ASSUME NEW c \in Calls, ResetOptions(c) PROVE call' \in [Calls -> Commands]
  <2>1. ASSUME NEW next \in {"bind", "parse"}
        PROVE  [call[c] EXCEPT !.epoch = epoch + 1, !.at = next] \in Commands
    <3>1. call[c] \in Commands /\ epoch + 1 \in Nat
      BY <1>1
    <3> QED BY <3>1 DEF Commands
  <2>2. \E next \in {"bind", "parse"} :
          call' = [call EXCEPT ![c] = [call[c] EXCEPT !.epoch = epoch + 1, !.at = next]]
    BY <1>1, <1>8 DEF ResetOptions
  <2> QED BY <1>1, <2>1, <2>2
<1>9. ASSUME NEW c \in Calls, BindListener(c) PROVE call' \in [Calls -> Commands]
  BY <1>1, <1>9, Continues, Returns DEF BindListener, Places
<1>10. ASSUME NEW c \in Calls, ParseLink(c) PROVE call' \in [Calls -> Commands]
  <2>1. ASSUME NEW l \in Links, call' = [call EXCEPT ![c].at = "status", ![c].link = l]
        PROVE  call' \in [Calls -> Commands]
    <3>1. [call[c] EXCEPT !.at = "status", !.link = l] \in Commands
      BY ZenonT(60), <1>1 DEF Commands
    <3> QED BY <1>1, <2>1, <3>1
  <2> QED BY <1>1, <1>10, <2>1, Returns DEF ParseLink, Places
<1>11. ASSUME NEW c \in Calls, PublishStart(c) PROVE call' \in [Calls -> Commands]
  <2>1. PICK r \in Runs : call' = [call EXCEPT ![c].at = "install", ![c].run = r]
    BY <1>11 DEF PublishStart
  <2>2. [call[c] EXCEPT !.at = "install", !.run = r] \in Commands
    BY ZenonT(60), <1>1 DEF Commands
  <2> QED BY <1>1, <2>1, <2>2
<1>12. ASSUME NEW c \in Calls, Install(c) PROVE call' \in [Calls -> Commands]
  BY <1>1, <1>12, Returns DEF Install, Places
<1>13. ASSUME NEW c \in Calls, ClickConfirm(c) PROVE call' \in [Calls -> Commands]
  <2>1. [call[c] EXCEPT !.kind = "confirm", !.at = "take",
                             !.seen = status.run, !.link = sid[status.run]] \in Commands
    BY ZenonT(60), <1>1, <1>13 DEF Commands, ClickConfirm
  <2>2. call' = [call EXCEPT ![c] = [call[c] EXCEPT !.kind = "confirm", !.at = "take",
                             !.seen = status.run, !.link = sid[status.run]]]
    BY <1>1, <1>13 DEF ClickConfirm
  <2> QED BY <1>1, <2>1, <2>2
<1>14. ASSUME NEW c \in Calls, TakeConfirm(c) PROVE call' \in [Calls -> Commands]
  <2>1. ASSUME NEW r \in Runs, call' = [call EXCEPT ![c].at = "answer", ![c].run = r]
        PROVE  call' \in [Calls -> Commands]
    <3>1. [call[c] EXCEPT !.at = "answer", !.run = r] \in Commands
      BY ZenonT(60), <1>1 DEF Commands
    <3> QED BY <1>1, <2>1, <3>1
  <2> QED BY <1>1, <1>14, <2>1, Returns DEF TakeConfirm, Places
<1>15. ASSUME NEW c \in Calls, AnswerConfirm(c) PROVE call' \in [Calls -> Commands]
  BY <1>1, <1>15, Returns DEF AnswerConfirm, Places
<1>16. ASSUME SelectRole \/ SetInclude \/ PrepareAirgapExport PROVE call' = call
  BY <1>16 DEF SelectRole, SetInclude, PrepareAirgapExport
<1>17. ASSUME NEW r \in Runs, TaskStep(r) PROVE call' = call
  BY <1>17
     DEF TaskStep, HostCancelled, HostRoleTimesOut, ClientConnectFails,
         OfferRole, OfferSas, ClientCancelled, ClientRoleLost,
         ClientRolePicked, HostRefuses, ConfirmCancelled, UserRejects,
         UserConfirms, ConfirmFails, BeginTransfer, Export, ExportFails,
         ClearAfterExport, TransferFails, Ends, Moves, Quiet
<1>18. ASSUME NEW r \in Runs, Peer(r) PROVE call' = call
  BY <1>18
     DEF Peer, PeerConnects, PeerLeaves, PeerPicksRole, ClientConnects,
         HostResponds, PeerConfirms, Completes, PayloadTaken, WriteFails,
         Ends, Moves, Quiet
<1>19. ASSUME NEW r \in Runs, HostExpires(r) \/ Handler(r) PROVE call' = call
  BY <1>19 DEF HostExpires, Handler, HandleEvent, ClearActive, Ends, Moves
<1>20. ASSUME UNCHANGED vars PROVE call' = call
  BY <1>20 DEF vars
<1> QED
  BY <1>1, <1>2, <1>3, <1>4, <1>5, <1>6, <1>7, <1>8, <1>9, <1>10, <1>11, <1>12,
     <1>13, <1>14, <1>15, <1>16, <1>17, <1>18, <1>19, <1>20
  DEF Next, Page, CallStep

-----------------------------------------------------------------------------
(* Types.                                                                  *)

(* What replacing the active session leaves of the slots and the answers. *)
LEMMA SetActiveTyped ==
  ASSUME TypeOK, NEW x \in Runs \cup {None}, SetActive(x)
  PROVE  /\ active' \in Runs \cup {None}
         /\ roleSlot' \in Runs \cup {None} /\ sasSlot' \in Runs \cup {None}
         /\ roleAnswer' \in [Runs -> Answers] /\ sasAnswer' \in [Runs -> Answers]
         /\ dismissed' \subseteq Runs
BY DEF TypeOK, SetActive, Lost, Answers

(* Every step keeps the types: one step per action. *)
LEMMA TypeStep == TypeOK /\ [Next]_vars => TypeOK'
<1> SUFFICES ASSUME TypeOK, [Next]_vars PROVE TypeOK'
  OBVIOUS
<1>0. call' \in [Calls -> Commands]
  BY CommandStep
<1> USE CapacityAssumption, <1>0
    DEF TypeOK, Kinds, Stages, Answers, vars, managerVars, optionVars, channelVars, historyVars
<1>1. ASSUME NEW c \in Calls, StartHost(c) PROVE TypeOK'
  <2>1. SetActive(None) /\ status' = [kind |-> "idle", run |-> None]
    BY <1>1 DEF StartHost, Cancel
  <2>2. None \in Runs \cup {None}
    OBVIOUS
  <2>3. /\ active' \in Runs \cup {None}
        /\ roleSlot' \in Runs \cup {None} /\ sasSlot' \in Runs \cup {None}
        /\ roleAnswer' \in [Runs -> Answers] /\ sasAnswer' \in [Runs -> Answers]
        /\ dismissed' \subseteq Runs
    BY <2>1, <2>2, SetActiveTyped
  <2> QED BY <1>1, <2>1, <2>3 DEF StartHost
<1>2. ASSUME NEW c \in Calls, StartClient(c) PROVE TypeOK'
  <2>1. SetActive(None) /\ status' = [kind |-> "idle", run |-> None]
    BY <1>2 DEF StartClient, Cancel
  <2>2. None \in Runs \cup {None}
    OBVIOUS
  <2>3. /\ active' \in Runs \cup {None}
        /\ roleSlot' \in Runs \cup {None} /\ sasSlot' \in Runs \cup {None}
        /\ roleAnswer' \in [Runs -> Answers] /\ sasAnswer' \in [Runs -> Answers]
        /\ dismissed' \subseteq Runs
    BY <2>1, <2>2, SetActiveTyped
  <2> QED BY <1>2, <2>1, <2>3 DEF StartClient
<1>3. ASSUME NEW c \in Calls, StartClientByCode(c) PROVE TypeOK'
  BY <1>3 DEF StartClientByCode, KeepActive
<1>4. ASSUME NEW c \in Calls, LookUp(c) PROVE TypeOK'
  BY <1>4 DEF LookUp
<1>5. ASSUME NEW c \in Calls, CancelCommand(c) PROVE TypeOK'
  <2>1. SetActive(None) /\ status' = [kind |-> "idle", run |-> None]
    BY <1>5 DEF CancelCommand, Cancel
  <2>2. None \in Runs \cup {None}
    OBVIOUS
  <2>3. /\ active' \in Runs \cup {None}
        /\ roleSlot' \in Runs \cup {None} /\ sasSlot' \in Runs \cup {None}
        /\ roleAnswer' \in [Runs -> Answers] /\ sasAnswer' \in [Runs -> Answers]
        /\ dismissed' \subseteq Runs
    BY <2>1, <2>2, SetActiveTyped
  <2> QED BY <1>5, <2>1, <2>3 DEF CancelCommand
<1>6. ASSUME NEW c \in Calls, CancelCommandEnds(c) PROVE TypeOK'
  BY <1>6 DEF CancelCommandEnds
<1>7. ASSUME NEW c \in Calls, ResetOptions(c) PROVE TypeOK'
  <2>1. epoch + 1 \in Nat
    OBVIOUS
  <2>2. epoch' \in Nat /\ live' \in BOOLEAN /\ frozen' \in BOOLEAN \cup {None}
    BY <1>7, <2>1 DEF ResetOptions
  <2> QED BY <1>7, <2>2 DEF ResetOptions
<1>8. ASSUME NEW c \in Calls, BindListener(c) PROVE TypeOK'
  BY <1>8 DEF BindListener
<1>9. ASSUME NEW c \in Calls, ParseLink(c) PROVE TypeOK'
  BY <1>9 DEF ParseLink
<1>10. ASSUME NEW c \in Calls, PublishStart(c) PROVE TypeOK'
  BY <1>10 DEF PublishStart, KeepActive
<1>11. ASSUME NEW c \in Calls, Install(c) PROVE TypeOK'
  <2>1. PICK r \in Runs \cup {None} : r = call[c].run
    BY DEF Commands
  <2>2. SetActive(r)
    BY <1>11, <2>1 DEF Install
  <2>3. /\ active' \in Runs \cup {None}
        /\ roleSlot' \in Runs \cup {None} /\ sasSlot' \in Runs \cup {None}
        /\ roleAnswer' \in [Runs -> Answers] /\ sasAnswer' \in [Runs -> Answers]
        /\ dismissed' \subseteq Runs
    BY <2>1, <2>2, SetActiveTyped
  <2>4. /\ task' \in [Runs -> Stages]
        /\ handler' \in [Runs -> {"unused", "listen", "clear", "done"}]
        /\ sid' \in [Runs -> Runs \cup Links \cup {None}]
    <3>1. call[c].link \in Runs \cup Links \cup {None}
      BY DEF Commands
    <3>2. CASE InstallHost(c)
      BY <2>1, <3>2
    <3>3. CASE InstallClient(c)
      BY <2>1, <3>1, <3>3
    <3> QED BY <1>11, <3>2, <3>3 DEF Install
  <2> QED BY <1>11, <2>3, <2>4 DEF Install
<1>12. ASSUME NEW c \in Calls, ClickConfirm(c) PROVE TypeOK'
  BY <1>12 DEF ClickConfirm
<1>13. ASSUME NEW c \in Calls, TakeConfirm(c) PROVE TypeOK'
  BY ZenonT(60), <1>13 DEF TakeConfirm
<1>14. ASSUME NEW c \in Calls, AnswerConfirm(c) PROVE TypeOK'
  <2>1. ExportedExtras \in BOOLEAN
    BY DEF ExportedExtras
  <2>2. call[c].seen \in Runs \cup {None}
    BY DEF Commands
  <2>3. ASSUME frozen' = ExportedExtras PROVE frozen' \in BOOLEAN \cup {None}
    BY <2>1, <2>3
  <2>4. frozen' \in BOOLEAN \cup {None}
    BY <1>14, <2>3 DEF AnswerConfirm
  <2>5. sasAnswer' \in [Runs -> Answers]
    BY <1>14 DEF AnswerConfirm
  <2>6. compared' \in [Runs -> Runs \cup {None}]
    BY <1>14, <2>2 DEF AnswerConfirm
  <2> QED BY <1>14, <2>4, <2>5, <2>6 DEF AnswerConfirm
<1>15. CASE SelectRole
  BY <1>15 DEF SelectRole
<1>16. CASE SetInclude
  BY <1>16 DEF SetInclude
<1>17. CASE PrepareAirgapExport
  BY <1>17 DEF PrepareAirgapExport
<1>18. ASSUME NEW r \in Runs, HostCancelled(r) PROVE TypeOK'
  BY <1>18 DEF HostCancelled, Ends, Moves, Emit
<1>19. ASSUME NEW r \in Runs, HostExpires(r) PROVE TypeOK'
  BY <1>19 DEF HostExpires, Ends, Moves, Emit
<1>20. ASSUME NEW r \in Runs, PeerConnects(r) PROVE TypeOK'
  BY <1>20 DEF PeerConnects, Moves, Emit
<1>21. ASSUME NEW r \in Runs, PeerLeaves(r) PROVE TypeOK'
  BY <1>21 DEF PeerLeaves, Moves, Quiet
<1>22. ASSUME NEW r \in Runs, PeerPicksRole(r) PROVE TypeOK'
  BY <1>22 DEF PeerPicksRole, Moves
<1>23. ASSUME NEW r \in Runs, HostRoleTimesOut(r) PROVE TypeOK'
  BY <1>23 DEF HostRoleTimesOut, Ends, Moves, Emit
<1>24. ASSUME NEW r \in Runs, ClientConnects(r) PROVE TypeOK'
  BY <1>24 DEF ClientConnects, Ends, Moves, Emit, Quiet
<1>25. ASSUME NEW r \in Runs, ClientConnectFails(r) PROVE TypeOK'
  BY <1>25 DEF ClientConnectFails, Ends, Moves, Emit
<1>26. ASSUME NEW r \in Runs, OfferRole(r) PROVE TypeOK'
  BY <1>26 DEF OfferRole, Emit, Accepts
<1>27. ASSUME NEW r \in Runs, OfferSas(r) PROVE TypeOK'
  BY <1>27 DEF OfferSas, Emit, Accepts
<1>28. ASSUME NEW r \in Runs, ClientCancelled(r) PROVE TypeOK'
  BY <1>28 DEF ClientCancelled, Ends, Moves, Emit, Quiet
<1>29. ASSUME NEW r \in Runs, ClientRoleLost(r) PROVE TypeOK'
  BY <1>29 DEF ClientRoleLost, Ends, Moves, Emit, Quiet
<1>30. ASSUME NEW r \in Runs, ClientRolePicked(r) PROVE TypeOK'
  BY <1>30 DEF ClientRolePicked, Ends, Moves, Emit, Quiet
<1>31. ASSUME NEW r \in Runs, HostResponds(r) PROVE TypeOK'
  BY <1>31 DEF HostResponds, Ends, Moves, Emit, Quiet
<1>32. ASSUME NEW r \in Runs, HostRefuses(r) PROVE TypeOK'
  BY <1>32 DEF HostRefuses, Ends, Moves, Emit
<1>33. ASSUME NEW r \in Runs, ConfirmCancelled(r) PROVE TypeOK'
  BY <1>33 DEF ConfirmCancelled, Ends, Moves, Emit, Quiet
<1>34. ASSUME NEW r \in Runs, UserRejects(r) PROVE TypeOK'
  BY <1>34 DEF UserRejects, Ends, Moves, Emit, Quiet
<1>35. ASSUME NEW r \in Runs, UserConfirms(r) PROVE TypeOK'
  BY <1>35 DEF UserConfirms, Moves, Quiet
<1>36. ASSUME NEW r \in Runs, PeerConfirms(r) PROVE TypeOK'
  BY <1>36 DEF PeerConfirms
<1>37. ASSUME NEW r \in Runs, ConfirmFails(r) PROVE TypeOK'
  <2>1. CASE Ends(r, "confirm", "failed")
    BY <2>1 DEF Ends, Moves, Emit
  <2>2. CASE Ends(r, "confirmed", "failed")
    BY <2>2 DEF Ends, Moves, Emit
  <2> QED BY <1>37, <2>1, <2>2 DEF ConfirmFails
<1>38. ASSUME NEW r \in Runs, BeginTransfer(r) PROVE TypeOK'
  BY <1>38 DEF BeginTransfer, Moves, Emit
<1>39. ASSUME NEW r \in Runs, Export(r) PROVE TypeOK'
  BY <1>39 DEF Export, Moves, Quiet
<1>40. ASSUME NEW r \in Runs, ExportFails(r) PROVE TypeOK'
  BY <1>40 DEF ExportFails, Ends, Moves, Emit
<1>41. ASSUME NEW r \in Runs, ClearAfterExport(r) PROVE TypeOK'
  BY <1>41 DEF ClearAfterExport
<1>42. ASSUME NEW r \in Runs, Completes(r) PROVE TypeOK'
  BY <1>42 DEF Completes, Ends, Moves, Emit
<1>43. ASSUME NEW r \in Runs, TransferFails(r) PROVE TypeOK'
  BY <1>43 DEF TransferFails, Ends, Moves, Emit
<1>44. ASSUME NEW r \in Runs, HandleEvent(r) PROVE TypeOK'
  BY <1>44 DEF HandleEvent, KeepActive, Terminal
<1>45. ASSUME NEW r \in Runs, ClearActive(r) PROVE TypeOK'
  <2>1. SetActive(None) \/ KeepActive
    BY <1>45 DEF ClearActive
  <2>2. None \in Runs \cup {None}
    OBVIOUS
  <2>3. /\ active' \in Runs \cup {None}
        /\ roleSlot' \in Runs \cup {None} /\ sasSlot' \in Runs \cup {None}
        /\ roleAnswer' \in [Runs -> Answers] /\ sasAnswer' \in [Runs -> Answers]
        /\ dismissed' \subseteq Runs
    BY <2>1, <2>2, SetActiveTyped DEF KeepActive
  <2> QED BY <1>45, <2>3 DEF ClearActive
<1>46. CASE UNCHANGED vars
  BY <1>46 DEF vars
<1>47. ASSUME NEW r \in Runs, PayloadTaken(r) PROVE TypeOK'
  BY <1>47 DEF PayloadTaken, Moves, Quiet
<1>48. ASSUME NEW r \in Runs, WriteFails(r) PROVE TypeOK'
  BY <1>48 DEF WriteFails, Ends, Moves, Emit
<1> QED
  BY <1>1, <1>2, <1>3, <1>4, <1>5, <1>6, <1>7, <1>8, <1>9, <1>10, <1>11, <1>12,
     <1>13, <1>14, <1>15, <1>16, <1>17, <1>18, <1>19, <1>20, <1>21, <1>22,
     <1>23, <1>24, <1>25, <1>26, <1>27, <1>28, <1>29, <1>30, <1>31, <1>32,
     <1>33, <1>34, <1>35, <1>36, <1>37, <1>38, <1>39, <1>40, <1>41, <1>42,
     <1>43, <1>44, <1>45, <1>46, <1>47, <1>48
  DEF Next, Page, CallStep, TaskStep, Peer, Handler

(* Every variable of the pairing session keeps its type. *)
THEOREM TypeCorrect == Spec => []TypeOK
<1>1. Init => TypeOK
  <2> SUFFICES ASSUME Init PROVE TypeOK
    OBVIOUS
  <2>1. Idle \in Commands
    BY DEF Idle, Commands
  <2>2. call \in [Calls -> Commands]
    BY <2>1 DEF Init
  <2>3. events \in [Runs -> Seq(Kinds)] /\ \A r \in Runs : Len(events[r]) <= Capacity
    BY CapacityAssumption DEF Init
  <2> QED BY <2>2, <2>3 DEF Init, TypeOK, Kinds, Stages, Answers
<1> QED
  BY <1>1, TypeStep, PTL DEF Spec

-----------------------------------------------------------------------------
(* What a command does to the commands.                                    *)

Alone(c) == \A d \in Calls \ {c} : call'[d] = call[d]

(* A command that cancels nothing leaves the others alone. *)
LEMMA LeavesOthersAlone ==
  ASSUME call \in [Calls -> Commands], NEW c \in Calls,
         \/ StartClientByCode(c) \/ ClickConfirm(c)
         \/ CallStep(c)
  PROVE  Alone(c)
<1>1. CASE StartClientByCode(c)
  BY <1>1 DEF StartClientByCode, Alone
<1>2. CASE ClickConfirm(c)
  BY <1>2 DEF ClickConfirm, Alone
<1>3. CASE ResetOptions(c)
  BY <1>3 DEF ResetOptions, Alone
<1>4. CASE BindListener(c) \/ LookUp(c)
  BY <1>4 DEF BindListener, LookUp, Goto, Return, Alone
<1>5. CASE ParseLink(c)
  BY <1>5 DEF ParseLink, Return, Alone
<1>6. CASE PublishStart(c)
  BY <1>6 DEF PublishStart, Alone
<1>7. CASE Install(c) \/ CancelCommandEnds(c) \/ AnswerConfirm(c)
  BY <1>7 DEF Install, CancelCommandEnds, AnswerConfirm, Return, Alone
<1>8. CASE TakeConfirm(c)
  BY <1>8 DEF TakeConfirm, Return, Alone
<1> QED
  BY <1>1, <1>2, <1>3, <1>4, <1>5, <1>6, <1>7, <1>8 DEF CallStep

(* A command arrives where it goes, or at its result, and stays of its kind. *)
LEMMA Arrives ==
  ASSUME call \in [Calls -> Commands], NEW c \in Calls, NEW where \in Places
  PROVE  Goto(c, where) \/ Return(c, where) =>
           call'[c].at = where /\ call'[c].kind = call[c].kind
<1>0. call[c] \in Commands
  OBVIOUS
<1>1. Goto(c, where) => call'[c].at = where /\ call'[c].kind = call[c].kind
  BY <1>0 DEF Goto, Commands
<1>2. Return(c, where) => call'[c].at = where /\ call'[c].kind = call[c].kind
  BY <1>0 DEF Return, Idle
<1> QED BY <1>1, <1>2

(* Where a command goes, and what it keeps. *)
LEMMA CommandGoes ==
  ASSUME call \in [Calls -> Commands], NEW c \in Calls
  PROVE  /\ StartClientByCode(c) => call'[c].at = "lookup"
         /\ ClickConfirm(c) =>
              /\ call'[c].at = "take" /\ call'[c].seen = status.run
              /\ call'[c].link = sid[status.run]
         /\ ResetOptions(c) =>
              /\ call'[c].at = IF call[c].kind = "host" THEN "bind" ELSE "parse"
              /\ call'[c].kind = call[c].kind
         /\ BindListener(c) =>
              /\ call'[c].at \in {"status", "failed"} /\ call'[c].kind = call[c].kind
         /\ LookUp(c) => call'[c].at \in {"found", "failed"}
         /\ CancelCommandEnds(c) \/ Install(c) \/ AnswerConfirm(c) => call'[c].at = "ok"
<1>0. call[c] \in Commands
  OBVIOUS
<1>1. StartClientByCode(c) => call'[c].at = "lookup"
  BY <1>0 DEF StartClientByCode, Commands
<1>2. ClickConfirm(c) =>
        /\ call'[c].at = "take" /\ call'[c].seen = status.run
        /\ call'[c].link = sid[status.run]
  BY <1>0 DEF ClickConfirm, Commands
<1>3. ResetOptions(c) =>
        /\ call'[c].at = IF call[c].kind = "host" THEN "bind" ELSE "parse"
        /\ call'[c].kind = call[c].kind
  BY <1>0 DEF ResetOptions, Commands
<1>4. BindListener(c) =>
        /\ call'[c].at \in {"status", "failed"} /\ call'[c].kind = call[c].kind
  BY Arrives DEF BindListener, Places
<1>5. LookUp(c) => call'[c].at \in {"found", "failed"}
  BY Arrives DEF LookUp, Places
<1>6. CancelCommandEnds(c) \/ Install(c) \/ AnswerConfirm(c) => call'[c].at = "ok"
  BY <1>0 DEF CancelCommandEnds, Install, AnswerConfirm, Return, Idle
<1> QED BY <1>1, <1>2, <1>3, <1>4, <1>5, <1>6

(* A parsed link, a published start and a taken sender go into the command. *)
LEMMA CommandTakes ==
  ASSUME call \in [Calls -> Commands], NEW c \in Calls
  PROVE  /\ ParseLink(c) =>
              \/ call'[c].at = "failed"
              \/ /\ call'[c].at = "status" /\ call'[c].kind = call[c].kind
                 /\ call'[c].link \in Links
                 /\ Rescans \/ call'[c].link \notin {sid[r] : r \in Runs}
                                                  \cup {call[d].link : d \in Calls}
         /\ PublishStart(c) =>
              /\ call'[c].at = "install" /\ call'[c].kind = call[c].kind
              /\ call'[c].link = call[c].link
              /\ call'[c].run \in Runs /\ task[call'[c].run] = "unused"
              /\ \A d \in Calls : call[d].run # call'[c].run
              /\ status'.kind \in {"waiting", "connecting"}
         /\ TakeConfirm(c) =>
              \/ call'[c].at = "failed" /\ UNCHANGED <<sasAnswer, sasSlot>>
              \/ /\ active # None /\ sid[active] = call[c].link /\ sasSlot # None
                 /\ call'[c].at = "answer" /\ call'[c].run = sasSlot
                 /\ call'[c].seen = call[c].seen
                 /\ sasAnswer' = [sasAnswer EXCEPT ![sasSlot] = "taken"]
                 /\ sasSlot' = None
<1>0. call[c] \in Commands
  OBVIOUS
<1>1. ASSUME ParseLink(c)
      PROVE  \/ call'[c].at = "failed"
             \/ /\ call'[c].at = "status" /\ call'[c].kind = call[c].kind
                /\ call'[c].link \in Links
                /\ Rescans \/ call'[c].link \notin {sid[r] : r \in Runs}
                                                 \cup {call[d].link : d \in Calls}
  <2>1. CASE Return(c, "failed")
    BY <2>1, Arrives DEF Places
  <2>2. ASSUME NEW l \in Links, call' = [call EXCEPT ![c].at = "status", ![c].link = l]
        PROVE  /\ call'[c].at = "status" /\ call'[c].kind = call[c].kind
               /\ call'[c].link = l
    BY <1>0, <2>2 DEF Commands
  <2> QED BY <1>1, <2>1, <2>2 DEF ParseLink
<1>2. ASSUME PublishStart(c)
      PROVE  /\ call'[c].at = "install" /\ call'[c].kind = call[c].kind
             /\ call'[c].link = call[c].link
             /\ call'[c].run \in Runs /\ task[call'[c].run] = "unused"
             /\ \A d \in Calls : call[d].run # call'[c].run
             /\ status'.kind \in {"waiting", "connecting"}
  BY <1>0, <1>2 DEF PublishStart, Commands
<1>3. ASSUME TakeConfirm(c)
      PROVE  \/ call'[c].at = "failed" /\ UNCHANGED <<sasAnswer, sasSlot>>
             \/ /\ active # None /\ sid[active] = call[c].link /\ sasSlot # None
                /\ call'[c].at = "answer" /\ call'[c].run = sasSlot
                /\ call'[c].seen = call[c].seen
                /\ sasAnswer' = [sasAnswer EXCEPT ![sasSlot] = "taken"]
                /\ sasSlot' = None
  <2>1. CASE Return(c, "failed") /\ UNCHANGED <<sasAnswer, sasSlot>>
    BY <2>1, Arrives DEF Places
  <2>2. ASSUME call' = [call EXCEPT ![c].at = "answer", ![c].run = sasSlot]
        PROVE  /\ call'[c].at = "answer" /\ call'[c].run = sasSlot
               /\ call'[c].seen = call[c].seen
    BY <1>0, <2>2 DEF Commands
  <2> QED BY <1>3, <2>1, <2>2 DEF TakeConfirm
<1> QED BY <1>1, <1>2, <1>3

(* A command that cancels leaves the others what they were and where they    *)
(* were, but for the mark of having been overtaken.                          *)
LEMMA CancelSpares ==
  ASSUME call \in [Calls -> Commands], NEW c \in Calls,
         StartHost(c) \/ StartClient(c) \/ CancelCommand(c)
  PROVE  /\ SetActive(None) /\ status' = [kind |-> "idle", run |-> None]
         /\ \/ call'[c].at = "resetOff"
            \/ call'[c].at = "reset" /\ call'[c].kind \in {"host", "client"}
         /\ \A d \in Calls \ {c} :
              /\ call'[d].at = call[d].at /\ call'[d].kind = call[d].kind
              /\ call'[d].run = call[d].run /\ call'[d].seen = call[d].seen
              /\ call'[d].link = call[d].link
<1>1. PICK kind \in {"host", "client", "cancel"} :
        Cancel(c, kind, IF kind = "cancel" THEN "resetOff" ELSE "reset")
  BY DEF StartHost, StartClient, CancelCommand
<1>2. SetActive(None) /\ status' = [kind |-> "idle", run |-> None]
  BY <1>1 DEF Cancel
<1>3. \/ call'[c].at = "resetOff"
      \/ call'[c].at = "reset" /\ call'[c].kind \in {"host", "client"}
  BY <1>1 DEF Cancel, Commands
<1>4. ASSUME NEW d \in Calls \ {c}
      PROVE  /\ call'[d].at = call[d].at /\ call'[d].kind = call[d].kind
             /\ call'[d].run = call[d].run /\ call'[d].seen = call[d].seen
             /\ call'[d].link = call[d].link
  BY <1>1 DEF Cancel, Commands
<1> QED BY <1>2, <1>3, <1>4

-----------------------------------------------------------------------------
(* An active session is alive.                                             *)

\* A command that installs a session has its run.
InstallsRun == \A c \in Calls : At(c, "install") => call[c].run \in Runs

AliveInv == ActiveIsAlive /\ InstallsRun

(* Every step keeps an active session alive: the command that installs it    *)
(* starts its handler, and the handler's last step removes it.               *)
LEMMA AliveStep ==
  ASSUME TypeOK, AliveInv, [Next]_vars
  PROVE  AliveInv'
<1>0. /\ call \in [Calls -> Commands] /\ active \in Runs \cup {None}
      /\ handler \in [Runs -> {"unused", "listen", "clear", "done"}]
  BY DEF TypeOK
<1> USE <1>0, NoneAssumption DEF AliveInv, ActiveIsAlive, InstallsRun, At
<1>1. ASSUME NEW c \in Calls, StartHost(c) \/ StartClient(c) \/ CancelCommand(c)
      PROVE  AliveInv'
  BY <1>1, CancelSpares DEF SetActive
<1>2. ASSUME NEW c \in Calls, StartClientByCode(c) \/ ClickConfirm(c)
      PROVE  AliveInv'
  <2>1. UNCHANGED <<active, handler>>
    BY <1>2 DEF StartClientByCode, ClickConfirm, KeepActive, managerVars
  <2> QED BY <1>2, <2>1, LeavesOthersAlone, CommandGoes DEF Alone
<1>3. ASSUME NEW c \in Calls, ResetOptions(c) \/ BindListener(c) \/ LookUp(c)
                             \/ CancelCommandEnds(c) \/ AnswerConfirm(c)
      PROVE  AliveInv'
  <2>1. UNCHANGED <<active, handler>>
    BY <1>3
       DEF ResetOptions, BindListener, LookUp, CancelCommandEnds,
           AnswerConfirm, managerVars
  <2> QED BY <1>3, <2>1, LeavesOthersAlone, CommandGoes DEF Alone, CallStep
<1>4. ASSUME NEW c \in Calls, ParseLink(c) \/ PublishStart(c) \/ TakeConfirm(c)
      PROVE  AliveInv'
  <2>1. UNCHANGED <<active, handler>>
    BY <1>4 DEF ParseLink, PublishStart, TakeConfirm, KeepActive, managerVars
  <2> QED BY <1>4, <2>1, LeavesOthersAlone, CommandTakes DEF Alone, CallStep
<1>5. ASSUME NEW c \in Calls, Install(c) PROVE AliveInv'
  <2>1. active' = call[c].run /\ handler' = [handler EXCEPT ![call[c].run] = "listen"]
    BY <1>5 DEF Install, SetActive
  <2>2. call[c].run \in Runs
    BY <1>5 DEF Install
  <2> QED
    BY <1>5, <2>1, <2>2, LeavesOthersAlone, CommandGoes
       DEF Alone, CallStep
<1>7. ASSUME SelectRole \/ SetInclude \/ PrepareAirgapExport PROVE AliveInv'
  BY <1>7 DEF SelectRole, SetInclude, PrepareAirgapExport, managerVars
<1>8. ASSUME NEW r \in Runs, TaskStep(r) PROVE AliveInv'
  BY <1>8
     DEF TaskStep, HostCancelled, HostRoleTimesOut, ClientConnectFails,
         OfferRole, OfferSas, ClientCancelled, ClientRoleLost,
         ClientRolePicked, HostRefuses, ConfirmCancelled, UserRejects,
         UserConfirms, ConfirmFails, BeginTransfer, Export, ExportFails,
         ClearAfterExport, TransferFails, Ends, Moves, Quiet, managerVars
<1>9. ASSUME NEW r \in Runs, Peer(r) \/ HostExpires(r) PROVE AliveInv'
  BY <1>9
     DEF Peer, PeerConnects, PeerLeaves, PeerPicksRole, ClientConnects,
         HostResponds, PeerConfirms, Completes, PayloadTaken, WriteFails,
         HostExpires, Ends, Moves, Quiet, managerVars
<1>10. ASSUME NEW r \in Runs, HandleEvent(r) PROVE AliveInv'
  BY <1>10 DEF HandleEvent, KeepActive
<1>11. ASSUME NEW r \in Runs, ClearActive(r) PROVE AliveInv'
  BY <1>11 DEF ClearActive, SetActive, KeepActive
<1>12. CASE UNCHANGED vars
  BY <1>12 DEF vars, managerVars
<1> QED
  BY <1>1, <1>2, <1>3, <1>4, <1>5, <1>7, <1>8, <1>9, <1>10, <1>11, <1>12
  DEF Next, Page, CallStep, Handler

(* An active session has a task, or a handler that is about to remove it:    *)
(* a session that ended never blocks the ones after it.                      *)
THEOREM ActiveStaysAlive == Spec => []ActiveIsAlive
<1>1. Init => AliveInv
  BY DEF Init, AliveInv, ActiveIsAlive, InstallsRun, At, Idle
<1>2. TypeOK /\ AliveInv /\ [Next]_vars => AliveInv'
  BY AliveStep
<1>3. AliveInv => ActiveIsAlive
  BY DEF AliveInv
<1> QED
  BY <1>1, <1>2, <1>3, TypeCorrect, PTL DEF Spec

-----------------------------------------------------------------------------
(* What is compared is what is confirmed.                                  *)

sessionVars == <<status, active, sasSlot, sid, sasAnswer, handler, compared, dismissed>>

(* What a task's own step may do to the session: move its task on. *)
MovesOn(r) ==
    /\ UNCHANGED <<sessionVars, call>>
    /\ \A q \in Runs \ {r} : task'[q] = task[q]
    /\ task[r] # "unused" /\ task'[r] # "unused"
    /\ task'[r] \in BeforeSas => task[r] \in BeforeSas
    /\ task'[r] \in Transferring => task[r] \in Transferring \/ sasAnswer[r] = "yes"

(* No step of a task but the offer of its code does more than move it on, and *)
(* only the user's yes lets it transfer.                                      *)
LEMMA TaskMovesOn ==
  ASSUME TypeOK, NEW r \in Runs, TaskStep(r) \/ Peer(r) \/ HostExpires(r), ~OfferSas(r)
  PROVE  MovesOn(r)
<1>0. task \in [Runs -> Stages] /\ sasAnswer \in [Runs -> Answers]
  BY DEF TypeOK
<1> USE <1>0 DEF MovesOn, Moves, BeforeSas, Transferring, sessionVars, managerVars,
                 channelVars, historyVars, optionVars
<1>1. ASSUME NEW from \in Stages, NEW kind, Ends(r, from, kind), from # "unused"
      PROVE  MovesOn(r)
  BY <1>1 DEF Ends
<1>2. CASE \/ HostCancelled(r) \/ HostRoleTimesOut(r) \/ ClientConnectFails(r)
           \/ ClientCancelled(r) \/ ClientRoleLost(r) \/ HostRefuses(r)
           \/ ConfirmCancelled(r) \/ UserRejects(r) \/ ConfirmFails(r)
           \/ ExportFails(r) \/ TransferFails(r) \/ WriteFails(r)
           \/ Completes(r) \/ HostExpires(r)
  <2>1. \E from \in Stages \ {"unused"}, kind \in Kinds : Ends(r, from, kind)
    BY <1>2 DEF Stages, Kinds, HostCancelled, HostRoleTimesOut, ClientConnectFails,
       ClientCancelled, ClientRoleLost, HostRefuses, ConfirmCancelled, UserRejects,
       ConfirmFails, ExportFails, TransferFails, WriteFails, Completes, HostExpires
  <2> QED BY <1>1, <2>1
<1>3. CASE PeerConnects(r) \/ PeerLeaves(r) \/ PeerPicksRole(r)
  BY <1>3 DEF PeerConnects, PeerLeaves, PeerPicksRole
<1>4. CASE ClientConnects(r) \/ ClientRolePicked(r) \/ HostResponds(r)
  BY <1>4 DEF ClientConnects, ClientRolePicked, HostResponds
<1>5. CASE OfferRole(r)
  BY <1>5 DEF OfferRole
<1>6. CASE UserConfirms(r) \/ PeerConfirms(r) \/ BeginTransfer(r)
  BY <1>6 DEF UserConfirms, PeerConfirms, BeginTransfer
<1>7. CASE Export(r) \/ ClearAfterExport(r) \/ PayloadTaken(r)
  BY <1>7 DEF Export, ClearAfterExport, PayloadTaken, Quiet
<1> QED BY <1>2, <1>3, <1>4, <1>5, <1>6, <1>7 DEF TaskStep, Peer

(* Replacing the active session takes what is in its slot away, and dismisses *)
(* it unless its user has answered.                                           *)
LEMMA Replaces ==
  ASSUME TypeOK, SessionInv, NEW x \in Runs \cup {None}, SetActive(x)
  PROVE  /\ active' = x /\ sasSlot' = None
         /\ \A r \in Runs : sasAnswer'[r] =
              IF sasAnswer[r] = "slot" THEN "lost" ELSE sasAnswer[r]
         /\ \A r \in dismissed' : /\ r \in Runs /\ Spawned(r) /\ r \in dismissed \cup {active}
                                  /\ sasAnswer'[r] \in {"held", "lost", "no"}
<1>0. /\ active \in Runs \cup {None} /\ sasSlot \in Runs \cup {None}
      /\ sasAnswer \in [Runs -> Answers] /\ dismissed \subseteq Runs
      /\ SlotIsOwn /\ DismissedStayOut
  BY DEF TypeOK, SessionInv
<1>1. active' = x /\ sasSlot' = None
  BY DEF SetActive
<1>2. ASSUME NEW r \in Runs
      PROVE  sasAnswer'[r] = IF sasAnswer[r] = "slot" THEN "lost" ELSE sasAnswer[r]
  BY <1>0, NoneAssumption DEF SetActive, Lost, SlotIsOwn
<1>3. ASSUME NEW r \in dismissed'
      PROVE  /\ r \in Runs /\ Spawned(r) /\ r \in dismissed \cup {active}
             /\ sasAnswer'[r] \in {"held", "lost", "no"}
  <2>1. CASE r \in dismissed
    BY <1>0, <1>2, <2>1 DEF DismissedStayOut
  <2>2. CASE r \notin dismissed
    <3>1. r = active /\ active # None /\ sasAnswer[active] \notin {"taken", "yes"}
      BY <1>3, <2>2 DEF SetActive
    <3> QED BY <1>0, <1>2, <3>1 DEF SlotIsOwn, Answers
  <2> QED BY <2>1, <2>2
<1> QED BY <1>1, <1>2, <1>3

(* Dropping the active session keeps the slots, the answers and the dismissed. *)
LEMMA Dismisses ==
  ASSUME TypeOK, SessionInv, SetActive(None), task' = task
  PROVE  SlotIsOwn' /\ AnswersFit' /\ DismissedStayOut'
<1>0. /\ task \in [Runs -> Stages] /\ sasAnswer \in [Runs -> Answers]
      /\ dismissed \subseteq Runs /\ active \in Runs \cup {None}
      /\ SlotIsOwn /\ AnswersFit /\ DismissedStayOut
  BY DEF TypeOK, SessionInv
<1>1. /\ active' = None /\ sasSlot' = None
      /\ \A r \in Runs : sasAnswer'[r] =
           IF sasAnswer[r] = "slot" THEN "lost" ELSE sasAnswer[r]
      /\ \A r \in dismissed' : /\ r \in Runs /\ Spawned(r) /\ r \in dismissed \cup {active}
                               /\ sasAnswer'[r] \in {"held", "lost", "no"}
  BY Replaces
<1>2. SlotIsOwn'
  BY <1>0, <1>1, NoneAssumption DEF SlotIsOwn
<1>3. AnswersFit'
  BY <1>0, <1>1 DEF AnswersFit
<1>4. \A r \in dismissed' : r # None
  BY <1>0, <1>1, NoneAssumption DEF SlotIsOwn, Spawned
<1>5. DismissedStayOut'
  BY <1>1, <1>4 DEF DismissedStayOut, Spawned
<1> QED BY <1>2, <1>3, <1>5

(* When no link is followed twice, every step keeps the invariant of the     *)
(* sessions: one step per way a session, its commands or its task move.      *)
LEMMA StepKeepsSession ==
  ASSUME TypeOK, TypeOK', SessionInv, [Next]_vars, ~Rescans
  PROVE  SessionInv'
<1>0. /\ call \in [Calls -> Commands] /\ call' \in [Calls -> Commands]
      /\ active \in Runs \cup {None} /\ sasSlot \in Runs \cup {None}
      /\ task \in [Runs -> Stages] /\ sasAnswer \in [Runs -> Answers]
      /\ handler \in [Runs -> {"unused", "listen", "clear", "done"}]
      /\ sid \in [Runs -> Runs \cup Links \cup {None}]
      /\ compared \in [Runs -> Runs \cup {None}] /\ dismissed \subseteq Runs
      /\ status \in [kind : Kinds, run : Runs \cup {None}]
      /\ status.kind = "sas" => status.run \in Runs
  BY DEF TypeOK
<1>inv. /\ IdsAreOwn /\ StartsAreNew /\ SlotIsOwn /\ ClicksAreOwn /\ AnswersFit
        /\ DismissedStayOut /\ ComparedIsConfirmed
  BY DEF SessionInv
<1>1. ASSUME NEW r \in Runs, MovesOn(r) PROVE SessionInv'
  <2>1. UNCHANGED <<status, active, sasSlot, sid, sasAnswer, handler, compared, dismissed, call>>
    BY <1>1 DEF MovesOn, sessionVars
  <2>2. \A q \in Runs : Spawned(q)' <=> Spawned(q)
    BY <1>1 DEF MovesOn, Spawned
  <2>3. IdsAreOwn'
    BY <1>inv, <2>1, <2>2 DEF IdsAreOwn
  <2>4. StartsAreNew'
    BY <1>0, <1>inv, <2>1, <2>2 DEF StartsAreNew, At, Starts
  <2>5. SlotIsOwn' /\ ComparedIsConfirmed'
    BY <1>0, <1>inv, <2>1, <2>2 DEF SlotIsOwn, ComparedIsConfirmed
  <2>6. ClicksAreOwn'
    BY <1>0, <1>inv, <2>1, <2>2 DEF ClicksAreOwn, At
  <2>7. AnswersFit'
    BY <1>0, <1>1, <1>inv, <2>1 DEF AnswersFit, MovesOn
  <2>8. DismissedStayOut'
    BY <1>0, <1>inv, <2>1, <2>2 DEF DismissedStayOut
  <2> QED BY <2>3, <2>4, <2>5, <2>6, <2>7, <2>8 DEF SessionInv
<1>2. CASE UNCHANGED <<sessionVars, task, call>>
  BY <1>2, <1>inv DEF sessionVars, SessionInv, IdsAreOwn, StartsAreNew, SlotIsOwn, ClicksAreOwn,
     AnswersFit, DismissedStayOut, ComparedIsConfirmed, At, Starts, Spawned
<1>3. ASSUME NEW c \in Calls, StartHost(c) \/ StartClient(c) \/ CancelCommand(c)
      PROVE  SessionInv'
  <2>1. UNCHANGED <<sid, task, handler, compared>>
    BY <1>3 DEF StartHost, StartClient, CancelCommand
  <2>2. /\ SetActive(None) /\ status' = [kind |-> "idle", run |-> None]
        /\ \/ call'[c].at = "resetOff"
           \/ call'[c].at = "reset" /\ call'[c].kind \in {"host", "client"}
        /\ \A d \in Calls \ {c} :
             /\ call'[d].at = call[d].at /\ call'[d].kind = call[d].kind
             /\ call'[d].run = call[d].run /\ call'[d].seen = call[d].seen
             /\ call'[d].link = call[d].link
    BY <1>0, <1>3, CancelSpares
  <2>3. \A r \in Runs : sasAnswer[r] = "taken" => sasAnswer'[r] = "taken"
    BY <2>2, Replaces
  <2>4. SlotIsOwn' /\ AnswersFit' /\ DismissedStayOut'
    BY <2>1, <2>2, Dismisses
  <2>5. IdsAreOwn' /\ ComparedIsConfirmed'
    BY <1>inv, <2>1 DEF IdsAreOwn, ComparedIsConfirmed, Spawned
  <2>6. StartsAreNew'
    BY <1>inv, <2>1, <2>2 DEF StartsAreNew, At, Starts, Spawned
  <2>7. ClicksAreOwn'
    BY <1>inv, <2>1, <2>2, <2>3 DEF ClicksAreOwn, At, Spawned
  <2> QED BY <2>4, <2>5, <2>6, <2>7 DEF SessionInv
<1>4. ASSUME NEW c \in Calls, \/ StartClientByCode(c) \/ LookUp(c) \/ CancelCommandEnds(c)
                             \/ ResetOptions(c) \/ BindListener(c)
      PROVE  SessionInv'
  <2>1. UNCHANGED <<status, active, sasSlot, sid, sasAnswer, handler, compared, dismissed, task>>
    BY <1>4 DEF StartClientByCode, LookUp, CancelCommandEnds, ResetOptions, BindListener,
       KeepActive, managerVars, channelVars, historyVars
  <2>2. Alone(c)
    BY <1>0, <1>4, LeavesOthersAlone DEF CallStep
  <2>3. \/ call'[c].at \in {"lookup", "found", "failed", "ok"}
        \/ /\ At(c, "reset") /\ call'[c].kind = call[c].kind
           /\ call'[c].at = IF call[c].kind = "host" THEN "bind" ELSE "parse"
        \/ At(c, "bind") /\ call'[c].kind = call[c].kind /\ call'[c].at = "status"
    BY <1>0, <1>4, CommandGoes DEF ResetOptions, BindListener
  <2>4. IdsAreOwn' /\ SlotIsOwn' /\ AnswersFit' /\ DismissedStayOut' /\ ComparedIsConfirmed'
    BY <1>inv, <2>1 DEF IdsAreOwn, SlotIsOwn, AnswersFit, DismissedStayOut,
       ComparedIsConfirmed, Spawned
  <2>5. StartsAreNew'
    BY <1>inv, <2>1, <2>2, <2>3 DEF StartsAreNew, At, Starts, Spawned, Alone
  <2>6. ClicksAreOwn'
    BY <1>inv, <2>1, <2>2, <2>3 DEF ClicksAreOwn, At, Spawned, Alone
  <2> QED BY <2>4, <2>5, <2>6 DEF SessionInv
<1>5. ASSUME NEW c \in Calls, ParseLink(c)
      PROVE  SessionInv'
  <2>1. UNCHANGED <<status, active, sasSlot, sid, sasAnswer, handler, compared, dismissed, task>>
    BY <1>5 DEF ParseLink, managerVars, channelVars, historyVars
  <2>2. Alone(c)
    BY <1>0, <1>5, LeavesOthersAlone DEF CallStep
  <2>3. \/ call'[c].at = "failed"
        \/ /\ At(c, "parse") /\ call'[c].at = "status" /\ call'[c].kind = call[c].kind
           /\ call'[c].link \in Links
           /\ \A r \in Runs : sid[r] # call'[c].link
           /\ \A d \in Calls : call[d].link # call'[c].link
    BY <1>0, <1>5, CommandTakes DEF ParseLink
  <2>4. IdsAreOwn' /\ SlotIsOwn' /\ AnswersFit' /\ DismissedStayOut' /\ ComparedIsConfirmed'
    BY <1>inv, <2>1 DEF IdsAreOwn, SlotIsOwn, AnswersFit, DismissedStayOut,
       ComparedIsConfirmed, Spawned
  <2>5. StartsAreNew'
    <3>1. CASE call'[c].at = "failed"
      BY <1>inv, <2>1, <2>2, <3>1 DEF StartsAreNew, At, Starts, Spawned, Alone
    <3>2. CASE /\ At(c, "parse") /\ call'[c].at = "status" /\ call'[c].kind = call[c].kind
               /\ call'[c].link \in Links
               /\ \A r \in Runs : sid[r] # call'[c].link
               /\ \A d \in Calls : call[d].link # call'[c].link
      BY <1>inv, <2>1, <2>2, <3>2 DEF StartsAreNew, At, Starts, Spawned, Alone
    <3> QED BY <2>3, <3>1, <3>2
  <2>6. ClicksAreOwn'
    BY <1>inv, <2>1, <2>2, <2>3 DEF ClicksAreOwn, At, Spawned, Alone
  <2> QED BY <2>4, <2>5, <2>6 DEF SessionInv
<1>6. ASSUME NEW c \in Calls, PublishStart(c)
      PROVE  SessionInv'
  <2>1. UNCHANGED <<active, sasSlot, sid, sasAnswer, handler, compared, dismissed, task>>
    BY <1>6 DEF PublishStart, KeepActive
  <2>2. Alone(c)
    BY <1>0, <1>6, LeavesOthersAlone DEF CallStep
  <2>3. /\ At(c, "status") /\ call'[c].at = "install" /\ call'[c].kind = call[c].kind
        /\ call'[c].link = call[c].link
        /\ call'[c].run \in Runs /\ task[call'[c].run] = "unused"
        /\ \A d \in Calls : call[d].run # call'[c].run
        /\ status'.kind \in {"waiting", "connecting"}
    BY <1>0, <1>6, CommandTakes DEF PublishStart
  <2>4. IdsAreOwn' /\ SlotIsOwn' /\ AnswersFit' /\ DismissedStayOut' /\ ComparedIsConfirmed'
    BY <1>inv, <2>1 DEF IdsAreOwn, SlotIsOwn, AnswersFit, DismissedStayOut,
       ComparedIsConfirmed, Spawned
  <2>5. StartsAreNew'
    BY <1>inv, <2>1, <2>2, <2>3 DEF StartsAreNew, At, Starts, Spawned, Alone
  <2>6. ClicksAreOwn'
    BY <1>inv, <2>1, <2>2, <2>3 DEF ClicksAreOwn, At, Spawned, Alone
  <2> QED BY <2>4, <2>5, <2>6 DEF SessionInv
<1>7. ASSUME NEW c \in Calls, Install(c)
      PROVE  SessionInv'
  <2> DEFINE r == call[c].run
  <2>1. /\ r \in Runs /\ task[r] = "unused" /\ At(c, "install")
        /\ call[c].kind \in {"host", "client"}
        /\ call[c].kind = "client" => call[c].link \in Links
    <3>1. At(c, "install")
      BY <1>7 DEF Install
    <3>2. r \in Runs /\ task[r] = "unused"
      BY <1>inv, <3>1 DEF StartsAreNew, Spawned
    <3>3. Starts(c)
      BY <3>1 DEF Starts, At
    <3> QED BY <1>inv, <3>1, <3>2, <3>3 DEF StartsAreNew
  <2>2. /\ SetActive(r) /\ UNCHANGED <<status, compared>>
        /\ task' = [task EXCEPT ![r] = IF call[c].kind = "host" THEN "accept" ELSE "connect"]
        /\ sid' = [sid EXCEPT ![r] = IF call[c].kind = "host" THEN r ELSE call[c].link]
        /\ handler' = [handler EXCEPT ![r] = "listen"]
    BY <1>7 DEF Install
  <2>3. Alone(c) /\ call'[c].at = "ok"
    BY <1>0, <1>7, LeavesOthersAlone, CommandGoes DEF CallStep
  <2> HIDE DEF r
  <2>4. /\ active' = r /\ sasSlot' = None
        /\ \A q \in Runs : sasAnswer'[q] =
             IF sasAnswer[q] = "slot" THEN "lost" ELSE sasAnswer[q]
        /\ \A q \in dismissed' : /\ q \in Runs /\ Spawned(q) /\ q \in dismissed \cup {active}
                                 /\ sasAnswer'[q] \in {"held", "lost", "no"}
    BY <2>1, <2>2, Replaces
  <2>5. /\ task'[r] # "unused"
        /\ \A q \in Runs : q # r => /\ task'[q] = task[q] /\ sid'[q] = sid[q]
                                    /\ handler'[q] = handler[q]
    BY <1>0, <2>1, <2>2 DEF Spawned
  <2>6. \A q \in Runs : sid'[r] # None /\ (q # r => sid[q] # sid'[r])
    BY <1>0, <1>inv, <2>1, <2>2, NoneAssumption, LinksAssumption
    DEF IdsAreOwn, StartsAreNew, Starts, At
  <2>7. IdsAreOwn'
    BY <1>0, <1>inv, <2>1, <2>2, <2>5, <2>6, LinksAssumption
       DEF IdsAreOwn, Spawned
  <2>8. StartsAreNew'
    BY <1>0, <1>inv, <2>1, <2>2, <2>3, <2>5, LinksAssumption
    DEF StartsAreNew, At, Starts, Spawned, Alone, r
  <2>9. SlotIsOwn' /\ ComparedIsConfirmed'
    BY <1>0, <1>inv, <2>1, <2>2, <2>4, <2>5, NoneAssumption
    DEF SlotIsOwn, ComparedIsConfirmed, Spawned
  <2>10. ClicksAreOwn'
    BY <1>0, <1>inv, <2>1, <2>2, <2>3, <2>4, <2>5
       DEF ClicksAreOwn, At, Spawned, Alone
  <2>11. AnswersFit'
    BY <1>0, <1>inv, <2>1, <2>2, <2>4, <2>5
       DEF AnswersFit, BeforeSas, Transferring
  <2>12. DismissedStayOut'
    BY <1>0, <1>inv, <2>1, <2>4, <2>5, NoneAssumption
       DEF DismissedStayOut, SlotIsOwn, Spawned
  <2> QED BY <2>7, <2>8, <2>9, <2>10, <2>11, <2>12 DEF SessionInv
<1>8. ASSUME NEW c \in Calls, ClickConfirm(c)
      PROVE  SessionInv'
  <2>1. UNCHANGED <<status, active, sasSlot, sid, sasAnswer, handler, compared, dismissed, task>>
    BY <1>8 DEF ClickConfirm, managerVars, channelVars, historyVars
  <2>2. Alone(c) /\ status.kind = "sas" /\ call'[c].at = "take"
        /\ call'[c].seen = status.run /\ call'[c].link = sid[status.run]
    BY <1>0, <1>8, LeavesOthersAlone, CommandGoes DEF ClickConfirm
  <2>4. IdsAreOwn' /\ SlotIsOwn' /\ AnswersFit' /\ DismissedStayOut' /\ ComparedIsConfirmed'
    BY <1>inv, <2>1 DEF IdsAreOwn, SlotIsOwn, AnswersFit, DismissedStayOut,
       ComparedIsConfirmed, Spawned
  <2>5. StartsAreNew'
    BY <1>inv, <2>1, <2>2 DEF StartsAreNew, At, Starts, Spawned, Alone
  <2>6. ClicksAreOwn'
    BY <1>0, <1>inv, <2>1, <2>2 DEF ClicksAreOwn, At, Spawned, Alone
  <2> QED BY <2>4, <2>5, <2>6 DEF SessionInv
<1>9. ASSUME NEW c \in Calls, TakeConfirm(c)
      PROVE  SessionInv'
  <2>1. UNCHANGED <<status, active, sid, handler, compared, dismissed, task>>
    BY <1>9 DEF TakeConfirm, historyVars
  <2>2. Alone(c) /\ At(c, "take")
    BY <1>0, <1>9, LeavesOthersAlone DEF CallStep, TakeConfirm
  <2>3. \/ call'[c].at = "failed" /\ UNCHANGED <<sasAnswer, sasSlot>>
        \/ /\ active # None /\ sid[active] = call[c].link /\ sasSlot # None
           /\ call'[c].at = "answer" /\ call'[c].run = sasSlot
           /\ call'[c].seen = call[c].seen
           /\ sasAnswer' = [sasAnswer EXCEPT ![sasSlot] = "taken"]
           /\ sasSlot' = None
    BY <1>0, <1>9, CommandTakes
  <2>4. IdsAreOwn' /\ ComparedIsConfirmed'
    BY <1>inv, <2>1 DEF IdsAreOwn, ComparedIsConfirmed, Spawned
  <2>5. StartsAreNew'
    BY <1>inv, <2>1, <2>2, <2>3 DEF StartsAreNew, At, Starts, Spawned, Alone
  <2>6. CASE call'[c].at = "failed" /\ UNCHANGED <<sasAnswer, sasSlot>>
    <3>1. SlotIsOwn' /\ AnswersFit' /\ DismissedStayOut'
      BY <1>inv, <2>1, <2>6 DEF SlotIsOwn, AnswersFit, DismissedStayOut, Spawned
    <3>2. ClicksAreOwn'
      BY <1>inv, <2>1, <2>2, <2>6 DEF ClicksAreOwn, At, Spawned, Alone
    <3> QED BY <2>4, <2>5, <3>1, <3>2 DEF SessionInv
  <2>7. CASE /\ active # None /\ sid[active] = call[c].link /\ sasSlot # None
             /\ call'[c].at = "answer" /\ call'[c].run = sasSlot
             /\ call'[c].seen = call[c].seen
             /\ sasAnswer' = [sasAnswer EXCEPT ![sasSlot] = "taken"]
             /\ sasSlot' = None
    <3>1. /\ sasSlot \in Runs /\ sasSlot = active /\ sasAnswer[sasSlot] = "slot"
          /\ call[c].seen = sasSlot
      BY <1>0, <1>inv, <2>2, <2>7 DEF SlotIsOwn, ClicksAreOwn, IdsAreOwn
    <3>2. SlotIsOwn' /\ AnswersFit' /\ DismissedStayOut'
      BY <1>0, <1>inv, <2>1, <2>7, <3>1, NoneAssumption
      DEF SlotIsOwn, AnswersFit, DismissedStayOut, Spawned
    <3>3. ClicksAreOwn'
      BY <1>0, <1>inv, <2>1, <2>2, <2>7, <3>1
         DEF ClicksAreOwn, At, Spawned, Alone
    <3> QED BY <2>4, <2>5, <3>2, <3>3 DEF SessionInv
  <2> QED BY <2>3, <2>6, <2>7
<1>10. ASSUME NEW c \in Calls, AnswerConfirm(c)
       PROVE  SessionInv'
  <2>1. UNCHANGED <<status, active, sasSlot, sid, handler, dismissed, task>>
    BY <1>10 DEF AnswerConfirm, managerVars
  <2>2. Alone(c) /\ At(c, "answer") /\ call'[c].at = "ok"
    BY <1>0, <1>10, LeavesOthersAlone, CommandGoes DEF CallStep, AnswerConfirm
  <2>3. PICK r \in Runs : r = call[c].run /\ call[c].seen = r /\ sasAnswer[r] = "taken"
    BY <1>inv, <2>2 DEF ClicksAreOwn
  <2>4. PICK answer \in {"yes", "no"} : sasAnswer' = [sasAnswer EXCEPT ![r] = answer]
    BY <1>10, <2>3 DEF AnswerConfirm
  <2>5. compared' = compared \/ compared' = [compared EXCEPT ![r] = r]
    BY <1>10, <2>3 DEF AnswerConfirm
  <2>6. IdsAreOwn'
    BY <1>inv, <2>1 DEF IdsAreOwn, Spawned
  <2>7. ComparedIsConfirmed'
    BY <1>0, <1>inv, <2>5 DEF ComparedIsConfirmed
  <2>8. StartsAreNew'
    BY <1>inv, <2>1, <2>2 DEF StartsAreNew, At, Starts, Spawned, Alone
  <2>9. SlotIsOwn' /\ AnswersFit' /\ DismissedStayOut'
    BY <1>0, <1>inv, <2>1, <2>3, <2>4
       DEF SlotIsOwn, AnswersFit, DismissedStayOut, Spawned
  <2>10. ClicksAreOwn'
    BY <1>0, <1>inv, <2>1, <2>2, <2>3, <2>4 DEF ClicksAreOwn, At, Spawned, Alone
  <2> QED BY <2>6, <2>7, <2>8, <2>9, <2>10 DEF SessionInv
<1>11. ASSUME NEW r \in Runs, OfferSas(r) PROVE SessionInv'
  <2>1. UNCHANGED <<status, active, sid, handler, compared, dismissed, call>>
    BY <1>11 DEF OfferSas, historyVars
  <2>2. /\ task[r] = "offerSas" /\ task' = [task EXCEPT ![r] = "confirm"]
        /\ sasSlot' = IF Accepts(r, sasSlot) THEN r ELSE sasSlot
        /\ sasAnswer' = [sasAnswer EXCEPT ![r] = IF Accepts(r, sasSlot) THEN "slot" ELSE "lost"]
    BY <1>11 DEF OfferSas
  <2>3. sasAnswer[r] = "held" /\ (Accepts(r, sasSlot) => active = r /\ sasSlot = None)
    BY <1>0, <1>inv, <2>2
       DEF AnswersFit, BeforeSas, Accepts, IdsAreOwn, SlotIsOwn, Spawned
  <2>4. \A q \in Runs : Spawned(q)' <=> Spawned(q)
    BY <1>0, <2>2 DEF Spawned
  <2>5. IdsAreOwn' /\ ComparedIsConfirmed'
    BY <1>inv, <2>1, <2>4 DEF IdsAreOwn, ComparedIsConfirmed
  <2>6. StartsAreNew'
    BY <1>inv, <2>1, <2>4 DEF StartsAreNew, At, Starts
  <2>7. SlotIsOwn'
    BY <1>0, <1>inv, <2>1, <2>2, <2>3, <2>4, NoneAssumption DEF SlotIsOwn
  <2>8. ClicksAreOwn'
    BY <1>0, <1>inv, <2>1, <2>2, <2>3, <2>4 DEF ClicksAreOwn, At
  <2>9. AnswersFit'
    BY <1>0, <1>inv, <2>2 DEF AnswersFit, BeforeSas, Transferring
  <2>10. DismissedStayOut'
    BY <1>0, <1>inv, <2>1, <2>2, <2>3, <2>4 DEF DismissedStayOut
  <2> QED BY <2>5, <2>6, <2>7, <2>8, <2>9, <2>10 DEF SessionInv
<1>12. ASSUME NEW r \in Runs, HandleEvent(r) PROVE SessionInv'
  <2>1. /\ UNCHANGED <<active, sasSlot, sid, sasAnswer, compared, dismissed, task, call>>
        /\ handler[r] = "listen" /\ status'.run = r
        /\ \E to \in {"listen", "clear"} : handler' = [handler EXCEPT ![r] = to]
    BY <1>12 DEF HandleEvent, KeepActive
  <2>2. IdsAreOwn'
    BY <1>0, <1>inv, <2>1 DEF IdsAreOwn, Spawned
  <2>3. StartsAreNew'
    BY <1>inv, <2>1 DEF StartsAreNew, At, Starts, Spawned
  <2>4. SlotIsOwn' /\ AnswersFit' /\ DismissedStayOut' /\ ComparedIsConfirmed'
    BY <1>inv, <2>1
       DEF SlotIsOwn, AnswersFit, DismissedStayOut, ComparedIsConfirmed,
           Spawned
  <2>5. ClicksAreOwn'
    BY <1>inv, <2>1 DEF ClicksAreOwn, IdsAreOwn, At, Spawned
  <2> QED BY <2>2, <2>3, <2>4, <2>5 DEF SessionInv
<1>13. ASSUME NEW r \in Runs, ClearActive(r) PROVE SessionInv'
  <2>1. /\ UNCHANGED <<status, sid, compared, task, call>>
        /\ handler[r] = "clear" /\ handler' = [handler EXCEPT ![r] = "done"]
        /\ SetActive(None) \/ KeepActive
    BY <1>13 DEF ClearActive
  <2>2. SlotIsOwn' /\ AnswersFit' /\ DismissedStayOut'
    <3>1. CASE SetActive(None)
      BY <2>1, <3>1, Dismisses
    <3>2. CASE KeepActive
      BY <1>inv, <2>1, <3>2
         DEF KeepActive, SlotIsOwn, AnswersFit, DismissedStayOut, Spawned
    <3> QED BY <2>1, <3>1, <3>2
  <2>3. IdsAreOwn'
    BY <1>0, <1>inv, <2>1 DEF IdsAreOwn, Spawned
  <2>4. StartsAreNew' /\ ComparedIsConfirmed'
    BY <1>inv, <2>1 DEF StartsAreNew, At, Starts, Spawned, ComparedIsConfirmed
  <2>5. \A q \in Runs : sasAnswer[q] = "taken" => sasAnswer'[q] = "taken"
    BY <2>1, Replaces DEF KeepActive
  <2>6. ClicksAreOwn'
    BY <1>inv, <2>1, <2>5 DEF ClicksAreOwn, At, Spawned
  <2> QED BY <2>2, <2>3, <2>4, <2>6 DEF SessionInv
<1>14. ASSUME SelectRole \/ SetInclude \/ PrepareAirgapExport \/ UNCHANGED vars
       PROVE  SessionInv'
  <2>1. UNCHANGED <<sessionVars, task, call>>
    BY <1>14 DEF SelectRole, SetInclude, PrepareAirgapExport, vars, sessionVars, managerVars,
       channelVars, historyVars
  <2> QED BY <1>2, <2>1
<1> QED
  BY <1>1, <1>3, <1>4, <1>5, <1>6, <1>7, <1>8, <1>9, <1>10, <1>11, <1>12, <1>13, <1>14,
     TaskMovesOn
  DEF Next, Page, CallStep, TaskStep, Handler

(* The invariant of the sessions, when no link is followed twice. *)
THEOREM SessionsAreSound == ASSUME ~Rescans PROVE Spec => []SessionInv
<1>1. Init => SessionInv
  BY NoneAssumption
  DEF Init, SessionInv, IdsAreOwn, StartsAreNew, SlotIsOwn, ClicksAreOwn, AnswersFit,
      DismissedStayOut, ComparedIsConfirmed, At, Starts, Spawned, Idle, BeforeSas, Transferring
<1>2. TypeOK /\ TypeOK' /\ SessionInv /\ [Next]_vars => SessionInv'
  BY StepKeepsSession
<1> QED
  BY <1>1, <1>2, TypeCorrect, PTL DEF Spec

(* The code the user compared is the code that is confirmed: a click that    *)
(* arrives after the session was replaced never confirms the replacement.    *)
THEOREM ComparedStaysConfirmed == ASSUME ~Rescans PROVE Spec => []ComparedIsConfirmed
<1>1. SessionInv => ComparedIsConfirmed
  BY DEF SessionInv
<1> QED
  BY <1>1, SessionsAreSound, PTL

(* A session that was cancelled or replaced before its user confirmed it     *)
(* never transfers anything, though its task lives on.                       *)
THEOREM DismissedIsHarmless == ASSUME ~Rescans PROVE Spec => []DismissedTransfersNothing
<1>1. TypeOK /\ SessionInv => DismissedTransfersNothing
  BY DEF TypeOK, SessionInv, DismissedTransfersNothing, DismissedStayOut,
         AnswersFit, Transferring
<1> QED
  BY <1>1, SessionsAreSound, TypeCorrect, PTL
-----------------------------------------------------------------------------
(* A removed account's readings: UsageHistory, for any accounts, lengths of a *)
(* month and limits of what is kept.                                        *)

(* A month the store does not hold is empty in memory; one it holds and need *)
(* not write has in its file no more than in memory, but for the readings of  *)
(* an account whose removal could not write it; and who is gone is neither    *)
(* present nor one whose removal is still to be repeated.                    *)
HistoryInv ==
  /\ \A m \in Months \ held : memory[m] = {}
  /\ \A m \in Months : m \in held \ dirty =>
       \A x \in disk[m] : <<x.account, m>> \in missed \/ x \in memory[m]
  /\ gone \cap (present \cup halfway) = {}
  /\ RemovedAreGone

(* A removal that no write stops goes through every month.                   *)
LEMMA LastMonth ==
  ASSUME MaxTime \in Nat, MonthLength \in Nat \ {0}, NEW m \in Months
  PROVE  m < Max(Months) + 1
<1> DEFINE K == MaxTime \div MonthLength
<1>1. Months = -1 .. K
  BY DEF Months
<1>0. K \in Int
  BY SMT
<1>2. m \in -1 .. K
  BY <1>1
<1> HIDE DEF K
<1>3. K \in -1 .. K /\ \A y \in -1 .. K : K >= y
  BY <1>0, <1>1, <1>2
<1>4. \E x \in -1 .. K : \A y \in -1 .. K : x >= y
  BY <1>3
<1>5. Max(-1 .. K) >= m /\ Max(-1 .. K) \in Int
  BY <1>1, <1>2, <1>4 DEF Max
<1> QED BY <1>1, <1>2, <1>5

(* A reading readings of an account that is not gone: what memory then holds  *)
(* of a month was in memory, or has just been read from its file.            *)
LEMMA RecordKeepsHistory ==
  ASSUME HistoryInv, Retention \in Nat \ {0}, MonthLength \in Nat \ {0},
         NEW x, NEW fails \in BOOLEAN, x.account \notin gone, x.t \in Int,
         Record(x, fails), UNCHANGED <<present, gone, halfway, missed>>
  PROVE  HistoryInv'
<1> DEFINE M == MonthOf(x.t)
           load == IF M = current THEN {M} ELSE {M, M - 1}
           keep == IF M = current THEN held \cup {M} ELSE Keeps(M) \ Expired(M)
           read == [n \in Months |-> IF n \in load \ held THEN disk[n]
                                             ELSE IF n \in keep THEN memory[n] ELSE {}]
           last == LastReading(x.account, keep, read)
           kept == IF ShouldWrite(last, x) THEN {x} ELSE {}
           log == read[M] \cup kept
           old == [n \in Months |-> IF M # current /\ n \in Expired(M) THEN {}
                                            ELSE disk[n]]
           write == kept # {} \/ M \in dirty
<1>1. M \in Int
  BY DEF MonthOf
<1>2. /\ fails => write
      /\ held' = keep
      /\ memory' = [read EXCEPT ![M] = IF write THEN Fitting(log) ELSE log]
      /\ disk' = IF write /\ ~fails THEN [old EXCEPT ![M] = Fitting(log)] ELSE old
      /\ dirty' = ((dirty \cap keep) \ {M}) \cup Marked(M, fails)
  BY DEF Record
<1>3. kept \subseteq {x} /\ Fitting(log) \subseteq log /\ log = read[M] \cup kept
  BY DEF Fitting
<1>4. load \subseteq keep /\ keep \subseteq held \cup load
  <2>1. CASE M = current
    BY <2>1
  <2>2. CASE M # current
    BY <1>1, <2>2 DEF Keeps, Expired
  <2> QED BY <2>1, <2>2
<1>5. \A n \in keep : M # current => n \notin Expired(M)
  OBVIOUS
<1>6. M \in keep /\ M \in load
  BY <1>4
<1> HIDE DEF kept, keep, load, M, log
<1>7. ASSUME NEW n \in Months
      PROVE  /\ n \notin held' => memory'[n] = {}
             /\ n \in held' \ dirty' =>
                  \A y \in disk'[n] : <<y.account, n>> \in missed' \/ y \in memory'[n]
             /\ \A y \in memory'[n] \cup disk'[n] : y \in memory[n] \cup disk[n] \cup {x}
  <2>1. CASE n = M
    <3>1. memory'[n] = (IF write THEN Fitting(log) ELSE log)
      BY <1>2, <2>1
    <3>2. disk'[n] = (IF write /\ ~fails THEN Fitting(log) ELSE old[n])
      BY <1>2, <2>1
    <3>3. n \in held'
      BY <1>2, <1>6, <2>1
    <3>4. read[M] = (IF n \notin held THEN disk[n] ELSE memory[n])
      BY <1>6, <2>1
    <3>5. old[n] = disk[n]
      BY <1>5, <1>6, <2>1
    <3>6. ~write => kept = {} /\ n \notin dirty
      BY <2>1
    <3>7. fails => n \in dirty'
      BY <1>2, <2>1 DEF Marked
    <3>8. n \in held' \ dirty' =>
            \A y \in disk'[n] : <<y.account, n>> \in missed' \/ y \in memory'[n]
      <4>1. CASE write
        BY <3>1, <3>2, <3>7, <4>1
      <4>2. CASE ~write
        <5>1. memory'[n] = read[M] /\ disk'[n] = disk[n]
          BY <1>3, <3>1, <3>2, <3>5, <3>6, <4>2
        <5> QED BY <3>4, <3>6, <4>2, <5>1 DEF HistoryInv
      <4> QED BY <4>1, <4>2
    <3>9. \A y \in memory'[n] \cup disk'[n] : y \in memory[n] \cup disk[n] \cup {x}
      <4> HIDE DEF write, read, old
      <4> QED BY <1>3, <3>1, <3>2, <3>4, <3>5
    <3> QED BY <3>3, <3>8, <3>9
  <2>2. CASE n # M
    <3>1. memory'[n] = read[n]
      BY <1>2, <2>2
    <3>2. disk'[n] = old[n]
      BY <1>2, <2>2
    <3>3. n \in keep /\ n \notin dirty' => n \notin dirty
      BY <1>2, <2>2
    <3>4. n \in keep => old[n] = disk[n]
      BY <1>5
    <3>5. n \in keep => read[n] = (IF n \in load \ held THEN disk[n] ELSE memory[n])
      OBVIOUS
    <3>6. n \notin keep => read[n] = {}
      BY <1>4
    <3>7. n \in held' \ dirty' =>
            \A y \in disk'[n] : <<y.account, n>> \in missed' \/ y \in memory'[n]
      <4> SUFFICES ASSUME n \in keep, n \notin dirty',
                          NEW y \in disk[n]
                   PROVE  <<y.account, n>> \in missed \/ y \in read[n]
        BY <1>2, <3>1, <3>2, <3>4
      <4>1. CASE n \in load \ held
        BY <3>5, <4>1
      <4>2. CASE n \in held
        BY <3>3, <3>5, <4>2 DEF HistoryInv
      <4> QED BY <1>4, <4>1, <4>2
    <3>8. \A y \in memory'[n] \cup disk'[n] : y \in memory[n] \cup disk[n] \cup {x}
      BY <3>1, <3>2
    <3> QED BY <1>2, <3>1, <3>6, <3>7, <3>8
  <2> QED BY <2>1, <2>2
<1>8. RemovedAreGone'
  BY <1>7 DEF RemovedAreGone, Of, HistoryInv
<1> QED BY <1>7, <1>8 DEF HistoryInv

(* A removal edits the memory from the oldest on, in memory and in the disk, *)
(* up to one whose write failed; with none, nothing of the account is left.  *)
LEMMA RemovalKeepsHistory ==
  ASSUME HistoryInv, MaxTime \in Nat, MonthLength \in Nat \ {0}, NEW a \in Accounts,
         NEW fails \in BOOLEAN, RemoveAccount(a, fails)
  PROVE  HistoryInv'
<1>1. PICK stop \in IF fails THEN Edit(a) ELSE {Max(Months) + 1} :
        LET reached == {m \in Months : m <= stop}
            edited == [m \in Months |->
                         Known(m) \ Of(a, Known(m))]
            done == {m \in Edit(a) : m < stop}
        IN  /\ memory' = [m \in Months |-> IF m \in held \cap reached THEN edited[m]
                                                   ELSE memory[m]]
            /\ disk' = [m \in Months |-> IF m \in done THEN edited[m] ELSE disk[m]]
            /\ dirty' = dirty \ done
            /\ missed' = missed \cup ({a} \X ((held \ dirty) \cap {stop}))
  BY DEF RemoveAccount
<1> DEFINE Edited(m) == Known(m) \ Of(a, Known(m))
           Reached(m) == m <= stop
           Done(m) == m \in Edit(a) /\ m < stop
<1>2. \A m \in Months :
        /\ memory'[m] = (IF m \in held /\ Reached(m) THEN Edited(m) ELSE memory[m])
        /\ disk'[m] = (IF Done(m) THEN Edited(m) ELSE disk[m])
        /\ m \in dirty' <=> m \in dirty /\ ~Done(m)
  BY <1>1
<1>3. /\ held' = held /\ present' = present \ {a}
      /\ gone' = (IF fails THEN gone ELSE gone \cup {a})
      /\ halfway' = (IF fails THEN halfway \cup {a} ELSE halfway \ {a})
      /\ a \in present \cup halfway
  BY DEF RemoveAccount
<1>3a. /\ missed \subseteq missed'
       /\ \A m \in Months : m \in held \ dirty /\ m = stop => <<a, m>> \in missed'
  BY <1>1
<1>4. a \notin gone /\ gone' \cap (present' \cup halfway') = {}
  BY <1>3 DEF HistoryInv
<1>5. ~fails => \A m \in Months : Reached(m) /\ (Done(m) <=> m \in Edit(a))
  <2> SUFFICES ASSUME ~fails, NEW m \in Months
               PROVE  m < stop /\ m <= stop
    OBVIOUS
  <2>1. stop = Max(Months) + 1
    BY <1>1
  <2>2. m < Max(Months) + 1
    BY LastMonth
  <2>3. m \in Int
    BY DEF Months
  <2> QED BY <2>1, <2>2, <2>3
<1>6. fails => \A m \in Months :
                 Reached(m) => Done(m) \/ m = stop \/ m \notin Edit(a)
  <2> SUFFICES ASSUME fails, NEW m \in Months, m <= stop
               PROVE  m < stop \/ m = stop
    OBVIOUS
  <2>1. stop \in Int /\ m \in Int
    BY <1>1 DEF Edit, Months
  <2> QED BY <2>1
<1> HIDE DEF Reached, Done
<1>7. ASSUME NEW m \in Months
      PROVE  /\ \A x \in memory'[m] : x \in memory[m]
             /\ \A x \in disk'[m] : x \in disk[m] \/ (m \in held /\ x \in memory[m])
             /\ ~fails /\ <<a, m>> \notin missed =>
                  \A x \in memory'[m] \cup disk'[m] : x.account # a
  <2>1. Edited(m) = {x \in Known(m) : x.account # a}
    BY DEF Of
  <2>2. Known(m) = IF m \in held THEN memory[m] ELSE disk[m]
    BY DEF Known
  <2>3. m \in Edit(a) <=> (\E x \in Known(m) : x.account = a) \/ m \in dirty
    BY DEF Edit, Of
  <2> HIDE DEF Edited
  <2>4. \A x \in memory'[m] : x \in memory[m]
    BY <1>2, <2>1, <2>2
  <2>5. \A x \in disk'[m] : x \in disk[m] \/ (m \in held /\ x \in memory[m])
    <3>1. CASE m \in held
      BY <1>2, <2>1, <2>2, <3>1
    <3>2. CASE m \notin held
      BY <1>2, <2>1, <2>2, <3>2
    <3> QED BY <3>1, <3>2
  <2>6. ASSUME ~fails, <<a, m>> \notin missed
        PROVE  \A x \in memory'[m] \cup disk'[m] : x.account # a
    <3>1. CASE m \in held
      <4>1. memory'[m] = Edited(m)
        BY <1>2, <1>5, <2>6, <3>1
      <4>2. CASE Done(m)
        BY <1>2, <2>1, <4>1, <4>2
      <4>3. CASE ~Done(m)
        <5>1. disk'[m] = disk[m] /\ m \notin dirty /\ \A x \in memory[m] : x.account # a
          BY <1>2, <1>5, <2>2, <2>3, <2>6, <3>1, <4>3
        <5> QED BY <2>1, <2>6, <3>1, <4>1, <5>1 DEF HistoryInv
      <4> QED BY <4>2, <4>3
    <3>2. CASE m \notin held
      <4>1. memory'[m] = {}
        BY <1>2, <3>2 DEF HistoryInv
      <4>2. CASE Done(m)
        BY <1>2, <2>1, <4>1, <4>2
      <4>3. CASE ~Done(m)
        BY <1>2, <1>5, <2>2, <2>3, <2>6, <3>2, <4>1, <4>3
      <4> QED BY <4>2, <4>3
    <3> QED BY <3>1, <3>2
  <2> QED BY <2>4, <2>5, <2>6
<1>8. ASSUME NEW m \in Months, m \in held \ dirty', NEW x \in disk'[m]
      PROVE  <<x.account, m>> \in missed' \/ x \in memory'[m]
  <2>1. Edited(m) = {y \in memory[m] : y.account # a}
    BY <1>8 DEF Of, Known
  <2>2. m \in Edit(a) <=> (\E y \in memory[m] : y.account = a) \/ m \in dirty
    BY <1>8 DEF Edit, Of, Known
  <2> HIDE DEF Edited
  <2>3. CASE Done(m)
    <3>1. disk'[m] = Edited(m)
      BY <1>2, <2>3
    <3>2. memory'[m] = Edited(m) \/ memory'[m] = memory[m]
      BY <1>2
    <3> QED BY <1>8, <2>1, <3>1, <3>2
  <2>4. CASE ~Done(m)
    <3>1. disk'[m] = disk[m] /\ m \notin dirty
      BY <1>2, <1>8, <2>4
    <3>2. <<x.account, m>> \in missed \/ x \in memory[m]
      BY <1>8, <3>1 DEF HistoryInv
    <3>3. CASE ~Reached(m)
      BY <1>2, <1>3a, <3>2, <3>3
    <3>4. CASE Reached(m)
      <4>1. memory'[m] = Edited(m)
        BY <1>2, <1>8, <3>4
      <4>2. m = stop \/ \A y \in memory[m] : y.account # a
        BY <1>5, <1>6, <2>2, <2>4, <3>4
      <4>3. m = stop => <<a, m>> \in missed'
        BY <1>3a, <1>8, <3>1
      <4> QED BY <1>3a, <2>1, <3>2, <4>1, <4>2, <4>3
    <3> QED BY <3>3, <3>4
  <2> QED BY <2>3, <2>4
<1>9. RemovedAreGone'
  <2> SUFFICES ASSUME NEW b \in gone', NEW m \in Months, <<b, m>> \notin missed',
                      NEW x \in memory'[m] \cup disk'[m]
               PROVE  x.account # b
    BY DEF RemovedAreGone, Of
  <2>1. CASE b = a
    BY <1>3, <1>3a, <1>4, <1>7, <2>1
  <2>2. CASE b # a
    <3>1. b \in gone /\ <<b, m>> \notin missed /\ x \in memory[m] \cup disk[m]
      BY <1>3, <1>3a, <1>7, <2>2
    <3> QED BY <3>1 DEF HistoryInv, RemovedAreGone, Of
  <2> QED BY <2>1, <2>2
<1>10. \A m \in Months \ held' : memory'[m] = {}
  BY <1>2, <1>3 DEF HistoryInv
<1> QED BY <1>3, <1>4, <1>8, <1>9, <1>10 DEF HistoryInv

(* Every other step only drops readings, or reads the disk anew.            *)
LEMMA StepKeepsHistory ==
  ASSUME HistoryInv, Retention \in Nat \ {0}, MonthLength \in Nat \ {0}, MaxTime \in Nat,
         [HistoryNext]_usageVars
  PROVE  HistoryInv'
<1> USE DEF usageVars, stored, ghosts, removals, bounds
<1>1. ASSUME NEW a \in Accounts, NEW fails \in BOOLEAN, Refresh(a, fails)
      PROVE  HistoryInv'
  <2>1. UNCHANGED <<present, gone, halfway, missed>> /\ a \notin gone /\ now' \in Int
    BY <1>1 DEF Refresh, HistoryInv
  <2>2. CASE UNCHANGED stored
    BY <2>1, <2>2 DEF HistoryInv, RemovedAreGone, Of
  <2>3. ASSUME NEW x, Record(x, fails), x.account = a, x.t = now'
        PROVE  HistoryInv'
    BY <2>1, <2>3, RecordKeepsHistory
  <2>4. \/ UNCHANGED stored
        \/ \E x : Record(x, fails) /\ x.account = a /\ x.t = now'
    BY <1>1 DEF Refresh
  <2> QED BY <2>2, <2>3, <2>4
<1>2. ASSUME NEW a \in Accounts, NEW fails \in BOOLEAN, RemoveAccount(a, fails)
      PROVE  HistoryInv'
  BY <1>2, RemovalKeepsHistory
<1>3. ASSUME NEW left, Clear(left)
      PROVE  HistoryInv'
  BY <1>3 DEF Clear, HistoryInv, RemovedAreGone, Of
<1>4. CASE Restart
  <2>1. PICK t : LET m == MonthOf(t)
                     left == [n \in Months |->
                                IF disk[n] # {} /\ n < m - Retention THEN {} ELSE disk[n]]
                 IN /\ held' = {m, m - 1} \cap Months
                    /\ disk' = left
                    /\ memory' = [n \in Months |-> IF n \in {m, m - 1} THEN left[n]
                                               ELSE {}]
                    /\ UNCHANGED <<present, gone, halfway, missed>>
    BY <1>4 DEF Restart
  <2>2. \A n \in Months : /\ disk'[n] = disk[n] \/ disk'[n] = {}
                          /\ memory'[n] = (IF n \in held' THEN disk'[n] ELSE {})
    BY <2>1
  <2> QED BY <2>1, <2>2 DEF HistoryInv, RemovedAreGone, Of
<1>5. CASE SetClock \/ UNCHANGED usageVars
  BY <1>5 DEF SetClock, HistoryInv, RemovedAreGone, Of
<1> QED BY <1>1, <1>2, <1>3, <1>4, <1>5 DEF HistoryNext

(* A removal that reported success has left no reading of its account in any  *)
(* month, in memory or on disk, whatever writes fail and whenever the app     *)
(* stops.                                                                   *)
THEOREM RemovedReadingsAreGone == HistorySpec => []RemovedAreGone
<1>0. Retention \in Nat \ {0} /\ MonthLength \in Nat \ {0} /\ MaxTime \in Nat
  BY HistoryAssumption
<1>1. HistoryInit => HistoryInv
  BY DEF HistoryInit, HistoryInv, RemovedAreGone, Of
<1>2. HistoryInv /\ [HistoryNext]_usageVars => HistoryInv'
  BY <1>0, StepKeepsHistory
<1>3. HistoryInv => RemovedAreGone
  BY DEF HistoryInv
<1> QED BY <1>1, <1>2, <1>3, PTL DEF HistorySpec
=============================================================================
