--------------------------- MODULE PairingSession ---------------------------
(***************************************************************************)
(* The pairing session manager of one device (pairing/mod.rs), the         *)
(* commands that drive it (commands/pairing.rs) and the session tasks it   *)
(* spawns (pairing/transport.rs).  The other device is the environment: it *)
(* connects, picks a role, confirms, sends or goes away at any time.       *)
(*                                                                         *)
(* A run is one spawned session task with its event handler.  A host run   *)
(* has a session id of its own; a client run takes the id its link names,  *)
(* so two runs that follow the same link share an id.  The answer channels *)
(* are one-shot: a run keeps the receiving end, and the sending end goes   *)
(* from the task to the active session's slot to the command that answers. *)
(***************************************************************************)
EXTENDS Naturals, Sequences, FiniteSets

CONSTANTS
    Runs,       \* session tasks
    Calls,      \* command invocations from the page
    Links,      \* session ids of other devices' links
    Rescans,    \* may the user follow the same link twice?
    Capacity,   \* capacity of a run's event channel (16 in the code)
    None

ASSUME CapacityAssumption == Capacity \in Nat \ {0}
ASSUME RescansAssumption == Rescans \in BOOLEAN
ASSUME NoneAssumption == None \notin Runs \cup Calls \cup Links \cup BOOLEAN
ASSUME LinksAssumption == Links \cap Runs = {}    \* ids are random: they never collide

VARIABLES
    status,     \* PairingStatus: its variant and the run that wrote it
    active,     \* the run of the ActiveSession, or None
    roleSlot,   \* run whose role sender the active session holds
    sasSlot,    \* run whose confirmation sender the active session holds
    live,       \* include_settings
    frozen,     \* the confirm-time snapshot of it
    epoch,      \* PairingSessionManager::epoch
    network,    \* configure_pairing_network
    call,       \* what each command is doing
    task,       \* where each session task is
    sid,        \* session id of each run
    sender,     \* does this device send in the run?
    roleAnswer, \* the receiving end of the role channel
    sasAnswer,  \* the receiving end of the confirmation channel
    peerTag,    \* has the peer's confirmation tag been verified?
    events,     \* the run's event channel
    handler,    \* the run's event handler
    compared,   \* history: the run whose code was on screen when the run was confirmed
    dismissed   \* history: runs that lost the active session before a confirmation

managerVars == <<status, active, roleSlot, sasSlot, epoch>>
optionVars == <<live, frozen>>
channelVars == <<roleAnswer, sasAnswer>>
historyVars == <<compared, dismissed>>
vars == <<managerVars, optionVars, network, call, task, sid, sender, channelVars,
          peerTag, events, handler, historyVars>>

Kinds == {"idle", "waiting", "connecting", "peer", "role", "sas", "transferring",
          "completed", "failed"}
Terminal == {"idle", "completed", "failed"}
Stages == {"unused", "accept", "hostRole", "connect", "offerRole", "clientRole",
           "respond", "offerSas", "confirm", "confirmed", "export", "clear", "write", "ack",
           "import", "done"}
Answers == {"held", "slot", "taken", "lost", "yes", "no"}
Commands ==
    [at : {"ready", "lookup", "found", "reset", "resetOff", "bind", "parse", "status", "install",
           "take", "answer", "ok", "failed"},
     kind : {None, "host", "client", "code", "cancel", "confirm"},
     run : Runs \cup {None}, seen : Runs \cup {None}, link : Runs \cup Links \cup {None},
     epoch : Nat, superseded : BOOLEAN]
Idle == [at |-> "ready", kind |-> None, run |-> None, epoch |-> 0, seen |-> None,
         link |-> None, superseded |-> FALSE]

Init ==
    /\ status = [kind |-> "idle", run |-> None]
    /\ active = None /\ roleSlot = None /\ sasSlot = None
    /\ live = FALSE /\ frozen = None
    /\ epoch = 0
    /\ network = FALSE
    /\ call = [c \in Calls |-> Idle]
    /\ task = [r \in Runs |-> "unused"]
    /\ sid = [r \in Runs |-> None]
    /\ sender = [r \in Runs |-> FALSE]
    /\ roleAnswer = [r \in Runs |-> "held"]
    /\ sasAnswer = [r \in Runs |-> "held"]
    /\ peerTag = [r \in Runs |-> FALSE]
    /\ events = [r \in Runs |-> <<>>]
    /\ handler = [r \in Runs |-> "unused"]
    /\ compared = [r \in Runs |-> None]
    /\ dismissed = {}

Running(r) == task[r] \notin {"unused", "done"}
(* The cancel signal of a run: its sender went with the ActiveSession. *)
Cancelled(r) == active # r
(* The extras an export takes: a confirm-time snapshot wins. *)
ExportedExtras == IF frozen = None THEN live ELSE frozen

-----------------------------------------------------------------------------
(* Replacing or dropping the ActiveSession drops the senders in its slots. *)

Lost(answer, slot) == IF slot = None THEN answer ELSE [answer EXCEPT ![slot] = "lost"]

SetActive(r) ==
    /\ active' = r
    /\ roleSlot' = None /\ sasSlot' = None
    /\ roleAnswer' = Lost(roleAnswer, roleSlot)
    /\ sasAnswer' = Lost(sasAnswer, sasSlot)
    /\ dismissed' = IF active = None \/ sasAnswer[active] \in {"taken", "yes"}
                    THEN dismissed ELSE dismissed \cup {active}

KeepActive == UNCHANGED <<active, roleSlot, sasSlot, roleAnswer, sasAnswer, dismissed>>

(* status_tx.send: a full channel makes the task wait. *)
Emit(r, kind) ==
    /\ Len(events[r]) < Capacity
    /\ events' = [events EXCEPT ![r] = Append(@, kind)]

At(c, where) == call[c].at = where
Goto(c, where) == call' = [call EXCEPT ![c].at = where]
(* A command returns: nothing of it is left but what it was and its result. *)
Return(c, result) ==
    call' = [call EXCEPT ![c] = [Idle EXCEPT !.at = result, !.kind = call[c].kind,
                                             !.superseded = call[c].superseded]]

-----------------------------------------------------------------------------
(* Commands.  Each call runs one command, a step per lock it takes. *)

(* PairingSessionManager::cancel: the first thing every start does, and all *)
(* that pairing_cancel does under the session's locks.                      *)
Cancel(c, kind, next) ==
    /\ SetActive(None)
    /\ status' = [kind |-> "idle", run |-> None]
    /\ call' = [d \in Calls |->
                  IF d = c THEN [call[c] EXCEPT !.kind = kind, !.at = next]
                  ELSE [call[d] EXCEPT !.superseded =
                            @ \/ (kind = "cancel" /\ call[d].at \in {"bind", "status", "install"})]]

StartHost(c) ==
    /\ At(c, "ready")
    /\ Cancel(c, "host", "reset")
    /\ network' = TRUE
    /\ UNCHANGED <<optionVars, epoch, task, sid, sender, peerTag, events, handler,
                   compared>>

(* pairing_start_client, and pairing_start_client_by_code once its lookup   *)
(* found the other device.                                                  *)
StartClient(c) ==
    /\ call[c].at \in {"ready", "found"}
    /\ Cancel(c, "client", "reset")
    /\ network' = TRUE
    /\ UNCHANGED <<optionVars, epoch, task, sid, sender, peerTag, events, handler,
                   compared>>

StartClientByCode(c) ==
    /\ At(c, "ready")
    /\ network' = TRUE
    /\ call' = [call EXCEPT ![c].kind = "code", ![c].at = "lookup"]
    /\ KeepActive
    /\ UNCHANGED <<optionVars, status, epoch, task, sid, sender, peerTag, events,
                   handler, compared>>

(* discovery::resolve browses for the code for at most 15 seconds and checks *)
(* what it finds as a scanned link is checked; or the code is refused, after *)
(* too many failed attempts.                                                *)
LookUp(c) ==
    /\ At(c, "lookup")
    /\ Goto(c, "found") \/ Return(c, "failed")
    /\ UNCHANGED <<managerVars, optionVars, network, task, sid, sender, channelVars,
                   peerTag, events, handler, historyVars>>

CancelCommand(c) ==
    /\ At(c, "ready")
    /\ Cancel(c, "cancel", "resetOff")
    /\ UNCHANGED <<optionVars, epoch, network, task, sid, sender, peerTag, events,
                   handler, compared>>

CancelCommandEnds(c) ==
    /\ At(c, "resetOff")
    /\ live' = FALSE /\ frozen' = None
    /\ network' = FALSE
    /\ Return(c, "ok")
    /\ UNCHANGED <<managerVars, task, sid, sender, channelVars, peerTag, events,
                   handler, historyVars>>

(* Both starts reset the options and take the next epoch. *)
ResetOptions(c) ==
    /\ At(c, "reset")
    /\ live' = FALSE /\ frozen' = None
    /\ epoch' = epoch + 1
    /\ call' = [call EXCEPT ![c].epoch = epoch + 1,
                            ![c].at = IF call[c].kind = "host" THEN "bind" ELSE "parse"]
    /\ UNCHANGED <<status, active, roleSlot, sasSlot, network, task, sid, sender,
                   channelVars, peerTag, events, handler, historyVars>>

(* bind_pairing_listener may fail; then the epoch is compared. *)
BindListener(c) ==
    /\ At(c, "bind")
    /\ \/ Return(c, "failed")
       \/ IF call[c].epoch = epoch THEN Goto(c, "status") ELSE Return(c, "failed")
    /\ UNCHANGED <<managerVars, optionVars, network, task, sid, sender, channelVars,
                   peerTag, events, handler, historyVars>>

(* parse_qr_uri: a link of another protocol, of a host that is not local, or  *)
(* whose fingerprint is not its key's is refused before anything else is      *)
(* touched.                                                                 *)
ParseLink(c) ==
    /\ At(c, "parse")
    /\ \/ Return(c, "failed")
       \/ \E l \in Links :
            /\ \/ Rescans
               \/ l \notin {sid[r] : r \in Runs} \cup {call[d].link : d \in Calls}
            /\ call' = [call EXCEPT ![c].at = "status", ![c].link = l]
    /\ UNCHANGED <<managerVars, optionVars, network, task, sid, sender, channelVars,
                   peerTag, events, handler, historyVars>>

PublishStart(c) ==
    /\ At(c, "status")
    /\ \E r \in Runs :
        /\ task[r] = "unused" /\ \A d \in Calls : call[d].run # r
        /\ status' = [kind |-> IF call[c].kind = "host" THEN "waiting" ELSE "connecting",
                      run |-> r]
        /\ call' = [call EXCEPT ![c].at = "install", ![c].run = r]
    /\ KeepActive
    /\ UNCHANGED <<epoch, optionVars, network, task, sid, sender, peerTag, events,
                   handler, compared>>

(* The ActiveSession is stored and the task and its handler are spawned. *)
Installs(c, first, id) ==
    /\ At(c, "install")
    /\ LET r == call[c].run IN
        /\ SetActive(r)
        /\ task' = [task EXCEPT ![r] = first]
        /\ sid' = [sid EXCEPT ![r] = id]
        /\ handler' = [handler EXCEPT ![r] = "listen"]
    /\ Return(c, "ok")
    /\ UNCHANGED <<status, epoch, optionVars, network, sender, peerTag, events, compared>>

InstallHost(c) == call[c].kind = "host" /\ Installs(c, "accept", call[c].run)
InstallClient(c) == call[c].kind # "host" /\ Installs(c, "connect", call[c].link)
Install(c) == InstallHost(c) \/ InstallClient(c)

(* pairing_select_role: refused when no session waits for a role.           *)
SelectRole ==
    /\ roleSlot # None
    /\ \E sends \in BOOLEAN :
        /\ sender' = [sender EXCEPT ![roleSlot] = sends]
        /\ roleAnswer' = [roleAnswer EXCEPT ![roleSlot] = "yes"]
    /\ roleSlot' = None
    /\ UNCHANGED <<status, active, sasSlot, epoch, optionVars, network, call, task, sid,
                   sasAnswer, peerTag, events, handler, historyVars>>

(* pairing_set_include_settings and pairing_clear_pending_ui_state. *)
SetInclude ==
    /\ \E include \in BOOLEAN : live' = include
    /\ UNCHANGED <<managerVars, frozen, network, call, task, sid, sender, channelVars,
                   peerTag, events, handler, historyVars>>

(* pairing_prepare_airgap_export: its own choice replaces the snapshot.  The *)
(* page cancels the session before it offers this way of sending.           *)
PrepareAirgapExport ==
    /\ active = None
    /\ \A c \in Calls : call[c].at \in {"ready", "ok", "failed"}
    /\ frozen' = None
    /\ \E include \in BOOLEAN : live' = include
    /\ UNCHANGED <<managerVars, network, call, task, sid, sender, channelVars, peerTag,
                   events, handler, historyVars>>

(* The user confirms or rejects the code on screen; the page sends the      *)
(* session id that came with it.  Bound: a call slot is used once, but one   *)
(* click may follow the start of a host session.                            *)
ClickConfirm(c) ==
    /\ \/ At(c, "ready")
       \/ At(c, "ok") /\ call[c].kind = "host" /\ \A d \in Calls : call[d].kind # "confirm"
    /\ status.kind = "sas"
    /\ call' = [call EXCEPT ![c].kind = "confirm", ![c].at = "take",
                            ![c].seen = status.run, ![c].link = sid[status.run]]
    /\ UNCHANGED <<managerVars, optionVars, network, task, sid, sender, channelVars,
                   peerTag, events, handler, historyVars>>

(* Without the comparison a late click confirms whatever session is there. *)
TakeConfirm_AnySession(c) ==
    /\ At(c, "take")
    /\ IF active # None /\ sasSlot # None
       THEN /\ call' = [call EXCEPT ![c].at = "answer", ![c].run = sasSlot]
            /\ sasAnswer' = [sasAnswer EXCEPT ![sasSlot] = "taken"]
            /\ sasSlot' = None
       ELSE /\ Return(c, "failed")
            /\ UNCHANGED <<sasAnswer, sasSlot>>
    /\ UNCHANGED <<status, active, roleSlot, epoch, optionVars, network, task, sid, sender,
                   roleAnswer, peerTag, events, handler, historyVars>>

(* confirm_sas: under the session lock, the id is compared and the sender taken. *)
TakeConfirm(c) ==
    /\ At(c, "take")
    /\ IF active # None /\ sid[active] = call[c].link /\ sasSlot # None
       THEN /\ call' = [call EXCEPT ![c].at = "answer", ![c].run = sasSlot]
            /\ sasAnswer' = [sasAnswer EXCEPT ![sasSlot] = "taken"]
            /\ sasSlot' = None
       ELSE /\ Return(c, "failed")
            /\ UNCHANGED <<sasAnswer, sasSlot>>
    /\ UNCHANGED <<status, active, roleSlot, epoch, optionVars, network, task, sid, sender,
                   roleAnswer, peerTag, events, handler, historyVars>>

(* Then, with the lock released, the extras are frozen and the answer sent. *)
AnswerConfirm(c) ==
    /\ At(c, "answer")
    /\ LET r == call[c].run IN
        \/ /\ frozen' = ExportedExtras
           /\ sasAnswer' = [sasAnswer EXCEPT ![r] = "yes"]
           /\ compared' = [compared EXCEPT ![r] = call[c].seen]
        \/ /\ sasAnswer' = [sasAnswer EXCEPT ![r] = "no"]
           /\ UNCHANGED <<frozen, compared>>
    /\ Return(c, "ok")
    /\ UNCHANGED <<managerVars, live, network, task, sid, sender, roleAnswer, peerTag,
                   events, handler, dismissed>>

-----------------------------------------------------------------------------
(* Session tasks.                                                           *)

(* A step of a task that only moves it on, or ends it with one event. *)
Moves(r, from, to) ==
    /\ task[r] = from
    /\ task' = [task EXCEPT ![r] = to]
    /\ UNCHANGED <<managerVars, optionVars, network, call, sid, channelVars, handler,
                   historyVars>>

Quiet == UNCHANGED <<sender, peerTag, events>>

Ends(r, from, kind) ==
    /\ Moves(r, from, "done")
    /\ Emit(r, kind)
    /\ UNCHANGED <<sender, peerTag>>

(* The host listens for at most SESSION_TIMEOUT_SECS. *)
HostCancelled(r) == Cancelled(r) /\ Ends(r, "accept", "idle")
HostExpires(r) == Ends(r, "accept", "failed")

(* A peer completes the handshake; if it leaves before it picked a role the *)
(* host goes back to listening.  The Connected event before it changes no   *)
(* status and is left out, here and in OfferRole.                           *)
PeerConnects(r) ==
    /\ Moves(r, "accept", "hostRole")
    /\ Emit(r, "peer")
    /\ UNCHANGED <<sender, peerTag>>

PeerLeaves(r) == Moves(r, "hostRole", "accept") /\ Quiet

PeerPicksRole(r) ==
    /\ Moves(r, "hostRole", "offerSas")
    /\ \E sends \in BOOLEAN : sender' = [sender EXCEPT ![r] = sends]
    /\ UNCHANGED <<peerTag, events>>

(* Nothing else bounds that wait: it does not listen for a cancellation. *)
HostRoleTimesOut_Never(r) == FALSE /\ Ends(r, "hostRole", "failed")

HostRoleTimesOut(r) == Ends(r, "hostRole", "failed")

(* The other device hosts one connection at a time, and ends its session    *)
(* once one of them went past the choice of roles.                          *)
HostFree(r) ==
    \A q \in Runs \ {r} :
        sid[q] = sid[r] => task[q] \in {"connect", "done"} /\ sasAnswer[q] = "held"

ClientConnects(r) == HostFree(r) /\ Moves(r, "connect", "offerRole") /\ Quiet
ClientConnectFails(r) == Ends(r, "connect", "failed")

(* offer_role_select and offer_sas_confirm: the sender is stored in the     *)
(* active session if that has the same id and a free slot, else dropped.    *)
Accepts(r, slot) == active # None /\ sid[active] = sid[r] /\ slot = None

OfferRole(r) ==
    /\ task[r] = "offerRole"
    /\ task' = [task EXCEPT ![r] = "clientRole"]
    /\ Emit(r, "role")
    /\ roleSlot' = IF Accepts(r, roleSlot) THEN r ELSE roleSlot
    /\ roleAnswer' = [roleAnswer EXCEPT ![r] = IF Accepts(r, roleSlot) THEN "slot" ELSE "lost"]
    /\ UNCHANGED <<status, active, sasSlot, epoch, optionVars, network, call, sid, sender,
                   sasAnswer, peerTag, handler, historyVars>>

OfferSas(r) ==
    /\ task[r] = "offerSas"
    /\ task' = [task EXCEPT ![r] = "confirm"]
    /\ Emit(r, "sas")
    /\ sasSlot' = IF Accepts(r, sasSlot) THEN r ELSE sasSlot
    /\ sasAnswer' = [sasAnswer EXCEPT ![r] = IF Accepts(r, sasSlot) THEN "slot" ELSE "lost"]
    /\ UNCHANGED <<status, active, roleSlot, epoch, optionVars, network, call, sid, sender,
                   roleAnswer, peerTag, handler, historyVars>>

ClientCancelled(r) == Cancelled(r) /\ Ends(r, "clientRole", "idle")
ClientRoleLost(r) == roleAnswer[r] = "lost" /\ Ends(r, "clientRole", "failed")
ClientRolePicked(r) == roleAnswer[r] = "yes" /\ Moves(r, "clientRole", "respond") /\ Quiet
HostResponds(r) == Moves(r, "respond", "offerSas") /\ Quiet
HostRefuses(r) == Ends(r, "respond", "failed")

(* Taking a closed channel for an answer. *)
UserConfirms_WhenLost(r) ==
    sasAnswer[r] \in {"lost", "yes"} /\ Moves(r, "confirm", "confirmed") /\ Quiet

(* run_authenticated_transfer: the user's answer and the peer's tag are     *)
(* awaited together, for at most CONFIRM_TIMEOUT_SECS.  A cancellation is   *)
(* heard only until the user has answered.                                  *)
ConfirmCancelled(r) == Cancelled(r) /\ Ends(r, "confirm", "failed")
UserRejects(r) == sasAnswer[r] \in {"lost", "no"} /\ Ends(r, "confirm", "failed")
UserConfirms(r) == sasAnswer[r] = "yes" /\ Moves(r, "confirm", "confirmed") /\ Quiet

PeerConfirms(r) ==
    /\ task[r] \in {"confirm", "confirmed"}
    /\ ~peerTag[r]
    /\ peerTag' = [peerTag EXCEPT ![r] = TRUE]
    /\ UNCHANGED <<managerVars, optionVars, network, call, task, sid, sender, channelVars,
                   events, handler, historyVars>>

(* The peer rejects, aborts or leaves, its tag is wrong, or the time is up. *)
ConfirmFails(r) ==
    \/ Ends(r, "confirm", "failed")
    \/ ~peerTag[r] /\ Ends(r, "confirmed", "failed")

BeginTransfer(r) ==
    /\ peerTag[r]
    /\ Moves(r, "confirmed", IF sender[r] THEN "export" ELSE "import")
    /\ Emit(r, "transferring")
    /\ UNCHANGED <<sender, peerTag>>

(* create_export_payload reads the extras, the snapshot if there is one; the *)
(* caller clears them later.                                                 *)
Export(r) == Moves(r, "export", "clear") /\ Quiet

ExportFails(r) == Ends(r, "export", "failed")

ClearAfterExport(r) ==
    /\ task[r] = "clear"
    /\ task' = [task EXCEPT ![r] = "write"]
    /\ live' = FALSE /\ frozen' = None
    /\ UNCHANGED <<managerVars, network, call, sid, sender, channelVars, peerTag, events,
                   handler, historyVars>>

(* The encrypted payload is written without a timeout and without listening *)
(* for a cancellation: a peer that reads nothing keeps the task there until  *)
(* the connection breaks.                                                    *)
PayloadTaken(r) == Moves(r, "write", "ack") /\ Quiet
WriteFails(r) == Ends(r, "write", "failed")

(* The acknowledgement is read, or the payload is read and imported; both   *)
(* reads have a timeout.                                                     *)
Completes(r) == \E from \in {"ack", "import"} : Ends(r, from, "completed")
TransferFails(r) == \E from \in {"ack", "import"} : Ends(r, from, "failed")

-----------------------------------------------------------------------------
(* The event handler of a run: the status is written whatever session is    *)
(* active; a terminal event also releases the network.                      *)
HandleEvent(r) ==
    /\ handler[r] = "listen" /\ events[r] # <<>>
    /\ LET kind == Head(events[r]) IN
        /\ status' = [kind |-> kind, run |-> r]
        /\ network' = (network /\ kind \notin Terminal)
        /\ handler' = [handler EXCEPT ![r] = IF kind \in Terminal THEN "clear" ELSE @]
    /\ events' = [events EXCEPT ![r] = Tail(@)]
    /\ KeepActive
    /\ UNCHANGED <<epoch, optionVars, call, task, sid, sender, peerTag, compared>>

(* Leaving the finished session in place. *)
ClearActive_Never(r) ==
    /\ handler[r] = "clear"
    /\ handler' = [handler EXCEPT ![r] = "done"]
    /\ KeepActive
    /\ UNCHANGED <<status, epoch, optionVars, network, call, task, sid, sender, peerTag,
                   events, compared>>

(* Then the active session is removed if it has this run's id. *)
ClearActive(r) ==
    /\ handler[r] = "clear"
    /\ handler' = [handler EXCEPT ![r] = "done"]
    /\ IF active # None /\ sid[active] = sid[r] THEN SetActive(None) ELSE KeepActive
    /\ UNCHANGED <<status, epoch, optionVars, network, call, task, sid, sender, peerTag,
                   events, compared>>

-----------------------------------------------------------------------------
CallStep(c) ==
    \/ ResetOptions(c) \/ BindListener(c) \/ ParseLink(c) \/ PublishStart(c) \/ Install(c)
    \/ LookUp(c) \/ CancelCommandEnds(c) \/ TakeConfirm(c) \/ AnswerConfirm(c)

Page ==
    \/ \E c \in Calls :
        \/ StartHost(c) \/ StartClient(c) \/ StartClientByCode(c)
        \/ CancelCommand(c) \/ ClickConfirm(c)
    \/ SelectRole \/ SetInclude \/ PrepareAirgapExport

(* What a task does on its own, or what a timeout makes it do. *)
TaskStep(r) ==
    \/ HostCancelled(r) \/ HostRoleTimesOut(r) \/ ClientConnectFails(r)
    \/ OfferRole(r) \/ OfferSas(r)
    \/ ClientCancelled(r) \/ ClientRoleLost(r) \/ ClientRolePicked(r) \/ HostRefuses(r)
    \/ ConfirmCancelled(r) \/ UserRejects(r) \/ UserConfirms(r) \/ ConfirmFails(r)
    \/ BeginTransfer(r) \/ Export(r) \/ ExportFails(r) \/ ClearAfterExport(r)
    \/ TransferFails(r)

Peer(r) ==
    \/ PeerConnects(r) \/ PeerLeaves(r) \/ PeerPicksRole(r)
    \/ ClientConnects(r) \/ HostResponds(r) \/ PeerConfirms(r)
    \/ PayloadTaken(r) \/ WriteFails(r) \/ Completes(r)

Handler(r) == HandleEvent(r) \/ ClearActive(r)

Next ==
    \/ Page
    \/ \E c \in Calls : CallStep(c)
    \/ \E r \in Runs : HostExpires(r) \/ TaskStep(r) \/ Peer(r) \/ Handler(r)

Spec == Init /\ [][Next]_vars

(* Timeouts end every wait of a task on its peer but the writing of the      *)
(* payload, and the listening deadline is absolute, so it passes however     *)
(* often a peer connects and leaves.  A command that started runs on.        *)
(* Neither the user, nor the peer, nor the connection is fair.               *)
FairSpec ==
    /\ Spec
    /\ \A c \in Calls : WF_vars(CallStep(c)) /\ WF_vars(At(c, "found") /\ StartClient(c))
    /\ \A r \in Runs : WF_vars(TaskStep(r)) /\ SF_vars(HostExpires(r)) /\ WF_vars(Handler(r))

-----------------------------------------------------------------------------
\* Every variable has its type; no event channel holds more than its capacity.
TypeOK ==
    /\ status \in [kind : Kinds, run : Runs \cup {None}]
    /\ status.kind = "sas" => status.run \in Runs
    /\ active \in Runs \cup {None}
    /\ roleSlot \in Runs \cup {None} /\ sasSlot \in Runs \cup {None}
    /\ live \in BOOLEAN /\ frozen \in BOOLEAN \cup {None}
    /\ epoch \in Nat /\ network \in BOOLEAN
    /\ task \in [Runs -> Stages] /\ sender \in [Runs -> BOOLEAN]
    /\ sid \in [Runs -> Runs \cup Links \cup {None}]
    /\ roleAnswer \in [Runs -> Answers] /\ sasAnswer \in [Runs -> Answers]
    /\ peerTag \in [Runs -> BOOLEAN]
    /\ events \in [Runs -> Seq(Kinds)]
    /\ \A r \in Runs : Len(events[r]) <= Capacity
    /\ handler \in [Runs -> {"unused", "listen", "clear", "done"}]
    /\ compared \in [Runs -> Runs \cup {None}] /\ dismissed \subseteq Runs
    /\ call \in [Calls -> Commands]

(* The code that was compared is the code that was confirmed: a click that  *)
(* arrives after the session was replaced never confirms the replacement,   *)
(* whose code nobody has seen.                                              *)
ComparedIsConfirmed == \A r \in Runs : compared[r] \in {None, r}

(* A session that was cancelled or replaced before the user confirmed it    *)
(* never gets to transfer anything, though its task lives on until its wait *)
(* ends and still offers its answer channel.                                *)
DismissedTransfersNothing ==
    \A r \in dismissed : task[r] \notin {"confirmed", "export", "clear", "write", "ack", "import"}

(* The active session has a task, or a handler that is going to remove it:  *)
(* a session that ended never blocks the ones after it.                     *)
ActiveIsAlive == active # None => handler[active] \in {"listen", "clear"}

(* A cancelled or replaced session's task ends, whatever its peer does up to *)
(* there and in whatever wait the cancellation finds it.  One wait nothing   *)
(* ends: a peer that confirmed and then reads nothing keeps the task of the  *)
(* sender, cancelled or not, in the writing of the payload.                  *)
CancelledEnds ==
    \A r \in Runs : (Running(r) /\ Cancelled(r)) ~> (~Running(r) \/ task[r] = "write")

-----------------------------------------------------------------------------
(* The inductive invariant of the sessions, when no link is followed twice. *)

Transferring == {"confirmed", "export", "clear", "write", "ack", "import"}
BeforeSas == {"unused", "accept", "hostRole", "connect", "offerRole", "clientRole",
              "respond", "offerSas"}
Starts(c) == call[c].at \in {"status", "install"}
Spawned(r) == task[r] # "unused"

\* A spawned run has a session id, which is its own.
IdsAreOwn ==
    /\ \A r \in Runs : (sid[r] # None <=> Spawned(r)) /\ (handler[r] # "unused" <=> Spawned(r))
    /\ \A q, r \in Runs : sid[q] = sid[r] /\ Spawned(q) /\ Spawned(r) => q = r
    /\ \A r \in Runs : sid[r] \in Runs => sid[r] = r

\* A command that is about to start a session has a run and an id nobody has.
StartsAreNew ==
    /\ \A c \in Calls :
          /\ At(c, "reset") \/ Starts(c) => call[c].kind \in {"host", "client"}
          /\ At(c, "bind") => call[c].kind = "host"
          /\ At(c, "parse") => call[c].kind = "client"
    /\ \A c \in Calls : Starts(c) /\ call[c].kind = "client" =>
          /\ call[c].link \in Links
          /\ \A r \in Runs : sid[r] # call[c].link
    /\ \A c, d \in Calls : Starts(c) /\ Starts(d) /\ c # d
                             /\ call[c].kind = "client" /\ call[d].kind = "client" =>
          call[c].link # call[d].link
    /\ \A c \in Calls : At(c, "install") => call[c].run \in Runs /\ ~Spawned(call[c].run)
    /\ \A c, d \in Calls : At(c, "install") /\ At(d, "install") /\ c # d =>
          call[c].run # call[d].run

\* Only the active session's own channel is in its slot.
SlotIsOwn ==
    /\ active # None => Spawned(active)
    /\ sasSlot # None => sasSlot = active
    /\ \A r \in Runs : sasAnswer[r] = "slot" <=> sasSlot = r

\* A click carries the id of the run whose code was on screen, and the sender it
\* takes is that run's; nobody else takes it.
ClicksAreOwn ==
    /\ status.kind = "sas" => Spawned(status.run)
    /\ \A c \in Calls : At(c, "take") =>
          /\ call[c].seen \in Runs /\ Spawned(call[c].seen)
          /\ call[c].link = sid[call[c].seen]
    /\ \A c \in Calls : At(c, "answer") =>
          /\ call[c].run \in Runs /\ call[c].seen = call[c].run
          /\ sasAnswer[call[c].run] = "taken"
    /\ \A c, d \in Calls : At(c, "answer") /\ At(d, "answer") /\ c # d =>
          call[c].run # call[d].run

\* The confirmation channel is offered once, and only a yes starts a transfer.
AnswersFit ==
    \A r \in Runs : /\ task[r] \in BeforeSas => sasAnswer[r] = "held"
                    /\ task[r] \in Transferring => sasAnswer[r] = "yes"

\* A dismissed run is not active again and nobody can answer for it.
DismissedStayOut ==
    \A r \in dismissed : active # r /\ Spawned(r) /\ sasAnswer[r] \in {"held", "lost", "no"}

SessionInv ==
    /\ IdsAreOwn /\ StartsAreNew /\ SlotIsOwn /\ ClicksAreOwn /\ AnswersFit /\ DismissedStayOut
    /\ ComparedIsConfirmed

=============================================================================
