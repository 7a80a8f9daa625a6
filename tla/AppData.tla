------------------------------ MODULE AppData -------------------------------
(***************************************************************************)
(* Everything the app keeps on disk about its accounts, and the operations *)
(* that run over several of those stores (state.rs, store/*.rs,            *)
(* commands/accounts.rs, commands/alerts.rs, commands/buckets.rs).         *)
(*                                                                         *)
(* Synchronous commands run one at a time on the main thread (UI);         *)
(* asynchronous ones run on tokio workers (Tasks).  A task that changes an *)
(* account holds that account's lock.  The alert store keeps its lock over *)
(* the write of its file; the order and the groups drop theirs first, so   *)
(* what is written is a copy taken earlier.                                *)
(***************************************************************************)
EXTENDS AccountStore

CONSTANTS
    UI,         \* the main thread
    Tasks,      \* tokio workers
    Groups,     \* names of account groups (buckets)
    NoGroup,    \* a group that does not exist
    Nobody,     \* a free account lock
    MaxGroups,  \* groups the store accepts (MAX_BUCKETS)
    MaxOps,     \* bound: operations started
    MaxFaults   \* bound: failed writes, crashes and reinstallations

ASSUME AppDataAssumption ==
    /\ UI \notin Tasks
    /\ MaxGroups \in Nat /\ MaxOps \in Nat /\ MaxFaults \in Nat

Procs == {UI} \cup Tasks

VARIABLES
    up,             \* the app runs
    receipt,        \* .installation_receipt exists
    order, orderFile,       \* account-order.json
    alerts, alertsFile,     \* ids with alert settings, usage-alerts.json
    groups, groupsFile,     \* account-buckets.json
    history, historyFile,   \* ids with readings, activity-history/
    lock,       \* the account locks
    pc,         \* where an operation stands
    id,         \* the account it is about
    who,        \* the identity a sign-in found
    view,       \* the account list it read
    copy,       \* what it is about to write, or to show
    todo,       \* accounts a Delete all has still to remove
    kind,       \* which operation runs
    ops, faults,    \* bounds
    late,       \* a write was reported failed after its rename
    unsaved,    \* a save of order, groups, alerts or history failed
    torn,       \* a copy was taken while another was being written
    alone       \* nothing else ran since the operation began

metaVars == <<order, orderFile, alerts, alertsFile, groups, groupsFile,
              history, historyFile>>
procVars == <<lock, pc, id, who, view, copy, todo, kind, alone>>
ghostVars == <<late, unsaved, torn>>
dataVars == <<storeVars, metaVars, procVars, ghostVars, up, receipt, ops, faults>>

Steps == {"idle", "connectSecret", "connectUpsert", "refresh", "secret",
          "metadata", "tombstone", "order", "copyOrder", "saveOrder", "alerts",
          "groups", "copyGroups", "saveGroups", "history", "next",
          "clearTombstones", "compare", "saveAlerts"}
Kinds == {"none", "connect", "refresh", "remove", "deleteEach", "deleteRest",
          "show", "reorder", "group", "alert"}
-----------------------------------------------------------------------------
(* Helpers. *)

At(p, step) == pc[p] = step
GoTo(p, step) == pc' = [pc EXCEPT ![p] = step]

\* The bound on injected failures.
Fault(outcome) ==
    /\ faults' = IF outcome = "ok" THEN faults ELSE faults + 1
    /\ faults' <= MaxFaults

\* What a file holds after a save of content.
Saved(file, content, outcome) == IF outcome = "failed" THEN file ELSE content

Begin(p) ==
    /\ up /\ At(p, "idle") /\ ops < MaxOps
    /\ ops' = ops + 1
    /\ alone' = [q \in Procs |-> q = p /\ \A r \in Procs : At(r, "idle")]

Enter(p, k, step) == kind' = [kind EXCEPT ![p] = k] /\ GoTo(p, step)

\* The operation ends; its locals no longer matter.
Return(p) ==
    /\ GoTo(p, "idle")
    /\ kind' = [kind EXCEPT ![p] = "none"]
    /\ lock' = [i \in Ids |-> IF lock[i] = p THEN Nobody ELSE lock[i]]
    /\ id' = [id EXCEPT ![p] = NoValue]
    /\ who' = [who EXCEPT ![p] = NoValue]
    /\ view' = [view EXCEPT ![p] = <<>>]
    /\ copy' = [copy EXCEPT ![p] = <<>>]
    /\ todo' = [todo EXCEPT ![p] = <<>>]

\* It goes on with its next step, or ends with the error of this one.
Continue(p, step, outcome) ==
    IF outcome = "ok"
    THEN GoTo(p, step) /\ UNCHANGED <<kind, lock, id, who, view, copy, todo>>
    ELSE Return(p)

Quiet == \A p \in Procs : At(p, "idle")

\* What accounts.json and the memory of it become together.
CommitAccounts(next, outcome) ==
    /\ Commit(next, outcome)
    /\ Fault(outcome)
    /\ late' = IF outcome = "ok" THEN FALSE ELSE late \/ outcome = "late"

GroupRoom(g) ==
    groups[g] # NoGroup \/ Cardinality({h \in Groups : groups[h] # NoGroup}) < MaxGroups

\* A removal forgets one account (and its place in the groups); the end of a
\* Delete all forgets everything, also about accounts no longer in the list.
Whole(p) == kind[p] = "deleteRest"
Scope(p) == IF Whole(p) THEN Ids ELSE {id[p]}
GroupsWithout(p) ==
    [g \in Groups |-> IF Whole(p) \/ groups[g] = NoGroup THEN NoGroup
                      ELSE groups[g] \ {id[p]}]
-----------------------------------------------------------------------------
(* Connecting an account: auth/oauth/exchange.rs and the other sign-ins end  *)
(* in persist_connected_account.                                             *)

\* The account a sign-in updates is looked up before any lock is held.
\* (A reconnection by label alone, which Grok's and OpenCode's add, is left out.)
ConnectLookup(p, person, reconnect) ==
    LET found == AccountToUpdate(accounts, reconnect, person)
    IN  /\ Begin(p)
        /\ Enter(p, "connect", "connectSecret")
        /\ \E fresh \in Ids :
              /\ fresh \notin UNION {IdsOf(accounts), {id[q] : q \in Procs}, secrets,
                                     IdsOf(Content(accountsFile)), IdsOf(Content(backup)),
                                     {tombstones[i] : i \in DOMAIN tombstones}}
              /\ id' = [id EXCEPT ![p] = IF Known(found) THEN found ELSE fresh]
        /\ who' = [who EXCEPT ![p] = person]
        /\ view' = [view EXCEPT ![p] = accounts]
        /\ UNCHANGED <<storeVars, metaVars, ghostVars, up, receipt, faults, lock, copy, todo>>

\* Under the account lock: the sign-in first, then the account.
ConnectSecret(p, outcome) ==
    /\ At(p, "connectSecret") /\ lock[id[p]] = Nobody
    /\ Fault(outcome) /\ outcome # "late"
    /\ IF outcome = "ok"
       THEN /\ lock' = [lock EXCEPT ![id[p]] = p]
            /\ secrets' = secrets \cup {id[p]}
            /\ copy' = [copy EXCEPT ![p] = id[p] \in secrets]
            /\ GoTo(p, "connectUpsert")
            /\ UNCHANGED <<kind, id, who, view, todo>>
       ELSE Return(p) /\ UNCHANGED secrets
    /\ UNCHANGED <<accounts, accountsFile, backup, tombstones, metaVars, ghostVars,
                   up, receipt, ops, alone>>

\* A failed write puts the previous sign-in back, or deletes the new one.
ConnectUpsert(p, outcome) ==
    /\ At(p, "connectUpsert")
    /\ CommitAccounts(Upserted(accounts, [id |-> id[p], who |-> who[p], usage |-> 0]), outcome)
    /\ secrets' = IF outcome # "ok" /\ ~copy[p] THEN secrets \ {id[p]} ELSE secrets
    /\ Return(p)
    /\ UNCHANGED <<tombstones, metaVars, unsaved, torn, up, receipt, ops, alone>>

\* A live refresh holds the account lock from its start to its last save:
\* the account with its usage, then the reading in the history.
Refresh(p, i, outcome) ==
    /\ Begin(p) /\ lock[i] = Nobody
    /\ i \in IdsOf(accounts)
    /\ CommitAccounts(Mutated(accounts, i, MaxStamp), outcome)
    /\ IF outcome = "ok"
       THEN /\ Enter(p, "refresh", "refresh")
            /\ id' = [id EXCEPT ![p] = i]
            /\ lock' = [lock EXCEPT ![i] = p]
       ELSE UNCHANGED <<kind, pc, id, lock>>
    /\ UNCHANGED <<secrets, tombstones, metaVars, unsaved, torn, up, receipt, who, view, copy, todo>>

\* The history keeps the reading in memory where it could not be written.
RecordReading(p, outcome) ==
    /\ At(p, "refresh") /\ Fault(outcome)
    /\ unsaved' = (unsaved \/ outcome # "ok")
    /\ history' = history \cup {id[p]}
    /\ historyFile' = Saved(historyFile, history', outcome)
    /\ Return(p)
    /\ UNCHANGED <<storeVars, order, orderFile, alerts, alertsFile, groups, groupsFile,
                   late, torn, up, receipt, ops, alone>>

\* Settings > clear usage data, a synchronous command.
ClearCachedUsage(outcome) ==
    /\ Begin(UI)
    /\ CommitAccounts([i \in DOMAIN accounts |-> [accounts[i] EXCEPT !.usage = 0]], outcome)
    /\ UNCHANGED <<secrets, tombstones, metaVars, unsaved, torn, up, receipt, lock, pc, kind,
                   id, who, view, copy, todo>>
-----------------------------------------------------------------------------
(* Removing one account, and Delete all local data.                          *)

RemoveAccount(p, i) ==
    /\ Begin(p)
    /\ Enter(p, "remove", "secret")
    /\ id' = [id EXCEPT ![p] = i]
    /\ UNCHANGED <<storeVars, metaVars, ghostVars, up, receipt, faults, lock, who, view,
                   copy, todo>>

DeleteAllLocalData(p) ==
    /\ Begin(p)
    /\ Enter(p, "deleteEach", "next")
    /\ todo' = [todo EXCEPT ![p] = [i \in DOMAIN accounts |-> accounts[i].id]]
    /\ UNCHANGED <<storeVars, metaVars, ghostVars, up, receipt, faults, lock, id, who,
                   view, copy>>

\* The next account of a Delete all, or what is left over after the last one.
NextAccount(p) ==
    /\ At(p, "next")
    /\ IF todo[p] # <<>>
       THEN /\ GoTo(p, "secret")
            /\ id' = [id EXCEPT ![p] = Head(todo[p])]
            /\ todo' = [todo EXCEPT ![p] = Tail(@)]
            /\ UNCHANGED kind
       ELSE Enter(p, "deleteRest", "clearTombstones") /\ UNCHANGED <<id, todo>>
    /\ UNCHANGED <<storeVars, metaVars, ghostVars, up, receipt, ops, faults, lock, who,
                   view, copy, alone>>

\* Under the account lock; an account keeps its place where its sign-in could
\* not be deleted.
RemoveSecret(p, outcome) ==
    /\ At(p, "secret") /\ lock[id[p]] = Nobody
    /\ Fault(outcome) /\ outcome # "late"
    /\ IF outcome = "ok"
       THEN /\ lock' = [lock EXCEPT ![id[p]] = p]
            /\ secrets' = secrets \ {id[p]}
            /\ GoTo(p, "metadata")
            /\ UNCHANGED <<kind, id, who, view, copy, todo>>
       ELSE Return(p) /\ UNCHANGED secrets
    /\ UNCHANGED <<accounts, accountsFile, backup, tombstones, metaVars, ghostVars, up,
                   receipt, ops, alone>>

RemoveMetadata(p, outcome) ==
    /\ At(p, "metadata")
    /\ IF id[p] \in IdsOf(accounts)
       THEN CommitAccounts(Without(accounts, id[p]), outcome)
       ELSE outcome = "ok" /\ UNCHANGED <<accounts, accountsFile, backup, late, faults>>
    /\ Continue(p, "tombstone", outcome)
    /\ UNCHANGED <<secrets, tombstones, metaVars, unsaved, torn, up, receipt, ops, alone>>

RecordDeletion(p, outcome) ==
    /\ At(p, "tombstone") /\ Fault(outcome)
    /\ SaveTombstones(MergeTombstones(id[p]), outcome)
    /\ GoTo(p, "order")
    /\ UNCHANGED <<accounts, accountsFile, backup, secrets, metaVars, ghostVars, up,
                   receipt, lock, kind, id, who, view, copy, todo, ops, alone>>

ClearTombstones(p, outcome) ==
    /\ At(p, "clearTombstones") /\ Fault(outcome)
    /\ SaveTombstones(<<>>, outcome)
    /\ GoTo(p, "order")
    /\ UNCHANGED <<accounts, accountsFile, backup, secrets, metaVars, ghostVars, up,
                   receipt, lock, kind, id, who, view, copy, todo, ops, alone>>

\* The order changes in memory; only a change is written.
ForgetOrder(p) ==
    /\ At(p, "order")
    /\ order' = InOrder(order, Ids \ Scope(p))
    /\ GoTo(p, IF order' = order THEN "alerts" ELSE "copyOrder")
    /\ UNCHANGED <<storeVars, orderFile, alerts, alertsFile, groups, groupsFile, history,
                   historyFile, ghostVars, up, receipt, lock, kind, id, who, view, copy,
                   todo, ops, faults, alone>>

\* The mistake of skipping the alert settings.
ForgetAlerts_Skipped(p, outcome) ==
    /\ At(p, "alerts") /\ outcome = "ok"
    /\ Continue(p, "groups", outcome)
    /\ UNCHANGED <<storeVars, metaVars, ghostVars, up, receipt, ops, faults, alone>>

\* Under the lock of the store, the write included.
ForgetAlerts(p, outcome) ==
    /\ At(p, "alerts") /\ Fault(outcome)
    /\ unsaved' = (unsaved \/ outcome # "ok")
    /\ alerts' = alerts \ Scope(p)
    /\ IF alerts' = alerts
       THEN outcome = "ok" /\ UNCHANGED alertsFile
       ELSE alertsFile' = Saved(alertsFile, alerts', outcome)
    /\ Continue(p, "groups", outcome)
    /\ UNCHANGED <<storeVars, order, orderFile, groups, groupsFile, history, historyFile,
                   late, torn, up, receipt, ops, alone>>

ForgetGroups(p) ==
    /\ At(p, "groups")
    /\ groups' = GroupsWithout(p)
    /\ GoTo(p, IF groups' = groups THEN "history" ELSE "copyGroups")
    /\ UNCHANGED <<storeVars, order, orderFile, alerts, alertsFile, groupsFile, history,
                   historyFile, ghostVars, up, receipt, lock, kind, id, who, view, copy,
                   todo, ops, faults, alone>>

\* A month is written when the removal took readings from it in memory, or when
\* readings in it are still to be written: one whose removal failed is not
\* written again by the next.  The clear of a Delete all goes by the files.
HistoryToWrite(p) ==
    IF Whole(p) THEN historyFile # {}
    ELSE id[p] \in history \/ ~(history \subseteq historyFile)

\* The last store.  The account lock is released with it.
ForgetHistory(p, outcome) ==
    /\ At(p, "history") /\ Fault(outcome)
    /\ unsaved' = (unsaved \/ outcome # "ok")
    /\ history' = history \ Scope(p)
    /\ IF HistoryToWrite(p)
       THEN historyFile' = Saved(historyFile, history', outcome)
       ELSE outcome = "ok" /\ UNCHANGED historyFile
    /\ IF kind[p] = "deleteEach" /\ outcome = "ok"
       THEN /\ GoTo(p, "next")
            /\ lock' = [lock EXCEPT ![id[p]] = Nobody]
            /\ UNCHANGED <<kind, id, who, view, copy, todo>>
       ELSE Return(p)
    /\ UNCHANGED <<storeVars, order, orderFile, alerts, alertsFile, groups, groupsFile,
                   late, torn, up, receipt, ops, alone>>
-----------------------------------------------------------------------------
(* Writing the order and the groups: a copy is taken under the read lock and *)
(* written without one.                                                      *)

Saving(step) == \E p \in Procs : At(p, step)

CopyOrder(p) ==
    /\ At(p, "copyOrder")
    /\ copy' = [copy EXCEPT ![p] = order]
    /\ torn' = (torn \/ Saving("saveOrder"))
    /\ GoTo(p, "saveOrder")
    /\ UNCHANGED <<storeVars, metaVars, late, unsaved, up, receipt, lock, kind, id,
                   who, view, todo, ops, faults, alone>>

SaveOrder(p, outcome) ==
    /\ At(p, "saveOrder") /\ Fault(outcome)
    /\ unsaved' = (unsaved \/ outcome # "ok")
    /\ orderFile' = Saved(orderFile, copy[p], outcome)
    /\ IF kind[p] = "show" THEN Return(p)
       ELSE IF kind[p] = "reorder" /\ outcome = "ok"
       THEN /\ Enter(p, "show", "compare")
            /\ copy' = [copy EXCEPT ![p] = Applied(order, view[p])]
            /\ UNCHANGED <<lock, id, who, view, todo>>
       ELSE Continue(p, "alerts", outcome)
    /\ UNCHANGED <<storeVars, order, alerts, alertsFile, groups, groupsFile, history,
                   historyFile, late, torn, up, receipt, ops, alone>>

CopyGroups(p) ==
    /\ At(p, "copyGroups")
    /\ copy' = [copy EXCEPT ![p] = groups]
    /\ torn' = (torn \/ Saving("saveGroups"))
    /\ GoTo(p, "saveGroups")
    /\ UNCHANGED <<storeVars, metaVars, late, unsaved, up, receipt, lock, kind, id,
                   who, view, todo, ops, faults, alone>>

SaveGroups(p, outcome) ==
    /\ At(p, "saveGroups") /\ Fault(outcome)
    /\ unsaved' = (unsaved \/ outcome # "ok")
    /\ groupsFile' = Saved(groupsFile, copy[p], outcome)
    /\ IF kind[p] = "group" THEN Return(p) ELSE Continue(p, "history", outcome)
    /\ UNCHANGED <<storeVars, order, orderFile, alerts, alertsFile, groups, history,
                   historyFile, late, torn, up, receipt, ops, alone>>
-----------------------------------------------------------------------------
(* What the page does with the order, the groups and the alerts.             *)

\* The dashboard reads the accounts and works out their order from the saved
\* one; where the two differ it saves what it worked out.
ShowDashboard(p) ==
    /\ Begin(p)
    /\ Enter(p, "show", "compare")
    /\ copy' = [copy EXCEPT ![p] = Applied(order, accounts)]
    /\ UNCHANGED <<storeVars, metaVars, ghostVars, up, receipt, faults, lock, id, who,
                   view, todo>>

CompareOrder(p) ==
    /\ At(p, "compare")
    /\ order' = copy[p]
    /\ IF order' = order THEN Return(p)
       ELSE GoTo(p, "copyOrder") /\ UNCHANGED <<kind, lock, id, who, view, copy, todo>>
    /\ UNCHANGED <<storeVars, orderFile, alerts, alertsFile, groups, groupsFile, history,
                   historyFile, ghostVars, up, receipt, ops, faults, alone>>

\* A drag on the page: refused unless it names every account exactly once.
Reorder(requested) ==
    /\ Begin(UI)
    /\ IF Len(requested) = Len(accounts)
          /\ {requested[i] : i \in DOMAIN requested} = IdsOf(accounts)
       THEN /\ order' = requested
            /\ view' = [view EXCEPT ![UI] = accounts]
            /\ Enter(UI, "reorder", "copyOrder")
       ELSE UNCHANGED <<order, view, kind, pc>>
    /\ UNCHANGED <<storeVars, orderFile, alerts, alertsFile, groups, groupsFile, history,
                   historyFile, ghostVars, up, receipt, faults, lock, id, who, copy, todo>>

\* A group as the page sends it: its members may have been removed since.
SaveGroup(g, members) ==
    /\ Begin(UI)
    /\ IF GroupRoom(g)
       THEN groups' = [groups EXCEPT ![g] = members] /\ Enter(UI, "group", "copyGroups")
       ELSE UNCHANGED <<groups, kind, pc>>
    /\ UNCHANGED <<storeVars, order, orderFile, alerts, alertsFile, groupsFile, history,
                   historyFile, ghostVars, up, receipt, faults, lock, id, who, view,
                   copy, todo>>

DeleteGroup(g) ==
    /\ Begin(UI)
    /\ groups' = [groups EXCEPT ![g] = NoGroup]
    /\ IF groups' # groups THEN Enter(UI, "group", "copyGroups") ELSE UNCHANGED <<kind, pc>>
    /\ UNCHANGED <<storeVars, order, orderFile, alerts, alertsFile, groupsFile, history,
                   historyFile, ghostVars, up, receipt, faults, lock, id, who, view,
                   copy, todo>>

\* A group that came with a transfer joins the members of the one here.
ImportGroup(p, g, members) ==
    /\ Begin(p) /\ GroupRoom(g)
    /\ groups' = [groups EXCEPT ![g] = IF @ = NoGroup THEN members ELSE @ \cup members]
    /\ Enter(p, "group", "copyGroups")
    /\ UNCHANGED <<storeVars, order, orderFile, alerts, alertsFile, groupsFile, history,
                   historyFile, ghostVars, up, receipt, faults, lock, id, who, view,
                   copy, todo>>

\* The command checks that the account exists and then saves its alerts,
\* without the account's lock.
CheckAlerts(i) ==
    /\ Begin(UI) /\ i \in IdsOf(accounts)
    /\ Enter(UI, "alert", "saveAlerts")
    /\ id' = [id EXCEPT ![UI] = i]
    /\ UNCHANGED <<storeVars, metaVars, ghostVars, up, receipt, faults, lock, who, view,
                   copy, todo>>

\* An empty list of settings removes the account's entry.
SaveAlerts(outcome) ==
    /\ At(UI, "saveAlerts") /\ Fault(outcome)
    /\ unsaved' = (unsaved \/ outcome # "ok")
    /\ alerts' \in {alerts \cup {id[UI]}, alerts \ {id[UI]}}
    /\ alertsFile' = Saved(alertsFile, alerts', outcome)
    /\ Return(UI)
    /\ UNCHANGED <<storeVars, order, orderFile, groups, groupsFile, history, historyFile,
                   late, torn, up, receipt, ops, alone>>
-----------------------------------------------------------------------------
(* Stopping, reinstalling, starting.                                         *)

\* The process ends anywhere: what was not written is lost.
Stop ==
    /\ up /\ up' = FALSE
    /\ Quiet \/ faults < MaxFaults
    /\ faults' = IF Quiet THEN faults ELSE faults + 1
    /\ pc' = [p \in Procs |-> "idle"] /\ kind' = [p \in Procs |-> "none"]
    /\ lock' = [i \in Ids |-> Nobody]
    /\ id' = [p \in Procs |-> NoValue] /\ who' = [p \in Procs |-> NoValue]
    /\ view' = [p \in Procs |-> <<>>] /\ copy' = [p \in Procs |-> <<>>]
    /\ todo' = [p \in Procs |-> <<>>]
    /\ alone' = [p \in Procs |-> FALSE]
    /\ accounts' = <<>> /\ order' = <<>> /\ alerts' = {} /\ history' = {}
    /\ groups' = [g \in Groups |-> NoGroup]
    /\ late' = FALSE /\ unsaved' = FALSE /\ torn' = FALSE
    /\ UNCHANGED <<accountsFile, backup, tombstones, secrets, orderFile, alertsFile,
                   groupsFile, historyFile, receipt, ops>>

\* On Apple systems the keychain outlives the app and its folder.
Reinstall ==
    /\ ~up /\ faults < MaxFaults /\ faults' = faults + 1
    /\ accountsFile' = Missing /\ backup' = Missing /\ tombstones' = <<>>
    /\ orderFile' = <<>> /\ alertsFile' = {} /\ historyFile' = {}
    /\ groupsFile' = [g \in Groups |-> NoGroup]
    /\ receipt' = FALSE
    /\ UNCHANGED <<accounts, secrets, order, alerts, groups, history, procVars, late,
                   unsaved, torn, up, ops>>

\* The mistake of looking only for accounts.json.
HasExistingMetadata_NoBackup == accountsFile # Missing

\* A file of an earlier run in the folder: the readings are not one of them.
HasExistingMetadata ==
    \/ accountsFile # Missing \/ backup # Missing
    \/ orderFile # <<>> \/ alertsFile # {} \/ \E g \in Groups : groupsFile[g] # NoGroup

\* Neither a receipt nor a file: sign-ins left in the keychain are purged.
Purged == IF ~receipt /\ ~HasExistingMetadata THEN {} ELSE secrets

\* Startup: the installation check, then the files.  A purge that failed is
\* logged and not repeated, a receipt that failed is written next time.
Start(purgeFails, receiptFails) ==
    /\ ~up
    /\ ReadAccountFile(Recovered(accountsFile), backup) # Broken
    /\ Fault(IF purgeFails \/ receiptFails THEN "failed" ELSE "ok")
    /\ up' = TRUE
    /\ secrets' = IF purgeFails THEN secrets ELSE Purged
    /\ receipt' = (receipt \/ ~receiptFails)
    /\ accountsFile' = Recovered(accountsFile)
    /\ accounts' = Content(LoadedAccounts(accountsFile, backup))
    /\ tombstones' = PrunedTombstones(IdsOf(accounts'))
    /\ order' = orderFile /\ alerts' = alertsFile /\ groups' = groupsFile
    /\ history' = historyFile
    /\ UNCHANGED <<backup, orderFile, alertsFile, groupsFile, historyFile, procVars,
                   late, unsaved, torn, ops>>
-----------------------------------------------------------------------------
(* The app starts on what an earlier run, or an earlier version, left: also  *)
(* without a receipt, and with an accounts.json that cannot be read.         *)
CONSTANTS
    Earlier,    \* accounts of the earlier run, a sequence
    People      \* the identities sign-ins find

ASSUME InitAssumption == Earlier \in Seq(Account) /\ People \subseteq Identity

DataInit ==
    /\ accountsFile \in {Missing, Broken, Earlier}
    /\ backup \in {Missing, Earlier}
    /\ secrets = IdsOf(Earlier)
    /\ receipt \in BOOLEAN
    /\ tombstones = <<>> /\ orderFile = <<>> /\ alertsFile = {} /\ historyFile = {}
    /\ groupsFile = [g \in Groups |-> NoGroup]
    /\ accounts = <<>> /\ order = <<>> /\ alerts = {} /\ history = {}
    /\ groups = [g \in Groups |-> NoGroup]
    /\ up = FALSE
    /\ lock = [i \in Ids |-> Nobody]
    /\ pc = [p \in Procs |-> "idle"] /\ kind = [p \in Procs |-> "none"]
    /\ id = [p \in Procs |-> NoValue] /\ who = [p \in Procs |-> NoValue]
    /\ view = [p \in Procs |-> <<>>] /\ copy = [p \in Procs |-> <<>>]
    /\ todo = [p \in Procs |-> <<>>]
    /\ alone = [p \in Procs |-> FALSE]
    /\ ops = 0 /\ faults = 0
    /\ late = FALSE /\ unsaved = FALSE /\ torn = FALSE

Task(p) ==
    \/ \E person \in People, reconnect \in Ids \cup {NoValue} :
          ConnectLookup(p, person, reconnect)
    \/ \E i \in Ids : RemoveAccount(p, i)
    \/ \E i \in Ids, outcome \in Outcomes : Refresh(p, i, outcome)
    \/ DeleteAllLocalData(p)
    \/ ShowDashboard(p)
    \/ \E g \in Groups, i \in Ids : ImportGroup(p, g, {i})

Page ==
    \/ \E requested \in [DOMAIN accounts -> Ids] : Reorder(requested)
    \/ \E g \in Groups, i \in Ids : SaveGroup(g, {i})
    \/ \E g \in Groups : DeleteGroup(g)
    \/ \E i \in Ids : CheckAlerts(i)
    \/ \E outcome \in Outcomes : ClearCachedUsage(outcome) \/ SaveAlerts(outcome)

Continued(p) ==
    \/ NextAccount(p) \/ ForgetOrder(p) \/ ForgetGroups(p) \/ CompareOrder(p)
    \/ CopyOrder(p) \/ CopyGroups(p)
    \/ \E outcome \in Outcomes :
          \/ ConnectSecret(p, outcome) \/ ConnectUpsert(p, outcome)
          \/ RecordReading(p, outcome)
          \/ RemoveSecret(p, outcome) \/ RemoveMetadata(p, outcome)
          \/ RecordDeletion(p, outcome) \/ ClearTombstones(p, outcome)
          \/ ForgetAlerts(p, outcome) \/ ForgetHistory(p, outcome)
          \/ SaveOrder(p, outcome) \/ SaveGroups(p, outcome)

DataNext ==
    \/ \E p \in Tasks : Task(p)
    \/ Page
    \/ \E p \in Procs : Continued(p)
    \/ Stop \/ Reinstall
    \/ \E purgeFails, receiptFails \in BOOLEAN : Start(purgeFails, receiptFails)

DataSpec == DataInit /\ [][DataNext]_dataVars
-----------------------------------------------------------------------------
(* Properties. *)

\* Type invariant; the deleted-accounts list never outgrows its bound.
DataTypeOK ==
    /\ up \in BOOLEAN /\ receipt \in BOOLEAN
    /\ \A i \in DOMAIN accounts : accounts[i] \in Account
    /\ accountsFile \in {Missing, Broken} \/ \A i \in DOMAIN accountsFile : accountsFile[i] \in Account
    /\ Len(tombstones) <= MaxTombstones
    /\ secrets \subseteq Ids /\ alerts \subseteq Ids /\ history \subseteq Ids
    /\ groups \in [Groups -> SUBSET Ids \cup {NoGroup}]
    /\ pc \in [Procs -> Steps] /\ kind \in [Procs -> Kinds]
    /\ lock \in [Ids -> Procs \cup {Nobody}]

\* What a restart would load is what the app shows, through every failed write,
\* rollback and crash: only a write reported failed after its rename differs.
ReloadKeepsAccounts ==
    up /\ ~late => Content(LoadedAccounts(accountsFile, backup)) = accounts

SameOwners(a, b) ==
    Len(a) = Len(b) /\ \A i \in DOMAIN a : a[i].id = b[i].id /\ a[i].who = b[i].who
Connects(p) == At(p, "connectUpsert") /\ accounts' # accounts
FromCurrentView(p) == SameOwners(view[p], accounts)

\* A sign-in never adds a second account for somebody who has one; only one
\* whose look-up the list has changed since can.
TwinNeedsRace ==
    [][\A p \in Tasks : Connects(p) /\ FromCurrentView(p) /\ id[p] \notin IdsOf(accounts) =>
          \A i \in DOMAIN accounts : ~SameIdentity(accounts[i].who, who[p])]_dataVars

\* The installation check never deletes the sign-in of an account the start
\* then loads, from the backup too.
PurgeSparesAccounts ==
    [][up' /\ ~up => IdsOf(accounts') \cap secrets \subseteq secrets']_dataVars

\* An account some store or file still knows, or that the next start would load.
\* The backup is left out: it keeps the list as it was before the removal until the
\* accounts change again (accounts.rs:465-474), and is read only without accounts.json.
Mentioned(i) ==
    \/ i \in IdsOf(accounts) \cup IdsOf(Content(LoadedAccounts(accountsFile, backup)))
    \/ i \in alerts \cup alertsFile \cup history \cup historyFile
    \/ \E n \in DOMAIN order : order[n] = i
    \/ \E n \in DOMAIN orderFile : orderFile[n] = i
    \/ \E g \in Groups : \/ groups[g] # NoGroup /\ i \in groups[g]
                         \/ groupsFile[g] # NoGroup /\ i \in groupsFile[g]

\* An operation that overlapped no other one reports success with its last
\* step and leaves something of an account it was to forget.
Leaves(p) ==
    /\ At(p, "history") /\ pc'[p] # "history" /\ alone[p]
    /\ faults' = faults /\ ~late
    /\ \E i \in Scope(p) : Mentioned(i)' \/ (~Whole(p) /\ i \in secrets')

\* A removal, or a Delete all, that reported success and overlapped nothing leaves
\* nothing about its accounts in any store or its file, accounts.json.bak excepted, as
\* long as every save of the order, the groups, the alerts and the history worked.
RemovalForgets == [][\A p \in Procs : ~unsaved /\ ~torn => ~Leaves(p)]_dataVars

\* "a failure part-way leaves the rest of the data as it was and can simply be
\* tried again" (state.rs): a Delete all that reported success leaves nothing,
\* also where an earlier one, or another save, failed part-way.
RetriedDeleteAllForgets == [][\A p \in Procs : Whole(p) /\ ~torn => ~Leaves(p)]_dataVars
=============================================================================
