--------------------------- MODULE TransferImport ---------------------------
(***************************************************************************)
(* What a device transfer carries and how the receiving device takes it in *)
(* (pairing/payload.rs), the same for Wi-Fi and for the animated codes:    *)
(* account by account, then the groups, the settings, the order, the       *)
(* alerts and the layout that refer to them by the sender's ids.           *)
(*                                                                         *)
(* The import reads a store, works something out and saves it, each under  *)
(* a lock of its own, so sign-ins, removals and edits on the receiving     *)
(* device fall between its steps.  Removals and edits are single steps here *)
(* (AppData has theirs); a sign-in asks which account it is of before it     *)
(* waits for that account's lock.  One import and one sign-in at a time.     *)
(***************************************************************************)
EXTENDS AccountLists, FiniteSets, SequencesExt

CONSTANTS
    Groups, Names,  \* ids and names of account groups
    MaxGroups,      \* groups a device may have (MAX_BUCKETS)
    MaxAccounts,    \* accounts a transfer may have (MAX_ACCOUNTS)
    Transfers,      \* the exports made on sending devices
    Sender,         \* what the device behind each of them holds
    Unfit,          \* ids of a sender that cannot name a file
    Fresh,          \* ids this device makes: for sign-ins, and in place of those
    People,         \* identities sign-ins on this device find
    Receivers,      \* what this device may hold at first
    MaxTurns        \* bound: local changes and failures together

ASSUME TransferImportAssumption ==
    /\ MaxGroups \in Nat \ {0} /\ MaxAccounts \in Nat \ {0} /\ MaxTurns \in Nat
    /\ DOMAIN Sender = Transfers
    /\ Fresh \subseteq Ids /\ NoValue \notin Groups

VARIABLES
    accounts,   \* the saved accounts: [id, who]
    signIn,     \* whose sign-in is saved for an id: none, own or sent
    groups,     \* [id, name, members]
    order,      \* the saved order of the accounts
    alerts,     \* ids with alert settings
    settings,   \* whose settings the app has
    layout,     \* what the dashboard was told to show
    at,         \* the step of the import
    from,       \* the transfer it imports
    n,          \* its place in the list it goes through
    idMap,      \* the sender's id to the one here
    groupMap,   \* the sender's group to the one here
    plan,       \* what it is about to save
    added, skipped, warned,     \* its summary
    turns,      \* bound
    signing,    \* a sign-in of this device that waits for its account's lock
    revived,    \* ids of accounts such a sign-in saved anew after their removal
    raced,      \* the device changed while an import ran
    failed      \* a save of this import failed

deviceVars == <<accounts, signIn, groups, order, alerts, settings, layout, signing, revived>>
importVars == <<at, from, n, idMap, groupMap, plan, added, skipped, warned>>
transferVars == <<deviceVars, importVars, turns, raced, failed>>

Account == [id : Ids, who : Identity]
Group == [id : Groups, name : Names, members : SUBSET Ids]
Distinct(list) == \A i, j \in DOMAIN list : i # j => list[i].id # list[j].id

Here(id) == id \in IdsOf(accounts)
Twinless(list) ==
    \A i, j \in DOMAIN list : i # j => ~SameIdentity(list[i].who, list[j].who)
-----------------------------------------------------------------------------
(* The sending device.                                                       *)

Readable(t) == SelectSeq(Sender[t].accounts, LAMBDA a : a.id \notin Sender[t].unreadable)

CanExport(t) == Len(Sender[t].accounts) <= MaxAccounts

\* create_export_payload: an account whose sign-in cannot be read is left out;
\* the order, the alerts and the layout go only with the settings.
Exported(t) ==
    LET s == Sender[t]
    IN  [accounts |-> Readable(t), groups |-> s.groups, settings |-> s.extras,
         order  |-> IF s.extras THEN s.order ELSE <<>>,
         alerts |-> IF s.extras THEN s.alerts ELSE <<>>,
         cards  |-> IF s.extras THEN s.cards ELSE {},
         pages  |-> IF s.extras THEN s.pages ELSE <<>>]

\* plan_account_ids: what is too large is dropped.
Planned(t) == SelectSeq(Exported(t).accounts, LAMBDA a : a.id \notin Sender[t].large)

\* Ids are random: the next ones made here are not those other devices made.
ASSUME SentAssumption ==
    \A t \in Transfers :
       /\ Planned(t) \in Seq([id : Ids \ Fresh, who : Identity]) /\ Distinct(Planned(t))
       /\ Exported(t).groups \in Seq(Group) /\ Distinct(Exported(t).groups)
       /\ Exported(t).accounts \in Seq(Account) /\ Exported(t).alerts \in Seq(Ids)

ASSUME ReceiversAssumption ==
    /\ People \subseteq Identity
    /\ \A r \in Receivers :
          /\ r.accounts \in Seq(Account) /\ Twinless(r.accounts)
          /\ r.groups \in Seq(Group)
-----------------------------------------------------------------------------
(* The import.                                                               *)

NoMap(S) == [x \in S |-> NoValue]

\* The id here for an id of the sender: its own where the import made no other.
To(sid) == IF idMap[sid] # NoValue THEN idMap[sid] ELSE sid

\* A list of the sender's ids as accounts here, each once.
ToHere(ids) ==
    FoldLeft(LAMBDA list, sid : IF Here(To(sid)) /\ ~Contains(list, To(sid))
                                THEN Append(list, To(sid)) ELSE list,
             <<>>, ids)

ToGroup(g) == IF groupMap[g] # NoValue THEN groupMap[g] ELSE g

\* A save that fails is put in the summary's warnings.
Outcome(ok) ==
    /\ turns' = IF ok THEN turns ELSE turns + 1
    /\ turns' <= MaxTurns
    /\ failed' = (failed \/ ~ok)

Begin(t) ==
    /\ at = "idle"
    /\ at' = "account" /\ from' = t /\ n' = 1
    /\ idMap' = NoMap(Ids) /\ groupMap' = NoMap(Groups) /\ plan' = NoValue
    /\ added' = 0 /\ warned' = FALSE
    /\ skipped' = Len(Exported(t).accounts) - Len(Planned(t))
    /\ failed' = FALSE
    /\ UNCHANGED <<deviceVars, raced>>

\* The mistakes of knowing an account only by the identity, or only by the id.
IsHere_ByIdentity(entry) == Duplicates(accounts, entry.who) # {}
IsHere_ById(entry) == Here(entry.id)

IsHere(entry) == Duplicates(accounts, entry.who) # {} \/ Here(entry.id)

Existing(entry) ==
    IF Duplicates(accounts, entry.who) # {} THEN FindDuplicate(accounts, entry.who)
    ELSE entry.id

\* An account that is here keeps its sign-in and its data.
SkipAccount(entry, id) ==
    /\ idMap' = [idMap EXCEPT ![entry.id] = id]
    /\ skipped' = skipped + 1

\* Whether the account is here is asked before the account's lock is awaited.
LookUp ==
    /\ at = "account" /\ n <= Len(Planned(from))
    /\ LET entry == Planned(from)[n]
       IN  IF IsHere(entry)
           THEN /\ SkipAccount(entry, Existing(entry))
                /\ n' = n + 1 /\ UNCHANGED at
           ELSE at' = "persist" /\ UNCHANGED <<idMap, skipped, n>>
    /\ UNCHANGED <<deviceVars, from, groupMap, plan, added, warned, turns, raced, failed>>

\* An id nothing on this device has, nor a sign-in that is about to be saved.
Unused(id) == id \in Fresh /\ ~Here(id) /\ (signing # NoValue => id # signing.id)

\* It is saved under the sender's id, or a new one where that is unfit.
Takes(entry, id) == IF entry.id \in Unfit THEN Unused(id) ELSE id = entry.id

\* A sign-in that was saved is taken back when its account cannot be; that the
\* account is missing is not among the warnings.
Persist(ok, id) ==
    /\ at = "persist" /\ Outcome(ok)
    /\ LET entry == Planned(from)[n]
       IN  /\ Takes(entry, id)
           /\ IF ok
              THEN /\ accounts' = IF Here(id) THEN accounts
                                  ELSE Append(accounts, [id |-> id, who |-> entry.who])
                   /\ signIn' = [signIn EXCEPT ![id] = "sent"]
                   /\ idMap' = [idMap EXCEPT ![entry.id] = id]
                   /\ added' = added + 1 /\ UNCHANGED skipped
              ELSE skipped' = skipped + 1 /\ UNCHANGED <<accounts, signIn, idMap, added>>
    /\ n' = n + 1 /\ at' = "account"
    /\ UNCHANGED <<groups, order, alerts, settings, layout, signing, revived, from, groupMap, plan,
                   warned, raced>>

AccountsDone ==
    /\ at = "account" /\ n > Len(Planned(from))
    /\ at' = "group" /\ n' = 1
    /\ UNCHANGED <<deviceVars, from, idMap, groupMap, plan, added, skipped, warned,
                   turns, raced, failed>>

\* The first group that is the sent one by its id, or by its name.
SameGroup(g) ==
    LET matches == {i \in DOMAIN groups : groups[i].id = g.id \/ groups[i].name = g.name}
    IN  IF matches = {} THEN 0 ELSE CHOOSE i \in matches : \A j \in matches : i <= j

MapGroup ==
    /\ at = "group" /\ n <= Len(Exported(from).groups)
    /\ LET g == Exported(from).groups[n]
       IN  plan' = [group |-> [g EXCEPT !.members = {i \in {To(s) : s \in g.members} : Here(i)}],
                    expected |-> IF SameGroup(g) = 0 THEN g.id ELSE groups[SameGroup(g)].id]
    /\ at' = "saveGroup"
    /\ UNCHANGED <<deviceVars, from, n, idMap, groupMap, added, skipped, warned, turns,
                   raced, failed>>

\* upsert_imported: the members are added to the group that is the sent one
\* now, or the group is new if there is room.  Memory changes before the write.
SaveGroup(ok) ==
    /\ at = "saveGroup" /\ Outcome(ok)
    /\ LET g == plan.group
           i == SameGroup(g)
           room == i # 0 \/ Len(groups) < MaxGroups
       IN  /\ groups' = IF i # 0 THEN [groups EXCEPT ![i].members = @ \cup g.members]
                        ELSE IF room THEN Append(groups, g) ELSE groups
           /\ ~room => ok
           /\ IF room /\ ok
              THEN /\ groupMap' = [groupMap EXCEPT ![Exported(from).groups[n].id] = plan.expected]
                   /\ UNCHANGED warned
              ELSE warned' = TRUE /\ UNCHANGED groupMap
    /\ n' = n + 1 /\ at' = "group" /\ plan' = NoValue
    /\ UNCHANGED <<accounts, signIn, order, alerts, settings, layout, signing, revived, from, idMap,
                   added, skipped, raced>>

\* The settings, where they were sent, take effect together here.
Settings(ok) ==
    /\ at = "group" /\ n > Len(Exported(from).groups) /\ Outcome(ok)
    /\ IF Exported(from).settings
       THEN /\ settings' = IF ok THEN "sent" ELSE settings
            /\ warned' = (warned \/ ~ok)
       ELSE ok /\ UNCHANGED <<settings, warned>>
    /\ at' = "order" /\ n' = 1
    /\ UNCHANGED <<accounts, signIn, groups, order, alerts, layout, signing, revived, from, idMap,
                   groupMap, plan, added, skipped, raced>>

\* The mistake of leaving out the accounts only this device has.
MapOrder_SentOnly(ok) ==
    /\ at = "order" /\ ok /\ Outcome(ok)
    /\ plan' = ToHere(Exported(from).order)
    /\ at' = IF plan' = <<>> THEN "alert" ELSE "saveOrder"
    /\ UNCHANGED <<deviceVars, from, n, idMap, groupMap, added, skipped, warned, raced>>

\* The sender's order first, then the accounts only this device has, as shown.
\* Reading how they are shown also saves that; memory changes before the write,
\* and where it fails they follow as they were connected, without a word.
MapOrder(ok) ==
    /\ at = "order" /\ Outcome(ok)
    /\ LET sent  == ToHere(Exported(from).order)
           shown == Applied(order, accounts)
           rest  == IF ok THEN shown ELSE [k \in DOMAIN accounts |-> accounts[k].id]
       IN  /\ ok \/ (sent # <<>> /\ shown # order)
           /\ order' = IF sent = <<>> THEN order ELSE shown
           /\ plan' = IF sent = <<>> THEN <<>>
                      ELSE sent \o SelectSeq(rest, LAMBDA i : ~Contains(sent, i))
    /\ at' = IF plan' = <<>> THEN "alert" ELSE "saveOrder"
    /\ UNCHANGED <<accounts, signIn, groups, alerts, settings, layout, signing, revived, from, n,
                   idMap, groupMap, added, skipped, warned, raced>>

\* An order that no longer fits the accounts is dropped, without a word where
\* their number changed.
SaveOrder(ok) ==
    /\ at = "saveOrder" /\ Outcome(ok)
    /\ LET fits == ToSet(plan) = IdsOf(accounts)
       IN  /\ order' = IF fits /\ Len(plan) = Len(accounts) THEN plan ELSE order
           /\ warned' = (warned \/ (Len(plan) = Len(accounts) /\ ~(fits /\ ok)))
           /\ (Len(plan) # Len(accounts) \/ ~fits) => ok
    /\ at' = "alert" /\ n' = 1 /\ plan' = NoValue
    /\ UNCHANGED <<accounts, signIn, groups, alerts, settings, layout, signing, revived, from,
                   idMap, groupMap, added, skipped, raced>>

\* Each account's alert settings are saved if the account is here.
CheckAlert ==
    /\ at = "alert" /\ n <= Len(Exported(from).alerts)
    /\ LET id == To(Exported(from).alerts[n])
       IN  IF Here(id) THEN plan' = id /\ at' = "saveAlert" /\ UNCHANGED n
           ELSE n' = n + 1 /\ UNCHANGED <<plan, at>>
    /\ UNCHANGED <<deviceVars, from, idMap, groupMap, added, skipped, warned, turns,
                   raced, failed>>

SaveAlert(ok) ==
    /\ at = "saveAlert" /\ Outcome(ok)
    /\ alerts' = alerts \cup {plan}
    /\ warned' = (warned \/ ~ok)
    /\ at' = "alert" /\ n' = n + 1 /\ plan' = NoValue
    /\ UNCHANGED <<accounts, signIn, groups, order, settings, layout, signing, revived, from,
                   idMap, groupMap, added, skipped, raced>>

\* The layout goes to the dashboard last, and the refresh loop is woken.
EmitLayout ==
    /\ at = "alert" /\ n > Len(Exported(from).alerts)
    /\ layout' = IF ~Exported(from).settings THEN layout
                 ELSE [cards |-> {i \in {To(s) : s \in Exported(from).cards} : Here(i)},
                       pages |-> [k \in DOMAIN Exported(from).pages |->
                                     ToGroup(Exported(from).pages[k])]]
    /\ at' = "done"
    /\ UNCHANGED <<accounts, signIn, groups, order, alerts, settings, signing, revived, from, n,
                   idMap, groupMap, plan, added, skipped, warned, turns, raced, failed>>

ImportStep ==
    \/ LookUp \/ AccountsDone \/ MapGroup \/ CheckAlert \/ EmitLayout
    \/ \E ok \in BOOLEAN, id \in Ids : Persist(ok, id)
    \/ \E ok \in BOOLEAN : SaveGroup(ok) \/ Settings(ok) \/ MapOrder(ok) \/ SaveOrder(ok)
                           \/ SaveAlert(ok)

\* The summary was taken: nothing of the import is left but what it saved.
Forget ==
    /\ at = "done" /\ at' = "idle"
    /\ from' = NoValue /\ n' = 1 /\ plan' = NoValue
    /\ idMap' = NoMap(Ids) /\ groupMap' = NoMap(Groups)
    /\ added' = 0 /\ skipped' = 0 /\ warned' = FALSE
    /\ failed' = FALSE
    /\ UNCHANGED <<deviceVars, turns, raced>>
-----------------------------------------------------------------------------
(* The device meanwhile; what changes between imports is in Receivers.        *)

LocalTurn ==
    /\ at # "idle" /\ raced' = TRUE
    /\ turns < MaxTurns /\ turns' = turns + 1
    /\ UNCHANGED <<importVars, failed>>

\* A sign-in is about to update the account it is of, or to make one: that is
\* asked (account_to_update) before the lock of that account is awaited.
LocalLookUp(who, id) ==
    /\ at # "idle" /\ turns < MaxTurns /\ signing = NoValue
    /\ LET known == AccountToUpdate(accounts, NoValue, who)
       IN  /\ IF known # NoValue THEN id = known ELSE Unused(id)
           /\ signing' = [who |-> who, id |-> id, found |-> known # NoValue]
    /\ UNCHANGED <<accounts, signIn, groups, order, alerts, settings, layout, revived, importVars,
                   turns, raced, failed>>

\* It is saved, also where the account it found has been removed meanwhile.
LocalSignIn ==
    /\ signing # NoValue /\ LocalTurn
    /\ LET id == signing.id
       IN  /\ accounts' = IF Here(id) THEN accounts
                          ELSE Append(accounts, [id |-> id, who |-> signing.who])
           /\ signIn' = [signIn EXCEPT ![id] = "own"]
           /\ revived' = IF signing.found /\ ~Here(id) THEN revived \cup {id} ELSE revived
    /\ signing' = NoValue
    /\ UNCHANGED <<groups, order, alerts, settings, layout>>

LocalRemove(k) ==
    /\ LocalTurn
    /\ accounts' = RemoveAt(accounts, k)
    /\ LET id == accounts[k].id
       IN  /\ signIn' = [signIn EXCEPT ![id] = "none"]
           /\ groups' = [i \in DOMAIN groups |-> [groups[i] EXCEPT !.members = @ \ {id}]]
           /\ order' = SelectSeq(order, LAMBDA i : i # id)
           /\ alerts' = alerts \ {id}
    /\ UNCHANGED <<settings, layout, signing, revived>>

DeleteGroup(i) ==
    /\ i \in DOMAIN groups /\ LocalTurn
    /\ groups' = RemoveAt(groups, i)
    /\ UNCHANGED <<accounts, signIn, order, alerts, settings, layout, signing, revived>>

LocalChange ==
    \/ \E who \in People, id \in Ids : LocalLookUp(who, id)
    \/ LocalSignIn
    \/ \E k \in DOMAIN accounts : LocalRemove(k)
    \/ \E i \in 1..MaxGroups : DeleteGroup(i)

InitTransfer ==
    /\ \E r \in Receivers :
          /\ accounts = r.accounts /\ groups = r.groups /\ order = r.order
          /\ signIn = [i \in Ids |-> IF i \in IdsOf(r.accounts) THEN "own" ELSE "none"]
    /\ alerts = {} /\ settings = "own" /\ layout = NoValue
    /\ signing = NoValue /\ revived = {}
    /\ at = "idle" /\ from = NoValue /\ n = 1
    /\ idMap = NoMap(Ids) /\ groupMap = NoMap(Groups) /\ plan = NoValue
    /\ added = 0 /\ skipped = 0 /\ warned = FALSE
    /\ turns = 0 /\ raced = FALSE /\ failed = FALSE
-----------------------------------------------------------------------------
\* What has arrived of the transfer: an account under the id it has here, a
\* group with its accounts unless the summary says otherwise, an alert.
SamePerson(entry, id) ==
    \E i \in DOMAIN accounts :
       /\ accounts[i].id = id
       /\ \/ id = entry.id \/ accounts[i].who = entry.who
          \/ SameIdentity(accounts[i].who, entry.who)

AccountArrived(k) == LET entry == Planned(from)[k] IN SamePerson(entry, idMap[entry.id])

GroupArrived(k) ==
    LET g == Exported(from).groups[k]
    IN  \/ warned
        \/ \E i \in DOMAIN groups :
              /\ groups[i].id = groupMap[g.id]
              /\ {idMap[s] : s \in g.members} \ {NoValue} \subseteq groups[i].members

AlertArrived(k) ==
    LET s == Exported(from).alerts[k] IN idMap[s] # NoValue => idMap[s] \in alerts
-----------------------------------------------------------------------------
\* What holds of the accounts, whatever comes between the steps of an import.
AccountsInv ==
    /\ accounts \in Seq(Account) /\ signIn \in [Ids -> {"none", "own", "sent"}]
    /\ \A i \in Ids : signIn[i] = "own" => Here(i)
    /\ n \in Nat \ {0} /\ (at # "idle" => from \in Transfers)
    /\ signing # NoValue => /\ signing \in [who : People, id : Ids, found : BOOLEAN]
                            /\ signing.found \/ signing.id \in Fresh
    /\ revived # {} => raced
    /\ at = "persist" => /\ n <= Len(Planned(from))
                         /\ Here(Planned(from)[n].id) => Planned(from)[n].id \in revived
    /\ ~raced => /\ Twinless(accounts)
                 /\ at = "persist" => Duplicates(accounts, Planned(from)[n].who) = {}

\* What an import nobody disturbed has done by each of its steps.
TakingAccounts == at \in {"account", "persist"}
TakingGroups == at \in {"group", "saveGroup"}
TakingAlerts == at \in {"alert", "saveAlert"}

MapsInv ==
    /\ idMap \in [Ids -> Ids \cup {NoValue}] /\ groupMap \in [Groups -> Groups \cup {NoValue}]
    /\ groups \in Seq(Group) /\ added \in Nat /\ skipped \in Int
    /\ at = "saveGroup" => plan.group \in Group /\ plan.expected \in Groups
    /\ ~raced => \A s \in Ids : idMap[s] # NoValue => Here(idMap[s])

Undisturbed == at # "idle" /\ ~raced /\ ~failed

ArrivedAccountsInv ==
    Undisturbed =>
       /\ \A k \in DOMAIN Planned(from) : (TakingAccounts => k < n) => AccountArrived(k)
       /\ TakingAccounts => n <= Len(Planned(from)) + 1
       /\ added + skipped + Len(Planned(from)) =
             Len(Exported(from).accounts) + IF TakingAccounts THEN n - 1 ELSE Len(Planned(from))

\* The group that is about to be saved is still the one that was worked out.
ArrivedGroupsInv ==
    Undisturbed /\ ~TakingAccounts =>
       /\ \A k \in DOMAIN Exported(from).groups : (TakingGroups => k < n) => GroupArrived(k)
       /\ at = "saveGroup" =>
             LET g == Exported(from).groups[n]
             IN  /\ n \in DOMAIN Exported(from).groups
                 /\ plan.group = [g EXCEPT !.members = {i \in {To(s) : s \in g.members} : Here(i)}]
                 /\ plan.expected = IF SameGroup(g) = 0 THEN g.id ELSE groups[SameGroup(g)].id

ArrivedAlertsInv ==
    Undisturbed =>
       /\ TakingAlerts \/ at = "done" =>
             \A k \in DOMAIN Exported(from).alerts : (TakingAlerts => k < n) => AlertArrived(k)
       /\ at \in {"order", "saveOrder"} => n = 1
       /\ at = "saveAlert" => plan = To(Exported(from).alerts[n])
-----------------------------------------------------------------------------
(* Properties. *)

\* Where the sender's order has the account here with this id.
Rank(id) ==
    LET sent == Exported(from).order
        places == {i \in DOMAIN sent : To(sent[i]) = id}
    IN  IF places = {} THEN Len(sent) + 1 ELSE CHOOSE i \in places : \A j \in places : i <= j

\* "A transfer therefore cannot overwrite a sign-in, however the other device
\* is set up" (payload.rs): a sign-in made on this device is never replaced
\* by a sent one.  The code has one exception, and this is all of it: an account
\* that was removed while the sign-in waited for its lock, so that an import
\* may have found it gone before the sign-in brought it back.
SignInsAreKept ==
    [][\A i \in Ids : signIn[i] = "own" /\ i \notin revived => signIn'[i] # "sent"]_transferVars

\* Sending the same person twice, in one transfer or in two, or with another id
\* makes no second account: only a sign-in while an import runs can.
NoTwins == ~raced => Twinless(accounts)

\* An import that saved everything, with nobody changing the device meanwhile,
\* has brought the sender's accounts, its groups and its alerts onto the
\* accounts here of the same people, and has counted every account.
Complete == at = "done" /\ ~raced /\ ~failed

ContentsArrive ==
    Complete =>
       /\ \A k \in DOMAIN Planned(from) : AccountArrived(k)
       /\ added + skipped = Len(Exported(from).accounts)
       /\ \A k \in DOMAIN Exported(from).groups : GroupArrived(k)
       /\ \A k \in DOMAIN Exported(from).alerts : AlertArrived(k)

\* Whichever of its saves failed, nothing refers to an account that did not come.
RefersToArrived ==
    ~raced => /\ \A k \in DOMAIN groups : groups[k].members \subseteq IdsOf(accounts)
              /\ alerts \cup ToSet(order) \subseteq IdsOf(accounts)
              /\ layout # NoValue => layout.cards \subseteq IdsOf(accounts)

\* And with them the order: the sender's, where it sent one.  What is saved of a
\* transfer is of accounts that are here, also where a save of it failed.
TransferArrives ==
    /\ ContentsArrive
    /\ RefersToArrived
    /\ Complete /\ ToHere(Exported(from).order) # <<>> =>
          /\ ToSet(order) = IdsOf(accounts)
          /\ \A i, j \in DOMAIN order : i < j => Rank(order[i]) <= Rank(order[j])

=============================================================================
