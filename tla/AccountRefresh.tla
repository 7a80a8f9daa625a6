--------------------------- MODULE AccountRefresh ---------------------------
(***************************************************************************)
(* One account refresh at a time: usage.rs and the parts of state.rs it    *)
(* leans on.  A refresh call joins the refresh already in flight for its   *)
(* account or leads one; a leader takes a permit, then the account's lock, *)
(* loads the saved sign-in and hands lock and sign-in to a spawned         *)
(* provider task, for which it waits a bounded time.  Removing an account, *)
(* connecting one and editing a Google AI Studio sign-in take the same     *)
(* lock.  An export and a background run load sign-ins without it.         *)
(*                                                                         *)
(* A sign-in is the number of the refresh token it carries.  Renewing it   *)
(* at the provider retires the token presented and issues the next one,    *)
(* which is why a token the provider already retired must never be the one *)
(* the application keeps.                                                  *)
(***************************************************************************)
EXTENDS Naturals, FiniteSets

CONSTANTS
    Accounts,   \* account ids
    Calls,      \* slots for concurrent refresh calls, reused when both the
                \* call and the task it spawned are over
    Ops,        \* slots for concurrent remove, connect and edit operations
    Locks,      \* identities of lock objects (Arc<AsyncMutex<()>>)
    Permits,    \* MAX_CONCURRENT_REFRESHES
    MaxToken,   \* bound: refresh tokens issued per account
    NoLock,     \* no lock object
    Nobody      \* no call or operation

Procs == Calls \cup Ops

ASSUME ProcsAssumption ==
    /\ Calls \cap Ops = {}
    /\ Nobody \notin Procs
    /\ NoLock \notin Locks
    /\ Accounts # {}
    /\ IsFiniteSet(Calls)
ASSUME BoundsAssumption == Permits \in Nat \ {0} /\ MaxToken \in Nat \ {0}

VARIABLES
    existing,   \* accounts in the store
    disk,       \* account -> token in the credential store, 0 for none
    dirty,      \* account -> newer token only the secret cache has, or 0
    old,        \* account -> token the cache has as the store's and is not, or 0
    stored,     \* account -> the tokens the credential store has had
    issued,     \* account -> number of tokens issued so far
    retired,    \* account -> tokens exchanged for a newer one
    stranded,   \* accounts whose failed connection could not be rolled back
    mislaid,    \* history: accounts whose newest sign-in was dropped or hidden
    inFlight,   \* account -> the call leading its refresh (in_flight_refreshes)
    free,       \* permits left in refresh_permits
    lockMap,    \* account -> lock object (account_locks)
    ref,        \* call or operation -> the lock object it holds an Arc of
    owner,      \* lock object -> who holds its guard
    pc,         \* where a call or an operation is
    target,     \* the account it is about
    token,      \* the token it carries
    kind,       \* what an operation does
    leader,     \* the call a joined call waits for
    task        \* call -> where the provider task it spawned is

store == <<existing, stranded>>
secrets == <<disk, dirty, old, stored, issued, retired, mislaid>>
locking == <<lockMap, ref, owner>>
local == <<pc, target, token, kind, leader>>
vars == <<store, secrets, inFlight, free, locking, local, task>>

CallPc == {"idle", "joined", "permit", "lock", "locked", "await", "finish", "release",
           "abandon", "drop"}
OpPc == {"idle", "lock", "held", "deleted", "saved", "edited",
         "release", "forget"}
Tasks == {"none", "ready", "rotated", "fresh", "answered", "done", "panicked"}
Kinds == {"remove", "connect", "edit"}
Tokens == 0 .. MaxToken

-----------------------------------------------------------------------------
(* The credential store and its cache *)

\* load_provider_secret: what the cache has wins over the store.  An entry that
\* is the store's makes no difference and may expire any time: it is left out.
Visible(a) == IF dirty[a] # 0 THEN dirty[a] ELSE IF old[a] # 0 THEN old[a] ELSE disk[a]

\* Mutant: a failed write leaves the cache alone.
SaveKeptInCache_Lost(a, t) == UNCHANGED <<disk, dirty, old, stored>>

\* save_provider_secret: what the cache has as the store's is not written; when
\* the write fails the cache keeps the sign-in.
SaveStored(a, t) ==
    /\ dirty' = [dirty EXCEPT ![a] = 0]
    /\ IF old[a] = t
       THEN UNCHANGED <<disk, old, stored>>
       ELSE /\ disk' = [disk EXCEPT ![a] = t] /\ old' = [old EXCEPT ![a] = 0]
            /\ stored' = [stored EXCEPT ![a] = @ \cup {t}]

SaveKeptInCache(a, t) ==
    /\ old[a] # t
    /\ dirty' = [dirty EXCEPT ![a] = t]
    /\ old' = [old EXCEPT ![a] = 0]
    /\ UNCHANGED <<disk, stored>>

\* History: a sign-in that works is the saved one again.
Found(a, t) ==
    mislaid' = IF a \in existing /\ old[a] # t /\ t \notin retired[a]
               THEN mislaid \ {a} ELSE mislaid

ForgetCached(a) ==
    /\ dirty' = [dirty EXCEPT ![a] = 0]
    /\ old' = [old EXCEPT ![a] = 0]

DeleteSecret(a) == disk' = [disk EXCEPT ![a] = 0] /\ ForgetCached(a) /\ UNCHANGED stored

\* delete_secret in error.  A keyring may have deleted a part, and the cache
\* forgets the sign-in whether it was written or not; a file is just still there.
DeleteFails(a) ==
    \/ /\ disk' \in {disk, [disk EXCEPT ![a] = 0]}
       /\ ForgetCached(a) /\ UNCHANGED stored
       /\ mislaid' = IF dirty[a] # 0 THEN mislaid \cup {a} ELSE mislaid
    \/ UNCHANGED <<disk, dirty, old, stored, mislaid>>

\* The provider renews a sign-in: the token presented stops working.
Exchange(p) ==
    LET a == target[p] IN
    /\ token[p] \notin retired[a]
    /\ issued[a] < MaxToken
    /\ issued' = [issued EXCEPT ![a] = @ + 1]
    /\ retired' = [retired EXCEPT ![a] = @ \cup {token[p]}]
    /\ token' = [token EXCEPT ![p] = issued[a] + 1]

-----------------------------------------------------------------------------
(* Loads outside the account's lock: an export, a background run *)

\* Such a load found the cache empty and read the store, and remember_secret saw
\* no newer sign-in waiting to be written.  It takes the cache's lock again to put
\* there what it read, however long ago, even if the account's sign-in was saved,
\* only cached, or deleted meanwhile.
RememberRead(a, t) ==
    /\ t \in stored[a]
    /\ dirty' = [dirty EXCEPT ![a] = 0]
    /\ old' = [old EXCEPT ![a] = IF disk[a] = t THEN 0 ELSE t]
    /\ mislaid' = IF dirty[a] = 0 /\ disk[a] = t THEN mislaid ELSE mislaid \cup {a}
    /\ UNCHANGED <<store, disk, stored, issued, retired, inFlight, free, locking, local, task>>

\* prune_secret_cache: SECRET_CACHE_TTL is over.
CacheExpires(a) ==
    /\ old[a] # 0
    /\ old' = [old EXCEPT ![a] = 0]
    /\ UNCHANGED <<store, disk, dirty, stored, issued, retired, mislaid, inFlight, free, locking,
                   local, task>>

-----------------------------------------------------------------------------
(* The per-account locks *)

Unreferenced(l) ==
    /\ \A p \in Procs : ref[p] # l
    /\ \A a \in Accounts : lockMap[a] # l

\* account_lock: the account's lock object, made if there is none.  Lock objects
\* are only compared, so which unused one is made does not matter.
AccountLock(p, a) ==
    \E l \in Locks :
        /\ l = IF lockMap[a] = NoLock THEN CHOOSE k \in Locks : Unreferenced(k) ELSE lockMap[a]
        /\ lockMap[a] = NoLock => Unreferenced(l)
        /\ lockMap' = [lockMap EXCEPT ![a] = l]
        /\ ref' = [ref EXCEPT ![p] = l]

\* lock_owned: the Arc waited on becomes the guard.
TakeLock(p) ==
    /\ pc[p] = "lock"
    /\ owner[ref[p]] = Nobody
    /\ owner' = [owner EXCEPT ![ref[p]] = p]

\* Dropping an owned guard unlocks and gives up its Arc.
DropGuard(p) ==
    /\ owner' = [owner EXCEPT ![ref[p]] = Nobody]
    /\ ref' = [ref EXCEPT ![p] = NoLock]

Holding(p) == ref[p] # NoLock /\ owner[ref[p]] = p

\* The call itself has the guard: its task gave it back or never had it.
CallerGuarded(c) == Holding(c) /\ task[c] = "none"

-----------------------------------------------------------------------------
(* A refresh call: from the request to the spawned task *)

Goto(p, where) == pc' = [pc EXCEPT ![p] = where]

Join(c, a) ==
    /\ pc[c] = "idle" /\ task[c] = "none"
    /\ inFlight[a] # Nobody
    /\ Goto(c, "joined")
    /\ target' = [target EXCEPT ![c] = a]
    /\ leader' = [leader EXCEPT ![c] = inFlight[a]]
    /\ UNCHANGED <<store, secrets, inFlight, free, locking, token, kind, task>>

Lead(c, a) ==
    /\ pc[c] = "idle" /\ task[c] = "none"
    /\ inFlight[a] = Nobody
    /\ inFlight' = [inFlight EXCEPT ![a] = c]
    /\ Goto(c, "permit")
    /\ target' = [target EXCEPT ![c] = a]
    /\ UNCHANGED <<store, secrets, free, locking, token, kind, leader, task>>

\* Nothing suspends between taking the permit and asking for the lock.
AcquirePermit(c) ==
    /\ pc[c] = "permit"
    /\ free > 0
    /\ free' = free - 1
    /\ AccountLock(c, target[c])
    /\ Goto(c, "lock")
    /\ UNCHANGED <<store, secrets, inFlight, owner, target, token, kind, leader, task>>

AcquireLock(c) ==
    /\ TakeLock(c)
    /\ Goto(c, "locked")
    /\ UNCHANGED <<store, secrets, inFlight, free, lockMap, ref, target, token, kind, leader, task>>

AccountMissing(c) ==
    /\ pc[c] = "locked"
    /\ target[c] \notin existing
    /\ Goto(c, "abandon")
    /\ UNCHANGED <<store, secrets, inFlight, free, locking, target, token, kind, leader, task>>

\* The sign-in cannot be read, or belongs to another provider: the call returns
\* at once, through the guards' Drop.
SignInUnusable(c) ==
    /\ pc[c] = "locked"
    /\ target[c] \in existing
    /\ Goto(c, "abandon")
    /\ UNCHANGED <<store, secrets, inFlight, free, locking, target, token, kind, leader, task>>

SpawnTask(c) ==
    /\ pc[c] = "locked"
    /\ target[c] \in existing
    /\ Visible(target[c]) # 0
    /\ token' = [token EXCEPT ![c] = Visible(target[c])]
    /\ task' = [task EXCEPT ![c] = "ready"]
    /\ Goto(c, "await")
    /\ UNCHANGED <<store, secrets, inFlight, free, locking, target, kind, leader>>

-----------------------------------------------------------------------------
(* The provider task, which owns the account's lock *)

\* The task's secret goes out of scope with it.
EndTask(c) == token' = [token EXCEPT ![c] = 0]

\* The sign-in is renewed, before the usage request or after an Auth answer.
TaskExchange(c) ==
    /\ task[c] \in {"ready", "fresh"}
    /\ Exchange(c)
    /\ task' = [task EXCEPT ![c] = "rotated"]
    /\ UNCHANGED <<store, disk, dirty, old, stored, mislaid, inFlight, free, locking, pc, target,
                   kind, leader>>

\* save_refreshed, right after the renewal; a failed write ends the task.
TaskSaveRefreshed(c) ==
    /\ task[c] = "rotated"
    /\ \/ /\ SaveStored(target[c], token[c])
          /\ task' = [task EXCEPT ![c] = "fresh"]
       \/ /\ SaveKeptInCache(target[c], token[c])
          /\ task' = [task EXCEPT ![c] = "done"]
    /\ Found(target[c], token[c])
    /\ UNCHANGED <<store, issued, retired, inFlight, free, locking, local>>

\* The provider gives the usage, or an error.
TaskAnswer(c) ==
    /\ task[c] \in {"ready", "fresh"}
    /\ \E next \in {"answered", "done"} : task' = [task EXCEPT ![c] = next]
    /\ UNCHANGED <<store, secrets, inFlight, free, locking, local>>

\* A removed account must not get its credential written back.
TaskSave(c) ==
    LET a == target[c] IN
    /\ task[c] = "answered"
    /\ \/ a \notin existing /\ UNCHANGED <<disk, dirty, old, stored>>
       \/ a \in existing /\ (SaveStored(a, token[c]) \/ SaveKeptInCache(a, token[c]))
    /\ Found(a, token[c])
    /\ task' = [task EXCEPT ![c] = "done"]
    /\ UNCHANGED <<store, issued, retired, inFlight, free, locking, local>>

\* A panic unwinds the task, dropping the guard it owns.
TaskPanic(c) ==
    /\ task[c] \in {"ready", "fresh"}
    /\ task' = [task EXCEPT ![c] = IF pc[c] = "await" THEN "panicked" ELSE "none"]
    /\ EndTask(c)
    /\ DropGuard(c)
    /\ UNCHANGED <<store, secrets, inFlight, free, lockMap, pc, target, kind, leader>>

\* Nobody waits any more: the result and the guard in it are dropped.
TaskDropped(c) ==
    /\ task[c] = "done"
    /\ pc[c] # "await"
    /\ task' = [task EXCEPT ![c] = "none"]
    /\ EndTask(c)
    /\ DropGuard(c)
    /\ UNCHANGED <<store, secrets, inFlight, free, lockMap, pc, target, kind, leader>>

-----------------------------------------------------------------------------
(* The call after the task.  What it writes to the account, under the guard or  *)
(* without it, is RefreshSchedule's.                                             *)

TaskReturned(c) ==
    /\ pc[c] = "await" /\ task[c] = "done"
    /\ task' = [task EXCEPT ![c] = "none"]
    /\ EndTask(c)
    /\ Goto(c, "finish")
    /\ UNCHANGED <<store, secrets, inFlight, free, locking, target, kind, leader>>

\* Mutant: the timeout cancels the task and with it what it was about to save.
StopWaiting_Cancels(c) ==
    /\ pc[c] = "await"
    /\ task[c] # "done"
    /\ task' = [task EXCEPT ![c] = "none"]
    /\ DropGuard(c)
    /\ Goto(c, "finish")
    /\ UNCHANGED <<store, secrets, inFlight, free, lockMap, target, token, kind, leader>>

\* The task panicked, or the wait timed out: no guard comes back.
StopWaiting(c) ==
    /\ pc[c] = "await"
    /\ task[c] # "done"
    /\ task' = [task EXCEPT ![c] = IF @ = "panicked" THEN "none" ELSE @]
    /\ Goto(c, "finish")
    /\ UNCHANGED <<store, secrets, inFlight, free, locking, target, token, kind, leader>>

\* Mutant: the entry goes but nothing is sent to those who joined.
WakeJoined_Silent(c, where) ==
    /\ inFlight' = [inFlight EXCEPT ![target[c]] = Nobody]
    /\ pc' = [pc EXCEPT ![c] = where]
    /\ UNCHANGED leader

\* The in-flight entry goes and everyone who joined gets the result.
WakeJoined(c, where) ==
    /\ inFlight' = [inFlight EXCEPT ![target[c]] = Nobody]
    /\ pc' = [p \in Procs |->
                IF p = c THEN where
                ELSE IF pc[p] = "joined" /\ leader[p] = c THEN "idle" ELSE pc[p]]
    /\ leader' = [p \in Calls |-> IF leader[p] = c THEN Nobody ELSE leader[p]]

\* InFlightRefreshGuard::finish
Finish(c) ==
    /\ pc[c] = "finish"
    /\ WakeJoined(c, "release")
    /\ UNCHANGED <<store, secrets, free, locking, target, token, kind, task>>

\* The guard, if the call has it, and the permit are dropped on return.
GiveBack(c) ==
    /\ free' = free + 1
    /\ IF CallerGuarded(c) THEN DropGuard(c) ELSE UNCHANGED <<owner, ref>>
    /\ UNCHANGED lockMap

Release(c) ==
    /\ pc[c] = "release"
    /\ GiveBack(c)
    /\ Goto(c, "idle")
    /\ UNCHANGED <<store, secrets, inFlight, target, token, kind, leader, task>>

\* An early return drops its locals in reverse order: the in-flight guard last.
Abandon(c) ==
    /\ pc[c] = "abandon"
    /\ GiveBack(c)
    /\ Goto(c, "drop")
    /\ UNCHANGED <<store, secrets, inFlight, target, token, kind, leader, task>>

\* InFlightRefreshGuard::drop
DropInFlight(c) ==
    /\ pc[c] = "drop"
    /\ WakeJoined(c, "idle")
    /\ UNCHANGED <<store, secrets, free, locking, target, token, kind, task>>

-----------------------------------------------------------------------------
(* Removing, connecting and editing an account, under its lock *)

\* A connection brings a sign-in of its own, the next token.
StartOp(o, a, k) ==
    /\ pc[o] = "idle"
    /\ k = "connect" => issued[a] < MaxToken
    /\ kind' = [kind EXCEPT ![o] = k]
    /\ target' = [target EXCEPT ![o] = a]
    /\ token' = [token EXCEPT ![o] = IF k = "connect" THEN issued[a] + 1 ELSE 0]
    /\ issued' = [issued EXCEPT ![a] = IF k = "connect" THEN @ + 1 ELSE @]
    /\ AccountLock(o, a)
    /\ Goto(o, "lock")
    /\ UNCHANGED <<store, disk, dirty, old, stored, retired, mislaid, inFlight, free, owner,
                   leader, task>>

OpLock(o) ==
    /\ TakeLock(o)
    /\ Goto(o, "held")
    /\ UNCHANGED <<store, secrets, inFlight, free, lockMap, ref, target, token, kind, leader, task>>

\* Mutant: the account is removed although its sign-in could not be deleted.
RemoveSecret_IgnoresError(o) ==
    /\ pc[o] = "held" /\ kind[o] = "remove"
    /\ \/ DeleteSecret(target[o]) /\ UNCHANGED mislaid
       \/ DeleteFails(target[o])
    /\ Goto(o, "deleted")
    /\ UNCHANGED <<store, issued, retired, inFlight, free, locking, target, token, kind, leader,
                   task>>

\* AccountStore::remove deletes the sign-in first and stops if it cannot.
RemoveSecret(o) ==
    /\ pc[o] = "held" /\ kind[o] = "remove"
    /\ \/ DeleteSecret(target[o]) /\ mislaid' = mislaid \ {target[o]} /\ Goto(o, "deleted")
       \/ DeleteFails(target[o]) /\ Goto(o, "release")
    /\ UNCHANGED <<store, issued, retired, inFlight, free, locking, target, token, kind, leader,
                   task>>

RemoveMetadata(o) ==
    /\ pc[o] = "deleted"
    /\ \/ existing' = existing \ {target[o]}
       \/ target[o] \in existing /\ UNCHANGED existing    \* the file cannot be written
    /\ Goto(o, "release")
    /\ UNCHANGED <<stranded, secrets, inFlight, free, locking, target, token, kind, leader, task>>

\* persist_account saves the new sign-in and remembers the previous one.  A
\* failed write is not rolled back: the new sign-in stays in the cache.
ConnectSave(o) ==
    LET a == target[o] IN
    /\ pc[o] = "held" /\ kind[o] = "connect"
    /\ token' = [token EXCEPT ![o] = Visible(a)]
    /\ \/ SaveStored(a, token[o]) /\ Goto(o, "saved") /\ UNCHANGED stranded
       \/ /\ SaveKeptInCache(a, token[o])
          /\ Goto(o, "release")
          /\ stranded' = IF a \in existing THEN stranded ELSE stranded \cup {a}
    /\ UNCHANGED <<existing, issued, retired, mislaid, inFlight, free, locking, target, kind,
                   leader, task>>

ConnectUpsert(o) ==
    LET a == target[o] IN
    /\ pc[o] = "saved"
    /\ existing' = existing \cup {a}
    /\ stranded' = stranded \ {a}
    /\ mislaid' = IF dirty[a] = 0 /\ old[a] = 0 THEN mislaid \ {a} ELSE mislaid
    /\ Goto(o, "release")
    /\ UNCHANGED <<disk, dirty, old, stored, issued, retired, inFlight, free, locking, target,
                   token, kind, leader, task>>

\* The account file could not be written: the previous sign-in is put back, or
\* the new one deleted.  Both are best effort.
ConnectRollback(o) ==
    LET a == target[o] IN
    /\ pc[o] = "saved"
    /\ \/ /\ token[o] # 0
          /\ SaveStored(a, token[o]) \/ SaveKeptInCache(a, token[o])
          /\ UNCHANGED <<stranded, mislaid>>
       \/ /\ token[o] = 0
          /\ DeleteSecret(a)
          /\ UNCHANGED <<stranded, mislaid>>
       \/ /\ token[o] = 0
          /\ stranded' = stranded \cup {a}
          /\ DeleteFails(a)
    /\ Goto(o, "release")
    /\ UNCHANGED <<existing, issued, retired, inFlight, free, locking, target, token, kind,
                   leader, task>>

\* modify_google_ai_studio_secret: load, change (perhaps renewing the Cloud
\* token), save.
EditLoad(o) ==
    LET a == target[o] IN
    /\ pc[o] = "held" /\ kind[o] = "edit"
    /\ token' = [token EXCEPT ![o] = Visible(a)]
    /\ \/ Visible(a) # 0 /\ Goto(o, "edited")
       \/ Goto(o, "release")       \* the sign-in cannot be read, or the change fails
    /\ UNCHANGED <<store, secrets, inFlight, free, locking, target, kind, leader, task>>

EditExchange(o) ==
    /\ pc[o] = "edited"
    /\ Exchange(o)
    /\ UNCHANGED <<store, disk, dirty, old, stored, mislaid, inFlight, free, locking, pc, target,
                   kind, leader, task>>

\* The callback's variant: the user's new grant replaces the Cloud token of an
\* account that is still there (update_account_identity).
EditGrant(o) ==
    LET a == target[o] IN
    /\ pc[o] = "edited"
    /\ a \in existing
    /\ issued[a] < MaxToken
    /\ issued' = [issued EXCEPT ![a] = @ + 1]
    /\ token' = [token EXCEPT ![o] = issued[a] + 1]
    /\ UNCHANGED <<existing, stranded, disk, dirty, old, stored, retired, mislaid, inFlight,
                   free, locking, pc, target, kind, leader, task>>

EditSave(o) ==
    /\ pc[o] = "edited"
    /\ SaveStored(target[o], token[o]) \/ SaveKeptInCache(target[o], token[o])
    /\ Found(target[o], token[o])
    /\ Goto(o, "release")
    /\ UNCHANGED <<store, issued, retired, inFlight, free, locking, target, token, kind, leader,
                   task>>

OpRelease(o) ==
    /\ pc[o] = "release"
    /\ DropGuard(o)
    /\ token' = [token EXCEPT ![o] = 0]
    /\ kind' = [kind EXCEPT ![o] = "remove"]
    /\ Goto(o, IF kind[o] = "remove" THEN "forget" ELSE "idle")
    /\ UNCHANGED <<store, secrets, inFlight, free, lockMap, target, leader, task>>

\* Mutant: the entry is dropped while somebody holds or awaits the lock.
ForgetLock_InUse(o) ==
    /\ pc[o] = "forget"
    /\ lockMap' = [lockMap EXCEPT ![target[o]] = NoLock]
    /\ Goto(o, "idle")
    /\ UNCHANGED <<store, secrets, inFlight, free, ref, owner, target, token, kind, leader, task>>

\* forget_account_lock: only if the map has the last Arc.
ForgetLock(o) ==
    LET a == target[o] IN
    /\ pc[o] = "forget"
    /\ lockMap' = [lockMap EXCEPT ![a] =
                     IF \E p \in Procs : ref[p] = @ THEN @ ELSE NoLock]
    /\ Goto(o, "idle")
    /\ UNCHANGED <<store, secrets, inFlight, free, ref, owner, target, token, kind, leader, task>>

-----------------------------------------------------------------------------
(* Specification *)

Init ==
    /\ existing \in SUBSET Accounts
    /\ stranded = {}
    /\ issued = [a \in Accounts |-> IF a \in existing THEN 1 ELSE 0]
    /\ disk = issued
    /\ dirty = [a \in Accounts |-> 0]
    /\ old = [a \in Accounts |-> 0]
    /\ mislaid = {}
    /\ stored = [a \in Accounts |-> {disk[a]} \ {0}]
    /\ retired = [a \in Accounts |-> {}]
    /\ inFlight = [a \in Accounts |-> Nobody]
    /\ free = Permits
    /\ lockMap = [a \in Accounts |-> NoLock]
    /\ ref = [p \in Procs |-> NoLock]
    /\ owner = [l \in Locks |-> Nobody]
    /\ pc = [p \in Procs |-> "idle"]
    /\ target = [p \in Procs |-> CHOOSE a \in Accounts : TRUE]
    /\ token = [p \in Procs |-> 0]
    /\ kind = [o \in Ops |-> "remove"]
    /\ leader = [c \in Calls |-> Nobody]
    /\ task = [c \in Calls |-> "none"]

Request(c) == \E a \in Accounts : Join(c, a) \/ Lead(c, a)

Enter(c) == AccountMissing(c) \/ SignInUnusable(c) \/ SpawnTask(c)

Work(c) == \/ TaskExchange(c) \/ TaskSaveRefreshed(c) \/ TaskAnswer(c)
           \/ TaskSave(c) \/ TaskPanic(c) \/ TaskDropped(c)

Leave(c) == \/ TaskReturned(c) \/ StopWaiting(c) \/ Finish(c) \/ Release(c)
            \/ Abandon(c) \/ DropInFlight(c)

Operate(o) == \/ RemoveSecret(o) \/ RemoveMetadata(o)
              \/ ConnectSave(o) \/ ConnectUpsert(o) \/ ConnectRollback(o)
              \/ EditLoad(o) \/ EditExchange(o) \/ EditGrant(o) \/ EditSave(o)
              \/ OpRelease(o) \/ ForgetLock(o)

Next ==
    \/ \E c \in Calls : \/ Request(c) \/ AcquirePermit(c) \/ AcquireLock(c)
                        \/ Enter(c) \/ Work(c) \/ Leave(c)
    \/ \E o \in Ops : \/ \E a \in Accounts, k \in Kinds : StartOp(o, a, k)
                      \/ OpLock(o) \/ Operate(o)
    \/ \E a \in Accounts : CacheExpires(a) \/ \E t \in Tokens : RememberRead(a, t)

Spec == Init /\ [][Next]_vars

\* Code that can run does run; a provider task ends because every request it
\* makes has a timeout; tokio's semaphore and mutex serve waiters in order.
Fairness ==
    /\ \A c \in Calls : /\ WF_vars(Enter(c)) /\ WF_vars(Work(c)) /\ WF_vars(Leave(c))
                        /\ SF_vars(AcquirePermit(c)) /\ SF_vars(AcquireLock(c))
    /\ \A o \in Ops : WF_vars(Operate(o)) /\ SF_vars(OpLock(o))

FairSpec == Spec /\ Fairness

-----------------------------------------------------------------------------
(* Properties *)

\* Every variable has its type; the tokens are within their bound.
TypeOK ==
    /\ existing \subseteq Accounts /\ stranded \subseteq Accounts
    /\ disk \in [Accounts -> Tokens] /\ dirty \in [Accounts -> Tokens]
    /\ old \in [Accounts -> Tokens] /\ mislaid \subseteq Accounts
    /\ stored \in [Accounts -> SUBSET Tokens]
    /\ issued \in [Accounts -> Tokens] /\ retired \in [Accounts -> SUBSET Tokens]
    /\ inFlight \in [Accounts -> Calls \cup {Nobody}]
    /\ free \in Nat
    /\ lockMap \in [Accounts -> Locks \cup {NoLock}]
    /\ ref \in [Procs -> Locks \cup {NoLock}]
    /\ owner \in [Locks -> Procs \cup {Nobody}]
    /\ pc \in [Procs -> CallPc \cup OpPc]
    /\ target \in [Procs -> Accounts]
    /\ token \in [Procs -> Tokens]
    /\ kind \in [Ops -> Kinds]
    /\ leader \in [Calls -> Calls \cup {Nobody}]
    /\ task \in [Calls -> Tasks]

\* Why OneHolder holds: an Arc is always of the lock object in the map, whoever
\* has one either waits or is inside, and the map only forgets an object that
\* nobody has an Arc of.
Alive(c) == task[c] \in {"ready", "rotated", "fresh", "answered", "done"}

CallLockShape(c) ==
    /\ pc[c] \in CallPc
    /\ task[c] # "none" =>
         pc[c] \in {"await", "finish", "release", "idle"}
    /\ pc[c] \in {"idle", "joined", "permit", "drop"} /\ task[c] = "none" => ref[c] = NoLock
    /\ pc[c] \in {"lock", "locked"} \/ Alive(c) => ref[c] # NoLock
    /\ ref[c] # NoLock /\ pc[c] # "lock" => owner[ref[c]] = c

OpLockShape(o) ==
    /\ pc[o] \in OpPc
    /\ pc[o] \in {"idle", "forget"} <=> ref[o] = NoLock
    /\ ref[o] # NoLock /\ pc[o] # "lock" => owner[ref[o]] = o

RefsAreMapped == \A p \in Procs : ref[p] # NoLock => ref[p] = lockMap[target[p]]

LockInv ==
    /\ \A c \in Calls : CallLockShape(c)
    /\ \A o \in Ops : OpLockShape(o)
    /\ RefsAreMapped

\* At most one call, task or operation is inside an account's critical section,
\* although removals drop the lock object and later users make another.
OneHolder ==
    \A p, q \in Procs : Holding(p) /\ Holding(q) /\ target[p] = target[q] => p = q

\* Permits are neither leaked nor given back twice: the free ones and the calls
\* between acquiring and returning one always make up the configured number.
PermitHolders ==
    {c \in Calls : pc[c] \notin {"idle", "joined", "permit", "drop"}}

PermitsConserved == free + Cardinality(PermitHolders) = Permits

\* The provider is never shown a refresh token the application exchanged for a
\* newer one: not after a timeout, a failed save, a removal or a reconnection.
\* Two things in the code may bring an old one back, until a newer sign-in is
\* saved: a removal that failed and forgot the sign-in still to be written, and a
\* load outside the lock that put into the cache what the store had before.
NoRetiredTokenPresented ==
    /\ \A c \in Calls : task[c] \in {"ready", "fresh"} /\ target[c] \notin mislaid =>
          token[c] \notin retired[target[c]]
    /\ \A o \in Ops : pc[o] = "edited" /\ target[o] \notin mislaid =>
          token[o] \notin retired[target[o]]

\* While nobody works on an account its saved sign-in is the newest of its
\* chain, and stays it when the cache expires: a rotated token is dropped only by
\* the two ways above.
SavedTokenUsable ==
    \A a \in Accounts \ mislaid :
        (\A p \in Procs : ~ (Holding(p) /\ target[p] = a)) =>
            /\ Visible(a) \notin retired[a]
            /\ dirty[a] = 0 => disk[a] \notin retired[a]

\* Why the secrets are safe.  The sign-in of a connection still waiting for the
\* lock is nobody else's; whoever may renew a sign-in carries one that works; and
\* the saved one works unless its renewal is still to be saved.
Pending(o) == kind[o] = "connect" /\ pc[o] \in {"lock", "held"}

TokensAreIssued ==
    /\ \A a \in Accounts : /\ retired[a] \subseteq 1 .. issued[a]
                           /\ stored[a] \subseteq 1 .. issued[a]
                           /\ disk[a] <= issued[a] /\ dirty[a] <= issued[a]
                           /\ old[a] <= issued[a]
    /\ \A p \in Procs : token[p] <= issued[target[p]]

\* The cache has one entry of an account, and an old one only after a load that
\* was overtaken.
CacheIsCurrent ==
    \A a \in Accounts : /\ dirty[a] = 0 \/ old[a] = 0
                        /\ a \in mislaid \/ old[a] = 0

TasksCarry ==
    \A c \in Calls :
        IF Alive(c)
        THEN /\ token[c] # 0 /\ target[c] \in existing
             /\ token[c] \in retired[target[c]] => target[c] \in mislaid
        ELSE token[c] = 0

PendingIsNew ==
    \A o \in Ops : Pending(o) =>
        LET a == target[o] IN
        /\ token[o] \notin {0, disk[a], dirty[a], old[a]} \cup stored[a] \cup retired[a]
        /\ \A p \in Procs \ {o} : target[p] = a => token[p] # token[o]

OpsCarry ==
    \A o \in Ops :
        LET a == target[o] IN
        /\ pc[o] \in {"saved", "edited"} /\ token[o] \in retired[a] => a \in mislaid
        /\ pc[o] = "edited" => token[o] # 0
        /\ pc[o] \in {"saved", "edited"} /\ token[o] # 0 =>
             a \in existing \cup stranded \cup mislaid
        /\ pc[o] = "saved" => disk[a] \notin retired[a]
        /\ pc[o] = "deleted" => a \in mislaid \/ (disk[a] = 0 /\ dirty[a] = 0)

RenewalUnsaved(a) ==
    \/ \E c \in Calls : target[c] = a /\ task[c] = "rotated"
    \/ \E o \in Ops : target[o] = a /\ pc[o] = "edited"

UpsertDue(a) == \E o \in Ops : target[o] = a /\ pc[o] = "saved"

SavedIsSound ==
    \A a \in Accounts \ mislaid :
        /\ \/ RenewalUnsaved(a)
           \/ Visible(a) \notin retired[a]
        /\ \/ a \in existing \cup stranded \/ UpsertDue(a)
           \/ disk[a] = 0 /\ dirty[a] = 0

SecretInv ==
    /\ TokensAreIssued /\ CacheIsCurrent
    /\ TasksCarry /\ PendingIsNew /\ OpsCarry /\ SavedIsSound

\* A removed account leaves no sign-in in the credential store and none in its
\* cache that is still to be written, whatever was in flight when it was removed.
\* Apart are stranded accounts, whose connection failed without a rollback, and
\* those for which a load outside the lock cached the sign-in after its deletion.
NoOrphanSecret ==
    \A a \in Accounts :
        /\ a \notin existing
        /\ a \notin stranded \cup mislaid
        /\ \A p \in Procs : ~ (Holding(p) /\ target[p] = a)
        => disk[a] = 0 /\ dirty[a] = 0

\* Every refresh call returns, those that joined another included, even when
\* tasks hang past the timeout and keep their account locked meanwhile.
EveryCallReturns ==
    \A c \in Calls : pc[c] # "idle" ~> pc[c] = "idle"

=============================================================================
