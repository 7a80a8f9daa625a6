------------------------ MODULE AccountRefreshProofs ------------------------
(* Proofs about AccountRefresh, for any number of accounts, calls,         *)
(* operations, lock objects and permits.                                   *)
EXTENDS AccountRefresh, FiniteSetTheorems, TLAPS

SavedType ==
  /\ disk \in [Accounts -> Tokens] /\ dirty \in [Accounts -> Tokens]
  /\ old \in [Accounts -> Tokens] /\ stored \in [Accounts -> SUBSET Tokens]

(* Saving a sign-in, with or without success, keeps the store's types. *)
LEMMA SaveType ==
  ASSUME TypeOK, NEW x \in Accounts, NEW t \in Tokens,
         SaveStored(x, t) \/ SaveKeptInCache(x, t)
  PROVE  SavedType'
<1>1. 0 \in Tokens
  BY BoundsAssumption DEF Tokens
<1>2. CASE SaveStored(x, t)
  BY <1>1, <1>2 DEF TypeOK, SavedType, SaveStored
<1>3. CASE SaveKeptInCache(x, t)
  BY <1>1, <1>3 DEF TypeOK, SavedType, SaveKeptInCache
<1> QED BY <1>2, <1>3

(* So does deleting it, or failing to. *)
LEMMA DeleteType ==
  ASSUME TypeOK, NEW x \in Accounts, DeleteSecret(x) \/ DeleteFails(x)
  PROVE  SavedType'
<1>1. 0 \in Tokens
  BY BoundsAssumption DEF Tokens
<1>2. CASE DeleteSecret(x)
  BY <1>1, <1>2 DEF TypeOK, SavedType, DeleteSecret, ForgetCached
<1>3. CASE DeleteFails(x)
  BY <1>1, <1>3 DEF TypeOK, SavedType, DeleteFails, ForgetCached
<1> QED BY <1>2, <1>3

(* Dropping a guard keeps the lock variables' types, even without an Arc. *)
LEMMA DropGuardType ==
  ASSUME TypeOK, NEW p \in Procs, DropGuard(p)
  PROVE  /\ owner' \in [Locks -> Procs \cup {Nobody}]
         /\ ref' \in [Procs -> Locks \cup {NoLock}]
<1>1. ref' \in [Procs -> Locks \cup {NoLock}]
  BY DEF TypeOK, DropGuard
<1>2. owner' \in [Locks -> Procs \cup {Nobody}]
  <2>1. CASE ref[p] \in Locks
    BY <2>1 DEF TypeOK, DropGuard
  <2>2. CASE ref[p] \notin Locks
    <3>1. owner' = owner
      BY <2>2 DEF TypeOK, DropGuard
    <3> QED BY <3>1 DEF TypeOK
  <2> QED BY <2>1, <2>2
<1> QED BY <1>1, <1>2

(* Every variable keeps its type, refresh tokens within the bound included. *)
THEOREM TypeCorrect == Spec => []TypeOK
<1>1. Init => TypeOK
  BY ProcsAssumption, BoundsAssumption
     DEF Init, TypeOK, Procs, Tokens, CallPc, OpPc, Tasks, Kinds
<1>2. TypeOK /\ [Next]_vars => TypeOK'
  <2> SUFFICES ASSUME TypeOK, [Next]_vars
               PROVE  TypeOK'
    OBVIOUS
  <2> USE ProcsAssumption, BoundsAssumption
      DEF TypeOK, Procs, Tokens, CallPc, OpPc, Tasks, Kinds,
          store, secrets, locking, local, Goto
  <2>1. ASSUME NEW c \in Calls, NEW a \in Accounts, Join(c, a)
        PROVE  TypeOK'
    BY <2>1 DEF Join
  <2>2. ASSUME NEW c \in Calls, NEW a \in Accounts, Lead(c, a)
        PROVE  TypeOK'
    BY <2>2 DEF Lead
  <2>3. ASSUME NEW c \in Calls, AcquirePermit(c)
        PROVE  TypeOK'
    BY <2>3 DEF AcquirePermit, AccountLock
  <2>4. ASSUME NEW c \in Calls, AcquireLock(c)
        PROVE  TypeOK'
    BY <2>4 DEF AcquireLock, TakeLock
  <2>5. ASSUME NEW c \in Calls, AccountMissing(c)
        PROVE  TypeOK'
    BY <2>5 DEF AccountMissing
  <2>6. ASSUME NEW c \in Calls, SignInUnusable(c)
        PROVE  TypeOK'
    BY <2>6 DEF SignInUnusable
  <2>7. ASSUME NEW c \in Calls, SpawnTask(c)
        PROVE  TypeOK'
    BY <2>7 DEF SpawnTask, Visible
  <2>8. ASSUME NEW c \in Calls, TaskExchange(c)
        PROVE  TypeOK'
    <3>1. c \in Procs /\ target[c] \in Accounts /\ token[c] \in Tokens
      OBVIOUS
    <3>2. issued[target[c]] + 1 \in Tokens
      BY <2>8, <3>1 DEF TaskExchange, Exchange
    <3>3. /\ issued' \in [Accounts -> Tokens] /\ token' \in [Procs -> Tokens]
          /\ retired' \in [Accounts -> SUBSET Tokens]
      <4> HIDE DEF Tokens, Procs
      <4> QED BY <2>8, <3>1, <3>2 DEF TaskExchange, Exchange
    <3>4. task' \in [Calls -> Tasks]
      BY <2>8 DEF TaskExchange
    <3>5. UNCHANGED <<store, disk, dirty, old, stored, mislaid, inFlight,
                    free, locking, pc, target, kind, leader>>
      BY <2>8 DEF TaskExchange
    <3> HIDE DEF Tokens, Procs, CallPc, OpPc, Tasks, Kinds
    <3> QED BY <3>3, <3>4, <3>5
  <2>9. ASSUME NEW c \in Calls, TaskSaveRefreshed(c)
        PROVE  TypeOK'
    <3>1. target[c] \in Accounts /\ token[c] \in Tokens
      OBVIOUS
    <3>2. SavedType'
      <4> HIDE DEF TypeOK
      <4> QED BY <2>9, <3>1, SaveType DEF TaskSaveRefreshed
    <3>3. task' \in [Calls -> Tasks] /\ mislaid' \subseteq Accounts
      BY <2>9 DEF TaskSaveRefreshed, Found
    <3>4. UNCHANGED <<store, issued, retired, inFlight, free, locking, local>>
      BY <2>9 DEF TaskSaveRefreshed
    <3> HIDE DEF Tokens, Procs, CallPc, OpPc, Tasks, Kinds
    <3> QED BY <3>2, <3>3, <3>4 DEF SavedType
  <2>10. ASSUME NEW c \in Calls, TaskAnswer(c)
        PROVE  TypeOK'
    BY <2>10 DEF TaskAnswer
  <2>11. ASSUME NEW c \in Calls, TaskSave(c)
        PROVE  TypeOK'
    <3>1. target[c] \in Accounts /\ token[c] \in Tokens
      OBVIOUS
    <3>2. SavedType'
      <4>1. CASE UNCHANGED <<disk, dirty, old, stored>>
        BY <4>1 DEF SavedType
      <4>2. CASE \/ SaveStored(target[c], token[c])
                 \/ SaveKeptInCache(target[c], token[c])
        BY <4>2, <3>1, SaveType
      <4> HIDE DEF TypeOK
      <4> QED BY <2>11, <4>1, <4>2 DEF TaskSave
    <3>3. task' \in [Calls -> Tasks] /\ mislaid' \subseteq Accounts
      BY <2>11 DEF TaskSave, Found
    <3>4. UNCHANGED <<store, issued, retired, inFlight, free, locking, local>>
      BY <2>11 DEF TaskSave
    <3> HIDE DEF Tokens, Procs, CallPc, OpPc, Tasks, Kinds
    <3> QED BY <3>2, <3>3, <3>4 DEF SavedType
  <2>12. ASSUME NEW c \in Calls, TaskPanic(c)
        PROVE  TypeOK'
    BY <2>12, DropGuardType, c \in Procs DEF TaskPanic, EndTask
  <2>13. ASSUME NEW c \in Calls, TaskDropped(c)
        PROVE  TypeOK'
    BY <2>13, DropGuardType, c \in Procs DEF TaskDropped, EndTask
  <2>14. ASSUME NEW c \in Calls, TaskReturned(c)
        PROVE  TypeOK'
    BY <2>14 DEF TaskReturned, EndTask
  <2>15. ASSUME NEW c \in Calls, StopWaiting(c)
        PROVE  TypeOK'
    BY <2>15 DEF StopWaiting
  <2>16. ASSUME NEW c \in Calls, Finish(c)
        PROVE  TypeOK'
    BY <2>16 DEF Finish, WakeJoined
  <2>17. ASSUME NEW c \in Calls, Release(c)
        PROVE  TypeOK'
    BY <2>17, DropGuardType, c \in Procs DEF Release, GiveBack, CallerGuarded, Holding
  <2>18. ASSUME NEW c \in Calls, Abandon(c)
        PROVE  TypeOK'
    BY <2>18, DropGuardType, c \in Procs DEF Abandon, GiveBack, CallerGuarded, Holding
  <2>19. ASSUME NEW c \in Calls, DropInFlight(c)
        PROVE  TypeOK'
    BY <2>19 DEF DropInFlight, WakeJoined
  <2>20. ASSUME NEW o \in Ops, NEW a \in Accounts, NEW k \in Kinds, StartOp(o, a, k)
        PROVE  TypeOK'
    BY <2>20 DEF StartOp, AccountLock
  <2>21. ASSUME NEW o \in Ops, OpLock(o)
        PROVE  TypeOK'
    BY <2>21 DEF OpLock, TakeLock
  <2>22. ASSUME NEW o \in Ops, RemoveSecret(o)
        PROVE  TypeOK'
    <3>1. SavedType'
      <4>1. target[o] \in Accounts
        OBVIOUS
      <4> HIDE DEF TypeOK
      <4> QED BY <2>22, <4>1, DeleteType DEF RemoveSecret
    <3>2. pc' \in [Procs -> CallPc \cup OpPc]
      BY <2>22 DEF RemoveSecret
    <3>3. mislaid' \subseteq Accounts
      BY <2>22 DEF RemoveSecret, DeleteFails
    <3> HIDE DEF Tokens, Procs, CallPc, OpPc, Tasks, Kinds
    <3> QED BY <2>22, <3>1, <3>2, <3>3 DEF RemoveSecret, SavedType
  <2>23. ASSUME NEW o \in Ops, RemoveMetadata(o)
        PROVE  TypeOK'
    <3>1. existing' \subseteq Accounts
      BY <2>23 DEF RemoveMetadata
    <3>2. pc' \in [Procs -> CallPc \cup OpPc]
      BY <2>23 DEF RemoveMetadata
    <3> HIDE DEF Tokens, Procs, CallPc, OpPc, Tasks, Kinds
    <3> QED BY <2>23, <3>1, <3>2 DEF RemoveMetadata
  <2>24. ASSUME NEW o \in Ops, ConnectSave(o)
        PROVE  TypeOK'
    <3>1. target[o] \in Accounts /\ token[o] \in Tokens
      OBVIOUS
    <3>2. SavedType'
      <4> HIDE DEF TypeOK
      <4> QED BY <2>24, <3>1, SaveType DEF ConnectSave
    <3>3. pc' \in [Procs -> CallPc \cup OpPc] /\ stranded' \subseteq Accounts
      BY SMTT(60), <2>24 DEF ConnectSave
    <3>4. Visible(target[o]) \in Tokens
      BY DEF Visible
    <3>5. token' \in [Procs -> Tokens]
      BY <2>24, <3>4 DEF ConnectSave
    <3> HIDE DEF Tokens, Procs, CallPc, OpPc, Tasks, Kinds
    <3> QED BY <2>24, <3>2, <3>3, <3>5 DEF ConnectSave, SavedType
  <2>25. ASSUME NEW o \in Ops, ConnectUpsert(o)
        PROVE  TypeOK'
    BY <2>25 DEF ConnectUpsert
  <2>26. ASSUME NEW o \in Ops, ConnectRollback(o)
        PROVE  TypeOK'
    <3>1. target[o] \in Accounts /\ token[o] \in Tokens
      OBVIOUS
    <3>2. SavedType'
      <4> HIDE DEF TypeOK
      <4> QED BY <2>26, <3>1, SaveType, DeleteType DEF ConnectRollback
    <3>3. pc' \in [Procs -> CallPc \cup OpPc] /\ stranded' \subseteq Accounts
      BY <2>26 DEF ConnectRollback
    <3>4. mislaid' \subseteq Accounts
      BY <2>26 DEF ConnectRollback, DeleteFails
    <3> HIDE DEF Tokens, Procs, CallPc, OpPc, Tasks, Kinds
    <3> QED BY <2>26, <3>2, <3>3, <3>4 DEF ConnectRollback, SavedType
  <2>27. ASSUME NEW o \in Ops, EditLoad(o)
        PROVE  TypeOK'
    <3>1. Visible(target[o]) \in Tokens
      BY DEF Visible
    <3>2. token' \in [Procs -> Tokens]
      BY <2>27, <3>1 DEF EditLoad
    <3>3. pc' \in [Procs -> CallPc \cup OpPc]
      BY <2>27 DEF EditLoad
    <3> HIDE DEF Tokens, Procs, CallPc, OpPc
    <3> QED BY <2>27, <3>2, <3>3 DEF EditLoad
  <2>28. ASSUME NEW o \in Ops, EditExchange(o)
        PROVE  TypeOK'
    BY <2>28 DEF EditExchange, Exchange
  <2>29. ASSUME NEW o \in Ops, EditGrant(o)
        PROVE  TypeOK'
    BY <2>29 DEF EditGrant
  <2>30. ASSUME NEW o \in Ops, EditSave(o)
        PROVE  TypeOK'
    <3>1. target[o] \in Accounts /\ token[o] \in Tokens
      OBVIOUS
    <3>2. SavedType'
      <4> HIDE DEF TypeOK
      <4> QED BY <2>30, <3>1, SaveType DEF EditSave
    <3>3. pc' \in [Procs -> CallPc \cup OpPc] /\ mislaid' \subseteq Accounts
      BY <2>30 DEF EditSave, Found
    <3> HIDE DEF Tokens, Procs, CallPc, OpPc, Tasks, Kinds
    <3> QED BY <2>30, <3>2, <3>3 DEF EditSave, SavedType
  <2>31. ASSUME NEW o \in Ops, OpRelease(o)
        PROVE  TypeOK'
    BY <2>31, DropGuardType, o \in Procs DEF OpRelease
  <2>32. ASSUME NEW o \in Ops, ForgetLock(o)
        PROVE  TypeOK'
    BY <2>32 DEF ForgetLock
  <2>33. ASSUME NEW a \in Accounts, NEW t \in Tokens, RememberRead(a, t)
        PROVE  TypeOK'
    BY <2>33 DEF RememberRead
  <2>34. ASSUME NEW a \in Accounts, CacheExpires(a)
        PROVE  TypeOK'
    BY <2>34 DEF CacheExpires
  <2>35. CASE UNCHANGED vars
    BY <2>35 DEF vars
  <2> HIDE DEF TypeOK
  <2>36. QED
    BY <2>1, <2>2, <2>3, <2>4, <2>5, <2>6, <2>7, <2>8, <2>9, <2>10, <2>11, <2>12,
       <2>13, <2>14, <2>15, <2>16, <2>17, <2>18, <2>19, <2>20, <2>21, <2>22, <2>23,
       <2>24, <2>25, <2>26, <2>27, <2>28, <2>29, <2>30, <2>31, <2>32, <2>33, <2>34, <2>35
       DEF Next, Request, Enter, Work, Leave, Operate
<1>3. QED
  BY <1>1, <1>2, PTL DEF Spec

(* Dropping a guard one holds takes nothing from anybody else. *)
LEMMA DropGuardLocal ==
  ASSUME TypeOK, NEW p \in Procs, DropGuard(p),
         ref[p] # NoLock => owner[ref[p]] = p
  PROVE  /\ ref'[p] = NoLock
         /\ \A q \in Procs : q # p => ref'[q] = ref[q]
         /\ \A q \in Procs : q # p /\ ref[q] # NoLock /\ owner[ref[q]] = q
              => owner'[ref[q]] = q
<1>1. ref'[p] = NoLock /\ \A q \in Procs : q # p => ref'[q] = ref[q]
  BY DEF TypeOK, DropGuard
<1>2. ASSUME NEW q \in Procs, q # p, ref[q] # NoLock, owner[ref[q]] = q
      PROVE  owner'[ref[q]] = q
  <2>1. ref[q] \in Locks /\ ref[q] # ref[p]
    BY <1>2 DEF TypeOK
  <2> QED BY <1>2, <2>1 DEF TypeOK, DropGuard
<1> QED BY <1>1, <1>2

(* A task that ends, or unwinds, gives up its account's lock and no other. *)
LEMMA TaskEndKeepsLocks ==
  ASSUME TypeOK, LockInv, NEW c \in Calls, DropGuard(c),
         NEW after \in {"none", "panicked"}, after = "panicked" => pc[c] = "await",
         task[c] # "none", task' = [task EXCEPT ![c] = after],
         UNCHANGED <<lockMap, target, pc>>
  PROVE  LockInv'
<1> USE DEF LockInv, CallLockShape, OpLockShape, RefsAreMapped, Procs, CallPc, Alive
<1>1. c \in Procs /\ pc[c] # "lock" /\ (ref[c] # NoLock => owner[ref[c]] = c)
  OBVIOUS
<1>2. /\ ref'[c] = NoLock
      /\ \A q \in Procs : q # c => ref'[q] = ref[q]
      /\ \A q \in Procs : q # c /\ ref[q] # NoLock /\ owner[ref[q]] = q
           => owner'[ref[q]] = q
  BY <1>1, DropGuardLocal
<1>3. task'[c] = after /\ \A d \in Calls : d # c => task'[d] = task[d]
  BY DEF TypeOK
<1>4. ASSUME NEW d \in Calls
      PROVE  CallLockShape(d)'
  <2>1. CASE d = c
    BY <1>2, <1>3, <2>1
  <2>2. CASE d # c
    BY <1>2, <1>3, <2>2
  <2> QED BY <2>1, <2>2
<1>5. ASSUME NEW o \in Ops
      PROVE  OpLockShape(o)'
  BY <1>2, ProcsAssumption
<1>6. RefsAreMapped'
  BY <1>2
<1> QED BY <1>4, <1>5, <1>6

(* Every Arc is of the lock object the map has, and whoever is past waiting
   for it is inside. *)
THEOREM LocksAgree == Spec => []LockInv
<1>1. Init => LockInv
  BY ProcsAssumption
     DEF Init, LockInv, CallLockShape, OpLockShape, RefsAreMapped, Procs, CallPc, OpPc, Alive
<1>2. TypeOK /\ LockInv /\ [Next]_vars => LockInv'
  <2> SUFFICES ASSUME TypeOK, LockInv, [Next]_vars
               PROVE  LockInv'
    OBVIOUS
  <2> USE ProcsAssumption
      DEF TypeOK, LockInv, CallLockShape, OpLockShape, RefsAreMapped, Procs,
          CallPc, OpPc, Tasks, store, secrets, locking, local, Goto, Alive
  <2>1. ASSUME NEW c \in Calls, NEW a \in Accounts, Join(c, a)
        PROVE  LockInv'
    BY <2>1 DEF Join
  <2>2. ASSUME NEW c \in Calls, NEW a \in Accounts, Lead(c, a)
        PROVE  LockInv'
    BY <2>2 DEF Lead
  <2>3. ASSUME NEW c \in Calls, AcquirePermit(c)
        PROVE  LockInv'
    BY <2>3 DEF AcquirePermit, AccountLock
  <2>4. ASSUME NEW c \in Calls, AcquireLock(c)
        PROVE  LockInv'
    BY <2>4 DEF AcquireLock, TakeLock
  <2>5. ASSUME NEW c \in Calls, AccountMissing(c)
        PROVE  LockInv'
    BY <2>5 DEF AccountMissing
  <2>6. ASSUME NEW c \in Calls, SignInUnusable(c)
        PROVE  LockInv'
    BY <2>6 DEF SignInUnusable
  <2>7. ASSUME NEW c \in Calls, SpawnTask(c)
        PROVE  LockInv'
    BY <2>7 DEF SpawnTask, Visible
  <2>8. ASSUME NEW c \in Calls, TaskExchange(c)
        PROVE  LockInv'
    BY <2>8 DEF TaskExchange, Exchange
  <2>9. ASSUME NEW c \in Calls, TaskSaveRefreshed(c)
        PROVE  LockInv'
    BY <2>9 DEF TaskSaveRefreshed, SaveStored, SaveKeptInCache
  <2>10. ASSUME NEW c \in Calls, TaskAnswer(c)
        PROVE  LockInv'
    BY <2>10 DEF TaskAnswer
  <2>11. ASSUME NEW c \in Calls, TaskSave(c)
        PROVE  LockInv'
    BY <2>11 DEF TaskSave, SaveStored, SaveKeptInCache
  <2>12. ASSUME NEW c \in Calls, TaskPanic(c)
        PROVE  LockInv'
    BY <2>12, TaskEndKeepsLocks DEF TaskPanic
  <2>13. ASSUME NEW c \in Calls, TaskDropped(c)
        PROVE  LockInv'
    BY <2>13, TaskEndKeepsLocks DEF TaskDropped
  <2>14. ASSUME NEW c \in Calls, TaskReturned(c)
        PROVE  LockInv'
    BY <2>14 DEF TaskReturned, EndTask
  <2>15. ASSUME NEW c \in Calls, StopWaiting(c)
        PROVE  LockInv'
    BY <2>15 DEF StopWaiting
  <2>16. ASSUME NEW c \in Calls, Finish(c)
        PROVE  LockInv'
    BY <2>16 DEF Finish, WakeJoined
  <2>17. ASSUME NEW c \in Calls, Release(c)
        PROVE  LockInv'
    <3>1. CASE CallerGuarded(c)
      BY <2>17, <3>1, DropGuardLocal, c \in Procs DEF Release, GiveBack, CallerGuarded, Holding
    <3>2. CASE ~ CallerGuarded(c)
      BY <2>17, <3>2 DEF Release, GiveBack, CallerGuarded, Holding
    <3> QED BY <3>1, <3>2
  <2>18. ASSUME NEW c \in Calls, Abandon(c)
        PROVE  LockInv'
    <3>1. CASE CallerGuarded(c)
      BY <2>18, <3>1, DropGuardLocal, c \in Procs DEF Abandon, GiveBack, CallerGuarded, Holding
    <3>2. CASE ~ CallerGuarded(c)
      BY <2>18, <3>2 DEF Abandon, GiveBack, CallerGuarded, Holding
    <3> QED BY <3>1, <3>2
  <2>19. ASSUME NEW c \in Calls, DropInFlight(c)
        PROVE  LockInv'
    BY <2>19 DEF DropInFlight, WakeJoined
  <2>20. ASSUME NEW o \in Ops, NEW a \in Accounts, NEW k \in Kinds, StartOp(o, a, k)
        PROVE  LockInv'
    BY <2>20 DEF StartOp, AccountLock
  <2>21. ASSUME NEW o \in Ops, OpLock(o)
        PROVE  LockInv'
    BY <2>21 DEF OpLock, TakeLock
  <2>22. ASSUME NEW o \in Ops, RemoveSecret(o)
        PROVE  LockInv'
    BY <2>22 DEF RemoveSecret, DeleteSecret
  <2>23. ASSUME NEW o \in Ops, RemoveMetadata(o)
        PROVE  LockInv'
    BY <2>23 DEF RemoveMetadata
  <2>24. ASSUME NEW o \in Ops, ConnectSave(o)
        PROVE  LockInv'
    BY <2>24 DEF ConnectSave, Visible, SaveStored, SaveKeptInCache
  <2>25. ASSUME NEW o \in Ops, ConnectUpsert(o)
        PROVE  LockInv'
    BY <2>25 DEF ConnectUpsert
  <2>26. ASSUME NEW o \in Ops, ConnectRollback(o)
        PROVE  LockInv'
    BY <2>26 DEF ConnectRollback, DeleteSecret, SaveStored, SaveKeptInCache
  <2>27. ASSUME NEW o \in Ops, EditLoad(o)
        PROVE  LockInv'
    BY <2>27 DEF EditLoad, Visible
  <2>28. ASSUME NEW o \in Ops, EditExchange(o)
        PROVE  LockInv'
    BY <2>28 DEF EditExchange, Exchange
  <2>29. ASSUME NEW o \in Ops, EditGrant(o)
        PROVE  LockInv'
    BY <2>29 DEF EditGrant
  <2>30. ASSUME NEW o \in Ops, EditSave(o)
        PROVE  LockInv'
    BY <2>30 DEF EditSave, SaveStored, SaveKeptInCache
  <2>31. ASSUME NEW o \in Ops, OpRelease(o)
        PROVE  LockInv'
    BY <2>31, DropGuardLocal, o \in Procs DEF OpRelease
  <2>32. ASSUME NEW o \in Ops, ForgetLock(o)
        PROVE  LockInv'
    BY <2>32 DEF ForgetLock
  <2>33. ASSUME NEW a \in Accounts, NEW t \in Tokens, RememberRead(a, t)
        PROVE  LockInv'
    BY <2>33 DEF RememberRead
  <2>34. ASSUME NEW a \in Accounts, CacheExpires(a)
        PROVE  LockInv'
    BY <2>34 DEF CacheExpires
  <2>35. CASE UNCHANGED vars
    BY <2>35 DEF vars
  <2> HIDE DEF TypeOK, LockInv
  <2>36. QED
    BY <2>1, <2>2, <2>3, <2>4, <2>5, <2>6, <2>7, <2>8, <2>9, <2>10, <2>11, <2>12,
       <2>13, <2>14, <2>15, <2>16, <2>17, <2>18, <2>19, <2>20, <2>21, <2>22, <2>23,
       <2>24, <2>25, <2>26, <2>27, <2>28, <2>29, <2>30, <2>31, <2>32, <2>33, <2>34, <2>35
       DEF Next, Request, Enter, Work, Leave, Operate
<1>3. QED
  BY <1>1, <1>2, TypeCorrect, PTL DEF Spec

(* At most one call, task or operation is in an account's critical section. *)
THEOREM MutualExclusion == Spec => []OneHolder
<1>1. LockInv => OneHolder
  BY DEF LockInv, RefsAreMapped, OneHolder, Holding
<1>2. QED
  BY <1>1, LocksAgree, PTL

(* The permit holders are finitely many, so they can be counted. *)
LEMMA HoldersFinite == IsFiniteSet(PermitHolders) /\ Cardinality(PermitHolders) \in Nat
<1>1. PermitHolders \subseteq Calls
  BY DEF PermitHolders
<1> QED BY <1>1, ProcsAssumption, FS_Subset, FS_CardinalityType

(* A step that neither takes nor gives back a permit keeps the count. *)
LEMMA SameHolders ==
  ASSUME PermitsConserved, UNCHANGED free,
         \A c \in Calls : pc'[c] \in {"idle", "joined", "permit", "drop"}
                           <=> pc[c] \in {"idle", "joined", "permit", "drop"}
  PROVE  PermitsConserved'
<1>1. PermitHolders' = PermitHolders
  BY DEF PermitHolders
<1> QED BY <1>1 DEF PermitsConserved

(* No permit is leaked or given back twice, whatever path a call leaves by. *)
THEOREM PermitsAreConserved == Spec => []PermitsConserved
<1>1. Init => PermitsConserved
  <2> SUFFICES ASSUME Init PROVE PermitsConserved
    OBVIOUS
  <2>1. PermitHolders = {}
    BY DEF Init, PermitHolders, Procs
  <2>2. Cardinality({}) = 0
    BY FS_EmptySet
  <2> QED BY <2>1, <2>2, BoundsAssumption DEF Init, PermitsConserved
<1>2. TypeOK /\ LockInv /\ PermitsConserved /\ [Next]_vars => PermitsConserved'
  <2> SUFFICES ASSUME TypeOK, LockInv, PermitsConserved, [Next]_vars
               PROVE  PermitsConserved'
    OBVIOUS
  <2> USE ProcsAssumption, BoundsAssumption
      DEF TypeOK, LockInv, CallLockShape, Procs, store, secrets, locking, local, Goto
  <2>1. ASSUME NEW c \in Calls, NEW a \in Accounts, Join(c, a)
        PROVE  PermitsConserved'
    BY <2>1, SameHolders DEF Join
  <2>2. ASSUME NEW c \in Calls, NEW a \in Accounts, Lead(c, a)
        PROVE  PermitsConserved'
    BY <2>2, SameHolders DEF Lead
  <2>3. ASSUME NEW c \in Calls, AcquirePermit(c)
        PROVE  PermitsConserved'
    <3>1. pc[c] = "permit" /\ pc' = [pc EXCEPT ![c] = "lock"]
      BY <2>3 DEF AcquirePermit
    <3>2. PermitHolders' = PermitHolders \cup {c} /\ c \notin PermitHolders
      BY <3>1 DEF PermitHolders
    <3>3. Cardinality(PermitHolders') = Cardinality(PermitHolders) + 1
      BY <3>2, HoldersFinite, FS_AddElement
    <3> QED BY <2>3, <3>3, HoldersFinite DEF AcquirePermit, PermitsConserved
  <2>4. ASSUME NEW c \in Calls, AcquireLock(c)
        PROVE  PermitsConserved'
    BY <2>4, SameHolders DEF AcquireLock, TakeLock
  <2>5. ASSUME NEW c \in Calls, AccountMissing(c)
        PROVE  PermitsConserved'
    BY <2>5, SameHolders DEF AccountMissing
  <2>6. ASSUME NEW c \in Calls, SignInUnusable(c)
        PROVE  PermitsConserved'
    BY <2>6, SameHolders DEF SignInUnusable
  <2>7. ASSUME NEW c \in Calls, SpawnTask(c)
        PROVE  PermitsConserved'
    BY <2>7, SameHolders DEF SpawnTask
  <2>8. ASSUME NEW c \in Calls, TaskExchange(c)
        PROVE  PermitsConserved'
    BY <2>8, SameHolders DEF TaskExchange
  <2>9. ASSUME NEW c \in Calls, TaskSaveRefreshed(c)
        PROVE  PermitsConserved'
    BY <2>9, SameHolders DEF TaskSaveRefreshed
  <2>10. ASSUME NEW c \in Calls, TaskAnswer(c)
        PROVE  PermitsConserved'
    BY <2>10, SameHolders DEF TaskAnswer
  <2>11. ASSUME NEW c \in Calls, TaskSave(c)
        PROVE  PermitsConserved'
    BY <2>11, SameHolders DEF TaskSave
  <2>12. ASSUME NEW c \in Calls, TaskPanic(c)
        PROVE  PermitsConserved'
    BY <2>12, SameHolders DEF TaskPanic
  <2>13. ASSUME NEW c \in Calls, TaskDropped(c)
        PROVE  PermitsConserved'
    BY <2>13, SameHolders DEF TaskDropped
  <2>14. ASSUME NEW c \in Calls, TaskReturned(c)
        PROVE  PermitsConserved'
    BY <2>14, SameHolders DEF TaskReturned
  <2>15. ASSUME NEW c \in Calls, StopWaiting(c)
        PROVE  PermitsConserved'
    BY <2>15, SameHolders DEF StopWaiting
  <2>16. ASSUME NEW c \in Calls, Finish(c)
        PROVE  PermitsConserved'
    BY <2>16, SameHolders DEF Finish, WakeJoined
  <2>17. ASSUME NEW c \in Calls, Release(c)
        PROVE  PermitsConserved'
    <3>1. PermitHolders' = PermitHolders \ {c} /\ c \in PermitHolders
      BY <2>17 DEF Release, PermitHolders
    <3>2. Cardinality(PermitHolders') = Cardinality(PermitHolders) - 1
      BY <3>1, HoldersFinite, FS_RemoveElement
    <3> QED BY <2>17, <3>2, HoldersFinite DEF Release, GiveBack, PermitsConserved
  <2>18. ASSUME NEW c \in Calls, Abandon(c)
        PROVE  PermitsConserved'
    <3>1. PermitHolders' = PermitHolders \ {c} /\ c \in PermitHolders
      BY <2>18 DEF Abandon, PermitHolders
    <3>2. Cardinality(PermitHolders') = Cardinality(PermitHolders) - 1
      BY <3>1, HoldersFinite, FS_RemoveElement
    <3> QED BY <2>18, <3>2, HoldersFinite DEF Abandon, GiveBack, PermitsConserved
  <2>19. ASSUME NEW c \in Calls, DropInFlight(c)
        PROVE  PermitsConserved'
    BY <2>19, SameHolders DEF DropInFlight, WakeJoined
  <2>20. ASSUME NEW o \in Ops, NEW a \in Accounts, NEW k \in Kinds, StartOp(o, a, k)
        PROVE  PermitsConserved'
    BY <2>20, SameHolders DEF StartOp
  <2>21. ASSUME NEW o \in Ops, OpLock(o)
        PROVE  PermitsConserved'
    BY <2>21, SameHolders DEF OpLock
  <2>22. ASSUME NEW o \in Ops, RemoveSecret(o)
        PROVE  PermitsConserved'
    BY <2>22, SameHolders DEF RemoveSecret
  <2>23. ASSUME NEW o \in Ops, RemoveMetadata(o)
        PROVE  PermitsConserved'
    BY <2>23, SameHolders DEF RemoveMetadata
  <2>24. ASSUME NEW o \in Ops, ConnectSave(o)
        PROVE  PermitsConserved'
    BY <2>24, SameHolders DEF ConnectSave
  <2>25. ASSUME NEW o \in Ops, ConnectUpsert(o)
        PROVE  PermitsConserved'
    BY <2>25, SameHolders DEF ConnectUpsert
  <2>26. ASSUME NEW o \in Ops, ConnectRollback(o)
        PROVE  PermitsConserved'
    BY <2>26, SameHolders DEF ConnectRollback
  <2>27. ASSUME NEW o \in Ops, EditLoad(o)
        PROVE  PermitsConserved'
    BY <2>27, SameHolders DEF EditLoad
  <2>28. ASSUME NEW o \in Ops, EditExchange(o)
        PROVE  PermitsConserved'
    BY <2>28, SameHolders DEF EditExchange
  <2>29. ASSUME NEW o \in Ops, EditGrant(o)
        PROVE  PermitsConserved'
    BY <2>29, SameHolders DEF EditGrant
  <2>30. ASSUME NEW o \in Ops, EditSave(o)
        PROVE  PermitsConserved'
    BY <2>30, SameHolders DEF EditSave
  <2>31. ASSUME NEW o \in Ops, OpRelease(o)
        PROVE  PermitsConserved'
    BY <2>31, SameHolders DEF OpRelease
  <2>32. ASSUME NEW o \in Ops, ForgetLock(o)
        PROVE  PermitsConserved'
    BY <2>32, SameHolders DEF ForgetLock
  <2>33. ASSUME NEW a \in Accounts, NEW t \in Tokens, RememberRead(a, t)
        PROVE  PermitsConserved'
    BY <2>33, SameHolders DEF RememberRead
  <2>34. ASSUME NEW a \in Accounts, CacheExpires(a)
        PROVE  PermitsConserved'
    BY <2>34, SameHolders DEF CacheExpires
  <2>35. CASE UNCHANGED vars
    BY <2>35, SameHolders DEF vars
  <2> HIDE DEF TypeOK, LockInv
  <2>36. QED
    BY <2>1, <2>2, <2>3, <2>4, <2>5, <2>6, <2>7, <2>8, <2>9, <2>10, <2>11, <2>12,
       <2>13, <2>14, <2>15, <2>16, <2>17, <2>18, <2>19, <2>20, <2>21, <2>22, <2>23,
       <2>24, <2>25, <2>26, <2>27, <2>28, <2>29, <2>30, <2>31, <2>32, <2>33, <2>34, <2>35
       DEF Next, Request, Enter, Work, Leave, Operate
<1>3. QED
  BY <1>1, <1>2, TypeCorrect, LocksAgree, PTL DEF Spec
-----------------------------------------------------------------------------
(* The sign-ins: none that was renewed is presented again or left behind,   *)
(* and a removed account leaves none.                                        *)

\* At work on the sign-in of its account: a task, or whoever is past the wait
\* for the lock and may read or write it.
Inside(p) ==
    \/ p \in Calls /\ (Alive(p) \/ pc[p] = "locked")
    \/ p \in Ops /\ pc[p] \in {"held", "deleted", "saved", "edited", "release"}

(* Whoever works on an account's sign-in holds the account's lock ...      *)
LEMMA InsideHolds ==
  ASSUME LockInv, NEW p \in Procs, Inside(p)
  PROVE  Holding(p)
BY ProcsAssumption
   DEF LockInv, CallLockShape, OpLockShape, Inside, Holding, Alive, Procs, CallPc, OpPc

(* ... and holds it alone.                                                 *)
LEMMA InsideAlone ==
  ASSUME LockInv, NEW p \in Procs, NEW q \in Procs,
         Inside(p), Inside(q), target[p] = target[q]
  PROVE  p = q
<1>1. OneHolder
  BY DEF LockInv, RefsAreMapped, OneHolder, Holding
<1> QED BY <1>1, InsideHolds DEF OneHolder

(* A step that leaves the sign-ins, who carries which and the stages that  *)
(* matter alone.                                                           *)
LEMMA QuietStep ==
  ASSUME TypeOK, SecretInv,
         UNCHANGED <<existing, stranded, secrets, target, token>>,
         \A c \in Calls : (Alive(c)' <=> Alive(c)) /\ (task'[c] = "rotated" <=> task[c] = "rotated"),
         \A o \in Ops : /\ Pending(o)' => Pending(o)
                        /\ \A s \in {"deleted", "saved", "edited"} : pc'[o] = s <=> pc[o] = s
  PROVE  SecretInv'
<1> USE DEF SecretInv, secrets
<1>1. TokensAreIssued'
  BY DEF TokensAreIssued
<1>2. TasksCarry'
  BY DEF TasksCarry
<1>3. PendingIsNew'
  BY DEF PendingIsNew
<1>4. OpsCarry'
  BY DEF OpsCarry
<1>5. SavedIsSound'
  BY DEF SavedIsSound, RenewalUnsaved, UpsertDue, Visible
<1>6. CacheIsCurrent'
  BY DEF CacheIsCurrent
<1> QED BY <1>1, <1>2, <1>3, <1>4, <1>5, <1>6

\* The saved sign-ins of every account but x are what they were.
OnlyAt(x) ==
  \A a \in Accounts \ {x} :
     /\ disk'[a] = disk[a] /\ dirty'[a] = dirty[a] /\ old'[a] = old[a]
     /\ stored'[a] = stored[a]

(* A save, successful or not, leaves its sign-in for whoever loads next.   *)
LEMMA SaveEffect ==
  ASSUME TypeOK, NEW x \in Accounts, NEW t \in Tokens, t # 0,
         SaveStored(x, t) \/ SaveKeptInCache(x, t)
  PROVE  /\ OnlyAt(x)
         /\ disk'[x] \in {disk[x], t} /\ dirty'[x] \in {0, t} /\ old'[x] \in {0, old[x]}
         /\ old'[x] # 0 => old[x] = t
         /\ dirty'[x] = 0 \/ old'[x] = 0
         /\ stored'[x] \subseteq stored[x] \cup {t}
         /\ Visible(x)' = t
<1>1. CASE SaveStored(x, t)
  <2>1. CASE old[x] = t
    BY <1>1, <2>1 DEF TypeOK, SaveStored, OnlyAt, Visible
  <2>2. CASE old[x] # t
    BY <1>1, <2>2 DEF TypeOK, SaveStored, OnlyAt, Visible
  <2> QED BY <2>1, <2>2
<1>2. CASE SaveKeptInCache(x, t)
  BY <1>2 DEF TypeOK, SaveKeptInCache, OnlyAt, Visible
<1> QED BY <1>1, <1>2

(* What may no longer be mislaid after a save is an account whose sign-in *)
(* works.                                                                  *)
LEMMA FoundEffect ==
  ASSUME TypeOK, NEW x \in Accounts, NEW t \in Tokens, Found(x, t) \/ UNCHANGED mislaid
  PROVE  /\ mislaid' \subseteq mislaid /\ mislaid \subseteq mislaid' \cup {x}
         /\ x \in mislaid /\ x \notin mislaid' =>
              x \in existing /\ old[x] # t /\ t \notin retired[x]
BY DEF Found

(* A deletion, successful or not, leaves less; what is not mislaid after a *)
(* failed one was not waiting to be written.                               *)
LEMMA DeleteEffect ==
  ASSUME TypeOK, CacheIsCurrent, NEW x \in Accounts,
         \/ DeleteSecret(x) /\ mislaid' \in {mislaid, mislaid \ {x}}
         \/ DeleteFails(x)
  PROVE  /\ OnlyAt(x) /\ UNCHANGED stored
         /\ disk'[x] \in {0, disk[x]} /\ dirty'[x] \in {0, dirty[x]} /\ old'[x] \in {0, old[x]}
         /\ mislaid \subseteq mislaid' \cup {x} /\ mislaid' \subseteq mislaid \cup {x}
         /\ x \in mislaid' \/ Visible(x)' \in {0, Visible(x)}
         /\ x \in mislaid /\ x \notin mislaid' => disk'[x] = 0 /\ dirty'[x] = 0 /\ old'[x] = 0
<1>1. CASE DeleteSecret(x) /\ mislaid' \in {mislaid, mislaid \ {x}}
  BY <1>1 DEF TypeOK, DeleteSecret, ForgetCached, OnlyAt, Visible
<1>2. CASE DeleteFails(x)
  <2>1. CASE UNCHANGED <<disk, dirty, old, stored, mislaid>>
    BY <2>1 DEF OnlyAt, Visible
  <2>2. CASE /\ disk' \in {disk, [disk EXCEPT ![x] = 0]}
             /\ ForgetCached(x) /\ UNCHANGED stored
             /\ mislaid' = IF dirty[x] # 0 THEN mislaid \cup {x} ELSE mislaid
    <3>1. /\ OnlyAt(x) /\ disk'[x] \in {0, disk[x]} /\ dirty'[x] = 0 /\ old'[x] = 0
      BY <2>2 DEF TypeOK, ForgetCached, OnlyAt
    <3>2. x \in mislaid' \/ (dirty[x] = 0 /\ old[x] = 0)
      BY <2>2 DEF CacheIsCurrent
    <3> QED BY <2>2, <3>1, <3>2 DEF Visible
  <2> QED BY <1>2, <2>1, <2>2 DEF DeleteFails
<1> QED BY <1>1, <1>2

(* Whoever is alone with a saved sign-in, and has not renewed it, finds    *)
(* one that works, and none for an account nobody knows.                   *)
LEMMA FoundWorks ==
  ASSUME TypeOK, LockInv, SavedIsSound, NEW p \in Procs, Inside(p),
         target[p] \notin mislaid,
         p \in Calls => task[p] # "rotated",
         p \in Ops => pc[p] \notin {"edited", "saved"}
  PROVE  /\ Visible(target[p]) \notin retired[target[p]]
         /\ \/ target[p] \in existing \cup stranded
            \/ disk[target[p]] = 0 /\ dirty[target[p]] = 0
<1>1. \A q \in Procs : Inside(q) /\ target[q] = target[p] => q = p
  BY InsideAlone
<1>2. ~RenewalUnsaved(target[p])
  BY <1>1 DEF RenewalUnsaved, Inside, Alive, Procs
<1>3. ~UpsertDue(target[p])
  BY <1>1 DEF UpsertDue, Inside, Procs
<1>4. target[p] \in Accounts
  BY DEF TypeOK
<1> QED BY <1>2, <1>3, <1>4 DEF SavedIsSound

(* A call that turns to another account carries no sign-in yet.           *)
LEMMA CallIsRetargeted ==
  ASSUME TypeOK, LockInv, SecretInv, NEW c \in Calls, NEW a \in Accounts,
         Join(c, a) \/ Lead(c, a)
  PROVE  SecretInv'
<1> USE DEF TypeOK, SecretInv, Join, Lead, secrets, store, Goto, Procs, Alive
<1>1. token[c] = 0 /\ ~Alive(c)
  BY DEF TasksCarry
<1>2. TokensAreIssued'
  <2>1. \A x \in Accounts : issued[x] \in Nat
    BY DEF Tokens
  <2>2. ASSUME NEW p \in Procs
        PROVE  token[p] <= issued[target'[p]]
    <3>1. CASE p = c
      BY <1>1, <2>1, <3>1
    <3>2. CASE p # c
      BY <3>2 DEF TokensAreIssued
    <3> QED BY <3>1, <3>2
  <2> QED BY <2>2 DEF TokensAreIssued
<1>3. TasksCarry'
  BY <1>1 DEF TasksCarry
<1>4. PendingIsNew'
  BY <1>1 DEF PendingIsNew, Pending
<1>5. OpsCarry'
  BY <1>1 DEF OpsCarry
<1>6. SavedIsSound'
  BY SMTT(20), <1>1 DEF SavedIsSound, RenewalUnsaved, UpsertDue, Visible
<1>7. CacheIsCurrent'
  BY DEF CacheIsCurrent
<1> QED BY <1>2, <1>3, <1>4, <1>5, <1>6, <1>7

(* A task starts from the saved sign-in, which works.                     *)
LEMMA SpawnTaskKeeps ==
  ASSUME TypeOK, LockInv, SecretInv, NEW c \in Calls, SpawnTask(c)
  PROVE  SecretInv'
<1> USE DEF TypeOK, SecretInv, SpawnTask, secrets, store, Goto, Procs, Alive
<1>1. \A q \in Procs : Inside(q) /\ target[q] = target[c] => q = c
  BY InsideAlone DEF Inside
<1>2. TokensAreIssued'
  BY <1>1 DEF TokensAreIssued, Visible
<1>3. TasksCarry'
  <2>1. task[c] = "none"
    BY DEF LockInv, CallLockShape
  <2>2. target[c] \in mislaid \/ Visible(target[c]) \notin retired[target[c]]
    BY <2>1, FoundWorks, ProcsAssumption DEF Inside
  <2> QED BY <2>1, <2>2 DEF TasksCarry
<1>4. PendingIsNew'
  BY <1>1 DEF PendingIsNew, Pending, Visible
<1>5. OpsCarry'
  BY <1>1 DEF OpsCarry
<1>6. SavedIsSound'
  <2>1. task[c] = "none"
    BY DEF LockInv, CallLockShape
  <2> QED BY <2>1 DEF SavedIsSound, RenewalUnsaved, UpsertDue, Visible
<1>7. CacheIsCurrent'
  BY DEF CacheIsCurrent
<1> QED BY <1>2, <1>3, <1>4, <1>5, <1>6, <1>7

(* A renewal retires what the task carries and gives it the next.         *)
LEMMA TaskExchangeKeeps ==
  ASSUME TypeOK, LockInv, SecretInv, NEW c \in Calls, TaskExchange(c)
  PROVE  SecretInv'
<1> USE ProcsAssumption
        DEF TypeOK, SecretInv, TaskExchange, Exchange, store, Procs, Alive,
            Tokens
<1>1. \A q \in Procs : Inside(q) /\ target[q] = target[c] => q = c
  BY InsideAlone DEF Inside
<1>2. TokensAreIssued'
  BY <1>1 DEF TokensAreIssued, TasksCarry
<1>3. TasksCarry'
  <2>1. \A d \in Calls : Alive(d)' <=> Alive(d)
    OBVIOUS
  <2>2. token'[c] = issued[target[c]] + 1 /\ token'[c] \notin retired'[target[c]]
    BY DEF TokensAreIssued, TasksCarry
  <2>3. ASSUME NEW d \in Calls, d # c
        PROVE  /\ token'[d] = token[d]
               /\ Alive(d) => retired'[target[d]] = retired[target[d]]
    BY <1>1, <2>3 DEF Inside
  <2> QED BY <2>1, <2>2, <2>3 DEF TasksCarry
<1>4. PendingIsNew'
  BY <1>1
     DEF PendingIsNew, Pending, TasksCarry, TokensAreIssued, Inside, Visible
<1>5. OpsCarry'
  BY <1>1 DEF OpsCarry, TokensAreIssued, TasksCarry, Inside
<1>6. SavedIsSound'
  BY <1>1
     DEF SavedIsSound, RenewalUnsaved, UpsertDue, Visible, TasksCarry,
         TokensAreIssued, Inside
<1>7. CacheIsCurrent'
  BY DEF CacheIsCurrent
<1> QED BY <1>2, <1>3, <1>4, <1>5, <1>6, <1>7

(* A save by whoever is alone with an account keeps the sign-ins sound.    *)
LEMMA SaveKeeps ==
  ASSUME TypeOK, LockInv, SecretInv, NEW p \in Procs, Inside(p), token[p] # 0,
         token[p] \in retired[target[p]] => target[p] \in mislaid,
         target[p] \in existing \cup stranded \cup mislaid,
         SaveStored(target[p], token[p]) \/ SaveKeptInCache(target[p], token[p]),
         Found(target[p], token[p]) \/ UNCHANGED mislaid,
         UNCHANGED <<existing, stranded, issued, retired, target, token>>,
         \A c \in Calls : /\ Alive(c)' <=> Alive(c)
                          /\ c # p => task'[c] = task[c],
         \A o \in Ops \ {p} : pc'[o] = pc[o] /\ kind'[o] = kind[o],
         p \in Ops => pc[p] # "lock" /\ pc'[p] = "release"
  PROVE  SecretInv'
<1> DEFINE x == target[p]  t == token[p]
<1> USE DEF SecretInv
<1>1. x \in Accounts /\ t \in Tokens /\ t \in 1 .. issued[x]
  BY DEF TypeOK, TokensAreIssued, Tokens
<1>2. \A q \in Procs : Inside(q) /\ target[q] = x => q = p
  BY InsideAlone
<1>3. /\ OnlyAt(x)
      /\ disk'[x] \in {disk[x], t} /\ dirty'[x] \in {0, t} /\ old'[x] \in {0, old[x]}
      /\ old'[x] # 0 => old[x] = t
      /\ dirty'[x] = 0 \/ old'[x] = 0
      /\ stored'[x] \subseteq stored[x] \cup {t}
      /\ Visible(x)' = t
  BY <1>1, SaveEffect
<1>4. /\ mislaid' \subseteq mislaid /\ mislaid \subseteq mislaid' \cup {x}
      /\ x \in mislaid /\ x \notin mislaid' =>
           x \in existing /\ old[x] # t /\ t \notin retired[x]
  BY <1>1, FoundEffect
<1>5. \A q \in Procs : q # p /\ Inside(q) => (target[q] \in mislaid <=> target[q] \in mislaid')
  BY <1>2, <1>4
<1> HIDE DEF x, t
<1>6. TokensAreIssued'
  <2>1. \A a \in Accounts : issued[a] \in Nat
    BY DEF TypeOK, Tokens
  <2>2. \A q \in Procs : token'[q] <= issued'[target'[q]]
    BY DEF TokensAreIssued
  <2>3. ASSUME NEW a \in Accounts
        PROVE  /\ retired[a] \subseteq 1 .. issued[a] /\ stored'[a] \subseteq 1 .. issued[a]
               /\ disk'[a] <= issued[a] /\ dirty'[a] <= issued[a] /\ old'[a] <= issued[a]
    <3>1. CASE a = x
      BY <1>1, <1>3, <2>1, <3>1 DEF TokensAreIssued
    <3>2. CASE a # x
      BY <1>3, <3>2 DEF TokensAreIssued, OnlyAt
    <3> QED BY <3>1, <3>2
  <2> QED BY <2>2, <2>3 DEF TokensAreIssued
<1>7. TasksCarry'
  <2>1. ASSUME NEW c \in Calls, Alive(c), token[c] \in retired[target[c]]
        PROVE  target[c] \in mislaid'
    <3>1. CASE c = p
      BY <1>4, <2>1, <3>1 DEF x, t
    <3>2. CASE c # p
      BY <1>5, <2>1, <3>2 DEF Inside, TasksCarry, Procs
    <3> QED BY <3>1, <3>2
  <2> QED BY <2>1 DEF TasksCarry
<1>8. PendingIsNew'
  <2> SUFFICES ASSUME NEW o \in Ops, Pending(o)'
               PROVE  /\ token[o] \notin {0, disk'[target[o]], dirty'[target[o]], old'[target[o]]}
                                         \cup stored'[target[o]] \cup retired[target[o]]
                      /\ \A q \in Procs \ {o} : target[q] = target[o] => token[q] # token[o]
    BY DEF PendingIsNew
  <2>1. o # p /\ Pending(o) /\ target[o] \in Accounts
    BY DEF Pending, TypeOK, Procs
  <2>2. target[o] = x => token[o] # t
    BY <2>1 DEF PendingIsNew, x, t
  <2>3. CASE target[o] = x
    BY <1>3, <2>1, <2>2, <2>3 DEF PendingIsNew
  <2>4. CASE target[o] # x
    BY <1>3, <2>1, <2>4 DEF PendingIsNew, OnlyAt
  <2> QED BY <2>3, <2>4
<1>9. OpsCarry'
  <2> SUFFICES ASSUME NEW o \in Ops, o # p, pc[o] \in {"saved", "edited", "deleted"}
               PROVE  /\ target[o] \in Accounts \ {x}
                      /\ target[o] \in mislaid <=> target[o] \in mislaid'
    BY <1>3 DEF OpsCarry, OnlyAt
  <2> QED BY <1>2, <1>4 DEF Inside, TypeOK, Procs
<1>10. SavedIsSound'
  <2> SUFFICES ASSUME NEW a \in Accounts \ mislaid'
               PROVE  /\ \/ RenewalUnsaved(a)'
                         \/ Visible(a)' \notin retired[a]
                      /\ \/ a \in existing \cup stranded \/ UpsertDue(a)'
                         \/ disk'[a] = 0 /\ dirty'[a] = 0
    BY DEF SavedIsSound
  <2>1. CASE a = x
    BY <1>3, <1>4, <2>1 DEF x, t
  <2>2. CASE a # x
    <3>1. a \notin mislaid /\ disk'[a] = disk[a] /\ dirty'[a] = dirty[a] /\ old'[a] = old[a]
      BY <1>3, <1>4, <2>2 DEF OnlyAt
    <3>2. RenewalUnsaved(a) => RenewalUnsaved(a)'
      BY <2>2 DEF RenewalUnsaved, x
    <3>3. UpsertDue(a) => UpsertDue(a)'
      BY <2>2 DEF UpsertDue, x
    <3> QED BY <3>1, <3>2, <3>3 DEF SavedIsSound, Visible
  <2> QED BY <2>1, <2>2
<1>11. CacheIsCurrent'
  <2> SUFFICES ASSUME NEW a \in Accounts
               PROVE  (dirty'[a] = 0 \/ old'[a] = 0) /\ (a \in mislaid' \/ old'[a] = 0)
    BY DEF CacheIsCurrent
  <2>1. CASE a = x
    BY <1>3, <1>4, <2>1 DEF CacheIsCurrent
  <2>2. CASE a # x
    BY <1>3, <1>4, <2>2 DEF CacheIsCurrent, OnlyAt
  <2> QED BY <2>1, <2>2
<1> QED BY <1>6, <1>7, <1>8, <1>9, <1>10, <1>11

(* The renewed sign-in is saved, or kept in the cache.                    *)
LEMMA TaskSaveRefreshedKeeps ==
  ASSUME TypeOK, LockInv, SecretInv, NEW c \in Calls, TaskSaveRefreshed(c)
  PROVE  SecretInv'
<1>1. /\ c \in Procs /\ Inside(c) /\ token[c] # 0 /\ target[c] \in existing
      /\ token[c] \in retired[target[c]] => target[c] \in mislaid
  BY DEF TaskSaveRefreshed, SecretInv, TasksCarry, Alive, Inside, Procs
<1>2. \A d \in Calls : (Alive(d)' <=> Alive(d)) /\ (d # c => task'[d] = task[d])
  BY DEF TaskSaveRefreshed, Alive, TypeOK
<1>3. UNCHANGED <<existing, stranded, issued, retired, target, token, pc, kind>>
  BY DEF TaskSaveRefreshed, store, local
<1>4. /\ SaveStored(target[c], token[c]) \/ SaveKeptInCache(target[c], token[c])
      /\ Found(target[c], token[c])
  BY DEF TaskSaveRefreshed
<1> QED BY <1>1, <1>2, <1>3, <1>4, SaveKeeps, ProcsAssumption

(* What a task saves at its end is the newest.                            *)
LEMMA TaskSaveKeeps ==
  ASSUME TypeOK, LockInv, SecretInv, NEW c \in Calls, TaskSave(c)
  PROVE  SecretInv'
<1>1. /\ c \in Procs /\ Inside(c) /\ token[c] # 0 /\ target[c] \in existing
      /\ token[c] \in retired[target[c]] => target[c] \in mislaid
  BY DEF TaskSave, SecretInv, TasksCarry, Alive, Inside, Procs
<1>2. \A d \in Calls : (Alive(d)' <=> Alive(d)) /\ (d # c => task'[d] = task[d])
  BY DEF TaskSave, Alive, TypeOK
<1>3. UNCHANGED <<existing, stranded, issued, retired, target, token, pc, kind>>
  BY DEF TaskSave, store, local
<1>4. /\ SaveStored(target[c], token[c]) \/ SaveKeptInCache(target[c], token[c])
      /\ Found(target[c], token[c])
  BY <1>1 DEF TaskSave
<1> QED BY <1>1, <1>2, <1>3, <1>4, SaveKeeps, ProcsAssumption

(* A panic loses nothing that was renewed but not saved.                  *)
LEMMA TaskPanicKeeps ==
  ASSUME TypeOK, LockInv, SecretInv, NEW c \in Calls, TaskPanic(c)
  PROVE  SecretInv'
<1> USE ProcsAssumption, BoundsAssumption
        DEF TypeOK, SecretInv, TaskPanic, EndTask, secrets, store, Procs,
            Alive, Tokens
<1>1. \A q \in Procs : Inside(q) /\ target[q] = target[c] => q = c
  BY InsideAlone DEF Inside
<1>2. TokensAreIssued'
  BY <1>1 DEF TokensAreIssued, TasksCarry, Visible
<1>3. TasksCarry'
  BY <1>1
     DEF TasksCarry, TokensAreIssued, Inside, SavedIsSound, RenewalUnsaved,
         Visible
<1>4. PendingIsNew'
  BY <1>1
     DEF PendingIsNew, Pending, TasksCarry, TokensAreIssued, Inside, Visible
<1>5. OpsCarry'
  BY <1>1 DEF OpsCarry, TokensAreIssued, TasksCarry, Inside
<1>6. SavedIsSound'
  BY <1>1
     DEF SavedIsSound, RenewalUnsaved, UpsertDue, Visible, TasksCarry,
         TokensAreIssued, Inside
<1>7. CacheIsCurrent'
  BY DEF CacheIsCurrent
<1> QED BY <1>2, <1>3, <1>4, <1>5, <1>6, <1>7

(* Nor does a task whose runtime goes away.                               *)
LEMMA TaskDroppedKeeps ==
  ASSUME TypeOK, LockInv, SecretInv, NEW c \in Calls, TaskDropped(c)
  PROVE  SecretInv'
<1> USE ProcsAssumption, BoundsAssumption
        DEF TypeOK, SecretInv, TaskDropped, EndTask, secrets, store, Procs,
            Alive, Tokens
<1>1. \A q \in Procs : Inside(q) /\ target[q] = target[c] => q = c
  BY InsideAlone DEF Inside
<1>2. TokensAreIssued'
  BY <1>1 DEF TokensAreIssued, TasksCarry, Visible
<1>3. TasksCarry'
  BY <1>1
     DEF TasksCarry, TokensAreIssued, Inside, SavedIsSound, RenewalUnsaved,
         Visible
<1>4. PendingIsNew'
  BY <1>1
     DEF PendingIsNew, Pending, TasksCarry, TokensAreIssued, Inside, Visible
<1>5. OpsCarry'
  BY <1>1 DEF OpsCarry, TokensAreIssued, TasksCarry, Inside
<1>6. SavedIsSound'
  BY <1>1
     DEF SavedIsSound, RenewalUnsaved, UpsertDue, Visible, TasksCarry,
         TokensAreIssued, Inside
<1>7. CacheIsCurrent'
  BY DEF CacheIsCurrent
<1> QED BY <1>2, <1>3, <1>4, <1>5, <1>6, <1>7

(* Taking over from a finished task leaves what it saved.                 *)
LEMMA TaskReturnedKeeps ==
  ASSUME TypeOK, LockInv, SecretInv, NEW c \in Calls, TaskReturned(c)
  PROVE  SecretInv'
<1> USE ProcsAssumption, BoundsAssumption
        DEF TypeOK, SecretInv, TaskReturned, EndTask, secrets, store, Goto,
            Procs, Alive, Tokens
<1>1. \A q \in Procs : Inside(q) /\ target[q] = target[c] => q = c
  BY InsideAlone DEF Inside
<1>2. TokensAreIssued'
  BY <1>1 DEF TokensAreIssued, TasksCarry, Visible
<1>3. TasksCarry'
  BY <1>1
     DEF TasksCarry, TokensAreIssued, Inside, SavedIsSound, RenewalUnsaved,
         Visible
<1>4. PendingIsNew'
  BY <1>1
     DEF PendingIsNew, Pending, TasksCarry, TokensAreIssued, Inside, Visible
<1>5. OpsCarry'
  BY <1>1 DEF OpsCarry, TokensAreIssued, TasksCarry, Inside
<1>6. SavedIsSound'
  BY <1>1
     DEF SavedIsSound, RenewalUnsaved, UpsertDue, Visible, TasksCarry,
         TokensAreIssued, Inside
<1>7. CacheIsCurrent'
  BY DEF CacheIsCurrent
<1> QED BY <1>2, <1>3, <1>4, <1>5, <1>6, <1>7

(* A connection starts with a sign-in nobody has, others with none.       *)
LEMMA StartOpKeeps ==
  ASSUME TypeOK, LockInv, SecretInv, NEW o \in Ops, NEW a \in Accounts, NEW k \in Kinds, StartOp(o, a, k)
  PROVE  SecretInv'
<1> USE ProcsAssumption, BoundsAssumption
        DEF TypeOK, SecretInv, StartOp, store, Goto, Procs, Alive, Tokens
<1>1. \A q \in Procs : Inside(o) /\ Inside(q) /\ target[q] = target[o] => q = o
  BY InsideAlone
<1>2. TokensAreIssued'
  BY <1>1 DEF TokensAreIssued, Visible
<1>3. TasksCarry'
  BY <1>1 DEF TasksCarry, TokensAreIssued, Inside, PendingIsNew, Pending
<1>4. PendingIsNew'
  BY <1>1 DEF PendingIsNew, Pending, TokensAreIssued, OpsCarry, Inside, Visible
<1>5. OpsCarry'
  BY <1>1
     DEF OpsCarry, TokensAreIssued, Inside, SavedIsSound, RenewalUnsaved,
         UpsertDue, Visible, PendingIsNew, Pending
<1>6. SavedIsSound'
  BY <1>1
     DEF SavedIsSound, RenewalUnsaved, UpsertDue, Visible, OpsCarry,
         PendingIsNew, Pending, TokensAreIssued, Inside
<1>7. CacheIsCurrent'
  BY DEF CacheIsCurrent
<1> QED BY <1>2, <1>3, <1>4, <1>5, <1>6, <1>7

(* A deletion by whoever is alone with an account does too: nothing is    *)
(* left, or what is left works, or the account is mislaid.                 *)
LEMMA DeleteKeeps ==
  ASSUME TypeOK, LockInv, SecretInv, NEW o \in Ops, pc[o] \in {"held", "saved"},
         \/ DeleteSecret(target[o]) /\ mislaid' \in {mislaid, mislaid \ {target[o]}}
         \/ DeleteFails(target[o]) /\ (pc[o] = "held" \/ target[o] \in stranded'),
         pc[o] = "held" => kind[o] # "connect",
         stranded \subseteq stranded' /\ stranded' \subseteq stranded \cup {target[o]},
         UNCHANGED <<existing, issued, retired, target, token, task, kind>>,
         \A q \in Ops \ {o} : pc'[q] = pc[q],
         \/ pc'[o] = "release"
         \/ pc'[o] = "deleted" /\ DeleteSecret(target[o])
  PROVE  SecretInv'
<1> DEFINE x == target[o]
<1> USE DEF SecretInv
<1>1. /\ x \in Accounts /\ o \in Procs /\ Inside(o)
      /\ DeleteSecret(x) \/ x \in stranded' \/ pc[o] = "held"
  BY DEF TypeOK, Inside, Procs
<1>2. \A q \in Procs : Inside(q) /\ target[q] = x => q = o
  BY <1>1, InsideAlone
<1>3. /\ OnlyAt(x) /\ UNCHANGED stored
      /\ disk'[x] \in {0, disk[x]} /\ dirty'[x] \in {0, dirty[x]} /\ old'[x] \in {0, old[x]}
      /\ mislaid \subseteq mislaid' \cup {x} /\ mislaid' \subseteq mislaid \cup {x}
      /\ x \in mislaid' \/ Visible(x)' \in {0, Visible(x)}
      /\ x \in mislaid /\ x \notin mislaid' => disk'[x] = 0 /\ dirty'[x] = 0 /\ old'[x] = 0
  BY <1>1, DeleteEffect
<1>4. DeleteSecret(x) => disk'[x] = 0 /\ dirty'[x] = 0
  BY <1>1 DEF DeleteSecret, ForgetCached, TypeOK
<1>5. \A c \in Calls : Alive(c)' <=> Alive(c)
  BY DEF Alive
<1>6. ASSUME NEW q \in Procs, q # o, Inside(q)
      PROVE  target[q] \in Accounts \ {x} /\ (target[q] \in mislaid <=> target[q] \in mislaid')
  BY <1>2, <1>3, <1>6 DEF TypeOK
<1>7. ~ RenewalUnsaved(x)
  BY <1>2, ProcsAssumption DEF RenewalUnsaved, Inside, Alive, Procs
<1> HIDE DEF x
<1>8. TokensAreIssued'
  <2>1. \A a \in Accounts : issued[a] \in Nat
    BY BoundsAssumption DEF TypeOK, Tokens
  <2>2. ASSUME NEW a \in Accounts
        PROVE  disk'[a] <= issued[a] /\ dirty'[a] <= issued[a] /\ old'[a] <= issued[a]
    <3>1. CASE a = x
      BY <1>3, <2>1, <3>1 DEF TokensAreIssued
    <3>2. CASE a # x
      BY <1>3, <3>2 DEF TokensAreIssued, OnlyAt
    <3> QED BY <3>1, <3>2
  <2> QED BY <1>3, <2>2 DEF TokensAreIssued
<1>9. TasksCarry'
  <2>1. ASSUME NEW c \in Calls, Alive(c)
        PROVE  target[c] \in mislaid <=> target[c] \in mislaid'
    BY <1>6, <2>1, ProcsAssumption DEF Inside, Procs
  <2> QED BY <1>5, <2>1 DEF TasksCarry
<1>10. PendingIsNew'
  <2> SUFFICES ASSUME NEW q \in Ops, Pending(q)'
               PROVE  /\ token[q] \notin {0, disk'[target[q]], dirty'[target[q]], old'[target[q]]}
                                         \cup stored'[target[q]] \cup retired[target[q]]
                      /\ \A r \in Procs \ {q} : target[r] = target[q] => token[r] # token[q]
    BY DEF PendingIsNew
  <2>1. q # o /\ Pending(q) /\ target[q] \in Accounts
    BY DEF Pending, TypeOK, Procs
  <2>2. CASE target[q] = x
    BY <1>3, <2>1, <2>2 DEF PendingIsNew
  <2>3. CASE target[q] # x
    BY <1>3, <2>1, <2>3 DEF PendingIsNew, OnlyAt
  <2> QED BY <2>2, <2>3
<1>11. OpsCarry'
  <2> SUFFICES ASSUME NEW q \in Ops
               PROVE  /\ pc'[q] \in {"saved", "edited"} /\ token[q] \in retired[target[q]] =>
                           target[q] \in mislaid'
                      /\ pc'[q] = "edited" => token[q] # 0
                      /\ pc'[q] \in {"saved", "edited"} /\ token[q] # 0 =>
                           target[q] \in existing \cup stranded' \cup mislaid'
                      /\ pc'[q] = "saved" => disk'[target[q]] \notin retired[target[q]]
                      /\ pc'[q] = "deleted" =>
                           target[q] \in mislaid' \/ (disk'[target[q]] = 0 /\ dirty'[target[q]] = 0)
    BY DEF OpsCarry
  <2>1. CASE q = o
    BY <1>4, <2>1 DEF x
  <2>2. CASE q # o /\ pc[q] \in {"saved", "edited", "deleted"}
    BY <1>3, <1>6, <2>2 DEF OpsCarry, OnlyAt, Inside, Procs
  <2>3. CASE q # o /\ pc[q] \notin {"saved", "edited", "deleted"}
    BY <2>3
  <2> QED BY <2>1, <2>2, <2>3
<1>12. SavedIsSound'
  <2> SUFFICES ASSUME NEW a \in Accounts \ mislaid'
               PROVE  /\ \/ RenewalUnsaved(a)'
                         \/ Visible(a)' \notin retired[a]
                      /\ \/ a \in existing \cup stranded' \/ UpsertDue(a)'
                         \/ disk'[a] = 0 /\ dirty'[a] = 0
    BY DEF SavedIsSound
  <2>1. CASE a = x
    <3>1. 0 \notin retired[x]
      BY <1>1 DEF TokensAreIssued
    <3>2. x \in mislaid => disk'[x] = 0 /\ dirty'[x] = 0 /\ old'[x] = 0
      BY <1>3, <2>1
    <3>3. Visible(x)' \notin retired[x]
      <4>1. CASE x \in mislaid
        BY <3>1, <3>2, <4>1 DEF Visible, x
      <4>2. CASE x \notin mislaid
        <5>1. Visible(x) \notin retired[x]
          BY <1>1, <1>7, <4>2 DEF SavedIsSound
        <5> QED BY <1>3, <2>1, <3>1, <5>1
      <4> QED BY <4>1, <4>2
    <3>4. x \in existing \cup stranded' \/ (disk'[x] = 0 /\ dirty'[x] = 0)
      <4>1. CASE x \in mislaid \/ DeleteSecret(x) \/ x \in stranded'
        BY <1>4, <3>2, <4>1
      <4>2. CASE x \notin mislaid /\ pc[o] = "held"
        <5>1. ~ UpsertDue(x)
          BY <1>2, <4>2 DEF UpsertDue, Inside, Procs
        <5> QED BY <1>1, <1>3, <4>2, <5>1 DEF SavedIsSound
      <4> QED BY <1>1, <4>1, <4>2
    <3>5. Visible(a)' \notin retired[a]
      BY <2>1, <3>3 DEF Visible, x
    <3> QED BY <2>1, <3>4, <3>5
  <2>2. CASE a # x
    <3>1. a \notin mislaid /\ disk'[a] = disk[a] /\ dirty'[a] = dirty[a] /\ old'[a] = old[a]
      BY <1>3, <2>2 DEF OnlyAt
    <3>2. (RenewalUnsaved(a) => RenewalUnsaved(a)') /\ (UpsertDue(a) => UpsertDue(a)')
      BY <2>2 DEF RenewalUnsaved, UpsertDue, x
    <3> QED BY <3>1, <3>2 DEF SavedIsSound, Visible
  <2> QED BY <2>1, <2>2
<1>13. CacheIsCurrent'
  <2> SUFFICES ASSUME NEW a \in Accounts
               PROVE  (dirty'[a] = 0 \/ old'[a] = 0) /\ (a \in mislaid' \/ old'[a] = 0)
    BY DEF CacheIsCurrent
  <2>1. CASE a = x
    BY <1>3, <2>1 DEF CacheIsCurrent
  <2>2. CASE a # x
    BY <1>3, <2>2 DEF CacheIsCurrent, OnlyAt
  <2> QED BY <2>1, <2>2
<1> QED BY <1>8, <1>9, <1>10, <1>11, <1>12, <1>13

(* A removal deletes the sign-in of an account it is alone with.          *)
LEMMA RemoveSecretKeeps ==
  ASSUME TypeOK, LockInv, SecretInv, NEW o \in Ops, RemoveSecret(o)
  PROVE  SecretInv'
<1>1. /\ pc[o] = "held" /\ kind[o] # "connect"
      /\ UNCHANGED <<existing, stranded, issued, retired, target, token, task, kind>>
      /\ \A q \in Ops \ {o} : pc'[q] = pc[q]
      /\ pc'[o] = "release" \/ (pc'[o] = "deleted" /\ DeleteSecret(target[o]))
  BY DEF RemoveSecret, store, Goto, TypeOK, Procs
<1>2. \/ DeleteSecret(target[o]) /\ mislaid' \in {mislaid, mislaid \ {target[o]}}
      \/ DeleteFails(target[o])
  BY DEF RemoveSecret
<1> QED BY <1>1, <1>2, DeleteKeeps

(* The account is forgotten once its sign-in is gone.                     *)
LEMMA RemoveMetadataKeeps ==
  ASSUME TypeOK, LockInv, SecretInv, NEW o \in Ops, RemoveMetadata(o)
  PROVE  SecretInv'
<1> USE ProcsAssumption, BoundsAssumption
        DEF TypeOK, SecretInv, RemoveMetadata, secrets, Goto, Procs, Alive,
            Tokens
<1>1. \A q \in Procs : Inside(o) /\ Inside(q) /\ target[q] = target[o] => q = o
  BY InsideAlone
<1>2. TokensAreIssued'
  BY <1>1 DEF TokensAreIssued, Visible
<1>3. TasksCarry'
  BY <1>1 DEF TasksCarry, TokensAreIssued, Inside, PendingIsNew, Pending
<1>4. PendingIsNew'
  BY <1>1 DEF PendingIsNew, Pending, TokensAreIssued, OpsCarry, Inside, Visible
<1>5. OpsCarry'
  BY <1>1
     DEF OpsCarry, TokensAreIssued, Inside, SavedIsSound, RenewalUnsaved,
         UpsertDue, Visible, PendingIsNew, Pending
<1>6. SavedIsSound'
  <2> SUFFICES ASSUME NEW a \in Accounts \ mislaid
               PROVE  /\ RenewalUnsaved(a)' \/ Visible(a) \notin retired[a]
                      /\ a \in existing' \cup stranded \/ UpsertDue(a)'
                         \/ (disk[a] = 0 /\ dirty[a] = 0)
    BY DEF SavedIsSound, Visible
  <2>1. (RenewalUnsaved(a) => RenewalUnsaved(a)') /\ (UpsertDue(a) => UpsertDue(a)')
    BY DEF RenewalUnsaved, UpsertDue
  <2>2. a \notin existing' \cup stranded => a \notin existing \/ (disk[a] = 0 /\ dirty[a] = 0)
    BY DEF OpsCarry
  <2> QED BY <2>1, <2>2 DEF SavedIsSound
<1>7. CacheIsCurrent'
  BY DEF CacheIsCurrent
<1> QED BY <1>2, <1>3, <1>4, <1>5, <1>6, <1>7

(* A connection saves a sign-in that is new.                              *)
LEMMA ConnectSaveKeeps ==
  ASSUME TypeOK, LockInv, SecretInv, NEW o \in Ops, ConnectSave(o)
  PROVE  SecretInv'
<1> DEFINE x == target[o]  t == token[o]
<1> USE DEF SecretInv
<1>1. /\ x \in Accounts /\ t \in Tokens /\ t \in 1 .. issued[x]
      /\ o \in Procs /\ Inside(o) /\ Pending(o) /\ pc[o] = "held"
  BY DEF TypeOK, TokensAreIssued, Tokens, ConnectSave, Pending, PendingIsNew, Inside, Procs
<1>2. \A q \in Procs : Inside(q) /\ target[q] = x => q = o
  BY <1>1, InsideAlone
<1>3. /\ OnlyAt(x)
      /\ disk'[x] \in {disk[x], t} /\ dirty'[x] \in {0, t} /\ old'[x] \in {0, old[x]}
      /\ old'[x] # 0 => old[x] = t
      /\ dirty'[x] = 0 \/ old'[x] = 0
      /\ stored'[x] \subseteq stored[x] \cup {t}
      /\ Visible(x)' = t
  BY <1>1, SaveEffect DEF ConnectSave
<1>4. /\ token' = [token EXCEPT ![o] = Visible(x)]
      /\ \A q \in Procs : q # o => token'[q] = token[q] /\ pc'[q] = pc[q]
      /\ token'[o] = Visible(x) /\ pc'[o] \in {"saved", "release"}
      /\ UNCHANGED <<existing, issued, retired, mislaid, target, kind, task>>
      /\ stranded \subseteq stranded'
      /\ pc'[o] = "saved" \/ x \in existing \cup stranded'
      /\ pc'[o] = "saved" => SaveStored(x, t)
  BY <1>1 DEF ConnectSave, Goto, TypeOK, Procs
<1>5. \A a \in Accounts : issued[a] \in Nat
  BY BoundsAssumption DEF TypeOK, Tokens
<1>6. /\ x \notin mislaid => Visible(x) \notin retired[x]
      /\ Visible(x) # 0 => x \in existing \cup stranded \cup mislaid
      /\ Visible(x) \in {disk[x], dirty[x], old[x]}
  <2>1. Visible(x) \in {disk[x], dirty[x], old[x]}
    BY DEF Visible
  <2>2. x \notin mislaid => old[x] = 0
    BY <1>1 DEF CacheIsCurrent
  <2>3. CASE x \notin mislaid
    <3>1. /\ Visible(x) \notin retired[x]
          /\ x \in existing \cup stranded \/ (disk[x] = 0 /\ dirty[x] = 0)
      BY <1>1, <2>3, FoundWorks, ProcsAssumption
    <3> QED BY <2>1, <2>2, <2>3, <3>1
  <2> QED BY <2>1, <2>3
<1> HIDE DEF x, t
<1>7. t \notin {disk[x], dirty[x], old[x]} \cup stored[x] \cup retired[x]
  BY <1>1 DEF PendingIsNew, x, t
<1>8. TokensAreIssued'
  <2>1. \A q \in Procs : token'[q] <= issued[target[q]]
    BY <1>1, <1>4, <1>5, <1>6 DEF TokensAreIssued, x
  <2>2. ASSUME NEW a \in Accounts
        PROVE  /\ stored'[a] \subseteq 1 .. issued[a]
               /\ disk'[a] <= issued[a] /\ dirty'[a] <= issued[a] /\ old'[a] <= issued[a]
    <3>1. CASE a = x
      BY <1>1, <1>3, <1>5, <3>1 DEF TokensAreIssued
    <3>2. CASE a # x
      BY <1>3, <3>2 DEF TokensAreIssued, OnlyAt
    <3> QED BY <3>1, <3>2
  <2> QED BY <1>4, <2>1, <2>2 DEF TokensAreIssued
<1>9. TasksCarry'
  <2>1. \A c \in Calls : token'[c] = token[c]
    BY <1>4, ProcsAssumption DEF Procs
  <2>2. \A c \in Calls : Alive(c)' <=> Alive(c)
    BY <1>4 DEF Alive
  <2> QED BY <1>4, <2>1, <2>2 DEF TasksCarry
<1>10. PendingIsNew'
  <2> SUFFICES ASSUME NEW q \in Ops, Pending(q)'
               PROVE  /\ token'[q] \notin {0, disk'[target[q]], dirty'[target[q]], old'[target[q]]}
                                          \cup stored'[target[q]] \cup retired[target[q]]
                      /\ \A r \in Procs \ {q} : target[r] = target[q] => token'[r] # token'[q]
    BY <1>4 DEF PendingIsNew
  <2>1. q # o /\ q \in Procs
    BY <1>4 DEF Pending, Procs
  <2>2. Pending(q) /\ target[q] \in Accounts /\ token'[q] = token[q]
    BY <1>4, <2>1 DEF Pending, TypeOK
  <2>3. CASE target[q] = x
    <3>1. token[q] # t /\ token[q] # Visible(x)
      BY <1>1, <1>6, <2>1, <2>2, <2>3 DEF PendingIsNew, x, t
    <3>2. token[q] \notin {0, disk'[x], dirty'[x], old'[x]} \cup stored'[x] \cup retired[x]
      BY <1>3, <2>2, <2>3, <3>1 DEF PendingIsNew
    <3> QED BY <1>4, <2>2, <2>3, <3>1, <3>2 DEF PendingIsNew
  <2>4. CASE target[q] # x
    <3>1. \A r \in Procs \ {q} : target[r] = target[q] => r # o
      BY <2>4 DEF x
    <3> QED BY <1>3, <1>4, <2>2, <2>4, <3>1 DEF PendingIsNew, OnlyAt
  <2> QED BY <2>3, <2>4
<1>11. OpsCarry'
  <2> SUFFICES ASSUME NEW q \in Ops
               PROVE  /\ pc'[q] \in {"saved", "edited"} /\ token'[q] \in retired[target[q]] =>
                           target[q] \in mislaid
                      /\ pc'[q] = "edited" => token'[q] # 0
                      /\ pc'[q] \in {"saved", "edited"} /\ token'[q] # 0 =>
                           target[q] \in existing \cup stranded' \cup mislaid
                      /\ pc'[q] = "saved" => disk'[target[q]] \notin retired[target[q]]
                      /\ pc'[q] = "deleted" =>
                           target[q] \in mislaid \/ (disk'[target[q]] = 0 /\ dirty'[target[q]] = 0)
    BY <1>4 DEF OpsCarry
  <2>1. CASE q = o
    <3>1. pc'[o] = "saved" => disk'[x] = t
      BY <1>1, <1>4, <1>7 DEF SaveStored, TypeOK, x
    <3> QED BY <1>4, <1>6, <1>7, <2>1, <3>1 DEF x
  <2>2. CASE q # o
    <3>1. q \in Procs /\ pc'[q] = pc[q] /\ token'[q] = token[q]
      BY <1>4, <2>2 DEF Procs
    <3>2. CASE pc[q] \in {"saved", "edited", "deleted"}
      <4>1. target[q] \in Accounts \ {x}
        BY <1>2, <2>2, <3>1, <3>2 DEF Inside, TypeOK
      <4> QED BY <1>3, <1>4, <3>1, <4>1 DEF OpsCarry, OnlyAt
    <3>3. CASE pc[q] \notin {"saved", "edited", "deleted"}
      BY <3>1, <3>3
    <3> QED BY <3>2, <3>3
  <2> QED BY <2>1, <2>2
<1>12. SavedIsSound'
  <2> SUFFICES ASSUME NEW a \in Accounts \ mislaid
               PROVE  /\ \/ RenewalUnsaved(a)'
                         \/ Visible(a)' \notin retired[a]
                      /\ \/ a \in existing \cup stranded' \/ UpsertDue(a)'
                         \/ disk'[a] = 0 /\ dirty'[a] = 0
    BY <1>4 DEF SavedIsSound
  <2>1. CASE a = x
    <3>1. a \in existing \cup stranded' \/ UpsertDue(a)'
      BY <1>4, <2>1 DEF UpsertDue, x
    <3>2. Visible(a)' = t
      BY <1>3, <1>4, <2>1 DEF x
    <3> QED BY <1>7, <2>1, <3>1, <3>2
  <2>2. CASE a # x
    <3>1. disk'[a] = disk[a] /\ dirty'[a] = dirty[a] /\ old'[a] = old[a]
      BY <1>3, <2>2 DEF OnlyAt
    <3>2. \A q \in Ops : target[q] = a => q # o /\ pc'[q] = pc[q]
      BY <1>4, <2>2 DEF x, Procs
    <3>3. (RenewalUnsaved(a) => RenewalUnsaved(a)') /\ (UpsertDue(a) => UpsertDue(a)')
      BY <1>4, <3>2 DEF RenewalUnsaved, UpsertDue
    <3> QED BY <1>4, <3>1, <3>3 DEF SavedIsSound, Visible
  <2> QED BY <2>1, <2>2
<1>13. CacheIsCurrent'
  <2> SUFFICES ASSUME NEW a \in Accounts
               PROVE  (dirty'[a] = 0 \/ old'[a] = 0) /\ (a \in mislaid \/ old'[a] = 0)
    BY <1>4 DEF CacheIsCurrent
  <2>1. CASE a = x
    BY <1>3, <2>1 DEF CacheIsCurrent
  <2>2. CASE a # x
    BY <1>3, <2>2 DEF CacheIsCurrent, OnlyAt
  <2> QED BY <2>1, <2>2
<1> QED BY <1>8, <1>9, <1>10, <1>11, <1>12, <1>13

(* The account of the saved sign-in is recorded, or it is still due.      *)
LEMMA ConnectUpsertKeeps ==
  ASSUME TypeOK, LockInv, SecretInv, NEW o \in Ops, ConnectUpsert(o)
  PROVE  SecretInv'
<1> USE ProcsAssumption, BoundsAssumption
        DEF TypeOK, SecretInv, ConnectUpsert, secrets, Goto, Procs, Alive,
            Tokens
<1>1. \A q \in Procs : Inside(o) /\ Inside(q) /\ target[q] = target[o] => q = o
  BY InsideAlone
<1>2. TokensAreIssued'
  BY <1>1 DEF TokensAreIssued, Visible
<1>3. TasksCarry'
  BY <1>1 DEF TasksCarry, TokensAreIssued, Inside, PendingIsNew, Pending
<1>4. PendingIsNew'
  BY <1>1 DEF PendingIsNew, Pending, TokensAreIssued, OpsCarry, Inside, Visible
<1>5. OpsCarry'
  BY <1>1
     DEF OpsCarry, TokensAreIssued, Inside, SavedIsSound, RenewalUnsaved,
         UpsertDue, Visible, PendingIsNew, Pending
<1>6. SavedIsSound'
  BY <1>1
     DEF SavedIsSound, RenewalUnsaved, UpsertDue, Visible, OpsCarry,
         PendingIsNew, Pending, TokensAreIssued, Inside
<1>7. CacheIsCurrent'
  BY DEF CacheIsCurrent
<1> QED BY <1>2, <1>3, <1>4, <1>5, <1>6, <1>7

(* A connection that could not record its account takes its sign-in back. *)
LEMMA ConnectRollbackKeeps ==
  ASSUME TypeOK, LockInv, SecretInv, NEW o \in Ops, ConnectRollback(o)
  PROVE  SecretInv'
<1>1. /\ o \in Procs /\ Inside(o) /\ pc[o] = "saved" /\ pc'[o] = "release"
      /\ \A q \in Ops \ {o} : pc'[q] = pc[q]
      /\ UNCHANGED <<existing, issued, retired, target, token, task, kind>>
  BY DEF ConnectRollback, Goto, TypeOK, Procs, Inside
<1>2. CASE /\ token[o] # 0
           /\ SaveStored(target[o], token[o]) \/ SaveKeptInCache(target[o], token[o])
           /\ UNCHANGED <<stranded, mislaid>>
  <2>1. /\ token[o] \in retired[target[o]] => target[o] \in mislaid
        /\ target[o] \in existing \cup stranded \cup mislaid
    BY <1>1, <1>2 DEF SecretInv, OpsCarry
  <2>2. \A d \in Calls : (Alive(d)' <=> Alive(d)) /\ (d # o => task'[d] = task[d])
    BY <1>1 DEF Alive
  <2> QED BY <1>1, <1>2, <2>1, <2>2, SaveKeeps
<1>3. CASE DeleteSecret(target[o]) /\ UNCHANGED <<stranded, mislaid>>
  BY <1>1, <1>3, DeleteKeeps
<1>4. CASE stranded' = stranded \cup {target[o]} /\ DeleteFails(target[o])
  BY <1>1, <1>4, DeleteKeeps
<1> QED BY <1>2, <1>3, <1>4 DEF ConnectRollback

(* An edit starts from the saved sign-in, which works.                    *)
LEMMA EditLoadKeeps ==
  ASSUME TypeOK, LockInv, SecretInv, NEW o \in Ops, EditLoad(o)
  PROVE  SecretInv'
<1> USE ProcsAssumption, BoundsAssumption
        DEF TypeOK, SecretInv, EditLoad, secrets, store, Goto, Procs, Alive,
            Tokens
<1>1. \A q \in Procs : Inside(o) /\ Inside(q) /\ target[q] = target[o] => q = o
  BY InsideAlone
<1>2. TokensAreIssued'
  BY <1>1 DEF TokensAreIssued, Visible
<1>3. TasksCarry'
  BY <1>1 DEF TasksCarry, TokensAreIssued, Inside, PendingIsNew, Pending
<1>4. PendingIsNew'
  BY <1>1 DEF PendingIsNew, Pending, TokensAreIssued, OpsCarry, Inside, Visible
<1>5. OpsCarry'
  <2> DEFINE x == target[o]
  <2>1. Inside(o) /\ o \in Procs /\ x \in Accounts
    BY DEF Inside
  <2>2. x \notin mislaid => /\ Visible(x) \notin retired[x]
                            /\ x \in existing \cup stranded \/ (disk[x] = 0 /\ dirty[x] = 0)
    BY <2>1, FoundWorks
  <2>3. x \notin mislaid /\ Visible(x) # 0 => x \in existing \cup stranded
    BY <2>1, <2>2 DEF CacheIsCurrent, Visible
  <2>4. /\ token'[o] = Visible(x) /\ pc'[o] \in {"edited", "release"}
        /\ pc'[o] = "edited" => Visible(x) # 0
    OBVIOUS
  <2> HIDE DEF x
  <2>5. ASSUME NEW q \in Ops, q # o
        PROVE  pc'[q] = pc[q] /\ token'[q] = token[q]
    BY <2>5
  <2> QED BY <2>2, <2>3, <2>4, <2>5 DEF OpsCarry, x
<1>6. SavedIsSound'
  BY <1>1
     DEF SavedIsSound, RenewalUnsaved, UpsertDue, Visible, OpsCarry,
         PendingIsNew, Pending, TokensAreIssued, Inside
<1>7. CacheIsCurrent'
  BY DEF CacheIsCurrent
<1> QED BY <1>2, <1>3, <1>4, <1>5, <1>6, <1>7

(* An edit may renew the sign-in it loaded.                               *)
LEMMA EditExchangeKeeps ==
  ASSUME TypeOK, LockInv, SecretInv, NEW o \in Ops, EditExchange(o)
  PROVE  SecretInv'
<1> USE ProcsAssumption, BoundsAssumption
        DEF TypeOK, SecretInv, EditExchange, Exchange, store, Procs, Alive,
            Tokens
<1>1. \A q \in Procs : Inside(o) /\ Inside(q) /\ target[q] = target[o] => q = o
  BY InsideAlone
<1>2. TokensAreIssued'
  <2> DEFINE a == target[o]
  <2>1. a \in Accounts /\ token[o] \in 1 .. issued[a] /\ issued'[a] = issued[a] + 1
    BY DEF TokensAreIssued, OpsCarry
  <2>2. \A x \in Accounts : issued[x] \in Nat /\ issued'[x] \in Nat /\ issued[x] <= issued'[x]
    BY <2>1
  <2>3. \A x \in Accounts : retired'[x] \subseteq 1 .. issued'[x]
    BY <2>1, <2>2 DEF TokensAreIssued
  <2> QED BY <2>1, <2>2, <2>3 DEF TokensAreIssued
<1>3. TasksCarry'
  BY <1>1 DEF TasksCarry, TokensAreIssued, Inside, PendingIsNew, Pending
<1>4. PendingIsNew'
  BY <1>1 DEF PendingIsNew, Pending, TokensAreIssued, OpsCarry, Inside, Visible
<1>5. OpsCarry'
  BY <1>1
     DEF OpsCarry, TokensAreIssued, Inside, SavedIsSound, RenewalUnsaved,
         UpsertDue, Visible, PendingIsNew, Pending
<1>6. SavedIsSound'
  BY <1>1
     DEF SavedIsSound, RenewalUnsaved, UpsertDue, Visible, OpsCarry,
         PendingIsNew, Pending, TokensAreIssued, Inside
<1>7. CacheIsCurrent'
  BY DEF CacheIsCurrent
<1> QED BY <1>2, <1>3, <1>4, <1>5, <1>6, <1>7

(* An edit may get a sign-in of a new grant.                              *)
LEMMA EditGrantKeeps ==
  ASSUME TypeOK, LockInv, SecretInv, NEW o \in Ops, EditGrant(o)
  PROVE  SecretInv'
<1> USE ProcsAssumption, BoundsAssumption
        DEF TypeOK, SecretInv, EditGrant, Procs, Alive, Tokens
<1>1. \A q \in Procs : Inside(o) /\ Inside(q) /\ target[q] = target[o] => q = o
  BY InsideAlone
<1>2. TokensAreIssued'
  BY <1>1 DEF TokensAreIssued, Visible
<1>3. TasksCarry'
  BY <1>1 DEF TasksCarry, TokensAreIssued, Inside, PendingIsNew, Pending
<1>4. PendingIsNew'
  BY <1>1 DEF PendingIsNew, Pending, TokensAreIssued, OpsCarry, Inside, Visible
<1>5. OpsCarry'
  BY <1>1
     DEF OpsCarry, TokensAreIssued, Inside, SavedIsSound, RenewalUnsaved,
         UpsertDue, Visible, PendingIsNew, Pending
<1>6. SavedIsSound'
  BY <1>1
     DEF SavedIsSound, RenewalUnsaved, UpsertDue, Visible, OpsCarry,
         PendingIsNew, Pending, TokensAreIssued, Inside
<1>7. CacheIsCurrent'
  BY DEF CacheIsCurrent
<1> QED BY <1>2, <1>3, <1>4, <1>5, <1>6, <1>7

(* An edit saves what it has.                                             *)
LEMMA EditSaveKeeps ==
  ASSUME TypeOK, LockInv, SecretInv, NEW o \in Ops, EditSave(o)
  PROVE  SecretInv'
<1>1. /\ o \in Procs /\ Inside(o) /\ token[o] # 0 /\ pc[o] = "edited"
      /\ target[o] \in existing \cup stranded \cup mislaid
      /\ token[o] \in retired[target[o]] => target[o] \in mislaid
  BY DEF EditSave, SecretInv, OpsCarry, Inside, Procs
<1>2. /\ pc'[o] = "release"
      /\ \A q \in Ops \ {o} : pc'[q] = pc[q] /\ kind'[q] = kind[q]
  BY DEF EditSave, Goto, TypeOK, Procs
<1>3. UNCHANGED <<existing, stranded, issued, retired, target, token, task>>
  BY DEF EditSave, store
<1>4. /\ SaveStored(target[o], token[o]) \/ SaveKeptInCache(target[o], token[o])
      /\ Found(target[o], token[o])
  BY DEF EditSave
<1>5. \A d \in Calls : (Alive(d)' <=> Alive(d)) /\ (d # o => task'[d] = task[d])
  BY <1>3 DEF Alive
<1> QED BY <1>1, <1>2, <1>3, <1>4, <1>5, SaveKeeps, ProcsAssumption

(* An operation lets go of the account.                                   *)
LEMMA OpReleaseKeeps ==
  ASSUME TypeOK, LockInv, SecretInv, NEW o \in Ops, OpRelease(o)
  PROVE  SecretInv'
<1> USE ProcsAssumption, BoundsAssumption
        DEF TypeOK, SecretInv, OpRelease, secrets, store, Goto, Procs, Alive,
            Tokens
<1>1. \A q \in Procs : Inside(o) /\ Inside(q) /\ target[q] = target[o] => q = o
  BY InsideAlone
<1>2. TokensAreIssued'
  BY <1>1 DEF TokensAreIssued, Visible
<1>3. TasksCarry'
  BY <1>1 DEF TasksCarry, TokensAreIssued, Inside, PendingIsNew, Pending
<1>4. PendingIsNew'
  BY <1>1 DEF PendingIsNew, Pending, TokensAreIssued, OpsCarry, Inside, Visible
<1>5. OpsCarry'
  BY <1>1
     DEF OpsCarry, TokensAreIssued, Inside, SavedIsSound, RenewalUnsaved,
         UpsertDue, Visible, PendingIsNew, Pending
<1>6. SavedIsSound'
  BY <1>1
     DEF SavedIsSound, RenewalUnsaved, UpsertDue, Visible, OpsCarry,
         PendingIsNew, Pending, TokensAreIssued, Inside
<1>7. CacheIsCurrent'
  BY DEF CacheIsCurrent
<1> QED BY <1>2, <1>3, <1>4, <1>5, <1>6, <1>7

(* A load outside the lock may mislay its account's sign-in, and no other's. *)
LEMMA RememberReadKeeps ==
  ASSUME TypeOK, LockInv, SecretInv, NEW x \in Accounts, NEW t \in Tokens, RememberRead(x, t)
  PROVE  SecretInv'
<1> USE DEF SecretInv
<1>1. /\ \A a \in Accounts \ {x} : dirty'[a] = dirty[a] /\ old'[a] = old[a]
      /\ dirty'[x] = 0 /\ old'[x] \in {0, t} /\ t \in stored[x]
      /\ old'[x] # 0 => x \in mislaid'
      /\ mislaid' \in {mislaid, mislaid \cup {x}}
      /\ x \notin mislaid' => dirty[x] = 0
  BY DEF RememberRead, TypeOK
<1>2. UNCHANGED <<existing, stranded, disk, stored, issued, retired, target, token, kind, pc, task>>
  BY DEF RememberRead, store, local
<1>3. \A c \in Calls : Alive(c)' <=> Alive(c)
  BY <1>2 DEF Alive
<1>4. TokensAreIssued'
  <2>1. \A a \in Accounts : issued[a] \in Nat
    BY BoundsAssumption DEF TypeOK, Tokens
  <2>2. ASSUME NEW a \in Accounts
        PROVE  dirty'[a] <= issued[a] /\ old'[a] <= issued[a]
    <3>1. CASE a = x
      BY <1>1, <2>1, <3>1 DEF TokensAreIssued
    <3>2. CASE a # x
      BY <1>1, <3>2 DEF TokensAreIssued
    <3> QED BY <3>1, <3>2
  <2> QED BY <1>2, <2>2 DEF TokensAreIssued
<1>5. TasksCarry'
  BY <1>1, <1>2, <1>3 DEF TasksCarry
<1>6. PendingIsNew'
  <2>1. ASSUME NEW o \in Ops, Pending(o)
        PROVE  token[o] \notin {0, disk[target[o]], dirty'[target[o]], old'[target[o]]}
                               \cup stored[target[o]] \cup retired[target[o]]
    <3>1. target[o] \in Accounts
      BY DEF TypeOK, Procs
    <3>2. CASE target[o] = x
      BY <1>1, <2>1, <3>2 DEF PendingIsNew
    <3>3. CASE target[o] # x
      BY <1>1, <2>1, <3>1, <3>3 DEF PendingIsNew
    <3> QED BY <3>2, <3>3
  <2>2. \A o \in Ops : Pending(o)' <=> Pending(o)
    BY <1>2 DEF Pending
  <2> QED BY <1>2, <2>1, <2>2 DEF PendingIsNew
<1>7. OpsCarry'
  <2>1. ASSUME NEW o \in Ops
        PROVE  dirty[target[o]] = 0 => dirty'[target[o]] = 0
    BY <1>1 DEF TypeOK, Procs
  <2> QED BY <1>1, <1>2, <2>1 DEF OpsCarry
<1>8. SavedIsSound'
  <2>1. ASSUME NEW a \in Accounts \ mislaid'
        PROVE  a \notin mislaid /\ dirty'[a] = dirty[a] /\ old'[a] = old[a]
    BY <1>1, <2>1 DEF CacheIsCurrent
  <2>2. \A a \in Accounts : /\ RenewalUnsaved(a)' <=> RenewalUnsaved(a)
                            /\ UpsertDue(a)' <=> UpsertDue(a)
    BY <1>2 DEF RenewalUnsaved, UpsertDue
  <2> QED BY <1>2, <2>1, <2>2 DEF SavedIsSound, Visible
<1>9. CacheIsCurrent'
  BY <1>1 DEF CacheIsCurrent
<1> QED BY <1>4, <1>5, <1>6, <1>7, <1>8, <1>9

(* An entry that expires lets the store's sign-in be seen again.           *)
LEMMA CacheExpiresKeeps ==
  ASSUME TypeOK, LockInv, SecretInv, NEW x \in Accounts, CacheExpires(x)
  PROVE  SecretInv'
<1> USE DEF SecretInv
<1>1. /\ \A a \in Accounts \ {x} : old'[a] = old[a]
      /\ old'[x] = 0 /\ old[x] # 0
  BY DEF CacheExpires, TypeOK
<1>2. UNCHANGED <<existing, stranded, disk, dirty, stored, issued, retired, mislaid, target, token,
                  kind, pc, task>>
  BY DEF CacheExpires, store, local
<1>3. \A c \in Calls : Alive(c)' <=> Alive(c)
  BY <1>2 DEF Alive
<1>4. TokensAreIssued'
  <2>1. ASSUME NEW a \in Accounts
        PROVE  old'[a] <= issued[a]
    <3>1. issued[a] \in Nat
      BY BoundsAssumption DEF TypeOK, Tokens
    <3> QED BY <1>1, <3>1 DEF TokensAreIssued
  <2> QED BY <1>2, <2>1 DEF TokensAreIssued
<1>5. TasksCarry'
  BY <1>2, <1>3 DEF TasksCarry
<1>6. PendingIsNew'
  <2>1. ASSUME NEW o \in Ops, Pending(o)
        PROVE  token[o] # old'[target[o]]
    BY <1>1, <2>1 DEF PendingIsNew, TypeOK, Procs
  <2>2. \A o \in Ops : Pending(o)' <=> Pending(o)
    BY <1>2 DEF Pending
  <2> QED BY <1>2, <2>1, <2>2 DEF PendingIsNew
<1>7. OpsCarry'
  BY <1>2 DEF OpsCarry
<1>8. SavedIsSound'
  <2>1. \A a \in Accounts \ mislaid : old'[a] = old[a]
    BY <1>1 DEF CacheIsCurrent
  <2>2. \A a \in Accounts : /\ RenewalUnsaved(a)' <=> RenewalUnsaved(a)
                            /\ UpsertDue(a)' <=> UpsertDue(a)
    BY <1>2 DEF RenewalUnsaved, UpsertDue
  <2> QED BY <1>2, <2>1, <2>2 DEF SavedIsSound, Visible
<1>9. CacheIsCurrent'
  BY <1>1, <1>2 DEF CacheIsCurrent
<1> QED BY <1>4, <1>5, <1>6, <1>7, <1>8, <1>9

(* The sign-ins stay sound.                                               *)
LEMMA SecretsStep == TypeOK /\ LockInv /\ SecretInv /\ [Next]_vars => SecretInv'
<1> SUFFICES ASSUME TypeOK, LockInv, SecretInv, [Next]_vars
             PROVE  SecretInv'
  OBVIOUS
<1> USE ProcsAssumption, BoundsAssumption
<1>1. ASSUME NEW c \in Calls, NEW a \in Accounts, Join(c, a) \/ Lead(c, a)
      PROVE  SecretInv'
  BY <1>1, CallIsRetargeted
<1>2. ASSUME NEW c \in Calls, AcquirePermit(c)
      PROVE  SecretInv'
  BY <1>2, QuietStep
     DEF AcquirePermit, Goto, store, local, Alive, Pending, TypeOK, Procs
<1>3. ASSUME NEW c \in Calls, AcquireLock(c)
      PROVE  SecretInv'
  BY <1>3, QuietStep
     DEF AcquireLock, TakeLock, Goto, store, local, Alive, Pending, TypeOK,
         Procs
<1>4. ASSUME NEW c \in Calls, AccountMissing(c)
      PROVE  SecretInv'
  BY <1>4, QuietStep
     DEF AccountMissing, Goto, store, local, Alive, Pending, TypeOK, Procs
<1>5. ASSUME NEW c \in Calls, SignInUnusable(c)
      PROVE  SecretInv'
  BY <1>5, QuietStep
     DEF SignInUnusable, Goto, store, local, Alive, Pending, TypeOK, Procs
<1>6. ASSUME NEW c \in Calls, SpawnTask(c)
      PROVE  SecretInv'
  BY <1>6, SpawnTaskKeeps
<1>7. ASSUME NEW c \in Calls, TaskExchange(c)
      PROVE  SecretInv'
  BY <1>7, TaskExchangeKeeps
<1>8. ASSUME NEW c \in Calls, TaskSaveRefreshed(c)
      PROVE  SecretInv'
  BY <1>8, TaskSaveRefreshedKeeps
<1>9. ASSUME NEW c \in Calls, TaskAnswer(c)
      PROVE  SecretInv'
  BY <1>9, QuietStep
     DEF TaskAnswer, Goto, store, local, Alive, Pending, TypeOK, Procs
<1>10. ASSUME NEW c \in Calls, TaskSave(c)
      PROVE  SecretInv'
  BY <1>10, TaskSaveKeeps
<1>11. ASSUME NEW c \in Calls, TaskPanic(c)
      PROVE  SecretInv'
  BY <1>11, TaskPanicKeeps
<1>12. ASSUME NEW c \in Calls, TaskDropped(c)
      PROVE  SecretInv'
  BY <1>12, TaskDroppedKeeps
<1>13. ASSUME NEW c \in Calls, TaskReturned(c)
      PROVE  SecretInv'
  BY <1>13, TaskReturnedKeeps
<1>14. ASSUME NEW c \in Calls, StopWaiting(c)
      PROVE  SecretInv'
  BY <1>14, QuietStep
     DEF StopWaiting, Goto, store, local, Alive, Pending, TypeOK, Procs
<1>15. ASSUME NEW c \in Calls, Finish(c)
      PROVE  SecretInv'
  BY <1>15, QuietStep
     DEF Finish, WakeJoined, Goto, store, local, Alive, Pending, TypeOK, Procs
<1>16. ASSUME NEW c \in Calls, Release(c)
      PROVE  SecretInv'
  BY <1>16, QuietStep
     DEF Release, Goto, store, local, Alive, Pending, TypeOK, Procs
<1>17. ASSUME NEW c \in Calls, Abandon(c)
      PROVE  SecretInv'
  BY <1>17, QuietStep
     DEF Abandon, Goto, store, local, Alive, Pending, TypeOK, Procs
<1>18. ASSUME NEW c \in Calls, DropInFlight(c)
      PROVE  SecretInv'
  BY <1>18, QuietStep
     DEF DropInFlight, WakeJoined, Goto, store, local, Alive, Pending, TypeOK,
         Procs
<1>19. ASSUME NEW o \in Ops, NEW a \in Accounts, NEW k \in Kinds, StartOp(o, a, k)
      PROVE  SecretInv'
  BY <1>19, StartOpKeeps
<1>20. ASSUME NEW o \in Ops, OpLock(o)
      PROVE  SecretInv'
  BY <1>20, QuietStep
     DEF OpLock, TakeLock, Goto, store, local, Alive, Pending, TypeOK, Procs
<1>21. ASSUME NEW o \in Ops, RemoveSecret(o)
      PROVE  SecretInv'
  BY <1>21, RemoveSecretKeeps
<1>22. ASSUME NEW o \in Ops, RemoveMetadata(o)
      PROVE  SecretInv'
  BY <1>22, RemoveMetadataKeeps
<1>23. ASSUME NEW o \in Ops, ConnectSave(o)
      PROVE  SecretInv'
  BY <1>23, ConnectSaveKeeps
<1>24. ASSUME NEW o \in Ops, ConnectUpsert(o)
      PROVE  SecretInv'
  BY <1>24, ConnectUpsertKeeps
<1>25. ASSUME NEW o \in Ops, ConnectRollback(o)
      PROVE  SecretInv'
  BY <1>25, ConnectRollbackKeeps
<1>26. ASSUME NEW o \in Ops, EditLoad(o)
      PROVE  SecretInv'
  BY <1>26, EditLoadKeeps
<1>27. ASSUME NEW o \in Ops, EditExchange(o)
      PROVE  SecretInv'
  BY <1>27, EditExchangeKeeps
<1>28. ASSUME NEW o \in Ops, EditGrant(o)
      PROVE  SecretInv'
  BY <1>28, EditGrantKeeps
<1>29. ASSUME NEW o \in Ops, EditSave(o)
      PROVE  SecretInv'
  BY <1>29, EditSaveKeeps
<1>30. ASSUME NEW o \in Ops, OpRelease(o)
      PROVE  SecretInv'
  BY <1>30, OpReleaseKeeps
<1>31. ASSUME NEW o \in Ops, ForgetLock(o)
      PROVE  SecretInv'
  BY <1>31, QuietStep
     DEF ForgetLock, Goto, store, local, Alive, Pending, TypeOK, Procs
<1>32. ASSUME NEW a \in Accounts, NEW t \in Tokens, RememberRead(a, t)
      PROVE  SecretInv'
  BY <1>32, RememberReadKeeps
<1>33. ASSUME NEW a \in Accounts, CacheExpires(a)
      PROVE  SecretInv'
  BY <1>33, CacheExpiresKeeps
<1>34. CASE UNCHANGED vars
  BY <1>34, QuietStep
     DEF vars, Goto, store, local, Alive, Pending, TypeOK, Procs
<1> QED
  BY <1>1, <1>2, <1>3, <1>4, <1>5, <1>6, <1>7, <1>8, <1>9, <1>10, <1>11, <1>12,
     <1>13, <1>14, <1>15, <1>16, <1>17, <1>18, <1>19, <1>20, <1>21, <1>22, <1>23, <1>24,
     <1>25, <1>26, <1>27, <1>28, <1>29, <1>30, <1>31, <1>32, <1>33, <1>34
     DEF Next, Request, Enter, Work, Leave, Operate

(* The inductive invariant about sign-ins holds from the start on.         *)
THEOREM SecretsAreSound == Spec => []SecretInv
<1>1. Init => SecretInv
  <2> SUFFICES ASSUME Init PROVE SecretInv
    OBVIOUS
  <2> USE ProcsAssumption DEF Init, SecretInv, Procs, Alive
  <2>1. TokensAreIssued
    BY DEF TokensAreIssued
  <2>2. TasksCarry /\ PendingIsNew /\ OpsCarry
    BY DEF TasksCarry, PendingIsNew, Pending, OpsCarry
  <2>3. SavedIsSound /\ CacheIsCurrent
    BY DEF SavedIsSound, CacheIsCurrent, Visible
  <2> QED BY <2>1, <2>2, <2>3
<1>2. QED
  BY <1>1, SecretsStep, TypeCorrect, LocksAgree, PTL DEF Spec

(* No refresh token that was exchanged for a newer one is presented again. *)
THEOREM RetiredIsNotPresented == Spec => []NoRetiredTokenPresented
<1>1. SecretInv => NoRetiredTokenPresented
  BY DEF SecretInv, TasksCarry, OpsCarry, Alive, NoRetiredTokenPresented
<1>2. QED
  BY <1>1, SecretsAreSound, PTL

(* A saved sign-in that nobody is at work on is one that still works.      *)
THEOREM SavedWorks == Spec => []SavedTokenUsable
<1>1. LockInv /\ SecretInv => SavedTokenUsable
  <2> SUFFICES ASSUME LockInv, SecretInv, NEW a \in Accounts \ mislaid,
                      \A p \in Procs : ~ (Holding(p) /\ target[p] = a)
               PROVE  /\ Visible(a) \notin retired[a]
                      /\ dirty[a] = 0 => disk[a] \notin retired[a]
    BY DEF SavedTokenUsable
  <2>1. ~RenewalUnsaved(a)
    BY InsideHolds DEF RenewalUnsaved, Inside, Alive, Procs
  <2>2. old[a] = 0
    BY DEF SecretInv, CacheIsCurrent
  <2> QED BY <2>1, <2>2 DEF SecretInv, SavedIsSound, Visible
<1>2. QED
  BY <1>1, SecretsAreSound, LocksAgree, PTL

(* A removed account has no sign-in left in the credential store.          *)
THEOREM RemovedLeavesNoSecret == Spec => []NoOrphanSecret
<1>1. LockInv /\ SecretInv => NoOrphanSecret
  <2> SUFFICES ASSUME LockInv, SecretInv, NEW a \in Accounts,
                      a \notin existing \cup stranded \cup mislaid,
                      \A p \in Procs : ~ (Holding(p) /\ target[p] = a)
               PROVE  disk[a] = 0 /\ dirty[a] = 0
    BY DEF NoOrphanSecret
  <2>1. ~UpsertDue(a)
    BY InsideHolds DEF UpsertDue, Inside, Procs
  <2> QED BY <2>1 DEF SecretInv, SavedIsSound
<1>2. QED
  BY <1>1, SecretsAreSound, LocksAgree, PTL

=============================================================================
