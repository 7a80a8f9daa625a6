--------------------------- MODULE LocalApiProofs ---------------------------
(***************************************************************************)
(* What holds of the accounts on disk (AppData) in every instance: the     *)
(* account list and its file, the look-up a new account comes from, and    *)
(* what a restart loads, and that a removal leaves nothing in any of the   *)
(* stores; and of the local API that serves them: types, the wake-up that  *)
(* is never lost, and the rate bound, for every burst, cost, time to live  *)
(* and number of requests.                                                 *)
(***************************************************************************)
EXTENDS LocalApi, AppData, Sequences, WellFoundedInduction, TLAPS

-----------------------------------------------------------------------------
(* The accounts on disk, for any people, workers, groups and bounds.         *)

Accounts == Seq(Account)

(* A set of numbers that is not empty has a least one. *)
LEMMA LeastNumber ==
  ASSUME NEW S \in SUBSET Nat, S # {}
  PROVE  \E m \in S : \A k \in S : m <= k
<1>1. PICK R : IsWellFoundedOn(R, Nat) /\ \A x, y \in Nat : x < y => <<x, y>> \in R
  <2> DEFINE R == OpToRel(<, Nat)
  <2>1. IsWellFoundedOn(R, Nat)
    BY NatLessThanWellFounded
  <2>2. \A x, y \in Nat : x < y => <<x, y>> \in R
    BY DEF OpToRel
  <2> HIDE DEF R
  <2> QED BY <2>1, <2>2
<1>2. PICK m \in S : \A k \in S : ~(<<k, m>> \in R)
  <2>1. S \subseteq Nat /\ S # {}
    OBVIOUS
  <2>2. IsWellFoundedOn(R, Nat)
    BY <1>1
  <2> QED BY ONLY <2>1, <2>2, WFMin
<1>3. \A k \in S : ~(k < m)
  BY <1>1, <1>2
<1> QED BY <1>3

(* What Sublist gives is a list of elements at the places named.             *)
LEMMA SublistElements ==
  ASSUME NEW S, NEW list \in Seq(S), NEW places
  PROVE  /\ Sublist(list, places) \in Seq(S)
         /\ \A k \in DOMAIN Sublist(list, places) :
              \E n \in places \cap DOMAIN list : Sublist(list, places)[k] = list[n]
<1> DEFINE L == Len(list)
           Step(n, before) == IF n \in places THEN Append(before, list[n]) ELSE before
           IsTaken(n, g) == g = [k \in 0 .. n |-> IF k = 0 THEN <<>> ELSE Step(k, g[k - 1])]
           Taken[n \in 0 .. L] == IF n = 0 THEN <<>> ELSE Step(n, Taken[n - 1])
           T == {list[n] : n \in places \cap DOMAIN list}
<1>1. L \in Nat /\ DOMAIN list = 1 .. L /\ T \subseteq S
  OBVIOUS
<1>2. Sublist(list, places) = Taken[L]
  BY DEF Sublist
<1> HIDE DEF L, Step, T
<1>3. \A n \in 0 .. L : \E g : IsTaken(n, g)
  <2> DEFINE Bad == {n \in 0 .. L : ~\E g : IsTaken(n, g)}
  <2> SUFFICES ASSUME Bad # {}
               PROVE  FALSE
    OBVIOUS
  <2>1. Bad \in SUBSET Nat
    BY <1>1
  <2>2. PICK b \in Bad : \A k \in Bad : b <= k
    <3> HIDE DEF Bad
    <3> QED BY <2>1, LeastNumber
  <2>3. b \in 0 .. L /\ b \in Nat
    BY <1>1
  <2>4. CASE b = 0
    <3>1. IsTaken(0, [k \in 0 .. 0 |-> <<>>])
      OBVIOUS
    <3> QED BY <2>4, <3>1
  <2>5. CASE b # 0
    <3>1. b - 1 \in 0 .. L /\ b - 1 \notin Bad
      BY <1>1, <2>2, <2>3, <2>5
    <3>2. PICK g : IsTaken(b - 1, g)
      BY <3>1
    <3> DEFINE h == [k \in 0 .. b |-> IF k < b THEN g[k] ELSE Step(b, g[b - 1])]
    <3>3. h = [k \in 0 .. b |-> IF k = 0 THEN <<>> ELSE Step(k, h[k - 1])]
      <4> SUFFICES ASSUME NEW k \in 0 .. b
                   PROVE  h[k] = IF k = 0 THEN <<>> ELSE Step(k, h[k - 1])
        OBVIOUS
      <4>1. CASE k = b
        <5>1. h[k] = Step(b, g[b - 1]) /\ h[k - 1] = g[b - 1]
          BY <2>3, <2>5, <4>1
        <5> QED BY <2>5, <4>1, <5>1
      <4>2. CASE k # b
        <5>1. k < b /\ k \in 0 .. (b - 1) /\ h[k] = g[k]
          BY <2>3, <4>2
        <5>2. k # 0 => k - 1 \in 0 .. b /\ k - 1 < b
          BY <2>3, <4>2
        <5>3. k # 0 => h[k - 1] = g[k - 1]
          BY <5>2
        <5> HIDE DEF h
        <5>4. g[k] = IF k = 0 THEN <<>> ELSE Step(k, g[k - 1])
          BY <3>2, <5>1
        <5> QED BY <5>1, <5>3, <5>4
      <4> QED BY <4>1, <4>2
    <3> HIDE DEF h
    <3>4. IsTaken(b, h)
      BY <3>3
    <3> QED BY <3>4
  <2> QED BY <2>4, <2>5
<1>4. IsTaken(L, Taken)
  <2>1. \E g : IsTaken(L, g)
    BY <1>1, <1>3
  <2> QED BY <2>1
<1>5. \A n \in 0 .. L : Taken[n] \in Seq(T)
  <2> HIDE DEF Taken
  <2> DEFINE Bad == {n \in 0 .. L : Taken[n] \notin Seq(T)}
  <2> SUFFICES ASSUME Bad # {}
               PROVE  FALSE
    OBVIOUS
  <2>1. Bad \in SUBSET Nat
    BY <1>1
  <2>2. PICK b \in Bad : \A k \in Bad : b <= k
    <3> HIDE DEF Bad
    <3> QED BY <2>1, LeastNumber
  <2>3. b \in 0 .. L /\ b \in Nat
    BY <1>1
  <2>4. Taken[b] = IF b = 0 THEN <<>> ELSE Step(b, Taken[b - 1])
    BY <1>4, <2>3
  <2>5. b = 0 => Taken[b] \in Seq(T)
    BY <2>4
  <2>6. ASSUME b # 0
        PROVE  Taken[b] \in Seq(T)
    <3>1. b - 1 \in 0 .. L /\ b - 1 \notin Bad /\ b \in 1 .. L
      BY <1>1, <2>2, <2>3, <2>6
    <3>2. Taken[b - 1] \in Seq(T)
      BY <3>1
    <3>3. b \in places => list[b] \in T
      BY <1>1, <3>1 DEF T
    <3> QED BY <2>4, <2>6, <3>2, <3>3 DEF Step
  <2> QED BY <2>2, <2>5, <2>6
<1>6. Sublist(list, places) \in Seq(T)
  BY <1>1, <1>2, <1>5
<1> HIDE DEF Taken
<1>7. \A k \in DOMAIN Sublist(list, places) : Sublist(list, places)[k] \in T
  BY <1>6
<1>8. Sublist(list, places) \in Seq(S)
  BY <1>1, <1>6
<1> QED BY <1>7, <1>8 DEF T

(* A list without an account is a list of accounts, and without that one.    *)
LEMMA WithoutIsList ==
  ASSUME NEW list \in Accounts, NEW i
  PROVE  /\ Without(list, i) \in Accounts
         /\ IdsOf(Without(list, i)) \subseteq IdsOf(list) \ {i}
<1> DEFINE places == {n \in DOMAIN list : list[n].id # i}
<1>1. Without(list, i) = Sublist(list, places)
  BY DEF Without
<1> HIDE DEF places
<1>2. /\ Sublist(list, places) \in Accounts
      /\ \A k \in DOMAIN Sublist(list, places) :
              \E n \in places \cap DOMAIN list : Sublist(list, places)[k] = list[n]
  BY SublistElements DEF Accounts
<1> QED BY <1>1, <1>2 DEF places, IdsOf

(* What is assumed of AppData's parameters.                                 *)
DataAssumptions ==
  /\ AccountListsAssumption /\ AccountStoreAssumption /\ FilesAssumption
  /\ AppDataAssumption /\ InitAssumption

LEMMA ConstantsAreSound == DataAssumptions
  BY AccountListsAssumption, AccountStoreAssumption, FilesAssumption, AppDataAssumption,
     InitAssumption DEF DataAssumptions

(* The list and its files hold accounts; a running app's file is readable.  *)
FilesInv ==
  /\ accounts \in Accounts
  /\ accountsFile \in Accounts \cup {Missing, Broken} /\ backup \in Accounts \cup {Missing, Broken}
  /\ up => accountsFile # Broken
  /\ ReloadKeepsAccounts

(* A sign-in between its look-up and its write is about an account of the    *)
(* list it read, or found nobody there with that identity.                  *)
Connecting == {"connectSecret", "connectUpsert"}
Found(p) ==
  /\ id[p] \in Ids /\ who[p] \in Identity /\ view[p] \in Accounts
  /\ \/ id[p] \in IdsOf(view[p])
     \/ \A i \in DOMAIN view[p] : ~SameIdentity(view[p][i].who, who[p])
LookUpInv ==
  /\ Procs = DOMAIN pc /\ Procs = DOMAIN id
  /\ Procs = DOMAIN who /\ Procs = DOMAIN view
  /\ \A p \in Procs : pc[p] \in Connecting => Found(p)

(* A step of p only, after which p has no look-up behind it.                *)
Apart(p) ==
  /\ DOMAIN pc' = DOMAIN pc /\ DOMAIN id' = DOMAIN id
  /\ DOMAIN who' = DOMAIN who /\ DOMAIN view' = DOMAIN view
  /\ \A q \in Procs \ {p} :
       pc'[q] = pc[q] /\ id'[q] = id[q] /\ who'[q] = who[q] /\ view'[q] = view[q]
  /\ pc'[p] \notin Connecting

(* Such a step keeps what the others' look-ups found.                        *)
LEMMA ApartKeepsLookUps ==
  ASSUME LookUpInv, NEW p \in Procs, Apart(p)
  PROVE  LookUpInv'
<1>1. \A q \in Procs : pc'[q] \in Connecting => q # p /\ Found(q)
  BY DEF Apart, LookUpInv
<1>2. \A q \in Procs \ {p} : Found(q) => Found(q)'
  BY DEF Apart, Found, IdsOf
<1> QED BY <1>1, <1>2 DEF LookUpInv, Apart

(* What neither writes nor stops keeps the files and the list in step.       *)
LEMMA SameFiles ==
  ASSUME FilesInv, UNCHANGED <<accounts, accountsFile, backup, up, late>>
  PROVE  FilesInv'
BY DEF FilesInv, ReloadKeepsAccounts, Content, LoadedAccounts, Recovered,
       ReadAccountFile

(* A write keeps them in step, also one that fails, where the old list stays  *)
(* on both sides; after a late one nothing is said.                         *)
LEMMA CommitKeepsFiles ==
  ASSUME FilesInv, DataAssumptions, NEW next \in Accounts, NEW outcome \in Outcomes,
         CommitAccounts(next, outcome), up' = up
  PROVE  FilesInv'
<1>1. Missing # Broken /\ Missing \notin Accounts /\ Broken \notin Accounts
  BY DEF DataAssumptions, FilesAssumption, Accounts
<1>2. /\ accounts' = (IF outcome = "ok" THEN next ELSE accounts)
      /\ accountsFile' = (IF outcome = "failed" THEN accountsFile ELSE next)
      /\ backup' \in {backup, accountsFile}
      /\ accountsFile = Missing /\ outcome = "failed" => backup' = backup
      /\ late' = IF outcome = "ok" THEN FALSE ELSE late \/ outcome = "late"
  BY DEF CommitAccounts, Commit, WriteAccountFile
<1>3. outcome \in {"ok", "failed", "late"}
  BY DEF Outcomes
<1>4. /\ accounts' \in Accounts /\ accountsFile' \in Accounts \cup {Missing, Broken}
      /\ backup' \in Accounts \cup {Missing, Broken} /\ (up' => accountsFile' # Broken)
  BY <1>1, <1>2, <1>3 DEF FilesInv
<1>5. ReloadKeepsAccounts'
  <2> USE DEF Content, LoadedAccounts, Recovered, ReadAccountFile
  <2>1. CASE outcome = "ok"
    BY <1>1, <1>2, <2>1 DEF ReloadKeepsAccounts
  <2>2. CASE outcome = "failed"
    <3>1. late' => late
      BY <1>2, <2>2
    <3>2. late => late'
      BY <1>2, <2>2
    <3> QED BY <1>1, <1>2, <2>2, <3>2 DEF ReloadKeepsAccounts, FilesInv
  <2>3. CASE outcome = "late"
    <3>1. late'
      BY <1>2, <2>3
    <3> QED BY <3>1 DEF ReloadKeepsAccounts
  <2> QED BY <1>3, <2>1, <2>2, <2>3
<1> QED BY <1>4, <1>5 DEF FilesInv

(* What a write is given is a list of accounts.                              *)
LEMMA ChangedLists ==
  ASSUME DataAssumptions, NEW list \in Accounts
  PROVE  /\ \A i : Mutated(list, i, MaxStamp) \in Accounts
         /\ [i \in DOMAIN list |-> [list[i] EXCEPT !.usage = 0]] \in Accounts
         /\ \A account \in Account : Upserted(list, account) \in Accounts
<1> USE DEF Accounts
<1>1. MaxStamp \in Nat /\ 0 \in 0 .. MaxStamp /\ MaxStamp \in 0 .. MaxStamp
  BY DEF DataAssumptions, AccountStoreAssumption
<1>2. \A a \in Account, n \in 0 .. MaxStamp : [a EXCEPT !.usage = n] \in Account
  BY DEF Account
<1>3. \A a, b \in Account : MergeAccount(a, b) \in Account
  BY <1>1 DEF Account, MergeAccount, Identity, OrKeep, NewerUsage
<1>4. \A f : (\A i \in DOMAIN list : f[i] \in Account) =>
               [i \in DOMAIN list |-> f[i]] \in Seq(Account)
  OBVIOUS
<1>5. ASSUME NEW i
      PROVE  Mutated(list, i, MaxStamp) \in Accounts
  <2>1. \A k \in DOMAIN list :
          (IF list[k].id = i THEN [list[k] EXCEPT !.usage = MaxStamp] ELSE list[k])
            \in Account
    BY <1>1, <1>2
  <2> QED BY <2>1 DEF Mutated
<1>6. [i \in DOMAIN list |-> [list[i] EXCEPT !.usage = 0]] \in Accounts
  <2>1. \A k \in DOMAIN list : [list[k] EXCEPT !.usage = 0] \in Account
    BY <1>1, <1>2
  <2> QED BY <2>1
<1>7. ASSUME NEW account \in Account
      PROVE  Upserted(list, account) \in Accounts
  <2>1. \A k \in DOMAIN list :
          (IF list[k].id = account.id THEN MergeAccount(list[k], account) ELSE list[k])
            \in Account
    BY <1>3
  <2> QED BY <2>1 DEF Upserted
<1> QED BY <1>5, <1>6, <1>7

(* Whose account a sign-in finds is in the list it read, or nobody's.       *)
LEMMA LookUpFinds ==
  ASSUME DataAssumptions, NEW list \in Accounts, NEW person, NEW reconnect \in Ids \cup {NoValue}
  PROVE  LET found == AccountToUpdate(list, reconnect, person)
         IN  IF Known(found) THEN found \in IdsOf(list) /\ found \in Ids
             ELSE \A i \in DOMAIN list : ~SameIdentity(list[i].who, person)
<1>1. NoValue \notin Ids /\ \A i \in DOMAIN list : list[i].id \in Ids
  <2>1. NoValue \notin Ids
    BY DEF DataAssumptions, AccountListsAssumption
  <2>2. \A i \in DOMAIN list : list[i].id \in Ids
    <3>1. \A i \in DOMAIN list : list[i] \in Account
      BY DEF Accounts
    <3> QED BY <3>1 DEF Account
  <2> QED BY <2>1, <2>2
<1> DEFINE D == Duplicates(list, person)
           first == CHOOSE i \in D : \A j \in D : i <= j
<1>2. D \in SUBSET Nat /\ D \subseteq DOMAIN list
  BY DEF Duplicates, Accounts
<1>3. D # {} => first \in DOMAIN list
  <2> HIDE DEF D
  <2> QED BY <1>2, LeastNumber
<1>4. FindDuplicate(list, person) = IF D = {} THEN NoValue ELSE list[first].id
  BY DEF FindDuplicate
<1>5. CASE \E i \in DOMAIN list : /\ list[i].id = reconnect
                                  /\ MayReconnect(list[i], person)
  BY <1>1, <1>5 DEF AccountToUpdate, Known, IdsOf
<1>6. CASE ~\E i \in DOMAIN list : /\ list[i].id = reconnect
                                   /\ MayReconnect(list[i], person)
  <2>1. AccountToUpdate(list, reconnect, person) = FindDuplicate(list, person)
    BY <1>6 DEF AccountToUpdate
  <2>2. CASE D = {}
    BY <1>1, <1>4, <2>1, <2>2 DEF Known, Duplicates
  <2>3. CASE D # {}
    <3> HIDE DEF D, first
    <3>1. /\ AccountToUpdate(list, reconnect, person) = list[first].id
          /\ first \in DOMAIN list
      BY <1>3, <1>4, <2>1, <2>3
    <3> QED BY <1>1, <3>1 DEF Known, IdsOf
  <2> QED BY <2>2, <2>3
<1> QED BY <1>5, <1>6

(* The ends and the middle of an operation leave no look-up behind.         *)
LEMMA StepsApart ==
  ASSUME LookUpInv, NEW p \in Procs, ~(pc[p] \in Connecting /\ UNCHANGED pc)
  PROVE  /\ Return(p) => Apart(p)
         /\ \A s : s \notin Connecting /\ GoTo(p, s) /\ UNCHANGED <<who, view>>
                   /\ (UNCHANGED id \/ \E i : id' = [id EXCEPT ![p] = i]) => Apart(p)
         /\ UNCHANGED <<pc, id, who, view>> => Apart(p)
<1>1. Return(p) => Apart(p)
  BY DEF Return, GoTo, Apart, LookUpInv, Connecting
<1>2. \A s : s \notin Connecting /\ GoTo(p, s) /\ UNCHANGED <<who, view>>
               /\ (UNCHANGED id \/ \E i : id' = [id EXCEPT ![p] = i]) => Apart(p)
  BY DEF GoTo, Apart, LookUpInv
<1>3. UNCHANGED <<pc, id, who, view>> => Apart(p)
  BY DEF Apart
<1> QED BY <1>1, <1>2, <1>3

(* What each operation does to the list of accounts and its files: nothing,  *)
(* or one write of a list of accounts.                                      *)
Untouched == UNCHANGED <<accounts, accountsFile, backup, up, late>>
Writes ==
  /\ up' = up
  /\ \E next \in Accounts, outcome \in Outcomes : CommitAccounts(next, outcome)

(* An operation of a worker begins: a sign-in with its look-up, a refresh    *)
(* with its write, the others with neither.                                 *)
LEMMA TaskSteps ==
  ASSUME DataAssumptions, FilesInv, LookUpInv, NEW p \in Tasks, Task(p)
  PROVE  LookUpInv' /\ (Untouched \/ Writes)
<1> USE DEF Untouched, Writes, storeVars, ghostVars, metaVars
<1>1. p \in Procs
  BY DEF Procs
<1>2. ASSUME NEW person \in People, NEW reconnect \in Ids \cup {NoValue},
             ConnectLookup(p, person, reconnect)
      PROVE  LookUpInv' /\ Untouched
  <2> DEFINE found == AccountToUpdate(accounts, reconnect, person)
  <2>1. PICK fresh \in Ids : id' = [id EXCEPT ![p] = IF Known(found) THEN found ELSE fresh]
    BY <1>2 DEF ConnectLookup
  <2>2. /\ pc' = [pc EXCEPT ![p] = "connectSecret"] /\ who' = [who EXCEPT ![p] = person]
        /\ view' = [view EXCEPT ![p] = accounts] /\ Untouched
    BY <1>2 DEF ConnectLookup, Enter, GoTo
  <2>3. person \in Identity /\ accounts \in Accounts
    BY DEF DataAssumptions, InitAssumption, FilesInv
  <2>4. IF Known(found) THEN found \in IdsOf(accounts) /\ found \in Ids
        ELSE \A i \in DOMAIN accounts : ~SameIdentity(accounts[i].who, person)
    BY <2>3, LookUpFinds
  <2> HIDE DEF found
  <2>5. /\ id'[p] = (IF Known(found) THEN found ELSE fresh) /\ who'[p] = person
        /\ view'[p] = accounts
    BY <1>1, <2>1, <2>2 DEF LookUpInv
  <2>6. Found(p)'
    <3>1. id'[p] \in Ids /\ who'[p] \in Identity /\ view'[p] \in Accounts
      BY <2>3, <2>4, <2>5
    <3>2. \/ id'[p] \in IdsOf(view'[p])
          \/ \A i \in DOMAIN view'[p] : ~SameIdentity(view'[p][i].who, who'[p])
      BY <2>4, <2>5
    <3> QED BY <3>1, <3>2 DEF Found, IdsOf
  <2>7. ASSUME NEW q \in Procs \ {p}, pc'[q] \in Connecting
        PROVE  Found(q)'
    <3>1. pc'[q] = pc[q] /\ id'[q] = id[q] /\ who'[q] = who[q] /\ view'[q] = view[q]
      BY <2>1, <2>2 DEF LookUpInv
    <3>2. Found(q)
      BY <2>7, <3>1 DEF LookUpInv
    <3> QED BY <3>1, <3>2 DEF Found, IdsOf
  <2>8. /\ Procs = DOMAIN pc' /\ Procs = DOMAIN id'
        /\ Procs = DOMAIN who' /\ Procs = DOMAIN view'
    BY <2>1, <2>2 DEF LookUpInv
  <2> QED BY <2>2, <2>6, <2>7, <2>8 DEF LookUpInv
<1>3. ASSUME NEW i \in Ids, NEW outcome \in Outcomes, Refresh(p, i, outcome)
      PROVE  Apart(p) /\ Writes
  <2>1. Mutated(accounts, i, MaxStamp) \in Accounts
    BY ChangedLists DEF FilesInv
  <2>2. Writes
    BY <1>3, <2>1 DEF Refresh
  <2>3. pc[p] = "idle"
    BY <1>3 DEF Refresh, Begin, At
  <2>4. CASE outcome = "ok"
    <3>1. /\ GoTo(p, "refresh") /\ UNCHANGED <<who, view>>
          /\ id' = [id EXCEPT ![p] = i]
      BY <1>3, <2>4 DEF Refresh, Enter
    <3> QED BY <1>1, <2>2, <2>3, <3>1, StepsApart DEF Connecting
  <2>5. CASE outcome # "ok"
    BY <1>1, <1>3, <2>2, <2>3, <2>5, StepsApart DEF Refresh, Connecting
  <2> QED BY <2>4, <2>5
<1>4. ASSUME NEW i \in Ids, RemoveAccount(p, i)
      PROVE  Apart(p) /\ Untouched
  <2>1. /\ GoTo(p, "secret") /\ UNCHANGED <<who, view>> /\ id' = [id EXCEPT ![p] = i]
        /\ pc[p] = "idle" /\ Untouched
    BY <1>4 DEF RemoveAccount, Begin, At, Enter
  <2> QED BY <1>1, <2>1, StepsApart DEF Connecting
<1>5. ASSUME DeleteAllLocalData(p) \/ ShowDashboard(p)
      PROVE  Apart(p) /\ Untouched
  <2>1. /\ GoTo(p, "next") \/ GoTo(p, "compare")
        /\ UNCHANGED <<id, who, view>> /\ pc[p] = "idle" /\ Untouched
    BY <1>5 DEF DeleteAllLocalData, ShowDashboard, Begin, At, Enter
  <2> QED BY <1>1, <2>1, StepsApart DEF Connecting
<1>6. ASSUME NEW g \in Groups, NEW i \in Ids, ImportGroup(p, g, {i})
      PROVE  Apart(p) /\ Untouched
  <2>1. /\ GoTo(p, "copyGroups")
        /\ UNCHANGED <<id, who, view>> /\ pc[p] = "idle" /\ Untouched
    BY <1>6 DEF ImportGroup, Begin, At, Enter
  <2> QED BY <1>1, <2>1, StepsApart DEF Connecting
<1> QED BY <1>1, <1>2, <1>3, <1>4, <1>5, <1>6, ApartKeepsLookUps DEF Task

(* What the page does: none of it looks an identity up.                      *)
LEMMA PageSteps ==
  ASSUME DataAssumptions, FilesInv, LookUpInv, Page
  PROVE  LookUpInv' /\ (Untouched \/ Writes)
<1> USE DEF Untouched, Writes, storeVars, ghostVars, metaVars
<1>1. UI \in Procs
  BY DEF Procs
<1>2. ASSUME NEW requested, Reorder(requested)
      PROVE  LookUpInv' /\ Untouched
  <2>1. /\ pc[UI] = "idle" /\ UNCHANGED <<id, who>> /\ Untouched
        /\ \/ pc' = [pc EXCEPT ![UI] = "copyOrder"] /\ view' = [view EXCEPT ![UI] = accounts]
           \/ UNCHANGED <<pc, view>>
    BY <1>2 DEF Reorder, Begin, At, Enter, GoTo
  <2>2. Apart(UI)
    BY <1>1, <2>1 DEF Apart, LookUpInv, Connecting
  <2> QED BY <1>1, <2>1, <2>2, ApartKeepsLookUps
<1>3. ASSUME NEW g \in Groups, NEW members, SaveGroup(g, members) \/ DeleteGroup(g)
      PROVE  LookUpInv' /\ Untouched
  <2>1. /\ pc[UI] = "idle" /\ UNCHANGED <<id, who, view>> /\ Untouched
        /\ GoTo(UI, "copyGroups") \/ UNCHANGED pc
    BY <1>3 DEF SaveGroup, DeleteGroup, Begin, At, Enter
  <2> QED BY <1>1, <2>1, StepsApart, ApartKeepsLookUps DEF Connecting
<1>4. ASSUME NEW i \in Ids, CheckAlerts(i)
      PROVE  LookUpInv' /\ Untouched
  <2>1. /\ pc[UI] = "idle" /\ UNCHANGED <<who, view>> /\ Untouched
        /\ GoTo(UI, "saveAlerts") /\ id' = [id EXCEPT ![UI] = i]
    BY <1>4 DEF CheckAlerts, Begin, At, Enter
  <2> QED BY <1>1, <2>1, StepsApart, ApartKeepsLookUps DEF Connecting
<1>5. ASSUME NEW outcome \in Outcomes, ClearCachedUsage(outcome)
      PROVE  LookUpInv' /\ Writes
  <2>1. [i \in DOMAIN accounts |-> [accounts[i] EXCEPT !.usage = 0]] \in Accounts
    BY ChangedLists DEF FilesInv
  <2>2. Writes
    BY <1>5, <2>1 DEF ClearCachedUsage
  <2>3. pc[UI] = "idle" /\ UNCHANGED <<pc, id, who, view>>
    BY <1>5 DEF ClearCachedUsage, Begin, At
  <2> QED BY <1>1, <2>2, <2>3, StepsApart, ApartKeepsLookUps DEF Connecting
<1>6. ASSUME NEW outcome \in Outcomes, SaveAlerts(outcome)
      PROVE  LookUpInv' /\ Untouched
  <2>1. pc[UI] = "saveAlerts" /\ Return(UI) /\ Untouched
    BY <1>6 DEF SaveAlerts, At
  <2> QED BY <1>1, <2>1, StepsApart, ApartKeepsLookUps DEF Connecting
<1> QED BY <1>2, <1>3, <1>4, <1>5, <1>6 DEF Page

(* An operation goes on: a sign-in keeps its look-up up to its write.        *)
LEMMA ContinuedSteps ==
  ASSUME DataAssumptions, FilesInv, LookUpInv, NEW p \in Procs, Continued(p)
  PROVE  LookUpInv' /\ (Untouched \/ Writes)
<1> USE DEF Untouched, Writes, storeVars, ghostVars, metaVars
<1> DEFINE Ends == Return(p)
           Goes(s) == GoTo(p, s) /\ UNCHANGED <<id, who, view>>
           Later == {"secret", "clearTombstones", "metadata", "tombstone", "order", "copyOrder",
                     "saveOrder", "alerts", "groups", "copyGroups", "saveGroups", "history",
                     "next", "compare"}
<1>1. ASSUME \/ Ends
             \/ \E s \in Later : GoTo(p, s) /\ UNCHANGED <<who, view>>
                                 /\ (UNCHANGED id \/ \E i : id' = [id EXCEPT ![p] = i])
      PROVE  LookUpInv'
  <2>1. ~(pc[p] \in Connecting /\ UNCHANGED pc)
    BY <1>1 DEF Return, GoTo, LookUpInv, Connecting
  <2>2. \A s \in Later : s \notin Connecting
    BY DEF Connecting
  <2> QED BY <1>1, <2>1, <2>2, StepsApart, ApartKeepsLookUps
<1>2. \A s \in Later : Goes(s) => LookUpInv'
  BY <1>1
<1>3. \A s \in Later, outcome \in Outcomes : Continue(p, s, outcome) => LookUpInv'
  BY <1>1, <1>2 DEF Continue
<1>4. CASE NextAccount(p)
  <2>1. /\ GoTo(p, "secret") \/ GoTo(p, "clearTombstones")
        /\ UNCHANGED <<who, view>> /\ (UNCHANGED id \/ \E i : id' = [id EXCEPT ![p] = i])
    BY <1>4 DEF NextAccount, Enter
  <2>2. Untouched
    BY <1>4 DEF NextAccount
  <2> QED BY <1>1, <2>1, <2>2
<1>5. CASE \/ ForgetOrder(p) \/ ForgetGroups(p) \/ CopyOrder(p)
           \/ CopyGroups(p)
  <2>1. /\ \/ Goes("alerts") \/ Goes("copyOrder") \/ Goes("history") \/ Goes("copyGroups")
           \/ Goes("saveOrder") \/ Goes("saveGroups")
        /\ Untouched
    BY <1>5 DEF ForgetOrder, ForgetGroups, CopyOrder, CopyGroups
  <2> QED BY <1>2, <2>1
<1>6. CASE CompareOrder(p)
  <2>1. (Ends \/ Goes("copyOrder")) /\ Untouched
    BY <1>6 DEF CompareOrder
  <2> QED BY <1>1, <1>2, <2>1
<1>7. ASSUME NEW outcome \in Outcomes, ConnectSecret(p, outcome)
      PROVE  LookUpInv' /\ Untouched
  <2>1. Untouched /\ pc[p] = "connectSecret"
    BY <1>7 DEF ConnectSecret, At
  <2>2. Ends \/ Goes("connectUpsert")
    BY <1>7 DEF ConnectSecret
  <2>3. CASE Goes("connectUpsert")
    BY <2>1, <2>3 DEF GoTo, LookUpInv, Found, Connecting, IdsOf
  <2> QED BY <1>1, <2>1, <2>2, <2>3
<1>8. ASSUME NEW outcome \in Outcomes, ConnectUpsert(p, outcome)
      PROVE  LookUpInv' /\ Writes
  <2>1. Found(p)
    BY <1>8 DEF ConnectUpsert, At, LookUpInv, Connecting
  <2>2. [id |-> id[p], who |-> who[p], usage |-> 0] \in Account
    BY <2>1 DEF Found, Account, DataAssumptions, AccountStoreAssumption
  <2>3. Upserted(accounts, [id |-> id[p], who |-> who[p], usage |-> 0]) \in Accounts
    BY <2>2, ChangedLists DEF FilesInv
  <2>4. Writes /\ Ends
    BY <1>8, <2>3 DEF ConnectUpsert
  <2> QED BY <1>1, <2>4
<1>9. ASSUME NEW outcome \in Outcomes, RemoveMetadata(p, outcome)
      PROVE  LookUpInv' /\ (Untouched \/ Writes)
  <2>1. Without(accounts, id[p]) \in Accounts
    BY WithoutIsList DEF FilesInv
  <2>2. Untouched \/ Writes
    BY <1>9, <2>1 DEF RemoveMetadata
  <2> QED BY <1>3, <1>9, <2>2 DEF RemoveMetadata
<1>10. ASSUME NEW outcome \in Outcomes,
              RecordReading(p, outcome) \/ RemoveSecret(p, outcome)
       PROVE  LookUpInv' /\ Untouched
  <2>1. (Ends \/ Goes("metadata")) /\ Untouched
    BY <1>10 DEF RecordReading, RemoveSecret
  <2> QED BY <1>1, <1>2, <2>1
<1>11. ASSUME NEW outcome \in Outcomes,
              RecordDeletion(p, outcome) \/ ClearTombstones(p, outcome)
       PROVE  LookUpInv' /\ Untouched
  <2>1. Goes("order") /\ Untouched
    BY <1>11 DEF RecordDeletion, ClearTombstones
  <2> QED BY <1>2, <2>1
<1>12. ASSUME NEW outcome \in Outcomes, ForgetAlerts(p, outcome)
       PROVE  LookUpInv' /\ Untouched
  BY <1>3, <1>12 DEF ForgetAlerts
<1>13. ASSUME NEW outcome \in Outcomes, ForgetHistory(p, outcome)
       PROVE  LookUpInv' /\ Untouched
  <2>1. (Ends \/ Goes("next")) /\ Untouched
    BY <1>13 DEF ForgetHistory
  <2> QED BY <1>1, <1>2, <2>1
<1>14. ASSUME NEW outcome \in Outcomes, SaveOrder(p, outcome)
       PROVE  LookUpInv' /\ Untouched
  <2>1. \/ Ends \/ Goes("compare") \/ Continue(p, "alerts", outcome)
    BY <1>14 DEF SaveOrder, Enter
  <2>2. Untouched
    BY <1>14 DEF SaveOrder
  <2> QED BY <1>1, <1>2, <1>3, <2>1, <2>2
<1>15. ASSUME NEW outcome \in Outcomes, SaveGroups(p, outcome)
       PROVE  LookUpInv' /\ Untouched
  <2>1. Ends \/ Continue(p, "history", outcome)
    BY <1>15 DEF SaveGroups
  <2>2. Untouched
    BY <1>15 DEF SaveGroups
  <2> QED BY <1>1, <1>3, <2>1, <2>2
<1> QED BY <1>4, <1>5, <1>6, <1>7, <1>8, <1>9, <1>10, <1>11, <1>12, <1>13, <1>14, <1>15
        DEF Continued

(* A stop, a new installation and a start: the start loads what there is.    *)
LEMMA LifeSteps ==
  ASSUME DataAssumptions, FilesInv, LookUpInv,
         \/ Stop \/ Reinstall
         \/ \E purgeFails, receiptFails \in BOOLEAN : Start(purgeFails, receiptFails)
  PROVE  LookUpInv' /\ FilesInv'
<1>1. Missing # Broken /\ Missing \notin Accounts /\ Broken \notin Accounts /\ <<>> \in Accounts
  BY DEF DataAssumptions, FilesAssumption, Accounts
<1> USE DEF ReloadKeepsAccounts, Content, LoadedAccounts, Recovered,
            ReadAccountFile, FilesInv
<1>2. CASE Stop
  <2>1. FilesInv'
    BY <1>1, <1>2 DEF Stop
  <2>2. LookUpInv'
    BY <1>2 DEF Stop, LookUpInv, Connecting
  <2> QED BY <2>1, <2>2
<1>3. CASE Reinstall
  <2>1. FilesInv'
    BY <1>1, <1>3 DEF Reinstall
  <2>2. UNCHANGED <<pc, id, who, view>>
    BY <1>3 DEF Reinstall, procVars
  <2> QED BY <2>1, <2>2 DEF LookUpInv, Found, IdsOf
<1>4. ASSUME NEW purgeFails \in BOOLEAN, NEW receiptFails \in BOOLEAN,
             Start(purgeFails, receiptFails)
      PROVE  LookUpInv' /\ FilesInv'
  <2>1. FilesInv'
    BY <1>1, <1>4 DEF Start
  <2>2. UNCHANGED <<pc, id, who, view>>
    BY <1>4 DEF Start, procVars
  <2> QED BY <2>1, <2>2 DEF LookUpInv, Found, IdsOf
<1> QED BY <1>2, <1>3, <1>4

(* Every step keeps both parts of the invariant.                             *)
LEMMA StepKeepsAccounts ==
  ASSUME DataAssumptions, FilesInv, LookUpInv, [DataNext]_dataVars
  PROVE  FilesInv' /\ LookUpInv'
<1>1. Untouched => FilesInv'
  BY SameFiles DEF Untouched
<1>2. Writes => FilesInv'
  BY CommitKeepsFiles DEF Writes
<1>3. CASE UNCHANGED dataVars
  <2>1. Untouched /\ UNCHANGED <<pc, id, who, view>>
    BY <1>3 DEF Untouched, dataVars, storeVars, procVars, ghostVars
  <2> QED BY <1>1, <2>1 DEF LookUpInv, Found, IdsOf
<1>4. ASSUME NEW p \in Tasks, Task(p)
      PROVE  FilesInv' /\ LookUpInv'
  BY <1>1, <1>2, <1>4, TaskSteps
<1>5. CASE Page
  BY <1>1, <1>2, <1>5, PageSteps
<1>6. ASSUME NEW p \in Procs, Continued(p)
      PROVE  FilesInv' /\ LookUpInv'
  BY <1>1, <1>2, <1>6, ContinuedSteps
<1> QED BY <1>3, <1>4, <1>5, <1>6, LifeSteps DEF DataNext

(* The two parts of the invariant hold in every reachable state.             *)
THEOREM AccountsAreSound == DataSpec => [](FilesInv /\ LookUpInv)
<1> USE ConstantsAreSound
<1>1. DataInit => FilesInv /\ LookUpInv
  <2> SUFFICES ASSUME DataInit
               PROVE  FilesInv /\ LookUpInv
    OBVIOUS
  <2>1. FilesInv
    BY DEF DataInit, FilesInv, ReloadKeepsAccounts, Accounts, DataAssumptions,
           InitAssumption
  <2>2. LookUpInv
    BY DEF DataInit, LookUpInv, Connecting
  <2> QED BY <2>1, <2>2
<1>2. FilesInv /\ LookUpInv /\ [DataNext]_dataVars => (FilesInv /\ LookUpInv)'
  BY StepKeepsAccounts
<1> QED BY <1>1, <1>2, PTL DEF DataSpec

(* What a restart would load is what the app shows, through every failed     *)
(* write, rollback and crash, but after a write reported failed after its    *)
(* rename (store/accounts.rs).                                              *)
THEOREM RestartLoadsWhatIsShown == DataSpec => []ReloadKeepsAccounts
<1> USE ConstantsAreSound
<1>1. FilesInv => ReloadKeepsAccounts
  BY DEF FilesInv
<1> QED BY <1>1, AccountsAreSound, PTL

(* A sign-in adds a second account of a person only when the list changed     *)
(* since its look-up, which no lock covers (store/accounts.rs).              *)
THEOREM TwinsNeedARace == DataSpec => TwinNeedsRace
<1> USE ConstantsAreSound
<1>1. FilesInv /\ LookUpInv =>
        \A p \in Tasks : Connects(p) /\ FromCurrentView(p)
                         /\ id[p] \notin IdsOf(accounts) =>
          \A i \in DOMAIN accounts : ~SameIdentity(accounts[i].who, who[p])
  <2> SUFFICES ASSUME FilesInv, LookUpInv, NEW p \in Tasks, Connects(p),
                      FromCurrentView(p), id[p] \notin IdsOf(accounts),
                      NEW i \in DOMAIN accounts
               PROVE  ~SameIdentity(accounts[i].who, who[p])
    OBVIOUS
  <2>1. Found(p)
    BY DEF LookUpInv, Connects, At, Connecting, Procs
  <2>2. /\ DOMAIN view[p] = DOMAIN accounts
        /\ \A k \in DOMAIN accounts : view[p][k].id = accounts[k].id
                                      /\ view[p][k].who = accounts[k].who
    BY <2>1 DEF FromCurrentView, SameOwners, Found, FilesInv, Accounts
  <2>3. id[p] \notin IdsOf(view[p])
    BY <2>2 DEF IdsOf
  <2>4. ~SameIdentity(view[p][i].who, who[p])
    BY <2>1, <2>2, <2>3 DEF Found
  <2> QED BY <2>2, <2>4
<1>2. DataSpec => [](FilesInv /\ LookUpInv)
  BY AccountsAreSound
<1> QED BY <1>1, <1>2, PTL DEF TwinNeedsRace

(* The installation check never deletes the sign-in of an account the start   *)
(* then loads: it purges only where there is neither file nor backup.  No    *)
(* step but a start makes the app run.                                      *)
THEOREM PurgeSparesLoadedAccounts == DataSpec => PurgeSparesAccounts
<1> USE ConstantsAreSound
<1>1. FilesInv /\ LookUpInv /\ [DataNext]_dataVars =>
        [up' /\ ~up => IdsOf(accounts') \cap secrets \subseteq secrets']_dataVars
  <2> SUFFICES ASSUME FilesInv, LookUpInv, [DataNext]_dataVars, up' /\ ~up
               PROVE  IdsOf(accounts') \cap secrets \subseteq secrets'
    OBVIOUS
  <2>1. ~Untouched /\ ~Writes /\ ~Stop /\ ~Reinstall /\ ~UNCHANGED dataVars
    BY DEF Untouched, Writes, Stop, Reinstall, dataVars
  <2>2. PICK purgeFails, receiptFails \in BOOLEAN : Start(purgeFails, receiptFails)
    BY <2>1, TaskSteps, PageSteps, ContinuedSteps DEF DataNext
  <2>3. secrets' = secrets \/ (accountsFile = Missing /\ backup = Missing)
    BY <2>2 DEF Start, Purged, HasExistingMetadata
  <2>4. CASE accountsFile = Missing /\ backup = Missing
    <3>1. Missing # Broken
      BY DEF DataAssumptions, FilesAssumption
    <3>2. accounts' = <<>>
      BY <2>2, <2>4, <3>1 DEF Start, Content, LoadedAccounts, Recovered,
                              ReadAccountFile
    <3> QED BY <3>2 DEF IdsOf
  <2> QED BY <2>3, <2>4
<1>2. DataSpec => [](FilesInv /\ LookUpInv)
  BY AccountsAreSound
<1> QED BY <1>1, <1>2, PTL DEF DataSpec, PurgeSparesAccounts
-----------------------------------------------------------------------------
(* What a removal leaves behind in the five stores and their files.          *)

(* The operations that forget accounts, and the steps they have behind them. *)
Removals == {"remove", "deleteEach", "deleteRest"}
PastGroups == {"copyGroups", "saveGroups", "history"}
PastAlerts == {"groups"} \cup PastGroups
PastOrder == {"copyOrder", "saveOrder", "alerts"} \cup PastAlerts
PastAccount == {"clearTombstones", "tombstone", "order"} \cup PastOrder
PastSecret == {"metadata"} \cup PastAccount
Elements(list) == {list[n] : n \in DOMAIN list}

(* Nothing runs while the app is down, what runs alone runs alone, and each  *)
(* step belongs to its kind of operation.                                   *)
KindFits(p) ==
  /\ pc[p] \in {"order", "alerts", "groups", "history"} => kind[p] \in Removals
  /\ pc[p] \in {"secret", "metadata", "tombstone"} => kind[p] \in {"remove", "deleteEach"}
  /\ pc[p] = "next" => kind[p] = "deleteEach"
  /\ pc[p] = "clearTombstones" => kind[p] = "deleteRest"
  /\ pc[p] \in {"copyOrder", "saveOrder"} => kind[p] \in Removals \cup {"show", "reorder"}
  /\ pc[p] \in {"copyGroups", "saveGroups"} => kind[p] \in Removals \cup {"group"}
  /\ pc[p] = "compare" => kind[p] = "show"
RunsInv ==
  /\ Procs = DOMAIN kind /\ Procs = DOMAIN copy /\ Procs = DOMAIN todo /\ Procs = DOMAIN alone
  /\ faults \in Nat
  /\ \A p \in Procs : KindFits(p) /\ todo[p] \in Seq(Ids) /\ view[p] \in Accounts
  /\ \A p \in Procs : alone[p] \/ ~up => \A q \in Procs \ {p} : pc[q] = "idle"
  /\ ~up => \A p \in Procs : pc[p] = "idle"

(* The order on disk is the one in memory, unless somebody is about to copy   *)
(* and save it; with what a save will write while it is under way.          *)
OrderInv ==
  /\ order \in Seq(Ids) /\ orderFile \in Seq(Ids)
  /\ \A p \in Procs : pc[p] \in {"compare", "saveOrder"} => copy[p] \in Seq(Ids)
  /\ up /\ ~unsaved /\ ~torn /\ (\A p \in Procs : pc[p] # "copyOrder") =>
       /\ \A p \in Procs : pc[p] = "saveOrder" => copy[p] = order
       /\ (\A p \in Procs : pc[p] # "saveOrder") => orderFile = order

(* The same of the groups; the other two stores are written under their lock. *)
GroupsInv ==
  up /\ ~unsaved /\ ~torn /\ (\A p \in Procs : pc[p] # "copyGroups") =>
       /\ \A p \in Procs : pc[p] = "saveGroups" => copy[p] = groups
       /\ (\A p \in Procs : pc[p] # "saveGroups") => groupsFile = groups
StoresInv == up /\ ~unsaved => alertsFile = alerts /\ historyFile = history

(* What a removal that runs alone has forgotten so far.                      *)
Removed(p) ==
  /\ pc[p] \in PastSecret /\ ~Whole(p) => id[p] \notin secrets
  /\ pc[p] \in PastAccount => Scope(p) \cap IdsOf(accounts) = {}
  /\ pc[p] \in PastOrder => Scope(p) \cap Elements(order) = {}
  /\ pc[p] \in PastAlerts => Scope(p) \cap alerts = {}
  /\ pc[p] \in PastGroups => \A g \in Groups : groups[g] = NoGroup \/ Scope(p) \cap groups[g] = {}
  /\ kind[p] = "deleteEach" /\ pc[p] # "idle" =>
       IdsOf(accounts) \subseteq
         Elements(todo[p]) \cup IF pc[p] \in {"secret", "metadata"} THEN {id[p]} ELSE {}
RemovedInv == \A p \in Procs : alone[p] /\ kind[p] \in Removals => Removed(p)

(* A step of p leaves the locals of the others alone.                        *)
Own(p) ==
  /\ DOMAIN pc' = Procs /\ DOMAIN kind' = Procs /\ DOMAIN copy' = Procs /\ DOMAIN todo' = Procs
  /\ \A q \in Procs \ {p} : /\ pc'[q] = pc[q] /\ kind'[q] = kind[q] /\ id'[q] = id[q]
                            /\ view'[q] = view[q] /\ copy'[q] = copy[q] /\ todo'[q] = todo[q]

(* What the helpers that move an operation on do to its locals.              *)
LEMMA OwnSteps ==
  ASSUME LookUpInv, RunsInv, NEW p \in Procs
  PROVE  /\ Return(p) =>
              /\ Own(p) /\ pc'[p] = "idle" /\ view'[p] = <<>> /\ todo'[p] = <<>>
         /\ \A s : GoTo(p, s) =>
              /\ pc'[p] = s
              /\ UNCHANGED <<kind, id, view, copy, todo>> => Own(p)
         /\ \A k, s : Enter(p, k, s) => pc'[p] = s /\ kind'[p] = k
         /\ \A s, outcome : Continue(p, s, outcome) =>
              \/ Own(p) /\ pc'[p] = s /\ UNCHANGED <<kind, id, view, copy, todo>>
              \/ Own(p) /\ pc'[p] = "idle" /\ view'[p] = <<>> /\ todo'[p] = <<>>
<1>1. /\ Procs = DOMAIN pc /\ Procs = DOMAIN kind /\ Procs = DOMAIN id /\ Procs = DOMAIN view
      /\ Procs = DOMAIN copy /\ Procs = DOMAIN todo
  BY DEF LookUpInv, RunsInv
<1>2. Return(p) => Own(p) /\ pc'[p] = "idle" /\ view'[p] = <<>> /\ todo'[p] = <<>>
  BY <1>1 DEF Return, GoTo, Own
<1>3. ASSUME NEW s, GoTo(p, s)
      PROVE  /\ pc'[p] = s
             /\ UNCHANGED <<kind, id, view, copy, todo>> => Own(p)
  BY <1>1, <1>3 DEF GoTo, Own
<1>4. ASSUME NEW k, NEW s, Enter(p, k, s)
      PROVE  pc'[p] = s /\ kind'[p] = k
  BY <1>1, <1>4 DEF Enter, GoTo
<1>5. ASSUME NEW s, NEW outcome, Continue(p, s, outcome)
      PROVE  \/ Own(p) /\ pc'[p] = s /\ UNCHANGED <<kind, id, view, copy, todo>>
             \/ Own(p) /\ pc'[p] = "idle" /\ view'[p] = <<>> /\ todo'[p] = <<>>
  BY <1>2, <1>3, <1>5 DEF Continue
<1> QED BY <1>2, <1>3, <1>4, <1>5

(* What keeps each part of the invariant.                                    *)
LEMMA RunsKept ==
  ASSUME LookUpInv, RunsInv, NEW p \in Procs, Own(p), up, up' = up, faults' \in Nat,
         KindFits(p)', todo'[p] \in Seq(Ids), view'[p] \in Accounts,
         DOMAIN alone' = Procs,
         \A q \in Procs : alone'[q] =>
            \/ alone[q] /\ pc[p] # "idle"
            \/ q = p /\ \A r \in Procs : pc[r] = "idle"
  PROVE  RunsInv'
<1>1. \A q \in Procs \ {p} : KindFits(q)' /\ todo'[q] \in Seq(Ids) /\ view'[q] \in Accounts
  BY DEF Own, RunsInv, KindFits
<1>2. ASSUME NEW q \in Procs, alone'[q], NEW r \in Procs \ {q}
      PROVE  pc'[r] = "idle"
  BY <1>2 DEF Own, RunsInv
<1> QED BY <1>1, <1>2 DEF RunsInv, Own

Flags == (unsaved => unsaved') /\ (torn => torn') /\ up' = up

(* A step that neither writes the order nor stands where it is written.      *)
LEMMA OrderKept ==
  ASSUME OrderInv, Flags, NEW p \in Procs, Own(p), UNCHANGED <<order, orderFile>>,
         pc[p] \notin {"copyOrder", "saveOrder"},
         pc'[p] \notin {"copyOrder", "saveOrder"},
         pc'[p] = "compare" => copy'[p] \in Seq(Ids)
  PROVE  OrderInv'
<1>1. \A q \in Procs : pc'[q] \in {"compare", "copyOrder", "saveOrder"} =>
                         \/ q = p /\ pc'[q] = "compare" /\ copy'[q] \in Seq(Ids)
                         \/ q # p /\ pc'[q] = pc[q] /\ copy'[q] = copy[q]
  BY DEF Own
<1>2. \A q \in Procs : pc[q] \in {"copyOrder", "saveOrder"} => q # p /\ pc'[q] = pc[q]
  BY DEF Own
<1> QED BY <1>1, <1>2 DEF OrderInv, Flags

(* The same of the groups.                                                  *)
LEMMA GroupsKept ==
  ASSUME GroupsInv, Flags, NEW p \in Procs, Own(p), UNCHANGED <<groups, groupsFile>>,
         pc[p] \notin {"copyGroups", "saveGroups"},
         pc'[p] \notin {"copyGroups", "saveGroups"}
  PROVE  GroupsInv'
<1>1. \A q \in Procs : pc'[q] \in {"copyGroups", "saveGroups"} =>
                         q # p /\ pc'[q] = pc[q] /\ copy'[q] = copy[q]
  BY DEF Own
<1>2. \A q \in Procs : pc[q] \in {"copyGroups", "saveGroups"} => q # p /\ pc'[q] = pc[q]
  BY DEF Own
<1> QED BY <1>1, <1>2 DEF GroupsInv, Flags

(* The same of the alerts and the history.                                  *)
LEMMA StoresKept ==
  ASSUME StoresInv, Flags, UNCHANGED <<alerts, alertsFile, history, historyFile>>
  PROVE  StoresInv'
BY DEF StoresInv, Flags

(* A step of p: it begins an operation or goes on with one.                  *)
Move(p) ==
  /\ Own(p) /\ Flags /\ faults' \in Nat
  /\ Begin(p) \/ (pc[p] # "idle" /\ UNCHANGED alone)
  /\ KindFits(p)' /\ todo'[p] \in Seq(Ids) /\ view'[p] \in Accounts

(* A step of p leaves nobody else running alone.                             *)
LEMMA MoveKeepsRuns ==
  ASSUME LookUpInv, RunsInv, NEW p \in Procs, Move(p)
  PROVE  /\ RunsInv' /\ up
         /\ \A q \in Procs : alone'[q] => q = p
<1>1. up
  BY DEF Move, Begin, RunsInv
<1>2. /\ DOMAIN alone' = Procs
      /\ \A q \in Procs : alone'[q] =>
            \/ alone[q] /\ pc[q] # "idle"
            \/ q = p /\ \A r \in Procs : pc[r] = "idle"
  <2>1. CASE Begin(p)
    BY <2>1 DEF Begin, At
  <2>2. CASE pc[p] # "idle" /\ UNCHANGED alone
    BY <2>2 DEF RunsInv
  <2> QED BY <2>1, <2>2 DEF Move
<1>3. \A q \in Procs : alone'[q] => q = p
  BY <1>2 DEF RunsInv, Move, Begin, At
<1>4. up' = up
  BY DEF Move, Flags
<1> QED BY <1>1, <1>2, <1>3, <1>4, RunsKept DEF Move

(* The names of a list of accounts.                                          *)
LEMMA NamesAreList ==
  ASSUME NEW list \in Accounts
  PROVE  [i \in DOMAIN list |-> list[i].id] \in Seq(Ids)
<1>1. \A i \in DOMAIN list : list[i].id \in Ids
  <2>1. \A i \in DOMAIN list : list[i] \in Account
    BY DEF Accounts
  <2>2. \A a \in Account : a.id \in Ids
    BY DEF Account
  <2> QED BY <2>1, <2>2
<1>2. \A f : (\A i \in DOMAIN list : f[i] \in Ids) =>
               [i \in DOMAIN list |-> f[i]] \in Seq(Ids)
  BY DEF Accounts
<1> DEFINE f == [i \in DOMAIN list |-> list[i].id]
<1>3. [i \in DOMAIN list |-> f[i]] \in Seq(Ids)
  BY <1>1, <1>2
<1> QED BY <1>3

(* The order that a page shows is a list of accounts' names.                 *)
LEMMA AppliedIsList ==
  ASSUME NEW saved \in Seq(Ids), NEW list \in Accounts
  PROVE  Applied(saved, list) \in Seq(Ids)
<1> DEFINE Unplaced(a) == \A i \in DOMAIN saved : saved[i] # a.id
           rest == Sublist(list, {n \in DOMAIN list : Unplaced(list[n])})
<1>1. InOrder(saved, IdsOf(list)) \in Seq(Ids)
  BY SublistElements DEF InOrder
<1>2. rest \in Seq(Account)
  BY SublistElements DEF Accounts
<1> HIDE DEF rest
<1>3. [i \in DOMAIN rest |-> rest[i].id] \in Seq(Ids)
  BY <1>2, NamesAreList DEF Accounts
<1>4. Applied(saved, list) = InOrder(saved, IdsOf(list)) \o [i \in DOMAIN rest |-> rest[i].id]
  BY DEF Applied, rest
<1> QED BY <1>1, <1>3, <1>4

(* A step that leaves the stores as they are, at a step that writes none.     *)
LEMMA Elsewhere ==
  ASSUME OrderInv, GroupsInv, StoresInv, NEW p \in Procs, Own(p), Flags, UNCHANGED metaVars,
         {pc[p], pc'[p]} \cap {"copyOrder", "saveOrder", "copyGroups", "saveGroups"} = {},
         pc'[p] = "compare" => copy'[p] \in Seq(Ids)
  PROVE  OrderInv' /\ GroupsInv' /\ StoresInv'
BY OrderKept, GroupsKept, StoresKept DEF metaVars

(* A list is its head and its tail.                                          *)
LEMMA TailElements ==
  ASSUME NEW list \in Seq(Ids), list # <<>>
  PROVE  Elements(list) \subseteq Elements(Tail(list)) \cup {Head(list)}
<1> SUFFICES ASSUME NEW n \in DOMAIN list, n # 1
             PROVE  list[n] \in Elements(Tail(list))
  BY DEF Elements
<1>1. n - 1 \in DOMAIN Tail(list) /\ Tail(list)[n - 1] = list[n]
  OBVIOUS
<1> QED BY <1>1 DEF Elements

(* A task begins an operation.                                               *)
LEMMA TasksMove ==
  ASSUME DataAssumptions, FilesInv, LookUpInv, RunsInv, OrderInv, GroupsInv, StoresInv,
         NEW p \in Tasks, Task(p)
  PROVE  /\ Move(p) /\ OrderInv' /\ GroupsInv' /\ StoresInv'
         /\ alone'[p] /\ kind'[p] \in Removals => Removed(p)'
<1> DEFINE Kept == OrderInv' /\ GroupsInv' /\ StoresInv'
           Fine == ~(alone'[p] /\ kind'[p] \in Removals) \/ Removed(p)'
<1> USE DEF Flags
<1>1. p \in Procs /\ accounts \in Accounts
  BY DEF Procs, FilesInv
<1>2. /\ Procs = DOMAIN pc /\ Procs = DOMAIN kind /\ Procs = DOMAIN id /\ Procs = DOMAIN view
      /\ Procs = DOMAIN copy /\ Procs = DOMAIN todo
      /\ todo[p] \in Seq(Ids) /\ view[p] \in Accounts /\ faults \in Nat /\ KindFits(p)
  BY <1>1 DEF LookUpInv, RunsInv
<1>3. ASSUME NEW person, NEW reconnect, ConnectLookup(p, person, reconnect)
      PROVE  Move(p) /\ Kept /\ Fine
  <2>1. /\ Begin(p) /\ pc[p] = "idle" /\ Enter(p, "connect", "connectSecret")
        /\ view' = [view EXCEPT ![p] = accounts] /\ \E i : id' = [id EXCEPT ![p] = i]
        /\ UNCHANGED <<metaVars, unsaved, torn, up, faults, copy, todo>>
    BY <1>3 DEF ConnectLookup, Begin, At, ghostVars
  <2>2. /\ Own(p) /\ pc'[p] = "connectSecret" /\ kind'[p] = "connect"
        /\ view'[p] \in Accounts /\ todo'[p] \in Seq(Ids) /\ faults' \in Nat
    BY <1>1, <1>2, <2>1 DEF Own, Enter, GoTo
  <2>3. Move(p)
    BY <2>1, <2>2 DEF Move, KindFits
  <2>4. Kept
    BY <1>1, <2>1, <2>2, Elsewhere
  <2> QED BY <2>2, <2>3, <2>4 DEF Removals
<1>4. ASSUME NEW i \in Ids, RemoveAccount(p, i)
      PROVE  Move(p) /\ Kept /\ Fine
  <2>1. /\ Begin(p) /\ pc[p] = "idle" /\ Enter(p, "remove", "secret")
        /\ id' = [id EXCEPT ![p] = i]
        /\ UNCHANGED <<metaVars, unsaved, torn, up, faults, view, copy, todo>>
    BY <1>4 DEF RemoveAccount, Begin, At, ghostVars
  <2>2. /\ Own(p) /\ pc'[p] = "secret" /\ kind'[p] = "remove"
        /\ view'[p] \in Accounts /\ todo'[p] \in Seq(Ids) /\ faults' \in Nat
    BY <1>1, <1>2, <2>1 DEF Own, Enter, GoTo
  <2>3. Move(p)
    BY <2>1, <2>2 DEF Move, KindFits
  <2>4. Kept
    BY <1>1, <2>1, <2>2, Elsewhere
  <2>5. Removed(p)'
    BY <2>2 DEF Removed, PastSecret, PastAccount, PastOrder, PastAlerts, PastGroups
  <2> QED BY <2>3, <2>4, <2>5
<1>5. ASSUME NEW i \in Ids, NEW outcome \in Outcomes, Refresh(p, i, outcome)
      PROVE  Move(p) /\ Kept /\ Fine
  <2>1. /\ Begin(p) /\ pc[p] = "idle" /\ Fault(outcome)
        /\ \/ Enter(p, "refresh", "refresh") /\ id' = [id EXCEPT ![p] = i]
           \/ UNCHANGED <<kind, pc, id>>
        /\ UNCHANGED <<metaVars, unsaved, torn, up, view, copy, todo>>
    BY <1>5 DEF Refresh, Begin, At, CommitAccounts
  <2>2. /\ Own(p)
        /\ (pc'[p] = "refresh" /\ kind'[p] = "refresh") \/ (pc'[p] = "idle" /\ KindFits(p)')
        /\ view'[p] \in Accounts /\ todo'[p] \in Seq(Ids) /\ faults' \in Nat
    <3>1. view'[p] \in Accounts /\ todo'[p] \in Seq(Ids) /\ faults' \in Nat
      BY <1>2, <2>1 DEF Fault
    <3>2. CASE Enter(p, "refresh", "refresh") /\ id' = [id EXCEPT ![p] = i]
      BY <1>1, <1>2, <2>1, <3>1, <3>2 DEF Own, Enter, GoTo
    <3>3. CASE UNCHANGED <<kind, pc, id>>
      BY <1>2, <2>1, <3>1, <3>3 DEF Own, KindFits
    <3> QED BY <2>1, <3>2, <3>3
  <2>3. Move(p)
    BY <2>1, <2>2 DEF Move, KindFits
  <2>4. Kept
    BY <1>1, <2>1, <2>2, Elsewhere
  <2>5. kind'[p] \in Removals => Removed(p)'
    BY <2>2 DEF Removed, Removals, PastSecret, PastAccount, PastOrder, PastAlerts, PastGroups
  <2> QED BY <2>3, <2>4, <2>5
<1>6. CASE DeleteAllLocalData(p)
  <2>1. /\ Begin(p) /\ pc[p] = "idle" /\ Enter(p, "deleteEach", "next")
        /\ todo' = [todo EXCEPT ![p] = [i \in DOMAIN accounts |-> accounts[i].id]]
        /\ UNCHANGED <<accounts, metaVars, unsaved, torn, up, faults, id, view, copy>>
    BY <1>6 DEF DeleteAllLocalData, Begin, At, ghostVars, storeVars
  <2>2. [i \in DOMAIN accounts |-> accounts[i].id] \in Seq(Ids)
    BY <1>1, NamesAreList
  <2>3. /\ Own(p) /\ pc'[p] = "next" /\ kind'[p] = "deleteEach"
        /\ todo'[p] = [i \in DOMAIN accounts |-> accounts[i].id]
        /\ view'[p] \in Accounts /\ todo'[p] \in Seq(Ids) /\ faults' \in Nat
    BY <1>1, <1>2, <2>1, <2>2 DEF Own, Enter, GoTo
  <2>4. Move(p)
    BY <2>1, <2>3 DEF Move, KindFits
  <2>5. Kept
    BY <1>1, <2>1, <2>3, Elsewhere
  <2>6. IdsOf(accounts)' \subseteq Elements(todo'[p])
    BY <2>1, <2>3 DEF IdsOf, Elements
  <2>7. Removed(p)'
    BY <2>3, <2>6
       DEF Removed, PastSecret, PastAccount, PastOrder, PastAlerts, PastGroups
  <2> QED BY <2>4, <2>5, <2>7
<1>7. CASE ShowDashboard(p)
  <2>1. /\ Begin(p) /\ pc[p] = "idle" /\ Enter(p, "show", "compare")
        /\ copy' = [copy EXCEPT ![p] = Applied(order, accounts)]
        /\ UNCHANGED <<metaVars, unsaved, torn, up, faults, id, view, todo>>
    BY <1>7 DEF ShowDashboard, Begin, At, ghostVars
  <2>2. Applied(order, accounts) \in Seq(Ids)
    BY <1>1, AppliedIsList DEF OrderInv
  <2>3. /\ Own(p) /\ pc'[p] = "compare" /\ kind'[p] = "show" /\ copy'[p] \in Seq(Ids)
        /\ view'[p] \in Accounts /\ todo'[p] \in Seq(Ids) /\ faults' \in Nat
    BY <1>1, <1>2, <2>1, <2>2 DEF Own, Enter, GoTo
  <2>4. Move(p)
    BY <2>1, <2>3 DEF Move, KindFits
  <2>5. Kept
    BY <1>1, <2>1, <2>3, Elsewhere
  <2> QED BY <2>3, <2>4, <2>5 DEF Removals
<1>8. ASSUME NEW g \in Groups, NEW i \in Ids, ImportGroup(p, g, {i})
      PROVE  Move(p) /\ Kept /\ Fine
  <2>1. /\ Begin(p) /\ pc[p] = "idle" /\ Enter(p, "group", "copyGroups")
        /\ UNCHANGED <<order, orderFile, alerts, alertsFile, groupsFile, history, historyFile,
                       unsaved, torn, up, faults, id, view, copy, todo>>
    BY <1>8 DEF ImportGroup, Begin, At, ghostVars
  <2>2. /\ Own(p) /\ pc'[p] = "copyGroups" /\ kind'[p] = "group"
        /\ view'[p] \in Accounts /\ todo'[p] \in Seq(Ids) /\ faults' \in Nat
    BY <1>1, <1>2, <2>1 DEF Own, Enter, GoTo
  <2>3. Move(p)
    BY <2>1, <2>2 DEF Move, KindFits
  <2>4. OrderInv' /\ StoresInv'
    BY <1>1, <2>1, <2>2, OrderKept, StoresKept
  <2>5. GroupsInv'
    BY <1>1, <2>2 DEF GroupsInv
  <2> QED BY <2>2, <2>3, <2>4, <2>5 DEF Removals
<1> QED BY <1>3, <1>4, <1>5, <1>6, <1>7, <1>8 DEF Task

(* The page begins an operation.                                             *)
LEMMA PageMoves ==
  ASSUME DataAssumptions, FilesInv, LookUpInv, RunsInv, OrderInv, GroupsInv, StoresInv, Page
  PROVE  /\ Move(UI) /\ OrderInv' /\ GroupsInv' /\ StoresInv'
         /\ alone'[UI] /\ kind'[UI] \in Removals => Removed(UI)'
<1> DEFINE Kept == OrderInv' /\ GroupsInv' /\ StoresInv'
           Fine == ~(alone'[UI] /\ kind'[UI] \in Removals) \/ Removed(UI)'
<1> USE DEF Flags
<1>1. UI \in Procs /\ accounts \in Accounts
  BY DEF Procs, FilesInv
<1>2. /\ Procs = DOMAIN pc /\ Procs = DOMAIN kind /\ Procs = DOMAIN id /\ Procs = DOMAIN view
      /\ Procs = DOMAIN copy /\ Procs = DOMAIN todo
      /\ todo[UI] \in Seq(Ids) /\ view[UI] \in Accounts /\ faults \in Nat /\ KindFits(UI)
  BY <1>1 DEF LookUpInv, RunsInv
<1>3. pc'[UI] = "idle" => Removed(UI)'
  BY DEF Removed, PastSecret, PastAccount, PastOrder, PastAlerts, PastGroups
<1>4. ASSUME NEW requested \in [DOMAIN accounts -> Ids], Reorder(requested)
      PROVE  Move(UI) /\ Kept /\ Fine
  <2>1. /\ Begin(UI) /\ pc[UI] = "idle"
        /\ UNCHANGED <<orderFile, alerts, alertsFile, groups, groupsFile, history, historyFile,
                       unsaved, torn, up, faults, id, copy, todo>>
    BY <1>4 DEF Reorder, Begin, At, ghostVars
  <2>2. CASE /\ order' = requested /\ view' = [view EXCEPT ![UI] = accounts]
             /\ Enter(UI, "reorder", "copyOrder")
    <3>1. /\ Own(UI) /\ pc'[UI] = "copyOrder" /\ kind'[UI] = "reorder"
          /\ view'[UI] \in Accounts /\ todo'[UI] \in Seq(Ids) /\ faults' \in Nat
      BY <1>1, <1>2, <2>1, <2>2 DEF Own, Enter, GoTo
    <3>2. Move(UI)
      BY <2>1, <3>1 DEF Move, KindFits
    <3>3. order' \in Seq(Ids)
      BY <1>1, <2>2 DEF Accounts
    <3>4. OrderInv'
      BY <1>1, <2>1, <3>1, <3>3 DEF OrderInv, Own
    <3>5. GroupsInv' /\ StoresInv'
      BY <1>1, <2>1, <3>1, GroupsKept, StoresKept
    <3> QED BY <3>1, <3>2, <3>4, <3>5 DEF Removals
  <2>3. CASE UNCHANGED <<order, view, kind, pc>>
    <3>1. Own(UI) /\ KindFits(UI)' /\ pc'[UI] = "idle"
      BY <1>2, <2>1, <2>3 DEF Own, KindFits
    <3>2. Move(UI)
      BY <1>2, <2>1, <2>3, <3>1 DEF Move
    <3>3. Kept
      BY <1>1, <2>1, <2>3, <3>1, Elsewhere DEF metaVars
    <3> QED BY <1>3, <3>1, <3>2, <3>3
  <2> QED BY <1>4, <2>2, <2>3 DEF Reorder
<1>5. ASSUME NEW g \in Groups, NEW members, SaveGroup(g, members) \/ DeleteGroup(g)
      PROVE  Move(UI) /\ Kept /\ Fine
  <2>1. /\ Begin(UI) /\ pc[UI] = "idle"
        /\ \/ Enter(UI, "group", "copyGroups")
           \/ UNCHANGED <<groups, kind, pc>>
        /\ UNCHANGED <<order, orderFile, alerts, alertsFile, groupsFile, history, historyFile,
                       unsaved, torn, up, faults, id, view, copy, todo>>
    BY <1>5 DEF SaveGroup, DeleteGroup, Begin, At, ghostVars
  <2>2. CASE Enter(UI, "group", "copyGroups")
    <3>1. /\ Own(UI) /\ pc'[UI] = "copyGroups" /\ kind'[UI] = "group"
          /\ view'[UI] \in Accounts /\ todo'[UI] \in Seq(Ids) /\ faults' \in Nat
      BY <1>1, <1>2, <2>1, <2>2 DEF Own, Enter, GoTo
    <3>2. Move(UI)
      BY <2>1, <3>1 DEF Move, KindFits
    <3>3. OrderInv' /\ StoresInv'
      BY <1>1, <2>1, <3>1, OrderKept, StoresKept
    <3>4. GroupsInv'
      BY <1>1, <3>1 DEF GroupsInv
    <3> QED BY <3>1, <3>2, <3>3, <3>4 DEF Removals
  <2>3. CASE UNCHANGED <<groups, kind, pc>>
    <3>1. Own(UI) /\ KindFits(UI)' /\ pc'[UI] = "idle"
      BY <1>2, <2>1, <2>3 DEF Own, KindFits
    <3>2. Move(UI)
      BY <1>2, <2>1, <2>3, <3>1 DEF Move
    <3>3. Kept
      BY <1>1, <2>1, <2>3, <3>1, Elsewhere DEF metaVars
    <3> QED BY <1>3, <3>1, <3>2, <3>3
  <2> QED BY <2>1, <2>2, <2>3
<1>6. ASSUME NEW i \in Ids, CheckAlerts(i)
      PROVE  Move(UI) /\ Kept /\ Fine
  <2>1. /\ Begin(UI) /\ pc[UI] = "idle" /\ Enter(UI, "alert", "saveAlerts")
        /\ id' = [id EXCEPT ![UI] = i]
        /\ UNCHANGED <<metaVars, unsaved, torn, up, faults, view, copy, todo>>
    BY <1>6 DEF CheckAlerts, Begin, At, ghostVars
  <2>2. /\ Own(UI) /\ pc'[UI] = "saveAlerts" /\ kind'[UI] = "alert"
        /\ view'[UI] \in Accounts /\ todo'[UI] \in Seq(Ids) /\ faults' \in Nat
    BY <1>1, <1>2, <2>1 DEF Own, Enter, GoTo
  <2>3. Move(UI)
    BY <2>1, <2>2 DEF Move, KindFits
  <2>4. Kept
    BY <1>1, <2>1, <2>2, Elsewhere
  <2> QED BY <2>2, <2>3, <2>4 DEF Removals
<1>7. ASSUME NEW outcome \in Outcomes, ClearCachedUsage(outcome)
      PROVE  Move(UI) /\ Kept /\ Fine
  <2>1. /\ Begin(UI) /\ pc[UI] = "idle" /\ Fault(outcome)
        /\ UNCHANGED <<metaVars, unsaved, torn, up, pc, kind, id, view, copy, todo>>
    BY <1>7 DEF ClearCachedUsage, CommitAccounts, Begin, At
  <2>2. /\ Own(UI) /\ KindFits(UI)' /\ pc'[UI] = "idle" /\ faults' \in Nat
    <3>1. faults' \in Nat
      BY <1>2, <2>1 DEF Fault
    <3> QED BY <1>2, <2>1, <3>1 DEF Own, KindFits
  <2>3. Move(UI)
    BY <1>2, <2>1, <2>2 DEF Move
  <2>4. Kept
    BY <1>1, <2>1, <2>2, Elsewhere
  <2> QED BY <1>3, <2>2, <2>3, <2>4
<1>8. ASSUME NEW outcome \in Outcomes, SaveAlerts(outcome)
      PROVE  Move(UI) /\ Kept /\ Fine
  <2>1. /\ pc[UI] = "saveAlerts" /\ Fault(outcome) /\ Return(UI)
        /\ unsaved' = (unsaved \/ outcome # "ok")
        /\ alertsFile' = Saved(alertsFile, alerts', outcome)
        /\ UNCHANGED <<order, orderFile, groups, groupsFile, history, historyFile, torn, up, alone>>
    BY <1>8 DEF SaveAlerts, At
  <2>2. Own(UI) /\ pc'[UI] = "idle" /\ view'[UI] = <<>> /\ todo'[UI] = <<>>
    BY <1>1, <2>1, OwnSteps
  <2>3. Move(UI)
    <3>1. faults' \in Nat /\ view'[UI] \in Accounts /\ todo'[UI] \in Seq(Ids)
      BY <1>2, <2>1, <2>2 DEF Fault, Accounts
    <3>2. KindFits(UI)' /\ Flags
      BY <2>1, <2>2 DEF KindFits
    <3> QED BY <2>1, <2>2, <3>1, <3>2 DEF Move
  <2>4. OrderInv' /\ GroupsInv'
    BY <1>1, <2>1, <2>2, OrderKept, GroupsKept
  <2>5. StoresInv'
    BY <2>1 DEF StoresInv, Saved
  <2> QED BY <1>3, <2>2, <2>3, <2>4, <2>5
<1> HIDE DEF Kept, Fine
<1>9. Move(UI) /\ Kept /\ Fine
  <2>1. CASE \E requested \in [DOMAIN accounts -> Ids] : Reorder(requested)
    BY <1>4, <2>1
  <2>2. CASE \/ \E g \in Groups, i \in Ids : SaveGroup(g, {i})
             \/ \E g \in Groups : DeleteGroup(g)
    BY <1>5, <2>2
  <2>3. CASE \E i \in Ids : CheckAlerts(i)
    BY <1>6, <2>3
  <2>4. CASE \E outcome \in Outcomes : ClearCachedUsage(outcome) \/ SaveAlerts(outcome)
    BY <1>7, <1>8, <2>4
  <2> QED BY <2>1, <2>2, <2>3, <2>4 DEF Page
<1> QED BY <1>9 DEF Kept, Fine

(* An operation goes on: it returns, or takes its next step.                 *)
LEMMA Onward ==
  ASSUME LookUpInv, RunsInv, NEW p \in Procs, pc[p] # "idle", UNCHANGED alone, Flags,
         faults' \in Nat
  PROVE  /\ Return(p) => Move(p) /\ Own(p) /\ pc'[p] = "idle"
         /\ \A s : /\ GoTo(p, s) /\ UNCHANGED <<kind, id, view, copy, todo>>
                  /\ (pc'[p] = s => KindFits(p)')
                  => Move(p) /\ Own(p) /\ pc'[p] = s
<1>1. todo[p] \in Seq(Ids) /\ view[p] \in Accounts
  BY DEF RunsInv
<1>2. ASSUME Return(p)
      PROVE  Move(p) /\ Own(p) /\ pc'[p] = "idle"
  <2>1. Own(p) /\ pc'[p] = "idle" /\ view'[p] = <<>> /\ todo'[p] = <<>>
    BY <1>2, OwnSteps
  <2>2. KindFits(p)'
    BY <2>1 DEF KindFits
  <2> QED BY <2>1, <2>2 DEF Move, Accounts
<1>3. ASSUME NEW s, GoTo(p, s), UNCHANGED <<kind, id, view, copy, todo>>,
             pc'[p] = s => KindFits(p)'
      PROVE  Move(p) /\ Own(p) /\ pc'[p] = s
  <2>1. Own(p) /\ pc'[p] = s
    BY <1>3, OwnSteps
  <2> QED BY <1>1, <1>3, <2>1 DEF Move
<1> QED BY <1>2, <1>3

(* An operation goes on with the accounts, the sign-ins or the deleted ones.  *)
LEMMA QuietMoves ==
  ASSUME DataAssumptions, FilesInv, LookUpInv, RunsInv, OrderInv, GroupsInv, StoresInv,
         NEW p \in Procs,
         \/ NextAccount(p)
         \/ \E outcome \in Outcomes :
               \/ ConnectSecret(p, outcome) \/ ConnectUpsert(p, outcome)
               \/ RemoveSecret(p, outcome) \/ RemoveMetadata(p, outcome)
               \/ RecordDeletion(p, outcome) \/ ClearTombstones(p, outcome)
  PROVE  Move(p) /\ OrderInv' /\ GroupsInv' /\ StoresInv'
<1> DEFINE Kept == OrderInv' /\ GroupsInv' /\ StoresInv'
<1> USE DEF Flags
<1>1. /\ Procs = DOMAIN pc /\ Procs = DOMAIN kind /\ Procs = DOMAIN id /\ Procs = DOMAIN view
      /\ Procs = DOMAIN copy /\ Procs = DOMAIN todo
      /\ todo[p] \in Seq(Ids) /\ view[p] \in Accounts /\ faults \in Nat /\ KindFits(p)
  BY DEF LookUpInv, RunsInv
<1>2. \A outcome : Fault(outcome) => faults' \in Nat
  BY <1>1 DEF Fault
<1>3. ASSUME NextAccount(p)
      PROVE  Move(p) /\ Kept
  <2>1. /\ pc[p] = "next" /\ kind[p] = "deleteEach"
        /\ UNCHANGED <<metaVars, unsaved, torn, up, faults, view, copy, alone>>
    BY <1>1, <1>3 DEF NextAccount, At, KindFits, ghostVars
  <2>2. CASE /\ todo[p] # <<>> /\ GoTo(p, "secret") /\ id' = [id EXCEPT ![p] = Head(todo[p])]
             /\ todo' = [todo EXCEPT ![p] = Tail(@)] /\ UNCHANGED kind
    <3>1. Own(p) /\ pc'[p] = "secret" /\ kind'[p] = "deleteEach" /\ todo'[p] = Tail(todo[p])
      BY <1>1, <2>1, <2>2 DEF Own, GoTo
    <3>2. Tail(todo[p]) \in Seq(Ids)
      BY <1>1, <2>2
    <3>3. KindFits(p)'
      BY <3>1 DEF KindFits
    <3>4. Move(p)
      BY <1>1, <2>1, <3>1, <3>2, <3>3 DEF Move
    <3>5. Kept
      BY <2>1, <3>1, Elsewhere
    <3> QED BY <3>4, <3>5
  <2>3. CASE Enter(p, "deleteRest", "clearTombstones") /\ UNCHANGED <<id, todo>>
    <3>1. Own(p) /\ pc'[p] = "clearTombstones" /\ kind'[p] = "deleteRest"
      BY <1>1, <2>1, <2>3 DEF Own, Enter, GoTo
    <3>2. KindFits(p)'
      BY <3>1 DEF KindFits
    <3>3. Move(p)
      BY <1>1, <2>1, <2>3, <3>1, <3>2 DEF Move
    <3>4. Kept
      BY <2>1, <3>1, Elsewhere
    <3> QED BY <3>3, <3>4
  <2> QED BY <1>3, <2>2, <2>3 DEF NextAccount
<1>4. ASSUME NEW outcome \in Outcomes, ConnectSecret(p, outcome)
      PROVE  Move(p) /\ Kept
  <2>1. /\ pc[p] = "connectSecret" /\ Fault(outcome)
        /\ UNCHANGED <<metaVars, unsaved, torn, up, alone>>
    BY <1>4 DEF ConnectSecret, At, ghostVars
  <2>2. CASE Return(p)
    <3>1. Move(p) /\ Own(p) /\ pc'[p] = "idle"
      BY <1>2, <2>1, <2>2, Onward
    <3>2. Kept
      BY <2>1, <3>1, Elsewhere
    <3> QED BY <3>1, <3>2
  <2>3. CASE /\ copy' = [copy EXCEPT ![p] = id[p] \in secrets]
             /\ GoTo(p, "connectUpsert") /\ UNCHANGED <<kind, id, view, todo>>
    <3>1. Own(p) /\ pc'[p] = "connectUpsert"
      BY <1>1, <2>3 DEF Own, GoTo
    <3>2. KindFits(p)'
      BY <3>1 DEF KindFits
    <3>3. Move(p)
      BY <1>1, <1>2, <2>1, <2>3, <3>1, <3>2 DEF Move
    <3>4. Kept
      BY <2>1, <3>1, Elsewhere
    <3> QED BY <3>3, <3>4
  <2> QED BY <1>4, <2>2, <2>3 DEF ConnectSecret
<1>5. ASSUME NEW outcome \in Outcomes, ConnectUpsert(p, outcome)
      PROVE  Move(p) /\ Kept
  <2>1. /\ pc[p] = "connectUpsert" /\ Fault(outcome) /\ Return(p)
        /\ UNCHANGED <<metaVars, unsaved, torn, up, alone>>
    BY <1>5 DEF ConnectUpsert, CommitAccounts, At
  <2>2. Move(p) /\ Own(p) /\ pc'[p] = "idle"
    BY <1>2, <2>1, Onward
  <2>3. Kept
    BY <2>1, <2>2, Elsewhere
  <2> QED BY <2>2, <2>3
<1>6. ASSUME NEW outcome \in Outcomes, RemoveSecret(p, outcome)
      PROVE  Move(p) /\ Kept
  <2>1. /\ pc[p] = "secret" /\ kind[p] \in {"remove", "deleteEach"} /\ Fault(outcome)
        /\ UNCHANGED <<metaVars, unsaved, torn, up, alone>>
        /\ \/ Return(p)
           \/ GoTo(p, "metadata") /\ UNCHANGED <<kind, id, view, copy, todo>>
    BY <1>1, <1>6 DEF RemoveSecret, At, KindFits, ghostVars
  <2>2. pc'[p] = "metadata" /\ UNCHANGED kind => KindFits(p)'
    BY <2>1 DEF KindFits
  <2>3. Move(p) /\ Own(p) /\ pc'[p] \in {"idle", "metadata"}
    BY <1>2, <2>1, <2>2, Onward
  <2>4. Kept
    BY <2>1, <2>3, Elsewhere
  <2> QED BY <2>3, <2>4
<1>7. ASSUME NEW outcome \in Outcomes, RemoveMetadata(p, outcome)
      PROVE  Move(p) /\ Kept
  <2>1. /\ pc[p] = "metadata" /\ kind[p] \in {"remove", "deleteEach"}
        /\ Fault(outcome) \/ UNCHANGED faults
        /\ UNCHANGED <<metaVars, unsaved, torn, up, alone>>
        /\ \/ Return(p)
           \/ GoTo(p, "tombstone") /\ UNCHANGED <<kind, id, view, copy, todo>>
    BY <1>1, <1>7 DEF RemoveMetadata, Continue, CommitAccounts, At, KindFits
  <2>2. pc'[p] = "tombstone" /\ UNCHANGED kind => KindFits(p)'
    BY <2>1 DEF KindFits
  <2>3. Move(p) /\ Own(p) /\ pc'[p] \in {"idle", "tombstone"}
    BY <1>1, <1>2, <2>1, <2>2, Onward
  <2>4. Kept
    BY <2>1, <2>3, Elsewhere
  <2> QED BY <2>3, <2>4
<1>8. ASSUME NEW outcome \in Outcomes, RecordDeletion(p, outcome) \/ ClearTombstones(p, outcome)
      PROVE  Move(p) /\ Kept
  <2>1. /\ pc[p] \in {"tombstone", "clearTombstones"} /\ kind[p] \in Removals /\ Fault(outcome)
        /\ UNCHANGED <<metaVars, unsaved, torn, up, alone, kind, id, view, copy, todo>>
        /\ GoTo(p, "order")
    BY <1>1, <1>8 DEF RecordDeletion, ClearTombstones, At, KindFits, Removals, ghostVars
  <2>2. pc'[p] = "order" /\ UNCHANGED kind => KindFits(p)'
    BY <2>1 DEF KindFits
  <2>3. Move(p) /\ Own(p) /\ pc'[p] = "order"
    BY <1>2, <2>1, <2>2, Onward
  <2>4. Kept
    BY <2>1, <2>3, Elsewhere
  <2> QED BY <2>3, <2>4
<1> HIDE DEF Kept
<1>9. Move(p) /\ Kept
  BY <1>3, <1>4, <1>5, <1>6, <1>7, <1>8
<1> QED BY <1>9 DEF Kept

(* An operation goes on with the order.                                      *)
LEMMA OrderMoves ==
  ASSUME DataAssumptions, FilesInv, LookUpInv, RunsInv, OrderInv, GroupsInv, StoresInv,
         NEW p \in Procs,
         \/ ForgetOrder(p) \/ CompareOrder(p) \/ CopyOrder(p)
         \/ \E outcome \in Outcomes : SaveOrder(p, outcome)
  PROVE  Move(p) /\ OrderInv' /\ GroupsInv' /\ StoresInv'
<1> DEFINE Kept == OrderInv' /\ GroupsInv' /\ StoresInv'
<1> USE DEF Flags
<1>1. /\ Procs = DOMAIN pc /\ Procs = DOMAIN kind /\ Procs = DOMAIN id /\ Procs = DOMAIN view
      /\ Procs = DOMAIN copy /\ Procs = DOMAIN todo
      /\ todo[p] \in Seq(Ids) /\ view[p] \in Accounts /\ faults \in Nat /\ KindFits(p)
  BY DEF LookUpInv, RunsInv
<1>2. \A outcome : Fault(outcome) => faults' \in Nat
  BY <1>1 DEF Fault
<1>3. ASSUME Own(p), UNCHANGED <<alerts, alertsFile, groups, groupsFile, history, historyFile>>,
             Flags, pc[p] \in {"order", "compare", "copyOrder", "saveOrder"},
             pc'[p] \notin {"copyGroups", "saveGroups"}
      PROVE  GroupsInv' /\ StoresInv'
  BY <1>3, GroupsKept, StoresKept
<1>4. ASSUME ForgetOrder(p)
      PROVE  Move(p) /\ Kept
  <2>1. /\ pc[p] = "order" /\ kind[p] \in Removals
        /\ order' = InOrder(order, Ids \ Scope(p))
        /\ GoTo(p, IF order' = order THEN "alerts" ELSE "copyOrder")
        /\ UNCHANGED <<orderFile, alerts, alertsFile, groups, groupsFile, history, historyFile>>
        /\ UNCHANGED <<unsaved, torn, up, faults, kind, id, view, copy, todo, alone>>
    BY <1>1, <1>4 DEF ForgetOrder, At, KindFits, ghostVars
  <2>2. pc'[p] \in {"alerts", "copyOrder"} /\ UNCHANGED kind => KindFits(p)'
    BY <2>1 DEF KindFits
  <2>3. Move(p) /\ Own(p) /\ pc'[p] = IF order' = order THEN "alerts" ELSE "copyOrder"
    BY <1>1, <2>1, <2>2, Onward
  <2>4. order' \in Seq(Ids)
    BY <2>1, SublistElements DEF InOrder, OrderInv
  <2>5. CASE order' = order
    BY <1>3, <2>1, <2>3, <2>5, OrderKept
  <2>6. CASE order' # order
    <3>1. OrderInv'
      BY <2>1, <2>3, <2>4, <2>6 DEF OrderInv, Own
    <3> QED BY <1>3, <2>1, <2>3, <2>6, <3>1
  <2> QED BY <2>5, <2>6
<1>5. ASSUME CompareOrder(p)
      PROVE  Move(p) /\ Kept
  <2>1. /\ pc[p] = "compare" /\ kind[p] = "show" /\ order' = copy[p]
        /\ UNCHANGED <<orderFile, alerts, alertsFile, groups, groupsFile, history, historyFile>>
        /\ UNCHANGED <<unsaved, torn, up, faults, alone>>
    BY <1>1, <1>5 DEF CompareOrder, At, KindFits, ghostVars
  <2>2. order' \in Seq(Ids)
    BY <2>1 DEF OrderInv
  <2>3. CASE order' = order /\ Return(p)
    <3>1. Move(p) /\ Own(p) /\ pc'[p] = "idle"
      BY <1>1, <2>1, <2>3, Onward
    <3> QED BY <1>3, <2>1, <2>3, <3>1, OrderKept
  <2>4. CASE GoTo(p, "copyOrder") /\ UNCHANGED <<kind, id, view, copy, todo>>
    <3>1. pc'[p] = "copyOrder" /\ UNCHANGED kind => KindFits(p)'
      BY <2>1 DEF KindFits
    <3>2. Move(p) /\ Own(p) /\ pc'[p] = "copyOrder"
      BY <1>1, <2>1, <2>4, <3>1, Onward
    <3>3. OrderInv'
      BY <2>1, <2>2, <3>2 DEF OrderInv, Own
    <3> QED BY <1>3, <2>1, <3>2, <3>3
  <2> QED BY <1>5, <2>3, <2>4 DEF CompareOrder
<1>6. ASSUME CopyOrder(p)
      PROVE  Move(p) /\ Kept
  <2>1. /\ pc[p] = "copyOrder" /\ kind[p] \in Removals \cup {"show", "reorder"}
        /\ copy' = [copy EXCEPT ![p] = order]
        /\ torn' = (torn \/ \E q \in Procs : pc[q] = "saveOrder")
        /\ pc' = [pc EXCEPT ![p] = "saveOrder"]
        /\ UNCHANGED <<order, orderFile, unsaved, up, faults, kind, id, view, todo, alone>>
        /\ UNCHANGED <<alerts, alertsFile, groups, groupsFile, history, historyFile>>
    BY <1>1, <1>6 DEF CopyOrder, At, KindFits, Saving, GoTo, metaVars
  <2>2. Own(p) /\ pc'[p] = "saveOrder" /\ copy'[p] = order /\ kind'[p] = kind[p]
    BY <1>1, <2>1 DEF Own
  <2>3. KindFits(p)'
    BY <2>1, <2>2 DEF KindFits
  <2>4. Move(p)
    BY <1>1, <2>1, <2>2, <2>3 DEF Move
  <2>5. OrderInv'
    BY <2>1, <2>2 DEF OrderInv, Own
  <2> QED BY <1>3, <2>1, <2>2, <2>4, <2>5
<1>7. ASSUME NEW outcome \in Outcomes, SaveOrder(p, outcome)
      PROVE  Move(p) /\ Kept
  <2>1. /\ pc[p] = "saveOrder" /\ kind[p] \in Removals \cup {"show", "reorder"}
        /\ Fault(outcome) /\ unsaved' = (unsaved \/ outcome # "ok")
        /\ orderFile' = Saved(orderFile, copy[p], outcome)
        /\ UNCHANGED <<order, torn, up, alone>>
        /\ UNCHANGED <<alerts, alertsFile, groups, groupsFile, history, historyFile>>
    BY <1>1, <1>7 DEF SaveOrder, At, KindFits
  <2>2. \/ Return(p)
        \/ /\ kind[p] = "reorder" /\ Enter(p, "show", "compare")
           /\ copy' = [copy EXCEPT ![p] = Applied(order, view[p])] /\ UNCHANGED <<id, view, todo>>
        \/ /\ kind[p] \in Removals /\ GoTo(p, "alerts")
           /\ UNCHANGED <<kind, id, view, copy, todo>>
    BY <1>7, <2>1 DEF SaveOrder, Continue
  <2>3. copy[p] \in Seq(Ids) /\ orderFile' \in Seq(Ids)
    BY <2>1 DEF OrderInv, Saved
  <2>4. ASSUME Own(p), pc'[p] \notin {"copyOrder", "saveOrder"},
               pc'[p] = "compare" => copy'[p] \in Seq(Ids)
        PROVE  OrderInv'
    <3>1. order' \in Seq(Ids)
      BY <2>1 DEF OrderInv
    <3>2. ASSUME NEW q \in Procs, pc'[q] \in {"compare", "saveOrder"}
          PROVE  copy'[q] \in Seq(Ids)
      BY <2>4, <3>2 DEF OrderInv, Own
    <3>3. ASSUME up', ~unsaved', ~torn', \A q \in Procs : pc'[q] # "copyOrder"
          PROVE  /\ \A q \in Procs : pc'[q] = "saveOrder" => copy'[q] = order'
                 /\ orderFile' = order'
      <4>1. /\ up /\ ~unsaved /\ ~torn /\ outcome = "ok"
            /\ \A q \in Procs : pc[q] # "copyOrder"
        BY <2>1, <2>4, <3>3 DEF Own
      <4>2. \A q \in Procs : pc[q] = "saveOrder" => copy[q] = order
        BY <4>1 DEF OrderInv
      <4> QED BY <2>1, <2>4, <4>1, <4>2 DEF Own, Saved
    <3> QED BY <2>3, <3>1, <3>2, <3>3 DEF OrderInv
  <2>5. CASE Return(p)
    <3>1. Move(p) /\ Own(p) /\ pc'[p] = "idle"
      BY <1>2, <2>1, <2>5, Onward
    <3> QED BY <1>3, <2>1, <2>4, <3>1
  <2>6. CASE /\ Enter(p, "show", "compare") /\ UNCHANGED <<id, view, todo>>
             /\ copy' = [copy EXCEPT ![p] = Applied(order, view[p])]
    <3>1. Applied(order, view[p]) \in Seq(Ids)
      BY <1>1, AppliedIsList DEF OrderInv
    <3>2. Own(p) /\ pc'[p] = "compare" /\ kind'[p] = "show" /\ copy'[p] \in Seq(Ids)
      BY <1>1, <2>6, <3>1 DEF Own, Enter, GoTo
    <3>3. KindFits(p)'
      BY <3>2 DEF KindFits
    <3>4. Move(p)
      BY <1>1, <1>2, <2>1, <2>6, <3>2, <3>3 DEF Move
    <3> QED BY <1>3, <2>1, <2>4, <3>2, <3>4
  <2>7. CASE /\ kind[p] \in Removals /\ GoTo(p, "alerts")
             /\ UNCHANGED <<kind, id, view, copy, todo>>
    <3>1. pc'[p] = "alerts" /\ UNCHANGED kind => KindFits(p)'
      BY <2>7 DEF KindFits
    <3>2. Move(p) /\ Own(p) /\ pc'[p] = "alerts"
      BY <1>2, <2>1, <2>7, <3>1, Onward
    <3> QED BY <1>3, <2>1, <2>4, <3>2
  <2> QED BY <2>2, <2>5, <2>6, <2>7
<1> HIDE DEF Kept
<1>8. Move(p) /\ Kept
  BY <1>4, <1>5, <1>6, <1>7
<1> QED BY <1>8 DEF Kept

(* An operation goes on with the groups, the alerts or the history.          *)
LEMMA StoreMoves ==
  ASSUME DataAssumptions, FilesInv, LookUpInv, RunsInv, OrderInv, GroupsInv, StoresInv,
         NEW p \in Procs,
         \/ ForgetGroups(p) \/ CopyGroups(p)
         \/ \E outcome \in Outcomes :
               \/ SaveGroups(p, outcome) \/ RecordReading(p, outcome)
               \/ ForgetAlerts(p, outcome) \/ ForgetHistory(p, outcome)
  PROVE  Move(p) /\ OrderInv' /\ GroupsInv' /\ StoresInv'
<1> DEFINE Kept == OrderInv' /\ GroupsInv' /\ StoresInv'
<1> USE DEF Flags
<1>1. /\ Procs = DOMAIN pc /\ Procs = DOMAIN kind /\ Procs = DOMAIN id /\ Procs = DOMAIN view
      /\ Procs = DOMAIN copy /\ Procs = DOMAIN todo
      /\ todo[p] \in Seq(Ids) /\ view[p] \in Accounts /\ faults \in Nat /\ KindFits(p)
  BY DEF LookUpInv, RunsInv
<1>2. \A outcome : Fault(outcome) => faults' \in Nat
  BY <1>1 DEF Fault
<1>3. ASSUME Own(p), UNCHANGED <<order, orderFile, alerts, alertsFile, history, historyFile>>,
             Flags, pc[p] \in {"groups", "copyGroups", "saveGroups"},
             pc'[p] \in {"idle", "copyGroups", "saveGroups", "history"}
      PROVE  OrderInv' /\ StoresInv'
  BY <1>3, OrderKept, StoresKept
<1>4. ASSUME ForgetGroups(p)
      PROVE  Move(p) /\ Kept
  <2>1. /\ pc[p] = "groups" /\ kind[p] \in Removals
        /\ GoTo(p, IF groups' = groups THEN "history" ELSE "copyGroups")
        /\ UNCHANGED <<order, orderFile, alerts, alertsFile, groupsFile, history, historyFile>>
        /\ UNCHANGED <<unsaved, torn, up, faults, kind, id, view, copy, todo, alone>>
    BY <1>1, <1>4 DEF ForgetGroups, At, KindFits, ghostVars
  <2>2. pc'[p] \in {"history", "copyGroups"} /\ UNCHANGED kind => KindFits(p)'
    BY <2>1 DEF KindFits
  <2>3. Move(p) /\ Own(p) /\ pc'[p] = IF groups' = groups THEN "history" ELSE "copyGroups"
    BY <1>1, <2>1, <2>2, Onward
  <2>4. CASE groups' = groups
    BY <1>3, <2>1, <2>3, <2>4, GroupsKept
  <2>5. CASE groups' # groups
    <3>1. GroupsInv'
      BY <2>3, <2>5 DEF GroupsInv
    <3> QED BY <1>3, <2>1, <2>3, <2>5, <3>1
  <2> QED BY <2>4, <2>5
<1>5. ASSUME CopyGroups(p)
      PROVE  Move(p) /\ Kept
  <2>1. /\ pc[p] = "copyGroups" /\ kind[p] \in Removals \cup {"group"}
        /\ copy' = [copy EXCEPT ![p] = groups]
        /\ torn' = (torn \/ \E q \in Procs : pc[q] = "saveGroups")
        /\ pc' = [pc EXCEPT ![p] = "saveGroups"]
        /\ UNCHANGED <<groups, groupsFile, unsaved, up, faults, kind, id, view, todo, alone>>
        /\ UNCHANGED <<order, orderFile, alerts, alertsFile, history, historyFile>>
    BY <1>1, <1>5 DEF CopyGroups, At, KindFits, Saving, GoTo, metaVars
  <2>2. Own(p) /\ pc'[p] = "saveGroups" /\ copy'[p] = groups /\ kind'[p] = kind[p]
    BY <1>1, <2>1 DEF Own
  <2>3. KindFits(p)'
    BY <2>1, <2>2 DEF KindFits
  <2>4. Move(p)
    BY <1>1, <2>1, <2>2, <2>3 DEF Move
  <2>5. GroupsInv'
    BY <2>1, <2>2 DEF GroupsInv, Own
  <2> QED BY <1>3, <2>1, <2>2, <2>4, <2>5
<1>6. ASSUME NEW outcome \in Outcomes, SaveGroups(p, outcome)
      PROVE  Move(p) /\ Kept
  <2>1. /\ pc[p] = "saveGroups" /\ kind[p] \in Removals \cup {"group"}
        /\ Fault(outcome) /\ unsaved' = (unsaved \/ outcome # "ok")
        /\ groupsFile' = Saved(groupsFile, copy[p], outcome)
        /\ UNCHANGED <<groups, torn, up, alone>>
        /\ UNCHANGED <<order, orderFile, alerts, alertsFile, history, historyFile>>
    BY <1>1, <1>6 DEF SaveGroups, At, KindFits
  <2>2. \/ Return(p)
        \/ /\ kind[p] \in Removals /\ GoTo(p, "history")
           /\ UNCHANGED <<kind, id, view, copy, todo>>
    BY <1>6, <2>1 DEF SaveGroups, Continue
  <2>3. kind[p] \in Removals /\ pc'[p] = "history" /\ UNCHANGED kind => KindFits(p)'
    BY DEF KindFits
  <2>4. Move(p) /\ Own(p) /\ pc'[p] \in {"idle", "history"}
    BY <1>2, <2>1, <2>2, <2>3, Onward
  <2>5. GroupsInv'
    <3>1. ASSUME up', ~unsaved', ~torn', \A q \in Procs : pc'[q] # "copyGroups"
          PROVE  /\ \A q \in Procs : pc'[q] = "saveGroups" => copy'[q] = groups'
                 /\ groupsFile' = groups'
      <4>1. /\ up /\ ~unsaved /\ ~torn /\ outcome = "ok"
            /\ \A q \in Procs : pc[q] # "copyGroups"
        BY <2>1, <2>4, <3>1 DEF Own
      <4>2. \A q \in Procs : pc[q] = "saveGroups" => copy[q] = groups
        BY <4>1 DEF GroupsInv
      <4> QED BY <2>1, <2>4, <4>1, <4>2 DEF Own, Saved
    <3> QED BY <3>1 DEF GroupsInv
  <2> QED BY <1>3, <2>1, <2>4, <2>5
<1>7. ASSUME NEW outcome \in Outcomes, RecordReading(p, outcome)
      PROVE  Move(p) /\ Kept
  <2>1. /\ pc[p] = "refresh" /\ Fault(outcome) /\ Return(p)
        /\ unsaved' = (unsaved \/ outcome # "ok")
        /\ historyFile' = Saved(historyFile, history', outcome)
        /\ UNCHANGED <<order, orderFile, groups, groupsFile, alerts, alertsFile, torn, up, alone>>
    BY <1>7 DEF RecordReading, At
  <2>2. Move(p) /\ Own(p) /\ pc'[p] = "idle"
    BY <1>2, <2>1, Onward
  <2>3. StoresInv'
    BY <2>1 DEF StoresInv, Saved
  <2> QED BY <2>1, <2>2, <2>3, OrderKept, GroupsKept
<1>8. ASSUME NEW outcome \in Outcomes, ForgetAlerts(p, outcome)
      PROVE  Move(p) /\ Kept
  <2>1. /\ pc[p] = "alerts" /\ kind[p] \in Removals /\ Fault(outcome)
        /\ unsaved' = (unsaved \/ outcome # "ok")
        /\ \/ alerts' = alerts /\ UNCHANGED alertsFile
           \/ alertsFile' = Saved(alertsFile, alerts', outcome)
        /\ UNCHANGED <<order, orderFile, groups, groupsFile, history, historyFile, torn, up, alone>>
    BY <1>1, <1>8 DEF ForgetAlerts, At, KindFits
  <2>2. \/ Return(p)
        \/ GoTo(p, "groups") /\ UNCHANGED <<kind, id, view, copy, todo>>
    BY <1>8 DEF ForgetAlerts, Continue
  <2>3. pc'[p] = "groups" /\ UNCHANGED kind => KindFits(p)'
    BY <2>1 DEF KindFits
  <2>4. Move(p) /\ Own(p) /\ pc'[p] \in {"idle", "groups"}
    BY <1>2, <2>1, <2>2, <2>3, Onward
  <2>5. StoresInv'
    BY <2>1 DEF StoresInv, Saved
  <2> QED BY <2>1, <2>4, <2>5, OrderKept, GroupsKept
<1>9. ASSUME NEW outcome \in Outcomes, ForgetHistory(p, outcome)
      PROVE  Move(p) /\ Kept
  <2>1. /\ pc[p] = "history" /\ kind[p] \in Removals /\ Fault(outcome)
        /\ unsaved' = (unsaved \/ outcome # "ok") /\ history' = history \ Scope(p)
        /\ \/ historyFile' = Saved(historyFile, history', outcome)
           \/ ~HistoryToWrite(p) /\ UNCHANGED historyFile
        /\ UNCHANGED <<order, orderFile, groups, groupsFile, alerts, alertsFile, torn, up, alone>>
    BY <1>1, <1>9 DEF ForgetHistory, At, KindFits
  <2>2. \/ Return(p)
        \/ /\ kind[p] = "deleteEach" /\ GoTo(p, "next")
           /\ UNCHANGED <<kind, id, view, copy, todo>>
    BY <1>9 DEF ForgetHistory
  <2>3. kind[p] = "deleteEach" /\ pc'[p] = "next" /\ UNCHANGED kind => KindFits(p)'
    BY DEF KindFits
  <2>4. Move(p) /\ Own(p) /\ pc'[p] \in {"idle", "next"}
    BY <1>2, <2>1, <2>2, <2>3, Onward
  <2>5. StoresInv'
    BY <2>1 DEF StoresInv, Saved, HistoryToWrite, Scope
  <2> QED BY <2>1, <2>4, <2>5, OrderKept, GroupsKept
<1> HIDE DEF Kept
<1>10. Move(p) /\ Kept
  BY <1>4, <1>5, <1>6, <1>7, <1>8, <1>9
<1> QED BY <1>10 DEF Kept

(* What an operation that forgets has forgotten stays forgotten, as long as  *)
(* nothing else runs.                                                       *)
LEMMA RemovedKept ==
  ASSUME NEW p \in Procs, Removed(p), pc[p] # "idle", UNCHANGED <<kind, id, todo>>,
         IdsOf(accounts') \subseteq IdsOf(accounts),
         pc[p] \in {"secret", "metadata"} =>
            pc'[p] \in {"secret", "metadata"} \/ id[p] \notin IdsOf(accounts'),
         pc'[p] \in PastSecret /\ ~Whole(p) =>
            (pc[p] \in PastSecret /\ UNCHANGED secrets) \/ id[p] \notin secrets',
         pc'[p] \in PastAccount =>
            pc[p] \in PastAccount \/ Scope(p) \cap IdsOf(accounts') = {},
         pc'[p] \in PastOrder =>
            (pc[p] \in PastOrder /\ UNCHANGED order) \/ Scope(p) \cap Elements(order') = {},
         pc'[p] \in PastAlerts =>
            (pc[p] \in PastAlerts /\ UNCHANGED alerts) \/ Scope(p) \cap alerts' = {},
         pc'[p] \in PastGroups =>
            \/ pc[p] \in PastGroups /\ UNCHANGED groups
            \/ \A g \in Groups : groups'[g] = NoGroup \/ Scope(p) \cap groups'[g] = {}
  PROVE  Removed(p)'
<1>1. Whole(p)' = Whole(p) /\ Scope(p)' = Scope(p)
  BY DEF Scope, Whole
<1>2. IdsOf(accounts)' = IdsOf(accounts') /\ Elements(order)' = Elements(order')
  BY DEF IdsOf, Elements
<1>3. Elements(todo[p])' = Elements(todo[p])
  BY DEF Elements
<1>4. kind'[p] = "deleteEach" /\ pc'[p] # "idle" =>
       IdsOf(accounts') \subseteq
         Elements(todo[p]) \cup IF pc'[p] \in {"secret", "metadata"} THEN {id[p]} ELSE {}
  BY DEF Removed
<1>5. pc'[p] \in PastSecret /\ ~Whole(p) => id[p] \notin secrets'
  BY DEF Removed
<1>6. /\ pc'[p] \in PastAccount => Scope(p) \cap IdsOf(accounts') = {}
      /\ pc'[p] \in PastOrder => Scope(p) \cap Elements(order') = {}
      /\ pc'[p] \in PastAlerts => Scope(p) \cap alerts' = {}
  BY <1>2 DEF Removed
<1>7. pc'[p] \in PastGroups =>
        \A g \in Groups : groups'[g] = NoGroup \/ Scope(p) \cap groups'[g] = {}
  BY DEF Removed
<1> QED BY <1>1, <1>2, <1>3, <1>4, <1>5, <1>6, <1>7 DEF Removed

(* Every step of a removal has forgotten what its place says.                *)
LEMMA RemovalGoesOn ==
  ASSUME DataAssumptions, FilesInv, LookUpInv, RunsInv, OrderInv, RemovedInv, NEW p \in Procs,
         Continued(p), alone[p], kind'[p] \in Removals, pc'[p] # "idle"
  PROVE  Removed(p)'
<1>1. /\ Procs = DOMAIN pc /\ Procs = DOMAIN kind /\ Procs = DOMAIN id /\ Procs = DOMAIN view
      /\ Procs = DOMAIN copy /\ Procs = DOMAIN todo
      /\ todo[p] \in Seq(Ids) /\ KindFits(p)
      /\ kind[p] \in Removals => Removed(p)
  BY DEF LookUpInv, RunsInv, RemovedInv
<1>2. ~Return(p)
  BY OwnSteps
<1>3. \A s : GoTo(p, s) => pc'[p] = s
  BY OwnSteps
<1> USE DEF PastSecret, PastAccount, PastOrder, PastAlerts, PastGroups
<1>4. CASE NextAccount(p)
  <2>1. /\ pc[p] = "next" /\ kind[p] = "deleteEach" /\ accounts' = accounts
        /\ IdsOf(accounts) \subseteq Elements(todo[p])
    BY <1>1, <1>4 DEF NextAccount, At, KindFits, storeVars, Removals, Removed
  <2>2. IdsOf(accounts)' = IdsOf(accounts)
    BY <2>1 DEF IdsOf
  <2>3. CASE todo[p] = <<>>
    <3>1. pc'[p] = "clearTombstones" /\ kind'[p] = "deleteRest"
      BY <1>1, <1>4, <2>3 DEF NextAccount, Enter, GoTo
    <3>2. IdsOf(accounts) = {}
      BY <2>1, <2>3 DEF Elements
    <3> QED BY <2>2, <3>1, <3>2 DEF Removed, Whole
  <2>4. CASE todo[p] # <<>>
    <3>1. /\ pc'[p] = "secret" /\ id'[p] = Head(todo[p]) /\ todo'[p] = Tail(todo[p])
      BY <1>1, <1>4, <2>4 DEF NextAccount, GoTo
    <3>2. Elements(todo[p]) \subseteq Elements(Tail(todo[p])) \cup {Head(todo[p])}
      BY <1>1, <2>4, TailElements
    <3>3. Elements(todo[p])' = Elements(Tail(todo[p]))
      BY <3>1 DEF Elements
    <3> QED BY <2>1, <2>2, <3>1, <3>2, <3>3 DEF Removed
  <2> QED BY <2>3, <2>4
<1>5. ASSUME NEW outcome \in Outcomes, ConnectSecret(p, outcome)
      PROVE  Removed(p)'
  <2>1. /\ pc[p] = "connectSecret" /\ pc'[p] = "connectUpsert"
        /\ UNCHANGED <<accounts, kind, id, todo>>
    BY <1>2, <1>3, <1>5 DEF ConnectSecret, At
  <2> QED BY <1>1, <2>1, RemovedKept
<1>6. ASSUME NEW outcome \in Outcomes, RemoveSecret(p, outcome)
      PROVE  Removed(p)'
  <2>1. /\ pc[p] = "secret" /\ pc'[p] = "metadata" /\ secrets' = secrets \ {id[p]}
        /\ UNCHANGED <<accounts, kind, id, todo>>
    BY <1>2, <1>3, <1>6 DEF RemoveSecret, At
  <2> QED BY <1>1, <2>1, RemovedKept
<1>7. ASSUME NEW outcome \in Outcomes, RemoveMetadata(p, outcome)
      PROVE  Removed(p)'
  <2>1. /\ pc[p] = "metadata" /\ pc'[p] = "tombstone" /\ outcome = "ok"
        /\ UNCHANGED <<secrets, kind, id, todo>> /\ ~Whole(p)
    BY <1>1, <1>2, <1>3, <1>7 DEF RemoveMetadata, Continue, At, KindFits, Whole
  <2>2. IdsOf(accounts') \subseteq IdsOf(accounts) \ {id[p]}
    <3>1. \/ accounts' = Without(accounts, id[p])
          \/ accounts' = accounts /\ id[p] \notin IdsOf(accounts)
      BY <1>7, <2>1 DEF RemoveMetadata, CommitAccounts, Commit
    <3>2. accounts \in Accounts
      BY DEF FilesInv
    <3> QED BY <3>1, <3>2, WithoutIsList
  <2>3. Scope(p) \cap IdsOf(accounts') = {}
    BY <2>1, <2>2 DEF Scope
  <2> QED BY <1>1, <2>1, <2>2, <2>3, RemovedKept
<1>8. ASSUME \/ CopyOrder(p) \/ CopyGroups(p)
             \/ \E outcome \in Outcomes : \/ RecordDeletion(p, outcome)
                                          \/ ClearTombstones(p, outcome)
                                          \/ SaveOrder(p, outcome) \/ SaveGroups(p, outcome)
                                          \/ ForgetHistory(p, outcome)
      PROVE  Removed(p)'
  <2>1. UNCHANGED <<accounts, secrets, order, alerts, groups, kind, id, todo>>
    <3>1. ASSUME NEW outcome, SaveOrder(p, outcome)
          PROVE  UNCHANGED <<accounts, secrets, order, alerts, groups, kind, id, todo>>
      <4>1. ~Enter(p, "show", "compare")
        BY <1>1 DEF Enter, Removals
      <4> QED BY <1>2, <3>1, <4>1 DEF SaveOrder, Continue, storeVars
    <3> QED BY <1>2, <1>8, <3>1
         DEF CopyOrder, CopyGroups, RecordDeletion, ClearTombstones, SaveGroups,
             ForgetHistory, Continue, storeVars, metaVars
  <2>2. \/ pc[p] = "copyOrder" /\ pc'[p] = "saveOrder"
        \/ pc[p] = "copyGroups" /\ pc'[p] = "saveGroups"
        \/ pc[p] \in {"tombstone", "clearTombstones"} /\ pc'[p] = "order"
        \/ pc[p] = "saveOrder" /\ pc'[p] = "alerts"
        \/ pc[p] = "saveGroups" /\ pc'[p] = "history"
        \/ pc[p] = "history" /\ pc'[p] = "next"
    <3>1. ASSUME NEW outcome, SaveOrder(p, outcome)
          PROVE  pc[p] = "saveOrder" /\ pc'[p] = "alerts"
      <4>1. ~Enter(p, "show", "compare")
        BY <1>1 DEF Enter, Removals
      <4> QED BY <1>2, <1>3, <3>1, <4>1 DEF SaveOrder, Continue, At
    <3> QED BY <1>2, <1>3, <1>8, <3>1
         DEF CopyOrder, CopyGroups, RecordDeletion, ClearTombstones, SaveGroups,
             ForgetHistory, Continue, At
  <2> QED BY <1>1, <2>1, <2>2, RemovedKept
<1>9. CASE ForgetOrder(p)
  <2>1. /\ pc[p] = "order" /\ pc'[p] \in {"alerts", "copyOrder"}
        /\ order' = InOrder(order, Ids \ Scope(p))
        /\ UNCHANGED <<accounts, secrets, kind, id, todo>>
    BY <1>3, <1>9 DEF ForgetOrder, At, storeVars
  <2>2. Scope(p) \cap Elements(order') = {}
    BY <2>1, SublistElements DEF InOrder, Elements, OrderInv
  <2> QED BY <1>1, <2>1, <2>2, RemovedKept
<1>10. ASSUME NEW outcome \in Outcomes, ForgetAlerts(p, outcome)
       PROVE  Removed(p)'
  <2>1. /\ pc[p] = "alerts" /\ pc'[p] = "groups" /\ alerts' = alerts \ Scope(p)
        /\ UNCHANGED <<accounts, secrets, order, kind, id, todo>>
    BY <1>2, <1>3, <1>10 DEF ForgetAlerts, Continue, At, storeVars
  <2> QED BY <1>1, <2>1, RemovedKept
<1>11. CASE ForgetGroups(p)
  <2>1. /\ pc[p] = "groups" /\ pc'[p] \in {"history", "copyGroups"} /\ groups' = GroupsWithout(p)
        /\ UNCHANGED <<accounts, secrets, order, alerts, kind, id, todo>>
    BY <1>3, <1>11 DEF ForgetGroups, At, storeVars
  <2>2. \A g \in Groups : groups'[g] = NoGroup \/ Scope(p) \cap groups'[g] = {}
    BY <2>1 DEF GroupsWithout, Scope
  <2> QED BY <1>1, <2>1, <2>2, RemovedKept
<1>12. ~CompareOrder(p)
  <2>1. CompareOrder(p) => kind[p] = "show" /\ UNCHANGED kind
    BY <1>1, <1>2 DEF CompareOrder, At, KindFits
  <2> QED BY <2>1 DEF Removals
<1>13. ASSUME NEW outcome \in Outcomes
       PROVE  ~ConnectUpsert(p, outcome) /\ ~RecordReading(p, outcome)
  BY <1>2 DEF ConnectUpsert, RecordReading
<1> QED BY <1>4, <1>5, <1>6, <1>7, <1>8, <1>9, <1>10, <1>11, <1>12, <1>13 DEF Continued

(* What holds of the stores a removal goes through.                          *)
DeletionInv == RunsInv /\ OrderInv /\ GroupsInv /\ StoresInv /\ RemovedInv

(* A step of p keeps it when p has forgotten what it should.                 *)
LEMMA MovesKeepDeletion ==
  ASSUME LookUpInv, DeletionInv, NEW p \in Procs, Move(p), OrderInv', GroupsInv', StoresInv',
         alone'[p] /\ kind'[p] \in Removals => Removed(p)'
  PROVE  DeletionInv'
<1>1. RunsInv' /\ \A q \in Procs : alone'[q] => q = p
  BY MoveKeepsRuns DEF DeletionInv
<1>2. RemovedInv'
  BY <1>1 DEF RemovedInv
<1> QED BY <1>1, <1>2 DEF DeletionInv

(* Who runs alone changes only where an operation begins.                    *)
LEMMA ContinuedIsNoBegin ==
  ASSUME NEW p, Continued(p)
  PROVE  UNCHANGED alone
BY DEF Continued, NextAccount, ForgetOrder, ForgetGroups, CompareOrder, CopyOrder, CopyGroups,
   ConnectSecret, ConnectUpsert, RecordReading, RemoveSecret, RemoveMetadata, RecordDeletion,
   ClearTombstones, ForgetAlerts, ForgetHistory, SaveOrder, SaveGroups

(* An operation that goes on keeps it.                                       *)
LEMMA ContinuedKeepsDeletion ==
  ASSUME DataAssumptions, FilesInv, LookUpInv, DeletionInv, NEW p \in Procs, Continued(p)
  PROVE  DeletionInv' /\ Own(p)
<1> USE DEF DeletionInv
<1>1. Move(p) /\ OrderInv' /\ GroupsInv' /\ StoresInv'
  BY QuietMoves, OrderMoves, StoreMoves DEF Continued
<1>2. ASSUME alone'[p], kind'[p] \in Removals
      PROVE  Removed(p)'
  <2>1. CASE pc'[p] = "idle"
    BY <2>1 DEF Removed, PastSecret, PastAccount, PastOrder, PastAlerts, PastGroups
  <2>2. CASE pc'[p] # "idle"
    <3>1. alone[p]
      BY <1>2, ContinuedIsNoBegin
    <3> QED BY <1>2, <2>2, <3>1, RemovalGoesOn
  <2> QED BY <2>1, <2>2
<1>3. DeletionInv'
  BY <1>1, <1>2, MovesKeepDeletion
<1> QED BY <1>1, <1>3 DEF Move

(* A stop, a new installation and a start.                                   *)
LEMMA LifeKeepsDeletion ==
  ASSUME LookUpInv, DeletionInv,
         \/ Stop \/ Reinstall
         \/ \E purgeFails, receiptFails \in BOOLEAN : Start(purgeFails, receiptFails)
  PROVE  DeletionInv'
<1> USE DEF DeletionInv
<1>1. /\ <<>> \in Seq(Ids) /\ <<>> \in Accounts /\ faults \in Nat /\ faults + 1 \in Nat
      /\ orderFile \in Seq(Ids)
  BY DEF Accounts, RunsInv, OrderInv
<1>2. CASE Stop
  <2>1. RunsInv'
    <3>1. faults' \in Nat
      BY <1>1, <1>2 DEF Stop
    <3>2. /\ pc' = [q \in Procs |-> "idle"] /\ kind' = [q \in Procs |-> "none"]
          /\ view' = [q \in Procs |-> <<>>] /\ copy' = [q \in Procs |-> <<>>]
          /\ todo' = [q \in Procs |-> <<>>] /\ alone' = [q \in Procs |-> FALSE]
      BY <1>2 DEF Stop
    <3> QED BY <1>1, <3>1, <3>2 DEF RunsInv, KindFits
  <2>2. OrderInv' /\ GroupsInv' /\ StoresInv' /\ RemovedInv'
    BY <1>1, <1>2 DEF Stop, OrderInv, GroupsInv, StoresInv, RemovedInv
  <2> QED BY <2>1, <2>2
<1>3. ASSUME Reinstall \/ \E purgeFails, receiptFails \in BOOLEAN : Start(purgeFails, receiptFails)
      PROVE  DeletionInv'
  <2>1. ~up /\ UNCHANGED <<procVars, unsaved, torn>> /\ faults' \in Nat
    BY <1>1, <1>3 DEF Reinstall, Start, Fault
  <2>2. \A q \in Procs : pc[q] = "idle"
    BY <2>1 DEF RunsInv
  <2>3. RunsInv'
    BY <2>1, <2>2 DEF procVars, RunsInv, KindFits
  <2>4. RemovedInv'
    BY <2>1, <2>2 DEF procVars, RemovedInv, Removed, PastSecret, PastAccount, PastOrder,
                      PastAlerts, PastGroups
  <2>5. OrderInv' /\ GroupsInv' /\ StoresInv'
    <3>1. CASE Reinstall
      BY <1>1, <2>1, <2>2, <3>1 DEF Reinstall, procVars, OrderInv, GroupsInv, StoresInv
    <3>2. CASE \E purgeFails, receiptFails \in BOOLEAN : Start(purgeFails, receiptFails)
      BY <1>1, <2>1, <2>2, <3>2 DEF Start, procVars, OrderInv, GroupsInv, StoresInv
    <3> QED BY <1>3, <3>1, <3>2
  <2> QED BY <2>3, <2>4, <2>5
<1> QED BY <1>2, <1>3

(* Every step keeps it.                                                      *)
LEMMA StepKeepsDeletion ==
  ASSUME DataAssumptions, FilesInv, LookUpInv, DeletionInv, [DataNext]_dataVars
  PROVE  DeletionInv'
<1>1. CASE UNCHANGED dataVars
  <2>1. UNCHANGED <<metaVars, storeVars, procVars, unsaved, torn, up, faults>>
    BY <1>1 DEF dataVars, ghostVars
  <2>2. RunsInv' /\ OrderInv' /\ GroupsInv' /\ StoresInv'
    BY <2>1 DEF DeletionInv, metaVars, procVars, RunsInv, KindFits, OrderInv, GroupsInv, StoresInv
  <2>3. RemovedInv'
    <3> USE DEF RemovedInv, Removed, Scope, Whole, IdsOf, Elements
    <3> QED BY <2>1 DEF DeletionInv, metaVars, storeVars, procVars
  <2> QED BY <2>2, <2>3 DEF DeletionInv
<1>2. ASSUME NEW p \in Tasks, Task(p)
      PROVE  DeletionInv'
  BY <1>2, TasksMove, MovesKeepDeletion DEF DeletionInv, Procs
<1>3. CASE Page
  BY <1>3, PageMoves, MovesKeepDeletion DEF DeletionInv, Procs
<1>4. ASSUME NEW p \in Procs, Continued(p)
      PROVE  DeletionInv'
  BY <1>4, ContinuedKeepsDeletion
<1> QED BY <1>1, <1>2, <1>3, <1>4, LifeKeepsDeletion DEF DataNext

(* It holds in every reachable state, with what holds of the accounts.       *)
LEMMA DeletionIsSound == DataSpec => [](FilesInv /\ LookUpInv /\ DeletionInv)
<1> USE ConstantsAreSound
<1>1. DataInit => DeletionInv
  <2> SUFFICES ASSUME DataInit
               PROVE  DeletionInv
    OBVIOUS
  <2>1. RunsInv
    BY DEF DataInit, RunsInv, KindFits, Accounts
  <2> QED BY <2>1 DEF DataInit, DeletionInv, OrderInv, GroupsInv, StoresInv, RemovedInv
<1>2. FilesInv /\ LookUpInv /\ DeletionInv /\ [DataNext]_dataVars => DeletionInv'
  BY StepKeepsDeletion
<1>3. DataSpec => [](FilesInv /\ LookUpInv)
  BY AccountsAreSound
<1> QED BY <1>1, <1>2, <1>3, PTL DEF DataSpec

(* Only the last step of a removal leaves it without a fault.                *)
LEMMA LastStep ==
  ASSUME DataAssumptions, FilesInv, LookUpInv, DeletionInv, [DataNext]_dataVars,
         NEW p \in Procs, pc[p] = "history", pc'[p] # "history", faults' = faults
  PROVE  ForgetHistory(p, "ok")
<1> USE DEF DeletionInv
<1>1. /\ ~Stop /\ ~Reinstall /\ ~UNCHANGED dataVars
      /\ ~\E purgeFails, receiptFails \in BOOLEAN : Start(purgeFails, receiptFails)
  <2>1. faults \in Nat
    BY DEF RunsInv
  <2>2. ~Stop
    BY <2>1 DEF Stop, Quiet, At
  <2>3. ~Reinstall /\ ~\E purgeFails, receiptFails \in BOOLEAN : Start(purgeFails, receiptFails)
    BY DEF Reinstall, Start, procVars
  <2>4. ~UNCHANGED dataVars
    BY DEF dataVars, procVars
  <2> QED BY <2>2, <2>3, <2>4
<1>2. ASSUME NEW q \in Tasks, Task(q)
      PROVE  FALSE
  <2>1. Own(q) /\ q \in Procs
    BY <1>2, TasksMove DEF Move, Procs
  <2>2. pc[q] = "idle"
    BY <1>2 DEF Task, ConnectLookup, RemoveAccount, Refresh, DeleteAllLocalData,
                ShowDashboard, ImportGroup, Begin, At
  <2> QED BY <2>1, <2>2 DEF Own
<1>3. ~Page
  <2>1. ASSUME Page
        PROVE  FALSE
    <3>1. Own(UI)
      BY <2>1, PageMoves DEF Move
    <3>2. pc[UI] \in {"idle", "saveAlerts"}
      BY <2>1 DEF Page, Reorder, SaveGroup, DeleteGroup, CheckAlerts, ClearCachedUsage,
                  SaveAlerts, Begin, At
    <3> QED BY <3>1, <3>2 DEF Own
  <2> QED BY <2>1
<1>4. PICK q \in Procs : Continued(q)
  BY <1>1, <1>2, <1>3 DEF DataNext
<1>5. q = p
  BY <1>4, ContinuedKeepsDeletion DEF Own
<1>6. PICK outcome \in Outcomes : ForgetHistory(p, outcome)
  BY <1>4, <1>5 DEF Continued, NextAccount, ForgetOrder, ForgetGroups, CompareOrder, CopyOrder,
     CopyGroups, ConnectSecret, ConnectUpsert, RecordReading, RemoveSecret, RemoveMetadata,
     RecordDeletion, ClearTombstones, ForgetAlerts, SaveOrder, SaveGroups, At
<1>7. outcome = "ok"
  <2>1. faults \in Nat /\ Fault(outcome)
    BY <1>6 DEF RunsInv, ForgetHistory
  <2> QED BY <2>1 DEF Fault
<1> QED BY <1>6, <1>7

(* A removal, or a Delete all, that reported success and overlapped nothing   *)
(* leaves nothing about its accounts in any of the five stores or in their   *)
(* files but accounts.json.bak (state.rs), unless a save of the order,       *)
(* groups, alerts or history failed, or took its copy while another was      *)
(* being written, or the last write of the accounts was reported failed      *)
(* after its rename.  The backup keeps the list that the removal replaced.   *)
THEOREM RemovalsForget == DataSpec => RemovalForgets
<1> USE ConstantsAreSound
<1>1. FilesInv /\ LookUpInv /\ DeletionInv /\ [DataNext]_dataVars =>
        [\A p \in Procs : ~unsaved /\ ~torn => ~Leaves(p)]_dataVars
  <2> SUFFICES ASSUME FilesInv, LookUpInv, DeletionInv, [DataNext]_dataVars,
                      NEW p \in Procs, ~unsaved, ~torn, ~late, alone[p], faults' = faults,
                      pc[p] = "history", pc'[p] # "history", NEW i \in Scope(p)
               PROVE  ~Mentioned(i)' /\ (Whole(p) \/ i \notin secrets')
    BY DEF Leaves, At
  <2>1. ForgetHistory(p, "ok")
    BY LastStep
  <2>2. /\ history' = history \ Scope(p) /\ ~unsaved'
        /\ UNCHANGED <<accounts, accountsFile, backup, secrets, order, orderFile, alerts,
                       alertsFile, groups, groupsFile, up, torn>>
    BY <2>1 DEF ForgetHistory, storeVars
  <2>3. up /\ kind[p] \in Removals
    BY DEF DeletionInv, RunsInv, KindFits
  <2>4. Removed(p)
    BY <2>3 DEF DeletionInv, RemovedInv
  <2>5. /\ i \notin IdsOf(accounts) /\ i \notin Elements(order) /\ i \notin alerts
        /\ \A g \in Groups : groups[g] = NoGroup \/ i \notin groups[g]
        /\ Whole(p) \/ i \notin secrets
    BY <2>4 DEF Removed, PastSecret, PastAccount, PastOrder, PastAlerts, PastGroups, Scope
  <2>6. \A q \in Procs : pc[q] \in {"idle", "history"}
    BY DEF DeletionInv, RunsInv
  <2>7. orderFile = order /\ groupsFile = groups /\ alertsFile = alerts
    BY <2>3, <2>6 DEF DeletionInv, OrderInv, GroupsInv, StoresInv
  <2>8. historyFile' = history'
    <3>1. StoresInv'
      BY StepKeepsDeletion DEF DeletionInv
    <3> QED BY <2>2, <2>3, <3>1 DEF StoresInv
  <2>9. Content(LoadedAccounts(accountsFile, backup)) = accounts
    BY <2>3 DEF FilesInv, ReloadKeepsAccounts
  <2>10. i \notin IdsOf(accounts') \cup IdsOf(Content(LoadedAccounts(accountsFile', backup')))
    BY <2>2, <2>5, <2>9
  <2>11. i \notin alerts' \cup alertsFile' \cup history' \cup historyFile'
    BY <2>2, <2>5, <2>7, <2>8
  <2>12. /\ \A n \in DOMAIN order' : order'[n] # i
         /\ \A n \in DOMAIN orderFile' : orderFile'[n] # i
    BY <2>2, <2>5, <2>7 DEF Elements
  <2>13. \A g \in Groups : ~(groups'[g] # NoGroup /\ i \in groups'[g])
                           /\ ~(groupsFile'[g] # NoGroup /\ i \in groupsFile'[g])
    BY <2>2, <2>5, <2>7
  <2>14. ~Mentioned(i)'
    BY <2>10, <2>11, <2>12, <2>13
       DEF Mentioned, IdsOf, Content, LoadedAccounts, Recovered, ReadAccountFile
  <2> QED BY <2>2, <2>5, <2>14
<1>2. DataSpec => [](FilesInv /\ LookUpInv /\ DeletionInv)
  BY DeletionIsSound
<1> QED BY <1>1, <1>2, PTL DEF DataSpec, RemovalForgets

-----------------------------------------------------------------------------
(* The local API.                                                         *)

USE CostAssumption, FullAssumption, TTLAssumption, MaxTimeAssumption

(* The time that passed is a natural number, and none when the clock was behind. *)
LEMMA ElapsedNat == ASSUME NEW m \in Nat, NEW n \in Nat
                    PROVE  /\ Elapsed(m, n) \in Nat
                           /\ m <= n => Elapsed(m, n) = n - m
                           /\ n <= m => Elapsed(m, n) = 0
  BY DEF Elapsed

\* Pruning and refilling keep a bucket a bucket, and refilling makes it one that is
\* in the map and dated with the request.
LEMMA PrunedType == ASSUME NEW b \in Buckets, NEW t \in Nat
                    PROVE  Pruned(b, t) \in Buckets
  BY DEF Pruned, Buckets, FullBucket

(* A bucket that is refilled is one again, held and up to date.               *)
LEMMA RefilledType == ASSUME NEW b \in Buckets, NEW t \in Nat
                      PROVE  /\ Refilled(b, t) \in Buckets
                             /\ Refilled(b, t).held /\ Refilled(b, t).updated = t
<1>1. Elapsed(b.updated, t) \in Nat
  BY ElapsedNat DEF Buckets
<1>2. AtMost(b.units + Elapsed(b.updated, t), Full) \in 0..Full
  BY <1>1 DEF AtMost, Buckets
<1> QED
  BY <1>2 DEF Refilled, HeldBucket, Buckets

\* The notifications keep their type on every way they are sent or taken.
LEMMA NotifyType ==
    ASSUME TypeOK, Notify \/ Register \/ Notified \/ DropWaiter
    PROVE  waiter' \in {"none", "registered", "woken"} /\ permit' \in BOOLEAN
  BY DEF TypeOK, Notify, Register, Notified, DropWaiter

\* What charging a request does to the buckets: every bucket stays one, dated no
\* later than now.
LEMMA ChargeType ==
    ASSUME TypeOK, NEW r \in Requests, Charge(r)
    PROVE  /\ bucket' \in [Lanes -> Buckets]
           /\ \A l \in Lanes : bucket'[l].updated <= now /\ (bucket'[l].held \/ bucket'[l].units = Full)
           /\ used' \in [Lanes -> Int]
<1> DEFINE l == request[r].lane
           t == request[r].stamp
           old == Pruned(bucket[l], t)
           b == Refilled(old, t)
           cost == IF Admits(b) THEN Cost ELSE 0
<1>1. l \in Lanes /\ t \in Nat /\ t <= now
  BY DEF TypeOK
<1>2. \A k \in Lanes : Pruned(bucket[k], t) \in Buckets
  BY <1>1, PrunedType DEF TypeOK
<1>3. \A k \in Lanes : /\ Pruned(bucket[k], t).updated <= now
                       /\ Pruned(bucket[k], t).held \/ Pruned(bucket[k], t).units = Full
  BY <1>1 DEF TypeOK, Pruned, FullBucket
<1>4. b \in Buckets /\ b.held /\ b.updated = t
  BY <1>1, <1>2, RefilledType
<1>5. cost \in Nat /\ cost <= b.units
  BY <1>4 DEF Admits, Buckets
<1>6. bucket' = [k \in Lanes |-> IF k = l THEN [b EXCEPT !.units = @ - cost]
                                          ELSE Pruned(bucket[k], t)]
  BY DEF Charge
<1>7. [b EXCEPT !.units = @ - cost] \in Buckets
  BY <1>4, <1>5 DEF Buckets
<1>8. /\ [b EXCEPT !.units = @ - cost].held
      /\ [b EXCEPT !.units = @ - cost].updated = t
  BY <1>4 DEF Buckets
<1>9. Elapsed(t, old.updated) \in Nat
  BY <1>1, <1>2, ElapsedNat DEF Buckets
<1>10. used' = [used EXCEPT ![l] = @ + cost - Elapsed(t, old.updated)]
  BY DEF Charge
<1>11. used' \in [Lanes -> Int]
  <2> HIDE DEF old, cost
  <2> QED BY <1>1, <1>5, <1>9, <1>10 DEF TypeOK
<1>12. bucket' \in [Lanes -> Buckets]
  <2> HIDE DEF b, cost, l, t
  <2> QED BY <1>2, <1>6, <1>7
<1>13. ASSUME NEW k \in Lanes
       PROVE  bucket'[k].updated <= now /\ (bucket'[k].held \/ bucket'[k].units = Full)
  <2> HIDE DEF b, cost, l, t
  <2>1. CASE k = l
    BY <2>1, <1>1, <1>6, <1>8
  <2>2. CASE k # l
    BY <2>2, <1>3, <1>6
  <2> QED BY <2>1, <2>2
<1> QED BY <1>11, <1>12, <1>13

(* At start-up every bucket is full.                                          *)
LEMMA InitialBucket ==
    ASSUME Init, NEW l \in Lanes
    PROVE  /\ bucket[l] \in Buckets
           /\ bucket[l].updated = 0
           /\ bucket[l].held \/ bucket[l].units = Full
  BY FullAssumption DEF Init, FullBucket, Buckets

(* Types at start-up ...                                                      *)
LEMMA TypeInit == Init => TypeOK
<1> SUFFICES ASSUME Init PROVE TypeOK
  OBVIOUS
<1>1. bucket \in [Lanes -> Buckets]
  <2>1. bucket = [l \in Lanes |-> bucket[l]]
    BY DEF Init
  <2> QED BY <2>1, InitialBucket
<1>2. request \in [Requests -> [at : {"free", "stamped"}, lane : Lanes, stamp : 0..now]]
  BY DEF Init, NoRequest, Lanes
<1>3. \A l \in Lanes : bucket[l].updated <= now /\ (bucket[l].held \/ bucket[l].units = Full)
  <2>1. now = 0
    BY DEF Init
  <2> TAKE l \in Lanes
  <2>2. bucket[l].updated = 0 /\ (bucket[l].held \/ bucket[l].units = Full)
    BY InitialBucket
  <2> QED BY <2>1, <2>2
<1>4. used \in [Lanes -> Int]
  BY DEF Init
<1>5. /\ enabled \in BOOLEAN /\ blocked \in BOOLEAN /\ port = "free" /\ controller = "check"
      /\ waiter = "none" /\ permit \in BOOLEAN /\ running \in BOOLEAN /\ now = 0
  BY DEF Init
<1> HIDE DEF Init
<1> QED BY <1>1, <1>2, <1>3, <1>4, <1>5 DEF TypeOK

(* ... and after every step.                                                  *)
LEMMA TypeStep == TypeOK /\ [Next]_vars => TypeOK'
<1> SUFFICES ASSUME TypeOK, [Next]_vars PROVE TypeOK'
  OBVIOUS
<1> USE DEF environmentVars, controllerVars, rateVars
<1>1. ASSUME NEW x \in BOOLEAN, SetEnabled(x) PROVE TypeOK'
  BY <1>1, NotifyType DEF SetEnabled, TypeOK
<1>2. CASE ResetSettings
  BY <1>2, NotifyType DEF ResetSettings, TypeOK
<1>3. CASE PortChanges
  BY <1>3 DEF PortChanges, TypeOK
<1>4. CASE Check
  BY <1>4 DEF Check, TypeOK
<1>5. CASE Bind
  BY <1>5 DEF Bind, TypeOK
<1>6. CASE Wait
  BY <1>6, NotifyType DEF Wait, TypeOK
<1>7. CASE Wake
  BY <1>7, NotifyType DEF Wake, TypeOK
<1>8. CASE RetryBind
  BY <1>8, NotifyType DEF RetryBind, TypeOK
<1>9. CASE Watch
  BY <1>9, NotifyType DEF Watch, TypeOK
<1>10. CASE Drained
  BY <1>10 DEF Drained, TypeOK
<1>11. CASE ServerFails
  BY <1>11, NotifyType DEF ServerFails, TypeOK
<1>12. CASE SleptOver
  BY <1>12 DEF SleptOver, TypeOK
<1>13. ASSUME NEW r \in Requests, NEW l \in Lanes, Arrive(r, l) PROVE TypeOK'
  BY <1>13 DEF Arrive, TypeOK
<1>14. ASSUME NEW r \in Requests, Charge(r) PROVE TypeOK'
  <2>1. request' \in [Requests -> [at : {"free", "stamped"}, lane : Lanes, stamp : 0..now]]
    BY <1>14 DEF Charge, TypeOK, NoRequest, Lanes
  <2>2. /\ bucket' \in [Lanes -> Buckets] /\ used' \in [Lanes -> Int]
        /\ \A l \in Lanes : bucket'[l].updated <= now /\ (bucket'[l].held \/ bucket'[l].units = Full)
    BY <1>14, ChargeType
  <2>3. UNCHANGED <<enabled, blocked, port, controller, waiter, permit, running, now>>
    BY <1>14 DEF Charge
  <2> QED BY <2>1, <2>2, <2>3 DEF TypeOK
<1>15. CASE Tick
  <2>1. now' = now + 1 /\ now \in Nat
    BY <1>15 DEF Tick, TypeOK
  <2>2. request' \in [Requests -> [at : {"free", "stamped"}, lane : Lanes, stamp : 0..now']]
    BY <1>15, <2>1 DEF Tick, TypeOK
  <2>3. \A l \in Lanes : bucket[l].updated <= now'
    BY <2>1 DEF TypeOK, Buckets
  <2> QED BY <1>15, <2>1, <2>2, <2>3 DEF Tick, TypeOK
<1>16. CASE UNCHANGED vars
  BY <1>16 DEF vars, TypeOK
<1> QED
  BY <1>1, <1>2, <1>3, <1>4, <1>5, <1>6, <1>7, <1>8, <1>9, <1>10, <1>11, <1>12, <1>13, <1>14,
     <1>15, <1>16 DEF Next, ControllerStep, Environment

\* Every variable keeps its type: no bucket is overdrawn, holds more than a burst, or
\* is dated in the future.
THEOREM TypeCorrect == Spec => []TypeOK
  BY TypeInit, TypeStep, PTL DEF Spec

\* A click on the switch is never lost: a controller that sleeps or serves on a
\* setting that has changed since it looked has a notification coming.
THEOREM WakeupsAreKept == Spec => []NoLostWakeup
<1>1. Init => NoLostWakeup
  BY DEF Init, NoLostWakeup
<1>2. TypeOK /\ NoLostWakeup /\ [Next]_vars => NoLostWakeup'
  <2> SUFFICES ASSUME TypeOK, NoLostWakeup, [Next]_vars PROVE NoLostWakeup'
    OBVIOUS
  <2> USE DEF environmentVars, controllerVars, rateVars, NoLostWakeup
  <2>1. ASSUME NEW x \in BOOLEAN, SetEnabled(x) PROVE NoLostWakeup'
    BY <2>1 DEF SetEnabled, Notify
  <2>2. CASE ResetSettings
    BY <2>2 DEF ResetSettings, Notify
  <2>3. CASE PortChanges
    BY <2>3 DEF PortChanges
  <2>4. CASE Check
    BY <2>4 DEF Check
  <2>5. CASE Bind
    BY <2>5 DEF Bind
  <2>6. CASE Wait
    BY <2>6 DEF Wait, Register
  <2>7. CASE Wake
    BY <2>7 DEF Wake
  <2>8. CASE RetryBind
    BY <2>8 DEF RetryBind
  <2>9. CASE Watch
    BY <2>9 DEF Watch, Notified
  <2>10. CASE Drained
    BY <2>10 DEF Drained
  <2>11. CASE ServerFails
    BY <2>11 DEF ServerFails
  <2>12. CASE SleptOver
    BY <2>12 DEF SleptOver
  <2>13. ASSUME NEW r \in Requests, NEW l \in Lanes, Arrive(r, l) PROVE NoLostWakeup'
    BY <2>13 DEF Arrive
  <2>14. ASSUME NEW r \in Requests, Charge(r) PROVE NoLostWakeup'
    BY <2>14 DEF Charge
  <2>15. CASE Tick
    BY <2>15 DEF Tick
  <2>16. CASE UNCHANGED vars
    BY <2>16 DEF vars
  <2> QED
    BY <2>1, <2>2, <2>3, <2>4, <2>5, <2>6, <2>7, <2>8, <2>9, <2>10, <2>11, <2>12, <2>13, <2>14,
       <2>15, <2>16 DEF Next, ControllerStep, Environment
<1> QED
  BY <1>1, <1>2, TypeCorrect, PTL DEF Spec

\* The strengthening of RateBound: what a lane was let through and what its bucket
\* still holds were paid for by the burst and the time up to the bucket's date.
Budget == \A l \in Lanes : used[l] + bucket[l].units <= Full + bucket[l].updated

\* Dropping an idle bucket creates nothing: after the TTL it would be full anyway.
LEMMA PruningIsFree ==
    ASSUME NEW b \in Buckets, NEW t \in Nat, NEW u \in Int, u + b.units <= Full + b.updated
    PROVE  u + Pruned(b, t).units <= Full + Pruned(b, t).updated
<1>1. CASE b.held /\ Elapsed(b.updated, t) >= TTL
  <2>1. b.updated \in Nat /\ b.units \in Nat
    BY DEF Buckets
  <2>2. Full <= t - b.updated \/ Full = 0
    BY <1>1, <2>1, ElapsedNat DEF Elapsed
  <2> QED BY <1>1, <2>1, <2>2 DEF Pruned, FullBucket
<1>2. CASE ~(b.held /\ Elapsed(b.updated, t) >= TTL)
  BY <1>2 DEF Pruned
<1> QED BY <1>1, <1>2

\* Neither does refilling: a bucket gains at most the time that passed, and one whose
\* clock is set back is charged for it.
LEMMA RefillingIsPaid ==
    ASSUME NEW b \in Buckets, b.held \/ b.units = Full, NEW t \in Nat, NEW u \in Int,
           u + b.units <= Full + b.updated
    PROVE  u - Elapsed(t, b.updated) + Refilled(b, t).units <= Full + t
<1>1. b.updated \in Nat /\ b.units \in Nat
  BY DEF Buckets
<1>2. CASE b.updated <= t
  BY <1>1, <1>2 DEF Refilled, HeldBucket, Elapsed, AtMost
<1>3. CASE t < b.updated
  BY <1>1, <1>3 DEF Refilled, HeldBucket, Elapsed, AtMost
<1> QED BY <1>1, <1>2, <1>3

(* Charging a request keeps the budget of its lane, and of the others.        *)
LEMMA ChargeKeepsBudget ==
    ASSUME TypeOK, Budget, NEW r \in Requests, Charge(r)
    PROVE  Budget'
<1> DEFINE l == request[r].lane
           t == request[r].stamp
           old == Pruned(bucket[l], t)
           b == Refilled(old, t)
           cost == IF Admits(b) THEN Cost ELSE 0
<1>1. l \in Lanes /\ t \in Nat
  BY DEF TypeOK
<1>2. \A k \in Lanes : Pruned(bucket[k], t) \in Buckets
  BY <1>1, PrunedType DEF TypeOK
<1>3. \A k \in Lanes : used[k] + Pruned(bucket[k], t).units <= Full + Pruned(bucket[k], t).updated
  BY <1>1, PruningIsFree DEF TypeOK, Budget
<1>4. old.held \/ old.units = Full
  BY <1>1 DEF TypeOK, Pruned, FullBucket
<1>5. used[l] - Elapsed(t, old.updated) + b.units <= Full + t
  <2> used[l] \in Int /\ old \in Buckets
    BY <1>1, <1>2 DEF TypeOK
  <2> QED BY <1>1, <1>3, <1>4, RefillingIsPaid
<1>6. b \in Buckets /\ b.updated = t
  BY <1>1, <1>2, RefilledType
<1>7. /\ bucket' = [k \in Lanes |-> IF k = l THEN [b EXCEPT !.units = @ - cost]
                                             ELSE Pruned(bucket[k], t)]
      /\ used' = [used EXCEPT ![l] = @ + cost - Elapsed(t, old.updated)]
  BY DEF Charge
<1>8. cost \in Nat
  OBVIOUS
<1>9. Elapsed(t, old.updated) \in Nat
  BY <1>1, <1>2, ElapsedNat DEF Buckets
<1>10. [b EXCEPT !.units = @ - cost].units = b.units - cost /\ [b EXCEPT !.units = @ - cost].updated = t
  BY <1>6 DEF Buckets
<1>11. b.units \in Nat
  BY <1>6 DEF Buckets
<1> SUFFICES ASSUME NEW k \in Lanes
             PROVE  used'[k] + bucket'[k].units <= Full + bucket'[k].updated
  BY DEF Budget
<1> HIDE DEF l, t, old, b, cost
<1>12. CASE k = l
  <2>1. used'[k] = used[l] + cost - Elapsed(t, old.updated)
    BY <1>1, <1>7, <1>12 DEF TypeOK
  <2>2. bucket'[k].units = b.units - cost /\ bucket'[k].updated = t
    BY <1>7, <1>10, <1>12
  <2>3. used[l] \in Int
    BY <1>1 DEF TypeOK
  <2> QED BY <1>1, <1>5, <1>8, <1>9, <1>11, <2>1, <2>2, <2>3
<1>13. CASE k # l
  BY <1>3, <1>7, <1>13 DEF TypeOK
<1> QED BY <1>12, <1>13

\* However requests interleave, expire and overtake each other, a lane is never let
\* through more than a burst and what time refills, for every burst and time to live.
THEOREM RateIsBounded == Spec => []RateBound
<1>1. Init => Budget
  <2> SUFFICES ASSUME Init, NEW l \in Lanes PROVE used[l] + bucket[l].units <= Full + bucket[l].updated
    BY DEF Budget
  <2>1. used[l] = 0
    BY DEF Init
  <2>2. bucket[l] \in Buckets /\ bucket[l].updated = 0
    BY InitialBucket
  <2>3. bucket[l].units \in 0..Full
    BY <2>2 DEF Buckets
  <2> QED BY <2>1, <2>2, <2>3, FullAssumption
<1>2. TypeOK /\ Budget /\ [Next]_vars => Budget'
  <2> SUFFICES ASSUME TypeOK, Budget, [Next]_vars PROVE Budget'
    OBVIOUS
  <2>1. ASSUME NEW r \in Requests, Charge(r) PROVE Budget'
    BY <2>1, ChargeKeepsBudget
  <2>2. ASSUME UNCHANGED <<bucket, used>> PROVE Budget'
    BY <2>2 DEF Budget
  <2>3. CASE ControllerStep
    BY <2>2, <2>3 DEF ControllerStep, Check, Bind, Wait, Wake, RetryBind, Watch, Drained,
       SleptOver, rateVars
  <2>4. CASE Environment
    BY <2>2, <2>4 DEF Environment, SetEnabled, ResetSettings, PortChanges, ServerFails, Tick,
       Arrive, rateVars
  <2>5. CASE UNCHANGED vars
    BY <2>2, <2>5 DEF vars, rateVars
  <2> QED BY <2>1, <2>3, <2>4, <2>5 DEF Next
<1>3. TypeOK /\ Budget => RateBound
  BY DEF TypeOK, Budget, RateBound, Buckets
<1> QED
  BY <1>1, <1>2, <1>3, TypeCorrect, PTL DEF Spec
=============================================================================
