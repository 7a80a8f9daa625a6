------------------------ MODULE PairingDialogProofs -------------------------
(* Proofs about PairingDialog and the import behind it, for any number of  *)
(* transfers, frames, accounts, failures and changes meanwhile.            *)
EXTENDS PairingDialog, WellFoundedInduction, SequenceTheorems, FiniteSetTheorems, TLAPS

(* A relation the numbers are well-founded under, named to be used as one. *)
LEMMA LessThanIsWellFounded ==
  \E R : IsWellFoundedOn(R, Nat) /\ \A x, y \in Nat : x < y => <<x, y>> \in R
<1> DEFINE R == OpToRel(<, Nat)
<1>1. \A x, y \in Nat : x < y => <<x, y>> \in R
  BY DEF OpToRel
<1>2. IsWellFoundedOn(R, Nat)
  BY NatLessThanWellFounded
<1> HIDE DEF R
<1> QED BY <1>1, <1>2

(* A set of numbers that is not empty has a least one. *)
LEMMA LeastNumber ==
  ASSUME NEW S \in SUBSET Nat, S # {}
  PROVE  \E m \in S : \A k \in S : m <= k
<1>1. PICK R : IsWellFoundedOn(R, Nat) /\ \A x, y \in Nat : x < y => <<x, y>> \in R
  BY LessThanIsWellFounded
<1>2. PICK m \in S : \A k \in S : ~(<<k, m>> \in R)
  <2>1. S \subseteq Nat /\ S # {}
    OBVIOUS
  <2>2. IsWellFoundedOn(R, Nat)
    BY <1>1
  <2> QED BY ONLY <2>1, <2>2, WFMin
<1>3. \A k \in S : ~(k < m)
  BY <1>1, <1>2
<1> QED BY <1>3

(* Whose account a person's is, is an account of the list, of that person. *)
LEMMA DuplicateIsListed ==
  ASSUME NEW list \in Seq(Account), NEW who, Duplicates(list, who) # {}
  PROVE  \E i \in DOMAIN list :
            list[i].id = FindDuplicate(list, who) /\ SameIdentity(list[i].who, who)
<1> DEFINE D == Duplicates(list, who)
<1>1. D \in SUBSET Nat /\ D # {} /\ D \subseteq DOMAIN list
  BY DEF Duplicates
<1>2. \E i \in D : \A j \in D : i <= j
  <2> HIDE DEF D
  <2> QED BY <1>1, LeastNumber
<1>3. (CHOOSE i \in D : \A j \in D : i <= j) \in D
  <2> HIDE DEF D
  <2> QED BY <1>1, <1>2
<1>4. FindDuplicate(list, who) = list[CHOOSE i \in D : \A j \in D : i <= j].id
  BY <1>1 DEF FindDuplicate
<1>5. PICK i \in D : i = CHOOSE k \in D : \A j \in D : k <= j
  <2> HIDE DEF D
  <2> QED BY <1>3
<1>6. i \in DOMAIN list /\ SameIdentity(list[i].who, who)
  BY <1>5 DEF Duplicates
<1>7. list[i].id = FindDuplicate(list, who)
  <2> HIDE DEF D
  <2> QED BY <1>4, <1>5
<1> QED BY <1>6, <1>7

LEMMA NobodysId == NoValue \notin Ids
BY AccountListsAssumption

(* Being the same person works both ways. *)
LEMMA SameBothWays ==
  ASSUME NEW a, NEW b
  PROVE  SameIdentity(a, b) <=> SameIdentity(b, a)
BY DEF SameIdentity, EmailsConflict, Known

(* What a transfer may hold. *)
LEMMA SentShape ==
  ASSUME NEW t \in Transfers
  PROVE  /\ Len(Planned(t)) \in Nat /\ DOMAIN Planned(t) = 1..Len(Planned(t))
         /\ \A k \in DOMAIN Planned(t) :
               Planned(t)[k].id \in Ids \ Fresh /\ Planned(t)[k].who \in Identity
         /\ \A j, k \in DOMAIN Planned(t) : j # k => Planned(t)[j].id # Planned(t)[k].id
         /\ Len(Exported(t).groups) \in Nat
         /\ DOMAIN Exported(t).groups = 1..Len(Exported(t).groups)
         /\ \A k \in DOMAIN Exported(t).groups : Exported(t).groups[k] \in Group
         /\ \A j, k \in DOMAIN Exported(t).groups :
               j # k => Exported(t).groups[j].id # Exported(t).groups[k].id
         /\ Len(Exported(t).accounts) \in Nat
         /\ Len(Exported(t).alerts) \in Nat
         /\ DOMAIN Exported(t).alerts = 1..Len(Exported(t).alerts)
         /\ \A k \in DOMAIN Exported(t).alerts : Exported(t).alerts[k] \in Ids
<1> DEFINE p == Planned(t)
           e == Exported(t)
           S == [id : Ids \ Fresh, who : Identity]
<1>1. /\ p \in Seq(S) /\ Distinct(p)
      /\ e.groups \in Seq(Group) /\ Distinct(e.groups)
      /\ e.accounts \in Seq(Account) /\ e.alerts \in Seq(Ids)
  BY SentAssumption
<1> HIDE DEF p, e
<1>2. /\ Len(p) \in Nat /\ DOMAIN p = 1..Len(p)
      /\ \A k \in DOMAIN p : p[k] \in S
  <2> HIDE DEF S
  <2> QED BY <1>1
<1>3. \A k \in DOMAIN p : p[k].id \in Ids \ Fresh /\ p[k].who \in Identity
  BY <1>2
<1>4. /\ Len(e.groups) \in Nat /\ DOMAIN e.groups = 1..Len(e.groups)
      /\ \A k \in DOMAIN e.groups : e.groups[k] \in Group
  BY <1>1
<1>5. /\ Len(e.accounts) \in Nat /\ Len(e.alerts) \in Nat
      /\ DOMAIN e.alerts = 1..Len(e.alerts) /\ \A k \in DOMAIN e.alerts : e.alerts[k] \in Ids
  BY <1>1
<1> QED BY <1>1, <1>2, <1>3, <1>4, <1>5 DEF Distinct, p, e

LEMMA AppendIds ==
  ASSUME NEW list \in Seq(Account), NEW x \in Account
  PROVE  /\ Append(list, x) \in Seq(Account)
         /\ IdsOf(Append(list, x)) = IdsOf(list) \cup {x.id}
BY DEF IdsOf

LEMMA RemoveIds ==
  ASSUME NEW list \in Seq(Account), NEW k \in DOMAIN list
  PROVE  /\ RemoveAt(list, k) \in Seq(Account)
         /\ IdsOf(list) \ {list[k].id} \subseteq IdsOf(RemoveAt(list, k))
         /\ IdsOf(RemoveAt(list, k)) \subseteq IdsOf(list)
<1> DEFINE r == RemoveAt(list, k)
<1>1. /\ r \in Seq(Account) /\ Len(r) = Len(list) - 1
      /\ \A i \in 1..Len(r) : r[i] = IF i < k THEN list[i] ELSE list[i + 1]
  <2> DEFINE a == SubSeq(list, 1, k - 1)
             b == SubSeq(list, k + 1, Len(list))
  <2>1. k \in 1..Len(list) /\ Len(list) \in Nat
    OBVIOUS
  <2>2. a \in Seq(Account) /\ Len(a) = k - 1 /\ \A i \in 1..(k - 1) : a[i] = list[i]
    BY <2>1
  <2>3. b \in Seq(Account) /\ Len(b) = Len(list) - k
        /\ \A i \in 1..(Len(list) - k) : b[i] = list[k + i]
    BY <2>1
  <2>4. r = a \o b
    BY DEF RemoveAt
  <2> HIDE DEF a, b, r
  <2>5. /\ r \in Seq(Account) /\ Len(r) = (k - 1) + (Len(list) - k)
        /\ \A i \in 1..Len(r) : r[i] = IF i <= k - 1 THEN a[i] ELSE b[i - (k - 1)]
    <3>1. /\ a \o b \in Seq(Account) /\ Len(a \o b) = Len(a) + Len(b)
          /\ \A i \in 1..(Len(a) + Len(b)) :
                (a \o b)[i] = IF i <= Len(a) THEN a[i] ELSE b[i - Len(a)]
      BY <2>2, <2>3, ConcatProperties
    <3> QED BY <2>1, <2>2, <2>3, <2>4, <3>1
  <2>6. ASSUME NEW i \in 1..Len(r)
        PROVE  r[i] = IF i < k THEN list[i] ELSE list[i + 1]
    <3>1. CASE i < k
      BY <2>1, <2>2, <2>5, <3>1
    <3>2. CASE i >= k
      <4>1. i - (k - 1) \in 1..(Len(list) - k) /\ k + (i - (k - 1)) = i + 1
        BY <2>1, <2>5, <3>2
      <4>2. r[i] = b[i - (k - 1)]
        BY <2>1, <2>5, <3>2
      <4>3. b[i - (k - 1)] = list[i + 1]
        BY <2>3, <4>1
      <4> QED BY <2>1, <3>2, <4>2, <4>3
    <3> QED BY <2>1, <3>1, <3>2
  <2> QED BY <2>1, <2>5, <2>6
<1>2. ASSUME NEW i \in DOMAIN list, i # k
      PROVE  list[i].id \in IdsOf(r)
  <2> HIDE DEF r
  <2>1. CASE i < k
    BY <1>1, <2>1 DEF IdsOf
  <2>2. CASE i > k
    <3>1. i - 1 \in DOMAIN r /\ r[i - 1] = list[i]
      BY <1>1, <2>2
    <3> QED BY <3>1 DEF IdsOf
  <2> QED BY <1>2, <2>1, <2>2
<1>3. ASSUME NEW i \in DOMAIN r
      PROVE  r[i].id \in IdsOf(list)
  <2> HIDE DEF r
  <2> QED BY <1>1, <1>3 DEF IdsOf
<1> QED
  <2> HIDE DEF r
  <2>1. \A x \in IdsOf(list) \ {list[k].id} : x \in IdsOf(r)
    BY <1>2 DEF IdsOf
  <2>2. \A x \in IdsOf(r) : x \in IdsOf(list)
    BY <1>3 DEF IdsOf
  <2> QED BY <1>1, <2>1, <2>2 DEF r
-----------------------------------------------------------------------------
(* The accounts of the device.                                               *)

(* An import takes up an account that is here neither by its person nor by  *)
(* its id.                                                                   *)
LEMMA LookUpKeepsAccounts ==
  ASSUME AccountsInv, LookUp
  PROVE  AccountsInv'
<1> DEFINE entry == Planned(from)[n]
<1>1. from \in Transfers /\ from' = from /\ n \in Nat /\ n <= Len(Planned(from))
  BY DEF AccountsInv, LookUp
<1>2. CASE IsHere(entry)
  BY <1>1, <1>2 DEF AccountsInv, LookUp, SkipAccount, deviceVars, Here, Twinless
<1>3. CASE ~IsHere(entry)
  <2>1. ~Here(entry.id) /\ Duplicates(accounts, entry.who) = {}
    BY <1>3 DEF IsHere
  <2> QED BY <1>1, <1>3, <2>1 DEF AccountsInv, LookUp, deviceVars, Here, Twinless
<1> QED BY <1>2, <1>3

(* What is about to be saved is new here, under either kind of id, unless a *)
(* sign-in brought back the account an import had found gone.               *)
LEMMA TakenIsNew ==
  ASSUME AccountsInv, NEW ok \in BOOLEAN, NEW id \in Ids, Persist(ok, id)
  PROVE  /\ Here(id) => id \in revived /\ raced
         /\ Planned(from)[n].who \in Identity
         /\ n \in Nat \ {0}
<1>1. /\ from \in Transfers /\ n \in Nat \ {0} /\ n <= Len(Planned(from))
      /\ Here(Planned(from)[n].id) => Planned(from)[n].id \in revived
      /\ revived # {} => raced
  BY DEF AccountsInv, Persist
<1>2. Planned(from)[n].id \in Ids \ Fresh /\ Planned(from)[n].who \in Identity
  BY <1>1, SentShape
<1>3. Takes(Planned(from)[n], id)
  BY DEF Persist
<1> QED BY <1>1, <1>2, <1>3 DEF Takes, Unused

(* A new account has no twin where none was found when it was looked up.   *)
LEMMA AppendHasNoTwin ==
  ASSUME NEW list \in Seq(Account), Twinless(list), NEW x \in Account,
         Duplicates(list, x.who) = {}
  PROVE  Twinless(Append(list, x))
<1> DEFINE l == Append(list, x)
<1>1. /\ DOMAIN l = 1..(Len(list) + 1) /\ l[Len(list) + 1] = x
      /\ \A i \in 1..Len(list) : l[i] = list[i]
  OBVIOUS
<1>2. \A i \in 1..Len(list) : ~SameIdentity(list[i].who, x.who)
  BY DEF Duplicates
<1>3. \A i \in 1..Len(list) : ~SameIdentity(x.who, list[i].who)
  BY <1>2, SameBothWays
<1>4. \A i, j \in 1..Len(list) : i # j => ~SameIdentity(list[i].who, list[j].who)
  BY DEF Twinless
<1> HIDE DEF l
<1>5. ASSUME NEW i \in DOMAIN l, NEW j \in DOMAIN l, i # j
      PROVE  ~SameIdentity(l[i].who, l[j].who)
  <2>1. CASE i = Len(list) + 1
    <3>1. j \in 1..Len(list)
      BY <1>1, <1>5, <2>1
    <3> QED BY <1>1, <1>3, <2>1, <3>1
  <2>2. CASE j = Len(list) + 1
    <3>1. i \in 1..Len(list)
      BY <1>1, <1>5, <2>2
    <3> QED BY <1>1, <1>2, <2>2, <3>1
  <2>3. CASE i # Len(list) + 1 /\ j # Len(list) + 1
    <3>1. i \in 1..Len(list) /\ j \in 1..Len(list)
      BY <1>1, <2>3
    <3> QED BY <1>1, <1>4, <1>5, <3>1
  <2> QED BY <2>1, <2>2, <2>3
<1> QED BY <1>5 DEF Twinless, l

LEMMA PersistKeepsAccounts ==
  ASSUME AccountsInv, NEW ok \in BOOLEAN, NEW id \in Ids, Persist(ok, id)
  PROVE  AccountsInv'
<1> DEFINE new == [id |-> id, who |-> Planned(from)[n].who]
<1>1. new \in Account /\ (Here(id) => raced) /\ n \in Nat \ {0}
  BY TakenIsNew DEF Account
<1>2. /\ at' = "account" /\ from' = from /\ n' = n + 1 /\ raced' = raced /\ at = "persist"
      /\ signing' = signing /\ revived' = revived
  BY DEF Persist
<1>3. CASE ok
  <2>1. /\ accounts' = IF Here(id) THEN accounts ELSE Append(accounts, new)
        /\ signIn' = [signIn EXCEPT ![id] = "sent"]
    BY <1>1, <1>3 DEF Persist
  <2>2. accounts' \in Seq(Account) /\ IdsOf(accounts') = IdsOf(accounts) \cup {id}
    <3>1. CASE Here(id)
      BY <2>1, <3>1 DEF AccountsInv, Here
    <3>2. CASE ~Here(id)
      BY <1>1, <2>1, <3>2, AppendIds DEF AccountsInv
    <3> QED BY <3>1, <3>2
  <2>3. \A i \in Ids : signIn'[i] = "own" => Here(i)'
    BY <2>1, <2>2 DEF AccountsInv, Here
  <2>4. ~raced => Twinless(accounts')
    BY <1>1, <1>2, <2>1, AppendHasNoTwin DEF AccountsInv
  <2> QED BY <1>1, <1>2, <2>1, <2>2, <2>3, <2>4 DEF AccountsInv, Twinless
<1>4. CASE ~ok
  <2>1. accounts' = accounts /\ signIn' = signIn
    BY <1>4 DEF Persist
  <2> QED BY <1>1, <1>2, <2>1 DEF AccountsInv, Here, Twinless
<1> QED BY <1>3, <1>4

(* A sign-in on this device is of an account that is here, or of a new one. *)
LEMMA LocalLookUpKeepsAccounts ==
  ASSUME AccountsInv, NEW who \in People, NEW id \in Ids, LocalLookUp(who, id)
  PROVE  AccountsInv'
<1> DEFINE known == AccountToUpdate(accounts, NoValue, who)
<1>1. /\ known # NoValue \/ id \in Fresh
      /\ signing' = [who |-> who, id |-> id, found |-> known # NoValue]
  BY DEF LocalLookUp, Unused
<1> HIDE DEF known
<1>2. /\ signing' \in [who : People, id : Ids, found : BOOLEAN]
      /\ signing'.found \/ signing'.id \in Fresh
  BY <1>1
<1>3. UNCHANGED <<accounts, signIn, n, at, from, revived, raced>>
  BY DEF LocalLookUp, importVars
<1> QED BY <1>2, <1>3 DEF AccountsInv, Here, Twinless

(* Saved, it adds an account only under a new id, or brings one back. *)
LEMMA SignInKeepsAccounts ==
  ASSUME AccountsInv, LocalSignIn
  PROVE  AccountsInv'
<1> DEFINE id == signing.id
           new == [id |-> id, who |-> signing.who]
<1>1. /\ accounts \in Seq(Account) /\ new \in Account /\ id \in Ids
      /\ signing.found \/ id \in Fresh
  BY ReceiversAssumption DEF AccountsInv, Account, LocalSignIn
<1>2. /\ accounts' = IF Here(id) THEN accounts ELSE Append(accounts, new)
      /\ signIn' = [signIn EXCEPT ![id] = "own"]
      /\ revived' = IF signing.found /\ ~Here(id) THEN revived \cup {id} ELSE revived
      /\ signing' = NoValue
  BY DEF LocalSignIn
<1> HIDE DEF id, new
<1>3. accounts' \in Seq(Account) /\ IdsOf(accounts') = IdsOf(accounts) \cup {id}
  <2>1. CASE Here(id)
    BY <1>1, <1>2, <2>1 DEF Here
  <2>2. CASE ~Here(id)
    BY <1>1, <1>2, <2>2, AppendIds DEF new
  <2> QED BY <2>1, <2>2
<1>4. raced' /\ at' = at /\ from' = from /\ n' = n
  BY DEF LocalSignIn, LocalTurn, importVars
<1>5. at = "persist" /\ Planned(from)[n].id \in IdsOf(accounts') => Planned(from)[n].id \in revived'
  <2>1. SUFFICES ASSUME at = "persist", Planned(from)[n].id \in IdsOf(accounts')
                 PROVE  Planned(from)[n].id \in revived'
    OBVIOUS
  <2>2. Planned(from)[n].id \in Ids \ Fresh
    BY <2>1, SentShape DEF AccountsInv
  <2>3. Planned(from)[n].id \in IdsOf(accounts) => Planned(from)[n].id \in revived
    BY <2>1 DEF AccountsInv, Here
  <2> QED BY <1>1, <1>2, <1>3, <2>1, <2>2, <2>3 DEF Here
<1>6. \A i \in Ids : signIn'[i] = "own" => i \in IdsOf(accounts')
  BY <1>2, <1>3 DEF AccountsInv, Here
<1>7. signIn' \in [Ids -> {"none", "own", "sent"}]
  BY <1>2 DEF AccountsInv
<1> QED BY <1>2, <1>3, <1>4, <1>5, <1>6, <1>7 DEF AccountsInv, Here

LEMMA RemovalKeepsAccounts ==
  ASSUME AccountsInv, NEW k \in DOMAIN accounts, LocalRemove(k)
  PROVE  AccountsInv'
<1>1. /\ accounts \in Seq(Account) /\ accounts' = RemoveAt(accounts, k)
      /\ signIn' = [signIn EXCEPT ![accounts[k].id] = "none"]
      /\ raced' /\ at' = at /\ from' = from /\ n' = n /\ UNCHANGED <<signing, revived>>
  BY DEF AccountsInv, LocalRemove, LocalTurn, importVars
<1>2. /\ accounts' \in Seq(Account) /\ IdsOf(accounts') \subseteq IdsOf(accounts)
      /\ IdsOf(accounts) \ {accounts[k].id} \subseteq IdsOf(accounts')
  BY <1>1, RemoveIds
<1>3. \A i \in Ids : signIn'[i] = "own" => i \in IdsOf(accounts')
  BY <1>1, <1>2 DEF AccountsInv, Here
<1> QED BY <1>1, <1>2, <1>3 DEF AccountsInv, Here

(* What a step may be for the accounts of the device.                       *)
DeviceStep ==
    \/ \E t \in Transfers : Begin(t)
    \/ ImportStep \/ Forget \/ LocalChange
    \/ UNCHANGED otherVars

(* What no import and nobody on the device changes. *)
stillVars == <<accounts, signIn, groups, order, alerts, settings, layout, importVars, raced, failed>>

(* A change on the device races the import, or only waits for its lock. *)
LEMMA LocalChangeRaces ==
  ASSUME LocalChange
  PROVE  raced' \/ UNCHANGED stillVars
BY DEF LocalChange, LocalLookUp, LocalSignIn, LocalRemove, DeleteGroup, LocalTurn, stillVars

LEMMA OthersAreStill ==
  ASSUME UNCHANGED otherVars
  PROVE  UNCHANGED stillVars
BY DEF otherVars, deviceVars, stillVars

LEMMA StepKeepsAccounts ==
  ASSUME AccountsInv, DeviceStep
  PROVE  AccountsInv'
<1>1. ASSUME NEW t \in Transfers, Begin(t) PROVE AccountsInv'
  BY <1>1 DEF AccountsInv, Begin, deviceVars, Here, Twinless
<1>2. ASSUME AccountsDone \/ Forget PROVE AccountsInv'
  BY <1>2 DEF AccountsInv, AccountsDone, Forget, deviceVars, Here, Twinless
<1>3. ASSUME NEW ok \in BOOLEAN,
             MapGroup \/ MapOrder(ok) \/ CheckAlert \/ EmitLayout \/ SaveGroup(ok)
             \/ Settings(ok) \/ SaveOrder(ok) \/ SaveAlert(ok)
      PROVE  AccountsInv'
  <2>1. UNCHANGED <<accounts, signIn, signing, revived, from, raced>>
    BY <1>3 DEF MapGroup, MapOrder, CheckAlert, EmitLayout, SaveGroup, Settings, SaveOrder,
                SaveAlert, deviceVars
  <2>2. at' # "persist" /\ at # "idle" /\ n' \in {n, n + 1, 1}
    BY <1>3 DEF MapGroup, MapOrder, CheckAlert, EmitLayout, SaveGroup, Settings, SaveOrder,
                SaveAlert
  <2> QED BY <2>1, <2>2 DEF AccountsInv, Here, Twinless
<1>4. ASSUME NEW k \in 1..MaxGroups, DeleteGroup(k) PROVE AccountsInv'
  BY <1>4 DEF AccountsInv, DeleteGroup, LocalTurn, importVars, Here
<1>5. CASE UNCHANGED otherVars
  BY <1>5 DEF AccountsInv, otherVars, deviceVars, importVars, Here, Twinless
<1>6. CASE ImportStep
  BY <1>2, <1>3, <1>6, LookUpKeepsAccounts, PersistKeepsAccounts DEF ImportStep
<1>7. CASE LocalChange
  BY <1>4, <1>7, LocalLookUpKeepsAccounts, SignInKeepsAccounts, RemovalKeepsAccounts DEF LocalChange
<1> QED BY <1>1, <1>2, <1>5, <1>6, <1>7 DEF DeviceStep

(* Only an import saves a sent sign-in, and only for an account that is new. *)
LEMMA StepKeepsSignIns ==
  ASSUME AccountsInv, DeviceStep, NEW i \in Ids \ revived, signIn[i] = "own"
  PROVE  signIn'[i] # "sent"
<1>1. signIn \in [Ids -> {"none", "own", "sent"}] /\ Here(i)
  BY DEF AccountsInv
<1>2. ASSUME NEW ok \in BOOLEAN, NEW id \in Ids, Persist(ok, id) PROVE signIn'[i] # "sent"
  <2>1. ~Here(id) \/ id # i
    BY <1>2, TakenIsNew
  <2>2. signIn' = signIn \/ signIn' = [signIn EXCEPT ![id] = "sent"]
    BY <1>2 DEF Persist
  <2> QED BY <1>1, <2>1, <2>2
<1>3. ASSUME LocalSignIn \/ \E who \in People, id \in Ids : LocalLookUp(who, id)
      PROVE  signIn'[i] # "sent"
  BY <1>1, <1>3 DEF LocalSignIn, LocalLookUp
<1>4. ASSUME NEW k \in DOMAIN accounts, LocalRemove(k) PROVE signIn'[i] # "sent"
  BY <1>1, <1>4 DEF LocalRemove
<1>5. ASSUME NEW k \in 1..MaxGroups, DeleteGroup(k) PROVE signIn'[i] # "sent"
  BY <1>1, <1>5 DEF DeleteGroup
<1>6. CASE LocalChange
  BY <1>3, <1>4, <1>5, <1>6 DEF LocalChange
<1>7. ASSUME NEW ok \in BOOLEAN,
             LookUp \/ AccountsDone \/ MapGroup \/ MapOrder(ok) \/ CheckAlert \/ EmitLayout
             \/ SaveGroup(ok) \/ Settings(ok) \/ SaveOrder(ok) \/ SaveAlert(ok)
      PROVE  signIn'[i] # "sent"
  <2>1. signIn' = signIn
    BY <1>7 DEF LookUp, AccountsDone, MapGroup, MapOrder, CheckAlert, EmitLayout, SaveGroup,
                Settings, SaveOrder, SaveAlert, deviceVars
  <2> QED BY <2>1
<1>8. CASE ImportStep
  BY <1>2, <1>7, <1>8 DEF ImportStep
<1>9. CASE Forget \/ (\E t \in Transfers : Begin(t)) \/ UNCHANGED otherVars
  BY <1>1, <1>9 DEF Forget, Begin, deviceVars, otherVars
<1> QED BY <1>6, <1>8, <1>9 DEF DeviceStep
-----------------------------------------------------------------------------
(* What an import that nobody disturbed has brought by each of its steps.     *)

(* The account that is here is one of the same id, or of the same person.  *)
LEMMA ExistingIsHere ==
  ASSUME accounts \in Seq(Account), NEW entry, IsHere(entry)
  PROVE  /\ SamePerson(entry, Existing(entry))
         /\ Here(Existing(entry)) /\ Existing(entry) \in Ids
<1>1. CASE Duplicates(accounts, entry.who) # {}
  <2>1. PICK i \in DOMAIN accounts : /\ accounts[i].id = Existing(entry)
                                    /\ SameIdentity(accounts[i].who, entry.who)
    BY <1>1, DuplicateIsListed DEF Existing
  <2>2. accounts[i] \in Account
    OBVIOUS
  <2> QED BY <2>1, <2>2 DEF SamePerson, Here, IdsOf, Account
<1>2. CASE Duplicates(accounts, entry.who) = {}
  <2>1. Existing(entry) = entry.id /\ entry.id \in IdsOf(accounts)
    BY <1>2 DEF Existing, IsHere, Here
  <2>2. PICK i \in DOMAIN accounts : accounts[i].id = entry.id
    BY <2>1 DEF IdsOf
  <2>3. accounts[i] \in Account
    OBVIOUS
  <2> QED BY <2>1, <2>2, <2>3 DEF SamePerson, Here, Account
<1> QED BY <1>1, <1>2

(* The group that is a sent one, if there is one, is a group here. *)
LEMMA SameGroupIsHere ==
  ASSUME groups \in Seq(Group), NEW g
  PROVE  SameGroup(g) = 0 \/ SameGroup(g) \in DOMAIN groups
<1> DEFINE M == {i \in DOMAIN groups : groups[i].id = g.id \/ groups[i].name = g.name}
<1>1. M \in SUBSET Nat /\ M \subseteq DOMAIN groups
  OBVIOUS
<1>2. SameGroup(g) = IF M = {} THEN 0 ELSE CHOOSE i \in M : \A j \in M : i <= j
  BY DEF SameGroup
<1> HIDE DEF M
<1>3. CASE M # {}
  <2>1. \E i \in M : \A j \in M : i <= j
    BY <1>1, <1>3, LeastNumber
  <2> QED BY <1>1, <1>2, <1>3, <2>1
<1> QED BY <1>2, <1>3

(* Members are added to the group that is the sent one, or it is a new one. *)
LEMMA SavedGroups ==
  ASSUME groups \in Seq(Group), plan.group \in Group, NEW ok \in BOOLEAN, SaveGroup(ok)
  PROVE  groups' \in Seq(Group)
<1> DEFINE g == plan.group
           i == SameGroup(g)
<1>1. CASE i # 0
  <2>1. i \in DOMAIN groups
    BY <1>1, SameGroupIsHere
  <2>2. groups' = [groups EXCEPT ![i] = [groups[i] EXCEPT !.members =
                                              groups[i].members \cup g.members]]
    BY <1>1 DEF SaveGroup
  <2>3. [groups[i] EXCEPT !.members = groups[i].members \cup g.members] \in Group
    <3>1. groups[i] \in Group
      BY <2>1
    <3> QED BY <3>1 DEF Group
  <2> HIDE DEF g, i
  <2> QED BY <2>1, <2>2, <2>3
<1>2. CASE i = 0
  <2>1. groups' = groups \/ groups' = Append(groups, g)
    BY <1>2 DEF SaveGroup
  <2> QED BY <2>1
<1> QED BY <1>1, <1>2

(* Where an id of the sender has one here, that is an account here. *)
LEMMA StepKeepsMaps ==
  ASSUME AccountsInv, MapsInv, DeviceStep
  PROVE  MapsInv'
<1> USE DEF MapsInv
<1>1. ASSUME NEW t \in Transfers, Begin(t) PROVE MapsInv'
  BY <1>1, SentShape DEF Begin, deviceVars, NoMap, Here
<1>2. CASE LookUp
  <2>1. from \in Transfers /\ n \in DOMAIN Planned(from) /\ accounts \in Seq(Account)
    BY <1>2, SentShape DEF LookUp, AccountsInv
  <2>2. CASE IsHere(Planned(from)[n])
    BY <1>2, <2>1, <2>2, ExistingIsHere DEF LookUp, SkipAccount, deviceVars, Here
  <2>3. CASE ~IsHere(Planned(from)[n])
    BY <1>2, <2>3 DEF LookUp, deviceVars, Here
  <2> QED BY <2>2, <2>3
<1>3. ASSUME NEW ok \in BOOLEAN, NEW id \in Ids, Persist(ok, id) PROVE MapsInv'
  <2>1. /\ Here(id) => raced
        /\ Planned(from)[n].who \in Identity
        /\ UNCHANGED <<groups, groupMap, raced>> /\ accounts \in Seq(Account)
        /\ at' = "account"
    BY <1>3, TakenIsNew DEF Persist, AccountsInv
  <2>2. CASE ok
    <3> DEFINE new == [id |-> id, who |-> Planned(from)[n].who]
    <3>1. /\ accounts' = IF Here(id) THEN accounts ELSE Append(accounts, new)
          /\ added' = added + 1 /\ skipped' = skipped
          /\ idMap' = [idMap EXCEPT ![Planned(from)[n].id] = id]
      BY <1>3, <2>1, <2>2 DEF Persist
    <3>2. ~raced => IdsOf(accounts') = IdsOf(accounts) \cup {id}
      BY <2>1, <3>1, AppendIds DEF Account
    <3>3. idMap' \in [Ids -> Ids \cup {NoValue}]
      BY <3>1
    <3>4. ~raced => \A s \in Ids : idMap'[s] # NoValue => idMap'[s] \in IdsOf(accounts')
      BY <3>1, <3>2 DEF Here
    <3> QED BY <2>1, <3>1, <3>3, <3>4 DEF Here
  <2>3. CASE ~ok
    BY <1>3, <2>1, <2>3 DEF Persist, Here
  <2> QED BY <2>2, <2>3
<1>4. ASSUME NEW ok \in BOOLEAN,
             AccountsDone \/ MapOrder(ok) \/ CheckAlert \/ EmitLayout
             \/ Settings(ok) \/ SaveOrder(ok) \/ SaveAlert(ok) \/ UNCHANGED otherVars
      PROVE  MapsInv'
  <2>1. UNCHANGED <<accounts, idMap, groupMap, groups, added, skipped, raced>>
    BY <1>4 DEF AccountsDone, MapOrder, CheckAlert, EmitLayout, Settings, SaveOrder,
                SaveAlert, otherVars, deviceVars, importVars
  <2>2. at' = "saveGroup" => at = "saveGroup" /\ plan' = plan
    BY <1>4 DEF AccountsDone, MapOrder, CheckAlert, EmitLayout, Settings, SaveOrder, SaveAlert,
                otherVars, importVars
  <2> QED BY <2>1, <2>2 DEF Here
<1>5. CASE MapGroup
  <2> DEFINE g == Exported(from).groups[n]
  <2>1. g \in Group
    <3>1. from \in Transfers /\ n \in DOMAIN Exported(from).groups
      BY <1>5, SentShape DEF MapGroup, AccountsInv
    <3> QED BY <3>1, SentShape
  <2>2. {i \in {To(s) : s \in g.members} : Here(i)} \subseteq Ids
    BY <2>1 DEF Group, To
  <2>3. plan'.group \in Group
    BY <1>5, <2>1, <2>2 DEF MapGroup, Group
  <2>4. plan'.expected \in Groups
    <3>1. plan'.expected = IF SameGroup(g) = 0 THEN g.id ELSE groups[SameGroup(g)].id
      BY <1>5 DEF MapGroup
    <3>2. \A i \in DOMAIN groups : groups[i] \in Group
      OBVIOUS
    <3> QED BY <2>1, <3>1, <3>2, SameGroupIsHere DEF Group
  <2>5. UNCHANGED <<accounts, idMap, groupMap, groups, added, skipped, raced>>
    BY <1>5 DEF MapGroup, deviceVars
  <2> QED BY <2>3, <2>4, <2>5 DEF Here
<1>8. ASSUME NEW ok \in BOOLEAN, SaveGroup(ok) PROVE MapsInv'
  <2>1. groups' \in Seq(Group)
    BY <1>8, SavedGroups DEF SaveGroup
  <2>2. UNCHANGED <<accounts, idMap, added, skipped, raced>> /\ at' = "group"
    BY <1>8 DEF SaveGroup
  <2>3. groupMap' \in [Groups -> Groups \cup {NoValue}]
    BY <1>8 DEF SaveGroup
  <2> QED BY <2>1, <2>2, <2>3 DEF Here
<1>6. CASE Forget
  BY <1>6 DEF Forget, NoMap, deviceVars, Here
<1>7. CASE LocalChange
  <2>1. /\ raced' \/ UNCHANGED <<raced, accounts>>
        /\ UNCHANGED <<idMap, groupMap, added, skipped>>
    BY <1>7 DEF LocalChange, LocalLookUp, LocalSignIn, LocalRemove, DeleteGroup, LocalTurn,
                importVars
  <2>2. groups' \in Seq(Group)
    <3>1. ASSUME NEW k \in 1..MaxGroups, DeleteGroup(k) PROVE groups' \in Seq(Group)
      BY <3>1 DEF DeleteGroup, RemoveAt
    <3>2. ASSUME NEW k \in DOMAIN accounts, LocalRemove(k) PROVE groups' \in Seq(Group)
      <4> DEFINE id == accounts[k].id
                 g(i) == [groups[i] EXCEPT !.members = groups[i].members \ {id}]
      <4>1. groups' = [i \in DOMAIN groups |-> g(i)]
        BY <3>2 DEF LocalRemove
      <4>2. \A i \in DOMAIN groups : groups[i] \in Group
        OBVIOUS
      <4>3. \A i \in DOMAIN groups : g(i) \in Group
        BY <4>2 DEF Group
      <4>4. DOMAIN groups = 1..Len(groups) /\ Len(groups) \in Nat
        OBVIOUS
      <4> HIDE DEF g
      <4> QED BY <4>1, <4>3, <4>4
    <3>3. ASSUME LocalSignIn \/ \E who \in People, id \in Ids : LocalLookUp(who, id)
          PROVE  groups' \in Seq(Group)
      BY <3>3 DEF LocalSignIn, LocalLookUp
    <3> QED BY <1>7, <3>1, <3>2, <3>3 DEF LocalChange
  <2>3. at' = "saveGroup" => at = "saveGroup" /\ plan' = plan
    BY <1>7 DEF LocalChange, LocalLookUp, LocalSignIn, LocalRemove, DeleteGroup, LocalTurn,
                importVars
  <2> QED BY <2>1, <2>2, <2>3 DEF Here
<1>9. CASE ImportStep
  BY <1>2, <1>3, <1>4, <1>5, <1>8, <1>9 DEF ImportStep
<1> QED
  BY <1>1, <1>4, <1>6, <1>7, <1>9 DEF DeviceStep
(* An account that has arrived stays, whatever account is added after it. *)
LEMMA ArrivedAccountStays ==
  ASSUME accounts \in Seq(Account), from' = from, NEW k \in DOMAIN Planned(from),
         NEW x, accounts' = accounts \/ accounts' = Append(accounts, x),
         idMap'[Planned(from)[k].id] = idMap[Planned(from)[k].id],
         AccountArrived(k)
  PROVE  AccountArrived(k)'
<1> DEFINE entry == Planned(from)[k]
<1>1. Planned(from)' = Planned(from)
  OBVIOUS
<1>2. PICK i \in DOMAIN accounts :
        /\ accounts[i].id = idMap[entry.id]
        /\ \/ idMap[entry.id] = entry.id \/ accounts[i].who = entry.who
           \/ SameIdentity(accounts[i].who, entry.who)
  BY DEF AccountArrived, SamePerson
<1>3. i \in DOMAIN accounts' /\ accounts'[i] = accounts[i]
  OBVIOUS
<1> HIDE DEF entry
<1>4. /\ accounts'[i].id = idMap'[entry.id]
      /\ \/ idMap'[entry.id] = entry.id \/ accounts'[i].who = entry.who
         \/ SameIdentity(accounts'[i].who, entry.who)
  BY <1>2, <1>3 DEF entry
<1> QED BY <1>1, <1>3, <1>4 DEF AccountArrived, SamePerson, entry

(* Every account taken up so far is here, and the summary counts them. *)
LEMMA StepKeepsArrivedAccounts ==
  ASSUME AccountsInv, MapsInv, ArrivedAccountsInv, DeviceStep
  PROVE  ArrivedAccountsInv'
<1> USE DEF Undisturbed, TakingAccounts
<1>1. ASSUME NEW t \in Transfers, Begin(t) PROVE ArrivedAccountsInv'
  <2>1. /\ from' = t /\ at' = "account" /\ n' = 1 /\ added' = 0
        /\ skipped' = Len(Exported(t).accounts) - Len(Planned(t))
    BY <1>1 DEF Begin
  <2>2. Planned(from)' = Planned(t) /\ Exported(from)' = Exported(t)
    BY <2>1
  <2> QED BY <2>1, <2>2, SentShape DEF ArrivedAccountsInv
<1>2. ASSUME at # "idle", at' # "idle", Undisturbed',
             NEW ok \in BOOLEAN, NEW id,
             LookUp \/ (id \in Ids /\ Persist(ok, id))
      PROVE  ArrivedAccountsInv'
  <2> DEFINE p == Planned(from)
             entry == p[n]
  <2>1. /\ from \in Transfers /\ from' = from /\ n \in Nat \ {0} /\ n \in DOMAIN p
        /\ accounts \in Seq(Account) /\ TakingAccounts /\ TakingAccounts'
        /\ Undisturbed
    <3>1. /\ from' = from /\ raced' = raced /\ at \in {"account", "persist"}
          /\ at' \in {"account", "persist"}
      <4>1. CASE LookUp
        BY <4>1 DEF LookUp
      <4>2. CASE Persist(ok, id)
        BY <4>2 DEF Persist
      <4> QED BY <1>2, <4>1, <4>2
    <3>2. ~failed' => ~failed
      <4>1. CASE LookUp
        BY <4>1 DEF LookUp
      <4>2. CASE Persist(ok, id)
        BY <4>2 DEF Persist, Outcome
      <4> QED BY <1>2, <4>1, <4>2
    <3>3. from \in Transfers /\ n \in Nat \ {0} /\ n <= Len(p) /\ accounts \in Seq(Account)
      BY <1>2, <3>1 DEF LookUp, Persist, AccountsInv
    <3> QED BY <1>2, <3>1, <3>2, <3>3, SentShape
  <2>2. Planned(from)' = p /\ Exported(from)' = Exported(from)
    BY <2>1
  <2>3. /\ Len(p) \in Nat /\ DOMAIN p = 1..Len(p) /\ Len(Exported(from).accounts) \in Nat
        /\ entry.id \in Ids
        /\ \A k \in DOMAIN p : p[k].id \in Ids /\ (k # n => p[k].id # entry.id)
    BY <2>1, SentShape
  <2>4. /\ \A k \in DOMAIN p : k < n => AccountArrived(k)
        /\ added \in Nat /\ skipped \in Int /\ idMap \in [Ids -> Ids \cup {NoValue}]
        /\ added + skipped + Len(p) = Len(Exported(from).accounts) + (n - 1)
    BY <2>1 DEF ArrivedAccountsInv, MapsInv
  <2> HIDE DEF p, entry
  <2>5. CASE LookUp /\ ~IsHere(entry)
    <3>1. n' = n /\ UNCHANGED <<accounts, idMap, added, skipped>>
      BY <2>5 DEF LookUp, deviceVars, entry, p
    <3>2. \A k \in DOMAIN p : k < n => AccountArrived(k)'
      BY <2>1, <2>4, <3>1, ArrivedAccountStays DEF p
    <3> QED BY <2>1, <2>2, <2>3, <2>4, <3>1, <3>2 DEF ArrivedAccountsInv
  <2>6. CASE LookUp /\ IsHere(entry)
    <3>1. /\ n' = n + 1 /\ UNCHANGED <<accounts, added>> /\ skipped' = skipped + 1
          /\ idMap' = [idMap EXCEPT ![entry.id] = Existing(entry)]
      BY <2>6 DEF LookUp, deviceVars, SkipAccount, entry, p
    <3>2. ASSUME NEW k \in DOMAIN p, k < n PROVE AccountArrived(k)'
      <4>1. idMap'[p[k].id] = idMap[p[k].id]
        BY <2>3, <2>4, <3>1, <3>2
      <4> QED BY <2>1, <2>4, <3>1, <3>2, <4>1, ArrivedAccountStays DEF p
    <3>3. ASSUME NEW k \in DOMAIN p, k = n PROVE AccountArrived(k)'
      <4>1. SamePerson(entry, Existing(entry))
        BY <2>1, <2>6, ExistingIsHere
      <4>2. idMap'[entry.id] = Existing(entry)
        BY <2>3, <2>4, <3>1
      <4> QED BY <2>2, <3>1, <3>3, <4>1, <4>2 DEF AccountArrived, SamePerson, entry
    <3>4. \A k \in DOMAIN p : k < n' => AccountArrived(k)'
      BY <2>1, <2>3, <3>1, <3>2, <3>3
    <3>5. n' <= Len(p) + 1 /\ added' + skipped' + Len(p) = Len(Exported(from).accounts) + (n' - 1)
      <4>1. n \in Nat /\ n <= Len(p) /\ Len(p) \in Nat
        BY <2>1, <2>3
      <4>2. added \in Nat /\ skipped \in Int /\ Len(Exported(from).accounts) \in Nat
        BY <2>3, <2>4
      <4>3. added + skipped + Len(p) = Len(Exported(from).accounts) + (n - 1)
        BY <2>4
      <4>4. n' = n + 1 /\ added' + skipped' = added + skipped + 1
        BY <3>1, <4>2
      <4> QED BY <4>1, <4>2, <4>3, <4>4
    <3> QED BY <2>1, <2>2, <3>4, <3>5 DEF ArrivedAccountsInv, p
  <2>7. CASE id \in Ids /\ Persist(ok, id)
    <3> DEFINE new == [id |-> id, who |-> entry.who]
    <3>1. ok /\ ~Here(id) /\ entry.who \in Identity
      BY <1>2, <2>1, <2>7, TakenIsNew DEF Persist, Outcome, entry, p
    <3>2. /\ n' = n + 1 /\ added' = added + 1 /\ skipped' = skipped
          /\ accounts' = Append(accounts, new)
          /\ idMap' = [idMap EXCEPT ![entry.id] = id]
      BY <2>7, <3>1 DEF Persist, entry, p
    <3>3. ASSUME NEW k \in DOMAIN p, k < n PROVE AccountArrived(k)'
      <4>1. idMap'[p[k].id] = idMap[p[k].id]
        BY <2>3, <2>4, <3>2, <3>3
      <4> QED BY <2>1, <2>4, <3>2, <3>3, <4>1, ArrivedAccountStays DEF p
    <3>4. ASSUME NEW k \in DOMAIN p, k = n PROVE AccountArrived(k)'
      <4>1. idMap'[entry.id] = id
        BY <2>3, <2>4, <3>2
      <4>2. /\ Len(accounts) + 1 \in DOMAIN accounts'
            /\ accounts'[Len(accounts) + 1] = new
        BY <2>1, <3>2
      <4> QED BY <2>2, <3>4, <4>1, <4>2 DEF AccountArrived, SamePerson, entry
    <3>5. \A k \in DOMAIN p : k < n' => AccountArrived(k)'
      BY <2>1, <2>3, <3>2, <3>3, <3>4
    <3>6. n' <= Len(p) + 1 /\ added' + skipped' + Len(p) = Len(Exported(from).accounts) + (n' - 1)
      <4>1. n \in Nat /\ n <= Len(p) /\ Len(p) \in Nat
        BY <2>1, <2>3
      <4>2. added \in Nat /\ skipped \in Int /\ Len(Exported(from).accounts) \in Nat
        BY <2>3, <2>4
      <4>3. added + skipped + Len(p) = Len(Exported(from).accounts) + (n - 1)
        BY <2>4
      <4>4. n' = n + 1 /\ added' + skipped' = added + skipped + 1
        BY <3>2, <4>2
      <4> QED BY <4>1, <4>2, <4>3, <4>4
    <3> QED BY <2>1, <2>2, <3>5, <3>6 DEF ArrivedAccountsInv, p
  <2> QED BY <1>2, <2>5, <2>6, <2>7
<1>3. ASSUME UNCHANGED <<accounts, idMap, from, added, skipped, raced>>, ~failed' => ~failed,
             at # "idle", TakingAccounts' => TakingAccounts /\ n' = n,
             TakingAccounts => TakingAccounts' \/ n > Len(Planned(from))
      PROVE  ArrivedAccountsInv'
  <2>1. CASE Undisturbed'
    <3>1. Undisturbed /\ from \in Transfers /\ n \in Nat \ {0} /\ accounts \in Seq(Account)
      BY <1>3, <2>1 DEF AccountsInv
    <3>2. Planned(from)' = Planned(from) /\ Exported(from)' = Exported(from)
      BY <1>3
    <3>3. \A k \in DOMAIN Planned(from) : (TakingAccounts' => k < n) => AccountArrived(k)
      <4>1. CASE TakingAccounts'
        BY <1>3, <3>1, <4>1 DEF ArrivedAccountsInv
      <4>2. CASE ~TakingAccounts
        BY <3>1, <4>2 DEF ArrivedAccountsInv
      <4>3. CASE TakingAccounts /\ ~TakingAccounts'
        <5>1. \A k \in DOMAIN Planned(from) : k < n
          BY <1>3, <3>1, <4>3, SentShape
        <5> QED BY <3>1, <4>3, <5>1 DEF ArrivedAccountsInv
      <4> QED BY <4>1, <4>2, <4>3
    <3>4. ASSUME NEW k \in DOMAIN Planned(from), AccountArrived(k) PROVE AccountArrived(k)'
      BY <1>3, <3>1, <3>4, ArrivedAccountStays
    <3>5. added + skipped + Len(Planned(from)) = Len(Exported(from).accounts)
            + IF TakingAccounts' THEN n - 1 ELSE Len(Planned(from))
      <4>1. CASE TakingAccounts /\ ~TakingAccounts'
        <5>1. n - 1 = Len(Planned(from))
          BY <1>3, <3>1, <4>1, SentShape DEF ArrivedAccountsInv
        <5> QED BY <3>1, <4>1, <5>1 DEF ArrivedAccountsInv
      <4>2. CASE TakingAccounts <=> TakingAccounts'
        BY <3>1, <4>2 DEF ArrivedAccountsInv
      <4> QED BY <1>3, <4>1, <4>2
    <3> QED BY <1>3, <3>1, <3>2, <3>3, <3>4, <3>5 DEF ArrivedAccountsInv
  <2> QED BY <2>1 DEF ArrivedAccountsInv
<1>4. ASSUME NEW ok \in BOOLEAN,
             AccountsDone \/ MapGroup \/ MapOrder(ok) \/ CheckAlert \/ EmitLayout
             \/ SaveGroup(ok) \/ Settings(ok) \/ SaveOrder(ok) \/ SaveAlert(ok)
      PROVE  ArrivedAccountsInv'
  <2>1. /\ UNCHANGED <<accounts, idMap, from, added, skipped, raced>> /\ at # "idle"
        /\ ~failed' => ~failed
    <3>1. CASE AccountsDone \/ MapGroup \/ CheckAlert \/ EmitLayout
      <4>1. UNCHANGED <<accounts, idMap, from, added, skipped, raced, failed>>
        BY <3>1 DEF AccountsDone, MapGroup, CheckAlert, EmitLayout, deviceVars
      <4>2. at # "idle"
        BY <3>1 DEF AccountsDone, MapGroup, CheckAlert, EmitLayout
      <4> QED BY <4>1, <4>2
    <3>2. CASE MapOrder(ok) \/ SaveGroup(ok) \/ Settings(ok) \/ SaveOrder(ok) \/ SaveAlert(ok)
      <4>1. /\ UNCHANGED <<accounts, idMap, from, added, skipped, raced>> /\ at # "idle"
            /\ Outcome(ok)
        BY <3>2 DEF MapOrder, SaveGroup, Settings, SaveOrder, SaveAlert
      <4> QED BY <4>1 DEF Outcome
    <3> QED BY <1>4, <3>1, <3>2
  <2>2. /\ ~TakingAccounts'
        /\ TakingAccounts => n > Len(Planned(from))
    BY <1>4 DEF AccountsDone, MapGroup, MapOrder, CheckAlert, EmitLayout, SaveGroup, Settings,
                SaveOrder, SaveAlert
  <2> QED BY <1>3, <2>1, <2>2
<1>5. CASE ImportStep
  <2>1. CASE Undisturbed'
    <3>1. at # "idle" /\ at' # "idle"
      BY <1>5, <2>1 DEF ImportStep, LookUp, AccountsDone, MapGroup, MapOrder, CheckAlert,
            EmitLayout, Persist, SaveGroup, Settings, SaveOrder, SaveAlert
    <3>2. TRUE \in BOOLEAN
      OBVIOUS
    <3> QED BY <1>2, <1>4, <1>5, <2>1, <3>1, <3>2 DEF ImportStep
  <2> QED BY <2>1 DEF ArrivedAccountsInv
<1>6. CASE Forget \/ raced'
  BY <1>6 DEF Forget, Undisturbed, ArrivedAccountsInv
<1>7. CASE UNCHANGED stillVars
  <2>1. UNCHANGED <<accounts, idMap, from, added, skipped, raced, failed, at, n>>
    BY <1>7 DEF stillVars, importVars
  <2>2. CASE at = "idle"
    BY <2>1, <2>2 DEF ArrivedAccountsInv
  <2> QED BY <1>3, <2>1, <2>2
<1> QED BY <1>1, <1>5, <1>6, <1>7, LocalChangeRaces, OthersAreStill DEF DeviceStep

(* A group that has arrived stays: no group is lost or renamed by an import. *)
LEMMA ArrivedGroupStays ==
  ASSUME from' = from, idMap' = idMap, NEW k \in DOMAIN Exported(from).groups,
         groupMap'[Exported(from).groups[k].id] = groupMap[Exported(from).groups[k].id],
         warned => warned',
         \A i \in DOMAIN groups : /\ i \in DOMAIN groups' /\ groups'[i].id = groups[i].id
                                  /\ groups[i].members \subseteq groups'[i].members,
         GroupArrived(k)
  PROVE  GroupArrived(k)'
<1> DEFINE g == Exported(from).groups[k]
           mine == {idMap[s] : s \in g.members} \ {NoValue}
<1>1. CASE warned
  BY <1>1 DEF GroupArrived
<1>2. CASE ~warned
  <2>1. PICK i \in DOMAIN groups :
          groups[i].id = groupMap[g.id] /\ mine \subseteq groups[i].members
    BY <1>2 DEF GroupArrived
  <2>2. i \in DOMAIN groups' /\ groups'[i].id = groupMap'[g.id] /\ mine \subseteq groups'[i].members
    <3> HIDE DEF mine
    <3> QED BY <2>1
  <2>3. GroupArrived(k)' <=>
          \/ warned'
          \/ \E j \in DOMAIN groups' :
                groups'[j].id = groupMap'[g.id] /\ mine \subseteq groups'[j].members
    BY DEF GroupArrived
  <2> HIDE DEF g, mine
  <2> QED BY <2>2, <2>3
<1> QED BY <1>1, <1>2

(* Saving a group keeps the ones that are here and, with room and no error, *)
(* brings its members to the one that is it.                                *)
LEMMA SavedGroupArrives ==
  ASSUME groups \in Seq(Group), plan.group \in Group, NEW ok \in BOOLEAN, SaveGroup(ok), ok
  PROVE  /\ \A i \in DOMAIN groups : /\ i \in DOMAIN groups' /\ groups'[i].id = groups[i].id
                                     /\ groups[i].members \subseteq groups'[i].members
         /\ \/ warned' /\ groupMap' = groupMap
            \/ /\ groupMap' = [groupMap EXCEPT ![Exported(from).groups[n].id] = plan.expected]
               /\ \E i \in DOMAIN groups' :
                     /\ groups'[i].id = IF SameGroup(plan.group) = 0 THEN plan.group.id
                                        ELSE groups[SameGroup(plan.group)].id
                     /\ plan.group.members \subseteq groups'[i].members
<1> DEFINE g == plan.group
           i == SameGroup(g)
           new == [groups[i] EXCEPT !.members = groups[i].members \cup g.members]
<1>0. \A j \in DOMAIN groups : groups[j] \in Group
  OBVIOUS
<1>1. CASE i # 0
  <2>1. i \in DOMAIN groups
    BY <1>1, SameGroupIsHere
  <2>2. /\ groups' = [groups EXCEPT ![i] = new]
        /\ groupMap' = [groupMap EXCEPT ![Exported(from).groups[n].id] = plan.expected]
    BY <1>1 DEF SaveGroup
  <2>3. new.id = groups[i].id /\ new.members = groups[i].members \cup g.members
    BY <1>0, <2>1 DEF Group
  <2> HIDE DEF new, i, g
  <2>4. /\ DOMAIN groups' = DOMAIN groups /\ groups'[i] = new
        /\ \A j \in DOMAIN groups : j # i => groups'[j] = groups[j]
    BY <2>1, <2>2
  <2>5. \A j \in DOMAIN groups : groups'[j].id = groups[j].id
                                 /\ groups[j].members \subseteq groups'[j].members
    BY <2>3, <2>4
  <2>6. /\ i \in DOMAIN groups' /\ groups'[i].id = groups[i].id
        /\ g.members \subseteq groups'[i].members
    BY <2>1, <2>3, <2>4
  <2> QED BY <1>1, <2>2, <2>4, <2>5, <2>6 DEF i, g
<1>2. CASE i = 0
  <2>1. CASE Len(groups) < MaxGroups
    <3>1. /\ groups' = Append(groups, g)
          /\ groupMap' = [groupMap EXCEPT ![Exported(from).groups[n].id] = plan.expected]
      BY <1>2, <2>1 DEF SaveGroup
    <3>2. /\ Len(groups) + 1 \in DOMAIN groups' /\ groups'[Len(groups) + 1] = g
          /\ \A j \in DOMAIN groups : j \in DOMAIN groups' /\ groups'[j] = groups[j]
      BY <3>1
    <3> HIDE DEF i
    <3> QED BY <1>2, <3>1, <3>2 DEF i
  <2>2. CASE ~(Len(groups) < MaxGroups)
    <3>1. groups' = groups /\ warned' = TRUE /\ groupMap' = groupMap
      BY <1>2, <2>2 DEF SaveGroup
    <3> QED BY <3>1
  <2> QED BY <2>1, <2>2
<1> QED BY <1>1, <1>2

(* Which group is the sent one depends on its id and its name only. *)
LEMMA SameGroupOfCopy ==
  ASSUME NEW g, NEW h, g.id = h.id, g.name = h.name
  PROVE  SameGroup(g) = SameGroup(h)
<1> DEFINE Matches(id, name) == {i \in DOMAIN groups : groups[i].id = id \/ groups[i].name = name}
           First(id, name) == IF Matches(id, name) = {} THEN 0
                              ELSE CHOOSE i \in Matches(id, name) :
                                      \A j \in Matches(id, name) : i <= j
<1>1. SameGroup(g) = First(g.id, g.name) /\ SameGroup(h) = First(h.id, h.name)
  BY DEF SameGroup
<1> HIDE DEF First
<1> QED BY <1>1

(* Every group taken up so far is here with the accounts that are here, or  *)
(* the summary warns.                                                       *)
LEMMA StepKeepsArrivedGroups ==
  ASSUME AccountsInv, MapsInv, ArrivedGroupsInv, DeviceStep
  PROVE  ArrivedGroupsInv'
<1> USE DEF Undisturbed, TakingAccounts, TakingGroups
<1>1. ASSUME NEW t \in Transfers, Begin(t) PROVE ArrivedGroupsInv'
  BY <1>1 DEF Begin, ArrivedGroupsInv
<1>2. ASSUME NEW ok \in BOOLEAN, NEW id, LookUp \/ Persist(ok, id) PROVE ArrivedGroupsInv'
  <2>1. at' \in {"account", "persist"}
    BY <1>2 DEF LookUp, Persist
  <2> QED BY <2>1 DEF ArrivedGroupsInv
<1>3. CASE AccountsDone
  <2>1. at' = "group" /\ n' = 1 /\ from' = from
    BY <1>3 DEF AccountsDone
  <2>2. CASE at # "idle" /\ from \in Transfers
    <3>1. \A k \in DOMAIN Exported(from).groups : ~(k < 1)
      BY <2>2, SentShape
    <3>2. Exported(from)' = Exported(from)
      BY <2>1
    <3> QED BY <2>1, <3>1, <3>2 DEF ArrivedGroupsInv
  <2> QED BY <1>3, <2>2 DEF AccountsDone, AccountsInv
<1>4. CASE MapGroup
  <2> DEFINE g == Exported(from).groups[n]
             here == {i \in {To(s) : s \in g.members} : Here(i)}
             is == IF SameGroup(g) = 0 THEN g.id ELSE groups[SameGroup(g)].id
  <2>1. /\ at = "group" /\ at' = "saveGroup" /\ n <= Len(Exported(from).groups)
        /\ UNCHANGED <<accounts, groups, idMap, groupMap, from, n, warned, raced, failed>>
    BY <1>4 DEF MapGroup, deviceVars
  <2>2. plan' = [group |-> [g EXCEPT !.members = here], expected |-> is]
    BY <1>4 DEF MapGroup
  <2>3. from \in Transfers /\ n \in DOMAIN Exported(from).groups
    BY <2>1, SentShape DEF AccountsInv
  <2>4. Exported(from)' = Exported(from) /\ g' = g
    BY <2>1
  <2>5. here' = here /\ is' = is
    BY <2>1, <2>4 DEF To, Here, SameGroup
  <2>6. CASE Undisturbed'
    <3>1. \A k \in DOMAIN Exported(from).groups : k < n => GroupArrived(k)
      BY <2>1, <2>6 DEF ArrivedGroupsInv
    <3>2. \A k \in DOMAIN Exported(from).groups : k < n => GroupArrived(k)'
      BY <2>1, <2>4, <3>1 DEF GroupArrived
    <3>3. plan'.group = [g EXCEPT !.members = here]' /\ plan'.expected = is'
      BY <2>2, <2>4, <2>5
    <3> QED BY <2>1, <2>3, <2>4, <3>2, <3>3 DEF ArrivedGroupsInv
  <2> QED BY <2>6 DEF ArrivedGroupsInv
<1>5. ASSUME NEW ok \in BOOLEAN, SaveGroup(ok) PROVE ArrivedGroupsInv'
  <2> DEFINE e == Exported(from).groups
             g == e[n]
             here == {i \in {To(s) : s \in g.members} : Here(i)}
             is == IF SameGroup(g) = 0 THEN g.id ELSE groups[SameGroup(g)].id
             mine == {idMap[s] : s \in g.members} \ {NoValue}
  <2>1. /\ at = "saveGroup" /\ at' = "group" /\ n' = n + 1
        /\ UNCHANGED <<accounts, idMap, from, raced>> /\ Outcome(ok)
        /\ warned => warned'
    BY <1>5 DEF SaveGroup
  <2>2. CASE Undisturbed'
    <3>1. ok /\ Undisturbed
      BY <2>1, <2>2 DEF Outcome
    <3>2. /\ n \in DOMAIN e /\ plan.group = [g EXCEPT !.members = here] /\ plan.expected = is
          /\ \A k \in DOMAIN e : k < n => GroupArrived(k)
      BY <2>1, <3>1 DEF ArrivedGroupsInv
    <3>3. /\ from \in Transfers /\ DOMAIN e = 1..Len(e) /\ Len(e) \in Nat /\ g \in Group
          /\ \A k \in DOMAIN e : e[k] \in Group /\ (k # n => e[k].id # g.id)
      BY <2>1, <3>2, SentShape DEF AccountsInv
    <3>4. /\ plan.group.id = g.id /\ plan.group.name = g.name /\ plan.group.members = here
          /\ plan.group \in Group
      BY <2>1, <3>2, <3>3 DEF Group, MapsInv
    <3>5. is = IF SameGroup(plan.group) = 0 THEN plan.group.id
               ELSE groups[SameGroup(plan.group)].id
      BY <3>4, SameGroupOfCopy
    <3>6. /\ \A i \in DOMAIN groups : /\ i \in DOMAIN groups' /\ groups'[i].id = groups[i].id
                                      /\ groups[i].members \subseteq groups'[i].members
          /\ \/ warned' /\ groupMap' = groupMap
             \/ /\ groupMap' = [groupMap EXCEPT ![g.id] = is]
                /\ \E i \in DOMAIN groups' :
                      groups'[i].id = is /\ here \subseteq groups'[i].members
      <4>1. groups \in Seq(Group)
        BY DEF MapsInv
      <4> HIDE DEF is, here
      <4> QED BY <1>5, <3>1, <3>2, <3>4, <3>5, <4>1, SavedGroupArrives
    <3>7. mine \subseteq here
      <4>1. ASSUME NEW s \in g.members, idMap[s] # NoValue PROVE To(s) = idMap[s] /\ Here(idMap[s])
        BY <3>1, <3>3, <4>1 DEF To, MapsInv, Group
      <4> QED BY <4>1
    <3>8. groupMap \in [Groups -> Groups \cup {NoValue}] /\ g.id \in Groups
      BY <3>3 DEF MapsInv, Group
    <3> HIDE DEF is, here
    <3>9. ASSUME NEW k \in DOMAIN e, k < n PROVE GroupArrived(k)'
      <4>1. groupMap'[e[k].id] = groupMap[e[k].id]
        BY <3>3, <3>6, <3>8, <3>9 DEF Group
      <4> HIDE DEF mine
      <4> QED BY <2>1, <3>2, <3>6, <3>9, <4>1, ArrivedGroupStays
    <3>10. ASSUME NEW k \in DOMAIN e, k = n PROVE GroupArrived(k)'
      <4>1. Exported(from)' = Exported(from)
        BY <2>1
      <4>2. GroupArrived(k)' <=>
              \/ warned'
              \/ \E i \in DOMAIN groups' :
                    groups'[i].id = groupMap'[g.id] /\ mine \subseteq groups'[i].members
        BY <2>1, <3>10, <4>1 DEF GroupArrived
      <4> HIDE DEF mine
      <4> QED BY <3>6, <3>7, <3>8, <4>2
    <3>11. \A k \in DOMAIN e : k < n' => GroupArrived(k)'
      BY <2>1, <3>2, <3>3, <3>9, <3>10
    <3>12. Exported(from)' = Exported(from)
      BY <2>1
    <3> QED BY <2>1, <3>11, <3>12 DEF ArrivedGroupsInv
  <2> QED BY <2>2 DEF ArrivedGroupsInv
<1>6. ASSUME UNCHANGED <<accounts, groups, idMap, groupMap, from, raced>>, ~failed' => ~failed,
             warned => warned', at # "idle", ~TakingAccounts,
             TakingGroups' => TakingGroups /\ n' = n /\ plan' = plan /\ at' = at,
             TakingGroups => TakingGroups' \/ n > Len(Exported(from).groups)
      PROVE  ArrivedGroupsInv'
  <2>1. CASE Undisturbed'
    <3>1. Undisturbed /\ from \in Transfers /\ n \in Nat \ {0}
      BY <1>6, <2>1 DEF AccountsInv
    <3>2. Exported(from)' = Exported(from)
      BY <1>6
    <3>3. \A k \in DOMAIN Exported(from).groups : (TakingGroups' => k < n') => GroupArrived(k)
      <4>1. CASE TakingGroups /\ ~TakingGroups'
        <5>1. \A k \in DOMAIN Exported(from).groups : k < n
          BY <1>6, <3>1, <4>1, SentShape
        <5> QED BY <1>6, <3>1, <4>1, <5>1 DEF ArrivedGroupsInv
      <4>2. CASE TakingGroups <=> TakingGroups'
        BY <1>6, <3>1, <4>2 DEF ArrivedGroupsInv
      <4> QED BY <1>6, <4>1, <4>2
    <3>4. ASSUME NEW k \in DOMAIN Exported(from).groups, GroupArrived(k) PROVE GroupArrived(k)'
      BY <1>6, <3>4, ArrivedGroupStays
    <3>5. \A k \in DOMAIN Exported(from).groups : (TakingGroups' => k < n') => GroupArrived(k)'
      BY <3>3, <3>4
    <3>6. CASE at' # "saveGroup"
      BY <3>2, <3>5, <3>6 DEF ArrivedGroupsInv
    <3>7. CASE at' = "saveGroup"
      <4> DEFINE g == Exported(from).groups[n]
                 here == {i \in {To(s) : s \in g.members} : Here(i)}
                 is == IF SameGroup(g) = 0 THEN g.id ELSE groups[SameGroup(g)].id
      <4>1. at = "saveGroup" /\ n' = n /\ plan' = plan
        BY <1>6, <3>7
      <4>2. /\ n \in DOMAIN Exported(from).groups /\ plan.group = [g EXCEPT !.members = here]
            /\ plan.expected = is
        BY <3>1, <4>1 DEF ArrivedGroupsInv
      <4>3. g' = g /\ here' = here /\ is' = is
        BY <1>6, <3>2, <4>1 DEF To, Here, SameGroup
      <4>4. plan'.group = [g EXCEPT !.members = here]' /\ plan'.expected = is'
        BY <4>1, <4>2, <4>3
      <4> QED BY <3>2, <3>5, <4>1, <4>2, <4>4 DEF ArrivedGroupsInv
    <3> QED BY <3>6, <3>7
  <2> QED BY <2>1 DEF ArrivedGroupsInv
<1>7. ASSUME NEW ok \in BOOLEAN,
             MapOrder(ok) \/ CheckAlert \/ EmitLayout \/ Settings(ok) \/ SaveOrder(ok) \/ SaveAlert(ok)
      PROVE  ArrivedGroupsInv'
  <2>1. UNCHANGED <<accounts, groups, idMap, groupMap, from, raced>>
    BY <1>7 DEF MapOrder, CheckAlert, EmitLayout, Settings, SaveOrder, SaveAlert, deviceVars
  <2>2. /\ at # "idle" /\ ~TakingAccounts /\ ~TakingGroups'
        /\ TakingGroups => n > Len(Exported(from).groups)
    BY <1>7 DEF MapOrder, CheckAlert, EmitLayout, Settings, SaveOrder, SaveAlert
  <2>3. (~failed' => ~failed) /\ (warned => warned')
    <3>1. CASE CheckAlert \/ EmitLayout
      <4>1. UNCHANGED <<failed, warned>>
        BY <3>1 DEF CheckAlert, EmitLayout
      <4> QED BY <4>1
    <3>5. CASE MapOrder(ok)
      BY <3>5 DEF MapOrder, Outcome
    <3>2. CASE Settings(ok)
      BY <3>2 DEF Settings, Outcome
    <3>3. CASE SaveOrder(ok)
      BY <3>3 DEF SaveOrder, Outcome
    <3>4. CASE SaveAlert(ok)
      BY <3>4 DEF SaveAlert, Outcome
    <3> QED BY <1>7, <3>1, <3>2, <3>3, <3>4, <3>5
  <2> QED BY <1>6, <2>1, <2>2, <2>3
<1>8. CASE ImportStep
  <2>1. TRUE \in BOOLEAN
    OBVIOUS
  <2> QED BY <1>2, <1>3, <1>4, <1>5, <1>7, <1>8, <2>1 DEF ImportStep
<1>9. CASE Forget \/ raced'
  BY <1>9 DEF Forget, ArrivedGroupsInv
<1>10. CASE UNCHANGED stillVars
  <2>1. UNCHANGED <<accounts, groups, idMap, groupMap, from, raced, failed, warned, at, n, plan>>
    BY <1>10 DEF stillVars, importVars
  <2>2. CASE at = "idle" \/ TakingAccounts
    BY <2>1, <2>2 DEF ArrivedGroupsInv
  <2> QED BY <1>6, <2>1, <2>2
<1> QED BY <1>1, <1>8, <1>9, <1>10, LocalChangeRaces, OthersAreStill DEF DeviceStep

(* The alerts taken up so far are those of the accounts here. *)
LEMMA StepKeepsArrivedAlerts ==
  ASSUME AccountsInv, MapsInv, ArrivedAlertsInv, DeviceStep
  PROVE  ArrivedAlertsInv'
<1> USE DEF Undisturbed, TakingAlerts
<1> DEFINE e == Exported(from).alerts
<1>1. ASSUME NEW ok \in BOOLEAN, NEW id, NEW t,
             Begin(t) \/ LookUp \/ Persist(ok, id) \/ AccountsDone \/ MapGroup \/ SaveGroup(ok)
             \/ Forget \/ raced'
      PROVE  ArrivedAlertsInv'
  <2>1. at' \in {"account", "persist", "group", "saveGroup"} \/ at' = "idle" \/ raced'
    BY <1>1 DEF Begin, LookUp, Persist, AccountsDone, MapGroup, SaveGroup, Forget
  <2> QED BY <2>1 DEF ArrivedAlertsInv
<1>2. ASSUME NEW ok \in BOOLEAN, Settings(ok) PROVE ArrivedAlertsInv'
  BY <1>2 DEF Settings, ArrivedAlertsInv
<1>3. ASSUME NEW ok \in BOOLEAN, MapOrder(ok) \/ SaveOrder(ok) PROVE ArrivedAlertsInv'
  <2>1. /\ at \in {"order", "saveOrder"} /\ at' \in {"alert", "saveOrder"}
        /\ from' = from /\ raced' = raced /\ (n' = n \/ n' = 1)
    BY <1>3 DEF MapOrder, SaveOrder
  <2>2. ~failed' => ~failed
    <3>1. CASE MapOrder(ok)
      BY <3>1 DEF MapOrder, Outcome
    <3>2. CASE SaveOrder(ok)
      BY <3>2 DEF SaveOrder, Outcome
    <3> QED BY <1>3, <3>1, <3>2
  <2>3. CASE Undisturbed'
    <3>1. n' = 1 /\ from \in Transfers
      BY <2>1, <2>2, <2>3 DEF ArrivedAlertsInv, AccountsInv
    <3>2. \A k \in DOMAIN e : ~(k < 1)
      BY <3>1, SentShape
    <3>3. Exported(from)' = Exported(from)
      BY <2>1
    <3> QED BY <2>1, <3>1, <3>2, <3>3 DEF ArrivedAlertsInv
  <2> QED BY <2>3 DEF ArrivedAlertsInv
<1>4. ASSUME UNCHANGED <<idMap, from, raced>>, ~failed' => ~failed, alerts \subseteq alerts',
             at \in {"alert", "saveAlert"}, at' \in {"alert", "saveAlert", "done"},
             at' = "done" => n > Len(e),
             at' = "saveAlert" => n' = n /\ plan' = To(e[n]),
             at' = "alert" => n' = n + 1 /\ (n \in DOMAIN e /\ idMap[e[n]] # NoValue
                                              => idMap[e[n]] \in alerts')
      PROVE  ArrivedAlertsInv'
  <2>1. CASE Undisturbed'
    <3>1. /\ from \in Transfers /\ n \in Nat /\ Undisturbed
          /\ \A k \in DOMAIN e : k < n => AlertArrived(k)
      BY <1>4, <2>1 DEF AccountsInv, ArrivedAlertsInv
    <3>2. DOMAIN e = 1..Len(e) /\ Len(e) \in Nat /\ Exported(from)' = Exported(from)
      BY <1>4, <3>1, SentShape
    <3>3. ASSUME NEW k \in DOMAIN e, k < n PROVE AlertArrived(k)'
      BY <1>4, <3>1, <3>2, <3>3 DEF AlertArrived
    <3>4. ASSUME at' = "alert", NEW k \in DOMAIN e, k = n PROVE AlertArrived(k)'
      BY <1>4, <3>2, <3>4 DEF AlertArrived
    <3>5. \A k \in DOMAIN e : (TakingAlerts' => k < n') => AlertArrived(k)'
      BY <1>4, <3>1, <3>2, <3>3, <3>4
    <3>6. at' = "saveAlert" => plan' = To(Exported(from).alerts[n])'
      BY <1>4, <3>2 DEF To
    <3> QED BY <1>4, <3>2, <3>5, <3>6 DEF ArrivedAlertsInv
  <2> QED BY <2>1 DEF ArrivedAlertsInv
<1>5. CASE CheckAlert
  <2> DEFINE id == To(e[n])
  <2>1. /\ at = "alert" /\ UNCHANGED <<idMap, from, raced, failed, alerts>> /\ n <= Len(e)
    BY <1>5 DEF CheckAlert, deviceVars
  <2>2. CASE Here(id)
    <3>1. at' = "saveAlert" /\ n' = n /\ plan' = id
      BY <1>5, <2>2 DEF CheckAlert
    <3> QED BY <1>4, <2>1, <3>1
  <2>3. CASE ~Here(id)
    <3>1. at' = "alert" /\ n' = n + 1
      BY <1>5, <2>1, <2>3 DEF CheckAlert
    <3>2. CASE raced
      BY <2>1, <3>2 DEF ArrivedAlertsInv
    <3>3. CASE ~raced
      <4>1. n \in DOMAIN e => e[n] \in Ids
        BY <2>1, SentShape DEF AccountsInv
      <4>2. n \in DOMAIN e => idMap[e[n]] = NoValue
        BY <2>3, <3>3, <4>1 DEF To, MapsInv
      <4> QED BY <1>4, <2>1, <3>1, <4>2
    <3> QED BY <3>2, <3>3
  <2> QED BY <2>2, <2>3
<1>6. ASSUME NEW ok \in BOOLEAN, SaveAlert(ok) PROVE ArrivedAlertsInv'
  <2>1. /\ at = "saveAlert" /\ at' = "alert" /\ n' = n + 1 /\ alerts' = alerts \cup {plan}
        /\ UNCHANGED <<idMap, from, raced>> /\ (~failed' => ~failed)
    BY <1>6 DEF SaveAlert, Outcome
  <2>2. CASE Undisturbed
    <3>1. plan = To(e[n])
      BY <2>1, <2>2 DEF ArrivedAlertsInv
    <3>2. idMap[e[n]] # NoValue => idMap[e[n]] \in alerts'
      BY <2>1, <3>1 DEF To
    <3> QED BY <1>4, <2>1, <3>2
  <2>3. CASE ~Undisturbed
    BY <2>1, <2>3 DEF ArrivedAlertsInv
  <2> QED BY <2>2, <2>3
<1>7. CASE EmitLayout
  <2>1. /\ at = "alert" /\ at' = "done" /\ UNCHANGED <<idMap, from, raced, failed, alerts>>
        /\ n > Len(e)
    BY <1>7 DEF EmitLayout
  <2> QED BY <1>4, <2>1
<1>8. CASE ImportStep
  <2>1. TRUE \in BOOLEAN
    OBVIOUS
  <2> QED BY <1>1, <1>2, <1>3, <1>5, <1>6, <1>7, <1>8, <2>1 DEF ImportStep
<1>9. CASE UNCHANGED stillVars
  <2>1. UNCHANGED <<idMap, from, raced, failed, alerts, at, n, plan>>
    BY <1>9 DEF stillVars, importVars
  <2>2. Exported(from)' = Exported(from) /\ \A s : To(s)' = To(s)
    BY <2>1 DEF To
  <2>3. \A k : AlertArrived(k)' <=> AlertArrived(k)
    BY <2>1, <2>2 DEF AlertArrived
  <2> QED BY <2>1, <2>2, <2>3 DEF ArrivedAlertsInv
<1>10. TRUE \in BOOLEAN
  OBVIOUS
<1> QED BY <1>1, <1>8, <1>9, <1>10, LocalChangeRaces, OthersAreStill DEF DeviceStep

-----------------------------------------------------------------------------
(* The dialog.                                                               *)

LEMMA CallTypes ==
  ASSUME TypeOK, NEW c \in Calls
  PROVE  /\ Stale \in [Calls -> {"none", "current", "stale"}]
         /\ Begun(c) \in [Calls -> {"none", "current", "stale"}]
         /\ Answered(c) \in [Calls -> {"none", "current", "stale"}]
BY DEF TypeOK, FlowTypes, Stale, Begun, Answered

LEMMA StepKeepsFlowTypes ==
  ASSUME TypeOK, Next
  PROVE  FlowTypes'
<1>0. /\ \A c \in Calls : /\ Stale \in [Calls -> {"none", "current", "stale"}]
                          /\ Begun(c) \in [Calls -> {"none", "current", "stale"}]
                          /\ Answered(c) \in [Calls -> {"none", "current", "stale"}]
  BY CallTypes
<1> USE DEF FlowTypes, flowVars, Views, Statuses, Sessions, Calls
<1>1. ASSUME ChooseRole PROVE FlowTypes'
  BY <1>1, <1>0 DEF ChooseRole, TypeOK
<1>2. ASSUME AskCamera PROVE FlowTypes'
  BY <1>2, <1>0 DEF AskCamera, TypeOK
<1>3. ASSUME HostAgain PROVE FlowTypes'
  BY <1>3, <1>0 DEF HostAgain, TypeOK
<1>4. ASSUME Join PROVE FlowTypes'
  BY <1>4, <1>0 DEF Join, TypeOK
<1>5. ASSUME ShowQr PROVE FlowTypes'
  BY <1>5, <1>0 DEF ShowQr, TypeOK
<1>6. ASSUME CompareOwn PROVE FlowTypes'
  BY <1>6, <1>0 DEF CompareOwn, ShowView, TypeOK
<1>7. ASSUME Rescan PROVE FlowTypes'
  BY <1>7, <1>0 DEF Rescan, TypeOK
<1>8. ASSUME Confirm PROVE FlowTypes'
  BY <1>8, <1>0 DEF Confirm, TypeOK
<1>9. ASSUME NEW next \in {"host", "code"}, LinkCode(next) PROVE FlowTypes'
  BY <1>9, <1>0 DEF LinkCode, StartLinkCode, TypeOK
<1>10. ASSUME NEW next \in {"host", "code"}, AskWifi(next) PROVE FlowTypes'
  BY <1>10, <1>0 DEF AskWifi, TypeOK
<1>11. ASSUME NEW escape \in BOOLEAN, LeaveScanner(escape) PROVE FlowTypes'
  BY <1>11, <1>0 DEF LeaveScanner, ClearCapture, BackToModes, TypeOK
<1>12. ASSUME ScannerToCodes PROVE FlowTypes'
  BY <1>12, <1>0 DEF ScannerToCodes, ShowView, TypeOK
<1>13. ASSUME LeaveCodes PROVE FlowTypes'
  <2>1. CASE BackToModes
    BY <1>13, <1>0, <2>1 DEF LeaveCodes, BackToModes, TypeOK
  <2>2. CASE ShowView("select-mode", "none")
            /\ UNCHANGED <<open, status, session, poll, told, notices, waits, otherVars, late>>
    BY ZenonT(60), <1>13, <1>0, <2>2 DEF LeaveCodes, ShowView, TypeOK
  <2> QED BY <1>13, <2>1, <2>2 DEF LeaveCodes
<1>14. ASSUME LeaveConfirm PROVE FlowTypes'
  BY <1>14, <1>0 DEF LeaveConfirm, ShowView, TypeOK
<1>15. ASSUME LeaveLink PROVE FlowTypes'
  BY <1>15, <1>0 DEF LeaveLink, BackToModes, TypeOK
<1>16. ASSUME LeaveModes PROVE FlowTypes'
  BY <1>16, <1>0 DEF LeaveModes, ShowView, TypeOK
<1>17. ASSUME ConfirmSas PROVE FlowTypes'
  BY <1>17, <1>0 DEF ConfirmSas, TypeOK
<1>18. ASSUME Open PROVE FlowTypes'
  BY <1>18, <1>0 DEF Open, TypeOK
<1>19. ASSUME OpenedByLink PROVE FlowTypes'
  BY <1>19, <1>0 DEF OpenedByLink, TypeOK
<1>20. ASSUME Close PROVE FlowTypes'
  BY <1>20, <1>0 DEF Close, ClearCapture, TypeOK
<1>21. ASSUME VerifyAnswered PROVE FlowTypes'
  BY <1>21, <1>0 DEF VerifyAnswered, VerifyFailed, TypeOK
<1>22. ASSUME ImportAnswered PROVE FlowTypes'
  <2>1. /\ call' = Answered("import")
        /\ UNCHANGED <<open, view, flow, session, poll, waits, exported, late>>
    BY <1>22 DEF ImportAnswered
  <2>2. \/ UNCHANGED <<status, told, notices>>
        \/ status' = "completed" /\ told' = TRUE /\ notices' = notices + 1
    BY <1>22 DEF ImportAnswered, Unshown
  <2>3. call' \in [Calls -> {"none", "current", "stale"}]
    BY <2>1, <1>0
  <2>4. status' \in Statuses /\ told' \in BOOLEAN
    BY <2>2 DEF TypeOK
  <2>5. notices' \in Nat
    BY <2>2 DEF TypeOK
  <2> QED BY <2>1, <2>3, <2>4, <2>5 DEF TypeOK
<1>23. ASSUME ImportRejected PROVE FlowTypes'
  BY <1>23, <1>0 DEF ImportRejected, Unshown, TypeOK
<1>24. ASSUME CameraAsked PROVE FlowTypes'
  BY <1>24, <1>0 DEF CameraAsked, ShowView, TypeOK
<1>25. ASSUME Poll PROVE FlowTypes'
  BY <1>25 DEF Poll, Shown, TypeOK
<1>26. ASSUME Polled PROVE FlowTypes'
  BY <1>26, <1>0 DEF Polled, ShowStatus, KeepCompleted, TypeOK
<1>27. ASSUME NEW next \in {"host", "code"}, WifiIsOn(next) PROVE FlowTypes'
  BY <1>27, <1>0 DEF WifiIsOn, StartLinkCode, TypeOK
<1>28. ASSUME NEW ok \in BOOLEAN, HostStarted(ok) PROVE FlowTypes'
  BY <1>28, <1>0 DEF HostStarted, ShowStatus, Unshown, TypeOK
<1>29. ASSUME NEW ok \in BOOLEAN, Joined(ok) PROVE FlowTypes'
  BY <1>29, <1>0 DEF Joined, ShowStatus, Unshown, TypeOK
<1>30. ASSUME NEW ok \in BOOLEAN, ExportAnswered(ok) PROVE FlowTypes'
  BY <1>30, <1>0 DEF ExportAnswered, Exports, TypeOK
<1>31. ASSUME SessionMoves PROVE FlowTypes'
  BY <1>31, <1>0 DEF SessionMoves, TypeOK
<1>32. ASSUME ReadLink PROVE FlowTypes'
  BY <1>32, <1>0 DEF ReadLink, ShowView, TypeOK
<1>33. ASSUME NEW t \in Transfers, NEW k \in Numbers, NEW good \in BOOLEAN,
              ReadFrame(t, k, good)
       PROVE  FlowTypes'
  BY <1>33, <1>0 DEF ReadFrame, WithFrame, TypeOK
<1>34. ASSUME UNCHANGED dialogRest PROVE FlowTypes'
  BY <1>34, <1>0 DEF dialogRest, TypeOK
<1> QED
  BY <1>1, <1>2, <1>3, <1>4, <1>5, <1>6, <1>7, <1>8, <1>9, <1>10, <1>11, <1>12, <1>13,
     <1>14, <1>15, <1>16, <1>17, <1>18, <1>19, <1>20, <1>21, <1>22, <1>23, <1>24, <1>25,
     <1>26, <1>27, <1>28, <1>29, <1>30, <1>31, <1>32, <1>33, <1>34
     DEF Next, User, Answers

LEMMA NoFramesIsACapture == NoFrames \in Capture
BY DEF NoFrames, Capture

(* What most steps do to a capture: nothing, or switch the camera.          *)
LEMMA StepKeepsCaptureTypes ==
  ASSUME TypeOK, Next
  PROVE  CaptureTypes'
<1>1. ASSUME NEW next \in {"host", "code"}, NEW ok \in BOOLEAN,
             ChooseRole \/ AskCamera \/ HostAgain \/ Join \/ AskWifi(next) \/ ConfirmSas
             \/ OpenedByLink \/ Poll \/ Polled \/ HostStarted(ok) \/ Joined(ok)
             \/ ExportAnswered(ok) \/ SessionMoves \/ UNCHANGED dialogRest
      PROVE  CaptureTypes'
  <2>1. UNCHANGED captureVars
    BY <1>1 DEF ChooseRole, AskCamera, HostAgain, Join, AskWifi, ConfirmSas, OpenedByLink, Poll,
                Polled, HostStarted, Joined, ExportAnswered, SessionMoves, dialogRest
  <2> QED BY <2>1 DEF TypeOK, CaptureTypes, captureVars
<1>2. ASSUME NEW next \in {"host", "code"},
             ShowQr \/ CompareOwn \/ LinkCode(next) \/ ScannerToCodes \/ LeaveConfirm
             \/ LeaveLink \/ LeaveModes \/ Open \/ CameraAsked \/ WifiIsOn(next) \/ ReadLink
      PROVE  CaptureTypes'
  <2>1. UNCHANGED captureRest
    BY <1>2 DEF ShowQr, CompareOwn, LinkCode, ScannerToCodes, LeaveConfirm, LeaveLink,
                LeaveModes, Open, CameraAsked, WifiIsOn, ReadLink
  <2>2. camera' \in BOOLEAN
    BY <1>2 DEF ShowQr, CompareOwn, LinkCode, ScannerToCodes, LeaveConfirm, LeaveLink, LeaveModes,
                Open, CameraAsked, WifiIsOn, ReadLink, ShowView, StartLinkCode, BackToModes,
                TypeOK, CaptureTypes, FlowTypes
  <2> QED BY <2>1, <2>2 DEF TypeOK, CaptureTypes, captureRest
<1>3. ASSUME NEW escape \in BOOLEAN, LeaveScanner(escape) \/ LeaveCodes
      PROVE  CaptureTypes'
  <2>1. UNCHANGED captureLeft /\ frames' = NoFrames /\ held' = NoValue /\ code' = NoValue
        /\ started' = FALSE
    BY <1>3 DEF LeaveScanner, LeaveCodes, ClearCapture
  <2>2. camera' \in BOOLEAN
    BY <1>3 DEF LeaveScanner, LeaveCodes, BackToModes, ShowView, TypeOK, CaptureTypes, FlowTypes
  <2> QED BY <2>1, <2>2, NoFramesIsACapture DEF TypeOK, CaptureTypes, captureLeft
<1>4. CASE Rescan
  BY <1>4, NoFramesIsACapture DEF Rescan, TypeOK, CaptureTypes
<1>5. CASE Confirm
  BY <1>5 DEF Confirm, TypeOK, CaptureTypes
<1>6. CASE Close
  BY <1>6, NoFramesIsACapture DEF Close, ClearCapture, TypeOK, CaptureTypes
<1>7. CASE ImportAnswered \/ ImportRejected
  BY <1>7 DEF ImportAnswered, ImportRejected, TypeOK, CaptureTypes
<1>8. CASE VerifyAnswered
  <2>1. verifies \in Seq(Capture) /\ verifies # <<>>
    BY <1>8 DEF VerifyAnswered, TypeOK, CaptureTypes
  <2>2. Head(verifies) \in Capture /\ Tail(verifies) \in Seq(Capture)
    BY <2>1
  <2> QED BY <1>8, <2>2, NoFramesIsACapture
          DEF VerifyAnswered, VerifyFailed, TypeOK, CaptureTypes, FlowTypes
<1>9. ASSUME NEW t \in Transfers, NEW k \in Numbers, NEW good \in BOOLEAN, ReadFrame(t, k, good)
      PROVE  CaptureTypes'
  <2>1. frames' \in Capture /\ held' = t
    BY <1>9, NoFramesIsACapture DEF ReadFrame, WithFrame, TypeOK, CaptureTypes, Capture, Frame
  <2>2. Append(verifies, frames') \in Seq(Capture)
    BY <2>1 DEF TypeOK, CaptureTypes
  <2>3. UNCHANGED <<code, importing, rejected>>
    BY <1>9 DEF ReadFrame
  <2>4. /\ camera' \in BOOLEAN /\ prompt' \in BOOLEAN /\ started' \in BOOLEAN
        /\ verifying' \in BOOLEAN /\ verifies' \in Seq(Capture)
    BY <1>9, <2>2 DEF ReadFrame, TypeOK, CaptureTypes
  <2> QED BY <2>1, <2>3, <2>4 DEF TypeOK, CaptureTypes
<1> QED
  BY <1>1, <1>2, <1>3, <1>4, <1>5, <1>6, <1>7, <1>8, <1>9 DEF Next, User, Answers

(* Who begins a call has made all others stale. *)
LEMMA CallsThen ==
  ASSUME TypeOK, CallInv
  PROVE  /\ \A c, d \in Calls : Begun(c)[d] = "current" <=> d = c
         /\ \A d \in Calls : Stale[d] # "current"
         /\ \A c, d \in Calls : Answered(c)[d] = "current" <=> d # c /\ Current(d)
BY DEF TypeOK, FlowTypes, Stale, Begun, Answered, Current

LEMMA StepKeepsCallInv ==
  ASSUME TypeOK, CallInv, Next
  PROVE  CallInv'
<1>0. /\ \A c, d \in Calls : Begun(c)[d] = "current" <=> d = c
      /\ \A d \in Calls : Stale[d] # "current"
      /\ \A c, d \in Calls : Answered(c)[d] = "current" <=> d # c /\ Current(d)
  BY CallsThen
<1> USE DEF CallInv, Current, Calls, At, flowVars
<1>1. ASSUME ChooseRole PROVE CallInv'
  BY <1>1, <1>0 DEF ChooseRole
<1>2. ASSUME AskCamera PROVE CallInv'
  BY <1>2, <1>0 DEF AskCamera
<1>3. ASSUME HostAgain PROVE CallInv'
  BY <1>3, <1>0 DEF HostAgain
<1>4. ASSUME Join PROVE CallInv'
  BY <1>4, <1>0 DEF Join
<1>5. ASSUME ShowQr PROVE CallInv'
  BY <1>5, <1>0 DEF ShowQr
<1>6. ASSUME CompareOwn PROVE CallInv'
  BY <1>6, <1>0 DEF CompareOwn, ShowView
<1>7. ASSUME Rescan PROVE CallInv'
  BY <1>7, <1>0 DEF Rescan
<1>8. ASSUME Confirm PROVE CallInv'
  BY <1>8, <1>0 DEF Confirm
<1>9. ASSUME NEW next \in {"host", "code"}, LinkCode(next) PROVE CallInv'
  BY <1>9, <1>0 DEF LinkCode, StartLinkCode
<1>10. ASSUME NEW next \in {"host", "code"}, AskWifi(next) PROVE CallInv'
  BY <1>10, <1>0 DEF AskWifi
<1>11. ASSUME NEW escape \in BOOLEAN, LeaveScanner(escape) PROVE CallInv'
  BY <1>11, <1>0 DEF LeaveScanner, ClearCapture, BackToModes
<1>12. ASSUME ScannerToCodes PROVE CallInv'
  BY <1>12, <1>0 DEF ScannerToCodes, ShowView
<1>13. ASSUME LeaveCodes PROVE CallInv'
  BY <1>13, <1>0 DEF LeaveCodes, ClearCapture, BackToModes, ShowView
<1>14. ASSUME LeaveConfirm PROVE CallInv'
  BY <1>14, <1>0 DEF LeaveConfirm, ShowView
<1>15. ASSUME LeaveLink PROVE CallInv'
  BY <1>15, <1>0 DEF LeaveLink, BackToModes
<1>16. ASSUME LeaveModes PROVE CallInv'
  BY <1>16, <1>0 DEF LeaveModes, ShowView
<1>17. ASSUME ConfirmSas PROVE CallInv'
  BY <1>17, <1>0 DEF ConfirmSas
<1>18. ASSUME Open PROVE CallInv'
  BY <1>18, <1>0 DEF Open
<1>19. ASSUME OpenedByLink PROVE CallInv'
  BY <1>19, <1>0 DEF OpenedByLink
<1>20. ASSUME Close PROVE CallInv'
  BY <1>20, <1>0 DEF Close, ClearCapture
<1>21. ASSUME VerifyAnswered PROVE CallInv'
  BY <1>21, <1>0 DEF VerifyAnswered, VerifyFailed
<1>22. ASSUME ImportAnswered PROVE CallInv'
  BY <1>22, <1>0 DEF ImportAnswered, Unshown
<1>23. ASSUME ImportRejected PROVE CallInv'
  BY <1>23, <1>0 DEF ImportRejected, Unshown
<1>24. ASSUME CameraAsked PROVE CallInv'
  BY <1>24, <1>0 DEF CameraAsked, ShowView
<1>25. ASSUME Poll PROVE CallInv'
  BY <1>25, <1>0 DEF Poll
<1>26. ASSUME Polled PROVE CallInv'
  BY <1>26, <1>0 DEF Polled, ShowStatus, KeepCompleted
<1>27. ASSUME NEW next \in {"host", "code"}, WifiIsOn(next) PROVE CallInv'
  BY <1>27, <1>0 DEF WifiIsOn, StartLinkCode
<1>28. ASSUME NEW ok \in BOOLEAN, HostStarted(ok) PROVE CallInv'
  BY <1>28, <1>0 DEF HostStarted, ShowStatus, Unshown
<1>29. ASSUME NEW ok \in BOOLEAN, Joined(ok) PROVE CallInv'
  BY <1>29, <1>0 DEF Joined
<1>30. ASSUME NEW ok \in BOOLEAN, ExportAnswered(ok) PROVE CallInv'
  BY <1>30, <1>0 DEF ExportAnswered, Exports
<1>31. ASSUME SessionMoves PROVE CallInv'
  BY <1>31, <1>0 DEF SessionMoves
<1>32. ASSUME ReadLink PROVE CallInv'
  BY <1>32, <1>0 DEF ReadLink, ShowView
<1>33. ASSUME NEW t \in Transfers, NEW k \in Numbers, NEW good \in BOOLEAN,
              ReadFrame(t, k, good)
       PROVE  CallInv'
  BY <1>33, <1>0 DEF ReadFrame, WithFrame
<1>34. ASSUME UNCHANGED dialogRest PROVE CallInv'
  BY <1>34, <1>0 DEF dialogRest
<1> QED
  BY <1>1, <1>2, <1>3, <1>4, <1>5, <1>6, <1>7, <1>8, <1>9, <1>10, <1>11, <1>12, <1>13,
     <1>14, <1>15, <1>16, <1>17, <1>18, <1>19, <1>20, <1>21, <1>22, <1>23, <1>24, <1>25,
     <1>26, <1>27, <1>28, <1>29, <1>30, <1>31, <1>32, <1>33, <1>34
     DEF Next, User, Answers

LEMMA StepKeepsTellInv ==
  ASSUME TypeOK, CallInv, TellInv, Next
  PROVE  TellInv'
<1>0. /\ \A c, d \in Calls : Begun(c)[d] = "current" <=> d = c
      /\ \A d \in Calls : Stale[d] # "current"
      /\ \A c, d \in Calls : Answered(c)[d] = "current" <=> d # c /\ Current(d)
  BY CallsThen
<1>00. late \in BOOLEAN /\ told \in BOOLEAN /\ open \in BOOLEAN /\ notices \in Nat
  BY DEF TypeOK, FlowTypes
<1> USE DEF TellInv, Current, Calls, At, Waiting, flowVars
<1>1. ASSUME ChooseRole PROVE TellInv'
  BY <1>1, <1>0, <1>00 DEF ChooseRole
<1>2. ASSUME AskCamera PROVE TellInv'
  BY <1>2, <1>0, <1>00 DEF AskCamera
<1>3. ASSUME HostAgain PROVE TellInv'
  BY <1>3, <1>0, <1>00 DEF HostAgain
<1>4. ASSUME Join PROVE TellInv'
  BY <1>4, <1>0, <1>00 DEF Join
<1>5. ASSUME ShowQr PROVE TellInv'
  BY <1>5, <1>0, <1>00 DEF ShowQr
<1>6. ASSUME CompareOwn PROVE TellInv'
  BY <1>6, <1>0, <1>00 DEF CompareOwn, ShowView
<1>7. ASSUME Rescan PROVE TellInv'
  BY <1>7, <1>0, <1>00 DEF Rescan
<1>8. ASSUME Confirm PROVE TellInv'
  BY <1>8, <1>0, <1>00 DEF Confirm
<1>9. ASSUME NEW next \in {"host", "code"}, LinkCode(next) PROVE TellInv'
  BY <1>9, <1>0, <1>00 DEF LinkCode, StartLinkCode
<1>10. ASSUME NEW next \in {"host", "code"}, AskWifi(next) PROVE TellInv'
  BY <1>10, <1>0, <1>00 DEF AskWifi
<1>11. ASSUME NEW escape \in BOOLEAN, LeaveScanner(escape) PROVE TellInv'
  BY <1>11, <1>0, <1>00 DEF LeaveScanner, ClearCapture, BackToModes
<1>12. ASSUME ScannerToCodes PROVE TellInv'
  BY <1>12, <1>0, <1>00 DEF ScannerToCodes, ShowView
<1>13. ASSUME LeaveCodes PROVE TellInv'
  <2>1. CASE BackToModes
    BY <1>13, <1>0, <1>00, <2>1 DEF LeaveCodes, BackToModes
  <2>2. CASE ShowView("select-mode", "none")
            /\ UNCHANGED <<open, status, session, poll, told, notices, waits, otherVars, late>>
    BY <1>13, <1>0, <1>00, <2>2 DEF LeaveCodes, ShowView
  <2> QED BY <1>13, <2>1, <2>2 DEF LeaveCodes
<1>14. ASSUME LeaveConfirm PROVE TellInv'
  BY <1>14, <1>0, <1>00 DEF LeaveConfirm, ShowView
<1>15. ASSUME LeaveLink PROVE TellInv'
  BY <1>15, <1>0, <1>00 DEF LeaveLink, BackToModes
<1>16. ASSUME LeaveModes PROVE TellInv'
  BY <1>16, <1>0, <1>00 DEF LeaveModes, ShowView
<1>17. ASSUME ConfirmSas PROVE TellInv'
  BY <1>17, <1>0, <1>00 DEF ConfirmSas
<1>18. ASSUME Open PROVE TellInv'
  BY <1>18, <1>0, <1>00 DEF Open
<1>19. ASSUME OpenedByLink PROVE TellInv'
  BY <1>19, <1>0, <1>00 DEF OpenedByLink
<1>20. ASSUME Close PROVE TellInv'
  BY <1>20, <1>0, <1>00 DEF Close, ClearCapture
<1>21. ASSUME VerifyAnswered PROVE TellInv'
  BY <1>21, <1>0, <1>00 DEF VerifyAnswered, VerifyFailed
<1>22. ASSUME ImportAnswered PROVE TellInv'
  <2>1. CASE Current("import")
    BY <1>22, <1>0, <1>00, <2>1 DEF ImportAnswered, CallInv
  <2>2. CASE ~Current("import")
    BY <1>22, <1>0, <1>00, <2>2 DEF ImportAnswered, Unshown
  <2> QED BY <2>1, <2>2
<1>23. ASSUME ImportRejected PROVE TellInv'
  BY <1>23, <1>0, <1>00 DEF ImportRejected, Unshown
<1>24. ASSUME CameraAsked PROVE TellInv'
  BY <1>24, <1>0, <1>00 DEF CameraAsked, ShowView
<1>25. ASSUME Poll PROVE TellInv'
  BY <1>25, <1>0, <1>00 DEF Poll
<1>26. ASSUME Polled PROVE TellInv'
  <2>1. SUFFICES ASSUME ~late' PROVE TellInv'
    BY DEF TellInv
  <2>2. ~late /\ poll = Shown(session) /\ poll # "none" /\ poll' = "none"
        /\ UNCHANGED <<open, session, call>>
    BY <1>26, <2>1 DEF Polled
  <2>3. open
    BY <2>2
  <2>4. CASE told
    BY <1>26, <2>2, <2>3, <2>4, <1>00 DEF Polled, ShowStatus, KeepCompleted
  <2>5. CASE ~told
    <3>1. status' = poll /\ told' = (poll = "completed")
          /\ notices' = IF poll = "completed" THEN 1 ELSE 0
      BY <1>26, <2>2, <2>3, <2>5, <1>00 DEF Polled, ShowStatus, KeepCompleted
    <3>2. poll = "completed" => session = "completed"
      BY <2>2 DEF Shown
    <3>3. session \in {"transferring", "completed"} => poll = session
      BY <2>2 DEF Shown
    <3>4. CASE poll = "completed"
      <4>1. \A c \in {"host", "join", "import"} : ~Current(c)
        BY <2>2, <3>2, <3>4
      <4>2. status' = "completed" /\ told' = TRUE /\ notices' = 1
        BY <3>1, <3>4
      <4> QED BY <2>2, <2>3, <4>1, <4>2
    <3>5. CASE poll # "completed"
      <4>1. status' # "completed" /\ ~told' /\ notices' = 0
        BY <3>1, <3>5
      <4>2. session \in {"transferring", "completed"} =>
              status' = session /\ \A c \in {"host", "join", "import"} : ~Current(c)
        BY <2>2, <3>1, <3>3
      <4> QED BY <2>2, <2>3, <4>1, <4>2
    <3> QED BY <3>4, <3>5
  <2> QED BY <2>4, <2>5
<1>27. ASSUME NEW next \in {"host", "code"}, WifiIsOn(next) PROVE TellInv'
  BY <1>27, <1>0, <1>00 DEF WifiIsOn, StartLinkCode
<1>28. ASSUME NEW ok \in BOOLEAN, HostStarted(ok) PROVE TellInv'
  BY <1>28, <1>0, <1>00 DEF HostStarted, ShowStatus, Unshown
<1>29. ASSUME NEW ok \in BOOLEAN, Joined(ok) PROVE TellInv'
  BY <1>29, <1>0, <1>00 DEF Joined, ByLink, ShowStatus, Unshown
<1>30. ASSUME NEW ok \in BOOLEAN, ExportAnswered(ok) PROVE TellInv'
  BY <1>30, <1>0, <1>00 DEF ExportAnswered, Exports
<1>31. ASSUME SessionMoves PROVE TellInv'
  BY <1>31, <1>0, <1>00 DEF SessionMoves
<1>32. ASSUME ReadLink PROVE TellInv'
  BY <1>32, <1>0, <1>00 DEF ReadLink, ShowView
<1>33. ASSUME NEW t \in Transfers, NEW k \in Numbers, NEW good \in BOOLEAN,
              ReadFrame(t, k, good)
       PROVE  TellInv'
  BY <1>33, <1>0, <1>00 DEF ReadFrame, WithFrame
<1>34. ASSUME UNCHANGED dialogRest PROVE TellInv'
  BY <1>34, <1>0, <1>00 DEF dialogRest
<1> QED
  BY <1>1, <1>2, <1>3, <1>4, <1>5, <1>6, <1>7, <1>8, <1>9, <1>10, <1>11, <1>12, <1>13,
     <1>14, <1>15, <1>16, <1>17, <1>18, <1>19, <1>20, <1>21, <1>22, <1>23, <1>24, <1>25,
     <1>26, <1>27, <1>28, <1>29, <1>30, <1>31, <1>32, <1>33, <1>34
     DEF Next, User, Answers

(* An empty capture is not complete. *)
LEMMA NothingReassembles == ~Reassembles(NoFrames)
<1>1. Captured(NoFrames) = {}
  BY DEF Captured, NoFrames
<1>2. \A t \in Transfers : 1 \in 1..Total[t]
  BY PairingDialogAssumption
<1> QED BY <1>1, <1>2 DEF Reassembles

(* The frame that completes a capture is noticed. *)
LEMMA LastFrameIsNoticed ==
  ASSUME TypeOK, NEW t \in Transfers, NEW k \in Numbers, NEW good \in BOOLEAN,
         ReadFrame(t, k, good), Reassembles(frames')
  PROVE  prompt'
<1> DEFINE frame == [of |-> t, good |-> good]
<1>1. PICK u \in Transfers : /\ Captured(frames') = 1..Total[u]
                            /\ \A i \in Captured(frames') : frames'[i] = [of |-> u, good |-> TRUE]
  BY DEF Reassembles
<1>2. frames' # frames /\ frames' = WithFrame(frame, k)
  BY DEF ReadFrame
<1>3. frames'[k] = frame
  BY <1>2 DEF WithFrame, NoFrames, TypeOK, CaptureTypes, Capture
<1>4. CASE frame = NoValue
  <2>1. frames' = NoFrames
    BY <1>2, <1>4 DEF WithFrame, NoFrames, TypeOK, CaptureTypes, Capture
  <2> QED BY <2>1, NothingReassembles
<1>5. CASE frame # NoValue
  <2>1. k \in Captured(frames')
    BY <1>3, <1>5 DEF Captured
  <2>2. u = t
    BY <1>1, <1>3, <2>1
  <2>3. Cardinality(1..Total[t]) = Total[t]
    <3>1. Total[t] \in Nat \ {0}
      BY PairingDialogAssumption
    <3> QED BY <3>1, FS_Interval
  <2> QED BY <1>1, <2>2, <2>3 DEF ReadFrame
<1> QED BY <1>4, <1>5

LEMMA StepKeepsCaptureInv ==
  ASSUME TypeOK, CallInv, CaptureInv, Next
  PROVE  CaptureInv'
<1>0. /\ \A c, d \in Calls : Begun(c)[d] = "current" <=> d = c
      /\ \A d \in Calls : Stale[d] # "current"
      /\ \A c, d \in Calls : Answered(c)[d] = "current" <=> d # c /\ Current(d)
  BY CallsThen
<1>00. /\ late \in BOOLEAN /\ told \in BOOLEAN /\ open \in BOOLEAN /\ prompt \in BOOLEAN
       /\ camera \in BOOLEAN
  BY DEF TypeOK, FlowTypes, CaptureTypes
<1> USE DEF CaptureInv, Finished, Current, Calls, At, Waiting, flowVars, captureVars, captureRest,
            captureLeft
<1>1. ASSUME ChooseRole PROVE CaptureInv'
  BY <1>1, <1>0, <1>00, NothingReassembles DEF ChooseRole
<1>2. ASSUME AskCamera PROVE CaptureInv'
  BY <1>2, <1>0, <1>00, NothingReassembles DEF AskCamera
<1>3. ASSUME HostAgain PROVE CaptureInv'
  BY <1>3, <1>0, <1>00, NothingReassembles DEF HostAgain
<1>4. ASSUME Join PROVE CaptureInv'
  BY <1>4, <1>0, <1>00, NothingReassembles DEF Join
<1>5. ASSUME ShowQr PROVE CaptureInv'
  BY <1>5, <1>0, <1>00, NothingReassembles DEF ShowQr
<1>6. ASSUME CompareOwn PROVE CaptureInv'
  BY <1>6, <1>0, <1>00, NothingReassembles DEF CompareOwn, ShowView
<1>7. ASSUME Rescan PROVE CaptureInv'
  BY <1>7, <1>0, <1>00, NothingReassembles DEF Rescan
<1>8. ASSUME Confirm PROVE CaptureInv'
  BY <1>8, <1>0, <1>00, NothingReassembles DEF Confirm
<1>9. ASSUME NEW next \in {"host", "code"}, LinkCode(next) PROVE CaptureInv'
  BY <1>9, <1>0, <1>00, NothingReassembles DEF LinkCode, StartLinkCode
<1>10. ASSUME NEW next \in {"host", "code"}, AskWifi(next) PROVE CaptureInv'
  BY <1>10, <1>0, <1>00, NothingReassembles DEF AskWifi
<1>11. ASSUME NEW escape \in BOOLEAN, LeaveScanner(escape) PROVE CaptureInv'
  BY <1>11, <1>0, <1>00, NothingReassembles DEF LeaveScanner, ClearCapture, BackToModes
<1>12. ASSUME ScannerToCodes PROVE CaptureInv'
  BY <1>12, <1>0, <1>00, NothingReassembles DEF ScannerToCodes, ShowView
<1>13. ASSUME LeaveCodes PROVE CaptureInv'
  BY <1>13, <1>0, <1>00, NothingReassembles DEF LeaveCodes, ClearCapture, BackToModes, ShowView
<1>14. ASSUME LeaveConfirm PROVE CaptureInv'
  BY <1>14, <1>0, <1>00, NothingReassembles DEF LeaveConfirm, ShowView
<1>15. ASSUME LeaveLink PROVE CaptureInv'
  BY <1>15, <1>0, <1>00, NothingReassembles DEF LeaveLink, BackToModes
<1>16. ASSUME LeaveModes PROVE CaptureInv'
  BY <1>16, <1>0, <1>00, NothingReassembles DEF LeaveModes, ShowView
<1>17. ASSUME ConfirmSas PROVE CaptureInv'
  BY <1>17, <1>0, <1>00, NothingReassembles DEF ConfirmSas
<1>18. ASSUME Open PROVE CaptureInv'
  BY <1>18, <1>0, <1>00, NothingReassembles DEF Open
<1>19. ASSUME OpenedByLink PROVE CaptureInv'
  BY <1>19, <1>0, <1>00, NothingReassembles DEF OpenedByLink
<1>20. ASSUME Close PROVE CaptureInv'
  BY <1>20, <1>0, <1>00, NothingReassembles DEF Close, ClearCapture
<1>21. ASSUME VerifyAnswered PROVE CaptureInv'
  <2>1. SUFFICES ASSUME ~late' PROVE CaptureInv'
    BY DEF CaptureInv
  <2>2. ~late /\ Head(verifies) = frames /\ UNCHANGED <<open, view, status, told, call>>
    BY <1>21, <2>1, <1>00 DEF VerifyAnswered
  <2>3. CASE Reassembles(frames)
    <3>1. code' = frames /\ UNCHANGED <<frames, prompt, camera>>
      BY <1>21, <2>2, <2>3 DEF VerifyAnswered
    <3>2. open
      BY <2>2, <2>3, NothingReassembles
    <3> QED BY <2>2, <2>3, <3>1, <3>2 DEF Finished
  <2>4. CASE ~Reassembles(frames)
    <3>1. frames' = NoFrames /\ code' = code
      BY <1>21, <2>2, <2>4 DEF VerifyAnswered
    <3>2. code = NoValue
      BY <2>2, <2>4
    <3> QED BY <2>2, <3>1, <3>2, NothingReassembles
  <2> QED BY <2>3, <2>4
<1>22. ASSUME ImportAnswered PROVE CaptureInv'
  <2>1. UNCHANGED <<open, view, frames, code, late>> /\ call' = Answered("import")
    BY <1>22 DEF ImportAnswered
  <2>2. CASE Current("import")
    <3>1. /\ prompt' = FALSE /\ camera' = FALSE /\ status' = "completed" /\ told' = TRUE
          /\ open /\ view = "scanner" /\ ~Current("host")
      BY <1>22, <2>2 DEF ImportAnswered, CallInv
    <3> QED BY <1>0, <2>1, <3>1
  <2>3. CASE ~Current("import")
    <3>1. UNCHANGED <<prompt, camera, status, told>>
      BY <1>22, <2>3 DEF ImportAnswered, Unshown
    <3> QED BY <1>0, <2>1, <3>1
  <2> QED BY <2>2, <2>3
<1>23. ASSUME ImportRejected PROVE CaptureInv'
  BY <1>23, <1>0, <1>00, NothingReassembles DEF ImportRejected, Unshown
<1>24. ASSUME CameraAsked PROVE CaptureInv'
  BY <1>24, <1>0, <1>00, NothingReassembles DEF CameraAsked, ShowView
<1>25. ASSUME Poll PROVE CaptureInv'
  BY <1>25, <1>0, <1>00, NothingReassembles DEF Poll
<1>26. ASSUME Polled PROVE CaptureInv'
  BY <1>26, <1>0, <1>00, NothingReassembles DEF Polled, ShowStatus, KeepCompleted
<1>27. ASSUME NEW next \in {"host", "code"}, WifiIsOn(next) PROVE CaptureInv'
  BY <1>27, <1>0, <1>00, NothingReassembles DEF WifiIsOn, StartLinkCode
<1>28. ASSUME NEW ok \in BOOLEAN, HostStarted(ok) PROVE CaptureInv'
  BY <1>28, <1>0, <1>00, NothingReassembles DEF HostStarted, ShowStatus, Unshown
<1>29. ASSUME NEW ok \in BOOLEAN, Joined(ok) PROVE CaptureInv'
  <2>1. /\ UNCHANGED <<open, view, frames, code, prompt, camera, late>>
        /\ call' = Answered("join") /\ told' = told
    BY <1>29, <1>00 DEF Joined, ShowStatus, Unshown
  <2>2. view = "scanner" => status' = status
    BY <1>29 DEF Joined, ByLink, Unshown
  <2> QED BY <1>0, <1>00, <2>1, <2>2
<1>30. ASSUME NEW ok \in BOOLEAN, ExportAnswered(ok) PROVE CaptureInv'
  BY <1>30, <1>0, <1>00, NothingReassembles DEF ExportAnswered, Exports
<1>31. ASSUME SessionMoves PROVE CaptureInv'
  BY <1>31, <1>0, <1>00, NothingReassembles DEF SessionMoves
<1>32. ASSUME ReadLink PROVE CaptureInv'
  BY <1>32, <1>0, <1>00, NothingReassembles DEF ReadLink, ShowView
<1>33. ASSUME NEW t \in Transfers, NEW k \in Numbers, NEW good \in BOOLEAN, ReadFrame(t, k, good)
       PROVE  CaptureInv'
  <2>1. SUFFICES ASSUME ~late' PROVE CaptureInv'
    BY DEF CaptureInv
  <2>2. /\ ~late /\ open /\ view = "scanner" /\ camera /\ ~prompt
        /\ UNCHANGED <<open, view, code>>
    BY <1>33, <2>1 DEF ReadFrame
  <2>3. code = NoValue
    BY <2>2 DEF Finished
  <2>4. Reassembles(frames') => prompt'
    BY <1>33, LastFrameIsNoticed
  <2> QED BY <2>2, <2>3, <2>4
<1>34. ASSUME UNCHANGED dialogRest PROVE CaptureInv'
  BY <1>34, <1>0, <1>00, NothingReassembles DEF dialogRest
<1> QED
  BY <1>1, <1>2, <1>3, <1>4, <1>5, <1>6, <1>7, <1>8, <1>9, <1>10, <1>11, <1>12, <1>13,
     <1>14, <1>15, <1>16, <1>17, <1>18, <1>19, <1>20, <1>21, <1>22, <1>23, <1>24, <1>25,
     <1>26, <1>27, <1>28, <1>29, <1>30, <1>31, <1>32, <1>33, <1>34
     DEF Next, User, Answers
-----------------------------------------------------------------------------
(* The two together.                                                         *)

(* What the import begins with is a transfer: a capture holds one.          *)
LEMMA NextIsDeviceStep ==
  ASSUME Next
  PROVE  DeviceStep
<1> USE DEF DeviceStep
<1>1. ASSUME NEW next \in {"host", "code"}, NEW ok \in BOOLEAN, NEW escape \in BOOLEAN,
             ChooseRole \/ AskCamera \/ HostAgain \/ Join \/ ShowQr \/ CompareOwn \/ Rescan
             \/ LinkCode(next) \/ AskWifi(next) \/ LeaveScanner(escape) \/ ScannerToCodes
             \/ LeaveCodes \/ LeaveConfirm \/ LeaveLink \/ LeaveModes
      PROVE  DeviceStep
  <2>1. UNCHANGED otherVars
    BY <1>1 DEF ChooseRole, AskCamera, HostAgain, Join, ShowQr, CompareOwn, Rescan, LinkCode,
                AskWifi, LeaveScanner, ScannerToCodes, LeaveCodes, LeaveConfirm, LeaveLink,
                LeaveModes, BackToModes
  <2> QED BY <2>1 DEF otherVars, deviceVars, importVars
<1>2. ASSUME NEW next \in {"host", "code"}, NEW ok \in BOOLEAN,
             ConfirmSas \/ Open \/ OpenedByLink \/ Close \/ VerifyAnswered \/ ImportRejected
             \/ CameraAsked \/ Poll \/ Polled \/ WifiIsOn(next) \/ HostStarted(ok) \/ Joined(ok)
             \/ ExportAnswered(ok) \/ SessionMoves \/ ReadLink
      PROVE  DeviceStep
  <2>1. UNCHANGED otherVars
    BY <1>2 DEF ConfirmSas, Open, OpenedByLink, Close, VerifyAnswered, ImportRejected, CameraAsked,
                Poll, Polled, WifiIsOn, HostStarted, Joined, ExportAnswered, SessionMoves, ReadLink
  <2> QED BY <2>1 DEF otherVars, deviceVars, importVars
<1>3. CASE Confirm
  <2>1. CASE Reassembles(frames)
    <3>1. PICK t \in Transfers : /\ Captured(frames) = 1..Total[t]
                               /\ \A k \in Captured(frames) : frames[k] = [of |-> t, good |-> TRUE]
      BY <2>1 DEF Reassembles
    <3>2. 1 \in 1..Total[t]
      BY PairingDialogAssumption
    <3>3. frames[1].of = t
      BY <3>1, <3>2
    <3> QED BY <1>3, <2>1, <3>3 DEF Confirm
  <2>2. CASE ~Reassembles(frames)
    BY <1>3, <2>2 DEF Confirm, otherVars, deviceVars, importVars
  <2> QED BY <2>1, <2>2
<1>4. CASE ImportAnswered
  BY <1>4 DEF ImportAnswered
<1>5. ASSUME NEW t \in Transfers, NEW k \in Numbers, NEW good \in BOOLEAN, ReadFrame(t, k, good)
      PROVE  DeviceStep
  BY <1>5 DEF ReadFrame, otherVars, deviceVars, importVars
<1> QED
  BY <1>1, <1>2, <1>3, <1>4, <1>5 DEF Next, User, Answers

(* An import is shown to run once the codes were found the same.           *)
LEMMA StartsAtConfirm ==
  ASSUME TypeOK, Next, importing', ~importing
  PROVE  Confirm
<1>1. importing = FALSE /\ importing' # FALSE
  BY DEF TypeOK, CaptureTypes
<1> USE DEF captureVars, captureRest, captureLeft
<1>2. ASSUME NEW next \in {"host", "code"}, NEW escape \in BOOLEAN,
             ChooseRole \/ AskCamera \/ HostAgain \/ Join \/ ShowQr \/ CompareOwn \/ Rescan
             \/ LinkCode(next) \/ AskWifi(next) \/ LeaveScanner(escape) \/ ScannerToCodes
             \/ LeaveCodes \/ LeaveConfirm \/ LeaveLink \/ LeaveModes
      PROVE  importing' = FALSE
  BY <1>1, <1>2 DEF ChooseRole, AskCamera, HostAgain, Join, ShowQr, CompareOwn, Rescan, LinkCode,
              AskWifi, LeaveScanner, ScannerToCodes, LeaveCodes, LeaveConfirm, LeaveLink, LeaveModes
<1>3. ASSUME NEW next \in {"host", "code"}, NEW ok \in BOOLEAN,
             ConfirmSas \/ Open \/ OpenedByLink \/ Close \/ VerifyAnswered \/ ImportRejected
             \/ ImportAnswered \/ CameraAsked \/ Poll \/ Polled \/ WifiIsOn(next)
             \/ HostStarted(ok) \/ Joined(ok) \/ ExportAnswered(ok) \/ SessionMoves \/ ReadLink
             \/ UNCHANGED dialogRest
      PROVE  importing' = FALSE
  BY <1>1, <1>3 DEF ConfirmSas, Open, OpenedByLink, Close, VerifyAnswered, ImportRejected,
              ImportAnswered, CameraAsked, Poll, Polled, WifiIsOn, HostStarted, Joined,
              ExportAnswered, SessionMoves, ReadLink, dialogRest
<1>4. ASSUME NEW t \in Transfers, NEW k \in Numbers, NEW good \in BOOLEAN, ReadFrame(t, k, good)
      PROVE  importing' = FALSE
  BY <1>1, <1>4 DEF ReadFrame
<1> QED
  BY <1>1, <1>2, <1>3, <1>4 DEF Next, User, Answers

LEMMA InitIsSound ==
  ASSUME Init
  PROVE  /\ TypeOK /\ CallInv /\ CaptureInv /\ TellInv
         /\ AccountsInv /\ MapsInv /\ ArrivedAccountsInv /\ ArrivedGroupsInv /\ ArrivedAlertsInv
<1> USE DEF Init, InitDialog
<1>1. TypeOK
  <2>1. FlowTypes
    BY DEF FlowTypes, Views, Statuses, Sessions
  <2>2. CaptureTypes
    <3>1. <<>> \in Seq(Capture)
      OBVIOUS
    <3>2. /\ frames = NoFrames /\ verifies = <<>> /\ held = NoValue /\ code = NoValue
          /\ camera = FALSE /\ prompt = FALSE /\ started = FALSE /\ verifying = FALSE
          /\ importing = FALSE /\ rejected = FALSE
      OBVIOUS
    <3> HIDE DEF Init, InitDialog
    <3> QED BY <3>1, <3>2, NoFramesIsACapture DEF CaptureTypes
  <2> QED BY <2>1, <2>2 DEF TypeOK
<1>2. CallInv /\ CaptureInv /\ TellInv
  BY NothingReassembles DEF CallInv, CaptureInv, TellInv, Current, Calls
<1>3. AccountsInv
  BY ReceiversAssumption DEF InitTransfer, AccountsInv, Here
<1>4. MapsInv
  BY ReceiversAssumption DEF InitTransfer, MapsInv, NoMap
<1>5. ArrivedAccountsInv /\ ArrivedGroupsInv /\ ArrivedAlertsInv
  BY DEF InitTransfer, ArrivedAccountsInv, ArrivedGroupsInv, ArrivedAlertsInv, Undisturbed
<1> QED BY <1>1, <1>2, <1>3, <1>4, <1>5

(* The types of the dialog and of what it has captured. *)
THEOREM TypeCorrect == Spec => []TypeOK
<1>1. Init => TypeOK
  BY InitIsSound
<1>2. TypeOK /\ [Next]_vars => TypeOK'
  <2>1. ASSUME TypeOK, Next PROVE TypeOK'
    BY <2>1, StepKeepsFlowTypes, StepKeepsCaptureTypes DEF TypeOK
  <2>2. ASSUME TypeOK, UNCHANGED vars PROVE TypeOK'
    BY <2>2 DEF TypeOK, FlowTypes, CaptureTypes, vars, flowVars, captureVars
  <2> QED BY <2>1, <2>2
<1> QED BY <1>1, <1>2, PTL DEF Spec

(* Which calls may still speak, what a capture on screen is and what was   *)
(* told of it, together.                                                    *)
THEOREM DialogIsSound == Spec => [](CallInv /\ CaptureInv /\ TellInv)
<1> DEFINE Inv == CallInv /\ CaptureInv /\ TellInv
<1>1. Init => Inv
  BY InitIsSound
<1>2. TypeOK /\ Inv /\ [Next]_vars => Inv'
  <2>1. ASSUME TypeOK, Inv, Next PROVE Inv'
    BY <2>1, StepKeepsCallInv, StepKeepsCaptureInv, StepKeepsTellInv
  <2>2. ASSUME Inv, UNCHANGED vars PROVE Inv'
    BY <2>2 DEF CallInv, CaptureInv, TellInv, Finished, Current, vars, flowVars, captureVars
  <2> QED BY <2>1, <2>2
<1> QED BY <1>1, <1>2, TypeCorrect, PTL DEF Spec

(* What is saved of accounts and sign-ins, and what an import may add.     *)
THEOREM AccountsAreSound == Spec => []AccountsInv
<1>1. Init => AccountsInv
  BY InitIsSound
<1>2. AccountsInv /\ [Next]_vars => AccountsInv'
  <2>1. ASSUME UNCHANGED vars PROVE UNCHANGED otherVars
    BY <2>1 DEF vars, transferVars, otherVars
  <2> QED BY <2>1, NextIsDeviceStep, StepKeepsAccounts DEF DeviceStep
<1> QED BY <1>1, <1>2, PTL DEF Spec

(* What an import nobody disturbs has brought by each of its steps.        *)
THEOREM ImportIsSound ==
  Spec => [](MapsInv /\ ArrivedAccountsInv /\ ArrivedGroupsInv /\ ArrivedAlertsInv)
<1> DEFINE Inv == MapsInv /\ ArrivedAccountsInv /\ ArrivedGroupsInv /\ ArrivedAlertsInv
<1>1. Init => Inv
  BY InitIsSound
<1>2. AccountsInv /\ Inv /\ [Next]_vars => Inv'
  <2>1. ASSUME AccountsInv, Inv, DeviceStep PROVE Inv'
    BY <2>1, StepKeepsMaps, StepKeepsArrivedAccounts, StepKeepsArrivedGroups,
       StepKeepsArrivedAlerts
  <2>2. ASSUME UNCHANGED vars PROVE UNCHANGED otherVars
    BY <2>2 DEF vars, transferVars, otherVars
  <2> QED BY <2>1, <2>2, NextIsDeviceStep DEF DeviceStep
<1> QED BY <1>1, <1>2, AccountsAreSound, PTL DEF Spec

(* An import that saved everything, with nobody changing the device         *)
(* meanwhile, has brought every account of the transfer, counted each, and  *)
(* has brought its groups and its alerts to the accounts here.              *)
THEOREM AllThatWasSentArrives == Spec => []ContentsArrive
<1>1. AccountsInv /\ MapsInv /\ ArrivedAccountsInv /\ ArrivedGroupsInv /\ ArrivedAlertsInv
        => ContentsArrive
  <2>1. SUFFICES ASSUME AccountsInv, MapsInv, ArrivedAccountsInv, ArrivedGroupsInv,
                        ArrivedAlertsInv, Complete
                 PROVE  ContentsArrive
    BY DEF ContentsArrive
  <2>2. Undisturbed /\ ~TakingAccounts /\ ~TakingGroups /\ ~TakingAlerts /\ from \in Transfers
        /\ at = "done"
    BY <2>1 DEF Complete, Undisturbed, TakingAccounts, TakingGroups, TakingAlerts, AccountsInv
  <2>3. added + skipped = Len(Exported(from).accounts)
    <3>1. added + skipped + Len(Planned(from)) = Len(Exported(from).accounts) + Len(Planned(from))
      BY <2>1, <2>2 DEF ArrivedAccountsInv
    <3>2. Len(Planned(from)) \in Nat /\ Len(Exported(from).accounts) \in Nat
      BY <2>2, SentShape
    <3>3. added \in Nat /\ skipped \in Int
      BY <2>1 DEF MapsInv
    <3> QED BY <3>1, <3>2, <3>3
  <2> QED BY <2>1, <2>2, <2>3 DEF ArrivedAccountsInv, ArrivedGroupsInv, ArrivedAlertsInv,
                                  ContentsArrive
<1> QED BY <1>1, AccountsAreSound, ImportIsSound, PTL

(* The same person sent twice, in one transfer or in two, or under another *)
(* id makes no second account.                                              *)
THEOREM NobodyIsTwice == Spec => []NoTwins
<1>1. AccountsInv => NoTwins
  BY DEF AccountsInv, NoTwins
<1> QED BY <1>1, AccountsAreSound, PTL

(* No transfer replaces a sign-in that was made on this device, but one that *)
(* brought back an account removed while it waited for that account's lock.  *)
THEOREM OwnSignInsStay == Spec => SignInsAreKept
<1>1. AccountsInv /\ [Next]_vars =>
        [\A i \in Ids : signIn[i] = "own" /\ i \notin revived => signIn'[i] # "sent"]_transferVars
  <2>1. ASSUME AccountsInv, Next, NEW i \in Ids, signIn[i] = "own", i \notin revived
        PROVE  signIn'[i] # "sent"
    BY <2>1, NextIsDeviceStep, StepKeepsSignIns
  <2>2. ASSUME UNCHANGED vars PROVE UNCHANGED transferVars
    BY <2>2 DEF vars
  <2> QED BY <2>1, <2>2
<1> QED BY <1>1, AccountsAreSound, PTL DEF Spec, SignInsAreKept

(* What the import gets is what the code on screen was computed from.      *)
THEOREM ComparedIsImported == Spec => ImportIsOfComparedFrames
<1>1. TypeOK /\ CaptureInv /\ [Next]_vars =>
        [importing' /\ ~importing /\ ~late => frames = code]_vars
  <2>1. ASSUME TypeOK, CaptureInv, Next, importing', ~importing, ~late PROVE frames = code
    <3>1. Confirm
      BY <2>1, StartsAtConfirm
    <3> QED BY <2>1, <3>1 DEF Confirm, CaptureInv
  <2> QED BY <2>1
<1> QED BY <1>1, TypeCorrect, DialogIsSound, PTL DEF Spec, ImportIsOfComparedFrames

(* A transfer is told to the dashboard once.                                *)
THEOREM ToldJustOnce == Spec => []ToldOnce
<1>1. TellInv => ToldOnce
  BY DEF TellInv, ToldOnce
<1> QED BY <1>1, DialogIsSound, PTL
=============================================================================
