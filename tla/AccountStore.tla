---------------------------- MODULE AccountStore ----------------------------
(***************************************************************************)
(* The saved accounts (store/accounts.rs): the list in memory, the file    *)
(* accounts.json with its backup, and the list of deleted accounts.        *)
(*                                                                         *)
(* Every change holds the list's write lock over the write of the file and *)
(* changes memory only when that write succeeds, so a change is one step   *)
(* here.  Its outcome is what atomic_write_private (platform/fs_util.rs)   *)
(* can report: the new file and Ok; the old file and an error; or the new  *)
(* file and an error, when only the hardening after the rename failed.  A  *)
(* crash inside the write leaves the old file or the new one, which the    *)
(* crash of AppData before or after the step covers.                       *)
(***************************************************************************)
EXTENDS AccountLists, FiniteSets

CONSTANTS
    Missing,        \* a file that does not exist
    Broken,         \* a file that cannot be parsed
    MaxTombstones,  \* deleted accounts remembered (500 in the code)
    MaxStamp        \* bound: usage snapshots are stamped 1..MaxStamp

ASSUME AccountStoreAssumption ==
    /\ MaxTombstones \in Nat \ {0}
    /\ MaxStamp \in Nat

VARIABLES
    accounts,       \* the list in memory, in the order of connection
    accountsFile,   \* accounts.json
    backup,         \* accounts.json.bak
    tombstones,     \* deleted-accounts.json, oldest first
    secrets         \* ids with a saved sign-in (CredentialStore in detail)

storeVars == <<accounts, accountsFile, backup, tombstones, secrets>>

\* usage is the stamp of the cached snapshot, 0 for none.
Account == [id : Ids, who : Identity, usage : 0..MaxStamp]

ASSUME FilesAssumption ==
    Missing # Broken /\ Missing \notin Seq(Account) /\ Broken \notin Seq(Account)

\* What a write of a file can report.
Outcomes == {"ok", "failed", "late"}

Without(list, id) == Sublist(list, {n \in DOMAIN list : list[n].id # id})
-----------------------------------------------------------------------------
(* The account a write of the file is to hold. *)

OrKeep(new, old) == IF Known(new) THEN new ELSE old

NewerUsage(old, new) ==
    IF old = 0 THEN new
    ELSE IF new = 0 THEN old
    ELSE IF new >= old THEN new ELSE old

MergeAccount(old, new) ==
    [id    |-> old.id,
     who   |-> [provider |-> new.who.provider,
                email    |-> OrKeep(new.who.email, old.who.email),
                pid      |-> OrKeep(new.who.pid, old.who.pid)],
     usage |-> NewerUsage(old.usage, new.usage)]

Upserted(list, account) ==
    IF account.id \in IdsOf(list)
    THEN [i \in DOMAIN list |-> IF list[i].id = account.id
                                THEN MergeAccount(list[i], account)
                                ELSE list[i]]
    ELSE Append(list, account)

Mutated(list, id, stamp) ==
    [i \in DOMAIN list |-> IF list[i].id = id THEN [list[i] EXCEPT !.usage = stamp]
                           ELSE list[i]]
-----------------------------------------------------------------------------
(* Writing and reading the files. *)

\* The file is replaced in one step after the old one became the backup; a
\* payload equal to the file is not written at all.
WriteAccountFile(next, outcome) ==
    IF accountsFile = next
    THEN outcome = "ok" /\ UNCHANGED <<accountsFile, backup>>
    ELSE /\ \/ accountsFile = Missing /\ UNCHANGED backup
            \/ accountsFile # Missing /\ backup' = accountsFile
            \/ outcome = "failed" /\ UNCHANGED backup
         /\ accountsFile' = IF outcome = "failed" THEN accountsFile ELSE next

\* The mistake of changing memory before the write is known to have worked.
Commit_MemoryFirst(next, outcome) ==
    /\ WriteAccountFile(next, outcome)
    /\ accounts' = next

Commit(next, outcome) ==
    /\ WriteAccountFile(next, outcome)
    /\ accounts' = IF outcome = "ok" THEN next ELSE accounts

Content(file) == IF file \in {Missing, Broken} THEN <<>> ELSE file

\* accounts.json, or the backup where the file does not exist.
ReadAccountFile(file, saved) == IF file # Missing THEN file ELSE saved

\* An unreadable file is moved aside and the load tried once more, which then
\* finds the backup; a start with both unreadable fails.
Recovered(file) == IF file = Broken THEN Missing ELSE file
LoadedAccounts(file, saved) == ReadAccountFile(Recovered(file), saved)
-----------------------------------------------------------------------------
(* The deleted-accounts list: a read, a change and a write under its lock. *)

Newest(list) ==
    IF Len(list) <= MaxTombstones THEN list
    ELSE SubSeq(list, Len(list) - MaxTombstones + 1, Len(list))

\* The write is skipped where the length did not change, also where one id was
\* added and the oldest one dropped.
MergeTombstones(id) ==
    LET present == \E i \in DOMAIN tombstones : tombstones[i] = id
        merged  == Newest(IF present THEN tombstones ELSE Append(tombstones, id))
    IN  IF Len(merged) = Len(tombstones) THEN tombstones ELSE merged

\* A failed save of this list is only logged.
SaveTombstones(next, outcome) ==
    tombstones' = IF outcome = "failed" THEN tombstones ELSE next
PrunedTombstones(live) == SelectSeq(tombstones, LAMBDA t : t \notin live)
=============================================================================
