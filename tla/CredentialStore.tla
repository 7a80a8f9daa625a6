-------------------------- MODULE CredentialStore ---------------------------
(***************************************************************************)
(* The stored sign-in of one account on Windows and Linux                  *)
(* (store/credentials/): a keyring that holds short entries only, so a     *)
(* sign-in is cut into the chunks of a generation and an account entry     *)
(* names the active generation (the manifest); the cache in front of it;   *)
(* and the entry an older version of the application left in its own       *)
(* keyring service.                                                        *)
(*                                                                         *)
(* The owner is whoever holds the account's lock (a refresh, a sign-in, a  *)
(* removal): it loads, saves and deletes.  Readers load without the lock,  *)
(* as an export does.  Every keyring call may fail, and the process may    *)
(* stop between any two of them.                                           *)
(***************************************************************************)
EXTENDS Naturals, FiniteSets

CONSTANTS
    Owner, Readers,
    MaxVersion,         \* sign-ins are numbered in the order they were issued
    Generations,        \* generation ids
    ChunkCount,         \* chunks of a generation
    OldService,         \* may an older version have left its own entry?
    MigratesLocked,     \* do readers find the old service's entry gone?
    None

ASSUME VersionAssumption == MaxVersion \in Nat \ {0}
ASSUME ChunkAssumption == ChunkCount \in Nat \ {0}
ASSUME OwnerAssumption == Owner \notin Readers
ASSUME NoneAssumption == None \notin Generations
ASSUME MigratesAssumption == OldService \in BOOLEAN /\ MigratesLocked \in BOOLEAN

VARIABLES
    manifest,   \* the account's entry in the current service
    legacy,     \* the sign-in in the old service, or NoSecret
    chunks,     \* the chunk entries there are
    content,    \* the sign-in each generation was cut from
    cache,      \* the cached sign-in (NoSecret: none)
    dirty,      \* is the cached one still to be written?
    pc, value, gen, seen, loading,  \* each process: its step and its locals
    failed,     \* did a part of the owner's deletion fail?
    newest,     \* the sign-ins issued so far
    durable, certain,   \* history: the result of the owner's last operation
    faulted     \* history: has the process stopped, or has the deletion failed of
                \* chunks that no manifest names, or is about to name no more?

keyring == <<manifest, legacy, chunks, content>>
cacheVars == <<cache, dirty>>
locals == <<pc, value, gen, seen, loading, failed>>
historyVars == <<newest, durable, certain, faulted>>
vars == <<keyring, cacheVars, locals, historyVars>>

Procs == {Owner} \cup Readers
NoSecret == 0
Versions == 1 .. MaxVersion
Manifests == [active : Generations \cup {None}, previous : Generations \cup {None}]
NoManifest == [active |-> None, previous |-> None]

ChunksOf(g) == IF g = None THEN {} ELSE {g} \X (1 .. ChunkCount)
Used == {g \in Generations : content[g] # NoSecret}

(* What load_keychain_secret would return. *)
Durable ==
    IF manifest = NoManifest THEN legacy
    ELSE IF ChunksOf(manifest.active) \subseteq chunks THEN content[manifest.active]
    ELSE NoSecret

Persisting == {"manifest", "purge", "write", "commit"}
Committed == {"drop", "clean", "done"}
Loads == {"entry", "fetch", "check", "insert", "unlegacy"}
Deletes == {"erase", "eraseChunks", "eraseEntry", "eraseOld", "forget"}

Init ==
    /\ \E g \in Generations :
        \/ manifest = NoManifest /\ chunks = {} /\ content = [h \in Generations |-> NoSecret]
        \/ /\ manifest = [active |-> g, previous |-> None] /\ chunks = ChunksOf(g)
           /\ content = [h \in Generations |-> IF h = g THEN 1 ELSE NoSecret]
    /\ legacy \in IF OldService /\ manifest = NoManifest THEN {NoSecret, 1} ELSE {NoSecret}
    /\ cache = NoSecret /\ dirty = FALSE
    /\ pc = [p \in Procs |-> "idle"]
    /\ value = [p \in Procs |-> NoSecret]
    /\ gen = [p \in Procs |-> None]
    /\ seen = [p \in Procs |-> NoManifest]
    /\ loading = {} /\ failed = FALSE
    /\ newest = 1
    /\ durable = Durable /\ certain = TRUE
    /\ faulted = FALSE

At(p, step) == pc[p] = step
Goto(p, step) == pc' = [pc EXCEPT ![p] = step]

(* A process that is through keeps nothing. *)
Leave(p) ==
    /\ Goto(p, "idle")
    /\ value' = [value EXCEPT ![p] = NoSecret]
    /\ gen' = [gen EXCEPT ![p] = None]
    /\ seen' = [seen EXCEPT ![p] = NoManifest]
    /\ loading' = loading \ {p}
    /\ UNCHANGED failed

KeepLocals == UNCHANGED <<value, gen, seen, loading, failed>>

(* Deleting entries one after the other: some may be left, and then the     *)
(* whole is an error.                                                       *)
Remaining(entries) == SUBSET (entries \cap chunks)
DeleteChunks(entries, left) == chunks' = (chunks \ entries) \cup left

-----------------------------------------------------------------------------
(* persist_provider_secret                                                  *)

(* A failed write: a save leaves the cache as it is and reports the error, a *)
(* load goes on with what it has read.                                      *)
PersistFails(p) ==
    IF p \in loading THEN Goto(p, "check") /\ KeepLocals ELSE Leave(p)

ReadManifest(p) ==
    /\ At(p, "manifest")
    /\ \/ /\ seen' = [seen EXCEPT ![p] = manifest]
          /\ Goto(p, IF manifest.previous = None THEN "write" ELSE "purge")
          /\ UNCHANGED <<value, gen, loading, failed, historyVars>>
       \/ PersistFails(p) /\ UNCHANGED historyVars
    /\ UNCHANGED <<keyring, cacheVars>>

(* Making room first: deleting the generation in use before the new one is  *)
(* written.                                                                 *)
PurgePrevious_InUse(p) ==
    /\ At(p, "purge")
    /\ DeleteChunks(ChunksOf(seen[p].previous) \cup ChunksOf(seen[p].active), {})
    /\ Goto(p, "write") /\ KeepLocals
    /\ UNCHANGED <<manifest, legacy, content, cacheVars, historyVars>>

(* What an earlier save could not delete goes first. *)
PurgePrevious(p) ==
    /\ At(p, "purge")
    /\ \E left \in Remaining(ChunksOf(seen[p].previous)) :
        /\ DeleteChunks(ChunksOf(seen[p].previous), left)
        /\ IF left = {} THEN Goto(p, "write") /\ KeepLocals ELSE PersistFails(p)
    /\ UNCHANGED <<manifest, legacy, content, cacheVars, historyVars>>

(* The chunks of a new generation are written one by one; on an error those *)
(* written are deleted again, as far as that works.                         *)
WriteFirst(p) ==
    /\ At(p, "write") /\ gen[p] = None
    /\ \E g \in Generations \ Used :
        /\ gen' = [gen EXCEPT ![p] = g]
        /\ content' = [content EXCEPT ![g] = value[p]]
        /\ chunks' = chunks \cup {<<g, 1>>}
        /\ Goto(p, IF ChunkCount = 1 THEN "commit" ELSE "write")
    /\ UNCHANGED <<manifest, legacy, cacheVars, value, seen, loading, failed, historyVars>>

WriteNext(p) ==
    /\ At(p, "write") /\ gen[p] # None
    /\ \E i \in 2 .. ChunkCount :
        /\ <<gen[p], i>> \notin chunks /\ <<gen[p], i - 1>> \in chunks
        /\ chunks' = chunks \cup {<<gen[p], i>>}
        /\ Goto(p, IF i = ChunkCount THEN "commit" ELSE "write")
    /\ KeepLocals
    /\ UNCHANGED <<manifest, legacy, content, cacheVars, historyVars>>

WriteFails(p) ==
    /\ At(p, "write") \/ At(p, "commit")
    /\ \E left \in Remaining(ChunksOf(gen[p])) :
        /\ DeleteChunks(ChunksOf(gen[p]), left)
        /\ faulted' = (faulted \/ left # {})
    /\ PersistFails(p)
    /\ UNCHANGED <<manifest, legacy, content, cacheVars, newest, durable, certain>>

(* The generation it replaces stays named until its chunks are gone. *)
Commit(p) ==
    /\ At(p, "commit")
    /\ manifest' = [active |-> gen[p], previous |-> seen[p].active]
    /\ Goto(p, IF seen[p].active = None THEN "done" ELSE "drop")
    /\ KeepLocals
    /\ UNCHANGED <<legacy, chunks, content, cacheVars, historyVars>>

(* Forgetting the old generation although it could not be deleted. *)
DropPrevious_Forgets(p) ==
    /\ At(p, "drop")
    /\ \E left \in Remaining(ChunksOf(seen[p].active)) :
        DeleteChunks(ChunksOf(seen[p].active), left)
    /\ Goto(p, "clean") /\ KeepLocals
    /\ UNCHANGED <<manifest, legacy, content, cacheVars, historyVars>>

DropPrevious(p) ==
    /\ At(p, "drop")
    /\ \E left \in Remaining(ChunksOf(seen[p].active)) :
        /\ DeleteChunks(ChunksOf(seen[p].active), left)
        /\ Goto(p, IF left = {} THEN "clean" ELSE "done")
    /\ KeepLocals
    /\ UNCHANGED <<manifest, legacy, content, cacheVars, historyVars>>

CleanManifest(p) ==
    /\ At(p, "clean")
    /\ manifest' \in {[active |-> gen[p], previous |-> None], manifest}
    /\ Goto(p, "done") /\ KeepLocals
    /\ UNCHANGED <<legacy, chunks, content, cacheVars, historyVars>>

-----------------------------------------------------------------------------
(* save_provider_secret: the sign-in is cached before it is written, so     *)
(* that it is not lost with a failed write.                                 *)

Save ==
    /\ At(Owner, "idle")
    /\ \/ newest < MaxVersion /\ newest' = newest + 1
       \/ dirty /\ UNCHANGED newest
    /\ LET v == IF newest' = newest THEN cache ELSE newest' IN
        /\ cache' = v /\ dirty' = TRUE
        /\ value' = [value EXCEPT ![Owner] = v]
    /\ Goto(Owner, "manifest")
    /\ UNCHANGED <<keyring, gen, seen, loading, failed, durable, certain, faulted>>

(* mark_secret_clean, unless a newer sign-in took its place. *)
MarkClean ==
    /\ At(Owner, "done") /\ Owner \notin loading
    /\ dirty' = (dirty /\ cache # value[Owner]) /\ UNCHANGED cache
    /\ durable' = value[Owner] /\ certain' = TRUE
    /\ Leave(Owner)
    /\ UNCHANGED <<keyring, newest, faulted>>

(* prune_secret_cache: a written entry lives for SECRET_CACHE_TTL. *)
Expire ==
    /\ cache # NoSecret /\ ~dirty
    /\ cache' = NoSecret
    /\ UNCHANGED <<keyring, dirty, locals, historyVars>>

-----------------------------------------------------------------------------
(* load_provider_secret, when the cache has nothing.                        *)

Load(p) ==
    /\ At(p, "idle") /\ cache = NoSecret
    /\ MigratesLocked /\ p # Owner => legacy = NoSecret
    /\ Goto(p, "entry")
    /\ loading' = loading \cup {p}
    /\ UNCHANGED <<keyring, cacheVars, value, gen, seen, failed, historyVars>>

(* The account's entry, or that of the old service, which is then taken     *)
(* over; there may be neither, and either may be unreadable.                *)
ReadEntry(p) ==
    /\ At(p, "entry")
    /\ \/ /\ manifest # NoManifest
          /\ seen' = [seen EXCEPT ![p] = manifest]
          /\ Goto(p, "fetch")
          /\ UNCHANGED <<value, gen, loading, failed>>
       \/ /\ manifest = NoManifest /\ legacy # NoSecret
          /\ value' = [value EXCEPT ![p] = legacy]
          /\ Goto(p, "manifest")
          /\ UNCHANGED <<seen, gen, loading, failed>>
       \/ Leave(p)
    /\ UNCHANGED <<keyring, cacheVars, historyVars>>

ReadGeneration(p) ==
    /\ At(p, "fetch")
    /\ IF ChunksOf(seen[p].active) \subseteq chunks
       THEN /\ value' = [value EXCEPT ![p] = content[seen[p].active]]
            /\ Goto(p, "check")
            /\ UNCHANGED <<gen, seen, loading, failed>>
       ELSE Leave(p)
    /\ UNCHANGED <<keyring, cacheVars, historyVars>>

(* The old entry goes once its content is in the new place; an error is     *)
(* ignored.                                                                 *)
DeleteLegacy(p) ==
    /\ At(p, "done") /\ p \in loading
    /\ legacy' \in {NoSecret, legacy}
    /\ Goto(p, "check")
    /\ KeepLocals
    /\ UNCHANGED <<manifest, chunks, content, cacheVars, historyVars>>

(* remember_secret: the check and the insertion each take the cache's lock. *)
CheckCache(p) ==
    /\ At(p, "check")
    /\ IF dirty THEN Leave(p) ELSE Goto(p, "insert") /\ KeepLocals
    /\ UNCHANGED <<keyring, cacheVars, historyVars>>

Remember(p) ==
    /\ At(p, "insert")
    /\ cache' = value[p] /\ dirty' = FALSE
    /\ Leave(p)
    /\ UNCHANGED <<keyring, historyVars>>

-----------------------------------------------------------------------------
(* delete_secret                                                            *)

Delete ==
    /\ At(Owner, "idle")
    /\ Goto(Owner, "erase")
    /\ failed' = FALSE /\ certain' = FALSE
    /\ UNCHANGED <<keyring, cacheVars, value, gen, seen, loading, newest, durable, faulted>>

(* An entry that cannot be read is an error, and deleted all the same. *)
EraseReads ==
    /\ At(Owner, "erase")
    /\ \/ /\ seen' = [seen EXCEPT ![Owner] = manifest]
          /\ UNCHANGED <<failed, faulted>>
       \/ failed' = TRUE /\ faulted' = TRUE /\ UNCHANGED seen
    /\ Goto(Owner, "eraseChunks")
    /\ UNCHANGED <<keyring, cacheVars, value, gen, loading, newest, durable, certain>>

EraseChunks ==
    /\ At(Owner, "eraseChunks")
    /\ LET entries == ChunksOf(seen[Owner].active) \cup ChunksOf(seen[Owner].previous) IN
        \E left \in Remaining(entries) :
            /\ DeleteChunks(entries, left)
            /\ failed' = (failed \/ left # {})
            /\ faulted' = (faulted \/ left # {})
    /\ Goto(Owner, "eraseEntry")
    /\ UNCHANGED <<manifest, legacy, content, cacheVars, value, gen, seen, loading,
                   newest, durable, certain>>

(* The account's entry in the current service, then in the old one. *)
EraseEntry ==
    /\ At(Owner, "eraseEntry")
    /\ \/ manifest' = NoManifest /\ UNCHANGED failed
       \/ failed' = TRUE /\ UNCHANGED manifest
    /\ Goto(Owner, "eraseOld")
    /\ UNCHANGED <<legacy, chunks, content, cacheVars, value, gen, seen, loading, historyVars>>

EraseOldEntry ==
    /\ At(Owner, "eraseOld")
    /\ \/ legacy' = NoSecret /\ UNCHANGED failed
       \/ failed' = TRUE /\ UNCHANGED legacy
    /\ Goto(Owner, "forget")
    /\ UNCHANGED <<manifest, chunks, content, cacheVars, value, gen, seen, loading, historyVars>>

(* The cache forgets the sign-in even if an error is reported. *)
Forget ==
    /\ At(Owner, "forget")
    /\ cache' = NoSecret /\ dirty' = FALSE
    /\ durable' = NoSecret /\ certain' = ~failed
    /\ Leave(Owner)
    /\ UNCHANGED <<keyring, newest, faulted>>

(* The process stops; the keyring is what is left. *)
Crash ==
    /\ cache' = NoSecret /\ dirty' = FALSE
    /\ pc' = [p \in Procs |-> "idle"]
    /\ value' = [p \in Procs |-> NoSecret]
    /\ gen' = [p \in Procs |-> None]
    /\ seen' = [p \in Procs |-> NoManifest]
    /\ loading' = {} /\ failed' = FALSE
    /\ certain' = (certain /\ (At(Owner, "idle") \/ Owner \in loading))
    /\ faulted' = TRUE
    /\ UNCHANGED <<keyring, newest, durable>>

-----------------------------------------------------------------------------
Persist(p) ==
    \/ ReadManifest(p) \/ PurgePrevious(p) \/ WriteFirst(p) \/ WriteNext(p)
    \/ WriteFails(p) \/ Commit(p) \/ DropPrevious(p) \/ CleanManifest(p)

Next ==
    \/ \E p \in Procs :
        \/ Persist(p) \/ Load(p) \/ ReadEntry(p) \/ ReadGeneration(p)
        \/ DeleteLegacy(p) \/ CheckCache(p) \/ Remember(p)
    \/ Save \/ MarkClean \/ Expire
    \/ Delete \/ EraseReads \/ EraseChunks \/ EraseEntry \/ EraseOldEntry \/ Forget
    \/ Crash

Spec == Init /\ [][Next]_vars

-----------------------------------------------------------------------------
\* Every variable has its type; keyring entries and cache hold sign-ins that exist.
TypeOK ==
    /\ manifest \in Manifests /\ legacy \in {NoSecret} \cup Versions
    /\ chunks \subseteq Generations \X (1 .. ChunkCount)
    /\ content \in [Generations -> {NoSecret} \cup Versions]
    /\ cache \in {NoSecret} \cup Versions /\ dirty \in BOOLEAN
    /\ dirty => cache # NoSecret
    /\ pc \in [Procs -> {"idle"} \cup Persisting \cup Committed \cup Loads \cup Deletes]
    /\ value \in [Procs -> {NoSecret} \cup Versions]
    /\ gen \in [Procs -> Generations \cup {None}] /\ seen \in [Procs -> Manifests]
    /\ loading \subseteq Procs /\ failed \in BOOLEAN
    /\ newest \in Versions /\ durable \in {NoSecret} \cup Versions
    /\ certain \in BOOLEAN /\ faulted \in BOOLEAN

(* No chunk is left behind that no manifest and no save in progress knows   *)
(* of, also where the generation a save replaced could not be deleted: it   *)
(* stays named until it is gone.  Only a stopped process, or a failed       *)
(* deletion of a generation that was never committed or of the account      *)
(* itself, can leave one.                                                   *)
NoOrphanChunks ==
    ~faulted =>
        chunks \subseteq ChunksOf(manifest.active) \cup ChunksOf(manifest.previous)
                         \cup UNION {ChunksOf(gen[p]) : p \in Procs}

(* The stored sign-in behaves like a register: SecretRegister. *)
Register == INSTANCE SecretRegister WITH
    stored <- Durable,
    shadow <- legacy,
    candidates <- {value[p] : p \in {q \in Procs : pc[q] \in Persisting}},
    erasing <- pc[Owner] \in Deletes

IsRegister == Register!RegisterSpec

-----------------------------------------------------------------------------
\* A manifest that is there names a generation, and so do a process that has read
\* one and a process that has written one.
NamesAreReal ==
    /\ manifest.active = None => manifest = NoManifest
    /\ \A p \in Procs : /\ pc[p] = "fetch" => seen[p].active # None
                        /\ pc[p] \in {"commit", "drop", "clean"} => gen[p] # None

(* The inductive invariant of the keyring, when no reader migrates.         *)

Named == ChunksOf(manifest.active) \cup ChunksOf(manifest.previous)

\* Readers load what is there and take nothing over.
ReadersOnlyRead ==
    /\ OldService \/ legacy = NoSecret
    /\ \A p \in Readers : /\ pc[p] \in {"idle", "entry", "fetch", "check", "insert"}
                          /\ gen[p] = None
                          /\ pc[p] = "entry" => legacy = NoSecret

\* The manifest names two different generations that were written; a generation
\* that was never written has no chunk.
GenerationsFit ==
    /\ manifest.active # None => content[manifest.active] # NoSecret
    /\ manifest.previous # None => /\ content[manifest.previous] # NoSecret
                                  /\ manifest.active \notin {None, manifest.previous}
    /\ \A g \in Generations : content[g] = NoSecret => ChunksOf(g) \cap chunks = {}

\* A save writes its sign-in into a generation of its own, from the first chunk
\* on, and commits only all of it; what it has read of the manifest is current.
SaveFits ==
    /\ pc[Owner] \in Persisting => value[Owner] # NoSecret
    /\ pc[Owner] \in {"idle", "entry", "manifest", "purge"} => gen[Owner] = None
    /\ pc[Owner] \in {"purge", "write", "commit"} => seen[Owner] = manifest
    /\ pc[Owner] \in {"write", "commit"} /\ gen[Owner] # None =>
          /\ gen[Owner] \notin {manifest.active, manifest.previous}
          /\ content[gen[Owner]] = value[Owner]
    /\ pc[Owner] = "write" =>
          \A i, j \in 1 .. ChunkCount :
              <<gen[Owner], i>> \in chunks /\ j <= i => <<gen[Owner], j>> \in chunks
    /\ pc[Owner] = "commit" => gen[Owner] # None /\ ChunksOf(gen[Owner]) \subseteq chunks
    /\ pc[Owner] \in Committed => gen[Owner] # None /\ manifest.active = gen[Owner]
    /\ pc[Owner] \in {"drop", "clean"} => manifest.previous = seen[Owner].active

\* Where the chunks are as long as nothing has failed.
NothingIsLeft ==
    ~faulted =>
        /\ pc[Owner] \notin {"write", "commit"} => chunks \subseteq Named
        /\ pc[Owner] \in {"write", "commit"} =>
              /\ chunks \subseteq Named \cup ChunksOf(gen[Owner])
              /\ chunks \cap ChunksOf(manifest.previous) = {}
        /\ pc[Owner] = "clean" => chunks \cap ChunksOf(manifest.previous) = {}
        /\ pc[Owner] = "eraseChunks" => seen[Owner] = manifest
        /\ pc[Owner] \in {"eraseEntry", "eraseOld", "forget"} => chunks = {}

KeyringInv == ReadersOnlyRead /\ GenerationsFit /\ SaveFits /\ NothingIsLeft

=============================================================================
