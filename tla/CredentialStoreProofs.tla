------------------------ MODULE CredentialStoreProofs ------------------------
(***************************************************************************)
(* What CredentialStore keeps in every instance: its types, and, when no   *)
(* reader takes an old entry over without the lock, the invariant of the   *)
(* keyring, that no chunk is left behind while nothing fails, and that the *)
(* stored sign-in behaves like one register (SecretRegister).              *)
(***************************************************************************)
EXTENDS CredentialStore, TLAPS

-----------------------------------------------------------------------------
(* Types.                                                                  *)

(* The empty manifest is one of the manifests. *)
LEMMA NoManifestTyped == NoManifest \in Manifests
BY DEF NoManifest, Manifests

(* A process that is through keeps the types. *)
LEMMA LeaveTyped ==
  ASSUME TypeOK, NEW p \in Procs, Leave(p)
  PROVE  /\ pc' \in [Procs -> {"idle"} \cup Persisting \cup Committed \cup Loads \cup Deletes]
         /\ value' \in [Procs -> {NoSecret} \cup Versions]
         /\ gen' \in [Procs -> Generations \cup {None}] /\ seen' \in [Procs -> Manifests]
         /\ loading' \subseteq Procs /\ failed' \in BOOLEAN
BY NoManifestTyped DEF TypeOK, Leave, Goto

(* A save that fails keeps the types. *)
LEMMA PersistFailsTyped ==
  ASSUME TypeOK, NEW p \in Procs, PersistFails(p)
  PROVE  /\ pc' \in [Procs -> {"idle"} \cup Persisting \cup Committed \cup Loads \cup Deletes]
         /\ value' \in [Procs -> {NoSecret} \cup Versions]
         /\ gen' \in [Procs -> Generations \cup {None}] /\ seen' \in [Procs -> Manifests]
         /\ loading' \subseteq Procs /\ failed' \in BOOLEAN
<1>1. CASE Goto(p, "check") /\ KeepLocals
  BY <1>1 DEF TypeOK, Goto, KeepLocals, Loads
<1> QED BY <1>1, LeaveTyped DEF PersistFails

(* Every step keeps the types: one step per action. *)
LEMMA TypeStep == TypeOK /\ NamesAreReal /\ [Next]_vars => TypeOK'
<1> SUFFICES ASSUME TypeOK, NamesAreReal, [Next]_vars PROVE TypeOK'
  OBVIOUS
<1> USE ChunkAssumption, VersionAssumption
    DEF TypeOK, Goto, KeepLocals, Persisting, Committed, Loads, Deletes,
        keyring, cacheVars, locals, historyVars, Procs
<1>1. ASSUME NEW p \in Procs, ReadManifest(p) PROVE TypeOK'
  <2>1. CASE PersistFails(p)
    BY <1>1, <2>1, PersistFailsTyped DEF ReadManifest
  <2>2. CASE /\ seen' = [seen EXCEPT ![p] = manifest]
             /\ Goto(p, "write") \/ Goto(p, "purge")
             /\ UNCHANGED <<value, gen, loading, failed, historyVars>>
    BY <1>1, <2>2 DEF ReadManifest
  <2> QED BY <1>1, <2>1, <2>2 DEF ReadManifest
<1>2. ASSUME NEW p \in Procs, PurgePrevious(p) PROVE TypeOK'
  BY <1>2, PersistFailsTyped
     DEF PurgePrevious, At, DeleteChunks, Remaining, ChunksOf
<1>3. ASSUME NEW p \in Procs, WriteFirst(p) PROVE TypeOK'
  BY <1>3 DEF WriteFirst, At
<1>4. ASSUME NEW p \in Procs, WriteNext(p) PROVE TypeOK'
  BY <1>4 DEF WriteNext, At
<1>5. ASSUME NEW p \in Procs, WriteFails(p) PROVE TypeOK'
  BY <1>5, PersistFailsTyped
     DEF WriteFails, At, DeleteChunks, Remaining, ChunksOf
<1>6. ASSUME NEW p \in Procs, Commit(p) PROVE TypeOK'
  BY <1>6 DEF Commit, At, Manifests
<1>7. ASSUME NEW p \in Procs, DropPrevious(p) PROVE TypeOK'
  BY <1>7 DEF DropPrevious, At, DeleteChunks, Remaining, ChunksOf
<1>8. ASSUME NEW p \in Procs, CleanManifest(p) PROVE TypeOK'
  <2>1. [active |-> gen[p], previous |-> None] \in Manifests
    BY DEF Manifests
  <2> QED BY <1>8, <2>1 DEF CleanManifest
<1>9. ASSUME NEW p \in Procs, Load(p) PROVE TypeOK'
  BY <1>9 DEF Load, At
<1>10. ASSUME NEW p \in Procs, ReadEntry(p) PROVE TypeOK'
  <2>1. CASE Leave(p)
    BY <1>10, <2>1, LeaveTyped DEF ReadEntry
  <2>2. CASE /\ seen' = [seen EXCEPT ![p] = manifest] /\ Goto(p, "fetch")
             /\ UNCHANGED <<value, gen, loading, failed>>
    BY <1>10, <2>2 DEF ReadEntry
  <2>3. CASE /\ value' = [value EXCEPT ![p] = legacy] /\ Goto(p, "manifest")
             /\ UNCHANGED <<seen, gen, loading, failed>>
    BY <1>10, <2>3 DEF ReadEntry
  <2> QED BY <1>10, <2>1, <2>2, <2>3 DEF ReadEntry
<1>11. ASSUME NEW p \in Procs, ReadGeneration(p) PROVE TypeOK'
  <2>1. CASE Leave(p)
    BY <1>11, <2>1, LeaveTyped DEF ReadGeneration
  <2>2. CASE /\ value' = [value EXCEPT ![p] = content[seen[p].active]] /\ Goto(p, "check")
             /\ UNCHANGED <<gen, seen, loading, failed>>
    <3>1. seen[p].active \in Generations
      BY <1>11 DEF NamesAreReal, ReadGeneration, At, Manifests
    <3>2. content[seen[p].active] \in {NoSecret} \cup Versions
      BY <3>1
    <3> QED BY <1>11, <2>2, <3>2 DEF ReadGeneration
  <2> QED BY <1>11, <2>1, <2>2 DEF ReadGeneration
<1>12. ASSUME NEW p \in Procs, DeleteLegacy(p) PROVE TypeOK'
  BY <1>12 DEF DeleteLegacy, At
<1>13. ASSUME NEW p \in Procs, CheckCache(p) PROVE TypeOK'
  BY <1>13, LeaveTyped DEF CheckCache, At
<1>14. ASSUME NEW p \in Procs, Remember(p) PROVE TypeOK'
  BY <1>14, LeaveTyped DEF Remember, At
<1>15. CASE Save
  BY <1>15 DEF Save, At, Versions, NoSecret
<1>16. CASE MarkClean
  BY <1>16, LeaveTyped DEF MarkClean, At
<1>17. CASE Expire
  BY <1>17 DEF Expire
<1>18. CASE Delete
  BY <1>18 DEF Delete, At
<1>19. CASE EraseReads
  BY ZenonT(60), <1>19 DEF EraseReads, At
<1>20. CASE EraseChunks
  BY <1>20 DEF EraseChunks, At, DeleteChunks, Remaining, ChunksOf
<1>21. CASE EraseEntry
  BY <1>21, NoManifestTyped DEF EraseEntry, At
<1>22. CASE EraseOldEntry
  BY <1>22 DEF EraseOldEntry, At
<1>23. CASE Forget
  BY <1>23, LeaveTyped DEF Forget, At
<1>24. CASE Crash
  BY <1>24, NoManifestTyped DEF Crash, At
<1>25. CASE UNCHANGED vars
  BY <1>25 DEF vars
<1> QED
  BY <1>1, <1>2, <1>3, <1>4, <1>5, <1>6, <1>7, <1>8, <1>9, <1>10, <1>11, <1>12,
     <1>13, <1>14, <1>15, <1>16, <1>17, <1>18, <1>19, <1>20, <1>21, <1>22,
     <1>23, <1>24, <1>25
     DEF Next, Persist

(* Every step leaves names that are real. *)
LEMMA NamesStep ==
  ASSUME TypeOK, NamesAreReal, [Next]_vars
  PROVE  NamesAreReal'
<1>0. /\ manifest \in Manifests /\ pc \in [Procs -> {"idle"} \cup Persisting \cup Committed
                                                     \cup Loads \cup Deletes]
      /\ gen \in [Procs -> Generations \cup {None}] /\ seen \in [Procs -> Manifests]
      /\ Owner \in Procs
  BY DEF TypeOK, Procs
<1> USE <1>0, NoneAssumption DEF NamesAreReal, At, Goto, KeepLocals, keyring
<1>1. ASSUME NEW p \in Procs, Leave(p), UNCHANGED manifest PROVE NamesAreReal'
  BY <1>1 DEF Leave
<1>2. ASSUME NEW p \in Procs, Goto(p, "check"), KeepLocals, UNCHANGED manifest
      PROVE  NamesAreReal'
  BY <1>2
<1>3. ASSUME NEW p \in Procs, PersistFails(p), UNCHANGED manifest PROVE NamesAreReal'
  BY <1>1, <1>2, <1>3 DEF PersistFails
<1>4. ASSUME NEW p \in Procs, ReadManifest(p) PROVE NamesAreReal'
  BY <1>3, <1>4 DEF ReadManifest
<1>5. ASSUME NEW p \in Procs, PurgePrevious(p) \/ WriteFails(p) PROVE NamesAreReal'
  BY <1>3, <1>5 DEF PurgePrevious, WriteFails
<1>6. ASSUME NEW p \in Procs, WriteFirst(p) \/ WriteNext(p) PROVE NamesAreReal'
  BY <1>6 DEF WriteFirst, WriteNext
<1>7. ASSUME NEW p \in Procs, Commit(p) PROVE NamesAreReal'
  BY <1>7 DEF Commit
<1>8. ASSUME NEW p \in Procs, DropPrevious(p) \/ CleanManifest(p) PROVE NamesAreReal'
  BY <1>8 DEF DropPrevious, CleanManifest
<1>9. ASSUME NEW p \in Procs, Load(p) \/ DeleteLegacy(p) PROVE NamesAreReal'
  BY <1>9 DEF Load, DeleteLegacy
<1>10. ASSUME NEW p \in Procs, ReadEntry(p) PROVE NamesAreReal'
  BY <1>1, <1>10 DEF ReadEntry, Manifests
<1>11. ASSUME NEW p \in Procs, ReadGeneration(p) \/ CheckCache(p) \/ Remember(p)
       PROVE  NamesAreReal'
  BY <1>1, <1>11 DEF ReadGeneration, CheckCache, Remember
<1>12. CASE Save \/ Delete
  BY <1>12 DEF Save, Delete
<1>13. CASE MarkClean \/ Forget
  BY <1>1, <1>13 DEF MarkClean, Forget
<1>14. CASE Expire
  BY <1>14 DEF Expire, locals
<1>15. CASE EraseReads \/ EraseChunks \/ EraseOldEntry
  BY <1>15 DEF EraseReads, EraseChunks, EraseOldEntry
<1>16. CASE EraseEntry
  BY <1>16 DEF EraseEntry, NoManifest
<1>17. CASE Crash
  BY <1>17 DEF Crash
<1>18. CASE UNCHANGED vars
  BY <1>18 DEF vars, locals
<1> QED
  BY <1>4, <1>5, <1>6, <1>7, <1>8, <1>9, <1>10, <1>11, <1>12, <1>13, <1>14, <1>15, <1>16,
     <1>17, <1>18
  DEF Next, Persist

(* Every variable keeps its type, and what is named is there. *)
THEOREM NamesCorrect == Spec => [](TypeOK /\ NamesAreReal)
<1>1. Init => TypeOK
  <2> SUFFICES ASSUME Init PROVE TypeOK
    OBVIOUS
  <2>1. 1 \in Versions /\ {NoSecret, 1} \subseteq {NoSecret} \cup Versions
    BY VersionAssumption DEF Versions
  <2>2. PICK g \in Generations :
          \/ /\ manifest = NoManifest /\ chunks = {}
             /\ content = [h \in Generations |-> NoSecret]
          \/ /\ manifest = [active |-> g, previous |-> None] /\ chunks = ChunksOf(g)
             /\ content = [h \in Generations |-> IF h = g THEN 1 ELSE NoSecret]
    BY DEF Init
  <2>3. manifest \in Manifests
    BY <2>2, NoManifestTyped DEF Manifests
  <2>4. chunks \subseteq Generations \X (1 .. ChunkCount)
    BY <2>2 DEF ChunksOf
  <2>5. content \in [Generations -> {NoSecret} \cup Versions]
    BY <2>1, <2>2
  <2>6. legacy \in {NoSecret} \cup Versions
    BY <2>1 DEF Init
  <2>7. durable \in {NoSecret} \cup Versions
    <3>1. CASE manifest = NoManifest
      BY <2>6, <3>1 DEF Init, Durable
    <3>2. CASE manifest # NoManifest
      <4>1. manifest.active = g
        BY <2>2, <3>2
      <4> QED BY <2>5, <3>2, <4>1 DEF Init, Durable
    <3> QED BY <3>1, <3>2
  <2> QED
    BY <2>1, <2>3, <2>4, <2>5, <2>6, <2>7, NoManifestTyped DEF Init, TypeOK
<1>2. Init => NamesAreReal
  BY NoneAssumption DEF Init, NamesAreReal, NoManifest
<1>3. TypeOK /\ NamesAreReal /\ [Next]_vars => NamesAreReal'
  BY NamesStep
<1> QED
  BY <1>1, <1>2, <1>3, TypeStep, PTL DEF Spec

(* Every variable of the store keeps its type. *)
THEOREM TypeCorrect == Spec => []TypeOK
  BY NamesCorrect, PTL

-----------------------------------------------------------------------------
(* The keyring.                                                            *)

(* Different generations have different chunks. *)
LEMMA ChunksApart ==
  ASSUME NEW g, NEW h, g # h PROVE ChunksOf(g) \cap ChunksOf(h) = {}
BY DEF ChunksOf

(* Readers change nothing but their own locals and the cache. *)
LEMMA ReaderSteps ==
  ASSUME TypeOK, ReadersOnlyRead, ~OldService \/ MigratesLocked, NEW p \in Readers,
         \/ Persist(p) \/ Load(p) \/ ReadEntry(p) \/ ReadGeneration(p)
         \/ DeleteLegacy(p) \/ CheckCache(p) \/ Remember(p)
  PROVE  /\ UNCHANGED keyring /\ (faulted => faulted')
         /\ pc'[p] \in {"idle", "entry", "fetch", "check", "insert"} /\ gen'[p] = None
         /\ pc'[p] = "entry" => legacy = NoSecret
         /\ \A q \in Procs \ {p} : /\ pc'[q] = pc[q] /\ gen'[q] = gen[q]
                                   /\ seen'[q] = seen[q] /\ value'[q] = value[q]
<1>0. /\ p \in Procs /\ p # Owner
      /\ pc[p] \in {"idle", "entry", "fetch", "check", "insert"} /\ gen[p] = None
      /\ pc[p] = "entry" => legacy = NoSecret
      /\ OldService \/ legacy = NoSecret
      /\ DOMAIN pc = Procs /\ DOMAIN gen = Procs /\ DOMAIN seen = Procs /\ DOMAIN value = Procs
  BY OwnerAssumption DEF TypeOK, ReadersOnlyRead, Procs
<1>t. /\ pc \in [Procs -> {"idle"} \cup Persisting \cup Committed \cup Loads \cup Deletes]
      /\ value \in [Procs -> {NoSecret} \cup Versions]
      /\ gen \in [Procs -> Generations \cup {None}] /\ seen \in [Procs -> Manifests]
  BY DEF TypeOK
<1> USE <1>0, <1>t DEF At, Goto, KeepLocals, keyring, historyVars, cacheVars
<1>1. ~Persist(p) /\ ~DeleteLegacy(p)
  BY DEF Persist, ReadManifest, PurgePrevious, WriteFirst, WriteNext, WriteFails, Commit,
         DropPrevious, CleanManifest, DeleteLegacy
<1>2. CASE Load(p)
  BY <1>2 DEF Load
<1>3. CASE Leave(p) /\ UNCHANGED keyring /\ (faulted => faulted')
  BY <1>3 DEF Leave
<1>4. CASE ReadEntry(p)
  BY <1>3, <1>4 DEF ReadEntry
<1>5. CASE ReadGeneration(p)
  BY <1>3, <1>5 DEF ReadGeneration
<1>6. CASE CheckCache(p)
  BY <1>3, <1>6 DEF CheckCache
<1>7. CASE Remember(p)
  BY <1>3, <1>7 DEF Remember
<1> QED BY <1>1, <1>2, <1>4, <1>5, <1>6, <1>7

StoreInv == ReadersOnlyRead /\ GenerationsFit /\ SaveFits

(* So a reader's step keeps what the owner relies on. *)
LEMMA ReadersSpare ==
  ASSUME TypeOK, StoreInv, ~OldService \/ MigratesLocked, NEW p \in Readers,
         \/ Persist(p) \/ Load(p) \/ ReadEntry(p) \/ ReadGeneration(p)
         \/ DeleteLegacy(p) \/ CheckCache(p) \/ Remember(p)
  PROVE  StoreInv' /\ (NothingIsLeft => NothingIsLeft')
<1>1. /\ UNCHANGED keyring /\ (faulted => faulted')
      /\ pc'[p] \in {"idle", "entry", "fetch", "check", "insert"} /\ gen'[p] = None
      /\ pc'[p] = "entry" => legacy = NoSecret
      /\ \A q \in Procs \ {p} : /\ pc'[q] = pc[q] /\ gen'[q] = gen[q]
                                /\ seen'[q] = seen[q] /\ value'[q] = value[q]
  BY ReaderSteps DEF StoreInv
<1>2. /\ pc'[Owner] = pc[Owner] /\ gen'[Owner] = gen[Owner]
      /\ seen'[Owner] = seen[Owner] /\ value'[Owner] = value[Owner]
  BY <1>1, OwnerAssumption DEF Procs
<1>3. UNCHANGED <<manifest, legacy, chunks, content>>
  BY <1>1 DEF keyring
<1>4. ReadersOnlyRead'
  BY <1>1, <1>3 DEF StoreInv, ReadersOnlyRead, Procs
<1>5. GenerationsFit'
  BY <1>3 DEF StoreInv, GenerationsFit
<1>6. SaveFits'
  BY <1>2, <1>3 DEF StoreInv, SaveFits
<1>7. NothingIsLeft => NothingIsLeft'
  BY <1>1, <1>2, <1>3 DEF NothingIsLeft, Named
<1> QED BY <1>4, <1>5, <1>6, <1>7 DEF StoreInv

(* The owner leaves the readers where they are. *)
LEMMA OwnerSpares ==
  ASSUME TypeOK, ReadersOnlyRead,
         \A p \in Readers : pc'[p] = pc[p] /\ gen'[p] = gen[p],
         legacy' \in {legacy, NoSecret}
  PROVE  ReadersOnlyRead'
BY DEF ReadersOnlyRead

(* Deleting chunks of one generation leaves those of the others, and keeps   *)
(* that a generation that was never written has none.                        *)
LEMMA DeletesOwn ==
  ASSUME TypeOK, NEW g \in Generations \cup {None}, NEW left \in Remaining(ChunksOf(g)),
         DeleteChunks(ChunksOf(g), left), UNCHANGED <<manifest, content>>
  PROVE  /\ chunks' \subseteq chunks
         /\ GenerationsFit => GenerationsFit'
         /\ \A h \in Generations \cup {None} : h # g =>
              ChunksOf(h) \cap chunks' = ChunksOf(h) \cap chunks
         /\ left = {} => ChunksOf(g) \cap chunks' = {}
<1>1. chunks' = (chunks \ ChunksOf(g)) \cup left /\ left \subseteq ChunksOf(g) \cap chunks
  BY DEF DeleteChunks, Remaining
<1>2. ASSUME NEW h \in Generations \cup {None}, h # g
      PROVE  ChunksOf(h) \cap chunks' = ChunksOf(h) \cap chunks
  BY <1>1, <1>2, ChunksApart
<1>3. GenerationsFit => GenerationsFit'
  BY <1>1 DEF GenerationsFit
<1> QED BY <1>1, <1>2, <1>3

(* What has no place in a save has no obligations of one. *)
LEMMA OutOfSave ==
  ASSUME \/ pc'[Owner] \in {"fetch", "check", "insert"} \cup Deletes
         \/ pc'[Owner] \in {"idle", "entry"} /\ gen'[Owner] = None
  PROVE  SaveFits'
BY DEF SaveFits, Persisting, Committed, Deletes

(* A write that fails leaves the save. *)
LEMMA FailureLeavesSave ==
  ASSUME TypeOK, PersistFails(Owner)
  PROVE  /\ SaveFits'
         /\ pc'[Owner] \in {"idle", "check"}
         /\ \A p \in Readers : pc'[p] = pc[p] /\ gen'[p] = gen[p]
<1>0. /\ pc \in [Procs -> {"idle"} \cup Persisting \cup Committed \cup Loads \cup Deletes]
      /\ gen \in [Procs -> Generations \cup {None}]
      /\ Owner \in Procs /\ \A p \in Readers : p \in Procs /\ p # Owner
  BY OwnerAssumption DEF TypeOK, Procs
<1>1. CASE Goto(Owner, "check") /\ KeepLocals
  BY <1>0, <1>1, OutOfSave DEF Goto, KeepLocals
<1>2. CASE Leave(Owner)
  BY <1>0, <1>2, OutOfSave DEF Leave, Goto
<1> QED BY <1>1, <1>2 DEF PersistFails

(* Every step of a save keeps the invariant of the keyring: one step per     *)
(* action.                                                                   *)
LEMMA PersistStep ==
  ASSUME TypeOK, TypeOK', StoreInv, Persist(Owner)
  PROVE  StoreInv' /\ (NothingIsLeft => NothingIsLeft')
<1>0. /\ manifest \in Manifests /\ content \in [Generations -> {NoSecret} \cup Versions]
      /\ pc \in [Procs -> {"idle"} \cup Persisting \cup Committed \cup Loads \cup Deletes]
      /\ gen \in [Procs -> Generations \cup {None}] /\ seen \in [Procs -> Manifests]
      /\ value \in [Procs -> {NoSecret} \cup Versions]
      /\ chunks \subseteq Generations \X (1 .. ChunkCount)
      /\ Owner \in Procs /\ \A p \in Readers : p \in Procs /\ p # Owner
  BY OwnerAssumption DEF TypeOK, Procs
<1>inv. ReadersOnlyRead /\ GenerationsFit /\ SaveFits
  BY DEF StoreInv
<1>named. /\ manifest.active \in Generations \cup {None}
          /\ manifest.previous \in Generations \cup {None}
  BY <1>0 DEF Manifests
<1>1. ASSUME UNCHANGED <<manifest, chunks, content>> PROVE GenerationsFit'
  BY <1>1, <1>inv DEF GenerationsFit
<1>2. CASE ReadManifest(Owner)
  <2>1. UNCHANGED <<manifest, legacy, chunks, content>> /\ At(Owner, "manifest")
    BY <1>2 DEF ReadManifest, keyring
  <2>2. CASE /\ seen' = [seen EXCEPT ![Owner] = manifest]
             /\ Goto(Owner, IF manifest.previous = None THEN "write" ELSE "purge")
             /\ UNCHANGED <<value, gen, loading, failed, historyVars>>
    <3>1. /\ pc'[Owner] = IF manifest.previous = None THEN "write" ELSE "purge"
          /\ seen'[Owner] = manifest /\ gen[Owner] = None /\ value[Owner] # NoSecret
          /\ \A p \in Readers : pc'[p] = pc[p] /\ gen'[p] = gen[p]
      BY <1>0, <1>inv, <2>1, <2>2 DEF Goto, SaveFits, At, Persisting
    <3>2. SaveFits'
      <4>1. \A i : <<None, i>> \notin chunks
        BY <1>0, NoneAssumption
      <4> QED BY <2>1, <2>2, <3>1, <4>1 DEF SaveFits, Persisting, Committed
    <3>3. NothingIsLeft => NothingIsLeft'
      BY <2>1, <2>2, <3>1 DEF NothingIsLeft, Named, ChunksOf, At, historyVars
    <3> QED BY <1>1, <1>inv, <2>1, <3>1, <3>2, <3>3, OwnerSpares DEF StoreInv
  <2>3. CASE PersistFails(Owner) /\ UNCHANGED historyVars
    <3>1. /\ pc'[Owner] \in {"check", "idle"} /\ SaveFits'
          /\ \A p \in Readers : pc'[p] = pc[p] /\ gen'[p] = gen[p]
      BY <2>1, <2>3, FailureLeavesSave
    <3>2. NothingIsLeft => NothingIsLeft'
      BY <2>1, <2>3, <3>1 DEF NothingIsLeft, Named, At, historyVars
    <3> QED BY <1>1, <1>inv, <2>1, <3>1, <3>2, OwnerSpares DEF StoreInv
  <2> QED BY <1>2, <2>2, <2>3 DEF ReadManifest
<1>3. CASE PurgePrevious(Owner)
  <2>1. /\ UNCHANGED <<manifest, legacy, content>> /\ At(Owner, "purge")
        /\ seen[Owner] = manifest /\ gen[Owner] = None
    BY <1>3, <1>inv DEF PurgePrevious, SaveFits, At
  <2>2. PICK left \in Remaining(ChunksOf(manifest.previous)) :
          /\ DeleteChunks(ChunksOf(manifest.previous), left)
          /\ IF left = {} THEN Goto(Owner, "write") /\ KeepLocals ELSE PersistFails(Owner)
          /\ UNCHANGED historyVars
    BY <1>3, <2>1 DEF PurgePrevious
  <2>3. /\ chunks' \subseteq chunks /\ GenerationsFit'
        /\ left = {} => ChunksOf(manifest.previous) \cap chunks' = {}
    BY <1>inv, <1>named, <2>1, <2>2, DeletesOwn
  <2>4. CASE left = {}
    <3>1. /\ pc'[Owner] = "write" /\ UNCHANGED <<seen, gen, value, faulted>>
          /\ \A p \in Readers : pc'[p] = pc[p] /\ gen'[p] = gen[p]
      BY <1>0, <2>2, <2>4 DEF Goto, KeepLocals, historyVars
    <3>2. SaveFits'
      <4>1. \A i : <<None, i>> \notin chunks'
        BY <1>0, <2>3, NoneAssumption
      <4>2. value[Owner] # NoSecret
        BY <1>inv, <2>1 DEF SaveFits, At, Persisting
      <4> QED BY <2>1, <3>1, <4>1, <4>2 DEF SaveFits, Persisting, Committed
    <3>3. NothingIsLeft => NothingIsLeft'
      BY <2>1, <2>3, <2>4, <3>1 DEF NothingIsLeft, Named, At
    <3> QED BY <1>inv, <2>1, <2>3, <3>1, <3>2, <3>3, OwnerSpares DEF StoreInv
  <2>5. CASE left # {}
    <3>1. /\ pc'[Owner] \in {"check", "idle"} /\ SaveFits'
          /\ \A p \in Readers : pc'[p] = pc[p] /\ gen'[p] = gen[p]
      BY <2>1, <2>2, <2>5, FailureLeavesSave
    <3>2. NothingIsLeft => NothingIsLeft'
      BY <2>1, <2>2, <2>3, <3>1 DEF NothingIsLeft, Named, At, historyVars
    <3> QED BY <1>inv, <2>1, <2>3, <3>1, <3>2, OwnerSpares DEF StoreInv
  <2> QED BY <2>4, <2>5
<1>4. CASE WriteFirst(Owner)
  <2>1. /\ UNCHANGED <<manifest, legacy, value, seen, faulted>>
        /\ At(Owner, "write") /\ gen[Owner] = None /\ value[Owner] # NoSecret
        /\ seen[Owner] = manifest
    BY <1>4, <1>inv DEF WriteFirst, SaveFits, At, Persisting, historyVars
  <2>2. PICK g \in Generations : /\ content[g] = NoSecret
                                 /\ gen' = [gen EXCEPT ![Owner] = g]
                                 /\ content' = [content EXCEPT ![g] = value[Owner]]
                                 /\ chunks' = chunks \cup {<<g, 1>>}
                                 /\ Goto(Owner, IF ChunkCount = 1 THEN "commit" ELSE "write")
    BY <1>4 DEF WriteFirst, Used
  <2>3. /\ g \notin {manifest.active, manifest.previous}
        /\ ChunksOf(g) \cap chunks = {}
    BY <1>inv, <2>2, NoneAssumption DEF GenerationsFit
  <2>4. /\ gen'[Owner] = g /\ content'[g] = value[Owner]
        /\ \A h \in Generations : h # g => content'[h] = content[h]
        /\ pc'[Owner] = IF ChunkCount = 1 THEN "commit" ELSE "write"
        /\ \A p \in Readers : pc'[p] = pc[p] /\ gen'[p] = gen[p]
    BY <1>0, <2>2 DEF Goto
  <2>5. /\ ChunksOf(g) \cap chunks' = {<<g, 1>>} /\ g # None
        /\ \A h \in Generations : h # g => ChunksOf(h) \cap chunks' = ChunksOf(h) \cap chunks
    BY <2>2, <2>3, NoneAssumption, ChunkAssumption DEF ChunksOf
  <2>6. GenerationsFit'
    BY <1>inv, <1>named, <2>1, <2>3, <2>4, <2>5 DEF GenerationsFit
  <2>7. SaveFits'
    <3>1. \A i \in 1 .. ChunkCount : <<g, i>> \in chunks' => i = 1
      BY <2>5 DEF ChunksOf
    <3>2. pc'[Owner] = "write" =>
            \A i, j \in 1 .. ChunkCount :
              <<gen'[Owner], i>> \in chunks' /\ j <= i => <<gen'[Owner], j>> \in chunks'
      BY <2>2, <2>4, <3>1, ChunkAssumption
    <3>3. pc'[Owner] = "commit" => ChunksOf(gen'[Owner]) \subseteq chunks'
      BY <2>2, <2>4, ChunkAssumption DEF ChunksOf
    <3> QED
      BY <2>1, <2>3, <2>4, <2>5, <3>2, <3>3
         DEF SaveFits, Persisting, Committed
  <2>8. NothingIsLeft => NothingIsLeft'
    <3> SUFFICES ASSUME NothingIsLeft, ~faulted PROVE NothingIsLeft'
      BY <2>1 DEF NothingIsLeft
    <3>1. chunks \subseteq Named /\ chunks \cap ChunksOf(manifest.previous) = {}
      BY <2>1 DEF NothingIsLeft, At, ChunksOf
    <3>2. <<g, 1>> \in ChunksOf(g) /\ <<g, 1>> \notin ChunksOf(manifest.previous)
      BY <2>3, <2>5, ChunksApart
    <3> QED BY <2>1, <2>2, <2>4, <3>1, <3>2 DEF NothingIsLeft, Named
  <2> QED BY <1>inv, <2>1, <2>4, <2>6, <2>7, <2>8, OwnerSpares DEF StoreInv
<1>5. CASE WriteNext(Owner)
  <2> DEFINE g == gen[Owner]
  <2>1. /\ UNCHANGED <<manifest, legacy, content, value, seen, gen, faulted>>
        /\ At(Owner, "write") /\ g # None /\ g \in Generations /\ value[Owner] # NoSecret
        /\ seen[Owner] = manifest /\ content[g] = value[Owner]
        /\ g \notin {manifest.active, manifest.previous}
    BY <1>0, <1>5, <1>inv
       DEF WriteNext, KeepLocals, SaveFits, At, Persisting, historyVars
  <2>2. PICK i \in 2 .. ChunkCount :
          /\ <<g, i>> \notin chunks /\ <<g, i - 1>> \in chunks
          /\ chunks' = chunks \cup {<<g, i>>}
          /\ Goto(Owner, IF i = ChunkCount THEN "commit" ELSE "write")
    BY <1>5 DEF WriteNext
  <2>3. \A k, j \in 1 .. ChunkCount : <<g, k>> \in chunks /\ j <= k => <<g, j>> \in chunks
    BY <1>inv, <2>1 DEF SaveFits, At
  <2> HIDE DEF g
  <2>4. /\ pc'[Owner] = IF i = ChunkCount THEN "commit" ELSE "write"
        /\ \A p \in Readers : pc'[p] = pc[p] /\ gen'[p] = gen[p]
    BY <1>0, <2>1, <2>2 DEF Goto
  <2>5. <<g, i>> \in ChunksOf(g)
    BY <2>1, <2>2, ChunkAssumption DEF ChunksOf
  <2>6. GenerationsFit'
    <3>1. \A h \in Generations : h # g => ChunksOf(h) \cap chunks' = ChunksOf(h) \cap chunks
      BY <2>2, <2>5, ChunksApart
    <3> QED BY <1>inv, <2>1, <3>1 DEF GenerationsFit
  <2>7. SaveFits'
    <3>1. ASSUME NEW k \in 1 .. ChunkCount, NEW j \in 1 .. ChunkCount,
                 <<g, k>> \in chunks', j <= k
          PROVE  <<g, j>> \in chunks'
      <4>1. i - 1 \in 1 .. ChunkCount /\ i \in 1 .. ChunkCount
        BY ChunkAssumption
      <4>2. CASE k = i /\ j # i
        <5>1. j <= i - 1
          BY <3>1, <4>1, <4>2
        <5> QED BY <2>2, <2>3, <4>1, <5>1
      <4>3. CASE k # i
        BY <2>2, <2>3, <3>1, <4>3
      <4>4. CASE k = i /\ j = i
        BY <3>1, <4>4
      <4> QED BY <4>2, <4>3, <4>4
    <3>2. pc'[Owner] = "commit" => ChunksOf(g) \subseteq chunks'
      <4>1. ASSUME i = ChunkCount, NEW j \in 1 .. ChunkCount PROVE <<g, j>> \in chunks'
        BY <2>2, <3>1, <4>1, ChunkAssumption
      <4> QED BY <2>4, <4>1 DEF ChunksOf
    <3> QED BY <2>1, <2>4, <3>1, <3>2 DEF SaveFits, Persisting, Committed, g
  <2>8. NothingIsLeft => NothingIsLeft'
    <3> SUFFICES ASSUME NothingIsLeft, ~faulted PROVE NothingIsLeft'
      BY <2>1 DEF NothingIsLeft
    <3>1. /\ chunks \subseteq Named \cup ChunksOf(g)
          /\ chunks \cap ChunksOf(manifest.previous) = {}
      BY <2>1 DEF NothingIsLeft, At, g
    <3>2. <<g, i>> \notin ChunksOf(manifest.previous)
      BY <2>1, <2>5, ChunksApart
    <3> QED BY <2>1, <2>2, <2>4, <2>5, <3>1, <3>2 DEF NothingIsLeft, Named, g
  <2> QED BY <1>inv, <2>1, <2>4, <2>6, <2>7, <2>8, OwnerSpares DEF StoreInv
<1>6. CASE WriteFails(Owner)
  <2>1. /\ UNCHANGED <<manifest, legacy, content>>
        /\ PersistFails(Owner) /\ gen[Owner] \in Generations \cup {None}
        /\ pc[Owner] \in {"write", "commit"}
    BY <1>0, <1>6 DEF WriteFails, At
  <2>2. PICK left \in Remaining(ChunksOf(gen[Owner])) :
          /\ DeleteChunks(ChunksOf(gen[Owner]), left)
          /\ faulted' = (faulted \/ left # {})
    BY <1>6 DEF WriteFails
  <2>3. /\ chunks' \subseteq chunks /\ GenerationsFit'
        /\ left = {} => ChunksOf(gen[Owner]) \cap chunks' = {}
    BY <1>inv, <2>1, <2>2, DeletesOwn
  <2>4. /\ pc'[Owner] \in {"check", "idle"} /\ SaveFits'
        /\ \A p \in Readers : pc'[p] = pc[p] /\ gen'[p] = gen[p]
    BY <2>1, <2>3, FailureLeavesSave
  <2>5. NothingIsLeft => NothingIsLeft'
    <3> SUFFICES ASSUME NothingIsLeft, ~faulted' PROVE NothingIsLeft'
      BY DEF NothingIsLeft
    <3>1. left = {} /\ ~faulted
      BY <2>2
    <3>2. chunks' \subseteq Named
      BY <2>1, <2>3, <3>1 DEF NothingIsLeft
    <3> QED BY <2>1, <2>4, <3>2 DEF NothingIsLeft, Named
  <2> QED BY <1>inv, <2>1, <2>3, <2>4, <2>5, OwnerSpares DEF StoreInv
<1>7. CASE Commit(Owner)
  <2> DEFINE g == gen[Owner]
  <2>1. /\ UNCHANGED <<legacy, chunks, content, value, seen, gen, faulted>>
        /\ At(Owner, "commit") /\ g # None /\ g \in Generations
        /\ seen[Owner] = manifest /\ content[g] # NoSecret
        /\ g \notin {manifest.active, manifest.previous}
        /\ manifest' = [active |-> g, previous |-> manifest.active]
        /\ pc'[Owner] = IF manifest.active = None THEN "done" ELSE "drop"
        /\ \A p \in Readers : pc'[p] = pc[p] /\ gen'[p] = gen[p]
    BY <1>0, <1>7, <1>inv
    DEF Commit, KeepLocals, SaveFits, At, Persisting, historyVars, Goto
  <2> HIDE DEF g
  <2>2. GenerationsFit'
    BY <1>inv, <2>1 DEF GenerationsFit
  <2>3. SaveFits'
    BY <2>1 DEF SaveFits, Persisting, Committed, g
  <2>4. NothingIsLeft => NothingIsLeft'
    <3> SUFFICES ASSUME NothingIsLeft, ~faulted PROVE NothingIsLeft'
      BY <2>1 DEF NothingIsLeft
    <3>1. /\ chunks \subseteq Named \cup ChunksOf(g)
          /\ chunks \cap ChunksOf(manifest.previous) = {}
      BY <2>1 DEF NothingIsLeft, At, g
    <3> QED BY <2>1, <3>1 DEF NothingIsLeft, Named
  <2> QED BY <1>inv, <2>1, <2>2, <2>3, <2>4, OwnerSpares DEF StoreInv
<1>8. CASE DropPrevious(Owner)
  <2>1. /\ UNCHANGED <<manifest, legacy, content, value, seen, gen>> /\ At(Owner, "drop")
        /\ seen[Owner].active = manifest.previous
        /\ gen[Owner] # None /\ manifest.active = gen[Owner]
    BY <1>8, <1>inv DEF DropPrevious, KeepLocals, SaveFits, At, Committed
  <2>2. PICK left \in Remaining(ChunksOf(manifest.previous)) :
          /\ DeleteChunks(ChunksOf(manifest.previous), left)
          /\ Goto(Owner, IF left = {} THEN "clean" ELSE "done")
          /\ UNCHANGED historyVars
    BY <1>8, <2>1 DEF DropPrevious
  <2>3. /\ chunks' \subseteq chunks /\ GenerationsFit'
        /\ left = {} => ChunksOf(manifest.previous) \cap chunks' = {}
    BY <1>inv, <1>named, <2>1, <2>2, DeletesOwn
  <2>4. /\ pc'[Owner] = IF left = {} THEN "clean" ELSE "done"
        /\ \A p \in Readers : pc'[p] = pc[p] /\ gen'[p] = gen[p]
    BY <1>0, <2>1, <2>2 DEF Goto
  <2>5. SaveFits'
    BY <2>1, <2>4 DEF SaveFits, Persisting, Committed
  <2>6. faulted' = faulted
    BY <2>2 DEF historyVars
  <2>7. NothingIsLeft => NothingIsLeft'
    BY <2>1, <2>3, <2>4, <2>6 DEF NothingIsLeft, Named, At
  <2> QED BY <1>inv, <2>1, <2>3, <2>4, <2>5, <2>7, OwnerSpares DEF StoreInv
<1>9. CASE CleanManifest(Owner)
  <2>1. /\ UNCHANGED <<legacy, chunks, content, value, seen, gen>> /\ At(Owner, "clean")
        /\ gen[Owner] # None /\ manifest.active = gen[Owner]
        /\ pc'[Owner] = "done"
        /\ \A p \in Readers : pc'[p] = pc[p] /\ gen'[p] = gen[p]
    BY <1>0, <1>9, <1>inv
       DEF CleanManifest, KeepLocals, SaveFits, At, Committed, Goto
  <2>2. /\ manifest' \in {[active |-> manifest.active, previous |-> None], manifest}
        /\ UNCHANGED faulted
    BY <1>9, <2>1 DEF CleanManifest, historyVars
  <2>3. GenerationsFit'
    BY <1>inv, <2>1, <2>2 DEF GenerationsFit
  <2>4. SaveFits'
    BY <2>1, <2>2 DEF SaveFits, Persisting, Committed
  <2>5. NothingIsLeft => NothingIsLeft'
    BY <2>1, <2>2 DEF NothingIsLeft, Named, At
  <2> QED BY <1>inv, <2>1, <2>3, <2>4, <2>5, OwnerSpares DEF StoreInv
<1> QED
  BY <1>2, <1>3, <1>4, <1>5, <1>6, <1>7, <1>8, <1>9 DEF Persist

(* Every other step of the owner keeps it too: loads and deletions, and what *)
(* happens to the cache.                                                     *)
LEMMA OwnerStep ==
  ASSUME TypeOK, TypeOK', StoreInv, ~OldService \/ MigratesLocked,
         \/ Load(Owner) \/ ReadEntry(Owner) \/ ReadGeneration(Owner)
         \/ DeleteLegacy(Owner) \/ CheckCache(Owner) \/ Remember(Owner)
         \/ Save \/ MarkClean \/ Expire
         \/ Delete \/ EraseReads \/ EraseChunks \/ EraseEntry \/ EraseOldEntry \/ Forget
  PROVE  StoreInv' /\ (NothingIsLeft => NothingIsLeft')
<1>0. /\ manifest \in Manifests
      /\ pc \in [Procs -> {"idle"} \cup Persisting \cup Committed \cup Loads \cup Deletes]
      /\ gen \in [Procs -> Generations \cup {None}] /\ seen \in [Procs -> Manifests]
      /\ value \in [Procs -> {NoSecret} \cup Versions]
      /\ chunks \subseteq Generations \X (1 .. ChunkCount)
      /\ newest \in Nat /\ (dirty => cache # NoSecret)
      /\ Owner \in Procs /\ \A p \in Readers : p \in Procs /\ p # Owner
  BY OwnerAssumption, VersionAssumption DEF TypeOK, Procs, Versions
<1>inv. ReadersOnlyRead /\ GenerationsFit /\ SaveFits
  BY DEF StoreInv
<1>1. ASSUME UNCHANGED <<manifest, legacy, chunks, content>>, faulted => faulted',
             \A p \in Readers : pc'[p] = pc[p] /\ gen'[p] = gen[p],
             SaveFits',
             pc[Owner] \notin {"write", "commit", "eraseEntry", "eraseOld"},
             pc'[Owner] \notin {"write", "commit", "clean", "eraseChunks", "eraseEntry",
                                "eraseOld", "forget"}
      PROVE  StoreInv' /\ (NothingIsLeft => NothingIsLeft')
  <2>1. GenerationsFit'
    BY <1>1, <1>inv DEF GenerationsFit
  <2>2. NothingIsLeft => NothingIsLeft'
    BY <1>1 DEF NothingIsLeft, Named
  <2> QED BY <1>1, <1>inv, <2>1, <2>2, OwnerSpares DEF StoreInv
<1>2. ASSUME Leave(Owner), UNCHANGED keyring, faulted => faulted',
             pc[Owner] \notin {"write", "commit", "eraseEntry", "eraseOld"}
      PROVE  StoreInv' /\ (NothingIsLeft => NothingIsLeft')
  <2>1. /\ pc'[Owner] = "idle" /\ gen'[Owner] = None
        /\ \A p \in Readers : pc'[p] = pc[p] /\ gen'[p] = gen[p]
    BY <1>0, <1>2 DEF Leave, Goto
  <2> QED BY <1>1, <1>2, <2>1, OutOfSave DEF keyring
<1>3. ASSUME NEW to \in {"fetch", "check", "insert"}, Goto(Owner, to),
             \A p \in Readers : gen'[p] = gen[p], UNCHANGED keyring, faulted => faulted',
             pc[Owner] \notin {"write", "commit", "eraseEntry", "eraseOld"}
      PROVE  StoreInv' /\ (NothingIsLeft => NothingIsLeft')
  <2>1. /\ pc'[Owner] = to
        /\ \A p \in Readers : pc'[p] = pc[p]
    BY <1>0, <1>3 DEF Goto
  <2> QED BY <1>1, <1>3, <2>1, OutOfSave DEF keyring
<1>4. ASSUME UNCHANGED <<keyring, locals, faulted>>
      PROVE  StoreInv' /\ (NothingIsLeft => NothingIsLeft')
  BY <1>4, <1>inv DEF keyring, locals, StoreInv, ReadersOnlyRead, GenerationsFit, SaveFits,
     NothingIsLeft, Named
<1>5. CASE Load(Owner)
  <2>1. /\ At(Owner, "idle") /\ UNCHANGED <<keyring, gen, faulted>>
        /\ pc'[Owner] = "entry" /\ \A p \in Readers : pc'[p] = pc[p]
    BY <1>0, <1>5 DEF Load, Goto, historyVars
  <2>2. SaveFits'
    BY <1>inv, <2>1, OutOfSave DEF SaveFits, At
  <2> QED BY <1>1, <2>1, <2>2 DEF keyring, At
<1>6. CASE ReadEntry(Owner)
  <2>1. /\ At(Owner, "entry") /\ UNCHANGED <<keyring, faulted>> /\ gen[Owner] = None
    BY <1>6, <1>inv DEF ReadEntry, SaveFits, At, historyVars
  <2>2. CASE Leave(Owner)
    BY <1>2, <2>1, <2>2 DEF At
  <2>3. CASE Goto(Owner, "fetch") /\ UNCHANGED gen
    BY <1>3, <2>1, <2>3 DEF At
  <2>4. CASE /\ legacy # NoSecret /\ value' = [value EXCEPT ![Owner] = legacy]
             /\ Goto(Owner, "manifest") /\ UNCHANGED <<seen, gen>>
    <3>1. /\ pc'[Owner] = "manifest" /\ value'[Owner] # NoSecret
          /\ \A p \in Readers : pc'[p] = pc[p] /\ gen'[p] = gen[p]
      BY <1>0, <2>4 DEF Goto
    <3>2. SaveFits'
      BY <2>1, <2>4, <3>1 DEF SaveFits, Persisting, Committed
    <3> QED BY <1>1, <2>1, <2>4, <3>1, <3>2 DEF keyring, At
  <2> QED BY <1>6, <2>2, <2>3, <2>4 DEF ReadEntry
<1>7. CASE ReadGeneration(Owner) \/ CheckCache(Owner) \/ Remember(Owner)
  <2>1. /\ UNCHANGED <<keyring, faulted>> /\ pc[Owner] \in {"fetch", "check", "insert"}
        /\ \/ Leave(Owner)
           \/ Goto(Owner, "check") /\ UNCHANGED gen
           \/ Goto(Owner, "insert") /\ UNCHANGED gen
    BY <1>7
       DEF ReadGeneration, CheckCache, Remember, At, historyVars, KeepLocals
  <2> QED BY <1>2, <1>3, <2>1
<1>8. CASE DeleteLegacy(Owner)
  <2>1. /\ At(Owner, "done") /\ UNCHANGED <<manifest, chunks, content, gen, faulted>>
        /\ legacy' \in {NoSecret, legacy}
        /\ pc'[Owner] = "check" /\ \A p \in Readers : pc'[p] = pc[p]
    BY <1>0, <1>8 DEF DeleteLegacy, historyVars, KeepLocals, Goto
  <2>2. GenerationsFit' /\ SaveFits'
    BY <1>inv, <2>1, OutOfSave DEF GenerationsFit
  <2>3. NothingIsLeft => NothingIsLeft'
    BY <2>1 DEF NothingIsLeft, Named, At
  <2> QED BY <1>inv, <2>1, <2>2, <2>3, OwnerSpares DEF StoreInv
<1>9. CASE Save
  <2>1. /\ At(Owner, "idle") /\ UNCHANGED <<keyring, gen, faulted>>
        /\ pc'[Owner] = "manifest" /\ value'[Owner] # NoSecret
        /\ \A p \in Readers : pc'[p] = pc[p]
    <3>1. newest + 1 # NoSecret
      BY <1>0 DEF NoSecret
    <3> QED BY <1>0, <1>9, <3>1 DEF Save, Goto
  <2>2. SaveFits'
    BY <1>inv, <2>1 DEF SaveFits, Persisting, Committed, At
  <2> QED BY <1>1, <2>1, <2>2 DEF keyring, At
<1>10. CASE MarkClean \/ Forget
  BY <1>2, <1>10 DEF MarkClean, Forget, At
<1>11. CASE Expire
  BY <1>4, <1>11 DEF Expire, historyVars
<1>12. CASE Delete
  <2>1. /\ At(Owner, "idle") /\ UNCHANGED <<keyring, gen, faulted>>
        /\ pc'[Owner] = "erase" /\ \A p \in Readers : pc'[p] = pc[p]
    BY <1>0, <1>12 DEF Delete, Goto
  <2> QED BY <1>1, <2>1, OutOfSave DEF keyring, At, Deletes
<1>13. CASE EraseReads
  <2>1. /\ At(Owner, "erase") /\ UNCHANGED <<manifest, legacy, chunks, content, gen>>
        /\ \/ UNCHANGED faulted /\ seen'[Owner] = manifest
           \/ faulted' = TRUE
        /\ pc'[Owner] = "eraseChunks" /\ \A p \in Readers : pc'[p] = pc[p]
    BY <1>0, <1>13 DEF EraseReads, Goto, keyring
  <2>2. GenerationsFit' /\ SaveFits'
    BY <1>inv, <2>1, OutOfSave DEF GenerationsFit, Deletes
  <2>3. NothingIsLeft => NothingIsLeft'
    BY <2>1 DEF NothingIsLeft, Named, At
  <2> QED BY <1>inv, <2>1, <2>2, <2>3, OwnerSpares DEF StoreInv
<1>14. CASE EraseChunks
  <2> DEFINE entries == ChunksOf(seen[Owner].active) \cup ChunksOf(seen[Owner].previous)
  <2>1. /\ At(Owner, "eraseChunks") /\ UNCHANGED <<manifest, legacy, content, gen, seen>>
        /\ pc'[Owner] = "eraseEntry" /\ \A p \in Readers : pc'[p] = pc[p]
    BY <1>0, <1>14 DEF EraseChunks, Goto
  <2>2. PICK left \in Remaining(entries) : /\ DeleteChunks(entries, left)
                                           /\ faulted' = (faulted \/ left # {})
    BY <1>14 DEF EraseChunks
  <2>3. chunks' \subseteq chunks /\ (left = {} => chunks' = chunks \ entries)
    BY <2>2 DEF DeleteChunks, Remaining
  <2>4. GenerationsFit' /\ SaveFits'
    BY <1>inv, <2>1, <2>3, OutOfSave DEF GenerationsFit, Deletes
  <2>5. NothingIsLeft => NothingIsLeft'
    <3> SUFFICES ASSUME NothingIsLeft, ~faulted, left = {} PROVE NothingIsLeft'
      BY <2>2 DEF NothingIsLeft
    <3>1. entries = Named /\ chunks \subseteq Named
      BY <2>1 DEF NothingIsLeft, Named, At
    <3> QED BY <2>1, <2>3, <3>1 DEF NothingIsLeft
  <2> QED BY <1>inv, <2>1, <2>4, <2>5, OwnerSpares DEF StoreInv
<1>15. CASE EraseEntry
  <2>1. /\ At(Owner, "eraseEntry") /\ UNCHANGED <<legacy, chunks, content, gen>>
        /\ manifest' \in {NoManifest, manifest} /\ (faulted => faulted')
        /\ pc'[Owner] = "eraseOld" /\ \A p \in Readers : pc'[p] = pc[p]
    BY <1>0, <1>15 DEF EraseEntry, Goto, historyVars
  <2>2. GenerationsFit' /\ SaveFits'
    BY <1>inv, <2>1, OutOfSave DEF GenerationsFit, Deletes, NoManifest
  <2>3. NothingIsLeft => NothingIsLeft'
    BY <2>1 DEF NothingIsLeft, At
  <2> QED BY <1>inv, <2>1, <2>2, <2>3, OwnerSpares DEF StoreInv
<1>16. CASE EraseOldEntry
  <2>1. /\ At(Owner, "eraseOld") /\ UNCHANGED <<manifest, chunks, content, gen>>
        /\ legacy' \in {NoSecret, legacy} /\ (faulted => faulted')
        /\ pc'[Owner] = "forget" /\ \A p \in Readers : pc'[p] = pc[p]
    BY <1>0, <1>16 DEF EraseOldEntry, Goto, historyVars
  <2>2. GenerationsFit' /\ SaveFits'
    BY <1>inv, <2>1, OutOfSave DEF GenerationsFit, Deletes
  <2>3. NothingIsLeft => NothingIsLeft'
    BY <2>1 DEF NothingIsLeft, At
  <2> QED BY <1>inv, <2>1, <2>2, <2>3, OwnerSpares DEF StoreInv
<1> QED
  BY <1>5, <1>6, <1>7, <1>8, <1>9, <1>10, <1>11, <1>12, <1>13, <1>14, <1>15,
     <1>16

(* When no reader takes an old entry over, every step keeps the invariant.   *)
LEMMA StoreStep ==
  ASSUME TypeOK, TypeOK', StoreInv, NothingIsLeft, ~OldService \/ MigratesLocked, [Next]_vars
  PROVE  StoreInv' /\ NothingIsLeft'
<1>1. CASE Crash
  <2>1. /\ UNCHANGED <<manifest, legacy, chunks, content>> /\ faulted' = TRUE
        /\ pc'[Owner] = "idle" /\ gen'[Owner] = None
        /\ \A p \in Readers : pc'[p] = "idle" /\ gen'[p] = None
    BY <1>1 DEF Crash, Procs, keyring
  <2>2. ReadersOnlyRead' /\ GenerationsFit' /\ NothingIsLeft'
    BY <2>1 DEF StoreInv, ReadersOnlyRead, GenerationsFit, NothingIsLeft
  <2> QED BY <2>1, <2>2, OutOfSave DEF StoreInv
<1>2. CASE UNCHANGED vars
  BY <1>2 DEF vars, keyring, locals, historyVars, StoreInv, ReadersOnlyRead, GenerationsFit,
     SaveFits, NothingIsLeft, Named
<1> QED
  BY <1>1, <1>2, PersistStep, OwnerStep, ReadersSpare DEF Next, Procs

(* The invariant of the keyring. *)
THEOREM KeyringIsSound ==
  ASSUME ~OldService \/ MigratesLocked
  PROVE  Spec => []KeyringInv
<1>1. Init => StoreInv /\ NothingIsLeft
  <2> SUFFICES ASSUME Init PROVE StoreInv /\ NothingIsLeft
    OBVIOUS
  <2>1. PICK g \in Generations :
          \/ /\ manifest = NoManifest /\ chunks = {}
             /\ content = [h \in Generations |-> NoSecret]
          \/ /\ manifest = [active |-> g, previous |-> None] /\ chunks = ChunksOf(g)
             /\ content = [h \in Generations |-> IF h = g THEN 1 ELSE NoSecret]
    BY DEF Init
  <2>2. /\ pc[Owner] = "idle" /\ gen[Owner] = None /\ ~faulted
        /\ \A p \in Readers : pc[p] = "idle" /\ gen[p] = None
        /\ OldService \/ legacy = NoSecret
    BY DEF Init, Procs
  <2>3. ReadersOnlyRead /\ SaveFits
    BY <2>2 DEF ReadersOnlyRead, SaveFits, Persisting, Committed
  <2>4. GenerationsFit
    BY <2>1, ChunksApart DEF GenerationsFit, NoManifest, NoSecret
  <2>5. NothingIsLeft
    BY <2>1, <2>2 DEF NothingIsLeft, Named
  <2> QED BY <2>3, <2>4, <2>5 DEF StoreInv
<1>2. TypeOK /\ TypeOK' /\ StoreInv /\ NothingIsLeft /\ [Next]_vars => StoreInv' /\ NothingIsLeft'
  BY StoreStep
<1>3. StoreInv /\ NothingIsLeft => KeyringInv
  BY DEF StoreInv, KeyringInv
<1> QED
  BY <1>1, <1>2, <1>3, TypeCorrect, PTL DEF Spec

(* As long as no keyring call fails and the process does not stop, no chunk  *)
(* is left behind that nobody knows of.                                      *)
THEOREM NothingIsOrphaned ==
  ASSUME ~OldService \/ MigratesLocked
  PROVE  Spec => []NoOrphanChunks
<1>1. KeyringInv => NoOrphanChunks
  BY DEF KeyringInv, NothingIsLeft, Named, NoOrphanChunks, Procs
<1> QED
  BY <1>1, KeyringIsSound, PTL

-----------------------------------------------------------------------------
(* The store is a register.                                                *)

Candidates == {value[p] : p \in {q \in Procs : pc[q] \in Persisting}}
Erasing == pc[Owner] \in Deletes
registerState == <<Durable, legacy, Candidates, Erasing>>

(* Only the owner's sign-in may be about to take effect. *)
LEMMA OwnerIsCandidate ==
  ASSUME ReadersOnlyRead, ReadersOnlyRead'
  PROVE  /\ Candidates = IF pc[Owner] \in Persisting THEN {value[Owner]} ELSE {}
         /\ Candidates' = IF pc'[Owner] \in Persisting THEN {value'[Owner]} ELSE {}
<1>1. \A p \in Procs : p # Owner => pc[p] \notin Persisting /\ pc'[p] \notin Persisting
  BY DEF Procs, ReadersOnlyRead, Persisting
<1>2. Owner \in Procs
  BY DEF Procs
<1>3. {q \in Procs : pc[q] \in Persisting} = IF pc[Owner] \in Persisting THEN {Owner} ELSE {}
  BY <1>1, <1>2
<1>4. {q \in Procs : pc'[q] \in Persisting} = IF pc'[Owner] \in Persisting THEN {Owner} ELSE {}
  BY <1>1, <1>2
<1>5. Candidates = IF pc[Owner] \in Persisting THEN {value[Owner]} ELSE {}
  BY <1>3 DEF Candidates
<1>6. Candidates' = IF pc'[Owner] \in Persisting THEN {value'[Owner]} ELSE {}
  BY <1>4 DEF Candidates
<1> QED BY <1>5, <1>6

(* What a load would return depends on the manifest, the chunks it names and *)
(* the old entry.                                                            *)
LEMMA DurableStays ==
  ASSUME UNCHANGED <<manifest, legacy>>,
         manifest # NoManifest =>
           /\ content'[manifest.active] = content[manifest.active]
           /\ ChunksOf(manifest.active) \cap chunks' = ChunksOf(manifest.active) \cap chunks
  PROVE  Durable' = Durable
BY DEF Durable

(* The steps of the register, in the store's terms. *)
RegisterStep ==
    \/ UNCHANGED registerState
    \/ \E v \in 0 .. MaxVersion :
         \/ Candidates' = Candidates \cup {v} /\ UNCHANGED <<Durable, legacy, Erasing>>
         \/ Candidates' = Candidates \ {v} /\ UNCHANGED <<Durable, legacy, Erasing>>
         \/ /\ v \in Candidates /\ Durable' = v /\ Candidates' = Candidates \ {v}
            /\ UNCHANGED <<legacy, Erasing>>
    \/ ~Erasing /\ Erasing' /\ UNCHANGED <<Durable, legacy, Candidates>>
    \/ Erasing /\ ~Erasing' /\ UNCHANGED <<Durable, legacy, Candidates>>
    \/ /\ Erasing /\ Durable' \in {NoSecret, legacy} /\ legacy' \in {NoSecret, legacy}
       /\ UNCHANGED <<Candidates, Erasing>>
    \/ legacy' = NoSecret /\ UNCHANGED <<Durable, Candidates, Erasing>>
    \/ Candidates' = {} /\ ~Erasing' /\ UNCHANGED <<Durable, legacy>>

(* Each of them is one of its actions, or changes nothing of it. *)
LEMMA RegisterSteps == RegisterStep => [Register!RegisterNext]_(Register!registerVars)
<1> SUFFICES ASSUME RegisterStep PROVE [Register!RegisterNext]_(Register!registerVars)
  OBVIOUS
<1> USE DEF Candidates, Erasing, Register!RegisterNext
<1>1. CASE UNCHANGED registerState
  BY <1>1 DEF registerState, Register!registerVars
<1>2. ASSUME NEW v \in 0 .. MaxVersion,
             Candidates' = Candidates \cup {v}, UNCHANGED <<Durable, legacy, Erasing>>
      PROVE  Register!RegisterNext
  BY <1>2 DEF Register!Start, Register!Stored
<1>3. ASSUME NEW v \in 0 .. MaxVersion,
             Candidates' = Candidates \ {v}, UNCHANGED <<Durable, legacy, Erasing>>
      PROVE  Register!RegisterNext
  BY <1>3 DEF Register!Abandon, Register!Stored
<1>4. ASSUME NEW v \in 0 .. MaxVersion, v \in Candidates, Durable' = v,
             Candidates' = Candidates \ {v}, UNCHANGED <<legacy, Erasing>>
      PROVE  Register!RegisterNext
  BY <1>4 DEF Register!TakeEffect, Register!Stored
<1>5. CASE ~Erasing /\ Erasing' /\ UNCHANGED <<Durable, legacy, Candidates>>
  BY <1>5 DEF Register!StartErasing
<1>6. CASE Erasing /\ ~Erasing' /\ UNCHANGED <<Durable, legacy, Candidates>>
  BY <1>6 DEF Register!StopErasing
<1>7. CASE /\ Erasing /\ Durable' \in {NoSecret, legacy} /\ legacy' \in {NoSecret, legacy}
           /\ UNCHANGED <<Candidates, Erasing>>
  BY <1>7 DEF Register!Erase, Register!NoSecret, NoSecret
<1>8. CASE legacy' = NoSecret /\ UNCHANGED <<Durable, Candidates, Erasing>>
  BY <1>8 DEF Register!DropShadow, Register!NoSecret, NoSecret
<1>9. CASE Candidates' = {} /\ ~Erasing' /\ UNCHANGED <<Durable, legacy>>
  BY <1>9 DEF Register!Stop
<1> HIDE DEF Candidates, Erasing, Register!RegisterNext
<1> QED BY <1>1, <1>2, <1>3, <1>4, <1>5, <1>6, <1>7, <1>8, <1>9 DEF RegisterStep

(* Every step of the store is one of the register, or changes nothing of it. *)
LEMMA StepIsRegisterStep ==
  ASSUME TypeOK, NamesAreReal, TypeOK', NamesAreReal', StoreInv, StoreInv',
         ~OldService \/ MigratesLocked, [Next]_vars
  PROVE  RegisterStep
<1>0. /\ manifest \in Manifests /\ legacy \in 0 .. MaxVersion
      /\ pc \in [Procs -> {"idle"} \cup Persisting \cup Committed \cup Loads \cup Deletes]
      /\ gen \in [Procs -> Generations \cup {None}] /\ seen \in [Procs -> Manifests]
      /\ value \in [Procs -> 0 .. MaxVersion] /\ value' \in [Procs -> 0 .. MaxVersion]
      /\ chunks \subseteq Generations \X (1 .. ChunkCount)
      /\ Owner \in Procs
  BY VersionAssumption DEF TypeOK, Procs, Versions, NoSecret
<1>inv. /\ ReadersOnlyRead /\ GenerationsFit /\ SaveFits /\ ReadersOnlyRead'
        /\ NamesAreReal
  BY DEF StoreInv
<1>cand. /\ Candidates = IF pc[Owner] \in Persisting THEN {value[Owner]} ELSE {}
         /\ Candidates' = IF pc'[Owner] \in Persisting THEN {value'[Owner]} ELSE {}
  BY <1>inv, OwnerIsCandidate
<1> USE DEF Erasing
(* The store stays as it is. *)
<1>1. ASSUME UNCHANGED keyring, pc[Owner] \notin Persisting, pc'[Owner] \notin Persisting,
             pc[Owner] \in Deletes <=> pc'[Owner] \in Deletes
      PROVE  RegisterStep
  BY <1>1, <1>cand, DurableStays DEF RegisterStep, registerState, keyring
<1>2. ASSUME UNCHANGED <<manifest, legacy>>, pc[Owner] \in Persisting,
             pc'[Owner] \in Persisting, value'[Owner] = value[Owner],
             manifest # NoManifest =>
               /\ content'[manifest.active] = content[manifest.active]
               /\ ChunksOf(manifest.active) \cap chunks'
                    = ChunksOf(manifest.active) \cap chunks
      PROVE  RegisterStep
  <2>1. Durable' = Durable
    BY <1>2, DurableStays
  <2>2. Candidates' = Candidates
    BY <1>2, <1>cand
  <2>3. ~Erasing /\ ~Erasing'
    BY <1>2 DEF Persisting, Deletes
  <2> QED BY <1>2, <2>1, <2>2, <2>3 DEF RegisterStep, registerState
(* A save starts, or gives up. *)
<1>3. ASSUME UNCHANGED keyring, pc[Owner] \in {"idle", "entry"}, pc'[Owner] \in Persisting
      PROVE  RegisterStep
  <2>1. Durable' = Durable /\ legacy' = legacy
    BY <1>3, DurableStays DEF keyring
  <2>2. Candidates' = Candidates \cup {value'[Owner]} /\ value'[Owner] \in 0 .. MaxVersion
    BY <1>0, <1>3, <1>cand DEF Persisting
  <2>3. ~Erasing /\ ~Erasing'
    BY <1>3 DEF Persisting, Deletes
  <2> QED BY <2>1, <2>2, <2>3 DEF RegisterStep
<1>4. ASSUME UNCHANGED <<manifest, legacy>>, pc[Owner] \in Persisting, PersistFails(Owner),
             manifest # NoManifest =>
               /\ content'[manifest.active] = content[manifest.active]
               /\ ChunksOf(manifest.active) \cap chunks'
                    = ChunksOf(manifest.active) \cap chunks
      PROVE  RegisterStep
  <2>1. Durable' = Durable
    BY <1>4, DurableStays
  <2>2. pc'[Owner] \in {"idle", "check"}
    BY <1>4, FailureLeavesSave
  <2>3. Candidates' = Candidates \ {value[Owner]} /\ value[Owner] \in 0 .. MaxVersion
    BY <1>0, <1>4, <1>cand, <2>2 DEF Persisting
  <2>4. ~Erasing /\ ~Erasing'
    BY <1>4, <2>2 DEF Persisting, Deletes
  <2> QED BY <1>4, <2>1, <2>3, <2>4 DEF RegisterStep
(* The steps of a save. *)
<1>5. CASE ReadManifest(Owner)
  <2>1. UNCHANGED keyring /\ pc[Owner] = "manifest"
    BY <1>5 DEF ReadManifest, At
  <2>2. \/ PersistFails(Owner)
        \/ pc'[Owner] \in {"write", "purge"} /\ UNCHANGED value
    BY <1>0, <1>5 DEF ReadManifest, Goto
  <2> QED BY <1>2, <1>4, <2>1, <2>2 DEF keyring, Persisting
<1>6. CASE PurgePrevious(Owner)
  <2>1. /\ UNCHANGED <<manifest, legacy, content>> /\ pc[Owner] = "purge"
        /\ seen[Owner] = manifest /\ manifest.active \in Generations \cup {None}
        /\ manifest.previous \in Generations \cup {None}
    BY <1>0, <1>6, <1>inv DEF PurgePrevious, SaveFits, At, Manifests
  <2>2. PICK left \in Remaining(ChunksOf(manifest.previous)) :
          DeleteChunks(ChunksOf(manifest.previous), left)
    BY <1>6, <2>1 DEF PurgePrevious
  <2>3. manifest # NoManifest =>
          ChunksOf(manifest.active) \cap chunks' = ChunksOf(manifest.active) \cap chunks
    <3> SUFFICES ASSUME manifest # NoManifest
                 PROVE  ChunksOf(manifest.active) \cap chunks'
                          = ChunksOf(manifest.active) \cap chunks
      OBVIOUS
    <3>1. manifest.active # manifest.previous
      BY <1>inv, NoneAssumption DEF GenerationsFit, NamesAreReal
    <3> QED BY <2>1, <2>2, <3>1, DeletesOwn
  <2>4. \/ PersistFails(Owner)
        \/ pc'[Owner] = "write" /\ UNCHANGED value
    BY <1>0, <1>6 DEF PurgePrevious, Goto, KeepLocals
  <2> QED BY <1>2, <1>4, <2>1, <2>3, <2>4 DEF Persisting
<1>7. CASE WriteFirst(Owner) \/ WriteNext(Owner)
  <2>1. /\ UNCHANGED <<manifest, legacy, value>> /\ pc[Owner] = "write"
        /\ pc'[Owner] \in {"write", "commit"}
    BY <1>0, <1>7 DEF WriteFirst, WriteNext, At, Goto, KeepLocals
  <2>2. PICK g \in Generations, i \in 1 .. ChunkCount :
          /\ g # manifest.active
          /\ \A h \in Generations : h # g => content'[h] = content[h]
          /\ chunks' = chunks \cup {<<g, i>>}
    <3>1. CASE WriteFirst(Owner)
      <4>1. PICK g \in Generations : /\ content[g] = NoSecret
                                     /\ content' = [content EXCEPT ![g] = value[Owner]]
                                     /\ chunks' = chunks \cup {<<g, 1>>}
        BY <3>1 DEF WriteFirst, Used
      <4>2. g # manifest.active
        BY <1>inv, <4>1, NoneAssumption DEF GenerationsFit
      <4> QED BY <4>1, <4>2, ChunkAssumption DEF TypeOK
    <3>2. CASE WriteNext(Owner)
      <4>1. gen[Owner] \in Generations /\ gen[Owner] # manifest.active
        BY <1>0, <1>inv, <2>1, <3>2 DEF SaveFits, WriteNext
      <4>2. PICK i \in 2 .. ChunkCount : chunks' = chunks \cup {<<gen[Owner], i>>}
        BY <3>2 DEF WriteNext
      <4>3. UNCHANGED content /\ i \in 1 .. ChunkCount
        BY <3>2, ChunkAssumption DEF WriteNext
      <4> QED BY <4>1, <4>2, <4>3
    <3> QED BY <1>7, <3>1, <3>2
  <2>3. manifest # NoManifest =>
          /\ content'[manifest.active] = content[manifest.active]
          /\ ChunksOf(manifest.active) \cap chunks' = ChunksOf(manifest.active) \cap chunks
    <3>1. manifest # NoManifest => manifest.active \in Generations
      BY <1>0, <1>inv DEF NamesAreReal, Manifests
    <3>2. <<g, i>> \in ChunksOf(g) /\ <<g, i>> \notin ChunksOf(manifest.active)
      BY <2>2, NoneAssumption DEF ChunksOf
    <3> QED BY <2>2, <3>1, <3>2
  <2> QED BY <1>2, <2>1, <2>3 DEF Persisting
<1>8. CASE WriteFails(Owner)
  <2>1. /\ UNCHANGED <<manifest, legacy, content>> /\ pc[Owner] \in {"write", "commit"}
        /\ PersistFails(Owner) /\ gen[Owner] \in Generations \cup {None}
        /\ manifest.active \in Generations \cup {None}
    BY <1>0, <1>8 DEF WriteFails, At, Manifests
  <2>2. PICK left \in Remaining(ChunksOf(gen[Owner])) :
          DeleteChunks(ChunksOf(gen[Owner]), left)
    BY <1>8 DEF WriteFails
  <2>3. manifest # NoManifest =>
          ChunksOf(manifest.active) \cap chunks' = ChunksOf(manifest.active) \cap chunks
    <3> SUFFICES ASSUME manifest # NoManifest
                 PROVE  ChunksOf(manifest.active) \cap chunks'
                          = ChunksOf(manifest.active) \cap chunks
      OBVIOUS
    <3>1. manifest.active # gen[Owner]
      BY <1>inv, <2>1 DEF SaveFits, NamesAreReal
    <3> QED BY <2>1, <2>2, <3>1, DeletesOwn
  <2> QED BY <1>4, <2>1, <2>3 DEF Persisting
(* It takes effect when the manifest is written. *)
<1>9. CASE Commit(Owner)
  <2>1. /\ UNCHANGED <<legacy, chunks, content>> /\ pc[Owner] = "commit"
        /\ pc'[Owner] \in {"done", "drop"}
        /\ manifest' = [active |-> gen[Owner], previous |-> manifest.active]
        /\ gen[Owner] # None /\ ChunksOf(gen[Owner]) \subseteq chunks
        /\ content[gen[Owner]] = value[Owner]
    BY <1>0, <1>9, <1>inv DEF Commit, SaveFits, At, Goto
  <2>2. Durable' = value[Owner]
    BY <2>1 DEF Durable, NoManifest
  <2>3. /\ value[Owner] \in Candidates /\ value[Owner] \in 0 .. MaxVersion
        /\ Candidates' = Candidates \ {value[Owner]}
    BY <1>0, <1>cand, <2>1 DEF Persisting
  <2>4. ~Erasing /\ ~Erasing'
    BY <2>1 DEF Deletes
  <2> QED BY <2>1, <2>2, <2>3, <2>4 DEF RegisterStep
<1>10. CASE DropPrevious(Owner)
  <2>1. /\ UNCHANGED <<manifest, legacy, content>> /\ pc[Owner] = "drop"
        /\ pc'[Owner] \in {"clean", "done"} /\ seen[Owner].active = manifest.previous
        /\ manifest.previous \in Generations \cup {None}
        /\ manifest.active \in Generations /\ manifest.active # manifest.previous
    <3>1. /\ UNCHANGED <<manifest, legacy, content>> /\ pc[Owner] = "drop"
          /\ pc'[Owner] \in {"clean", "done"}
      BY <1>0, <1>10 DEF DropPrevious, At, Goto
    <3>2. /\ seen[Owner].active = manifest.previous
          /\ gen[Owner] # None /\ manifest.active = gen[Owner]
      BY <1>inv, <3>1 DEF SaveFits, Committed
    <3> QED BY <1>0, <1>inv, <3>1, <3>2 DEF Manifests, GenerationsFit
  <2>2. PICK left \in Remaining(ChunksOf(manifest.previous)) :
          DeleteChunks(ChunksOf(manifest.previous), left)
    BY <1>10, <2>1 DEF DropPrevious
  <2>3. ChunksOf(manifest.active) \cap chunks' = ChunksOf(manifest.active) \cap chunks
    BY <2>1, <2>2, DeletesOwn
  <2>4. Durable' = Durable
    BY <2>1, <2>3, DurableStays
  <2>5. Candidates' = Candidates
    BY <1>cand, <2>1 DEF Persisting
  <2>6. ~Erasing /\ ~Erasing'
    BY <2>1 DEF Deletes
  <2> QED BY <2>1, <2>4, <2>5, <2>6 DEF RegisterStep, registerState
<1>11. CASE CleanManifest(Owner)
  <2>1. /\ UNCHANGED <<legacy, chunks, content>> /\ pc[Owner] = "clean" /\ pc'[Owner] = "done"
        /\ manifest.active = gen[Owner] /\ gen[Owner] # None
        /\ manifest' \in {manifest, [active |-> gen[Owner], previous |-> None]}
    BY <1>0, <1>11, <1>inv DEF CleanManifest, SaveFits, Committed, At, Goto
  <2>2. Durable' = Durable
    BY <2>1 DEF Durable, NoManifest
  <2>3. Candidates' = Candidates
    BY <1>cand, <2>1 DEF Persisting
  <2>4. ~Erasing /\ ~Erasing'
    BY <2>1 DEF Deletes
  <2> QED BY <2>1, <2>2, <2>3, <2>4 DEF RegisterStep, registerState
(* Loads, and what happens to the cache. *)
<1>12. CASE Load(Owner)
  <2>1. UNCHANGED keyring /\ pc[Owner] = "idle" /\ pc'[Owner] = "entry"
    BY <1>0, <1>12 DEF Load, At, Goto
  <2> QED BY <1>1, <2>1 DEF Persisting, Deletes
<1>13. CASE ReadEntry(Owner)
  <2>1. /\ UNCHANGED keyring /\ pc[Owner] = "entry"
        /\ pc'[Owner] \in {"fetch", "manifest", "idle"}
    BY <1>0, <1>13 DEF ReadEntry, At, Goto, Leave
  <2> QED BY <1>1, <1>3, <2>1 DEF Persisting, Deletes
<1>14. CASE ReadGeneration(Owner) \/ CheckCache(Owner) \/ Remember(Owner)
  <2>1. /\ UNCHANGED keyring /\ pc[Owner] \in {"fetch", "check", "insert"}
        /\ pc'[Owner] \in {"check", "insert", "idle"}
    BY <1>0, <1>14 DEF ReadGeneration, CheckCache, Remember, At, Goto, Leave
  <2> QED BY <1>1, <2>1 DEF Persisting, Deletes
<1>15. CASE DeleteLegacy(Owner)
  <2>1. /\ UNCHANGED <<manifest, chunks, content>> /\ pc[Owner] = "done"
        /\ pc'[Owner] = "check" /\ legacy' \in {NoSecret, legacy}
        /\ manifest.active # None
    BY <1>0, <1>15, <1>inv DEF DeleteLegacy, At, Goto, SaveFits, Committed
  <2>2. Durable' = Durable
    BY <2>1 DEF Durable, NoManifest
  <2>3. Candidates' = Candidates
    BY <1>cand, <2>1 DEF Persisting
  <2>4. ~Erasing /\ ~Erasing'
    BY <2>1 DEF Deletes
  <2> QED BY <2>1, <2>2, <2>3, <2>4 DEF RegisterStep, registerState
<1>16. CASE Save
  <2>1. UNCHANGED keyring /\ pc[Owner] = "idle" /\ pc'[Owner] = "manifest"
    BY <1>0, <1>16 DEF Save, At, Goto
  <2> QED BY <1>3, <2>1 DEF Persisting
<1>17. CASE MarkClean \/ Expire
  <2>1. CASE MarkClean
    <3>1. UNCHANGED keyring /\ pc[Owner] = "done" /\ pc'[Owner] = "idle"
      BY <1>0, <2>1 DEF MarkClean, At, Goto, Leave
    <3> QED BY <1>1, <3>1 DEF Persisting, Deletes
  <2>2. CASE Expire
    BY <2>2, DurableStays
    DEF Expire, keyring, locals, RegisterStep, registerState, Candidates
  <2> QED BY <1>17, <2>1, <2>2
(* Deletions. *)
<1>18. CASE Delete
  <2>1. UNCHANGED keyring /\ pc[Owner] = "idle" /\ pc'[Owner] = "erase"
    BY <1>0, <1>18 DEF Delete, At, Goto
  <2>2. Durable' = Durable /\ legacy' = legacy
    BY <2>1, DurableStays DEF keyring
  <2>3. Candidates' = Candidates /\ ~Erasing /\ Erasing'
    BY <1>cand, <2>1 DEF Persisting, Deletes
  <2> QED BY <2>2, <2>3 DEF RegisterStep
<1>19. CASE EraseReads
  <2>1. UNCHANGED keyring /\ pc[Owner] = "erase" /\ pc'[Owner] = "eraseChunks"
    BY <1>0, <1>19 DEF EraseReads, At, Goto
  <2> QED BY <1>1, <2>1 DEF Persisting, Deletes
<1>20. CASE EraseChunks \/ EraseEntry \/ EraseOldEntry
  <2>1. /\ pc[Owner] \in Deletes /\ pc'[Owner] \in Deletes
        /\ UNCHANGED content /\ chunks' \subseteq chunks
        /\ \/ UNCHANGED <<manifest, legacy>>
           \/ manifest' = NoManifest /\ UNCHANGED legacy
           \/ UNCHANGED <<manifest, chunks>> /\ legacy' = NoSecret
    BY <1>0, <1>20
    DEF EraseChunks, EraseEntry, EraseOldEntry, At, Goto, DeleteChunks, Remaining, Deletes
  <2>2. Candidates' = Candidates
    BY <1>cand, <2>1 DEF Persisting, Deletes
  <2>3. CASE UNCHANGED <<manifest, legacy>>
    <3>1. Durable' \in {NoSecret, Durable}
      BY <2>1, <2>3 DEF Durable
    <3> QED BY <2>1, <2>2, <2>3, <3>1 DEF RegisterStep, registerState
  <2>4. CASE manifest' = NoManifest /\ UNCHANGED legacy
    <3>1. Durable' = legacy
      BY <2>4 DEF Durable
    <3> QED BY <2>1, <2>2, <2>4, <3>1 DEF RegisterStep
  <2>5. CASE UNCHANGED <<manifest, chunks>> /\ legacy' = NoSecret
    <3>1. Durable' \in {NoSecret, Durable}
      BY <2>1, <2>5 DEF Durable
    <3> QED BY <2>1, <2>2, <2>5, <3>1 DEF RegisterStep
  <2> QED BY <2>1, <2>3, <2>4, <2>5
<1>21. CASE Forget
  <2>1. UNCHANGED keyring /\ pc[Owner] = "forget" /\ pc'[Owner] = "idle"
    BY <1>0, <1>21 DEF Forget, At, Goto, Leave
  <2>2. Durable' = Durable /\ legacy' = legacy
    BY <2>1, DurableStays DEF keyring
  <2>3. Candidates' = Candidates /\ Erasing /\ ~Erasing'
    BY <1>cand, <2>1 DEF Persisting, Deletes
  <2> QED BY <2>2, <2>3 DEF RegisterStep
(* The process stops. *)
<1>22. CASE Crash
  <2>1. UNCHANGED keyring /\ pc'[Owner] = "idle"
    BY <1>0, <1>22 DEF Crash
  <2>2. Durable' = Durable /\ legacy' = legacy
    BY <2>1, DurableStays DEF keyring
  <2>3. Candidates' = {} /\ ~Erasing'
    BY <1>cand, <2>1 DEF Persisting, Deletes
  <2> QED BY <2>2, <2>3 DEF RegisterStep
(* Readers change nothing of it. *)
<1>23. ASSUME NEW p \in Readers,
              \/ Persist(p) \/ Load(p) \/ ReadEntry(p) \/ ReadGeneration(p)
              \/ DeleteLegacy(p) \/ CheckCache(p) \/ Remember(p)
       PROVE  RegisterStep
  <2>1. UNCHANGED keyring /\ pc'[Owner] = pc[Owner] /\ value'[Owner] = value[Owner]
    BY <1>0, <1>23, <1>inv, ReaderSteps, OwnerAssumption
  <2>2. Durable' = Durable /\ legacy' = legacy
    BY <2>1, DurableStays DEF keyring
  <2>3. Candidates' = Candidates /\ (Erasing' <=> Erasing)
    BY <1>cand, <2>1
  <2> QED BY <2>2, <2>3 DEF RegisterStep, registerState
<1>24. CASE UNCHANGED vars
  BY <1>24, DurableStays
     DEF vars, keyring, locals, RegisterStep, registerState, Candidates
<1> QED
  BY <1>5, <1>6, <1>7, <1>8, <1>9, <1>10, <1>11, <1>12, <1>13, <1>14, <1>15, <1>16, <1>17,
     <1>18, <1>19, <1>20, <1>21, <1>22, <1>23, <1>24
  DEF Next, Persist, Procs

(* The stored sign-in is a register: a save replaces it in one step or not   *)
(* at all, a crash leaves it as it is, and only a deletion makes it          *)
(* unreadable.                                                               *)
THEOREM StoreIsRegister ==
  ASSUME ~OldService \/ MigratesLocked
  PROVE  Spec => IsRegister
<1>1. Init => Register!RegisterInit
  <2> SUFFICES ASSUME Init PROVE Register!RegisterInit
    OBVIOUS
  <2>1. legacy \in {NoSecret, 1} /\ (manifest # NoManifest => legacy = NoSecret)
    BY DEF Init
  <2>2. Durable \in 0 .. MaxVersion /\ legacy \in {NoSecret, Durable}
    <3>1. CASE manifest = NoManifest
      BY <2>1, <3>1, VersionAssumption DEF Durable, NoSecret
    <3>2. CASE manifest # NoManifest
      <4>1. PICK g \in Generations :
              /\ manifest.active = g
              /\ content = [h \in Generations |-> IF h = g THEN 1 ELSE NoSecret]
        BY <3>2 DEF Init
      <4>2. Durable \in {1, NoSecret}
        BY <3>2, <4>1 DEF Durable
      <4> QED BY <2>1, <3>2, <4>2, VersionAssumption DEF NoSecret
    <3> QED BY <3>1, <3>2
  <2>3. \A p \in Procs : pc[p] = "idle"
    BY DEF Init
  <2>4. Candidates = {} /\ ~Erasing
    BY <2>3 DEF Candidates, Erasing, Persisting, Deletes, Procs
  <2> QED
    BY <2>2, <2>4
    DEF Register!RegisterInit, Register!Stored, Register!NoSecret, NoSecret, Candidates, Erasing
<1>2. /\ TypeOK /\ NamesAreReal /\ StoreInv /\ TypeOK' /\ NamesAreReal' /\ StoreInv'
      /\ [Next]_vars
      => [Register!RegisterNext]_(Register!registerVars)
  BY StepIsRegisterStep, RegisterSteps
<1>3. KeyringInv => StoreInv
  BY DEF KeyringInv, StoreInv
<1> QED
  BY <1>1, <1>2, <1>3, KeyringIsSound, NamesCorrect, PTL
  DEF Spec, IsRegister, Register!RegisterSpec
=============================================================================
