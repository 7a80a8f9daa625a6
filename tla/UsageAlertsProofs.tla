-------------------------- MODULE UsageAlertsProofs --------------------------
(***************************************************************************)
(* What UsageAlerts keeps in every instance, whatever the texts of the     *)
(* reset times and however many windows an alert has: its types, that a    *)
(* mark is accounted for, and that an alert is told again only for a       *)
(* reason.                                                                 *)
(***************************************************************************)
EXTENDS UsageAlerts, FiniteSetTheorems, TLAPS

(* The key of a window's alert names the window; an older version's names none. *)
LEMMA KeyFacts ==
  ASSUME TypeOK, NEW usage \in Usages, NEW w \in Windows
  PROVE  /\ KeyOf(usage, w) \in Keys /\ KeyOf(usage, w).id = w
         /\ Legacy(KeyOf(usage, w)) \subseteq {key \in Keys : key.id = "any"}
<1>1. /\ usage[w].text \in Texts /\ memory.threshold \in Thresholds
  BY DEF TypeOK, Usages, Settings
<1> QED BY <1>1 DEF KeyOf, Key, Keys, Legacy

(* What an evaluation marks is not marked yet; what it forgets of the alerts  *)
(* told are those that may be told again.                                     *)
LEMMA MarksFit ==
  ASSUME TypeOK, NEW usage \in Usages, NEW late \in SUBSET DueLater(usage)
  PROVE  LET marked == Marks(usage, Due(usage) \cup late)
         IN  /\ marked \subseteq Keys /\ marked \cap memory.keys = {}
             /\ \A key \in marked : key.id \in Windows
             /\ \A key \in Forgotten(usage) : (memory.on /\ key.id \in Windows) => key \in High(usage)
<1>1. \A w \in Due(usage) \cup late : w \in Windows /\ KeyOf(usage, w) \notin memory.keys
  BY DEF Due, DueLater, Announced
<1>2. \A key \in Forgotten(usage) : (memory.on /\ key.id \in Windows) => key \in High(usage)
  <2> SUFFICES ASSUME NEW w \in Windows, IsHigh(usage, w),
                      NEW key \in IF KeyOf(usage, w) \in memory.keys THEN {KeyOf(usage, w)}
                                  ELSE Legacy(KeyOf(usage, w)),
                      memory.on, key.id \in Windows
               PROVE  key \in High(usage)
    BY DEF Forgotten
  <2>1. key = KeyOf(usage, w)
    BY KeyFacts, AlertsAssumption
  <2> QED BY <2>1 DEF High
<1> QED BY <1>1, <1>2, KeyFacts DEF Marks

-----------------------------------------------------------------------------
(* The steps: one lemma for the evaluation, which both processes make, and   *)
(* one for what happens to a notification.                                   *)

LEMMA EvaluateStep ==
  ASSUME TypeOK, AlertInv, NEW p \in Processes, NEW usage \in Usages, Evaluate(p, usage)
  PROVE  TypeOK' /\ AlertInv'
<1> USE DEF store, saveVars, history
<1>1. PICK late \in SUBSET DueLater(usage) :
        LET marked == Marks(usage, Due(usage) \cup late)
            keys == (memory.keys \ Forgotten(usage)) \cup marked
            before == IF usage = reading THEN told \ High(usage) ELSE told
            lost == IF usage = reading THEN overtaken ELSE overtaken \cup High(usage)
        IN /\ step[p] = "evaluate"
           /\ \/ /\ ~memory.on \/ keys = memory.keys
                 /\ step' = [step EXCEPT ![p] = "idle"] /\ told' = before /\ overtaken' = lost
                 /\ UNCHANGED <<store, batch, repeated, delivered, excused, faults>>
              \/ /\ memory.on /\ keys # memory.keys
                 /\ memory' = [memory EXCEPT !.keys = keys] /\ disk' = memory'
                 /\ batch' = [batch EXCEPT ![p] = marked]
                 /\ step' = [step EXCEPT ![p] = "show"]
                 /\ told' = before \cup marked /\ overtaken' = lost \ marked
                 /\ repeated' = (repeated \/ (before \ lost) \cap marked # {})
                 /\ delivered' = delivered \ marked /\ excused' = excused \ marked
                 /\ UNCHANGED faults
              \/ /\ memory.on /\ keys # memory.keys
                 /\ faults < MaxFaults /\ faults' = faults + 1
                 /\ memory' = [memory EXCEPT !.keys = keys]
                 /\ step' = [step EXCEPT ![p] = "idle"] /\ told' = before /\ overtaken' = lost
                 /\ delivered' = delivered \ marked /\ excused' = excused \cup marked
                 /\ UNCHANGED <<disk, batch, repeated>>
           /\ UNCHANGED <<platform, window, reading, readings, saveVars, queue, posting>>
  BY DEF Evaluate
<1> DEFINE marked == Marks(usage, Due(usage) \cup late)
           keys == (memory.keys \ Forgotten(usage)) \cup marked
           before == IF usage = reading THEN told \ High(usage) ELSE told
           lost == IF usage = reading THEN overtaken ELSE overtaken \cup High(usage)
<1>2. /\ marked \subseteq Keys /\ marked \cap memory.keys = {}
      /\ \A key \in marked : key.id \in Windows
      /\ \A key \in Forgotten(usage) : (memory.on /\ key.id \in Windows) => key \in High(usage)
  BY MarksFit
<1>3. /\ before \subseteq told /\ lost \subseteq Keys
      /\ before \ lost \subseteq told \ overtaken
      /\ (before \ lost) \cap High(usage) = {}
  BY KeyFacts DEF High, TypeOK
<1>3a. /\ (before \ lost) \cap marked = {}
       /\ memory.on => before \ lost \subseteq keys
  BY <1>2, <1>3 DEF AlertInv, ToldIsMarked
<1>4. /\ step[p] = "evaluate" /\ batch[p] = {}
      /\ UNCHANGED <<platform, window, reading, readings, fetched, wanted, existing, saves,
                     queue, posting>>
  BY <1>1 DEF AlertInv, BatchFits
<1> HIDE DEF marked, keys, before, lost
<1>5. CASE /\ step' = [step EXCEPT ![p] = "idle"] /\ told' = before /\ overtaken' = lost
           /\ UNCHANGED <<memory, disk, batch, repeated, delivered, excused, faults>>
  <2>1. TypeOK'
    BY <1>3, <1>4, <1>5 DEF TypeOK
  <2>2. MarksAreAccounted' /\ ToldIsMarked' /\ RepeatNeedsReason'
    BY <1>3, <1>3a, <1>4, <1>5
    DEF AlertInv, MarksAreAccounted, ToldIsMarked, RepeatNeedsReason, Accounted, OnItsWay
  <2>3. BatchFits'
    BY <1>4, <1>5 DEF AlertInv, BatchFits, TypeOK
  <2> QED BY <2>1, <2>2, <2>3 DEF AlertInv
<1>6. CASE /\ memory.on
           /\ memory' = [memory EXCEPT !.keys = keys] /\ disk' = memory'
           /\ batch' = [batch EXCEPT ![p] = marked]
           /\ step' = [step EXCEPT ![p] = "show"]
           /\ told' = before \cup marked /\ overtaken' = lost \ marked
           /\ repeated' = (repeated \/ (before \ lost) \cap marked # {})
           /\ delivered' = delivered \ marked /\ excused' = excused \ marked
           /\ UNCHANGED faults
  <2>1. memory' \in Settings /\ memory'.keys = keys /\ keys \subseteq memory.keys \cup marked
    BY <1>2, <1>6 DEF TypeOK, Settings, keys
  <2>2. TypeOK'
    BY <1>2, <1>3, <1>4, <1>6, <2>1 DEF TypeOK
  <2>3. \A q \in Processes : batch'[q] = IF q = p THEN marked ELSE batch[q]
    BY <1>6 DEF TypeOK
  <2>4. Accounted \cup marked \subseteq Accounted'
    BY <1>4, <1>6, <2>3 DEF Accounted, OnItsWay
  <2>5. MarksAreAccounted'
    BY <1>4, <1>6, <2>1, <2>4 DEF AlertInv, MarksAreAccounted
  <2>6. ToldIsMarked' /\ RepeatNeedsReason'
    BY <1>2, <1>3, <1>3a, <1>6, <2>1 DEF AlertInv, ToldIsMarked, RepeatNeedsReason, keys
  <2>7. BatchFits'
    BY <1>4, <1>6, <2>3 DEF AlertInv, BatchFits, TypeOK
  <2> QED BY <2>2, <2>5, <2>6, <2>7 DEF AlertInv
<1>7. CASE /\ memory.on
           /\ faults < MaxFaults /\ faults' = faults + 1
           /\ memory' = [memory EXCEPT !.keys = keys]
           /\ step' = [step EXCEPT ![p] = "idle"] /\ told' = before /\ overtaken' = lost
           /\ delivered' = delivered \ marked /\ excused' = excused \cup marked
           /\ UNCHANGED <<disk, batch, repeated>>
  <2>1. memory' \in Settings /\ memory'.keys = keys /\ keys \subseteq memory.keys \cup marked
    BY <1>2, <1>7 DEF TypeOK, Settings, keys
  <2>2. TypeOK'
    BY <1>2, <1>3, <1>4, <1>7, <2>1, AlertsAssumption DEF TypeOK
  <2>3. Accounted \cup marked \subseteq Accounted'
    BY <1>4, <1>7 DEF Accounted, OnItsWay
  <2>4. MarksAreAccounted'
    BY <1>4, <1>7, <2>1, <2>3 DEF AlertInv, MarksAreAccounted
  <2>5. ToldIsMarked' /\ RepeatNeedsReason'
    BY <1>3, <1>3a, <1>7, <2>1 DEF AlertInv, ToldIsMarked, RepeatNeedsReason
  <2>6. BatchFits'
    BY <1>4, <1>7 DEF AlertInv, BatchFits, TypeOK
  <2> QED BY <2>2, <2>4, <2>5, <2>6 DEF AlertInv
<1> QED BY <1>1, <1>5, <1>6, <1>7 DEF marked, keys, before, lost

(* A notification is shown, queued, refused or dropped. *)
LEMMA EmitsStep ==
  ASSUME TypeOK, AlertInv, NEW p \in Processes, Emits(p)
  PROVE  TypeOK' /\ AlertInv'
<1> USE DEF store, saveVars, history
<1>1. PICK key \in batch[p] :
        /\ batch' = [batch EXCEPT ![p] = @ \ {key}]
        /\ \/ window /\ Shows(key) /\ UNCHANGED <<queue, excused, faults>>
           \/ /\ window /\ faults < MaxFaults /\ faults' = faults + 1
              /\ excused' = excused \cup {key} /\ UNCHANGED <<queue, history>>
           \/ /\ ~window /\ platform = "android"
              /\ Queues(key)
              /\ excused' = IF Cardinality(queue) >= QueueCap THEN excused \cup {key} ELSE excused
              /\ UNCHANGED <<history, faults>>
           \/ /\ ~window /\ platform # "android"
              /\ excused' = excused \cup {key} /\ UNCHANGED <<queue, history, faults>>
  BY DEF Emits
<1>2. /\ step[p] = "show" /\ key \in Keys
      /\ UNCHANGED <<platform, window, reading, readings, memory, disk, step, fetched, wanted,
                     existing, saves, posting>>
  BY <1>1 DEF Emits, TypeOK
<1>3. /\ UNCHANGED <<told, overtaken, repeated>>
      /\ delivered' \in {delivered, delivered \cup {key}} /\ excused' \in {excused, excused \cup {key}}
      /\ queue' \in {queue, queue \cup {key}} /\ key \in delivered' \cup excused' \cup queue'
      /\ faults' \in 0 .. MaxFaults
  <2>1. Cardinality(queue) \in Nat
    BY FS_CardinalityType DEF AlertInv, BatchFits
  <2> QED BY <1>1, <2>1, AlertsAssumption DEF Shows, Queues, TypeOK
<1>4. \A q \in Processes : batch'[q] = IF q = p THEN batch[q] \ {key} ELSE batch[q]
  BY <1>1 DEF TypeOK
<1>5. TypeOK'
  BY <1>1, <1>2, <1>3 DEF TypeOK
<1>6. Accounted \subseteq Accounted'
  <2> SUFFICES ASSUME NEW k \in Accounted PROVE k \in Accounted'
    OBVIOUS
  <2>1. CASE k = key
    BY <1>3, <2>1 DEF Accounted, OnItsWay
  <2>2. CASE k \in delivered \cup excused \cup queue \cup posting \/ (k \in Keys /\ k.id = "any")
    BY <1>2, <1>3, <2>2 DEF Accounted, OnItsWay
  <2>3. CASE k # key /\ \E q \in Processes : k \in batch[q]
    BY <1>4, <2>3 DEF Accounted, OnItsWay
  <2> QED BY <2>1, <2>2, <2>3 DEF Accounted, OnItsWay
<1>7. MarksAreAccounted' /\ ToldIsMarked' /\ RepeatNeedsReason'
  BY <1>2, <1>3, <1>6 DEF AlertInv, MarksAreAccounted, ToldIsMarked, RepeatNeedsReason
<1>8. IsFiniteSet(queue')
  BY <1>3, FS_AddElement DEF AlertInv, BatchFits
<1>9. BatchFits'
  BY <1>2, <1>4, <1>8 DEF AlertInv, BatchFits
<1> QED BY <1>5, <1>7, <1>9 DEF AlertInv

(* A save that changes nothing keeps the marks it has read, another one       *)
(* forgets what was told.                                                     *)
LEMMA SaveWritesStep ==
  ASSUME TypeOK, AlertInv, SaveWrites
  PROVE  TypeOK' /\ AlertInv'
<1> USE DEF store, saveVars, history
<1>1. /\ memory' = Setting(wanted.on, wanted.threshold, Carried)
      /\ memory' \in Settings /\ memory'.keys = Carried /\ Carried \subseteq existing.keys
  BY DEF SaveWrites, Setting, Carried, TypeOK, Settings, Choices
<1>2. ~Changes => Carried = existing.keys
  BY DEF Changes, Carried
<1>3. /\ step[Saving] = "write" /\ told' = (IF Changes THEN {} ELSE told)
      /\ overtaken' = overtaken \cup (memory.keys \ existing.keys)
      /\ disk' \in {memory', disk} /\ faults' \in 0 .. MaxFaults
      /\ step' \in {[step EXCEPT ![Saving] = "evaluate"], [step EXCEPT ![Saving] = "idle"]}
      /\ UNCHANGED <<platform, window, reading, readings, fetched, wanted, existing, saves, batch,
                     queue, posting, repeated, delivered, excused>>
  BY AlertsAssumption DEF SaveWrites, TypeOK
<1>4. TypeOK'
  <2>1. told' \subseteq Keys /\ overtaken' \subseteq Keys
    BY <1>3 DEF TypeOK, Settings
  <2>2. step' \in [Processes -> {"idle", "read", "write", "evaluate", "show"}]
    BY <1>3 DEF TypeOK, Processes
  <2> QED BY <1>1, <1>3, <2>1, <2>2 DEF TypeOK
<1>5. MarksAreAccounted' /\ RepeatNeedsReason'
  BY <1>1, <1>3
  DEF AlertInv, MarksAreAccounted, RepeatNeedsReason, Accounted, OnItsWay
<1>6. ToldIsMarked'
  BY <1>1, <1>2, <1>3 DEF AlertInv, ToldIsMarked
<1>7. BatchFits'
  BY <1>3 DEF AlertInv, BatchFits, TypeOK, Processes
<1> QED BY <1>4, <1>5, <1>6, <1>7 DEF AlertInv

(* A crash loses what is on its way, and finds the marks of the disk. *)
LEMMA CrashStep ==
  ASSUME TypeOK, AlertInv, Crash
  PROVE  TypeOK' /\ AlertInv'
<1> USE DEF store, saveVars, history
<1>1. OnItsWay \subseteq Keys
  BY DEF OnItsWay, TypeOK
<1>2. TypeOK'
  BY <1>1, AlertsAssumption DEF Crash, TypeOK
<1>3. Accounted \subseteq Accounted'
  BY DEF Crash, Accounted
<1>4. MarksAreAccounted' /\ ToldIsMarked' /\ RepeatNeedsReason'
  BY <1>3 DEF Crash, AlertInv, MarksAreAccounted, ToldIsMarked, RepeatNeedsReason
<1>5. BatchFits'
  BY FS_EmptySet DEF Crash, BatchFits
<1> QED BY <1>2, <1>4, <1>5 DEF AlertInv

(* A reading's texts are texts. *)
LEMMA ReadingStep ==
  ASSUME TypeOK, AlertInv, NewReading
  PROVE  TypeOK' /\ AlertInv'
<1> USE DEF store, saveVars, history
<1>1. readings' \in 0 .. MaxReadings /\ readings' \in Periods /\ readings' = readings + 1
  BY AlertsAssumption DEF NewReading, TypeOK, Periods
<1>2. PICK left \in [Windows -> Levels], next \in SUBSET Windows :
        reading' = [w \in Windows |->
          LET n == IF w \in next \/ reading[w].period = 0 THEN readings + 1 ELSE reading[w].period
          IN [left |-> left[w], period |-> n, text |-> ResetText(w, n, readings + 1)]]
  BY DEF NewReading
<1>3. ASSUME NEW w \in Windows
      PROVE  reading'[w] \in [left : Levels \cup {Unknown}, period : Periods, text : Texts]
  <2> DEFINE n == IF w \in next \/ reading[w].period = 0 THEN readings + 1 ELSE reading[w].period
  <2>1. n \in Periods
    BY <1>1 DEF TypeOK, Usages
  <2>2. ResetText(w, n, readings + 1) \in Texts
    BY <1>1, <2>1 DEF Texts
  <2>3. reading'[w] = [left |-> left[w], period |-> n, text |-> ResetText(w, n, readings + 1)]
    BY <1>2
  <2> QED BY <2>1, <2>2, <2>3
<1>4. reading' \in Usages
  BY <1>2, <1>3 DEF Usages
<1>5. TypeOK'
  BY <1>1, <1>4 DEF NewReading, TypeOK, Processes
<1>6. AlertInv'
  BY DEF NewReading, TypeOK, AlertInv, MarksAreAccounted, ToldIsMarked, RepeatNeedsReason,
     BatchFits, Accounted, OnItsWay, Refresh, Processes
<1> QED BY <1>5, <1>6

(* Every step keeps the types and the invariant. *)
LEMMA AlertsStep ==
  ASSUME TypeOK, AlertInv, [Next]_vars
  PROVE  TypeOK' /\ AlertInv'
<1> USE DEF store, saveVars, history
<1>1. CASE RefreshEvaluates \/ SaveEvaluates
  BY <1>1, EvaluateStep DEF RefreshEvaluates, SaveEvaluates, Processes, TypeOK
<1>2. ASSUME NEW p \in Processes, EmitEnds(p) PROVE TypeOK' /\ AlertInv'
  BY <1>2 DEF EmitEnds, TypeOK, AlertInv, MarksAreAccounted, ToldIsMarked, RepeatNeedsReason,
     BatchFits, Accounted, OnItsWay
<1>3. CASE WorkerTakes
  BY <1>3, FS_EmptySet DEF WorkerTakes, TypeOK, AlertInv, MarksAreAccounted, ToldIsMarked,
     RepeatNeedsReason, BatchFits, Accounted, OnItsWay
<1>4. CASE WorkerPosts
  BY <1>4 DEF WorkerPosts, Shows, TypeOK, AlertInv, MarksAreAccounted, ToldIsMarked,
     RepeatNeedsReason, BatchFits, Accounted, OnItsWay
<1>5. CASE SaveBegins
  <2>1. saves' \in 0 .. MaxSaves /\ wanted' \in Choices
    BY <1>5, AlertsAssumption DEF SaveBegins, TypeOK
  <2>2. TypeOK'
    BY <1>5, <2>1 DEF SaveBegins, TypeOK, Processes
  <2>3. AlertInv'
    BY <1>5 DEF SaveBegins, TypeOK, AlertInv, MarksAreAccounted, ToldIsMarked,
       RepeatNeedsReason, BatchFits, Accounted, OnItsWay, Processes
  <2> QED BY <2>2, <2>3
<1>6. CASE SaveReads
  BY <1>6 DEF SaveReads, TypeOK, AlertInv, MarksAreAccounted, ToldIsMarked, RepeatNeedsReason,
     BatchFits, Accounted, OnItsWay, Processes
<1>7. CASE WindowOpens
  BY <1>7 DEF WindowOpens, TypeOK, AlertInv, MarksAreAccounted, ToldIsMarked, RepeatNeedsReason,
     BatchFits, Accounted, OnItsWay
<1>8. CASE UNCHANGED vars
  BY <1>8 DEF TypeOK, AlertInv, MarksAreAccounted, ToldIsMarked, RepeatNeedsReason, BatchFits,
     Accounted, OnItsWay, vars
<1> QED
  BY <1>1, <1>2, <1>3, <1>4, <1>5, <1>6, <1>7, <1>8, EmitsStep, SaveWritesStep, CrashStep, ReadingStep
  DEF Next

(* The invariant of the alerts: every mark is accounted for, and what was     *)
(* told and must not be told again is marked in memory and on disk.           *)
THEOREM AlertsAreSound == Spec => [](TypeOK /\ AlertInv)
<1>1. Init => TypeOK /\ AlertInv
  <2> SUFFICES ASSUME Init PROVE TypeOK /\ AlertInv
    OBVIOUS
  <2>1. Unread \in Usages
    <3>1. 0 \in Periods /\ 0 \in 0 .. MaxReadings
      BY AlertsAssumption DEF Periods
    <3>2. \A w \in Windows : ResetText(w, 0, 0) \in Texts
      BY <3>1 DEF Texts
    <3> QED BY <3>1, <3>2 DEF Unread, Usages
  <2>2. PICK threshold \in Thresholds, old \in SUBSET {w \in Windows : Resets[w] = "given"} :
          memory = Setting(TRUE, threshold, {Key("any", ResetText(w, 1, 1), threshold) : w \in old})
    BY DEF Init
  <2>3. \A w \in old : Key("any", ResetText(w, 1, 1), threshold) \in {key \in Keys : key.id = "any"}
    <3>1. 1 \in Periods /\ 1 \in 0 .. MaxReadings
      BY AlertsAssumption DEF Periods
    <3>2. \A w \in Windows : ResetText(w, 1, 1) \in Texts
      BY <3>1 DEF Texts
    <3> QED BY <3>2 DEF Key, Keys
  <2>4. memory \in Settings /\ memory.keys \subseteq {key \in Keys : key.id = "any"}
    BY <2>2, <2>3 DEF Setting, Settings
  <2>5. TypeOK
    <3>1. wanted \in Choices
      BY <2>4 DEF Init, Choices, Settings
    <3>2. /\ readings \in 0 .. MaxReadings /\ saves \in 0 .. MaxSaves /\ faults \in 0 .. MaxFaults
      BY AlertsAssumption DEF Init
    <3> QED BY <2>1, <2>4, <3>1, <3>2 DEF Init, TypeOK
  <2>6. AlertInv
    BY <2>4, FS_EmptySet DEF Init, AlertInv, MarksAreAccounted, ToldIsMarked, RepeatNeedsReason,
       BatchFits, Accounted
  <2> QED BY <2>5, <2>6
<1>2. TypeOK /\ AlertInv /\ [Next]_vars => TypeOK' /\ AlertInv'
  BY AlertsStep
<1> QED BY <1>1, <1>2, PTL DEF Spec

(* Every variable of the alerts keeps its type. *)
THEOREM TypeCorrect == Spec => []TypeOK
  BY AlertsAreSound, PTL

(* An alert that is marked as announced was shown, is on its way, or was lost *)
(* in one of the ways the code accepts.                                       *)
THEOREM MarkedAreDelivered == Spec => []MarkedIsDelivered
<1>1. AlertInv => MarkedIsDelivered
  BY DEF AlertInv, MarksAreAccounted, Accounted, MarkedIsDelivered
<1> QED BY <1>1, AlertsAreSound, PTL

(* No alert is told again without a reason, although refreshes and saves       *)
(* evaluate at the same time, writes fail and the process is killed: but for   *)
(* the alerts whose mark a save took off after a refresh had overtaken it.     *)
THEOREM RepeatsHaveReasons == Spec => []RepeatNeedsReason
<1>1. AlertInv => RepeatNeedsReason
  BY DEF AlertInv
<1> QED BY <1>1, AlertsAreSound, PTL
=============================================================================
