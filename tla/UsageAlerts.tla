----------------------------- MODULE UsageAlerts -----------------------------
(***************************************************************************)
(* The alerts that tell the user an account runs low: AlertStore's settings *)
(* and the memory of what was announced (store/alerts.rs), the command that *)
(* saves them (commands/alerts.rs), the evaluation after every refresh and   *)
(* the ways a notification takes on each platform (usage.rs,                *)
(* background_refresh.rs).  One account with one enabled alert, whose kind   *)
(* several of its windows have; a window's period is told apart by the text *)
(* of its reset time, which some providers send and some answers make the   *)
(* app compute anew each time (ProviderWindows: "given" and "computed").    *)
(***************************************************************************)
EXTENDS Naturals, FiniteSets

CONSTANTS
  Windows,       \* the account's windows of the alert's kind
  Resets,        \* per window "given", "computed" or "none": its reset time's text
  Platforms,     \* of "desktop", "android" and "ios"
  Levels,        \* remaining percentages, in steps that matter
  Thresholds,    \* the thresholds the user may choose
  QueueCap,      \* MAX_QUEUED_ALERTS
  MaxReadings,   \* bound: refreshes that bring a reading
  MaxSaves,      \* bound: saves of the alert settings
  MaxFaults      \* bound: failed writes, refused notifications and crashes

ASSUME AlertsAssumption ==
  /\ Windows # {} /\ IsFiniteSet(Windows) /\ "any" \notin Windows
  /\ Resets \in [Windows -> {"given", "computed", "none"}]
  /\ Platforms \subseteq {"desktop", "android", "ios"}
  /\ Levels \subseteq Nat \ {0} /\ Thresholds \subseteq Nat
  /\ {QueueCap, MaxSaves, MaxFaults} \subseteq Nat /\ MaxReadings \in Nat \ {0}

Refresh == "refresh"
Saving == "save"
Processes == {Refresh, Saving}

VARIABLES
  platform,
  window,     \* a window exists: app_handle is set
  reading,    \* last_usage: per window what remains, its period and reset text
  readings,   \* how many refreshes brought a reading
  memory,     \* the alert setting in memory: its state and the announced keys
  disk,       \* the same on disk
  step,       \* per process, where it is
  fetched,    \* the account a save took at its start
  wanted,     \* the setting a save is to store
  existing,   \* the stored setting a save has read
  batch,      \* per process, the alerts it still has to show, by their keys
  queue,      \* QUEUED_ALERTS, Android only
  posting,    \* the alerts the background worker has taken and not posted
  told,       \* the alerts told since there was a reason to tell them anew
  overtaken,  \* those a save has taken the mark of that a refresh had overtaken
  repeated,   \* whether one was told again without a reason
  delivered,  \* the keys shown since they were last marked as announced
  excused,    \* the keys marked whose notification was lost, in a named way
  saves, faults

vars == <<platform, window, reading, readings, memory, disk, step, fetched, wanted,
          existing, batch, queue, posting, told, overtaken, repeated, delivered,
          excused, saves, faults>>

store == <<memory, disk>>
saveVars == <<fetched, wanted, existing, saves>>
history == <<told, overtaken, repeated, delivered>>

(* The text of a window's reset time in the n-th reading of a period.       *)
ResetText(w, p, n) ==
  CASE Resets[w] = "given" -> <<p>>
    [] Resets[w] = "computed" -> <<p, n>>
    [] Resets[w] = "none" -> <<>>

Periods == 0 .. MaxReadings
Unknown == 0
Texts == {ResetText(w, p, n) : w \in Windows, p \in Periods, n \in 0 .. MaxReadings}

(* A notification key: the window's id (an older version left it out), the   *)
(* text of its reset time and the threshold.                                *)
Key(id, text, threshold) == [id |-> id, text |-> text, threshold |-> threshold]
Keys == {Key(id, text, t) : id \in Windows \cup {"any"}, text \in Texts, t \in Thresholds}
Legacy(key) == IF key.text = <<>> THEN {} ELSE {[key EXCEPT !.id = "any"]}

Setting(on, threshold, keys) == [on |-> on, threshold |-> threshold, keys |-> keys]
Choices == [on : BOOLEAN, threshold : Thresholds]
Unread == [w \in Windows |-> [left |-> Unknown, period |-> 0, text |-> ResetText(w, 0, 0)]]

Settings == [on : BOOLEAN, threshold : Thresholds, keys : SUBSET Keys]
Usages == [Windows -> [left : Levels \cup {Unknown}, period : Periods, text : Texts]]

\* Every variable has its type; what was told, shown or excused are alerts there are.
TypeOK ==
  /\ platform \in Platforms /\ window \in BOOLEAN
  /\ reading \in Usages /\ fetched \in Usages
  /\ memory \in Settings /\ disk \in Settings /\ existing \in Settings /\ wanted \in Choices
  /\ step \in [Processes -> {"idle", "read", "write", "evaluate", "show"}]
  /\ batch \in [Processes -> SUBSET Keys]
  /\ {queue, posting, told, overtaken, delivered, excused} \subseteq SUBSET Keys
  /\ repeated \in BOOLEAN
  /\ readings \in 0 .. MaxReadings /\ saves \in 0 .. MaxSaves /\ faults \in 0 .. MaxFaults

(* The alert may be new, or saved by a version that kept no window in a key. *)
Init ==
  /\ platform \in Platforms
  /\ window \in {w \in BOOLEAN : platform = "desktop" => w}
  /\ reading = Unread /\ readings = 0
  /\ \E threshold \in Thresholds, old \in SUBSET {w \in Windows : Resets[w] = "given"} :
       memory = Setting(TRUE, threshold, {Key("any", ResetText(w, 1, 1), threshold) : w \in old})
  /\ disk = memory
  /\ step = [p \in Processes |-> "idle"]
  /\ fetched = Unread /\ wanted = [on |-> TRUE, threshold |-> memory.threshold]
  /\ existing = memory
  /\ batch = [p \in Processes |-> {}] /\ queue = {} /\ posting = {}
  /\ told = {} /\ overtaken = {} /\ repeated = FALSE /\ delivered = {} /\ excused = {}
  /\ saves = 0 /\ faults = 0

--------------------------------------------------------------------------
(* A refresh brings a reading (save_success): each window goes on in its     *)
(* period or enters the next one.  OpenCode Go and OpenAI's fallback compute *)
(* the reset time from "seconds left", so its text is new each time.        *)
NewReading ==
  /\ step[Refresh] = "idle" /\ readings < MaxReadings
  /\ readings' = readings + 1
  /\ \E left \in [Windows -> Levels], next \in SUBSET Windows :
       reading' = [w \in Windows |->
         LET p == IF w \in next \/ reading[w].period = 0 THEN readings + 1 ELSE reading[w].period
         IN [left |-> left[w], period |-> p, text |-> ResetText(w, p, readings + 1)]]
  /\ step' = [step EXCEPT ![Refresh] = "evaluate"]
  /\ UNCHANGED <<platform, window, store, saveVars, batch, queue, posting, history, excused, faults>>

(* evaluate(), one window of the alert: announce it when it is low and not   *)
(* yet announced, forget the announcement when it is no longer low.         *)
IsLow(usage, w) == usage[w].left # Unknown /\ usage[w].left <= memory.threshold
IsHigh(usage, w) == usage[w].left # Unknown /\ usage[w].left > memory.threshold
KeyOf(usage, w) == Key(w, usage[w].text, memory.threshold)

Announced(usage, w) == ({KeyOf(usage, w)} \cup Legacy(KeyOf(usage, w))) \cap memory.keys # {}

Due(usage) == {w \in Windows : IsLow(usage, w) /\ ~Announced(usage, w)}

Forgotten(usage) ==
  UNION {IF KeyOf(usage, w) \in memory.keys THEN {KeyOf(usage, w)} ELSE Legacy(KeyOf(usage, w)) :
           w \in {v \in Windows : IsHigh(usage, v)}}

(* The windows are judged one by one: an old mark that two of them share no   *)
(* longer counts for a later one when an earlier one has forgotten it.      *)
DueLater(usage) ==
  {w \in Windows : /\ IsLow(usage, w) /\ KeyOf(usage, w) \notin memory.keys
                   /\ Legacy(KeyOf(usage, w)) \subseteq Forgotten(usage)}

Marks(usage, due) == {KeyOf(usage, w) : w \in due}

(* The windows an enabled alert sees above its threshold.  In the present     *)
(* reading that makes telling their alert again right.  A save evaluates the  *)
(* reading of its start: one a refresh has overtaken is no such reason, it    *)
(* only takes off the marks the refresh has made.                           *)
High(usage) ==
  IF memory.on THEN {KeyOf(usage, w) : w \in {v \in Windows : IsHigh(usage, v)}} ELSE {}

(* The evaluation as a whole, under the store's lock.  A failed write keeps   *)
(* the marks in memory and returns an error: nothing is shown.              *)
Evaluate(p, usage) ==
  \E late \in SUBSET DueLater(usage) :
  LET marked == Marks(usage, Due(usage) \cup late)
      keys == (memory.keys \ Forgotten(usage)) \cup marked
      before == IF usage = reading THEN told \ High(usage) ELSE told
      lost == IF usage = reading THEN overtaken ELSE overtaken \cup High(usage)
  IN /\ step[p] = "evaluate"
     /\ \/ /\ ~memory.on \/ keys = memory.keys
           /\ step' = [step EXCEPT ![p] = "idle"] /\ told' = before /\ overtaken' = lost
           /\ UNCHANGED <<store, batch, repeated, delivered, excused, faults>>
        \/ /\ memory.on /\ keys # memory.keys
           /\ memory' = [memory EXCEPT !.keys = keys] /\ disk' = memory'
           /\ batch' = [batch EXCEPT ![p] = marked]
           /\ step' = [step EXCEPT ![p] = "show"]
           /\ told' = before \cup marked /\ overtaken' = lost \ marked
           /\ repeated' = (repeated \/ (before \ lost) \cap marked # {})
           /\ delivered' = delivered \ marked /\ excused' = excused \ marked
           /\ UNCHANGED faults
        \/ /\ memory.on /\ keys # memory.keys
           /\ faults < MaxFaults /\ faults' = faults + 1
           /\ memory' = [memory EXCEPT !.keys = keys]
           /\ step' = [step EXCEPT ![p] = "idle"] /\ told' = before /\ overtaken' = lost
           /\ delivered' = delivered \ marked /\ excused' = excused \cup marked
           /\ UNCHANGED <<disk, batch, repeated>>
     /\ UNCHANGED <<platform, window, reading, readings, saveVars, queue, posting>>

RefreshEvaluates == Evaluate(Refresh, reading)
SaveEvaluates == Evaluate(Saving, fetched)

(* One notification reaches the user.                                       *)
Shows(key) == delivered' = delivered \cup {key} /\ UNCHANGED <<told, overtaken, repeated>>

(* emit_alerts_for_account.  Without a window, Android queues the texts for   *)
(* the worker and the others have no way to show them.                      *)
Queues_Never(key) == UNCHANGED queue

Queues(key) ==
  IF Cardinality(queue) < QueueCap THEN queue' = queue \cup {key} ELSE UNCHANGED queue

Emits(p) ==
  /\ step[p] = "show" /\ batch[p] # {}
  /\ \E key \in batch[p] :
       /\ batch' = [batch EXCEPT ![p] = @ \ {key}]
       /\ \/ window /\ Shows(key) /\ UNCHANGED <<queue, excused, faults>>
          \/ /\ window /\ faults < MaxFaults /\ faults' = faults + 1
             /\ excused' = excused \cup {key} /\ UNCHANGED <<queue, history>>
          \/ /\ ~window /\ platform = "android"
             /\ Queues(key)
             /\ excused' = IF Cardinality(queue) >= QueueCap THEN excused \cup {key} ELSE excused
             /\ UNCHANGED <<history, faults>>
          \/ /\ ~window /\ platform # "android"
             /\ excused' = excused \cup {key} /\ UNCHANGED <<queue, history, faults>>
  /\ UNCHANGED <<platform, window, reading, readings, store, step, saveVars, posting>>

EmitEnds(p) ==
  /\ step[p] = "show" /\ batch[p] = {}
  /\ step' = [step EXCEPT ![p] = "idle"]
  /\ UNCHANGED <<platform, window, reading, readings, store, saveVars, batch, queue, posting,
                 history, excused, faults>>

(* The background worker takes what the run queued and posts it one by one.  *)
WorkerTakes ==
  /\ platform = "android" /\ queue # {} /\ posting = {} /\ step[Refresh] = "idle"
  /\ posting' = queue /\ queue' = {}
  /\ UNCHANGED <<platform, window, reading, readings, store, step, saveVars, batch, history,
                 excused, faults>>

WorkerPosts ==
  /\ \E key \in posting : posting' = posting \ {key} /\ Shows(key)
  /\ UNCHANGED <<platform, window, reading, readings, store, step, saveVars, batch, queue,
                 excused, faults>>

--------------------------------------------------------------------------
(* save_account_alerts: the account as it is now, the stored setting as it   *)
(* is now, then the write, then an evaluation with that account.            *)
SaveBegins ==
  /\ window /\ step[Saving] = "idle" /\ saves < MaxSaves
  /\ saves' = saves + 1
  /\ fetched' = reading
  /\ \E choice \in Choices : wanted' = choice
  /\ step' = [step EXCEPT ![Saving] = "read"]
  /\ UNCHANGED <<platform, window, reading, readings, store, existing, batch, queue, posting,
                 history, excused, faults>>

SaveReads ==
  /\ step[Saving] = "read"
  /\ existing' = memory
  /\ step' = [step EXCEPT ![Saving] = "write"]
  /\ UNCHANGED <<platform, window, reading, readings, store, fetched, wanted, saves, batch, queue,
                 posting, history, excused, faults>>

(* An unchanged alert keeps what it announced; a changed one starts afresh.  *)
Carried_Never == {}

Carried ==
  IF existing.on = wanted.on /\ existing.threshold = wanted.threshold THEN existing.keys ELSE {}

(* Saving is a reason to tell again when it changes the alert.  One that does *)
(* not still loses the marks a refresh has made since it read the setting.   *)
Changes == wanted.on # existing.on \/ wanted.threshold # existing.threshold

SaveWrites ==
  /\ step[Saving] = "write"
  /\ memory' = Setting(wanted.on, wanted.threshold, Carried)
  /\ told' = IF Changes THEN {} ELSE told
  /\ overtaken' = overtaken \cup (memory.keys \ existing.keys)
  /\ \/ disk' = memory' /\ step' = [step EXCEPT ![Saving] = "evaluate"] /\ faults' = faults
     \/ /\ faults < MaxFaults /\ faults' = faults + 1
        /\ step' = [step EXCEPT ![Saving] = "idle"] /\ disk' = disk
  /\ UNCHANGED <<platform, window, reading, readings, saveVars, batch, queue, posting, repeated,
                 delivered, excused>>

(* Android and iOS: the last window goes, and the process with it or not; a  *)
(* window comes back.  The handle of a window that went stays set.          *)
WindowOpens ==
  /\ ~window
  /\ window' = TRUE
  /\ UNCHANGED <<platform, reading, readings, store, step, saveVars, batch, queue, posting,
                 history, excused, faults>>

(* Alerts made and not shown yet.                                           *)
OnItsWay == queue \cup posting \cup UNION {batch[p] : p \in Processes}

(* A crash loses what was not shown yet; memory is read from disk again.     *)
Crash ==
  /\ faults < MaxFaults /\ faults' = faults + 1
  /\ memory' = disk
  /\ step' = [p \in Processes |-> "idle"]
  /\ excused' = excused \cup OnItsWay
  /\ batch' = [p \in Processes |-> {}] /\ queue' = {} /\ posting' = {}
  /\ window' = (platform = "desktop")
  /\ UNCHANGED <<platform, reading, readings, saveVars, history, disk>>

Next ==
  \/ NewReading \/ RefreshEvaluates \/ SaveEvaluates
  \/ \E p \in Processes : Emits(p) \/ EmitEnds(p)
  \/ WorkerTakes \/ WorkerPosts
  \/ SaveBegins \/ SaveReads \/ SaveWrites
  \/ WindowOpens \/ Crash

Spec == Init /\ [][Next]_vars

--------------------------------------------------------------------------
(* An alert that is marked as announced was shown, is on its way to the user *)
(* or was lost in one of the ways the code accepts: the marks could not be   *)
(* written, the system refused the notification, there was no window to show *)
(* it from or no room in the queue, or the process ended first.             *)
MarkedIsDelivered ==
  \A key \in memory.keys : key.id = "any" \/ key \in delivered \cup excused \cup OnItsWay

(* The same alert is told again only for a reason: the present reading had    *)
(* more left in its window in between, or the user changed the alert.  The    *)
(* code has one exception, and this is all of it: a save that a refresh       *)
(* overtook takes off the marks that refresh made, because it evaluates the   *)
(* reading of its start and writes back the marks it had read.              *)
RepeatNeedsReason == ~repeated

--------------------------------------------------------------------------
(* The inductive invariant.                                                *)

(* What was shown, lost in an accepted way, on its way, or an older version's. *)
Accounted == delivered \cup excused \cup OnItsWay \cup {key \in Keys : key.id = "any"}

(* Every mark that is in memory, on disk or in the hands of a save is an      *)
(* alert that is accounted for: a crash brings back the disk's, a save its.  *)
MarksAreAccounted == memory.keys \cup disk.keys \cup existing.keys \subseteq Accounted

(* What must not be told again is marked, in memory and on disk, unless a     *)
(* save that was overtaken took its mark off.                               *)
ToldIsMarked ==
  /\ told \ overtaken \subseteq memory.keys /\ told \ overtaken \subseteq disk.keys
  /\ \A key \in told : key.id \in Windows

(* Only who shows notifications has some; the queue is a list.               *)
BatchFits == (\A p \in Processes : step[p] # "show" => batch[p] = {}) /\ IsFiniteSet(queue)

AlertInv == MarksAreAccounted /\ ToldIsMarked /\ BatchFits /\ RepeatNeedsReason

=============================================================================
