----------------------------- MODULE UsageHistory -----------------------------
(***************************************************************************)
(* The usage history of the Usage page: the readings live refreshes leave   *)
(* in one file per month (history/store.rs) and the daily report computed    *)
(* from them (history/activity.rs, history/report.rs).  Each account has one *)
(* tracker, its weekly limit.  A refresh shows where that limit is by then:   *)
(* its provider may round, name the reset time with some jitter, roll over   *)
(* late and reset early.  Writes fail, the app crashes, the clock is wrong.   *)
(***************************************************************************)
EXTENDS Integers, FiniteSets, FiniteSetsExt, Sequences, SequencesExt

CONSTANTS
  Accounts,
  Named,          \* the accounts whose provider names the reset time
  Window,         \* length of the limit's period, in ticks
  Levels,         \* per account how much of its limit may be used, in steps
  Thin,           \* a change of at most this much is not stored
  Drop,           \* RESET_DROP_PERCENT, in the same steps
  Jitter,         \* RESET_JITTER_SECONDS, in ticks
  Heartbeat,      \* HEARTBEAT_SECONDS
  DayLength, MonthLength,
  Retention,      \* RETENTION_MONTHS
  FileCap,        \* readings that fit in MAX_FILE_BYTES
  MaxTime, MaxReadings,
  MaxEdits,       \* bounds of the model: first removals and clearings,
  MaxMishaps      \* failed writes, crashes and clocks set wrong

ASSUME HistoryAssumption ==
  /\ IsFiniteSet(Accounts) /\ Named \subseteq Accounts
  /\ {Window, DayLength, MonthLength, Heartbeat, Retention, FileCap} \subseteq Nat \ {0}
  /\ Levels \in [Accounts -> SUBSET Nat \ {{}}] /\ {Thin, Jitter} \subseteq Nat
  /\ 2 * Jitter < Window /\ Thin < Drop
  /\ {MaxTime, MaxReadings, MaxEdits, MaxMishaps} \subseteq Nat

VARIABLES
  now,       \* the wall clock at the last refresh, start or setting of the clock
  held,      \* the months in memory
  memory,    \* per month its readings in memory
  dirty,     \* the months changed in memory and not yet on disk
  disk,      \* per month the readings in its file, none without a file
  current,   \* the month the store takes for the current one
  present,   \* the accounts in the app
  limit,     \* per account its provider's limit: which period and its end
  seen,      \* per account what its live refreshes have shown since the history began
  whole,     \* accounts of which no reading was lost or came within a second of another,
             \* and of which every reset could be told
  trusted,   \* the clock was never set
  gone,      \* accounts whose removal reported success
  halfway,   \* accounts whose removal failed and was not repeated with success
  missed,    \* <<account, month>>: edited in memory, and the write failed without a mark
  readings, edits, mishaps

stored == <<held, memory, dirty, disk, current>>
ghosts == <<limit, seen, whole>>
bounds == <<readings, edits, mishaps>>
removals == <<gone, halfway, missed>>
usageVars == <<now, stored, present, ghosts, trusted, removals, bounds>>

NoReset == -1
Rank == CHOOSE f \in [Accounts -> 1 .. Cardinality(Accounts)] :
          \A a, b \in Accounts : f[a] = f[b] => a = b
Months == -1 .. (MaxTime \div MonthLength)
MonthOf(t) == t \div MonthLength
Of(a, log) == {x \in log : x.account = a}
Newest(log) == CHOOSE x \in log : \A y \in log : y.t <= x.t

Unseen == [period |-> 0, high |-> 0, total |-> 0, count |-> 0]

\* Every variable has its type; readings are in months there are.
HistoryTypeOK ==
  /\ now \in 0 .. MaxTime /\ current \in Months
  /\ held \subseteq Months /\ dirty \subseteq held
  /\ \A m \in Months : \A x \in memory[m] \cup disk[m] :
       /\ x.account \in Accounts /\ MonthOf(x.t) = m
       /\ x.u \in Levels[x.account] /\ x.r \in {NoReset} \cup Nat
  /\ present \subseteq Accounts /\ gone \subseteq Accounts \ present
  /\ whole \subseteq Accounts /\ halfway \subseteq Accounts
  /\ missed \subseteq Accounts \X Months /\ trusted \in BOOLEAN

--------------------------------------------------------------------------
(* The report: from readings to one number per day (activity.rs).            *)

Near(s, t) == s - t \in -Jitter .. Jitter

(* starts_new_period: the reset time of the reading before has passed, unless *)
(* this one still names it, or so much is left that there was a reset.       *)
\* The mistake of taking every reading after the named end for a new period.
StartsNewPeriod_AtEveryReset(previous, reading, high) ==
  \/ previous.r # NoReset /\ reading.t + Jitter >= previous.r
  \/ high - reading.u >= Drop

StartsNewPeriod(previous, reading, high) ==
  \/ /\ previous.r # NoReset /\ reading.t + Jitter >= previous.r
     /\ ~(reading.r # NoReset /\ Near(reading.r, previous.r))
  \/ high - reading.u >= Drop

(* Where the usage of the first reading of a period starts.                  *)
PeriodStart(previous, reading) ==
  LET start == reading.r - Window
  IN IF reading.r # NoReset /\ previous.t < start /\ start < reading.t THEN start ELSE previous.t

(* One reading more: the increment and the stretch it is spread over.        *)
Counted(walk, reading) ==
  LET new == StartsNewPeriod(walk.previous, reading, walk.high)
      amount == IF new THEN reading.u ELSE Max({reading.u - walk.high, 0})
      from == IF new THEN PeriodStart(walk.previous, reading) ELSE walk.previous.t
  IN [previous |-> reading,
      high |-> IF new THEN reading.u ELSE Max({walk.high, reading.u}),
      parts |-> walk.parts \cup
        {[from |-> from, to |-> reading.t, amount |-> amount]}]

(* The stretches of all readings; the first one only is a starting point.     *)
Parts(log) ==
  IF log = {} THEN {}
  ELSE LET sorted == SetToSortSeq(log, LAMBDA x, y : x.t < y.t)
           begun == [previous |-> Head(sorted), high |-> Head(sorted).u, parts |-> {}]
       IN FoldLeft(Counted, begun, Tail(sorted)).parts

(* Every stretch is spread evenly over the days it touches.  A day's number   *)
(* is kept in Grain-ths so that every share is whole.                        *)
Grain == 60
Days == 0 .. (MaxTime \div DayLength)
Overlap(day, from, to) ==
  Max({0, Min({to, (day + 1) * DayLength}) - Max({from, day * DayLength})})

UsedPercent(day, parts) ==
  MapThenSumSet(LAMBDA p : (p.amount * Overlap(day, p.from, p.to) * Grain) \div (p.to - p.from),
                parts)

Reported(log) ==
  LET parts == {p \in Parts(log) : p.amount > 0}
  IN MapThenSumSet(LAMBDA day : UsedPercent(day, parts), Days)

--------------------------------------------------------------------------
(* The store (store.rs).  An unreadable file is set aside and counts as an    *)
(* empty month from then on, so files are readable here.                     *)

(* What the report reads: months in memory as they are there, others on disk. *)
Known(m) == IF m \in held THEN memory[m] ELSE disk[m]
All == UNION {Known(m) : m \in Months}
ReadingsOf(a) == Of(a, All)

(* The months a store holds once m is the current one, and what it deletes.   *)
Keeps(m) == {n \in held \cup {m, m - 1} : n \in {m, m - 1} \/ n \in dirty}
Expired(m) == {n \in Months : disk[n] # {} /\ n < m - Retention}

(* should_write: what moved, or a heartbeat.                                 *)
\* The mistake of storing a reading only where the percentage moved.
ShouldWrite_OnMove(last, x) ==
  last = {} \/ LET y == Newest(last)
               IN x.t > y.t /\ (x.u - y.u \notin -Thin .. Thin \/ x.t - y.t >= Heartbeat)

ShouldWrite(last, x) ==
  last = {} \/ LET y == Newest(last)
               IN x.t > y.t /\ (x.u - y.u \notin -Thin .. Thin \/ x.r # y.r \/ x.t - y.t >= Heartbeat)

(* last_reading: the newest month in memory that has one of the account.      *)
LastReading(a, months, log) ==
  LET some == {m \in months : Of(a, log[m]) # {}}
  IN IF some = {} THEN {} ELSE Of(a, log[Max(some)])

(* fit_month_within_cap: the oldest readings go first, by key where they are   *)
(* equally old.                                                             *)
After(y, x) == y.t > x.t \/ (y.t = x.t /\ y.account # x.account /\ Rank[y.account] > Rank[x.account])
Fitting(log) == {x \in log : Cardinality({y \in log : After(y, x)}) < FileCap}

(* The clock the tests pin: the history is loaded for the month it shows.     *)
HistoryInit ==
  /\ now = 0 /\ current = 0 /\ held = {-1, 0} /\ dirty = {}
  /\ memory = [m \in Months |-> {}] /\ disk = [m \in Months |-> {}]
  /\ present = Accounts
  /\ limit \in [Accounts -> {[period |-> 1, ends |-> e] : e \in {1, Window}}]
  /\ \A a \in Accounts \ Named : limit[a].ends = Window
  /\ seen = [a \in Accounts |-> Unseen]
  /\ whole = Accounts /\ trusted = TRUE /\ gone = {} /\ halfway = {} /\ missed = {}
  /\ readings = 0 /\ edits = 0 /\ mishaps = 0

(* What goes wrong is counted.                                              *)
Mishap == mishaps < MaxMishaps /\ mishaps' = mishaps + 1
Fault(fails) == IF fails THEN Mishap ELSE mishaps' = mishaps

--------------------------------------------------------------------------
(* A provider may round a percentage down by one step.                      *)
Rounding == 1

(* What the provider may show by now: the period goes on, which may outlive   *)
(* its end, with a percentage that rounding may put a little lower (the end    *)
(* of a limit nobody uses slides); or a new one has begun, after the end or   *)
(* before it.                                                               *)
GoesOn(a) ==
  LET s == seen[a]
  IN {<<l, u>> : l \in {limit[a]} \cup (IF a \in Named /\ s.high = 0 THEN {[limit[a] EXCEPT !.ends = now' + Window]} ELSE {}),
                 u \in {n \in Levels[a] : n >= s.high - Rounding}}

Begins(a) ==
  LET l == limit[a]
      ends == IF a \notin Named THEN {l.ends}
              ELSE {now' + Window} \cup (IF now' \in l.ends .. (l.ends + Window - 1)
                                        THEN {l.ends + Window} ELSE {})
  IN {<<[period |-> l.period + 1, ends |-> e], u>> : e \in ends, u \in Levels[a]}

(* What the readings of an account have shown: the rises inside a period and  *)
(* the first reading of each later one.                                      *)
Shown(a, l, u) ==
  LET s == seen[a]
  IN IF s.count = 0
     THEN [period |-> l.period, high |-> u, total |-> 0, count |-> 1]
     ELSE IF l.period = s.period
     THEN [s EXCEPT !.high = Max({@, u}), !.total = @ + Max({u - s.high, 0})]
     ELSE [period |-> l.period, high |-> u, total |-> s.total + u, count |-> s.count + 1]

(* A reset the readings tell: the named end has passed, or a clear fall.      *)
Telling(a, l, u) ==
  \/ l.period = limit[a].period \/ seen[a].count = 0
  \/ a \in Named /\ now' >= limit[a].ends
  \/ seen[a].high - u >= Drop + Thin

(* A month whose write failed stays marked, for the next reading to try.       *)
Marked(m, fails) == IF fails THEN {m} ELSE {}

(* record: the month of the reading becomes the current one, what says        *)
(* something new is kept, and a month that is dirty is written.              *)
Record(x, fails) ==
  LET m == MonthOf(x.t)
      load == IF m = current THEN {m} ELSE {m, m - 1}
      months == IF m = current THEN held \cup {m} ELSE Keeps(m) \ Expired(m)
      read == [n \in Months |-> IF n \in load \ held THEN disk[n]
                                ELSE IF n \in months THEN memory[n] ELSE {}]
      last == LastReading(x.account, months, read)
      kept == IF ShouldWrite(last, x) THEN {x} ELSE {}
      log == read[m] \cup kept
      files == [n \in Months |-> IF m # current /\ n \in Expired(m) THEN {} ELSE disk[n]]
      write == kept # {} \/ m \in dirty
  IN /\ fails => write
     /\ current' = m /\ held' = months
     /\ memory' = [read EXCEPT ![m] = IF write THEN Fitting(log) ELSE log]
     /\ disk' = IF write /\ ~fails THEN [files EXCEPT ![m] = Fitting(log)] ELSE files
     /\ dirty' = ((dirty \cap months) \ {m}) \cup Marked(m, fails)
     /\ whole' = whole \ ((IF Telling(x.account, limit'[x.account], x.u)
                               /\ \A y \in last : y.t < x.t THEN {} ELSE {x.account})
                   \cup {y.account : y \in (All \cup kept) \ All'})

(* A live refresh: the reading of a month before the current one is left out.  *)
Refresh(a, fails) ==
  /\ a \in present /\ Fault(fails)
  /\ readings < MaxReadings /\ readings' = readings + 1
  /\ now' \in now .. MaxTime
  /\ \E shows \in GoesOn(a) \cup Begins(a), moved \in IF a \in Named THEN 0 .. Jitter ELSE {0} :
       LET l == shows[1]
           u == shows[2]
           x == [account |-> a, t |-> now', u |-> u,
                 r |-> IF a \in Named THEN l.ends + moved ELSE NoReset]
       IN /\ limit' = [limit EXCEPT ![a] = l]
          /\ seen' = [seen EXCEPT ![a] = Shown(a, l, u)]
          /\ IF MonthOf(now') < current
             THEN whole' = whole \ {a} /\ UNCHANGED stored /\ ~fails
             ELSE Record(x, fails)
  /\ UNCHANGED <<present, trusted, removals, edits>>

--------------------------------------------------------------------------
(* remove_account: every month is edited, the oldest first, until a write     *)
(* fails.  A month in memory stays edited, and keeps its mark of before.      *)
\* The mistake of editing only the months in memory.
Edit_HeldOnly(a) == {m \in held : Of(a, memory[m]) # {} \/ m \in dirty}
Edit(a) == {m \in Months : Of(a, Known(m)) # {} \/ m \in dirty}

RemoveAccount(a, fails) ==
  /\ \/ a \in present /\ edits < MaxEdits /\ edits' = edits + 1
     \/ a \in halfway /\ edits' = edits
  /\ Fault(fails)
  /\ \E stop \in IF fails THEN Edit(a) ELSE {Max(Months) + 1} :
       LET reached == {m \in Months : m <= stop}
           edited == [m \in Months |-> Known(m) \ Of(a, Known(m))]
           done == {m \in Edit(a) : m < stop}
       IN /\ memory' = [m \in Months |-> IF m \in held \cap reached THEN edited[m] ELSE memory[m]]
          /\ disk' = [m \in Months |-> IF m \in done THEN edited[m] ELSE disk[m]]
          /\ dirty' = dirty \ done
          /\ missed' = missed \cup ({a} \X ((held \ dirty) \cap {stop}))
  /\ present' = present \ {a}
  /\ seen' = [seen EXCEPT ![a] = Unseen]
  /\ gone' = IF fails THEN gone ELSE gone \cup {a}
  /\ halfway' = IF fails THEN halfway \cup {a} ELSE halfway \ {a}
  /\ UNCHANGED <<now, held, current, limit, whole, trusted, readings>>

(* clear: memory at once, then every file that can be deleted.               *)
Clear(left) ==
  /\ edits < MaxEdits /\ edits' = edits + 1
  /\ Fault(left # {})
  /\ held' = {} /\ dirty' = {} /\ memory' = [m \in Months |-> {}]
  /\ disk' = [m \in Months |-> IF m \in left THEN disk[m] ELSE {}]
  /\ seen' = IF left = {} THEN [a \in Accounts |-> Unseen] ELSE seen
  /\ whole' = IF left = {} THEN Accounts ELSE {}
  /\ UNCHANGED <<now, current, present, limit, trusted, removals, readings>>

(* The end of the process and the next start, at once or much later: load and *)
(* advance_to.                                                              *)
Restart ==
  \E t \in {now, MaxTime} :
  LET m == MonthOf(t)
      files == [n \in Months |-> IF disk[n] # {} /\ n < m - Retention THEN {} ELSE disk[n]]
  IN /\ Mishap /\ now' = t
     /\ current' = m /\ held' = {m, m - 1} \cap Months /\ dirty' = {}
     /\ disk' = files
     /\ memory' = [n \in Months |-> IF n \in {m, m - 1} THEN files[n] ELSE {}]
     /\ whole' = whole \ {x.account : x \in All \ All'}
     /\ UNCHANGED <<present, limit, seen, trusted, removals, readings, edits>>

(* The clock is set far back or far ahead.                                   *)
SetClock ==
  /\ Mishap
  /\ now' \in {0, MaxTime} \ {now}
  /\ trusted' = FALSE
  /\ UNCHANGED <<stored, present, ghosts, removals, readings, edits>>

HistoryNext ==
  \/ Restart \/ SetClock
  \/ \E a \in Accounts, fails \in BOOLEAN : Refresh(a, fails) \/ RemoveAccount(a, fails)
  \/ \E left \in SUBSET {m \in Months : disk[m] # {}} : Clear(left)

HistorySpec == HistoryInit /\ [][HistoryNext]_usageVars

--------------------------------------------------------------------------
(* Properties.                                                              *)

(* The report never tells of more use than the refreshes have shown, however *)
(* the provider rounds, jitters, rolls over late or resets early, and        *)
(* whatever readings thinning, failed writes and crashes have cost: nothing  *)
(* is counted twice.  (A first reading that was lost may have been rounded.)  *)
NeverTellsMore ==
  trusted => \A a \in present : Reported(ReadingsOf(a)) <= (seen[a].total + Rounding) * Grain

(* The report tells all the use the refreshes have shown, up to what thinning *)
(* leaves out of each period, as long as no reading was lost and every reset  *)
(* could be told from the readings.                                          *)
TellsWhatWasSeen ==
  trusted => \A a \in present \cap whole :
    Reported(ReadingsOf(a)) >= (seen[a].total - seen[a].count * Thin) * Grain

(* A removal that reported success, at the first try or a later one, has left  *)
(* no reading of its account in any month, in memory or on disk, for a later  *)
(* start to bring back.  The code has one exception, and this is all of it: a *)
(* month in memory that an earlier try edited and could not write bears no    *)
(* mark, so the next try takes its file for edited.                         *)
RemovedAreGone ==
  \A a \in gone, m \in Months :
    <<a, m>> \notin missed => Of(a, memory[m]) = {} /\ Of(a, disk[m]) = {}

=============================================================================
