--------------------------- MODULE ProviderWindows ---------------------------
(***************************************************************************)
(* How each provider's answer becomes the usage windows the app shows      *)
(* (providers/anthropic.rs, openai.rs, antigravity.rs, opencode_go.rs,     *)
(* google_ai_studio/quota.rs, grok/billing.rs and grok/bot.rs).            *)
(*                                                                         *)
(* A window is its id and where the text of its reset time comes from: the *)
(* answer ("given", the same text until the period ends), the app's clock  *)
(* plus the seconds left ("computed", another text at every refresh), or   *)
(* nowhere.  An answer is abstracted to what decides these two.            *)
(***************************************************************************)
EXTENDS Naturals, Sequences, FiniteSets

LOCAL Window(id, reset) == [id |-> id, reset |-> reset]
LOCAL Optional(present, window) == IF present THEN <<window>> ELSE <<>>

(* The ids of a sequence of windows, and whether no two share one. *)
Ids(windows) == {windows[i].id : i \in DOMAIN windows}
Distinct(windows) == Cardinality(Ids(windows)) = Len(windows)

-----------------------------------------------------------------------------
(* Anthropic: a window that is present counts even without a number; the   *)
(* extra-usage window needs one and must not be switched off.              *)
AnthropicWindows(body) ==
    Optional(body.five_hour, Window("five_hour", "given"))
      \o Optional(body.seven_day, Window("weekly", "given"))
      \o Optional(body.extra = "counted", Window("extra_usage", "given"))

-----------------------------------------------------------------------------
(* OpenAI.  A raw window is absent or says how much is used, how long the  *)
(* period is ("unsaid" when the answer leaves it out), how much of it is   *)
(* left, and whether it gives the time of the reset.                       *)
Absent == [used |-> "none", limit |-> "unsaid", left |-> "unsaid", reset_at |-> FALSE]

LengthOf(raw) == IF raw.limit # "unsaid" THEN raw.limit ELSE raw.left

(* Without a used percentage there is no window; a reset is computed only  *)
(* when none is given, something is used and the time left is known.       *)
OpenaiNormalized(id, raw) ==
    Optional(raw.used # "none",
             Window(id, CASE raw.reset_at -> "given"
                          [] ~raw.reset_at /\ raw.left # "unsaid" /\ raw.used = "some"
                               -> "computed"
                          [] OTHER -> "none"))

(* The primary window is named after its length, or monthly for a free     *)
(* plan; the secondary one is monthly or weekly.                           *)
PrimaryId(free, raw) ==
    IF LengthOf(raw) = "month" \/ free THEN "monthly"
    ELSE IF LengthOf(raw) = "week" THEN "weekly" ELSE "session"

SecondaryId(raw) == IF LengthOf(raw) = "month" THEN "monthly" ELSE "weekly"

OpenaiWindows(body) ==
    OpenaiNormalized(PrimaryId(body.free, body.primary), body.primary)
      \o OpenaiNormalized(SecondaryId(body.secondary), body.secondary)
      \o OpenaiNormalized("code_review", body.review)

-----------------------------------------------------------------------------
(* Antigravity.  The answer is walked in the order it lists its buckets;   *)
(* each bucket with a readable number becomes a window named after its     *)
(* period.  The n-th bucket of the same period gets the suffix n, so a     *)
(* name says which bucket it is only among the buckets of one answer.      *)
UniqueId(buckets, i) ==
    <<buckets[i].period,
      Cardinality({j \in 1..i : buckets[j].known /\ buckets[j].period = buckets[i].period})>>

AntigravityWindows(buckets) ==
    LET known == SelectSeq([i \in DOMAIN buckets |-> i], LAMBDA i : buckets[i].known)
    IN  [k \in DOMAIN known |-> Window(UniqueId(buckets, known[k]), "given")]

(* The fallback names the models. *)
AvailableModels(models) ==
    [k \in DOMAIN models |-> Window(<<"model", models[k]>>, "given")]

-----------------------------------------------------------------------------
(* OpenCode Go: the values embedded in the page, and the page's own items  *)
(* only when none is embedded.  The time left is turned into a time of day *)
(* when something is used.                                                 *)
OpencodeWindows(body) ==
    LET shown == IF body.embedded # {} THEN body.embedded ELSE body.items
        One(id) == Optional(id \in shown,
                            Window(id, IF body.used THEN "computed" ELSE "none"))
    IN  One("five_hour") \o One("weekly") \o One("monthly")

-----------------------------------------------------------------------------
(* Google AI Studio.  A bucket holds the series of one model, metric and   *)
(* limit name; a bucket whose kind cannot be told, without a limit or      *)
(* without points is passed over, and of the buckets of one model and kind *)
(* the one with the largest limit is shown.                                *)
KindOf(bucket) ==
    CASE "day" \in bucket.says /\ bucket.tokens  -> "tpd"
      [] "day" \in bucket.says /\ ~bucket.tokens -> "rpd"
      [] bucket.says = {"minute"} /\ bucket.tokens  -> "tpm"
      [] bucket.says = {"minute"} /\ ~bucket.tokens -> "rpm"
      [] OTHER -> "untold"

Shown(buckets) ==
    {b \in buckets : KindOf(b) # "untold" /\ b.limit > 0 /\ b.points}

QuotaWindows(buckets) ==
    {[id |-> <<b.model, KindOf(b)>>, limit |-> b.limit,
      reset |-> IF "day" \in b.says THEN "given" ELSE "none"] :
        b \in {best \in Shown(buckets) :
                 \A other \in Shown(buckets) :
                    other.model = best.model /\ KindOf(other) = KindOf(best)
                      => other.limit <= best.limit}}

(* Before Monitoring has anything to say each selected model has a window  *)
(* of its own, without a number.                                           *)
WaitingWindows(models) == {[id |-> <<m, "waiting">>, limit |-> 0, reset |-> "none"] : m \in models}
ModelWindows(models)   == {[id |-> <<m, "model">>, limit |-> 0, reset |-> "none"] : m \in models}

-----------------------------------------------------------------------------
(* Grok.  The billing answer needs a percentage or a reset in the future   *)
(* (an unused week has no percentage); the window is named after the       *)
(* length of the period, weekly when the answer does not say.              *)
PeriodId(length) ==
    CASE length \in {"week", "unsaid"} -> "weekly"
      [] length = "month" -> "monthly"
      [] OTHER -> "credits"

GrokWindows(body, bot) ==
    Optional(body.percent \/ body.resets,
             Window(PeriodId(IF body.resets THEN body.length ELSE "unsaid"),
                    IF body.resets THEN "given" ELSE "none"))
      \o Optional(bot # "none" /\ (body.percent \/ body.resets), Window("grok_bot", "given"))

(* The bot's answer counts unless the plan excludes it and nothing is used. *)
BotUsage(frame) ==
    IF ~frame.dated \/ (frame.excluded /\ ~frame.used) \/ (~frame.counted /\ ~frame.included)
      THEN "none" ELSE "shown"
=============================================================================
