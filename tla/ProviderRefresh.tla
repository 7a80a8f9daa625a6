--------------------------- MODULE ProviderRefresh ---------------------------
(***************************************************************************)
(* One saved account refreshed again and again: the requests               *)
(* providers/*.rs sends for it, the provider's answers or their loss, what *)
(* becomes of the credential, and what the refresh leaves in the account.  *)
(*                                                                         *)
(* The caller (usage.rs, module AccountRefresh) runs one refresh of an     *)
(* account at a time and holds the account's lock, so a refresh is         *)
(* sequential here; the provider, the owner of the account and a crash     *)
(* interleave with it.                                                     *)
(*                                                                         *)
(* Credentials are numbered in the order the provider issued them.  An     *)
(* OAuth credential is a refresh number and an access number; for the      *)
(* cookie providers the refresh number is the session.  Google AI Studio   *)
(* has an API key beside its Cloud credential.                             *)
(***************************************************************************)
EXTENDS ProviderWindows, SequencesExt

CONSTANTS
    Providers,      \* the providers of this instance
    OpenaiRaw,      \* raw windows OpenAI may report
    QuotaBuckets,   \* quota buckets Cloud Monitoring may report
    Models,         \* models of Google AI Studio
    MaxIssued,      \* bound: credentials the provider issues
    MaxPages,       \* bound: pages of one list
    MaxFaults       \* bound: accidents (early death, failed save, crash)

OAuth  == {"openai", "anthropic", "antigravity"}
Cookie == {"opencode", "grok"}

ASSUME ProviderAssumption ==
    /\ Providers \subseteq OAuth \cup Cookie \cup {"google"}
    /\ MaxIssued \in Nat \ {0} /\ MaxPages \in Nat \ {0} /\ MaxFaults \in Nat

VARIABLES
    provider,   \* the provider of the account
    issued,     \* the last number the provider issued
    grant,      \* the refresh number it accepts; 0: the owner revoked it
    live,       \* the access numbers it accepts
    keyGood,    \* it accepts the API key
    stored,     \* the credential on disk
    secret,     \* the copy the refresh works with
    cloud,      \* a Cloud project is connected to the API key
    pc,         \* where the refresh stands
    retried,    \* the token was already renewed after a rejection
    pages,      \* pages of the model list read
    version,    \* the Antigravity release reported: cached from the feed or the floor
    parsed,     \* the windows the answers gave
    told,       \* the e-mail and the identity they gave
    result,     \* how the refresh ends
    account,    \* what the app shows of it
    why,        \* since the last success: what happened to a good credential
    faults      \* accidents so far

providerVars == <<issued, grant, live, keyGood>>
callVars     == <<retried, pages, parsed, told, result>>
fixed        == <<provider, cloud>>
vars == <<fixed, providerVars, stored, secret, pc, callVars, version, account, why, faults>>

-----------------------------------------------------------------------------
(* What an answer means.                                                   *)

(* Mutant: one meaning of 403 for every provider. *)
ForbiddenIsAuth_All(p) == p \in Providers

(* A 403 rejects the credential at Google's quota API, OpenCode and Grok;  *)
(* at Anthropic, OpenAI and Cloud Monitoring it is a passing refusal.      *)
ForbiddenIsAuth(p) == p \in {"antigravity", "opencode", "grok"}

ErrorOf(p, status) ==
    CASE status = "401" -> "auth"
      [] status = "403" -> IF ForbiddenIsAuth(p) THEN "auth" ELSE "transient"
      [] status = "429" -> "limited"
      [] OTHER          -> "transient"

(* A body is read up to its cap before the status is looked at; only the   *)
(* Google reader goes on with an unreadable one.                           *)
Read(p, answer) ==
    IF answer.body = "huge" \/ (answer.body = "cut" /\ p # "google")
      THEN "transient"
      ELSE IF answer.status # "200" THEN ErrorOf(p, answer.status)
           ELSE IF answer.body = "good" THEN "ok" ELSE "transient"

(* The answers to a request that carries a credential the provider does or *)
(* does not accept.  A status of "lost" is no answer at all.               *)
Answers(accepted) ==
    [status : {"200"}, body : IF accepted THEN {"good", "bad", "cut", "huge"} ELSE {}]
      \cup [status : {"403", "429", "500", "lost"} \cup (IF accepted THEN {} ELSE {"401"}),
            body : {"good", "huge"}]

(* A refusal of a credential the provider accepts is remembered.           *)
Refused(accepted, answer, what) ==
    IF accepted /\ answer.status = "403" THEN why \cup {what} ELSE why

Accepted == secret.access \in live
GrantGood == grant # 0 /\ secret.refresh = grant

-----------------------------------------------------------------------------
(* The token endpoint.                                                     *)
Rotates(p)       == p \in {"openai", "anthropic"}
LifetimeNeeded(p) == p \in {"openai", "antigravity"}
AnyStatusGrant(p) == p # "openai"

(* 401 and 403 always mean a new sign-in; "invalid_grant" does at any      *)
(* status, and for OpenAI only at 400.                                     *)
NeedsNewSignIn(p, status) ==
    \/ status \in {"401", "403", "400 invalid_grant"}
    \/ status = "500 invalid_grant" /\ AnyStatusGrant(p)

Finish(r) == pc' = "settle" /\ result' = r

-----------------------------------------------------------------------------
(* What the account says of its owner before its first refresh.            *)
Identities(p) ==
    CASE p \in OAuth -> {"none", "told"}
      [] p = "google" -> {"key"}
      [] p = "opencode" -> {"told"}
      [] OTHER -> {"none"}

Known(a) == [email |-> a.email, identity |-> a.identity]

Init ==
    /\ provider \in Providers
    /\ cloud \in (IF provider = "google" THEN BOOLEAN ELSE {FALSE})
    /\ issued = 1 /\ grant = 1 /\ live = {1} /\ keyGood = TRUE
    /\ stored \in [refresh : {1}, access : {1}, due : {FALSE},
                   form : CASE provider = "grok" -> {"clean", "raw", "bad"}
                            [] provider = "opencode" -> {"clean", "bad"}
                            [] OTHER -> {"clean"}]
    /\ secret = stored
    /\ pc = "idle" /\ retried = FALSE /\ pages = 0 /\ version = "none"
    /\ parsed = <<>> /\ result = "none"
    /\ account \in [suspended : {FALSE},
                    email : IF provider = "google" THEN {TRUE} ELSE BOOLEAN,
                    identity : Identities(provider)]
    /\ told = Known(account) /\ why = {} /\ faults = 0

(* A refresh starts from the credential on disk.  An OAuth token that is   *)
(* about to expire is renewed before anything is asked of the provider.    *)
Begin ==
    /\ pc = "idle"
    /\ secret' = stored
    /\ pc' = CASE provider \in OAuth -> IF stored.due THEN "renew" ELSE "call"
               [] provider = "google" -> "list"
               [] provider = "grok" -> "recapture"
               [] OTHER -> "call"
    /\ retried' = FALSE /\ pages' = 0 /\ parsed' = <<>> /\ result' = "none"
    /\ told' = Known(account)
    /\ UNCHANGED <<fixed, providerVars, stored, version, account, why, faults>>

(* The provider issues a new access token, and for some providers a new    *)
(* refresh token that retires the old one; the answer may not arrive, or   *)
(* not be usable.                                                          *)
RenewIssued ==
    /\ pc = "renew" /\ GrantGood /\ issued < MaxIssued
    /\ \E rotated \in (IF Rotates(provider) THEN BOOLEAN ELSE {FALSE}),
          arrives \in {"good", "no lifetime", "bad", "cut", "huge", "lost"} :
         LET n == issued + 1
             usable == \/ arrives = "good"
                       \/ arrives = "no lifetime" /\ ~LifetimeNeeded(provider)
         IN  /\ issued' = n /\ live' = live \cup {n}
             /\ grant' = IF rotated THEN n ELSE grant
             /\ IF usable
                  THEN /\ secret' = [secret EXCEPT !.access = n, !.due = FALSE,
                                       !.refresh = IF rotated THEN n ELSE @]
                       /\ pc' = "save" /\ UNCHANGED <<result, why>>
                  ELSE /\ Finish("transient")
                       /\ why' = IF rotated THEN why \cup {"missed"} ELSE why
                       /\ UNCHANGED secret
    /\ UNCHANGED <<fixed, keyGood, stored, retried, pages, parsed, told, version, account, faults>>

(* The endpoint answers with a failure, or the request never reaches it.   *)
RenewRefused ==
    /\ pc = "renew"
    /\ \E status \in {"403", "429", "500", "500 invalid_grant", "lost"}
                       \cup (IF GrantGood THEN {} ELSE {"401", "400 invalid_grant"}) :
         /\ Finish(IF NeedsNewSignIn(provider, status) THEN "auth" ELSE "transient")
         /\ why' = CASE GrantGood /\ status = "403" -> why \cup {"token refused"}
                     [] GrantGood /\ status = "500 invalid_grant" -> why \cup {"token fault"}
                     [] OTHER -> why
    /\ UNCHANGED <<fixed, providerVars, stored, secret, retried, pages, parsed, told,
                   version, account, faults>>

(* Mutant: the renewed credential is used before it is saved. *)
SaveRenewed_Later ==
    /\ pc = "save"
    /\ pc' = IF provider = "google" THEN "cloud" ELSE "call"
    /\ UNCHANGED <<fixed, providerVars, stored, secret, callVars, version, account, why, faults>>

(* The renewed credential is saved before it is used.                      *)
SaveRenewed ==
    /\ pc = "save"
    /\ \/ /\ stored' = secret
          /\ pc' = IF provider = "google" THEN "cloud" ELSE "call"
          /\ UNCHANGED <<result, why, faults>>
       \/ /\ faults < MaxFaults /\ faults' = faults + 1
          /\ Finish("transient")
          /\ why' = IF secret.refresh # stored.refresh THEN why \cup {"missed"} ELSE why
          /\ UNCHANGED stored
    /\ UNCHANGED <<fixed, providerVars, secret, retried, pages, parsed, told, version, account>>

(* A rejected access token is renewed once; a second rejection stands.     *)
OnError(error) ==
    IF error = "auth" /\ ~retried /\ provider \in OAuth
      THEN pc' = "renew" /\ retried' = TRUE /\ UNCHANGED result
      ELSE Finish(error) /\ UNCHANGED retried

(* Windows end the calls; none is a failure of the provider.               *)
Parsed(windows) ==
    /\ parsed' = windows
    /\ Finish(IF windows = <<>> THEN "transient" ELSE "ok")

(* Who owns the account is asked last, when it is asked.                   *)
ParsedThen(windows, ask) ==
    IF ask /\ windows # <<>> THEN parsed' = windows /\ pc' = "profile" /\ UNCHANGED result
    ELSE Parsed(windows)

-----------------------------------------------------------------------------
(* Anthropic and OpenAI: one usage request.                                *)
UsageWindows ==
    IF provider = "anthropic"
      THEN {AnthropicWindows(b) : b \in [five_hour : BOOLEAN, seven_day : BOOLEAN,
                                          extra : {"absent", "off", "counted"}]}
      ELSE {OpenaiWindows(b) : b \in [free : BOOLEAN, primary : OpenaiRaw,
                                       secondary : OpenaiRaw, review : {Absent}]}

CallUsage ==
    /\ pc = "call" /\ provider \in {"anthropic", "openai"}
    /\ \E answer \in Answers(Accepted) :
         /\ why' = Refused(Accepted, answer, "denied")
         /\ IF Read(provider, answer) = "ok"
              THEN /\ \E windows \in UsageWindows : ParsedThen(windows, provider = "anthropic")
                   /\ UNCHANGED retried
              ELSE OnError(Read(provider, answer)) /\ UNCHANGED parsed
    /\ UNCHANGED <<fixed, providerVars, stored, secret, pages, told, version, account, faults>>

-----------------------------------------------------------------------------
(* Antigravity: the release to report, then load, quota summary and, when  *)
(* that gives nothing, the list of models.  The groups Google answers with *)
(* depend on the release reported.                                         *)
Group(name) == <<[period |-> "five_hour", known |-> TRUE, group |-> name],
                 [period |-> "weekly", known |-> TRUE, group |-> name]>>

QuotaSummaries ==
    {<<>>, Group("gemini") \o Group("claude")}
      \cup (IF version = "feed" THEN {Group("argon") \o Group("gemini") \o Group("claude")} ELSE {})

(* The cached release is used until it ages: a day when the feed was read, *)
(* an hour when the floor stands in for it.                                *)
ResolveVersion ==
    /\ pc = "call" /\ provider = "antigravity" /\ version = "none"
    /\ version' \in {"feed", "floor"}
    /\ UNCHANGED <<fixed, providerVars, stored, secret, pc, callVars, account, why, faults>>

(* loadCodeAssist has to name the Cloud project, unless the account kept   *)
(* one from an older build.                                                *)
LoadCodeAssist ==
    /\ pc = "call" /\ provider = "antigravity" /\ version # "none"
    /\ \E answer \in Answers(Accepted), project \in BOOLEAN :
         /\ why' = Refused(Accepted, answer, "denied")
         /\ IF Read(provider, answer) # "ok" THEN OnError(Read(provider, answer))
            ELSE IF project THEN pc' = "summary" /\ UNCHANGED <<retried, result>>
            ELSE Finish("transient") /\ UNCHANGED retried
         /\ told' = IF project THEN [told EXCEPT !.identity = "project"] ELSE told
    /\ UNCHANGED <<fixed, providerVars, stored, secret, pages, parsed, version, account, faults>>

(* Only a rejection ends the call here: every other failure of the         *)
(* summary, a 429 included, goes on to the list of models.                 *)
RetrieveSummary ==
    /\ pc = "summary"
    /\ \E answer \in Answers(Accepted), buckets \in QuotaSummaries :
         LET windows == AntigravityWindows(buckets)
         IN  /\ why' = Refused(Accepted, answer, "denied")
             /\ CASE Read(provider, answer) = "auth" ->
                       OnError("auth") /\ UNCHANGED parsed
                  [] Read(provider, answer) = "ok" /\ windows # <<>> ->
                       ParsedThen(windows, ~account.email) /\ UNCHANGED retried
                  [] OTHER -> pc' = "models" /\ UNCHANGED <<retried, parsed, result>>
    /\ UNCHANGED <<fixed, providerVars, stored, secret, pages, told, version, account, faults>>

FetchModels ==
    /\ pc = "models"
    /\ \E answer \in Answers(Accepted), models \in {<<>>, SetToSeq(Models)} :
         /\ why' = Refused(Accepted, answer, "denied")
         /\ IF Read(provider, answer) = "ok"
              THEN ParsedThen(AvailableModels(models), ~account.email) /\ UNCHANGED retried
              ELSE OnError(Read(provider, answer)) /\ UNCHANGED parsed
    /\ UNCHANGED <<fixed, providerVars, stored, secret, pages, told, version, account, faults>>

-----------------------------------------------------------------------------
(* Google AI Studio: the pages of the model list with the API key, then,   *)
(* with a Cloud project, Monitoring with the Cloud token.  That token is   *)
(* renewed up front only.                                                  *)
ListModels ==
    /\ pc = "list"
    /\ \E answer \in Answers(keyGood) :
         IF Read(provider, answer) # "ok"
           THEN Finish(Read(provider, answer)) /\ UNCHANGED <<pages, parsed>>
           ELSE \/ /\ pages + 1 < MaxPages /\ pages' = pages + 1
                   /\ UNCHANGED <<pc, parsed, result>>
                \/ /\ UNCHANGED pages
                   /\ \E selected \in SUBSET Models :
                        IF selected = {} \/ ~cloud
                          THEN Parsed(SetToSeq(ModelWindows(selected)))
                          ELSE /\ parsed' = SetToSeq(ModelWindows(selected))
                               /\ pc' = IF secret.due THEN "renew" ELSE "cloud"
                               /\ UNCHANGED result
    /\ UNCHANGED <<fixed, providerVars, stored, secret, retried, told, version, account, why, faults>>

ReadMonitoring ==
    /\ pc = "cloud"
    /\ \E answer \in Answers(Accepted) :
         IF Read(provider, answer) # "ok"
           THEN Finish(Read(provider, answer)) /\ UNCHANGED <<parsed, told>>
           ELSE /\ told' = [told EXCEPT !.identity = "project"]
                /\ \E buckets \in SUBSET QuotaBuckets :
                    LET selected == {parsed[i].id[1] : i \in DOMAIN parsed}
                        shown == QuotaWindows({b \in buckets : b.model \in selected})
                    IN  IF shown = {}
                          THEN Parsed(SetToSeq(WaitingWindows(selected)))
                          ELSE Parsed(SetToSeq(shown))
    /\ UNCHANGED <<fixed, providerVars, stored, secret, retried, pages, version, account, why, faults>>

-----------------------------------------------------------------------------
(* OpenCode Go: one page.  A session that is no longer accepted is sent to *)
(* the login page, and so may one be that still is; a page that only reads *)
(* like a login counts as one.  Nothing is asked with an empty cookie, a   *)
(* malformed one or a malformed workspace.                                 *)
ReadDashboard ==
    /\ pc = "call" /\ provider = "opencode"
    /\ \/ /\ secret.form = "bad" /\ \E r \in {"auth", "transient"} : Finish(r)
          /\ UNCHANGED <<parsed, told, why>>
       \/ /\ secret.form # "bad" /\ ~Accepted /\ Finish("auth")
          /\ UNCHANGED <<parsed, told, why>>
       \/ \E answer \in Answers(Accepted), login \in BOOLEAN :
            LET read == Read(provider, answer)
            IN  /\ secret.form # "bad"
                /\ why' = IF read = "ok" /\ login THEN why \cup {"worded"}
                          ELSE Refused(Accepted, answer, "denied")
                /\ IF read = "ok" /\ ~login
                     THEN \E found \in BOOLEAN, b \in [embedded : {{}, {"five_hour", "weekly"}},
                                    items : {{}, {"monthly", "weekly"}}, used : BOOLEAN] :
                            /\ Parsed(OpencodeWindows(b))
                            /\ told' = [email |-> told.email \/ found, identity |-> "told"]
                     ELSE /\ Finish(IF read = "ok" THEN "auth" ELSE read)
                          /\ UNCHANGED <<parsed, told>>
    /\ UNCHANGED <<fixed, providerVars, stored, secret, retried, pages, version, account, faults>>

(* Grok: the stored cookies are normalised first and written back when     *)
(* that changes them, a failed write notwithstanding; cookies without a    *)
(* session are given up.                                                   *)
RecaptureCookies ==
    /\ pc = "recapture"
    /\ LET next == [secret EXCEPT !.form = CASE @ = "raw" -> "clean"
                                             [] @ = "bad" -> "gone"
                                             [] OTHER -> @]
       IN  /\ secret' = next
           /\ \/ stored' = next /\ UNCHANGED faults
              \/ /\ next # secret /\ faults < MaxFaults /\ faults' = faults + 1
                 /\ UNCHANGED stored
           /\ IF next.form = "gone" THEN Finish("auth")
              ELSE pc' = (IF account.email THEN "call" ELSE "profile") /\ UNCHANGED result
    /\ UNCHANGED <<fixed, providerVars, retried, pages, parsed, told, version, account, why>>

(* Billing decides; the bot's numbers are added when they arrive in time.  *)
(* A gRPC failure that speaks of the session counts as a rejection.        *)
BillingBodies ==
    [percent : BOOLEAN, resets : BOOLEAN, length : {"week", "month", "other", "unsaid"}]

(* The bot may not answer within its eight seconds or 64 frames, or at all. *)
BotReplies ==
    {"none"} \cup {BotUsage(f) : f \in [dated : BOOLEAN, excluded : BOOLEAN, used : BOOLEAN,
                                     counted : BOOLEAN, included : BOOLEAN]}

ReadBilling ==
    /\ pc = "call" /\ provider = "grok"
    /\ \E answer \in Answers(Accepted), grpc \in {"ok", "session", "no team"} :
         LET read == Read(provider, answer)
         IN  /\ why' = IF read = "ok" /\ grpc = "session" THEN why \cup {"worded"}
                       ELSE Refused(Accepted, answer, "denied")
             /\ IF read = "ok" /\ grpc = "ok"
                  THEN /\ \E b \in BillingBodies, bot \in BotReplies : Parsed(GrokWindows(b, bot))
                       /\ told' = [told EXCEPT !.identity = IF @ = "none" THEN "session" ELSE @]
                  ELSE /\ Finish(CASE read # "ok" -> read
                                    [] read = "ok" /\ grpc = "session" -> "auth"
                                    [] OTHER -> "transient")
                       /\ UNCHANGED <<parsed, told>>
    /\ UNCHANGED <<fixed, providerVars, stored, secret, retried, pages, version, account, faults>>

(* Who owns the account.  Anthropic's profile is read at every refresh,    *)
(* from a second address when the first fails, Antigravity's and Grok's    *)
(* e-mail only when it is not known; a failure changes nothing.            *)
Profile(found) ==
    IF ~found THEN told
    ELSE IF provider = "anthropic" THEN [email |-> TRUE, identity |-> "told"]
    ELSE [told EXCEPT !.email = TRUE]

ReadProfile ==
    /\ pc = "profile"
    /\ \E first, second \in BOOLEAN : told' = Profile(first \/ second)
    /\ IF provider = "grok" THEN pc' = "call" /\ UNCHANGED result ELSE Finish("ok")
    /\ UNCHANGED <<fixed, providerVars, stored, secret, retried, pages, parsed, version, account,
                   why, faults>>

-----------------------------------------------------------------------------

(* The end of a refresh (usage.rs): the credential that worked is saved    *)
(* again, and the account takes over the new windows and the owner's data, *)
(* or keeps its own with the error.  An error that is not a rejection ends a *)
(* suspension.  The project Antigravity reports is not kept: it is nobody's *)
(* identity.                                                               *)
Settled(r) ==
    IF r = "ok"
      THEN [suspended |-> FALSE, email |-> told.email,
            identity |-> IF provider = "antigravity" THEN account.identity ELSE told.identity]
      ELSE [account EXCEPT !.suspended = (r = "auth")]

(* A success clears what happened before it, except a rotation the disk    *)
(* missed and a death after the answer.                                    *)
Remembered == (why \cap {"missed"}) \cup (IF secret.access \in live THEN {} ELSE {"early"})

Settle ==
    /\ pc = "settle" /\ pc' = "idle" /\ result' = "none"
    /\ retried' = FALSE /\ pages' = 0 /\ parsed' = <<>>
    /\ \/ /\ stored' = IF result = "ok" THEN secret ELSE stored
          /\ account' = Settled(result)
          /\ why' = IF result = "ok" THEN Remembered ELSE why
          /\ UNCHANGED faults
       \/ /\ result = "ok" /\ faults < MaxFaults /\ faults' = faults + 1
          /\ UNCHANGED <<stored, account, why>>
    /\ secret' = stored' /\ told' = Known(account')
    /\ UNCHANGED <<fixed, providerVars, version>>

Step ==
    \/ RenewIssued \/ RenewRefused \/ SaveRenewed
    \/ CallUsage
    \/ ResolveVersion \/ LoadCodeAssist \/ RetrieveSummary \/ FetchModels
    \/ ListModels \/ ReadMonitoring
    \/ ReadDashboard \/ RecaptureCookies \/ ReadBilling \/ ReadProfile
    \/ Settle

-----------------------------------------------------------------------------
(* Around the refreshes.                                                   *)

(* Time: the access token comes within five minutes of its end and then    *)
(* ends; a refresh is shorter than those five minutes.                     *)
TokenAges ==
    /\ pc = "idle" /\ provider \in OAuth \cup {"google"} /\ ~stored.due
    /\ stored' = [stored EXCEPT !.due = TRUE]
    /\ UNCHANGED <<fixed, providerVars, secret, pc, callVars, version, account, why, faults>>

TokenExpires ==
    /\ pc = "idle" /\ stored.due /\ stored.access \in live
    /\ live' = live \ {stored.access}
    /\ UNCHANGED <<fixed, issued, grant, keyGood, stored, secret, pc, callVars, version, account,
                   why, faults>>

(* The cached release ages.                                                *)
VersionAges ==
    /\ version # "none" /\ pc = "idle" /\ version' = "none"
    /\ UNCHANGED <<fixed, providerVars, stored, secret, pc, callVars, account, why, faults>>

(* The provider gives up an access token or a session early; this one may  *)
(* be the token that has just replaced a rejected one.                     *)
AccessDies ==
    /\ faults < MaxFaults /\ faults' = faults + 1
    /\ \E n \in live :
         /\ live' = live \ {n}
         /\ why' = why \cup {"early"}
                    \cup (IF retried /\ n = secret.access THEN {"early again"} ELSE {})
    /\ UNCHANGED <<fixed, issued, grant, keyGood, stored, secret, pc, callVars, version, account>>

(* The owner revokes what the app was given.                               *)
Revoke ==
    /\ \/ grant # 0 /\ grant' = 0 /\ live' = {} /\ UNCHANGED keyGood
       \/ provider = "google" /\ keyGood /\ keyGood' = FALSE /\ UNCHANGED <<grant, live>>
    /\ UNCHANGED <<fixed, issued, stored, secret, pc, callVars, version, account, why, faults>>

(* Signing in again gives the account a new credential.                    *)
SignInAgain ==
    /\ pc = "idle" /\ issued < MaxIssued
    /\ issued' = issued + 1 /\ grant' = issued' /\ live' = {issued'} /\ keyGood' = TRUE
    /\ stored' = [refresh |-> issued', access |-> issued', due |-> FALSE, form |-> "clean"]
    /\ secret' = stored'
    /\ account' = [account EXCEPT !.suspended = FALSE]
    /\ why' = {}
    /\ UNCHANGED <<fixed, pc, callVars, version, faults>>

(* The app stops in the middle of a refresh; only what is on disk is left. *)
Crash ==
    /\ pc # "idle" /\ faults < MaxFaults /\ faults' = faults + 1
    /\ pc' = "idle" /\ secret' = stored
    /\ retried' = FALSE /\ pages' = 0 /\ parsed' = <<>> /\ result' = "none"
    /\ version' = "none" /\ told' = Known(account)
    /\ why' = IF secret.refresh # stored.refresh THEN why \cup {"missed"} ELSE why
    /\ UNCHANGED <<fixed, providerVars, stored, account>>

Next ==
    \/ Begin \/ Step
    \/ TokenAges \/ TokenExpires \/ VersionAges \/ AccessDies \/ Revoke \/ SignInAgain \/ Crash

Spec == Init /\ [][Next]_vars

-----------------------------------------------------------------------------
Secrets(n) == [refresh : 1..n, access : 1..n, due : BOOLEAN, form : {"clean", "raw", "bad", "gone"}]
Identity == {"none", "told", "key", "project", "session"}
Owner == [email : BOOLEAN, identity : Identity]

Reasons == {"missed", "early", "early again", "denied", "token refused", "token fault", "worded"}

\* Every variable has its type; credentials are those that were issued.
TypeOK ==
    /\ provider \in Providers /\ cloud \in BOOLEAN
    /\ issued \in 1..MaxIssued /\ grant \in 0..issued /\ live \subseteq 1..issued
    /\ keyGood \in BOOLEAN
    /\ stored \in Secrets(issued) /\ secret \in Secrets(issued)
    /\ pc \in {"idle", "renew", "save", "call", "summary", "models", "list", "cloud",
               "recapture", "profile", "settle"}
    /\ retried \in BOOLEAN /\ pages \in 0..MaxPages /\ version \in {"none", "feed", "floor"}
    /\ result \in {"none", "ok", "transient", "limited", "auth"}
    /\ told \in Owner
    /\ account \in [suspended : BOOLEAN, email : BOOLEAN, identity : Identity]
    /\ why \subseteq Reasons /\ faults \in 0..MaxFaults

(* What may suspend an account although its credential is good: it depends *)
(* on the provider.                                                        *)
Excuses(p) ==
    (IF p \in Cookie \cup {"antigravity"} THEN {"denied"} ELSE {})
      \cup (IF p \in OAuth \cup {"google"} THEN {"token refused"} ELSE {})
      \cup (IF p # "openai" THEN {"token fault"} ELSE {})
      \cup (IF p \in Cookie \cup {"google"} THEN {"early"} ELSE {"early again"})
      \cup (IF p \in Cookie THEN {"worded"} ELSE {})

(* An account is suspended until its owner signs in again only when the    *)
(* provider no longer accepts what is stored, or it rejected a good        *)
(* credential in a way this provider's rules count as final.  A refused    *)
(* or rate-limited usage request at Anthropic or OpenAI never does it      *)
(* alone, and an access token that died early at an OAuth provider only    *)
(* when the one that replaced it dies as well.  OpenCode and Grok may       *)
(* suspend a good session for the wording of an answer they sent to it.     *)
SuspensionHasCause ==
    account.suspended =>
        \/ stored.refresh # grant
        \/ ~keyGood
        \/ stored.form # "clean"
        \/ why \cap Excuses(provider) # {}

(* Between refreshes the disk holds the refresh number the provider        *)
(* accepts, whatever failed after the renewal: only an answer, a save or a *)
(* process lost between the provider's rotation and the disk loses it.     *)
StoredIsNewest ==
    pc = "idle" /\ grant # 0 /\ "missed" \notin why => stored.refresh = grant

-----------------------------------------------------------------------------
(* The inductive invariant.                                                *)

(* Each step of a refresh belongs to its kind of provider.                 *)
StepsFit ==
    /\ pc \in {"renew", "save"} => provider \in OAuth \cup {"google"}
    /\ pc \in {"summary", "models"} => provider = "antigravity"
    /\ pc \in {"list", "cloud"} => provider = "google"
    /\ pc = "recapture" => provider = "grok" /\ secret.form = stored.form
    /\ pc = "call" => provider # "google"
    /\ provider \notin Cookie => stored.form = "clean" /\ secret.form = "clean"
    /\ provider = "opencode" => stored.form \in {"clean", "bad"} /\ secret.form = stored.form
    /\ provider \in Cookie => ~stored.due /\ ~secret.due
    /\ retried => provider \in OAuth

(* A refresh works with the refresh number on disk, except between a         *)
(* renewal and its save; when the save fails, that is remembered.          *)
SecretIsStored ==
    \/ secret.refresh = stored.refresh \/ pc = "save"
    \/ pc = "settle" /\ result = "transient" /\ "missed" \in why

(* It works with the number the provider accepts, and never with an older   *)
(* one than the disk has.                                                  *)
SecretIsNewest ==
    /\ grant # 0 /\ "missed" \notin why => secret.refresh = grant
    /\ stored.refresh = grant => secret.refresh = grant

(* An access token that the provider does not accept is about to be renewed, *)
(* was revoked or died early; one that was renewed after a rejection can     *)
(* only have died early again.                                             *)
DeathsAreKnown ==
    /\ stored.access \in live \/ stored.due \/ grant = 0 \/ "early" \in why
    /\ pc # "idle" => secret.access \in live \/ secret.due \/ grant = 0 \/ "early" \in why
    /\ pc \in {"save", "cloud"} => ~secret.due
    /\ retried /\ pc \in {"save", "call", "summary", "models"} =>
         secret.access \in live \/ grant = 0 \/ "early again" \in why

(* A suspension, and a rejection on its way to one, has a cause that lasts   *)
(* until the owner signs in again or a refresh succeeds.                   *)
Cause ==
    \/ secret.refresh # grant \/ ~keyGood
    \/ stored.form \in {"bad", "gone"}
    \/ why \cap Excuses(provider) # {}

RejectionsHaveCause == account.suspended \/ result = "auth" => Cause

(* There is a result when the refresh has come to its end, and only then.   *)
ResultsFit == result # "none" <=> pc = "settle"

RefreshInv ==
    /\ StepsFit /\ SecretIsStored /\ SecretIsNewest /\ DeathsAreKnown
    /\ RejectionsHaveCause /\ ResultsFit

=============================================================================
