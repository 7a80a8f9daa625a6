------------------------ MODULE ProviderRefreshProofs ------------------------
(***************************************************************************)
(* What ProviderRefresh keeps for every provider, every number of            *)
(* credentials, pages and accidents: its types, that a suspension has a     *)
(* cause, and that the disk has the newest refresh number.  The windows an   *)
(* answer gives play no part in it.  At the end, when the refresh loop      *)
(* (RefreshSchedule) calls a provider again.                               *)
(***************************************************************************)
EXTENDS ProviderRefresh, RefreshSchedule, TLAPS

(* What an answer can mean: a rejection is a 401 to a credential that is not *)
(* accepted, or a 403 where this provider's 403 is a rejection.             *)
LEMMA ReadMeans ==
  ASSUME NEW p, NEW accepted \in BOOLEAN, NEW answer \in Answers(accepted)
  PROVE  /\ Read(p, answer) \in {"ok", "transient", "limited", "auth"}
         /\ Read(p, answer) = "ok" => accepted
         /\ Read(p, answer) = "auth" =>
              \/ answer.status = "401" /\ ~accepted
              \/ answer.status = "403" /\ ForbiddenIsAuth(p)
  BY DEF Answers, Read, ErrorOf

(* No credential has the number that stands for a revoked one. *)
LEMMA NumbersStartAtOne ==
  ASSUME TypeOK
  PROVE  issued \in Nat /\ stored.refresh # 0 /\ secret.refresh # 0
<1>1. issued \in Nat /\ stored.refresh \in 1..issued /\ secret.refresh \in 1..issued
  BY ProviderAssumption DEF TypeOK, Secrets
<1> QED BY <1>1

(* The invariant says nothing of the release, the pages and the windows. *)
LEMMA VersionIsApart ==
  ASSUME RefreshInv,
         UNCHANGED <<fixed, providerVars, stored, secret, pc, retried, result, account, why>>
  PROVE  RefreshInv'
<1>1. StepsFit' /\ ResultsFit' /\ SecretIsStored' /\ SecretIsNewest'
  BY DEF RefreshInv, StepsFit, ResultsFit, SecretIsStored, SecretIsNewest,
         fixed, providerVars
<1>2. DeathsAreKnown'
  BY DEF RefreshInv, DeathsAreKnown, providerVars
<1>3. RejectionsHaveCause'
  BY DEF RefreshInv, RejectionsHaveCause, Cause, fixed, providerVars
<1> QED BY <1>1, <1>2, <1>3 DEF RefreshInv

(* A request leaves the credentials, the provider and the account alone; it   *)
(* moves on to a step of the same provider, may renew a rejected token once, *)
(* and a rejection that stands has a cause.                                *)
LEMMA CallKeeps ==
  ASSUME TypeOK, RefreshInv,
         UNCHANGED <<fixed, providerVars, stored, secret, account>>,
         pc \in {"call", "summary", "models", "list", "cloud", "profile"},
         pc' \in {"renew", "call", "summary", "models", "cloud", "profile", "settle", "list"},
         pc' = "renew" => provider \in OAuth \cup {"google"},
         pc' \in {"summary", "models"} =>
           provider = "antigravity" /\ pc \in {"call", "summary", "models"},
         pc' \in {"list", "cloud"} => provider = "google" /\ (pc' = "cloud" => ~secret.due),
         pc' = "call" => provider # "google" /\ (pc = "call" \/ provider = "grok"),
         why \subseteq why', why' \subseteq Reasons,
         retried' # retried => pc' = "renew" /\ provider \in OAuth,
         result' # "none" <=> pc' = "settle",
         result' = "auth" => Cause'
  PROVE  RefreshInv'
<1>1. StepsFit'
  BY DEF RefreshInv, StepsFit, fixed
<1>2. SecretIsStored'
  BY DEF RefreshInv, SecretIsStored
<1>3. SecretIsNewest'
  BY DEF RefreshInv, SecretIsNewest, providerVars
<1>4. DeathsAreKnown'
  <2>1. /\ stored.access \in live \/ stored.due \/ grant = 0 \/ "early" \in why'
        /\ secret.access \in live \/ secret.due \/ grant = 0 \/ "early" \in why'
    BY DEF RefreshInv, DeathsAreKnown
  <2>2. pc' \in {"save", "cloud"} => ~secret.due
    OBVIOUS
  <2>3. ASSUME retried', pc' \in {"save", "call", "summary", "models"}
        PROVE  secret.access \in live \/ grant = 0 \/ "early again" \in why'
    BY <2>3 DEF RefreshInv, DeathsAreKnown, StepsFit, OAuth, fixed
  <2> QED BY <2>1, <2>2, <2>3 DEF DeathsAreKnown, providerVars
<1>5. RejectionsHaveCause'
  BY DEF RefreshInv, RejectionsHaveCause, Cause, providerVars, fixed
<1>6. ResultsFit'
  BY DEF ResultsFit
<1> QED BY <1>1, <1>2, <1>3, <1>4, <1>5, <1>6 DEF RefreshInv

(* A refusal of a good credential is remembered. *)
LEMMA RefusalIsKept ==
  ASSUME NEW accepted \in BOOLEAN, NEW answer \in Answers(accepted), NEW what \in Reasons,
         TypeOK
  PROVE  /\ why \subseteq Refused(accepted, answer, what)
         /\ Refused(accepted, answer, what) \subseteq Reasons
         /\ accepted /\ answer.status = "403" => what \in Refused(accepted, answer, what)
  BY DEF Refused, TypeOK

(* A rejection that stands has a cause: the credential was revoked or replaced, *)
(* or it was good and this provider's rules count the refusal as final.       *)
LEMMA RejectionStands ==
  ASSUME TypeOK, RefreshInv,
         UNCHANGED <<fixed, providerVars, stored, secret, account>>,
         pc \in {"call", "summary", "models", "cloud"},
         NEW answer \in Answers(Accepted), Read(provider, answer) = "auth",
         why \subseteq why',
         Accepted /\ answer.status = "403" => provider = "google" \/ "denied" \in why',
         provider \in OAuth => retried
  PROVE  Cause'
<1>1. /\ Accepted \in BOOLEAN /\ provider \in OAuth \cup Cookie \cup {"google"}
      /\ secret.refresh # 0
  BY ProviderAssumption DEF Accepted, TypeOK, Secrets
<1>2. \/ answer.status = "401" /\ ~Accepted
      \/ answer.status = "403" /\ ForbiddenIsAuth(provider)
  BY <1>1, ReadMeans
<1>3. CASE ~Accepted
  <2>1. secret.access \notin live /\ (grant = 0 => secret.refresh # grant)
    BY <1>1, <1>3 DEF Accepted
  <2>2. CASE provider \in OAuth
    <3>1. grant = 0 \/ "early again" \in why'
      BY <2>1, <2>2 DEF RefreshInv, DeathsAreKnown, StepsFit, OAuth
    <3>2. "early again" \in Excuses(provider)
      BY <2>2 DEF Excuses, OAuth, Cookie
    <3> QED BY <2>1, <3>1, <3>2 DEF Cause, providerVars, fixed
  <2>3. CASE provider \in Cookie \cup {"google"}
    <3>1. ~secret.due
      BY <2>3 DEF RefreshInv, DeathsAreKnown, StepsFit, OAuth, Cookie
    <3>2. grant = 0 \/ "early" \in why'
      BY <2>1, <3>1 DEF RefreshInv, DeathsAreKnown
    <3>3. "early" \in Excuses(provider)
      BY <2>3 DEF Excuses
    <3> QED BY <2>1, <3>2, <3>3 DEF Cause, providerVars, fixed
  <2> QED BY <1>1, <2>2, <2>3
<1>4. CASE Accepted
  <2>1. ForbiddenIsAuth(provider) /\ "denied" \in why'
    BY <1>2, <1>4 DEF ForbiddenIsAuth
  <2>2. "denied" \in Excuses(provider)
    BY <2>1 DEF ForbiddenIsAuth, Excuses, Cookie
  <2> QED BY <2>1, <2>2 DEF Cause, fixed
<1> QED BY <1>3, <1>4

(* A usage request at Anthropic or OpenAI. *)
LEMMA CallUsageStep ==
  ASSUME TypeOK, RefreshInv, CallUsage
  PROVE  TypeOK' /\ RefreshInv'
<1>1. Accepted \in BOOLEAN
  BY DEF Accepted
<1>2. PICK answer \in Answers(Accepted) :
         /\ why' = Refused(Accepted, answer, "denied")
         /\ IF Read(provider, answer) = "ok"
              THEN /\ \E windows \in UsageWindows : ParsedThen(windows, provider = "anthropic")
                   /\ UNCHANGED retried
              ELSE OnError(Read(provider, answer)) /\ UNCHANGED parsed
  BY DEF CallUsage
<1>3. /\ pc = "call" /\ provider \in {"anthropic", "openai"}
      /\ UNCHANGED <<fixed, providerVars, stored, secret, account, pages, told, version, faults>>
  BY DEF CallUsage
<1>4. /\ why \subseteq why' /\ why' \subseteq Reasons
      /\ Accepted /\ answer.status = "403" => "denied" \in why'
  BY <1>1, <1>2, RefusalIsKept DEF Reasons
<1>5. result = "none"
  BY <1>3 DEF RefreshInv, ResultsFit
<1>6. \/ /\ pc' = "renew" /\ ~retried /\ retried' = TRUE /\ UNCHANGED result
      \/ /\ pc' = "profile" /\ UNCHANGED <<retried, result>>
      \/ /\ pc' = "settle" /\ UNCHANGED retried
         /\ result' \in {"ok", "transient", "limited", "auth"}
         /\ result' = "auth" => Read(provider, answer) = "auth" /\ retried
  BY <1>1, <1>2, <1>3, ReadMeans DEF ParsedThen, Parsed, OnError, Finish, OAuth
<1>7. result' = "auth" => Cause'
  BY <1>3, <1>4, <1>5, <1>6, RejectionStands
<1>8. RefreshInv'
  BY <1>3, <1>4, <1>5, <1>6, <1>7, CallKeeps DEF OAuth
<1>9. TypeOK'
  BY <1>3, <1>4, <1>5, <1>6 DEF TypeOK, fixed, providerVars
<1> QED BY <1>8, <1>9

(* Antigravity's three requests. *)
LEMMA LoadCodeAssistStep ==
  ASSUME TypeOK, RefreshInv, LoadCodeAssist
  PROVE  TypeOK' /\ RefreshInv'
<1>1. Accepted \in BOOLEAN
  BY DEF Accepted
<1>2. PICK answer \in Answers(Accepted), project \in BOOLEAN :
         /\ why' = Refused(Accepted, answer, "denied")
         /\ IF Read(provider, answer) # "ok" THEN OnError(Read(provider, answer))
            ELSE IF project THEN pc' = "summary" /\ UNCHANGED <<retried, result>>
            ELSE Finish("transient") /\ UNCHANGED retried
         /\ told' = IF project THEN [told EXCEPT !.identity = "project"] ELSE told
  BY DEF LoadCodeAssist
<1>3. /\ pc = "call" /\ provider = "antigravity"
      /\ UNCHANGED <<fixed, providerVars, stored, secret, account, pages, parsed, version, faults>>
  BY DEF LoadCodeAssist
<1>4. /\ why \subseteq why' /\ why' \subseteq Reasons
      /\ Accepted /\ answer.status = "403" => "denied" \in why'
  BY <1>1, <1>2, RefusalIsKept DEF Reasons
<1>5. result = "none"
  BY <1>3 DEF RefreshInv, ResultsFit
<1>6. \/ /\ pc' = "renew" /\ ~retried /\ retried' = TRUE /\ UNCHANGED result
      \/ /\ pc' = "summary" /\ UNCHANGED <<retried, result>>
      \/ /\ pc' = "settle" /\ UNCHANGED retried
         /\ result' \in {"ok", "transient", "limited", "auth"}
         /\ result' = "auth" => Read(provider, answer) = "auth" /\ retried
  BY <1>1, <1>2, <1>3, ReadMeans DEF OnError, Finish, OAuth
<1>7. result' = "auth" => Cause'
  BY <1>3, <1>4, <1>5, <1>6, RejectionStands
<1>8. RefreshInv'
  BY <1>3, <1>4, <1>5, <1>6, <1>7, CallKeeps DEF OAuth
<1>9. told' \in Owner
  BY <1>2 DEF TypeOK, Owner, Identity
<1>10. TypeOK'
  BY <1>3, <1>4, <1>5, <1>6, <1>9 DEF TypeOK, fixed, providerVars
<1> QED BY <1>8, <1>10

LEMMA RetrieveSummaryStep ==
  ASSUME TypeOK, RefreshInv, RetrieveSummary
  PROVE  TypeOK' /\ RefreshInv'
<1>1. Accepted \in BOOLEAN
  BY DEF Accepted
<1>2. PICK answer \in Answers(Accepted), buckets \in QuotaSummaries :
         LET windows == AntigravityWindows(buckets)
         IN  /\ why' = Refused(Accepted, answer, "denied")
             /\ CASE Read(provider, answer) = "auth" ->
                       OnError("auth") /\ UNCHANGED parsed
                  [] Read(provider, answer) = "ok" /\ windows # <<>> ->
                       ParsedThen(windows, ~account.email) /\ UNCHANGED retried
                  [] OTHER -> pc' = "models" /\ UNCHANGED <<retried, parsed, result>>
  BY DEF RetrieveSummary
<1>3. /\ pc = "summary" /\ provider = "antigravity"
      /\ UNCHANGED <<fixed, providerVars, stored, secret, account, pages, told, version, faults>>
  BY DEF RetrieveSummary, RefreshInv, StepsFit
<1>4. /\ why \subseteq why' /\ why' \subseteq Reasons
      /\ Accepted /\ answer.status = "403" => "denied" \in why'
  BY <1>1, <1>2, RefusalIsKept DEF Reasons
<1>5. result = "none"
  BY <1>3 DEF RefreshInv, ResultsFit
<1>6. \/ /\ pc' = "renew" /\ ~retried /\ retried' = TRUE /\ UNCHANGED result
      \/ /\ pc' \in {"models", "profile"} /\ UNCHANGED <<retried, result>>
      \/ /\ pc' = "settle" /\ UNCHANGED retried
         /\ result' \in {"ok", "transient", "auth"}
         /\ result' = "auth" => Read(provider, answer) = "auth" /\ retried
  BY <1>2, <1>3 DEF ParsedThen, Parsed, OnError, Finish, OAuth
<1>7. result' = "auth" => Cause'
  BY <1>3, <1>4, <1>5, <1>6, RejectionStands
<1>8. RefreshInv'
  BY <1>3, <1>4, <1>5, <1>6, <1>7, CallKeeps DEF OAuth
<1>9. TypeOK'
  BY <1>3, <1>4, <1>5, <1>6 DEF TypeOK, fixed, providerVars
<1> QED BY <1>8, <1>9

LEMMA FetchModelsStep ==
  ASSUME TypeOK, RefreshInv, FetchModels
  PROVE  TypeOK' /\ RefreshInv'
<1>1. Accepted \in BOOLEAN
  BY DEF Accepted
<1>2. PICK answer \in Answers(Accepted), models \in {<<>>, SetToSeq(Models)} :
         /\ why' = Refused(Accepted, answer, "denied")
         /\ IF Read(provider, answer) = "ok"
              THEN ParsedThen(AvailableModels(models), ~account.email) /\ UNCHANGED retried
              ELSE OnError(Read(provider, answer)) /\ UNCHANGED parsed
  BY DEF FetchModels
<1>3. /\ pc = "models" /\ provider = "antigravity"
      /\ UNCHANGED <<fixed, providerVars, stored, secret, account, pages, told, version, faults>>
  BY DEF FetchModels, RefreshInv, StepsFit
<1>4. /\ why \subseteq why' /\ why' \subseteq Reasons
      /\ Accepted /\ answer.status = "403" => "denied" \in why'
  BY <1>1, <1>2, RefusalIsKept DEF Reasons
<1>5. result = "none"
  BY <1>3 DEF RefreshInv, ResultsFit
<1>6. \/ /\ pc' = "renew" /\ ~retried /\ retried' = TRUE /\ UNCHANGED result
      \/ /\ pc' = "profile" /\ UNCHANGED <<retried, result>>
      \/ /\ pc' = "settle" /\ UNCHANGED retried
         /\ result' \in {"ok", "transient", "limited", "auth"}
         /\ result' = "auth" => Read(provider, answer) = "auth" /\ retried
  BY <1>1, <1>2, <1>3, ReadMeans DEF ParsedThen, Parsed, OnError, Finish, OAuth
<1>7. result' = "auth" => Cause'
  BY <1>3, <1>4, <1>5, <1>6, RejectionStands
<1>8. RefreshInv'
  BY <1>3, <1>4, <1>5, <1>6, <1>7, CallKeeps DEF OAuth
<1>9. TypeOK'
  BY <1>3, <1>4, <1>5, <1>6 DEF TypeOK, fixed, providerVars
<1> QED BY <1>8, <1>9

LEMMA ResolveVersionStep ==
  ASSUME TypeOK, RefreshInv, ResolveVersion
  PROVE  TypeOK' /\ RefreshInv'
<1>1. RefreshInv'
  BY VersionIsApart DEF ResolveVersion, callVars
<1>2. TypeOK'
  BY DEF ResolveVersion, TypeOK, fixed, providerVars, callVars, Known
<1> QED BY <1>1, <1>2


(* Google AI Studio's two requests: the key's, and the Cloud credential's. *)
LEMMA ListModelsStep ==
  ASSUME TypeOK, RefreshInv, ListModels
  PROVE  TypeOK' /\ RefreshInv'
<1>1. keyGood \in BOOLEAN
  BY DEF TypeOK
<1>2. PICK answer \in Answers(keyGood) :
         IF Read(provider, answer) # "ok"
           THEN Finish(Read(provider, answer)) /\ UNCHANGED <<pages, parsed>>
           ELSE \/ /\ pages + 1 < MaxPages /\ pages' = pages + 1
                   /\ UNCHANGED <<pc, parsed, result>>
                \/ /\ UNCHANGED pages
                   /\ \E selected \in SUBSET Models :
                        IF selected = {} \/ ~cloud
                          THEN Parsed(SetToSeq(ModelWindows(selected)))
                          ELSE /\ parsed' = SetToSeq(ModelWindows(selected))
                               /\ pc' = IF secret.due THEN "renew" ELSE "cloud"
                               /\ UNCHANGED result
  BY DEF ListModels
<1>3. /\ pc = "list" /\ provider = "google" /\ result = "none"
      /\ UNCHANGED <<fixed, providerVars, stored, secret, account, retried, told, version, why, faults>>
  BY DEF ListModels, RefreshInv, StepsFit, ResultsFit
<1>4. /\ \/ pc' \in {"list", "renew", "cloud"} /\ UNCHANGED result
         \/ pc' = "settle" /\ result' \in {"ok", "transient", "limited", "auth"}
      /\ pc' = "cloud" => ~secret.due
      /\ result' = "auth" => Read(provider, answer) = "auth"
      /\ pages' \in 0..MaxPages
  <2>1. pages + 1 < MaxPages => pages + 1 \in 0..MaxPages
    BY ProviderAssumption DEF TypeOK
  <2> QED BY <1>1, <1>2, <1>3, <2>1, ReadMeans DEF Parsed, Finish, TypeOK
<1>5. result' = "auth" => Cause'
  <2> HAVE result' = "auth"
  <2>1. ~keyGood
    BY <1>1, <1>3, <1>4, ReadMeans DEF ForbiddenIsAuth
  <2> QED BY <1>3, <2>1 DEF Cause, providerVars
<1>6. why \subseteq Reasons
  BY DEF TypeOK
<1>7. RefreshInv'
  BY <1>3, <1>4, <1>5, <1>6, CallKeeps
<1>8. TypeOK'
  BY <1>3, <1>4 DEF TypeOK, fixed, providerVars
<1> QED BY <1>7, <1>8

LEMMA ReadMonitoringStep ==
  ASSUME TypeOK, RefreshInv, ReadMonitoring
  PROVE  TypeOK' /\ RefreshInv'
<1>1. Accepted \in BOOLEAN
  BY DEF Accepted
<1>2. PICK answer \in Answers(Accepted) :
         IF Read(provider, answer) # "ok"
           THEN Finish(Read(provider, answer)) /\ UNCHANGED <<parsed, told>>
           ELSE /\ told' = [told EXCEPT !.identity = "project"]
                /\ \E windows : Parsed(windows)
  BY DEF ReadMonitoring
<1>3. /\ pc = "cloud" /\ provider = "google"
      /\ UNCHANGED <<fixed, providerVars, stored, secret, account, retried, pages, version, why, faults>>
  BY DEF ReadMonitoring, RefreshInv, StepsFit
<1>4. /\ pc' = "settle" /\ result' \in {"ok", "transient", "limited", "auth"}
      /\ result' = "auth" => Read(provider, answer) = "auth"
      /\ told' \in Owner
  BY <1>1, <1>2, ReadMeans DEF Parsed, Finish, TypeOK, Owner, Identity
<1>5. result' = "auth" => Cause'
  BY <1>3, <1>4, RejectionStands DEF OAuth
<1>6. why \subseteq Reasons
  BY DEF TypeOK
<1>7. RefreshInv'
  BY <1>3, <1>4, <1>5, <1>6, CallKeeps
<1>8. TypeOK'
  BY <1>3, <1>4 DEF TypeOK, fixed, providerVars
<1> QED BY <1>7, <1>8

(* OpenCode's page. *)
LEMMA ReadDashboardStep ==
  ASSUME TypeOK, RefreshInv, ReadDashboard
  PROVE  TypeOK' /\ RefreshInv'
<1>1. Accepted \in BOOLEAN /\ [status |-> "401", body |-> "good"] \in Answers(FALSE)
  BY DEF Accepted, Answers
<1>2. /\ pc = "call" /\ provider = "opencode"
      /\ UNCHANGED <<fixed, providerVars, stored, secret, account, retried, pages, version, faults>>
  BY DEF ReadDashboard
<1> DEFINE Ends == /\ why \subseteq why' /\ why' \subseteq Reasons
                   /\ pc' = "settle" /\ result' \in {"ok", "transient", "limited", "auth"}
                   /\ result' = "auth" => Cause'
                   /\ told' \in Owner
<1>3. told \in Owner /\ why \subseteq Reasons
  BY DEF TypeOK
<1>4. ASSUME secret.form = "bad", \E r \in {"auth", "transient"} : Finish(r),
             UNCHANGED <<parsed, told, why>>
      PROVE  Ends
  <2>1. stored.form = "bad"
    BY <1>2, <1>4 DEF RefreshInv, StepsFit
  <2> QED BY <1>2, <1>3, <1>4, <2>1 DEF Finish, Cause
<1>5. ASSUME ~Accepted, Finish("auth"), UNCHANGED <<parsed, told, why>> PROVE Ends
  <2> DEFINE answer == [status |-> "401", body |-> "good"]
  <2>1. answer \in Answers(Accepted) /\ Read(provider, answer) = "auth"
    BY <1>5, <1>1 DEF Read, ErrorOf
  <2>2. Accepted /\ answer.status = "403" => "denied" \in why'
    BY <1>5
  <2>3. Cause'
    BY <1>2, <1>5, <2>1, <2>2, RejectionStands DEF OAuth
  <2> QED BY <1>3, <1>5, <2>3 DEF Finish
<1>6. ASSUME NEW answer \in Answers(Accepted), NEW login \in BOOLEAN,
             why' = IF Read(provider, answer) = "ok" /\ login THEN why \cup {"worded"}
                    ELSE Refused(Accepted, answer, "denied"),
             IF Read(provider, answer) = "ok" /\ ~login
               THEN \E windows : \E found \in BOOLEAN :
                      Parsed(windows) /\ told' = [email |-> told.email \/ found, identity |-> "told"]
               ELSE /\ Finish(IF Read(provider, answer) = "ok" THEN "auth"
                              ELSE Read(provider, answer))
                    /\ UNCHANGED told
      PROVE  Ends
  <2> DEFINE read == Read(provider, answer)
  <2>1. read \in {"ok", "transient", "limited", "auth"}
    BY <1>1, ReadMeans
  <2> HIDE DEF read
  <2>2. CASE read = "ok" /\ ~login
    <3>1. /\ pc' = "settle" /\ result' \in {"ok", "transient"}
          /\ \E found \in BOOLEAN : told' = [email |-> told.email \/ found, identity |-> "told"]
      BY <1>6, <2>2 DEF Parsed, Finish, read
    <3>2. \A found \in BOOLEAN : [email |-> told.email \/ found, identity |-> "told"] \in Owner
      BY DEF Owner, Identity
    <3>3. why \subseteq why' /\ why' \subseteq Reasons
      BY <1>3, <1>6, <2>2 DEF Refused, Reasons, read
    <3> QED BY <3>1, <3>2, <3>3
  <2>3. CASE read = "ok" /\ login
    <3>1. /\ pc' = "settle" /\ result' = "auth" /\ told' = told /\ why' = why \cup {"worded"}
      BY <1>6, <2>3 DEF Finish, read
    <3>2. Cause'
      BY <1>2, <3>1 DEF Cause, Excuses, fixed, Cookie
    <3> QED BY <1>3, <3>1, <3>2 DEF Reasons
  <2>4. CASE read # "ok"
    <3>1. /\ pc' = "settle" /\ result' = read /\ told' = told
          /\ why' = Refused(Accepted, answer, "denied")
      BY <1>6, <2>4 DEF Finish, read
    <3>2. /\ why \subseteq why' /\ why' \subseteq Reasons
          /\ Accepted /\ answer.status = "403" => "denied" \in why'
      BY <1>1, <1>3, <3>1, RefusalIsKept DEF Reasons
    <3>3. read = "auth" => Cause'
      BY <1>2, <3>1, <3>2, RejectionStands DEF OAuth, read
    <3> QED BY <1>3, <2>1, <3>1, <3>2, <3>3
  <2> QED BY <2>2, <2>3, <2>4
<1>7. Ends
  BY <1>4, <1>5, <1>6 DEF ReadDashboard
<1>8. RefreshInv'
  BY <1>2, <1>7, CallKeeps
<1>9. TypeOK'
  BY <1>2, <1>7 DEF TypeOK, fixed, providerVars
<1> QED BY <1>8, <1>9


(* Grok: the cookies, the billing answer, and who owns an account. *)
LEMMA RecaptureCookiesStep ==
  ASSUME TypeOK, RefreshInv, RecaptureCookies
  PROVE  TypeOK' /\ RefreshInv'
<1> DEFINE next == [secret EXCEPT !.form = CASE @ = "raw" -> "clean"
                                             [] @ = "bad" -> "gone"
                                             [] OTHER -> @]
<1>1. /\ pc = "recapture" /\ provider = "grok" /\ result = "none" /\ ~retried
      /\ secret.form = stored.form /\ secret.refresh = stored.refresh
      /\ UNCHANGED <<fixed, providerVars, retried, pages, parsed, told, version, account, why>>
  BY DEF RecaptureCookies, RefreshInv, StepsFit, ResultsFit, SecretIsStored,
         OAuth
<1>2. /\ secret' = next
      /\ stored' = next \/ stored' = stored
      /\ faults' \in 0..MaxFaults
      /\ \/ next.form = "gone" /\ pc' = "settle" /\ result' = "auth"
         \/ next.form # "gone" /\ pc' \in {"call", "profile"} /\ UNCHANGED result
  BY ProviderAssumption DEF RecaptureCookies, Finish, TypeOK
<1>3. /\ next \in Secrets(issued)
      /\ next.refresh = secret.refresh /\ next.access = secret.access /\ next.due = secret.due
      /\ next.form = "gone" => secret.form \in {"bad", "gone"}
      /\ secret.form \in {"bad", "gone"} => next.form = "gone"
  BY DEF TypeOK, Secrets
<1> HIDE DEF next
<1>4. TypeOK'
  BY <1>1, <1>2, <1>3 DEF TypeOK, fixed, providerVars
<1>5. StepsFit' /\ ResultsFit'
  BY <1>1, <1>2, <1>3 DEF RefreshInv, StepsFit, ResultsFit, fixed, Cookie, OAuth
<1>6. SecretIsStored' /\ SecretIsNewest'
  BY <1>1, <1>2, <1>3
     DEF RefreshInv, SecretIsStored, SecretIsNewest, providerVars
<1>7. DeathsAreKnown'
  BY <1>1, <1>2, <1>3 DEF RefreshInv, DeathsAreKnown, providerVars
<1>8. RejectionsHaveCause'
  BY <1>1, <1>2, <1>3
     DEF RefreshInv, RejectionsHaveCause, Cause, providerVars, fixed
<1> QED BY <1>4, <1>5, <1>6, <1>7, <1>8 DEF RefreshInv

LEMMA ReadBillingStep ==
  ASSUME TypeOK, RefreshInv, ReadBilling
  PROVE  TypeOK' /\ RefreshInv'
<1>1. Accepted \in BOOLEAN
  BY DEF Accepted
<1>2. PICK answer \in Answers(Accepted), grpc \in {"ok", "session", "no team"} :
         LET read == Read(provider, answer)
         IN  /\ why' = IF read = "ok" /\ grpc = "session" THEN why \cup {"worded"}
                       ELSE Refused(Accepted, answer, "denied")
             /\ IF read = "ok" /\ grpc = "ok"
                  THEN /\ \E windows : Parsed(windows)
                       /\ told' = [told EXCEPT !.identity = IF @ = "none" THEN "session" ELSE @]
                  ELSE /\ Finish(CASE read # "ok" -> read
                                    [] read = "ok" /\ grpc = "session" -> "auth"
                                    [] OTHER -> "transient")
                       /\ UNCHANGED <<parsed, told>>
  BY DEF ReadBilling
<1>3. /\ pc = "call" /\ provider = "grok"
      /\ UNCHANGED <<fixed, providerVars, stored, secret, account, retried, pages, version, faults>>
  BY DEF ReadBilling
<1>4. /\ why \subseteq why' /\ why' \subseteq Reasons
      /\ Read(provider, answer) # "ok" /\ Accepted /\ answer.status = "403" => "denied" \in why'
      /\ Read(provider, answer) = "ok" /\ grpc = "session" => "worded" \in why'
  BY <1>1, <1>2, RefusalIsKept DEF Reasons, TypeOK
<1>5. /\ pc' = "settle" /\ result' \in {"ok", "transient", "limited", "auth"}
      /\ result' = "auth" => \/ Read(provider, answer) = "auth"
                             \/ Read(provider, answer) = "ok" /\ grpc = "session"
      /\ told' \in Owner
  <2>1. told' \in Owner
    BY <1>2 DEF TypeOK, Owner, Identity
  <2>2. /\ pc' = "settle"
        /\ \/ result' \in {"ok", "transient"}
           \/ result' = "auth" /\ Read(provider, answer) = "ok" /\ grpc = "session"
           \/ result' = Read(provider, answer)
    <3>1. CASE Read(provider, answer) = "ok" /\ grpc = "ok"
      BY <1>2, <3>1 DEF Parsed, Finish
    <3>2. CASE Read(provider, answer) = "ok" /\ grpc # "ok"
      BY <1>2, <3>2 DEF Finish
    <3>3. CASE Read(provider, answer) # "ok"
      BY <1>2, <3>3 DEF Finish
    <3> QED BY <3>1, <3>2, <3>3
  <2>3. Read(provider, answer) \in {"ok", "transient", "limited", "auth"}
    BY <1>1, ReadMeans
  <2> QED BY <2>1, <2>2, <2>3
<1>6. result' = "auth" => Cause'
  <2>1. CASE Read(provider, answer) = "auth"
    BY <1>3, <1>4, <2>1, RejectionStands DEF OAuth
  <2>2. CASE "worded" \in why'
    BY <1>3, <2>2 DEF Cause, Excuses, Cookie, fixed
  <2> QED BY <1>4, <1>5, <2>1, <2>2
<1>7. RefreshInv'
  BY <1>3, <1>4, <1>5, <1>6, CallKeeps
<1>8. TypeOK'
  BY <1>3, <1>4, <1>5 DEF TypeOK, fixed, providerVars
<1> QED BY <1>7, <1>8

LEMMA ReadProfileStep ==
  ASSUME TypeOK, RefreshInv, ReadProfile
  PROVE  TypeOK' /\ RefreshInv'
<1>1. /\ pc = "profile" /\ result = "none"
      /\ UNCHANGED <<fixed, providerVars, stored, secret, retried, pages, parsed, version, account,
                     why, faults>>
  BY DEF ReadProfile, RefreshInv, ResultsFit
<1>2. \/ provider = "grok" /\ pc' = "call" /\ UNCHANGED result
      \/ pc' = "settle" /\ result' = "ok"
  BY DEF ReadProfile, Finish
<1>3. told' \in Owner
  <2>1. \A found : Profile(found) \in Owner
    BY DEF Profile, TypeOK, Owner, Identity
  <2> QED BY <2>1 DEF ReadProfile
<1>4. why \subseteq Reasons
  BY DEF TypeOK
<1>5. RefreshInv'
  BY <1>1, <1>2, <1>4, CallKeeps
<1>6. TypeOK'
  BY <1>1, <1>2, <1>3 DEF TypeOK, fixed, providerVars
<1> QED BY <1>5, <1>6


(* The renewal of a token, and its save. *)
LEMMA RenewIssuedStep ==
  ASSUME TypeOK, RefreshInv, RenewIssued
  PROVE  TypeOK' /\ RefreshInv'
<1>1. PICK rotated \in BOOLEAN, usable \in BOOLEAN :
         LET n == issued + 1
         IN  /\ issued' = n /\ live' = live \cup {n}
             /\ grant' = IF rotated THEN n ELSE grant
             /\ IF usable
                  THEN /\ secret' = [secret EXCEPT !.access = n, !.due = FALSE,
                                       !.refresh = IF rotated THEN n ELSE @]
                       /\ pc' = "save" /\ UNCHANGED <<result, why>>
                  ELSE /\ Finish("transient")
                       /\ why' = IF rotated THEN why \cup {"missed"} ELSE why
                       /\ UNCHANGED secret
  BY DEF RenewIssued
<1>2. /\ pc = "renew" /\ grant # 0 /\ secret.refresh = grant /\ issued < MaxIssued
      /\ UNCHANGED <<fixed, keyGood, stored, retried, pages, parsed, told, version, account, faults>>
      /\ result = "none" /\ secret.refresh = stored.refresh
      /\ provider \in OAuth \cup {"google"}
  BY DEF RenewIssued, GrantGood, RefreshInv, ResultsFit, SecretIsStored,
         StepsFit
<1>3. /\ issued \in Nat /\ issued + 1 \in 1..MaxIssued /\ 1..issued \subseteq 1..(issued + 1)
      /\ stored.refresh # issued + 1 /\ grant \in 0..issued
  BY <1>2, ProviderAssumption DEF TypeOK, Secrets
<1>4. /\ stored \in Secrets(issued + 1) /\ secret \in Secrets(issued + 1)
      /\ live \cup {issued + 1} \subseteq 1..(issued + 1) /\ issued + 1 \in 1..(issued + 1)
      /\ grant \in 0..(issued + 1) /\ issued + 1 \in 0..(issued + 1)
  <2>1. \A s \in Secrets(issued) : s \in Secrets(issued + 1)
    BY <1>3 DEF Secrets
  <2>2. live \cup {issued + 1} \subseteq 1..(issued + 1) /\ issued + 1 \in 1..(issued + 1)
    BY <1>3 DEF TypeOK
  <2> QED BY <1>3, <2>1, <2>2 DEF TypeOK
<1>5. CASE usable
  <2>1. /\ pc' = "save" /\ UNCHANGED <<result, why>>
        /\ secret' \in Secrets(issued + 1) /\ secret'.access = issued + 1 /\ ~secret'.due
        /\ secret'.refresh = grant' /\ secret'.form = secret.form
        /\ grant' = grant \/ (grant' = issued + 1 /\ grant' # stored.refresh)
    BY <1>1, <1>2, <1>3, <1>4, <1>5 DEF Secrets
  <2>2. TypeOK'
    BY <1>1, <1>2, <1>3, <1>4, <2>1 DEF TypeOK, fixed
  <2>3. StepsFit' /\ ResultsFit' /\ SecretIsStored' /\ SecretIsNewest'
    BY <1>2, <2>1
       DEF RefreshInv, StepsFit, ResultsFit, SecretIsStored, SecretIsNewest,
           fixed, Cookie, OAuth
  <2>4. DeathsAreKnown'
    BY <1>1, <1>2, <2>1 DEF RefreshInv, DeathsAreKnown
  <2>5. RejectionsHaveCause'
    BY <1>2, <2>1 DEF RefreshInv, RejectionsHaveCause, Cause, fixed
  <2> QED BY <2>2, <2>3, <2>4, <2>5 DEF RefreshInv
<1>6. CASE ~usable
  <2>1. /\ pc' = "settle" /\ result' = "transient" /\ UNCHANGED secret
        /\ why \subseteq why' /\ why' \subseteq Reasons
        /\ grant' = grant \/ (grant' = issued + 1 /\ "missed" \in why')
    BY <1>1, <1>6 DEF Finish, TypeOK, Reasons
  <2>2. TypeOK'
    BY <1>1, <1>2, <1>3, <1>4, <2>1 DEF TypeOK, fixed
  <2>3. StepsFit' /\ ResultsFit' /\ SecretIsStored' /\ SecretIsNewest'
    BY <1>2, <1>3, <2>1
       DEF RefreshInv, StepsFit, ResultsFit, SecretIsStored, SecretIsNewest,
           fixed
  <2>4. DeathsAreKnown'
    BY <1>1, <1>2, <1>3, <2>1 DEF RefreshInv, DeathsAreKnown
  <2>5. RejectionsHaveCause'
    BY <1>2, <1>3, <2>1 DEF RefreshInv, RejectionsHaveCause, Cause, fixed
  <2> QED BY <2>2, <2>3, <2>4, <2>5 DEF RefreshInv
<1> QED BY <1>5, <1>6

LEMMA RenewRefusedStep ==
  ASSUME TypeOK, RefreshInv, RenewRefused
  PROVE  TypeOK' /\ RefreshInv'
<1>1. PICK status \in {"403", "429", "500", "500 invalid_grant", "lost"}
                       \cup (IF GrantGood THEN {} ELSE {"401", "400 invalid_grant"}) :
         /\ Finish(IF NeedsNewSignIn(provider, status) THEN "auth" ELSE "transient")
         /\ why' = CASE GrantGood /\ status = "403" -> why \cup {"token refused"}
                     [] GrantGood /\ status = "500 invalid_grant" -> why \cup {"token fault"}
                     [] OTHER -> why
  BY DEF RenewRefused
<1>2. /\ pc = "renew" /\ result = "none" /\ provider \in OAuth \cup {"google"}
      /\ secret.refresh = stored.refresh /\ secret.refresh # 0
      /\ UNCHANGED <<fixed, providerVars, stored, secret, retried, pages, parsed, told, version,
                     account, faults>>
  <2>1. secret.refresh # 0
    BY NumbersStartAtOne
  <2>2. pc = "renew" /\ result = "none" /\ provider \in OAuth \cup {"google"}
    BY DEF RenewRefused, RefreshInv, ResultsFit, StepsFit
  <2>3. secret.refresh = stored.refresh
    BY <2>2 DEF RefreshInv, SecretIsStored
  <2> QED BY <2>1, <2>2, <2>3 DEF RenewRefused
<1>3. pc' = "settle" /\ result' \in {"auth", "transient"}
  BY <1>1 DEF Finish
<1>4. why \subseteq why' /\ why' \subseteq Reasons
  BY <1>1 DEF TypeOK, Reasons
<1>5. result' = "auth" => Cause'
  <2> SUFFICES ASSUME NeedsNewSignIn(provider, status) PROVE Cause'
    BY <1>1 DEF Finish
  <2>1. CASE ~GrantGood
    BY <1>2, <2>1 DEF GrantGood, Cause, providerVars
  <2>2. CASE GrantGood
    <3>1. \/ "token refused" \in why'
          \/ "token fault" \in why' /\ provider # "openai"
      BY <1>1, <2>2 DEF NeedsNewSignIn, AnyStatusGrant
    <3> QED BY <1>2, <3>1 DEF Cause, Excuses, fixed
  <2> QED BY <2>1, <2>2
<1>6. TypeOK'
  BY <1>2, <1>3, <1>4 DEF TypeOK, fixed, providerVars
<1>7. StepsFit' /\ ResultsFit' /\ SecretIsStored' /\ SecretIsNewest'
  BY <1>2, <1>3, <1>4
     DEF RefreshInv, StepsFit, ResultsFit, SecretIsStored, SecretIsNewest,
         fixed, providerVars
<1>8. DeathsAreKnown'
  BY <1>2, <1>3, <1>4 DEF RefreshInv, DeathsAreKnown, providerVars
<1>9. RejectionsHaveCause'
  BY <1>2, <1>4, <1>5
     DEF RefreshInv, RejectionsHaveCause, Cause, fixed, providerVars
<1> QED BY <1>6, <1>7, <1>8, <1>9 DEF RefreshInv

LEMMA SaveRenewedStep ==
  ASSUME TypeOK, RefreshInv, SaveRenewed
  PROVE  TypeOK' /\ RefreshInv'
<1>1. /\ pc = "save" /\ result = "none" /\ ~secret.due
      /\ provider \in OAuth \cup {"google"}
      /\ UNCHANGED <<fixed, providerVars, secret, retried, pages, parsed, told, version, account>>
  BY DEF SaveRenewed, RefreshInv, ResultsFit, StepsFit, DeathsAreKnown
<1>2. CASE /\ stored' = secret
           /\ pc' = IF provider = "google" THEN "cloud" ELSE "call"
           /\ UNCHANGED <<result, why, faults>>
  <2>1. TypeOK'
    BY <1>1, <1>2 DEF TypeOK, fixed, providerVars
  <2>2. StepsFit' /\ ResultsFit' /\ SecretIsStored' /\ SecretIsNewest'
    BY <1>1, <1>2 DEF RefreshInv, StepsFit, ResultsFit, SecretIsStored, SecretIsNewest, fixed, providerVars,
       OAuth, Cookie
  <2>3. DeathsAreKnown'
    BY <1>1, <1>2 DEF RefreshInv, DeathsAreKnown, providerVars
  <2>4. RejectionsHaveCause'
    BY <1>1, <1>2
       DEF RefreshInv, RejectionsHaveCause, Cause, StepsFit, OAuth, Cookie, fixed,
           providerVars
  <2> QED BY <2>1, <2>2, <2>3, <2>4 DEF RefreshInv
<1>3. CASE /\ faults < MaxFaults /\ faults' = faults + 1
           /\ Finish("transient")
           /\ why' = IF secret.refresh # stored.refresh THEN why \cup {"missed"} ELSE why
           /\ UNCHANGED stored
  <2>1. /\ faults' \in 0..MaxFaults
        /\ why \subseteq why' /\ why' \subseteq Reasons
        /\ secret.refresh = stored.refresh \/ "missed" \in why'
        /\ pc' = "settle" /\ result' = "transient"
    <3>1. faults' \in 0..MaxFaults
      BY <1>3, ProviderAssumption DEF TypeOK
    <3>2. why \subseteq why' /\ why' \subseteq Reasons
      BY <1>3 DEF TypeOK, Reasons
    <3> QED BY <1>3, <3>1, <3>2 DEF Finish
  <2>2. TypeOK'
    BY <1>1, <1>3, <2>1 DEF TypeOK, fixed, providerVars
  <2>3. StepsFit' /\ ResultsFit' /\ SecretIsStored' /\ SecretIsNewest'
    BY <1>1, <1>3, <2>1
       DEF RefreshInv, StepsFit, ResultsFit, SecretIsStored, SecretIsNewest,
           fixed, providerVars
  <2>4. DeathsAreKnown'
    BY <1>1, <1>3, <2>1 DEF RefreshInv, DeathsAreKnown, providerVars
  <2>5. RejectionsHaveCause'
    BY <1>1, <1>3, <2>1
       DEF RefreshInv, RejectionsHaveCause, Cause, fixed, providerVars
  <2> QED BY <2>2, <2>3, <2>4, <2>5 DEF RefreshInv
<1> QED BY <1>2, <1>3 DEF SaveRenewed


(* The end of a refresh: a success saves what worked, a failure goes back to  *)
(* what is on disk.                                                        *)
LEMMA SettleStep ==
  ASSUME TypeOK, RefreshInv, Settle
  PROVE  TypeOK' /\ RefreshInv'
<1>1. /\ pc = "settle" /\ pc' = "idle" /\ result' = "none" /\ result # "none"
      /\ retried' = FALSE /\ pages' = 0 /\ secret' = stored' /\ told' = Known(account')
      /\ UNCHANGED <<fixed, providerVars, version>>
  BY DEF Settle, RefreshInv, ResultsFit
<1>2. 0 \in 0..MaxPages
  BY ProviderAssumption
<1>4. CASE /\ result = "ok"
           /\ stored' = secret /\ account' = Settled("ok") /\ why' = Remembered /\ UNCHANGED faults
  <2>1. /\ account'.suspended = FALSE
        /\ account' \in [suspended : BOOLEAN, email : BOOLEAN, identity : Identity]
    BY <1>4 DEF Settled, TypeOK, Owner, Identity
  <2>2. /\ why' \subseteq Reasons /\ ("missed" \in why' <=> "missed" \in why)
        /\ secret.access \in live \/ "early" \in why'
    BY <1>4 DEF Remembered, Reasons
  <2>3. secret.refresh = stored.refresh
    BY <1>1, <1>4 DEF RefreshInv, SecretIsStored
  <2>4. TypeOK'
    BY <1>1, <1>2, <1>4, <2>1, <2>2
       DEF TypeOK, fixed, providerVars, Known, Owner, Identity
  <2>5. StepsFit' /\ ResultsFit' /\ SecretIsStored' /\ SecretIsNewest'
    BY <1>1, <1>4, <2>2, <2>3 DEF RefreshInv, StepsFit, ResultsFit, SecretIsStored, SecretIsNewest, fixed,
       providerVars
  <2>6. DeathsAreKnown' /\ RejectionsHaveCause'
    BY <1>1, <1>4, <2>1, <2>2
       DEF DeathsAreKnown, RejectionsHaveCause, providerVars
  <2> QED BY <2>4, <2>5, <2>6 DEF RefreshInv
<1>5. CASE /\ stored' = stored /\ why' = why /\ faults' \in 0..MaxFaults
           /\ account' \in [suspended : BOOLEAN, email : BOOLEAN, identity : Identity]
           /\ account'.suspended => account.suspended \/ result = "auth"
  <2>1. TypeOK'
    BY <1>1, <1>2, <1>5 DEF TypeOK, fixed, providerVars, Known, Owner, Identity
  <2>2. StepsFit' /\ ResultsFit' /\ SecretIsStored' /\ SecretIsNewest'
    BY <1>1, <1>5 DEF RefreshInv, StepsFit, ResultsFit, SecretIsStored, SecretIsNewest, fixed,
       providerVars
  <2>3. DeathsAreKnown'
    BY <1>1, <1>5 DEF RefreshInv, DeathsAreKnown, providerVars
  <2>4. RejectionsHaveCause'
    BY <1>1, <1>5
       DEF RefreshInv, RejectionsHaveCause, Cause, SecretIsNewest, fixed,
           providerVars
  <2> QED BY <2>1, <2>2, <2>3, <2>4 DEF RefreshInv
<1>6. CASE result # "ok" /\ account' = Settled(result) /\ stored' = stored /\ why' = why /\ UNCHANGED faults
  <2>1. account' = [account EXCEPT !.suspended = (result = "auth")]
    BY <1>6 DEF Settled
  <2> QED BY <1>5, <1>6, <2>1 DEF TypeOK
<1>7. CASE faults < MaxFaults /\ faults' = faults + 1 /\ UNCHANGED <<stored, account, why>>
  <2>1. faults' \in 0..MaxFaults
    BY <1>7, ProviderAssumption DEF TypeOK
  <2> QED BY <1>5, <1>7, <2>1 DEF TypeOK
<1> QED BY <1>4, <1>6, <1>7 DEF Settle

(* A refresh begins with what is on disk, and a crash goes back to it. *)
LEMMA BeginStep ==
  ASSUME TypeOK, RefreshInv, Begin
  PROVE  TypeOK' /\ RefreshInv'
<1>1. /\ pc = "idle" /\ secret' = stored /\ result' = "none" /\ retried' = FALSE /\ pages' = 0
      /\ told' = Known(account) /\ result = "none" /\ secret.refresh = stored.refresh
      /\ UNCHANGED <<fixed, providerVars, stored, version, account, why, faults>>
  BY DEF Begin, RefreshInv, ResultsFit, SecretIsStored
<1>2. /\ provider \in OAuth \cup Cookie \cup {"google"}
      /\ pc' \in {"renew", "call", "list", "recapture"}
      /\ pc' = "renew" => provider \in OAuth
      /\ pc' = "list" <=> provider = "google"
      /\ pc' = "recapture" => provider = "grok"
  <2>1. provider \in OAuth \cup Cookie \cup {"google"}
    BY ProviderAssumption DEF TypeOK
  <2>2. pc' = CASE provider \in OAuth -> IF stored.due THEN "renew" ELSE "call"
               [] provider = "google" -> "list"
               [] provider = "grok" -> "recapture"
               [] OTHER -> "call"
    BY DEF Begin
  <2> QED BY <2>1, <2>2 DEF OAuth
<1>3. 0 \in 0..MaxPages
  BY ProviderAssumption
<1>4. TypeOK'
  BY <1>1, <1>2, <1>3 DEF TypeOK, fixed, providerVars, Known, Owner, Identity
<1>5. StepsFit' /\ ResultsFit' /\ SecretIsStored' /\ SecretIsNewest'
  BY <1>1, <1>2
     DEF RefreshInv, StepsFit, ResultsFit, SecretIsStored, SecretIsNewest,
         fixed, providerVars
<1>6. DeathsAreKnown'
  BY <1>1, <1>2 DEF RefreshInv, DeathsAreKnown, providerVars
<1>7. RejectionsHaveCause'
  BY <1>1 DEF RefreshInv, RejectionsHaveCause, Cause, fixed, providerVars
<1> QED BY <1>4, <1>5, <1>6, <1>7 DEF RefreshInv

LEMMA CrashStep ==
  ASSUME TypeOK, RefreshInv, Crash
  PROVE  TypeOK' /\ RefreshInv'
<1>1. /\ pc' = "idle" /\ secret' = stored /\ result' = "none" /\ retried' = FALSE /\ pages' = 0
      /\ version' = "none" /\ told' = Known(account)
      /\ why \subseteq why' /\ why' \subseteq Reasons
      /\ secret.refresh = stored.refresh \/ "missed" \in why'
      /\ UNCHANGED <<fixed, providerVars, stored, account>>
  BY DEF Crash, TypeOK, Reasons
<1>2. 0 \in 0..MaxPages /\ faults' \in 0..MaxFaults
  BY ProviderAssumption DEF Crash, TypeOK
<1>3. TypeOK'
  BY <1>1, <1>2 DEF TypeOK, fixed, providerVars, Known, Owner, Identity
<1>4. StepsFit' /\ ResultsFit' /\ SecretIsStored' /\ SecretIsNewest'
  BY <1>1
     DEF RefreshInv, StepsFit, ResultsFit, SecretIsStored, SecretIsNewest,
         fixed, providerVars
<1>5. DeathsAreKnown'
  BY <1>1 DEF RefreshInv, DeathsAreKnown, providerVars
<1>6. RejectionsHaveCause'
  BY <1>1
     DEF RefreshInv, RejectionsHaveCause, Cause, SecretIsNewest, fixed,
         providerVars
<1> QED BY <1>3, <1>4, <1>5, <1>6 DEF RefreshInv


(* Around the refreshes: time, the provider, and the owner. *)
LEMMA TimeStep ==
  ASSUME TypeOK, RefreshInv, TokenAges \/ TokenExpires \/ VersionAges
  PROVE  TypeOK' /\ RefreshInv'
<1>1. CASE TokenAges
  <2>1. /\ pc = "idle" /\ provider \in OAuth \cup {"google"} /\ stored' = [stored EXCEPT !.due = TRUE]
        /\ UNCHANGED <<fixed, providerVars, secret, pc, callVars, version, account, why, faults>>
    BY <1>1 DEF TokenAges
  <2>2. /\ stored' \in Secrets(issued) /\ stored'.due = TRUE
        /\ stored'.refresh = stored.refresh /\ stored'.form = stored.form
    BY <2>1 DEF TypeOK, Secrets
  <2>3. TypeOK'
    BY <2>1, <2>2 DEF TypeOK, fixed, providerVars, callVars
  <2>4. StepsFit' /\ ResultsFit' /\ SecretIsStored' /\ SecretIsNewest'
    BY <2>1, <2>2 DEF RefreshInv, StepsFit, ResultsFit, SecretIsStored, SecretIsNewest, fixed, providerVars,
       callVars, Cookie, OAuth
  <2>5. DeathsAreKnown' /\ RejectionsHaveCause'
    BY <2>1, <2>2
       DEF RefreshInv, DeathsAreKnown, RejectionsHaveCause, Cause, fixed,
           providerVars, callVars
  <2> QED BY <2>3, <2>4, <2>5 DEF RefreshInv
<1>2. CASE TokenExpires
  <2>1. /\ pc = "idle" /\ stored.due /\ live' \subseteq live
        /\ UNCHANGED <<fixed, issued, grant, keyGood, stored, secret, pc, callVars, version, account,
                       why, faults>>
    BY <1>2 DEF TokenExpires
  <2>2. TypeOK'
    BY <2>1 DEF TypeOK, fixed, callVars
  <2>3. StepsFit' /\ ResultsFit' /\ SecretIsStored' /\ SecretIsNewest'
    BY <2>1
       DEF RefreshInv, StepsFit, ResultsFit, SecretIsStored, SecretIsNewest,
           fixed, callVars
  <2>4. DeathsAreKnown' /\ RejectionsHaveCause'
    BY <2>1
       DEF RefreshInv, DeathsAreKnown, RejectionsHaveCause, Cause, fixed,
           callVars
  <2> QED BY <2>2, <2>3, <2>4 DEF RefreshInv
<1>3. CASE VersionAges
  <2>1. /\ version' = "none"
        /\ UNCHANGED <<fixed, providerVars, stored, secret, pc, callVars, account, why, faults>>
    BY <1>3 DEF VersionAges
  <2>2. TypeOK'
    BY <2>1 DEF TypeOK, fixed, providerVars, callVars
  <2>3. RefreshInv'
    BY <2>1, VersionIsApart DEF callVars
  <2> QED BY <2>2, <2>3
<1> QED BY <1>1, <1>2, <1>3

LEMMA AccessDiesStep ==
  ASSUME TypeOK, RefreshInv, AccessDies
  PROVE  TypeOK' /\ RefreshInv'
<1>1. PICK n \in live :
         /\ live' = live \ {n}
         /\ why' = why \cup {"early"}
                    \cup (IF retried /\ n = secret.access THEN {"early again"} ELSE {})
  BY DEF AccessDies
<1>2. /\ why \subseteq why' /\ why' \subseteq Reasons /\ "early" \in why'
      /\ retried /\ secret.access \in live => secret.access \in live' \/ "early again" \in why'
      /\ live' \subseteq live /\ ("missed" \in why' <=> "missed" \in why)
  BY <1>1 DEF Reasons, TypeOK
<1>3. /\ UNCHANGED <<fixed, issued, grant, keyGood, stored, secret, pc, callVars, version, account>>
  BY DEF AccessDies
<1>4. faults' \in 0..MaxFaults
  <2>1. faults < MaxFaults /\ faults' = faults + 1
    BY DEF AccessDies
  <2> QED BY <2>1, ProviderAssumption DEF TypeOK
<1>5. TypeOK'
  <2>1. live' \subseteq 1..issued'
    BY <1>2, <1>3 DEF TypeOK
  <2>2. /\ provider' = provider /\ cloud' = cloud
        /\ UNCHANGED <<retried, pages, told, result, issued, grant, keyGood, stored, secret, pc,
                       version, account>>
    BY <1>3 DEF fixed, callVars
  <2>3. why' \subseteq Reasons
    BY <1>2
  <2> QED BY <1>4, <2>1, <2>2, <2>3 DEF TypeOK
<1>6. StepsFit' /\ ResultsFit' /\ SecretIsStored' /\ SecretIsNewest'
  BY <1>2, <1>3
     DEF RefreshInv, StepsFit, ResultsFit, SecretIsStored, SecretIsNewest,
         fixed, callVars
<1>7. DeathsAreKnown'
  BY <1>2, <1>3 DEF RefreshInv, DeathsAreKnown, callVars
<1>8. RejectionsHaveCause'
  BY <1>2, <1>3 DEF RefreshInv, RejectionsHaveCause, Cause, fixed, callVars
<1> QED BY <1>5, <1>6, <1>7, <1>8 DEF RefreshInv

LEMMA RevokeStep ==
  ASSUME TypeOK, RefreshInv, Revoke
  PROVE  TypeOK' /\ RefreshInv'
<1>1. UNCHANGED <<fixed, issued, stored, secret, pc, callVars, version, account, why, faults>>
  BY DEF Revoke
<1>2. issued \in Nat /\ stored.refresh # 0 /\ secret.refresh # 0
  BY NumbersStartAtOne
<1>3. CASE grant' = 0 /\ live' = {} /\ UNCHANGED keyGood
  <2>1. TypeOK'
    BY <1>1, <1>2, <1>3 DEF TypeOK, fixed, callVars
  <2>2. StepsFit' /\ ResultsFit' /\ SecretIsStored' /\ SecretIsNewest'
    BY <1>1, <1>2, <1>3
       DEF RefreshInv, StepsFit, ResultsFit, SecretIsStored, SecretIsNewest,
           fixed, callVars
  <2>3. DeathsAreKnown'
    BY <1>1, <1>3 DEF RefreshInv, DeathsAreKnown, callVars
  <2>4. RejectionsHaveCause'
    BY <1>1, <1>2, <1>3 DEF RejectionsHaveCause, Cause
  <2> QED BY <2>1, <2>2, <2>3, <2>4 DEF RefreshInv
<1>4. CASE keyGood' = FALSE /\ UNCHANGED <<grant, live>>
  <2>1. TypeOK'
    <3>1. keyGood' \in BOOLEAN
      BY <1>4
    <3> QED BY <1>1, <1>4, <3>1 DEF TypeOK, fixed, callVars
  <2>2. StepsFit' /\ ResultsFit' /\ SecretIsStored' /\ SecretIsNewest'
    BY <1>1, <1>4
       DEF RefreshInv, StepsFit, ResultsFit, SecretIsStored, SecretIsNewest,
           fixed, callVars
  <2>3. DeathsAreKnown' /\ RejectionsHaveCause'
    BY <1>1, <1>4
       DEF RefreshInv, DeathsAreKnown, RejectionsHaveCause, Cause, callVars
  <2> QED BY <2>1, <2>2, <2>3 DEF RefreshInv
<1> QED BY <1>3, <1>4 DEF Revoke

LEMMA SignInAgainStep ==
  ASSUME TypeOK, RefreshInv, SignInAgain
  PROVE  TypeOK' /\ RefreshInv'
<1>1. /\ pc = "idle" /\ issued < MaxIssued
      /\ issued' = issued + 1 /\ grant' = issued' /\ live' = {issued'} /\ keyGood' = TRUE
      /\ stored' = [refresh |-> issued', access |-> issued', due |-> FALSE, form |-> "clean"]
      /\ secret' = stored'
      /\ account' = [account EXCEPT !.suspended = FALSE]
      /\ why' = {}
      /\ UNCHANGED <<fixed, pc, callVars, version, faults>>
  BY DEF SignInAgain
<1>2. issued' \in 1..MaxIssued /\ issued' \in 1..issued' /\ issued' \in 0..issued' /\ live' \subseteq 1..issued'
  BY <1>1, ProviderAssumption DEF TypeOK
<1>3. stored' \in Secrets(issued')
  BY <1>1, <1>2 DEF Secrets
<1>4. TypeOK'
  <2>1. account' \in [suspended : BOOLEAN, email : BOOLEAN, identity : Identity] /\ ~account'.suspended
    BY <1>1 DEF TypeOK
  <2> QED BY <1>1, <1>2, <1>3, <2>1 DEF TypeOK, fixed, callVars
<1>5. result' = "none" /\ ~account'.suspended
  BY <1>1 DEF RefreshInv, ResultsFit, callVars, TypeOK
<1>6. StepsFit' /\ ResultsFit' /\ SecretIsStored' /\ SecretIsNewest'
  BY <1>1, <1>5
     DEF RefreshInv, StepsFit, ResultsFit, SecretIsStored, SecretIsNewest,
         fixed, callVars
<1>7. DeathsAreKnown' /\ RejectionsHaveCause'
  BY <1>1, <1>5 DEF DeathsAreKnown, RejectionsHaveCause
<1> QED BY <1>4, <1>6, <1>7 DEF RefreshInv

(* The inductive invariant of the refreshes of one account: where the newest  *)
(* refresh number is, which access token may be dead, and why a rejection is.  *)
THEOREM RefreshIsSound == Spec => [](TypeOK /\ RefreshInv)
<1>1. Init => TypeOK /\ RefreshInv
  <2> SUFFICES ASSUME Init PROVE TypeOK /\ RefreshInv
    OBVIOUS
  <2>1. /\ stored \in [refresh : {1}, access : {1}, due : {FALSE}, form : {"clean", "raw", "bad"}]
        /\ provider \notin Cookie => stored.form = "clean"
        /\ provider = "opencode" => stored.form \in {"clean", "bad"}
        /\ account \in [suspended : {FALSE}, email : BOOLEAN, identity : {"none", "told", "key"}]
    BY DEF Init, Identities, Cookie
  <2>2. 1 \in 1..MaxIssued /\ 0 \in 0..MaxPages /\ 0 \in 0..MaxFaults
    BY ProviderAssumption
  <2>3. TypeOK
    <3>1. /\ issued = 1 /\ grant = 1 /\ live = {1}
          /\ issued \in 1..MaxIssued /\ grant \in 0..issued /\ live \subseteq 1..issued
          /\ pages \in 0..MaxPages /\ faults \in 0..MaxFaults
      BY <2>2 DEF Init
    <3>2. stored \in Secrets(issued) /\ secret \in Secrets(issued)
      BY <2>1, <3>1 DEF Init, Secrets
    <3>3. /\ account \in [suspended : BOOLEAN, email : BOOLEAN, identity : Identity]
          /\ told \in Owner
      BY <2>1 DEF Init, Known, Owner, Identity
    <3>4. provider \in Providers /\ cloud \in BOOLEAN
      BY DEF Init
    <3>5. why \subseteq Reasons
      BY DEF Init
    <3> QED BY <3>1, <3>2, <3>3, <3>4, <3>5 DEF Init, TypeOK
  <2>4. RefreshInv
    BY <2>1 DEF Init, RefreshInv, StepsFit, SecretIsStored, SecretIsNewest, DeathsAreKnown,
       RejectionsHaveCause, ResultsFit
  <2> QED BY <2>3, <2>4
<1>2. TypeOK /\ RefreshInv /\ [Next]_vars => (TypeOK /\ RefreshInv)'
  <2> SUFFICES ASSUME TypeOK, RefreshInv, [Next]_vars PROVE TypeOK' /\ RefreshInv'
    OBVIOUS
  <2>1. CASE UNCHANGED vars
    <3>1. TypeOK'
      BY <2>1 DEF TypeOK, vars, fixed, providerVars, callVars
    <3>2. RefreshInv'
      BY <2>1, VersionIsApart DEF vars, callVars
    <3> QED BY <3>1, <3>2
  <2> QED BY <2>1, BeginStep, RenewIssuedStep, RenewRefusedStep, SaveRenewedStep, CallUsageStep,
    ResolveVersionStep, LoadCodeAssistStep, RetrieveSummaryStep, FetchModelsStep, ListModelsStep,
    ReadMonitoringStep, ReadDashboardStep, RecaptureCookiesStep, ReadBillingStep, ReadProfileStep,
    SettleStep, TimeStep, AccessDiesStep, RevokeStep, SignInAgainStep, CrashStep
    DEF Next, Step
<1> QED BY <1>1, <1>2, PTL DEF Spec

(* Every variable of a refresh keeps its type. *)
THEOREM TypeCorrect == Spec => []TypeOK
  BY RefreshIsSound, PTL

(* An account is suspended only when the provider no longer accepts what is   *)
(* stored, or rejected it in a way that its rules count as final, whatever    *)
(* the answers, the failures and their order.                              *)
THEOREM SuspensionsHaveCause == Spec => []SuspensionHasCause
<1>1. TypeOK /\ RefreshInv => SuspensionHasCause
  BY DEF RefreshInv, RejectionsHaveCause, Cause, SuspensionHasCause,
         SecretIsNewest
<1> QED BY <1>1, RefreshIsSound, PTL

(* Between refreshes the disk holds the refresh number the provider accepts,  *)
(* unless a rotation was lost on its way to the disk.                        *)
THEOREM StoredStaysNewest == Spec => []StoredIsNewest
<1>1. TypeOK /\ RefreshInv => StoredIsNewest
  BY DEF RefreshInv, SecretIsStored, SecretIsNewest, StoredIsNewest
<1> QED BY <1>1, RefreshIsSound, PTL
-----------------------------------------------------------------------------
(* When an account is refreshed: RefreshSchedule, for any accounts, intervals, *)
(* ticks and time-outs.                                                     *)


(* What a loop that waits has left a due refresh waiting for, it has slept  *)
(* since; a sleep is over after a tick.                                     *)
LoopInv ==
  /\ slept \in 0 .. PollTick
  /\ overdue \in 0 .. slept

(* Every step keeps that: only a tick of a loop that has not slept for so    *)
(* long lets a due refresh wait longer.                                     *)
LEMMA SleepBoundsLateness ==
  ASSUME PollTick \in Nat, LoopInv, [LoopNext]_allVars
  PROVE  LoopInv'
<1> USE DEF LoopInv, allVars, loopVars, backoffVars, runVars, iosVars
<1>1. CASE LoopStarts
  BY <1>1 DEF LoopStarts
<1>2. CASE RoundStarts
  BY <1>2 DEF RoundStarts
<1>3. CASE RoundEnds
  BY <1>3 DEF RoundEnds
<1>4. CASE LoopWaits
  BY <1>4 DEF LoopWaits
<1>5. CASE LoopWakes
  BY <1>5 DEF LoopWakes
<1>6. ASSUME NEW a \in Accounts, \/ Answered(a) \/ UserRefreshes(a)
                                 \/ Imported(a) \/ Removed(a)
      PROVE  LoopInv'
  BY <1>6 DEF Answered, UserRefreshes, Imported, Removed
<1>7. ASSUME NEW minutes \in Intervals, SetInterval(minutes)
      PROVE  LoopInv'
  BY <1>7 DEF SetInterval
<1>8. CASE \/ ReturnsToApp \/ AndroidRuns \/ IosLaunches \/ IosExpires
           \/ RunEnds \/ IdleRunCompletes
  BY <1>8 DEF ReturnsToApp, AndroidRuns, IosLaunches, IosExpires,
              RunEnds, IdleRunCompletes
<1>9. CASE Opens \/ Killed
  BY <1>9 DEF Opens, Killed
<1>10. CASE Tick
  <2>1. slept' \in 0 .. PollTick
    BY <1>10 DEF Tick, TickIsOver
  <2>2. overdue' \in 0 .. slept'
    BY <1>10 DEF Tick, TickIsOver
  <2> QED BY <2>1, <2>2
<1>11. CASE Sleeps \/ ClockIsSetBack
  BY <1>11 DEF Sleeps, ClockIsSetBack
<1>12. CASE UNCHANGED allVars
  BY <1>12
<1> QED BY <1>1, <1>2, <1>3, <1>4, <1>5, <1>6, <1>7, <1>8, <1>9, <1>10, <1>11, <1>12 DEF LoopNext

(* However the machine sleeps, the clocks move, the process ends and         *)
(* refreshes fail, a due refresh is left waiting for at most one tick of     *)
(* awake time.                                                              *)
THEOREM DueRefreshIsSoonStarted == LoopSpec => []DueRefreshWaitsOneTick
<1>0. PollTick \in Nat
  BY ScheduleAssumption
<1>1. LoopInit => LoopInv
  BY <1>0 DEF LoopInit, LoopInv
<1>2. LoopInv /\ [LoopNext]_allVars => LoopInv'
  BY <1>0, SleepBoundsLateness
<1>3. LoopInv => DueRefreshWaitsOneTick
  BY <1>0 DEF LoopInv, DueRefreshWaitsOneTick
<1> QED BY <1>1, <1>2, <1>3, PTL DEF LoopSpec
=============================================================================
