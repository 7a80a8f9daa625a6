---------------------------- MODULE PairingDialog ----------------------------
(***************************************************************************)
(* The dialog that links two devices (features/pairing): which view it     *)
(* shows, the calls it waits for, the frames its camera captured, and the  *)
(* animated codes it shows itself; and the commands behind it that take    *)
(* the frames apart (pairing/airgap.rs) and import them (TransferImport).  *)
(*                                                                         *)
(* A call answers whenever it likes, also after the user has moved on or   *)
(* closed the dialog.  Calls with a ticket (useLatestRequest) are dropped  *)
(* then; the verification, the poll of the status, the Wi-Fi check and the *)
(* camera permission have none.                                            *)
(***************************************************************************)
EXTENDS TransferImport

CONSTANTS
    Total       \* frames of each transfer

ASSUME PairingDialogAssumption ==
    DOMAIN Total = Transfers /\ \A t \in Transfers : Total[t] \in Nat \ {0}

VARIABLES
    open, view, flow,   \* the dialog, its view, the way of connecting picked
    status,     \* the status it shows
    session,    \* the status of the backend's session (PairingSession)
    poll,       \* a status on its way to the dialog
    told,       \* hasCompletedRef
    notices,    \* completions the dashboard was told since the dialog opened
    call,       \* the calls with a ticket: none, current or stale
    waits,      \* calls without one: Wi-Fi checks, the camera permission
    exported,   \* this device's own codes are ready
    camera,     \* the scanner is reading
    frames,     \* the frames captured, by their number
    held,       \* the transfer they are of
    prompt,     \* the codes are to be compared
    started, verifying, verifies,   \* verifications: asked for, shown, on their way
    code,       \* the frames the code on screen was computed from
    importing,  \* the import is shown to run
    rejected,   \* the import call failed and is yet to answer
    late        \* an answer without a ticket came to a dialog that had moved on

flowVars == <<open, view, flow, status, session, poll, told, notices, call, waits, exported>>
captureVars == <<camera, frames, held, prompt, started, verifying, verifies, code,
                 importing, rejected>>
vars == <<transferVars, flowVars, captureVars, late>>

Calls == {"host", "join", "export", "import"}
Numbers == UNION {1..Total[t] : t \in Transfers}
NoFrames == [k \in Numbers |-> NoValue]

\* Before the devices are linked the dialog shows its view.
Waiting == status \in {"idle", "hostWaiting"}
At(v) == open /\ Waiting /\ view = v

\* Leaving a view, or a newer request, makes every request in flight stale.
Stale == [c \in Calls |-> IF call[c] = "none" THEN "none" ELSE "stale"]
Begun(c) == [Stale EXCEPT ![c] = "current"]
Answered(c) == [call EXCEPT ![c] = "none"]
Current(c) == call[c] = "current"

\* What goes wrong, or is done out of turn, counts against the bound.
Turn == turns < MaxTurns /\ turns' = turns + 1
Calm == UNCHANGED turns

\* So does what the user does before everything asked for has answered.
Pace == IF waits = {} /\ poll = "none" /\ verifies = <<>> /\ \A c \in Calls : call[c] = "none"
        THEN Calm ELSE Turn

\* A status is shown; the first "completed" is told to the dashboard.
ShowStatus(s) ==
    /\ status' = s
    /\ told' = (told \/ s = "completed")
    /\ notices' = IF s = "completed" /\ ~told THEN notices + 1 ELSE notices
Unshown == UNCHANGED <<status, told, notices>>

otherVars == <<deviceVars, importVars, raced, failed>>
-----------------------------------------------------------------------------
(* The frames, taken apart by the backend: pairing/airgap.rs.                *)

Captured(fs) == {k \in Numbers : fs[k] # NoValue}

\* Every frame intact, of one transfer, none missing.
Reassembles(fs) ==
    \E t \in Transfers :
       Captured(fs) = 1..Total[t] /\ \A k \in Captured(fs) : fs[k] = [of |-> t, good |-> TRUE]
-----------------------------------------------------------------------------
(* Capturing: useAirgapCapture.                                              *)

\* A frame of another transfer starts over; one already held is ignored.
WithFrame(frame, k) ==
    IF held # frame.of THEN [NoFrames EXCEPT ![k] = frame]
    ELSE IF frames[k] # NoValue THEN frames ELSE [frames EXCEPT ![k] = frame]

\* The last frame stops the camera and asks for the comparison, and the code is
\* computed unless there is one or it was asked for.
ReadFrame(t, k, good) ==
    /\ At("scanner") /\ camera /\ ~prompt
    /\ k \in 1..Total[t]
    /\ IF good THEN Calm ELSE Turn
    /\ frames' = WithFrame([of |-> t, good |-> good], k) /\ held' = t
    /\ frames' # frames
    /\ IF Cardinality(Captured(frames')) = Total[t]
       THEN /\ prompt' = TRUE /\ camera' = FALSE
            /\ IF code = NoValue /\ ~started
               THEN /\ started' = TRUE /\ verifying' = TRUE
                    /\ verifies' = Append(verifies, frames')
               ELSE UNCHANGED <<started, verifying, verifies>>
       ELSE UNCHANGED <<prompt, camera, started, verifying, verifies>>
    /\ UNCHANGED <<flowVars, otherVars, code, importing, rejected, late>>

\* The mistake of not starting over after frames that could not be verified.
VerifyFailed_StaysStarted == UNCHANGED started
VerifyFailed == started' = FALSE

\* The answer is taken whatever has happened to the capture since.
VerifyAnswered ==
    /\ verifies # <<>>
    /\ verifies' = Tail(verifies) /\ verifying' = FALSE
    /\ late' = (late \/ Head(verifies) # frames)
    /\ IF Reassembles(Head(verifies))
       THEN /\ code' = Head(verifies)
            /\ UNCHANGED <<frames, held, prompt, camera, started>>
       ELSE /\ VerifyFailed
            /\ frames' = NoFrames /\ held' = NoValue /\ prompt' = FALSE
            /\ camera' = (open /\ view = "scanner")
            /\ UNCHANGED code
    /\ UNCHANGED <<flowVars, otherVars, turns, importing, rejected>>

ClearCapture ==
    /\ frames' = NoFrames /\ held' = NoValue /\ code' = NoValue /\ started' = FALSE

\* The mistake of keeping the code of the frames that are thrown away.
Rescan_KeepsCode ==
    /\ At("scanner") /\ prompt /\ ~importing /\ ~verifying
    /\ frames' = NoFrames /\ started' = FALSE /\ prompt' = FALSE
    /\ camera' = TRUE /\ call' = Stale
    /\ Pace
    /\ UNCHANGED <<open, view, flow, status, session, poll, told, notices, waits, exported,
                   otherVars, code, held, verifying, verifies, importing, rejected, late>>

\* Back from the comparison, to scan the same transfer again.
Rescan ==
    /\ At("scanner") /\ prompt /\ ~importing /\ ~verifying
    /\ frames' = NoFrames /\ code' = NoValue /\ started' = FALSE /\ prompt' = FALSE
    /\ camera' = TRUE /\ call' = Stale
    /\ Pace
    /\ UNCHANGED <<open, view, flow, status, session, poll, told, notices, waits, exported,
                   otherVars, held, verifying, verifies, importing, rejected, late>>

\* The codes match: the backend gets the frames held now.
Confirm ==
    /\ At("scanner") /\ prompt /\ code # NoValue /\ ~importing /\ ~verifying
    /\ ~rejected /\ at = "idle"
    /\ importing' = TRUE /\ call' = Begun("import")
    /\ IF Reassembles(frames)
       THEN Begin(frames[1].of) /\ UNCHANGED rejected
       ELSE rejected' = TRUE /\ UNCHANGED otherVars
    /\ Pace
    /\ UNCHANGED <<open, view, flow, status, session, poll, told, notices, waits, exported,
                   camera, frames, held, prompt, started, verifying, verifies, code, late>>

\* The import's end, of which a dialog that has moved on hears nothing.
ImportAnswered ==
    /\ Forget
    /\ call' = Answered("import")
    /\ IF Current("import")
       THEN /\ importing' = FALSE /\ prompt' = FALSE /\ camera' = FALSE
            /\ status' = "completed" /\ told' = TRUE /\ notices' = notices + 1
       ELSE UNCHANGED <<importing, prompt, camera>> /\ Unshown
    /\ UNCHANGED <<open, view, flow, session, poll, waits, exported, frames, held, started,
                   verifying, verifies, code, rejected, late>>

ImportRejected ==
    /\ rejected /\ rejected' = FALSE
    /\ call' = Answered("import")
    /\ importing' = (importing /\ ~Current("import"))
    /\ Unshown
    /\ UNCHANGED <<open, view, flow, session, poll, waits, exported, camera, frames, held,
                   prompt, started, verifying, verifies, code, late, otherVars, turns>>
-----------------------------------------------------------------------------
(* The views: PairingModal and flow-state.ts.                                *)

\* A view is shown, with no change to the capture but the camera.
ShowView(v, f) ==
    /\ view' = v /\ flow' = f /\ call' = Stale
    /\ camera' = (open /\ v = "scanner" /\ (view = "scanner" => camera))

ChooseRole ==
    /\ At("select-role") /\ view' = "select-mode"
    /\ Pace
    /\ UNCHANGED <<open, flow, status, session, poll, told, notices, call, waits, exported,
                   captureVars, otherVars, late>>

captureRest == <<frames, held, prompt, started, verifying, verifies, code, importing, rejected>>

\* Links codes need Wi-Fi, which a phone asks for first.
AskWifi(next) ==
    /\ At("select-mode") /\ Turn
    /\ waits' = waits \cup {next}
    /\ UNCHANGED <<open, view, flow, status, session, poll, told, notices, call, exported,
                   captureVars, otherVars, late>>

\* startLinkCode: the host's view asks for a session, the code's for six digits.
StartLinkCode(next) ==
    /\ flow' = "wifi" /\ view' = next
    /\ call' = IF next = "host" THEN Begun("host") ELSE Stale
    /\ camera' = FALSE

LinkCode(next) ==
    /\ At("select-mode") /\ StartLinkCode(next)
    /\ Pace
    /\ UNCHANGED <<open, status, session, poll, told, notices, waits, exported, captureRest,
                   otherVars, late>>

\* The check goes on as if nothing had happened since it was asked for.
WifiIsOn(next) ==
    /\ next \in waits /\ waits' = waits \ {next}
    /\ StartLinkCode(next)
    /\ late' = (late \/ ~At("select-mode"))
    /\ UNCHANGED <<open, status, session, poll, told, notices, exported, captureRest,
                   otherVars, turns>>

AskCamera ==
    /\ At("select-mode") /\ flow' = "wifi" /\ waits' = waits \cup {"scanner"}
    /\ Pace
    /\ UNCHANGED <<open, view, status, session, poll, told, notices, call, exported,
                   captureVars, otherVars, late>>

\* Also after a refusal, and wherever the user is by then.
CameraAsked ==
    /\ "scanner" \in waits /\ waits' = waits \ {"scanner"}
    /\ ShowView("scanner", flow)
    /\ late' = (late \/ ~At("select-mode"))
    /\ UNCHANGED <<open, status, session, poll, told, notices, exported, captureRest,
                   otherVars, turns>>

\* Regenerating a link code, or trying again, is a new request.
HostAgain ==
    /\ open /\ view = "host" /\ (Waiting \/ status = "failed") /\ call["host"] = "none" /\ Turn
    /\ call' = Begun("host")
    /\ UNCHANGED <<open, view, flow, status, session, poll, told, notices, waits, exported,
                   captureVars, otherVars, late>>

HostStarted(ok) ==
    /\ call["host"] # "none" /\ call' = Answered("host")
    /\ IF ok THEN Calm ELSE Turn
    /\ session' = IF ok THEN "waiting" ELSE session
    /\ IF ok /\ Current("host") THEN ShowStatus("hostWaiting") ELSE Unshown
    /\ UNCHANGED <<open, view, flow, poll, waits, exported, captureVars, otherVars, late>>

Join ==
    /\ At("code") /\ call["join"] = "none"
    /\ call' = Begun("join")
    /\ Pace
    /\ UNCHANGED <<open, view, flow, status, session, poll, told, notices, waits, exported,
                   captureVars, otherVars, late>>

\* A link is joined where the dialog opened, a typed code in its own view.
ByLink == Current("join") /\ view \in {"select-role", "select-mode"}

\* That a link could not be joined takes the place of the status; that a typed
\* code could not is said beside it.
Joined(ok) ==
    /\ call["join"] # "none" /\ call' = Answered("join")
    /\ IF ok THEN Calm ELSE Turn
    /\ session' = IF ok THEN "linking" ELSE session
    /\ IF ~ok /\ ByLink THEN ShowStatus("failed") ELSE Unshown
    /\ UNCHANGED <<open, view, flow, poll, waits, exported, captureVars, otherVars, late>>

\* A link on the other device's screen, instead of a frame: it is joined.
ReadLink ==
    /\ At("scanner") /\ camera /\ ~prompt /\ Turn
    /\ ShowView("host", flow)
    /\ session' = "linking"
    /\ UNCHANGED <<open, status, poll, told, notices, waits, exported, captureRest,
                   otherVars, late>>

ShowQr ==
    /\ At("select-mode") /\ call["export"] = "none"
    /\ flow' = "airgap" /\ view' = "airgap-sender" /\ call' = Begun("export")
    /\ camera' = FALSE
    /\ Pace
    /\ UNCHANGED <<open, status, session, poll, told, notices, waits, exported, captureRest,
                   otherVars, late>>

Exports(ok) == exported' = (exported \/ (ok /\ Current("export")))

ExportAnswered(ok) ==
    /\ call["export"] # "none" /\ call' = Answered("export")
    /\ IF ok THEN Calm ELSE Turn
    /\ Exports(ok)
    /\ UNCHANGED <<open, view, flow, status, session, poll, told, notices, waits,
                   captureVars, otherVars, late>>

CompareOwn ==
    /\ At("airgap-sender") /\ exported
    /\ ShowView("airgap-confirm", flow)
    /\ Pace
    /\ UNCHANGED <<open, status, session, poll, told, notices, waits, exported, captureRest,
                   otherVars, late>>

\* backToModes, after the view dropped what is its own.
BackToModes ==
    /\ session' = "none" /\ status' = "idle"
    /\ view' = "select-mode" /\ flow' = "none" /\ call' = Stale /\ camera' = FALSE
    /\ UNCHANGED <<open, poll, told, notices, waits, otherVars, late>>

captureLeft == <<prompt, verifying, verifies, importing, rejected>>

\* Back, and Escape, by view; Escape also where a button is not to be pressed.
LeaveScanner(escape) ==
    /\ At("scanner")
    /\ IF escape THEN Turn ELSE ~prompt /\ flow # "airgap" /\ Pace
    /\ ClearCapture /\ BackToModes
    /\ UNCHANGED <<exported, captureLeft>>

\* A scanner that came up over this device's own codes goes back to them.
ScannerToCodes ==
    /\ At("scanner") /\ ~prompt /\ flow = "airgap"
    /\ ShowView("airgap-sender", flow)
    /\ Pace
    /\ UNCHANGED <<open, status, session, poll, told, notices, waits, exported, captureRest,
                   otherVars, late>>

LeaveCodes ==
    /\ At("airgap-sender")
    /\ exported' = FALSE
    /\ ClearCapture
    /\ Pace
    /\ UNCHANGED captureLeft
    /\ \/ BackToModes
       \/ /\ ShowView("select-mode", "none")
          /\ UNCHANGED <<open, status, session, poll, told, notices, waits, otherVars, late>>

LeaveConfirm ==
    /\ At("airgap-confirm")
    /\ ShowView("airgap-sender", flow)
    /\ Pace
    /\ UNCHANGED <<open, status, session, poll, told, notices, waits, exported, captureRest,
                   otherVars, late>>

\* Back and Escape at a link code, and Back once linking has failed.
LeaveLink ==
    /\ open
    /\ status = "failed" \/ (Waiting /\ view \in {"host", "code"})
    /\ BackToModes
    /\ Pace
    /\ UNCHANGED <<exported, captureRest>>

LeaveModes ==
    /\ At("select-mode")
    /\ ShowView("select-role", flow)
    /\ Pace
    /\ UNCHANGED <<open, status, session, poll, told, notices, waits, exported, captureRest,
                   otherVars, late>>
-----------------------------------------------------------------------------
(* Opening, closing, and the status. *)

Open ==
    /\ ~open /\ open' = TRUE /\ notices' = 0
    /\ camera' = (view = "scanner")
    /\ Pace
    /\ UNCHANGED <<view, flow, status, session, poll, told, call, waits, exported,
                   captureRest, otherVars, late>>

\* startFromUri: the dialog was opened by a link, or a link is tried again.
OpenedByLink ==
    /\ open /\ view = "select-role" /\ call["join"] = "none" /\ Turn
    /\ status = "idle" \/ (status = "failed" /\ flow = "wifi")
    /\ flow' = "wifi" /\ status' = "connecting" /\ call' = Begun("join")
    /\ UNCHANGED <<open, view, session, poll, told, notices, waits, exported, captureVars,
                   otherVars, late>>

\* Nothing closes the dialog while it shows a transfer.  Closed, it forgets
\* everything but what is still to answer.
Close ==
    /\ open /\ status # "transferring"
    /\ IF status = "completed" THEN Pace ELSE Turn
    /\ open' = FALSE /\ session' = "none"
    /\ view' = "select-role" /\ flow' = "none" /\ call' = Stale
    /\ status' = "idle" /\ told' = FALSE /\ exported' = FALSE
    /\ ClearCapture /\ prompt' = FALSE /\ verifying' = FALSE /\ importing' = FALSE
    /\ camera' = FALSE
    /\ late' = (late \/ poll # "none")
    /\ UNCHANGED <<poll, notices, waits, verifies, rejected, otherVars>>

\* The codes of the two devices are the same: also a new request.
ConfirmSas ==
    /\ open /\ status = "linking" /\ Pace
    /\ call' = Stale
    /\ session' = IF session = "linking" THEN "transferring" ELSE session
    /\ UNCHANGED <<open, view, flow, status, poll, told, notices, waits, exported, captureVars,
                   otherVars, late>>

\* The session of PairingSession: it links, and after the codes were compared
\* transfers and ends.
SessionMoves ==
    /\ \/ session = "waiting" /\ session' = "linking"
       \/ session = "linking" /\ session' = "failed"
       \/ session = "transferring" /\ session' \in {"completed", "failed"}
    /\ UNCHANGED <<open, view, flow, status, poll, told, notices, call, waits, exported,
                   captureVars, otherVars, turns, late>>

Shown(s) == IF s = "none" THEN "idle" ELSE IF s = "waiting" THEN "hostWaiting" ELSE s

Poll ==
    /\ open /\ poll = "none" /\ Shown(session) # status
    /\ poll' = Shown(session)
    /\ UNCHANGED <<open, view, flow, status, session, told, notices, call, waits, exported,
                   captureVars, otherVars, turns, late>>

\* The mistake of showing whatever the poll says.
KeepCompleted_Never(s) == s

\* Once completed it stays completed.
KeepCompleted(s) == IF told /\ status = "completed" THEN status ELSE s

\* The answer is shown whether the dialog is still open or not, and whatever the
\* session has become since.
Polled ==
    /\ poll # "none" /\ poll' = "none"
    /\ ShowStatus(KeepCompleted(poll))
    /\ late' = (late \/ poll # Shown(session))
    /\ UNCHANGED <<open, view, flow, session, call, waits, exported, captureVars, otherVars,
                   turns>>
-----------------------------------------------------------------------------
dialogRest == <<flowVars, captureVars, late>>

InitDialog ==
    /\ open = FALSE /\ view = "select-role" /\ flow = "none"
    /\ status = "idle" /\ session = "none" /\ poll = "none"
    /\ told = FALSE /\ notices = 0
    /\ call = [c \in Calls |-> "none"] /\ waits = {} /\ exported = FALSE
    /\ camera = FALSE /\ frames = NoFrames /\ held = NoValue /\ prompt = FALSE
    /\ started = FALSE /\ verifying = FALSE /\ verifies = <<>> /\ code = NoValue
    /\ importing = FALSE /\ rejected = FALSE /\ late = FALSE

Init == InitTransfer /\ InitDialog

User ==
    \/ ChooseRole \/ AskCamera \/ HostAgain \/ Join \/ ShowQr \/ CompareOwn \/ Rescan \/ Confirm
    \/ \E next \in {"host", "code"} : LinkCode(next) \/ AskWifi(next)
    \/ \E escape \in BOOLEAN : LeaveScanner(escape)
    \/ ScannerToCodes \/ LeaveCodes \/ LeaveConfirm \/ LeaveLink \/ LeaveModes
    \/ ConfirmSas \/ Open \/ OpenedByLink \/ Close

Answers ==
    \/ VerifyAnswered \/ ImportAnswered \/ ImportRejected \/ CameraAsked \/ Poll \/ Polled
    \/ \E next \in {"host", "code"} : WifiIsOn(next)
    \/ \E ok \in BOOLEAN : HostStarted(ok) \/ Joined(ok) \/ ExportAnswered(ok)

Next ==
    \/ User \/ Answers \/ SessionMoves \/ ReadLink
    \/ \E t \in Transfers, k \in Numbers, good \in BOOLEAN : ReadFrame(t, k, good)
    \/ (ImportStep \/ LocalChange) /\ UNCHANGED dialogRest

\* The command that verifies frames runs to its end and answers.
Fairness == WF_vars(VerifyAnswered)

Spec == Init /\ [][Next]_vars
FairSpec == Spec /\ Fairness
-----------------------------------------------------------------------------
Views == {"select-role", "select-mode", "host", "code", "scanner", "airgap-sender",
          "airgap-confirm"}
Statuses == {"idle", "hostWaiting", "connecting", "linking", "transferring", "completed",
             "failed"}
Sessions == {"none", "waiting", "linking", "transferring", "completed", "failed"}
Frame == [of : Transfers, good : BOOLEAN]
Capture == [Numbers -> Frame \cup {NoValue}]

FlowTypes ==
    /\ open \in BOOLEAN /\ view \in Views /\ flow \in {"none", "wifi", "airgap"}
    /\ status \in Statuses /\ session \in Sessions /\ poll \in Statuses \cup {"none"}
    /\ told \in BOOLEAN /\ notices \in Nat
    /\ call \in [Calls -> {"none", "current", "stale"}]
    /\ waits \subseteq {"host", "code", "scanner"} /\ exported \in BOOLEAN
    /\ late \in BOOLEAN

CaptureTypes ==
    /\ camera \in BOOLEAN /\ frames \in Capture /\ held \in Transfers \cup {NoValue}
    /\ prompt \in BOOLEAN /\ started \in BOOLEAN /\ verifying \in BOOLEAN
    /\ verifies \in Seq(Capture) /\ code \in Capture \cup {NoValue}
    /\ importing \in BOOLEAN /\ rejected \in BOOLEAN

TypeOK == FlowTypes /\ CaptureTypes
-----------------------------------------------------------------------------
(* What holds besides, for any number of transfers, frames and turns.         *)

\* At most one call is current, and an import only in its view.
CallInv ==
    /\ \A c, d \in Calls : Current(c) /\ Current(d) => c = d
    /\ Current("import") => open /\ view = "scanner"

\* An import ended in front of the user.
Finished ==
    open /\ view = "scanner" /\ status = "completed" /\ told /\ ~camera /\ ~Current("host")

\* A complete capture is compared or was imported, and the code is its code.
CaptureInv ==
    ~late =>
       /\ ~open => view = "select-role" /\ frames = NoFrames
       /\ code # NoValue => code = frames /\ Reassembles(frames)
       /\ Reassembles(frames) => prompt \/ Finished

\* What was told is still shown, and nothing that could tell it again is on.
TellInv ==
    ~late =>
       /\ ~open => poll = "none" /\ ~told /\ status # "completed"
       /\ notices <= 1
       /\ open => notices = IF told THEN 1 ELSE 0
       /\ status = "completed" => told
       /\ open /\ told =>
             status = "completed" /\ \A c \in {"host", "join", "import"} : ~Current(c)
       /\ session \in {"transferring", "completed"} =>
             /\ status \in {"linking", "transferring", "completed"}
             /\ \A c \in {"host", "join", "import"} : ~Current(c)
-----------------------------------------------------------------------------
(* Properties. *)

\* The frames given to the import are those the code on screen was computed
\* from, through new scans, frames of another transfer and leaving at any point;
\* only an answer without a ticket that comes too late can leave another code.
ImportIsOfComparedFrames ==
    [][importing' /\ ~importing /\ ~late => frames = code]_vars

\* A captured transfer is told to the dashboard once, however the poll, the
\* import and Done meet, and the dialog shows nothing as completed that was not.
ToldOnce ==
    ~late => notices <= 1 /\ (open /\ status = "completed" => notices = 1)

\* A complete capture on screen gets its code, or is scanned again: the spinner
\* does not stay (useAirgapCapture.ts: "forever").
VerificationEnds ==
    (At("scanner") /\ prompt /\ code = NoValue /\ frames # NoFrames)
       ~> (code # NoValue \/ ~prompt \/ ~At("scanner"))
=============================================================================
