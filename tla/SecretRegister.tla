--------------------------- MODULE SecretRegister ---------------------------
(***************************************************************************)
(* What the rest of the application may assume of the stored sign-in of an *)
(* account: one value that a save replaces in one step, at some moment     *)
(* between its start and its end, or not at all; that a crash leaves as it *)
(* is; and that only a deletion makes unreadable.                          *)
(***************************************************************************)
EXTENDS Naturals

CONSTANT MaxVersion         \* sign-ins are numbered in the order they were issued

NoSecret == 0
Stored == 0 .. MaxVersion

VARIABLES
    stored,     \* what a load would return, or NoSecret
    shadow,     \* a copy an older version of the application left behind
    candidates, \* the sign-ins of saves that may still take effect
    erasing     \* is a deletion under way?

registerVars == <<stored, shadow, candidates, erasing>>

RegisterInit ==
    /\ stored \in Stored /\ shadow \in {NoSecret, stored}
    /\ candidates = {} /\ erasing = FALSE

Start(v) == candidates' = candidates \cup {v} /\ UNCHANGED <<stored, shadow, erasing>>
Abandon(v) == candidates' = candidates \ {v} /\ UNCHANGED <<stored, shadow, erasing>>

TakeEffect(v) ==
    /\ v \in candidates
    /\ stored' = v
    /\ candidates' \in {candidates, candidates \ {v}}
    /\ UNCHANGED <<shadow, erasing>>

(* A deletion that fails half-way may uncover the old copy. *)
Erase ==
    /\ erasing
    /\ stored' \in {NoSecret, shadow}
    /\ shadow' \in {NoSecret, shadow}
    /\ UNCHANGED <<candidates, erasing>>

StartErasing == ~erasing /\ erasing' = TRUE /\ UNCHANGED <<stored, shadow, candidates>>
StopErasing == erasing /\ erasing' = FALSE /\ UNCHANGED <<stored, shadow, candidates>>

(* The old copy goes once its content was taken over. *)
DropShadow == shadow' = NoSecret /\ UNCHANGED <<stored, candidates, erasing>>

Stop == candidates' = {} /\ erasing' = FALSE /\ UNCHANGED <<stored, shadow>>

RegisterNext ==
    \/ \E v \in Stored : Start(v) \/ Abandon(v) \/ TakeEffect(v)
    \/ StartErasing \/ Erase \/ StopErasing
    \/ DropShadow \/ Stop

RegisterSpec == RegisterInit /\ [][RegisterNext]_registerVars
=============================================================================
