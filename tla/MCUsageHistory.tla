---------------------------- MODULE MCUsageHistory ----------------------------
(* Two accounts: one that is used and names its reset time, and one whose      *)
(* provider names none and whose limit stays used up.                        *)
EXTENDS UsageHistory

MCLevels == [a \in Accounts |-> IF a \in Named THEN {0, 1, 3} ELSE {3}]
=============================================================================
