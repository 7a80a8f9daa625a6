-------------------------- MODULE MCProviderRefresh --------------------------
EXTENDS ProviderRefresh

MCProviders == OAuth \cup Cookie \cup {"google"}

(* A plain window, one whose length must be guessed from what is left, one *)
(* without numbers and an absent one.                                      *)
MCOpenaiRaw ==
    {Absent,
     [used |-> "some", limit |-> "week", left |-> "short", reset_at |-> TRUE],
     [used |-> "some", limit |-> "unsaid", left |-> "month", reset_at |-> FALSE]}

MCQuotaBuckets ==
    {[model |-> "m1", tokens |-> FALSE, says |-> {"day"}, limit |-> 1, points |-> TRUE],
     [model |-> "m1", tokens |-> FALSE, says |-> {"day", "minute"}, limit |-> 2, points |-> TRUE],
     [model |-> "m1", tokens |-> TRUE, says |-> {}, limit |-> 1, points |-> TRUE],
     [model |-> "m2", tokens |-> TRUE, says |-> {"minute"}, limit |-> 1, points |-> TRUE]}
=============================================================================
