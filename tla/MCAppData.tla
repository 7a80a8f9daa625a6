------------------------------ MODULE MCAppData ------------------------------
(* Small instances of AppData. *)
EXTENDS AppData, TLC

Person(email, pid) == [provider |-> "openai", email |-> email, pid |-> pid]

\* Two people, whose e-mails are behind one provider id.
MCPeople == {Person("e1", "i1"), Person("e2", "i1")}
\* Workers are interchangeable.
Workers == Permutations(Tasks)

MCEarlier == <<[id |-> "a", who |-> Person("e1", "i1"), usage |-> 1]>>
=============================================================================
