------------------------- MODULE MCPairingDialog --------------------------
(* Small instances of PairingDialog. *)
EXTENDS PairingDialog, TLC

P(email, pid) == [provider |-> "openai", email |-> email, pid |-> pid]
G(id, name, members) == [id |-> id, name |-> name, members |-> members]

\* Two people behind one provider id, and an account without an identity.
p1 == P("e1", "i1")
p2 == P("e2", "i1")
pn == P(NoValue, NoValue)

\* One transfer of two frames, with groups and layout; and one frame with the
\* same person under two ids, one of them unreadable, and an id to be minted.
MCSender ==
  "t" :> [accounts |-> <<[id |-> "a", who |-> p1], [id |-> "b", who |-> pn]>>,
          unreadable |-> {}, large |-> {},
          groups |-> <<G("g1", "work", {"a", "b"}), G("g2", "home", {"b"})>>,
          order |-> <<"b", "a">>, alerts |-> <<"a">>, cards |-> {"a", "b"},
          pages |-> <<"g2", "g1">>, extras |-> TRUE]
  @@
  "u" :> [accounts |-> <<[id |-> "bad", who |-> p1], [id |-> "a", who |-> p1]>>,
          unreadable |-> {"a"}, large |-> {},
          groups |-> <<G("g1", "home", {"a", "bad"})>>,
          order |-> <<"bad", "a">>, alerts |-> <<"bad">>, cards |-> {},
          pages |-> <<>>, extras |-> TRUE]

\* This device already has a person of the transfers, and one of their ids: the
\* account of the person who may sign in here meanwhile.
MCReceivers ==
  {[accounts |-> <<[id |-> "n", who |-> p1], [id |-> "b", who |-> p2]>>,
    groups |-> <<G("h", "work", {"n"})>>, order |-> <<"n">>]}
MCPeople == {p2}
MCTotal == "t" :> 2 @@ "u" :> 1
=============================================================================
