--------------------------- MODULE AccountLists ---------------------------
(***************************************************************************)
(* Lists of accounts, as every part of the app reads them: whose account a *)
(* sign-in, or an account another device sent, is (store/accounts.rs), and *)
(* in which order the accounts are shown (store/account_order.rs).         *)
(***************************************************************************)
EXTENDS Naturals, Sequences

CONSTANTS
    Ids,            \* account ids
    Providers,      \* AI providers
    Emails,         \* e-mail addresses
    ProviderIds,    \* account ids at the provider
    NoValue         \* an absent e-mail or provider id; no account

ASSUME AccountListsAssumption == NoValue \notin Ids \cup Emails \cup ProviderIds

Identity == [provider : Providers, email : Emails \cup {NoValue},
             pid : ProviderIds \cup {NoValue}]

\* The elements of a list at some of its places; Taken[n] is what the first n
\* places give.
Sublist(list, places) ==
    LET Taken[n \in 0 .. Len(list)] ==
            IF n = 0 THEN <<>>
            ELSE IF n \in places THEN Append(Taken[n - 1], list[n]) ELSE Taken[n - 1]
    IN  Taken[Len(list)]

IdsOf(list) == {list[i].id : i \in DOMAIN list}
Known(x) == x # NoValue

EmailsConflict(a, b) == Known(a.email) /\ Known(b.email) /\ a.email # b.email

SameIdentity(a, b) ==
    /\ a.provider = b.provider
    /\ ~EmailsConflict(a, b)
    /\ \/ Known(b.pid) /\ a.pid = b.pid
       \/ Known(b.email) /\ a.email = b.email

Duplicates(list, who) == {i \in DOMAIN list : SameIdentity(list[i].who, who)}

\* The first account in the list with the identity, NoValue if there is none.
FindDuplicate(list, who) ==
    LET matches == Duplicates(list, who)
    IN  IF matches = {} THEN NoValue
        ELSE list[CHOOSE i \in matches : \A j \in matches : i <= j].id

\* The account the user asked to reconnect wins unless the sign-in proves it
\* is somebody else's.
MayReconnect(account, who) ==
    LET idsConflict == Known(account.who.pid) /\ Known(who.pid) /\ account.who.pid # who.pid
        emailsKnown == Known(account.who.email) /\ Known(who.email)
    IN  /\ account.who.provider = who.provider
        /\ ~EmailsConflict(account.who, who)
        /\ emailsKnown \/ ~idsConflict

\* The mistake of forgetting the identity when nothing was to be reconnected.
AccountToUpdate_ChoiceOnly(list, reconnect, who) ==
    IF \E i \in DOMAIN list : list[i].id = reconnect /\ MayReconnect(list[i], who)
    THEN reconnect
    ELSE NoValue

AccountToUpdate(list, reconnect, who) ==
    IF \E i \in DOMAIN list : list[i].id = reconnect /\ MayReconnect(list[i], who)
    THEN reconnect
    ELSE FindDuplicate(list, who)
-----------------------------------------------------------------------------
(* In which order they are shown: store/account_order.rs. *)

InOrder(list, keep) == Sublist(list, {n \in DOMAIN list : list[n] \in keep})

\* AccountOrderStore::apply: the saved order first, then the rest by age; the
\* list of accounts is kept in the order of connection.
Applied(saved, list) ==
    LET Unplaced(a) == \A i \in DOMAIN saved : saved[i] # a.id
        rest == Sublist(list, {n \in DOMAIN list : Unplaced(list[n])})
    IN  InOrder(saved, IdsOf(list)) \o [i \in DOMAIN rest |-> rest[i].id]
=============================================================================
