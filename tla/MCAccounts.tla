----------------------------- MODULE MCAccounts -----------------------------
(***************************************************************************)
(* An instance of Accounts for TLC.  One address is asked for by everybody:*)
(* by users with two passwords and by an administrator.  With the other    *)
(* two there can be three users, so that one can come while an             *)
(* administrator walks through the pages of the others.                    *)
(***************************************************************************)
EXTENDS Accounts, TLC

CONSTANTS e1, e2, e3, p1, p2

Of(email, password) == [email |-> email, password |-> password]
MCUserAccounts == {Of(e1, p1), Of(e1, p2), Of(e2, p1), Of(e3, p1)}
MCAdminAccounts == {Of(e1, p2)}

Interchangeable ==
    Permutations(UserId) \cup Permutations({e2, e3}) \cup Permutations(Request)

MCLimits == {None, -1, 1, 2}
MCPageNos == {None, 2, 3}
=============================================================================
