----------------------------- MODULE MCAccounts -----------------------------
(***************************************************************************)
(* Instances of Accounts for TLC: the emails of all the accounts of the    *)
(* OAuth provider give the same login.                                     *)
(***************************************************************************)
EXTENDS Accounts, TLC

CONSTANTS l1, l2, l3

MCPreferred == [e \in Emails |-> l1]

(* Lists of one or two emails, none twice.                                 *)
MCUserLists == {<<e>> : e \in Emails}
               \cup {l \in Emails \X Emails : l[1] # l[2]}

(* Lists that may name an email twice.                                     *)
MCUserListsRepeated == {<<e>> : e \in Emails} \cup Emails \X Emails

(* The emails have the same preferred login and come in every list alike;  *)
(* the other logins are only told apart.  No property is about liveness.   *)
MCSymmetry == Permutations(Emails) \cup Permutations({l2, l3})
=============================================================================
