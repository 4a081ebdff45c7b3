------------------------------ MODULE MCAccounts ------------------------------
(* Small instances of Accounts for TLC. *)
EXTENDS Accounts, TLC

CONSTANTS e1, e2, e3

VARIABLE part   \* what the requests of a behaviour use: accounts or the list

\* The two meet only where an address is put on the list, which no account may
\* have: a behaviour about the list has accounts that stay as they are.
PartsInit ==
    /\ Init
    /\ \/ part = "accounts"
       \/ part = "list" /\ reserved = {e1}

PartsNext ==
    /\ UNCHANGED part
    /\ \E r \in Requests : \/ part = "accounts" /\ AccountStep(r)
                           \/ part = "list" /\ ListStep(r)

PartsSpec == PartsInit /\ [][PartsNext]_<<vars, part>>

AllRequests == Permutations(Requests)

=============================================================================
