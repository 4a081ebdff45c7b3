------------------------------ MODULE AddressBook ------------------------------
(***************************************************************************)
(* What the addresses of accounts are for the rest of CloudRunner, which   *)
(* finds its users, and the owners of jobs and machines, by them: a book   *)
(* in which every account has at most one address, of its own, that is     *)
(* changed or taken out in one step.  The book is sound as long as no      *)
(* request that changes an account lapses; after that nothing is promised. *)
(***************************************************************************)
CONSTANTS
    Users,           \* the accounts
    Admins,          \* those of administrators, which are never deleted
    Addresses,
    NoAddress        \* what a deleted account has

VARIABLES
    book,            \* book[u]: the address of account u
    sound            \* whether no request has lapsed

vars == <<book, sound>>

Init ==
    /\ book \in [Users -> Addresses \cup {NoAddress}]
    /\ \A u, w \in Users : book[u] = book[w] /\ book[u] # NoAddress => u = w
    /\ sound = TRUE

\* An account gets an address that no account has.
Change(u, e) ==
    /\ sound
    /\ book[u] # NoAddress
    /\ \A w \in Users : book[w] # e
    /\ book' = [book EXCEPT ![u] = e]
    /\ UNCHANGED sound

Delete(u) ==
    /\ sound
    /\ u \notin Admins
    /\ book' = [book EXCEPT ![u] = NoAddress]
    /\ UNCHANGED sound

Lapse == sound' = FALSE

Next == \/ \E u \in Users : Delete(u) \/ \E e \in Addresses : Change(u, e)
        \/ Lapse

Spec == Init /\ [][Next]_vars

=============================================================================
