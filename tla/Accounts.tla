------------------------------- MODULE Accounts -------------------------------
(***************************************************************************)
(* The accounts of CloudRunner and the list of people who ask for one.     *)
(*                                                                         *)
(* An address is kept in two places: in the account, and in the Unique     *)
(* model, whose entity reserves it.  Changing an address and deleting an   *)
(* account take a call to the datastore for each, with other requests in   *)
(* between; every other change writes back the whole account that the      *)
(* request has loaded.  The list of pending users is likewise loaded,      *)
(* changed and put back whole.                                             *)
(*                                                                         *)
(* Registration always raises an exception before it creates an account    *)
(* (Registrar has no attribute auth), so that accounts are those that were *)
(* there before.                                                           *)
(***************************************************************************)
EXTENDS Naturals, FiniteSets

CONSTANTS
    Users,           \* the accounts
    Admins,          \* those that say is_admin
    Addresses,       \* the e-mail addresses
    Applicants,      \* the addresses that are put on the list of pending users
    Lists,           \* the keys that the datastore may give to a list
    Requests         \* web requests in progress at the same time

NoAddress == "no address"

\* The key of a list that is not stored.
NoKey == 0

ASSUME AdminsType == Admins \subseteq Users
ASSUME ApplicantsType == Applicants \subseteq Addresses
ASSUME NoAddressType == NoAddress \notin Addresses
ASSUME ListsType == Lists \subseteq Nat \ {NoKey}

VARIABLES
    held,            \* held[u]: the address in account u, or NoAddress if deleted
    reserved,        \* the addresses that the Unique model has
    lists,           \* the lists of pending users in the datastore, by their keys
    req,             \* req[r]: what request r is doing
    spoiled,         \* history: accounts two requests have loaded at a time, or
                     \* whose owner mistyped the password when changing address
    crowded,         \* history: the requests on the list that another one overlaps
    unsure,          \* history: the addresses whose last answer came from such a one
    decided          \* history: what the answers about an address come to

vars == <<held, reserved, lists, req, spoiled, crowded, unsure, decided>>

-----------------------------------------------------------------------------
(* The list of pending users, and its copy in a request.                   *)

ListType == [waiting : SUBSET Applicants, approved : SUBSET Applicants]

EmptyList == [waiting |-> {}, approved |-> {}]

\* What a list says about an address.
Says(list, e) == <<e \in list.waiting, e \in list.approved>>

\* What an answer adds to what was decided about its address.
After(op, said) ==
    CASE op = "request"  -> <<TRUE, said[2]>>
      [] op = "approve"  -> <<said[1], TRUE>>
      [] op = "approve1" -> <<FALSE, TRUE>>
      [] op = "deny"     -> <<FALSE, said[2]>>
      [] op = "revoke"   -> <<said[1], FALSE>>
      [] OTHER           -> said

\* The query for the list returns the entity with the least key.
IsShared(i) == i \in DOMAIN lists /\ \A j \in DOMAIN lists : i <= j

\* The datastore stores a list.
Stores(i, list) ==
    lists' = [j \in DOMAIN lists \cup {i} |-> IF j = i THEN list ELSE lists[j]]

\* The lists that a request may put back: none if it is answered without a
\* change, or raises because remove() does not find the address.
Changed(op, e, list) ==
    CASE op = "request" /\ e \notin list.approved \cup list.waiting
                        /\ \A u \in Users : held[u] # e ->
              {[list EXCEPT !.waiting = @ \cup {e}]}
      [] op = "approve" /\ e \notin list.approved ->
              {[list EXCEPT !.approved = @ \cup {e}]}
      [] op = "approve1" /\ e \notin list.approved /\ e \in list.waiting ->
              {[waiting |-> list.waiting \ {e}, approved |-> list.approved \cup {e}]}
      [] op = "deny" /\ e \in list.waiting ->
              {[list EXCEPT !.waiting = @ \ {e}]}
      [] op = "revoke" /\ e \in list.approved ->
              {[list EXCEPT !.approved = @ \ {e}]}
      [] OTHER -> {}

\* "view" is the admin's page, and a registration, which never gets further.
ListOps == {"view", "request", "approve", "approve1", "deny", "revoke"}

-----------------------------------------------------------------------------
(* A request.  Of an account: its user, the address in the copy it has     *)
(* loaded, and the address to write.  Of the list: what to do with which   *)
(* address, and its copy of the list.                                      *)

AccountPlaces == {"reserve", "release", "put", "delete", "forget"}

AccountRequest ==
    [pc : AccountPlaces, user : Users, old : Addresses, new : Addresses]

ListPlaces == {"create", "answer"}

ListRequest == [ pc : ListPlaces, op : ListOps, address : Applicants,
                 key : Lists \cup {NoKey}, copy : ListType ]

Idle == [pc |-> "idle"]

OnAccount(pc, u, old, new) == [pc |-> pc, user |-> u, old |-> old, new |-> new]

OnList(pc, op, e, i, list) ==
    [pc |-> pc, op |-> op, address |-> e, key |-> i, copy |-> list]

\* Request r works on account u.
Uses(r, u) == req[r].pc \in AccountPlaces /\ req[r].user = u

\* Request r begins to use the list, which others may be using.
Overlaps(r) ==
    LET others == {q \in Requests : req[q].pc \in ListPlaces}
    IN  crowded' = IF others = {} THEN crowded ELSE crowded \cup others \cup {r}

\* A request loads an account, of which another request may have a copy.
Loads(r, request) ==
    /\ req' = [req EXCEPT ![r] = request]
    /\ spoiled' = IF \E q \in Requests \ {r} : Uses(q, request.user)
                  THEN spoiled \cup {request.user} ELSE spoiled

GoesTo(r, pc) == req' = [req EXCEPT ![r].pc = pc]

Ends(r) == req' = [req EXCEPT ![r] = Idle]

\* Accounts with addresses of their own, each reserved, and no list yet.
Init ==
    /\ held \in [Users -> Addresses \cup {NoAddress}]
    /\ \A u, w \in Users : held[u] = held[w] /\ held[u] # NoAddress => u = w
    /\ reserved = {held[u] : u \in Users} \ {NoAddress}
    /\ lists = [i \in {} |-> EmptyList]
    /\ req = [r \in Requests |-> Idle]
    /\ spoiled = {}
    /\ crowded = {}
    /\ unsure = {}
    /\ decided = [e \in Applicants |-> Says(EmptyList, e)]

-----------------------------------------------------------------------------
(* Mutants of the definitions below, one plausible mistake each.           *)

\* Mutant of Reserve: the answer of the Unique model is not looked at.
ReserveAnyway(r) ==
    /\ req[r].pc = "reserve"
    /\ reserved' = reserved \cup {req[r].new}
    /\ GoesTo(r, "release")
    /\ UNCHANGED <<held, lists, spoiled, crowded, unsure, decided>>

\* Mutant of Release: the address is changed before the old one is looked up.
ReleaseNew(r) ==
    /\ req[r].pc = "release"
    /\ reserved' = reserved \ {req[r].new}
    /\ GoesTo(r, "put")
    /\ UNCHANGED <<held, lists, spoiled, crowded, unsure, decided>>

\* Mutant of DeleteAccount: the address is emptied and the account stays.
EmptyAccount(r) ==
    /\ req[r].pc = "delete"
    /\ held' = [held EXCEPT ![req[r].user] = ""]
    /\ GoesTo(r, "forget")
    /\ UNCHANGED <<reserved, lists, spoiled, crowded, unsure, decided>>

\* Mutant of DeleteAccount: the account is saved at the end, as all other changes
\* of an account are.
DeleteAndSave(r) ==
    /\ req[r].pc = "delete"
    /\ held' = [held EXCEPT ![req[r].user] = NoAddress]
    /\ GoesTo(r, "put")
    /\ UNCHANGED <<reserved, lists, spoiled, crowded, unsure, decided>>

\* Mutant of AskDelete: whether the account is an administrator's is not asked.
AskDeleteAnyone(r, u) ==
    /\ req[r].pc = "idle"
    /\ held[u] # NoAddress
    /\ Loads(r, OnAccount("delete", u, held[u], held[u]))
    /\ UNCHANGED <<held, reserved, lists, crowded, unsure, decided>>

\* Mutant of Forget: the address stays reserved.
ForgetNothing(r) ==
    /\ req[r].pc = "forget"
    /\ Ends(r)
    /\ UNCHANGED <<held, reserved, lists, spoiled, crowded, unsure, decided>>

\* Mutant of AskList: the query for the list never finds one.
AskListAnew(r, op, e) ==
    /\ req[r].pc = "idle"
    /\ req' = [req EXCEPT ![r] = OnList("create", op, e, NoKey, EmptyList)]
    /\ Overlaps(r)
    /\ UNCHANGED <<held, reserved, lists, spoiled, unsure, decided>>

-----------------------------------------------------------------------------
(* Changing an account.                                                    *)

\* A request that is to change its own account is given another address, or the
\* one it has: then only the account is written.  So do the requests that save
\* credentials, name a bucket or reset a password.
AskSettings(r, u, e) ==
    /\ req[r].pc = "idle"
    /\ held[u] # NoAddress
    /\ Loads(r, OnAccount(IF e = held[u] THEN "put" ELSE "reserve", u, held[u], e))
    /\ UNCHANGED <<held, reserved, lists, crowded, unsure, decided>>

\* The new address is reserved in a transaction.
Reserve(r) ==
    /\ req[r].pc = "reserve"
    /\ req[r].new \notin reserved
    /\ reserved' = reserved \cup {req[r].new}
    /\ GoesTo(r, "release")
    /\ UNCHANGED <<held, lists, spoiled, crowded, unsure, decided>>

\* The page says that a user with that address already exists.
Refuse(r) ==
    /\ req[r].pc = "reserve"
    /\ req[r].new \in reserved
    /\ Ends(r)
    /\ UNCHANGED <<held, reserved, lists, spoiled, crowded, unsure, decided>>

Release(r) ==
    /\ req[r].pc = "release"
    /\ reserved' = reserved \ {req[r].old}
    /\ GoesTo(r, "put")
    /\ UNCHANGED <<held, lists, spoiled, crowded, unsure, decided>>

\* The whole account is written, even when it was deleted in the meantime.
PutAccount(r) ==
    /\ req[r].pc = "put"
    /\ held' = [held EXCEPT ![req[r].user] = req[r].new]
    /\ Ends(r)
    /\ UNCHANGED <<reserved, lists, spoiled, crowded, unsure, decided>>

\* The current password was mistyped, which is looked at only here, or a call to
\* the datastore raises.
GiveUp(r) ==
    /\ req[r].pc \in AccountPlaces
    /\ spoiled' = IF \/ req[r].pc \in {"release", "forget"}
                     \/ req[r].pc = "put" /\ req[r].old # req[r].new
                  THEN spoiled \cup {req[r].user} ELSE spoiled
    /\ Ends(r)
    /\ UNCHANGED <<held, reserved, lists, crowded, unsure, decided>>

\* The admin deletes an account, found by its address.
AskDelete(r, u) ==
    /\ req[r].pc = "idle"
    /\ held[u] # NoAddress
    /\ u \notin Admins
    /\ Loads(r, OnAccount("delete", u, held[u], held[u]))
    /\ UNCHANGED <<held, reserved, lists, crowded, unsure, decided>>

DeleteAccount(r) ==
    /\ req[r].pc = "delete"
    /\ held' = [held EXCEPT ![req[r].user] = NoAddress]
    /\ GoesTo(r, "forget")
    /\ UNCHANGED <<reserved, lists, spoiled, crowded, unsure, decided>>

Forget(r) ==
    /\ req[r].pc = "forget"
    /\ reserved' = reserved \ {req[r].old}
    /\ Ends(r)
    /\ UNCHANGED <<held, lists, spoiled, crowded, unsure, decided>>

-----------------------------------------------------------------------------
(* The list of pending users.                                              *)

AskList(r, op, e) ==
    /\ req[r].pc = "idle"
    /\ \/ /\ DOMAIN lists = {}
          /\ req' = [req EXCEPT ![r] = OnList("create", op, e, NoKey, EmptyList)]
       \/ \E i \in DOMAIN lists :
            /\ IsShared(i)
            /\ req' = [req EXCEPT ![r] = OnList("answer", op, e, i, lists[i])]
    /\ Overlaps(r)
    /\ UNCHANGED <<held, reserved, lists, spoiled, unsure, decided>>

\* A request that found no list stores one, under a key that is not in use.
CreateList(r, i) ==
    /\ req[r].pc = "create"
    /\ i \in Lists \ DOMAIN lists
    /\ Stores(i, EmptyList)
    /\ req' = [req EXCEPT ![r] = OnList("answer", req[r].op, req[r].address, i, EmptyList)]
    /\ UNCHANGED <<held, reserved, spoiled, crowded, unsure, decided>>

\* The copy of the list is changed and put back.
AnswerList(r) ==
    LET e == req[r].address
        changed == Changed(req[r].op, e, req[r].copy)
    IN  /\ req[r].pc = "answer"
        /\ \/ changed = {} /\ UNCHANGED <<lists, unsure, decided>>
           \/ \E list \in changed :
                /\ Stores(req[r].key, list)
                /\ unsure' = IF r \in crowded THEN unsure \cup {e} ELSE unsure \ {e}
                /\ decided' = [decided EXCEPT ![e] = IF e \in unsure THEN Says(list, e)
                                                    ELSE After(req[r].op, @)]
        /\ crowded' = crowded \ {r}
        /\ Ends(r)
        /\ UNCHANGED <<held, reserved, spoiled>>

-----------------------------------------------------------------------------
AccountStep(r) ==
    \/ \E u \in Users : AskDelete(r, u) \/ \E e \in Addresses : AskSettings(r, u, e)
    \/ Reserve(r) \/ Refuse(r) \/ Release(r) \/ PutAccount(r) \/ GiveUp(r)
    \/ DeleteAccount(r) \/ Forget(r)

ListStep(r) ==
    \/ \E op \in ListOps, e \in Applicants : AskList(r, op, e)
    \/ \E i \in Lists : CreateList(r, i)
    \/ AnswerList(r)

Next == \E r \in Requests : AccountStep(r) \/ ListStep(r)

Spec == Init /\ [][Next]_vars

-----------------------------------------------------------------------------
(* Properties.                                                             *)

(* Every variable keeps its type.                                          *)
TypeOK ==
    /\ held \in [Users -> Addresses \cup {NoAddress}]
    /\ reserved \subseteq Addresses
    /\ DOMAIN lists \subseteq Lists /\ lists \in [DOMAIN lists -> ListType]
    /\ req \in [Requests -> AccountRequest \cup ListRequest \cup {Idle}]
    /\ spoiled \subseteq Users /\ crowded \subseteq Requests /\ unsure \subseteq Applicants
    /\ decided \in [Applicants -> BOOLEAN \X BOOLEAN]

\* The account is about to be written, after its address has changed hands.
Moving(u) == \E r \in Requests : req[r].pc = "put" /\ req[r].user = u

(* Two accounts never have the same address, whatever addresses their      *)
(* owners exchange at the same time: unless a change was given up halfway, *)
(* two requests changed one account at once, or one of the two is about to *)
(* be written with its new address.  Between the release of the old one    *)
(* and that write another account may take it, and both have it.           *)
NoSharedAddress ==
    spoiled = {} =>
        \A u, w \in Users :
            u # w /\ held[u] = held[w] /\ held[u] # NoAddress => Moving(u) \/ Moving(w)

(* The address of an account is reserved for it, so that nobody else can   *)
(* take it.                                                                *)
AddressesReserved ==
    spoiled = {} => \A u \in Users : held[u] \in reserved \cup {NoAddress} \/ Moving(u)

(* An address that is refused because a user has it is the address of an   *)
(* account, or a request is changing to it or deleting its account.        *)
RefusedIsTaken ==
    spoiled = {} =>
        \A e \in reserved :
            \/ \E u \in Users : held[u] = e
            \/ \E r \in Requests : req[r].pc \in AccountPlaces /\ e \in {req[r].old, req[r].new}

(* An account that was deleted comes back only if another request had      *)
(* loaded it before it was deleted.                                        *)
DeletedStaysDeleted ==
    [][\A u \in Users : held[u] = NoAddress /\ held'[u] # NoAddress => u \in spoiled]_vars

(* A change of an address takes effect when the new one is reserved: from  *)
(* then on the account has it in the address book, although the datastore  *)
(* says so only after two more calls.                                      *)
Settles(r, u) == req[r].pc \in {"release", "put"} /\ req[r].user = u

bookBar ==
    [u \in Users |-> IF \E r \in Requests : Settles(r, u)
                     THEN req[CHOOSE r \in Requests : Settles(r, u)].new
                     ELSE held[u]]

Book == INSTANCE AddressBook WITH book <- bookBar, sound <- (spoiled = {})

(* Whatever requests interleave, addresses change hands as in an address   *)
(* book where each change is one step, no address is given to two accounts *)
(* and no account of an administrator is deleted.                          *)
ImplementsAddressBook == Book!Spec

(* The list that every request finds says of an address what the answers   *)
(* about it come to, whatever overlaps: only an answer whose own request    *)
(* overlapped with another one's use of the list can be lost, and the next  *)
(* answer about the address that does not overlap holds again.  Neither a   *)
(* copy loaded earlier nor a second list takes back any other answer.       *)
ListKeepsDecisions ==
    \A i \in DOMAIN lists, e \in Applicants :
        IsShared(i) /\ e \notin unsure => Says(lists[i], e) = decided[e]

=============================================================================
