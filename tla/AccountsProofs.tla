---------------------------- MODULE AccountsProofs ----------------------------
(***************************************************************************)
(* Theorems about Accounts, for any accounts, addresses, lists and any     *)
(* number of requests at the same time.                                    *)
(***************************************************************************)
EXTENDS Accounts, TLAPS

-----------------------------------------------------------------------------
(* Types.                                                                  *)

AnyRequest == AccountRequest \cup ListRequest \cup {Idle}

\* The place of a request tells which record it is.
LEMMA OnAccountFields ==
    ASSUME TypeOK, NEW r \in Requests, req[r].pc \in AccountPlaces
    PROVE  /\ req[r] \in AccountRequest
           /\ req[r].user \in Users /\ req[r].old \in Addresses /\ req[r].new \in Addresses
           /\ req[r] = OnAccount(req[r].pc, req[r].user, req[r].old, req[r].new)
  <1>1. req[r] \in AccountRequest \cup ListRequest \cup {Idle}
    BY DEF TypeOK
  <1>2. req[r] \notin ListRequest /\ req[r] # Idle
    BY DEF AccountPlaces, ListPlaces, ListRequest, Idle
  <1>3. QED
    BY <1>1, <1>2 DEF AccountRequest, OnAccount

LEMMA OnListFields ==
    ASSUME TypeOK, NEW r \in Requests, req[r].pc \in ListPlaces
    PROVE  /\ req[r] \in ListRequest
           /\ req[r].op \in ListOps /\ req[r].address \in Applicants
           /\ req[r].key \in Lists \cup {NoKey} /\ req[r].copy \in ListType
  <1>1. req[r] \in AccountRequest \cup ListRequest \cup {Idle}
    BY DEF TypeOK
  <1>2. req[r] \notin AccountRequest /\ req[r] # Idle
    BY DEF AccountPlaces, ListPlaces, AccountRequest, Idle
  <1>3. QED
    BY <1>1, <1>2 DEF ListRequest

LEMMA OnAccountTyped ==
    ASSUME NEW pc \in AccountPlaces, NEW u \in Users, NEW old \in Addresses, NEW new \in Addresses
    PROVE  OnAccount(pc, u, old, new) \in AnyRequest
  BY DEF OnAccount, AccountRequest, AnyRequest

LEMMA OnListTyped ==
    ASSUME NEW pc \in ListPlaces, NEW op \in ListOps, NEW e \in Applicants,
           NEW i \in Lists \cup {NoKey}, NEW list \in ListType
    PROVE  OnList(pc, op, e, i, list) \in AnyRequest
  BY DEF OnList, ListRequest, AnyRequest

\* What moving and ending a request do.
LEMMA GoesToMoves ==
    ASSUME TypeOK, NEW r \in Requests, req[r].pc \in AccountPlaces, NEW pc \in AccountPlaces,
           GoesTo(r, pc)
    PROVE  /\ req' = [req EXCEPT ![r] = OnAccount(pc, req[r].user, req[r].old, req[r].new)]
           /\ req'[r] = OnAccount(pc, req[r].user, req[r].old, req[r].new)
           /\ \A q \in Requests \ {r} : req'[q] = req[q]
           /\ req' \in [Requests -> AnyRequest]
  <1>1. [req[r] EXCEPT !.pc = pc] = OnAccount(pc, req[r].user, req[r].old, req[r].new)
    <2>1. PICK a \in AccountPlaces, u \in Users, old \in Addresses, new \in Addresses :
            req[r] = OnAccount(a, u, old, new)
      BY OnAccountFields
    <2>2. /\ req[r].user = u /\ req[r].old = old /\ req[r].new = new
          /\ [OnAccount(a, u, old, new) EXCEPT !.pc = pc] = OnAccount(pc, u, old, new)
      BY <2>1 DEF OnAccount
    <2>3. QED
      BY <2>1, <2>2
  <1>2. OnAccount(pc, req[r].user, req[r].old, req[r].new) \in AnyRequest
    BY OnAccountFields, OnAccountTyped
  <1>3. req \in [Requests -> AnyRequest]
    BY DEF TypeOK, AnyRequest
  <1>4. req' = [req EXCEPT ![r] = OnAccount(pc, req[r].user, req[r].old, req[r].new)]
    BY <1>1, <1>3 DEF GoesTo
  <1>5. QED
    BY <1>2, <1>3, <1>4

LEMMA EndsMoves ==
    ASSUME TypeOK, NEW r \in Requests, Ends(r)
    PROVE  /\ req'[r] = Idle /\ req'[r].pc = "idle"
           /\ \A q \in Requests \ {r} : req'[q] = req[q]
           /\ req' \in [Requests -> AnyRequest]
  BY DEF Ends, TypeOK, AnyRequest, Idle

LEMMA LoadsMoves ==
    ASSUME TypeOK, NEW r \in Requests, NEW pc \in AccountPlaces, NEW u \in Users,
           NEW e \in Addresses, NEW f \in Addresses, Loads(r, OnAccount(pc, u, e, f))
    PROVE  /\ req'[r] = OnAccount(pc, u, e, f)
           /\ \A q \in Requests \ {r} : req'[q] = req[q]
           /\ req' \in [Requests -> AnyRequest]
           /\ spoiled' = IF \E q \in Requests \ {r} : Uses(q, u) THEN spoiled \cup {u} ELSE spoiled
  <1>1. OnAccount(pc, u, e, f) \in AnyRequest /\ OnAccount(pc, u, e, f).user = u
    BY OnAccountTyped DEF OnAccount
  <1>2. QED
    BY <1>1 DEF Loads, TypeOK, AnyRequest

LEMMA ChangedTyped ==
    ASSUME NEW op, NEW e \in Applicants, NEW list \in ListType
    PROVE  Changed(op, e, list) \subseteq ListType
  <1>1. /\ [list EXCEPT !.waiting = @ \cup {e}] \in ListType
        /\ [list EXCEPT !.approved = @ \cup {e}] \in ListType
        /\ [waiting |-> list.waiting \ {e}, approved |-> list.approved \cup {e}] \in ListType
        /\ [list EXCEPT !.waiting = @ \ {e}] \in ListType
        /\ [list EXCEPT !.approved = @ \ {e}] \in ListType
    BY DEF ListType
  <1>2. Changed(op, e, list) \in
          { {}, {[list EXCEPT !.waiting = @ \cup {e}]}, {[list EXCEPT !.approved = @ \cup {e}]},
            {[waiting |-> list.waiting \ {e}, approved |-> list.approved \cup {e}]},
            {[list EXCEPT !.waiting = @ \ {e}]}, {[list EXCEPT !.approved = @ \ {e}]} }
    BY Zenon DEF Changed
  <1>3. QED
    BY <1>1, <1>2, Zenon

LEMMA StoresTyped ==
    ASSUME TypeOK, NEW i \in Lists, NEW list \in ListType, Stores(i, list)
    PROVE  /\ DOMAIN lists' = DOMAIN lists \cup {i} /\ DOMAIN lists' \subseteq Lists
           /\ lists' \in [DOMAIN lists' -> ListType]
           /\ lists'[i] = list /\ \A j \in DOMAIN lists \ {i} : lists'[j] = lists[j]
  BY DEF Stores, TypeOK

LEMMA SaysTyped == ASSUME NEW list \in ListType, NEW e \in Applicants
                   PROVE  Says(list, e) \in BOOLEAN \X BOOLEAN
  <1>1. (e \in list.waiting) \in BOOLEAN /\ (e \in list.approved) \in BOOLEAN
    OBVIOUS
  <1>2. QED
    BY <1>1 DEF Says

LEMMA EmptyTyped == EmptyList \in ListType
  BY DEF EmptyList, ListType

LEMMA InitTyped == Init => TypeOK
  <1> SUFFICES ASSUME Init PROVE TypeOK
    OBVIOUS
  <1>1. reserved \subseteq Addresses
    BY DEF Init
  <1>2. DOMAIN lists = {} /\ lists \in [DOMAIN lists -> ListType]
    BY DEF Init
  <1>3. decided \in [Applicants -> BOOLEAN \X BOOLEAN]
    BY SaysTyped, EmptyTyped DEF Init
  <1>4. QED
    BY <1>1, <1>2, <1>3 DEF Init, TypeOK

LEMMA AskSettingsTyped ==
    ASSUME TypeOK, NEW r \in Requests, NEW u \in Users, NEW e \in Addresses, AskSettings(r, u, e)
    PROVE  TypeOK'
  <1>1. held[u] \in Addresses
    BY DEF TypeOK, AskSettings
  <1>2. req' \in [Requests -> AnyRequest] /\ spoiled' \subseteq Users
    <2>1. CASE e = held[u]
      BY <2>1, <1>1, LoadsMoves DEF AskSettings, AccountPlaces, TypeOK
    <2>2. CASE e # held[u]
      BY <2>2, <1>1, LoadsMoves DEF AskSettings, AccountPlaces, TypeOK
    <2>3. QED
      BY <2>1, <2>2
  <1>3. QED
    BY <1>2 DEF AskSettings, TypeOK, AnyRequest

LEMMA AskDeleteTyped ==
    ASSUME TypeOK, NEW r \in Requests, NEW u \in Users, AskDelete(r, u)
    PROVE  TypeOK'
  <1>1. held[u] \in Addresses
    BY DEF TypeOK, AskDelete
  <1>2. req' \in [Requests -> AnyRequest] /\ spoiled' \subseteq Users
    BY <1>1, LoadsMoves DEF AskDelete, AccountPlaces, TypeOK
  <1>3. QED
    BY <1>2 DEF AskDelete, TypeOK, AnyRequest

LEMMA ReserveTyped == ASSUME TypeOK, NEW r \in Requests, Reserve(r) PROVE TypeOK'
  <1>1. req[r].pc \in AccountPlaces /\ req[r].new \in Addresses
    BY OnAccountFields DEF Reserve, AccountPlaces
  <1>2. req' \in [Requests -> AnyRequest]
    BY <1>1, GoesToMoves DEF Reserve, AccountPlaces
  <1>3. QED
    BY <1>1, <1>2 DEF Reserve, TypeOK, AnyRequest

LEMMA ReleaseTyped == ASSUME TypeOK, NEW r \in Requests, Release(r) PROVE TypeOK'
  <1>1. req[r].pc \in AccountPlaces
    BY DEF Release, AccountPlaces
  <1>2. req' \in [Requests -> AnyRequest]
    BY <1>1, GoesToMoves DEF Release, AccountPlaces
  <1>3. QED
    BY <1>2 DEF Release, TypeOK, AnyRequest

LEMMA DeleteTyped == ASSUME TypeOK, NEW r \in Requests, DeleteAccount(r) PROVE TypeOK'
  <1>1. req[r].pc \in AccountPlaces /\ req[r].user \in Users
    BY OnAccountFields DEF DeleteAccount, AccountPlaces
  <1>2. req' \in [Requests -> AnyRequest]
    BY <1>1, GoesToMoves DEF DeleteAccount, AccountPlaces
  <1>3. QED
    BY <1>1, <1>2 DEF DeleteAccount, TypeOK, AnyRequest

\* The steps that end a request of an account.
LEMMA EndingTyped ==
    ASSUME TypeOK, NEW r \in Requests,
           Refuse(r) \/ PutAccount(r) \/ GiveUp(r) \/ Forget(r)
    PROVE  TypeOK'
  <1>1. /\ req[r].pc \in AccountPlaces /\ Ends(r)
        /\ UNCHANGED <<lists, crowded, unsure, decided>>
    BY DEF Refuse, PutAccount, GiveUp, Forget, AccountPlaces
  <1>2. req[r].user \in Users /\ req[r].new \in Addresses
    BY <1>1, OnAccountFields
  <1>3. req' \in [Requests -> AnyRequest]
    BY <1>1, EndsMoves
  <1>4. /\ held' \in [Users -> Addresses \cup {NoAddress}]
        /\ reserved' \subseteq Addresses /\ spoiled' \subseteq Users
    BY <1>2 DEF TypeOK, Refuse, PutAccount, GiveUp, Forget
  <1>5. QED
    BY <1>1, <1>3, <1>4 DEF TypeOK, AnyRequest

LEMMA AskListTyped ==
    ASSUME TypeOK, NEW r \in Requests, NEW op \in ListOps, NEW e \in Applicants, AskList(r, op, e)
    PROVE  TypeOK'
  <1>1. req' \in [Requests -> AnyRequest]
    <2>1. CASE req' = [req EXCEPT ![r] = OnList("create", op, e, NoKey, EmptyList)]
      BY <2>1, OnListTyped, EmptyTyped DEF ListPlaces, TypeOK, AnyRequest
    <2>2. ASSUME NEW i \in DOMAIN lists, req' = [req EXCEPT ![r] = OnList("answer", op, e, i, lists[i])]
          PROVE  req' \in [Requests -> AnyRequest]
      BY <2>2, OnListTyped DEF ListPlaces, TypeOK, AnyRequest
    <2>3. QED
      BY <2>1, <2>2 DEF AskList
  <1>2. crowded' \subseteq Requests
    BY DEF AskList, Overlaps, TypeOK
  <1>3. QED
    BY <1>1, <1>2 DEF AskList, TypeOK, AnyRequest

LEMMA CreateListTyped ==
    ASSUME TypeOK, NEW r \in Requests, NEW i \in Lists, CreateList(r, i) PROVE TypeOK'
  <1>1. req[r].op \in ListOps /\ req[r].address \in Applicants
    BY OnListFields DEF CreateList, ListPlaces
  <1>2. req' \in [Requests -> AnyRequest]
    BY <1>1, OnListTyped, EmptyTyped DEF CreateList, ListPlaces, TypeOK, AnyRequest
  <1>3. DOMAIN lists' \subseteq Lists /\ lists' \in [DOMAIN lists' -> ListType]
    BY StoresTyped, EmptyTyped DEF CreateList
  <1>4. QED
    BY <1>2, <1>3 DEF CreateList, TypeOK, AnyRequest

LEMMA AfterTyped ==
    ASSUME NEW op, NEW said \in BOOLEAN \X BOOLEAN PROVE After(op, said) \in BOOLEAN \X BOOLEAN
  BY DEF After

\* What an answer writes that puts a list back.
Answers(r, list) ==
    /\ Stores(req[r].key, list)
    /\ unsure' = IF r \in crowded THEN unsure \cup {req[r].address}
                 ELSE unsure \ {req[r].address}
    /\ decided' = [decided EXCEPT ![req[r].address] =
                       IF req[r].address \in unsure THEN Says(list, req[r].address)
                       ELSE After(req[r].op, @)]

LEMMA AnswerIs ==
    ASSUME NEW r \in Requests, AnswerList(r)
    PROVE  /\ req[r].pc = "answer" /\ Ends(r) /\ crowded' = crowded \ {r}
           /\ \/ UNCHANGED <<lists, unsure, decided>>
              \/ \E list \in Changed(req[r].op, req[r].address, req[r].copy) : Answers(r, list)
  BY Zenon DEF AnswerList, Answers

LEMMA AnswerListTyped ==
    ASSUME TypeOK, NEW r \in Requests, AnswerList(r), req[r].key \in DOMAIN lists PROVE TypeOK'
  <1>1. req[r].address \in Applicants /\ req[r].copy \in ListType /\ req[r].key \in Lists
    BY OnListFields DEF AnswerList, ListPlaces, TypeOK
  <1>2. req' \in [Requests -> AnyRequest]
    BY EndsMoves DEF AnswerList
  <1>3. /\ DOMAIN lists' \subseteq Lists /\ lists' \in [DOMAIN lists' -> ListType]
        /\ unsure' \subseteq Applicants /\ decided' \in [Applicants -> BOOLEAN \X BOOLEAN]
    <2>1. CASE UNCHANGED <<lists, unsure, decided>>
      BY <2>1 DEF TypeOK
    <2>2. ASSUME NEW list \in Changed(req[r].op, req[r].address, req[r].copy), Answers(r, list)
          PROVE  /\ DOMAIN lists' \subseteq Lists /\ lists' \in [DOMAIN lists' -> ListType]
                 /\ unsure' \subseteq Applicants /\ decided' \in [Applicants -> BOOLEAN \X BOOLEAN]
      <3>1. list \in ListType
        BY <1>1, ChangedTyped
      <3>2. /\ Says(list, req[r].address) \in BOOLEAN \X BOOLEAN
            /\ After(req[r].op, decided[req[r].address]) \in BOOLEAN \X BOOLEAN
        BY <1>1, <3>1, SaysTyped, AfterTyped DEF TypeOK
      <3>3. decided' \in [Applicants -> BOOLEAN \X BOOLEAN]
        BY <2>2, <3>2 DEF Answers, TypeOK
      <3>4. QED
        BY <1>1, <2>2, <3>1, <3>3, StoresTyped DEF Answers, TypeOK
    <2>3. QED
      BY <2>1, <2>2, AnswerIs
  <1>4. QED
    BY <1>2, <1>3 DEF AnswerList, TypeOK, AnyRequest

-----------------------------------------------------------------------------
(* What a step leaves alone.                                               *)

LEMMA AccountStepFrame ==
    ASSUME TypeOK, NEW r \in Requests, AccountStep(r)
    PROVE  /\ TypeOK' /\ UNCHANGED <<lists, crowded, unsure, decided>>
           /\ \A q \in Requests \ {r} : req'[q] = req[q]
           /\ req[r].pc \notin ListPlaces /\ req'[r].pc \notin ListPlaces
           /\ spoiled \subseteq spoiled'
  <1> DEFINE Frame == /\ TypeOK' /\ UNCHANGED <<lists, crowded, unsure, decided>>
                      /\ \A q \in Requests \ {r} : req'[q] = req[q]
                      /\ req[r].pc \notin ListPlaces /\ req'[r].pc \notin ListPlaces
                      /\ spoiled \subseteq spoiled'
  <1>1. ASSUME NEW u \in Users, NEW e \in Addresses, AskSettings(r, u, e) PROVE Frame
    <2>1. held[u] \in Addresses
      BY <1>1 DEF TypeOK, AskSettings
    <2>2. PICK pc \in {"put", "reserve"} : Loads(r, OnAccount(pc, u, held[u], e))
      BY <1>1, Zenon DEF AskSettings
    <2>3. TypeOK'
      BY <1>1, AskSettingsTyped
    <2>4. /\ req'[r] = OnAccount(pc, u, held[u], e) /\ spoiled \subseteq spoiled'
          /\ \A q \in Requests \ {r} : req'[q] = req[q]
      BY <2>1, <2>2, LoadsMoves DEF AccountPlaces
    <2>5. QED
      BY <1>1, <2>3, <2>4 DEF AskSettings, ListPlaces, OnAccount
  <1>2. ASSUME NEW u \in Users, AskDelete(r, u) PROVE Frame
    <2>1. held[u] \in Addresses
      BY <1>2 DEF TypeOK, AskDelete
    <2>2. TypeOK'
      BY <1>2, AskDeleteTyped
    <2>3. /\ req'[r] = OnAccount("delete", u, held[u], held[u]) /\ spoiled \subseteq spoiled'
          /\ \A q \in Requests \ {r} : req'[q] = req[q]
      BY <1>2, <2>1, LoadsMoves DEF AccountPlaces, AskDelete
    <2>4. QED
      BY <1>2, <2>2, <2>3 DEF AskDelete, ListPlaces, OnAccount
  <1>3. CASE Reserve(r) \/ Release(r) \/ DeleteAccount(r)
    <2>1. TypeOK'
      BY <1>3, ReserveTyped, ReleaseTyped, DeleteTyped
    <2>2. PICK pc \in {"release", "put", "forget"} : GoesTo(r, pc)
      BY <1>3 DEF Reserve, Release, DeleteAccount
    <2>3. req[r].pc \in {"reserve", "release", "delete"}
      BY <1>3 DEF Reserve, Release, DeleteAccount
    <2>4. /\ req'[r] = OnAccount(pc, req[r].user, req[r].old, req[r].new)
          /\ \A q \in Requests \ {r} : req'[q] = req[q]
      <3>1. req[r].pc \in AccountPlaces /\ pc \in AccountPlaces
        BY <2>3 DEF AccountPlaces
      <3>2. QED
        BY <2>2, <3>1, GoesToMoves
    <2> HIDE DEF Frame
    <2>5. req'[r].pc = pc
      BY <2>4 DEF OnAccount
    <2>6. QED
      BY <1>3, <2>1, <2>3, <2>4, <2>5 DEF Frame, Reserve, Release, DeleteAccount, ListPlaces
  <1>4. CASE Refuse(r) \/ PutAccount(r) \/ GiveUp(r) \/ Forget(r)
    <2>1. TypeOK'
      BY <1>4, EndingTyped
    <2>2. Ends(r) /\ req[r].pc \in AccountPlaces
      BY <1>4 DEF Refuse, PutAccount, GiveUp, Forget, AccountPlaces
    <2>3. req'[r].pc = "idle" /\ \A q \in Requests \ {r} : req'[q] = req[q]
      BY <2>2, EndsMoves
    <2>4. UNCHANGED <<lists, crowded, unsure, decided>> /\ spoiled \subseteq spoiled'
      BY <1>4 DEF Refuse, PutAccount, GiveUp, Forget
    <2>5. QED
      BY <2>1, <2>2, <2>3, <2>4 DEF AccountPlaces, ListPlaces
  <1>5. QED
    BY <1>1, <1>2, <1>3, <1>4 DEF AccountStep

LEMMA ListStepFrame ==
    ASSUME TypeOK, NEW r \in Requests, ListStep(r)
    PROVE  /\ UNCHANGED <<held, reserved, spoiled>>
           /\ \A q \in Requests \ {r} : req'[q] = req[q]
           /\ req[r].pc \notin AccountPlaces /\ req'[r].pc \notin AccountPlaces
  <1> DEFINE Frame == /\ UNCHANGED <<held, reserved, spoiled>>
                      /\ \A q \in Requests \ {r} : req'[q] = req[q]
                      /\ req[r].pc \notin AccountPlaces /\ req'[r].pc \notin AccountPlaces
  <1>1. ASSUME NEW op \in ListOps, NEW e \in Applicants, AskList(r, op, e) PROVE Frame
    BY <1>1 DEF AskList, OnList, TypeOK, AccountPlaces
  <1>2. ASSUME NEW i \in Lists, CreateList(r, i) PROVE Frame
    BY <1>2 DEF CreateList, OnList, TypeOK, AccountPlaces
  <1>3. CASE AnswerList(r)
    <2>1. req'[r].pc = "idle" /\ \A q \in Requests \ {r} : req'[q] = req[q]
      BY <1>3, EndsMoves DEF AnswerList
    <2>2. QED
      BY <1>3, <2>1 DEF AnswerList, AccountPlaces
  <1>4. QED
    BY <1>1, <1>2, <1>3 DEF ListStep

-----------------------------------------------------------------------------
(* The list.  A request that answers has a stored list.  One that nobody   *)
(* overlaps is alone with the list that is shared.  About an address whose *)
(* last answer nobody overlapped, the shared list and all copies of it say *)
(* what the answers come to.                                               *)

AnswersStored == \A r \in Requests : req[r].pc = "answer" => req[r].key \in DOMAIN lists

Alone == \A r \in Requests :
    req[r].pc \in ListPlaces /\ r \notin crowded =>
        /\ \A q \in Requests : req[q].pc \in ListPlaces => q = r
        /\ req[r].pc = "create" => DOMAIN lists = {}
        /\ req[r].pc = "answer" => IsShared(req[r].key)

Known(e) ==
    /\ \A i \in DOMAIN lists : IsShared(i) => Says(lists[i], e) = decided[e]
    /\ DOMAIN lists = {} => decided[e] = Says(EmptyList, e)
    /\ \A r \in Requests :
          /\ req[r].pc = "create" => decided[e] = Says(EmptyList, e)
          /\ req[r].pc = "answer" /\ IsShared(req[r].key) => Says(req[r].copy, e) = decided[e]

Sure == \A e \in Applicants \ unsure : Known(e)

ListInv == TypeOK /\ AnswersStored /\ Alone /\ Sure

(* Accounts.  An account that no two requests had at a time is as its      *)
(* request left it.                                                        *)

Mine(a, u) == a.pc \in AccountPlaces /\ a.user = u

Sits(h, a, u) ==
    /\ a.pc \in {"reserve", "release", "put", "delete"} => h[u] = a.old
    /\ a.pc = "forget" => h[u] = NoAddress
    /\ a.pc \in {"reserve", "release"} => a.old # a.new

Orderly(u) == \A r \in Requests :
                  Mine(req[r], u) => /\ Sits(held, req[r], u)
                                     /\ \A q \in Requests : Mine(req[q], u) => q = r

Accountable == \A u \in Users \ spoiled : Orderly(u)

(* An account claims its address, and its request the addresses it has     *)
(* reserved and not yet released or written.  Each reserved address is     *)
(* claimed by one account.                                                 *)

Part(h, a, u, e) ==
    \/ h[u] = e /\ ~(Mine(a, u) /\ a.pc = "put")
    \/ Mine(a, u) /\ a.pc = "release" /\ e \in {a.old, a.new}
    \/ Mine(a, u) /\ a.pc = "put" /\ e = a.new
    \/ Mine(a, u) /\ a.pc = "forget" /\ e = a.old

Claim(h, q, u, e) ==
    \/ h[u] = e /\ ~\E r \in Requests : Mine(q[r], u) /\ q[r].pc = "put"
    \/ \E r \in Requests : Mine(q[r], u) /\ q[r].pc = "release" /\ e \in {q[r].old, q[r].new}
    \/ \E r \in Requests : Mine(q[r], u) /\ q[r].pc = "put" /\ e = q[r].new
    \/ \E r \in Requests : Mine(q[r], u) /\ q[r].pc = "forget" /\ e = q[r].old

Ledger ==
    /\ \A u, w \in Users, e \in Addresses : Claim(held, req, u, e) /\ Claim(held, req, w, e) => u = w
    /\ \A e \in Addresses : e \in reserved <=> \E u \in Users : Claim(held, req, u, e)

AccountInv == /\ TypeOK /\ Accountable
              /\ spoiled = {} => Ledger

-----------------------------------------------------------------------------
(* The list of pending users.                                              *)

LEMMA ListInit == Init => ListInv
  <1> SUFFICES ASSUME Init PROVE ListInv
    OBVIOUS
  <1>1. TypeOK
    BY InitTyped
  <1>2. DOMAIN lists = {} /\ \A e \in Applicants : decided[e] = Says(EmptyList, e)
    BY DEF Init
  <1>3. \A r \in Requests : req[r].pc = "idle"
    BY DEF Init, Idle
  <1>4. QED
    BY <1>1, <1>2, <1>3 DEF ListInv, AnswersStored, Alone, Sure, Known, ListPlaces

LEMMA ListAccountStep ==
    ASSUME ListInv, NEW r \in Requests, AccountStep(r) PROVE ListInv'
  <1>1. /\ TypeOK' /\ UNCHANGED <<lists, crowded, unsure, decided>>
        /\ \A q \in Requests \ {r} : req'[q] = req[q]
        /\ req'[r].pc \notin ListPlaces
    BY AccountStepFrame DEF ListInv
  <1>2. AnswersStored'
    BY <1>1 DEF ListInv, AnswersStored, ListPlaces
  <1>3. Alone'
    BY <1>1 DEF ListInv, Alone, ListPlaces, IsShared
  <1>4. Sure'
    BY <1>1 DEF ListInv, Sure, Known, ListPlaces, IsShared
  <1>5. QED
    BY <1>1, <1>2, <1>3, <1>4 DEF ListInv

LEMMA ListAskList ==
    ASSUME ListInv, NEW r \in Requests, NEW op \in ListOps, NEW e \in Applicants, AskList(r, op, e)
    PROVE  ListInv'
  <1>1. TypeOK'
    BY AskListTyped DEF ListInv
  <1>2. /\ UNCHANGED <<lists, unsure, decided>>
        /\ \A q \in Requests \ {r} : req'[q] = req[q]
    BY DEF AskList, ListInv, TypeOK
  <1>3. \/ DOMAIN lists = {} /\ req'[r].pc = "create"
        \/ \E i \in DOMAIN lists : /\ req'[r].pc = "answer" /\ IsShared(i)
                                   /\ req'[r].key = i /\ req'[r].copy = lists[i]
    BY DEF AskList, OnList, ListInv, TypeOK
  <1>4. AnswersStored'
    BY <1>2, <1>3 DEF ListInv, AnswersStored
  <1>5. Alone'
    <2>1. \A q \in Requests \ {r} :
            req[q].pc \in ListPlaces => q \in crowded' /\ r \in crowded'
      BY DEF AskList, Overlaps, ListPlaces
    <2>2. QED
      BY <1>2, <1>3, <2>1 DEF Alone, ListPlaces, IsShared
  <1>6. ASSUME NEW f \in Applicants \ unsure PROVE Known(f)'
    <2>1. Known(f)
      BY <1>6 DEF ListInv, Sure
    <2>2. QED
      BY <1>2, <1>3, <2>1 DEF Known, IsShared
  <1>7. QED
    BY <1>1, <1>2, <1>4, <1>5, <1>6 DEF ListInv, Sure

LEMMA ListCreateList ==
    ASSUME ListInv, NEW r \in Requests, NEW i \in Lists, CreateList(r, i) PROVE ListInv'
  <1>1. TypeOK'
    BY CreateListTyped DEF ListInv
  <1>2. /\ UNCHANGED <<crowded, unsure, decided>> /\ req[r].pc = "create" /\ i \notin DOMAIN lists
        /\ \A q \in Requests \ {r} : req'[q] = req[q]
        /\ req'[r].pc = "answer" /\ req'[r].key = i /\ req'[r].copy = EmptyList
    BY DEF CreateList, OnList, ListInv, TypeOK
  <1>3. /\ DOMAIN lists' = DOMAIN lists \cup {i} /\ lists'[i] = EmptyList
        /\ \A j \in DOMAIN lists : lists'[j] = lists[j]
    BY StoresTyped, EmptyTyped DEF CreateList, ListInv, Stores
  <1>4. AnswersStored'
    BY <1>2, <1>3 DEF ListInv, AnswersStored
  <1>5. \A j \in DOMAIN lists : IsShared(j)' => IsShared(j)
    BY <1>3 DEF IsShared
  <1>6. Alone'
    <2>1. r \in crowded \/ /\ DOMAIN lists = {}
                           /\ \A q \in Requests \ {r} : req[q].pc \notin ListPlaces
      BY <1>2 DEF ListInv, Alone, ListPlaces
    <2>2. ASSUME NEW q \in Requests \ {r}, req[q].pc \in ListPlaces PROVE q \in crowded
      BY <1>2, <2>2 DEF ListInv, Alone, ListPlaces
    <2>3. DOMAIN lists = {} => IsShared(i)'
      BY <1>3, ListsType DEF IsShared
    <2>4. QED
      BY <1>2, <2>1, <2>2, <2>3 DEF Alone, ListPlaces
  <1>7. ASSUME NEW f \in Applicants \ unsure PROVE Known(f)'
    <2>1. Known(f) /\ decided[f] = Says(EmptyList, f)
      BY <1>2, <1>7 DEF ListInv, Sure, Known
    <2>2. \A j \in DOMAIN lists' : IsShared(j)' => Says(lists'[j], f) = decided[f]
      BY <1>3, <1>5, <2>1 DEF Known
    <2>3. ASSUME NEW q \in Requests, req'[q].pc = "answer", IsShared(req[q].key)'
          PROVE  q # r => Says(req[q].copy, f) = decided[f]
      BY <1>2, <1>5, <2>1, <2>3 DEF ListInv, AnswersStored, Known
    <2>4. QED
      BY <1>2, <1>3, <2>1, <2>2, <2>3 DEF Known, IsShared
  <1>8. QED
    BY <1>1, <1>2, <1>4, <1>6, <1>7 DEF ListInv, Sure

\* An answer about one address leaves what the list says of the others.
LEMMA ChangedElsewhere ==
    ASSUME NEW op, NEW e \in Applicants, NEW f \in Applicants \ {e}, NEW list \in ListType,
           NEW new \in Changed(op, e, list)
    PROVE  Says(new, f) = Says(list, f)
  <1>1. \/ new = [list EXCEPT !.waiting = @ \cup {e}]
        \/ new = [list EXCEPT !.approved = @ \cup {e}]
        \/ new = [waiting |-> list.waiting \ {e}, approved |-> list.approved \cup {e}]
        \/ new = [list EXCEPT !.waiting = @ \ {e}]
        \/ new = [list EXCEPT !.approved = @ \ {e}]
    BY Zenon DEF Changed
  <1>2. (f \in new.waiting <=> f \in list.waiting) /\ (f \in new.approved <=> f \in list.approved)
    BY <1>1 DEF ListType
  <1>3. QED
    BY <1>2 DEF Says

\* An answer that puts back a copy of the list says there what it adds to what
\* the copy said.
LEMMA ChangedHere ==
    ASSUME NEW op \in ListOps, NEW e \in Applicants, NEW list \in ListType,
           NEW new \in Changed(op, e, list)
    PROVE  Says(new, e) = After(op, Says(list, e))
  <1>1. \/ op = "request" /\ new = [list EXCEPT !.waiting = @ \cup {e}]
        \/ op = "approve" /\ new = [list EXCEPT !.approved = @ \cup {e}]
        \/ op = "approve1" /\ new = [waiting |-> list.waiting \ {e},
                                     approved |-> list.approved \cup {e}]
        \/ op = "deny" /\ new = [list EXCEPT !.waiting = @ \ {e}]
        \/ op = "revoke" /\ new = [list EXCEPT !.approved = @ \ {e}]
    BY Zenon DEF Changed
  <1>2. CASE op = "request" /\ new = [list EXCEPT !.waiting = @ \cup {e}]
    BY <1>2 DEF ListType, Says, After
  <1>3. CASE op = "approve" /\ new = [list EXCEPT !.approved = @ \cup {e}]
    BY <1>3 DEF ListType, Says, After
  <1>4. CASE op = "approve1" /\ new = [waiting |-> list.waiting \ {e},
                                       approved |-> list.approved \cup {e}]
    <2>1. (e \in new.waiting) = FALSE /\ (e \in new.approved) = TRUE
      BY <1>4
    <2>2. Says(new, e) = <<FALSE, TRUE>>
      BY <2>1, Zenon DEF Says
    <2>3. After(op, Says(list, e)) = <<FALSE, TRUE>>
      BY <1>4 DEF Says, After
    <2>4. QED
      BY <2>2, <2>3
  <1>5. CASE op = "deny" /\ new = [list EXCEPT !.waiting = @ \ {e}]
    <2>1. (e \in new.waiting) = FALSE /\ new.approved = list.approved
      BY <1>5 DEF ListType
    <2>2. Says(new, e) = <<FALSE, e \in list.approved>>
      BY <2>1, Zenon DEF Says
    <2>3. After(op, Says(list, e)) = <<FALSE, e \in list.approved>>
      BY <1>5 DEF Says, After
    <2>4. QED
      BY <2>2, <2>3
  <1>6. CASE op = "revoke" /\ new = [list EXCEPT !.approved = @ \ {e}]
    <2>1. (e \in new.approved) = FALSE /\ new.waiting = list.waiting
      BY <1>6 DEF ListType
    <2>2. Says(new, e) = <<e \in list.waiting, FALSE>>
      BY <2>1, Zenon DEF Says
    <2>3. After(op, Says(list, e)) = <<e \in list.waiting, FALSE>>
      BY <1>6 DEF Says, After
    <2>4. QED
      BY <2>2, <2>3
  <1>7. QED
    BY <1>1, <1>2, <1>3, <1>4, <1>5, <1>6

\* No two lists are both the one that requests find.
LEMMA OneShared == ASSUME TypeOK, NEW i, NEW j, IsShared(i), IsShared(j) PROVE i = j
  BY ListsType DEF TypeOK, IsShared

LEMMA ListAnswerList ==
    ASSUME ListInv, NEW r \in Requests, AnswerList(r) PROVE ListInv'
  <1> DEFINE e == req[r].address
             i == req[r].key
  <1>1. /\ req[r].pc = "answer" /\ crowded' = crowded \ {r}
        /\ req'[r].pc = "idle" /\ \A q \in Requests \ {r} : req'[q] = req[q]
    BY AnswerIs, EndsMoves DEF ListInv
  <1>2. /\ i \in DOMAIN lists /\ e \in Applicants /\ req[r].copy \in ListType
        /\ i \in Lists /\ req[r].op \in ListOps
    BY <1>1, OnListFields DEF ListInv, AnswersStored, ListPlaces, TypeOK
  <1>3. TypeOK'
    BY <1>2, AnswerListTyped DEF ListInv
  <1>4. /\ DOMAIN lists' = DOMAIN lists
        /\ \A j \in DOMAIN lists \ {i} : lists'[j] = lists[j]
    <2>1. ASSUME NEW list \in Changed(req[r].op, e, req[r].copy), Answers(r, list)
          PROVE  /\ DOMAIN lists' = DOMAIN lists
                 /\ \A j \in DOMAIN lists \ {i} : lists'[j] = lists[j]
      BY <1>2, <2>1 DEF Answers, Stores
    <2>2. QED
      BY <2>1, AnswerIs
  <1>5. \A j : IsShared(j)' <=> IsShared(j)
    BY <1>4 DEF IsShared
  <1>6. AnswersStored'
    BY <1>1, <1>4 DEF ListInv, AnswersStored
  <1>7. Alone'
    <2>1. \A q \in Requests : req'[q].pc \in ListPlaces => q # r /\ req'[q] = req[q]
      BY <1>1 DEF ListPlaces
    <2>2. QED
      BY <1>1, <1>4, <1>5, <2>1 DEF ListInv, Alone
  <1>8. CASE UNCHANGED <<lists, unsure, decided>>
    BY <1>1, <1>3, <1>5, <1>6, <1>7, <1>8 DEF ListInv, Sure, Known
  <1>9. ASSUME NEW list \in Changed(req[r].op, e, req[r].copy), Answers(r, list) PROVE Sure'
    <2>1. list \in ListType /\ lists'[i] = list
      BY <1>2, <1>9, ChangedTyped DEF Answers, Stores
    <2>2. \A f \in Applicants \ {e} : decided'[f] = decided[f] /\ Says(list, f) = Says(req[r].copy, f)
      BY <1>2, <1>9, ChangedElsewhere DEF Answers, ListInv, TypeOK
    <2>3. ASSUME NEW f \in Applicants \ {e}, f \notin unsure PROVE Known(f)'
      <3>1. Known(f)
        BY <2>3 DEF ListInv, Sure
      <3>2. IsShared(i) => Says(list, f) = decided'[f]
        BY <1>1, <2>2, <3>1 DEF Known
      <3>3. QED
        BY <1>1, <1>4, <1>5, <2>1, <2>2, <3>1, <3>2 DEF Known
    <2>4. ASSUME NEW f \in Applicants, f = e, f \notin unsure' PROVE Known(f)'
      <3>1. r \notin crowded
        BY <1>9, <2>4 DEF Answers
      <3>2. /\ IsShared(i)
            /\ \A q \in Requests : req'[q].pc \notin ListPlaces
        BY <1>1, <3>1 DEF ListInv, Alone, ListPlaces
      <3>3. decided'[e] = Says(list, e)
        <4>1. CASE e \in unsure
          BY <1>2, <1>9, <4>1 DEF Answers, ListInv, TypeOK
        <4>2. CASE e \notin unsure
          <5>1. Says(req[r].copy, e) = decided[e]
            BY <1>1, <1>2, <3>2, <4>2 DEF ListInv, Sure, Known
          <5>2. decided'[e] = After(req[r].op, decided[e])
            BY <1>2, <1>9, <4>2 DEF Answers, ListInv, TypeOK
          <5>3. QED
            BY <1>2, <5>1, <5>2, ChangedHere
        <4>3. QED
          BY <4>1, <4>2
      <3>4. \A j \in DOMAIN lists' : IsShared(j)' => j = i
        BY <1>5, <3>2, OneShared DEF ListInv
      <3>5. QED
        BY <1>2, <1>4, <2>1, <2>4, <3>2, <3>3, <3>4 DEF Known, ListPlaces
    <2>5. ASSUME NEW f \in Applicants \ {e}, f \notin unsure' PROVE f \notin unsure
      BY <1>9, <2>5 DEF Answers
    <2>6. QED
      BY <2>3, <2>4, <2>5 DEF Sure
  <1>10. QED
    BY <1>3, <1>6, <1>7, <1>8, <1>9, AnswerIs DEF ListInv

LEMMA ListNext == ListInv /\ [Next]_vars => ListInv'
  <1> SUFFICES ASSUME ListInv, [Next]_vars PROVE ListInv'
    OBVIOUS
  <1>1. CASE UNCHANGED vars
    BY <1>1 DEF vars, ListInv, TypeOK, AnswersStored, Alone, Sure, Known, IsShared
  <1>2. ASSUME NEW r \in Requests, AccountStep(r) PROVE ListInv'
    BY <1>2, ListAccountStep
  <1>3. ASSUME NEW r \in Requests, ListStep(r) PROVE ListInv'
    BY <1>3, ListAskList, ListCreateList, ListAnswerList DEF ListStep
  <1>4. QED
    BY <1>1, <1>2, <1>3 DEF Next

(* Accounts keeps its types, for any accounts, addresses, lists and        *)
(* requests.                                                               *)
THEOREM AccountsTypeCorrect == Spec => []TypeOK
  <1>1. ListInv => TypeOK
    BY DEF ListInv
  <1>2. QED
    BY <1>1, ListInit, ListNext, PTL DEF Spec

(* Of an address whose last answer no other use of the list overlapped,    *)
(* the list says what the answers come to, however many requests, lists,   *)
(* addresses and overlapping answers about others there are.               *)
THEOREM DecisionsKept == Spec => []ListKeepsDecisions
  <1>1. ListInv => ListKeepsDecisions
    BY DEF ListInv, Sure, Known, ListKeepsDecisions, IsShared
  <1>2. QED
    BY <1>1, ListInit, ListNext, PTL DEF Spec

-----------------------------------------------------------------------------
(* Accounts.                                                               *)

\* What an account claims when its request is where the invariant says.
Claimed(a) == (IF a.pc = "put" THEN {} ELSE {a.old})
                 \cup (IF a.pc \in {"release", "put"} THEN {a.new} ELSE {})

LEMMA PartIsClaimed ==
    ASSUME NEW h, NEW a, NEW u, NEW e \in Addresses, Mine(a, u), Sits(h, a, u)
    PROVE  Part(h, a, u, e) <=> e \in Claimed(a)
  <1>1. CASE a.pc = "release"
    BY <1>1 DEF Claimed, Part, Sits
  <1>2. CASE a.pc = "put"
    BY <1>2 DEF Claimed, Part
  <1>3. CASE a.pc = "forget"
    BY <1>3, NoAddressType DEF Claimed, Part, Sits
  <1>4. CASE a.pc \in {"reserve", "delete"}
    BY <1>4 DEF Claimed, Part, Sits
  <1>5. QED
    BY <1>1, <1>2, <1>3, <1>4 DEF Mine, AccountPlaces

LEMMA PartOfIdle ==
    ASSUME NEW h, NEW a, NEW u, NEW e, ~Mine(a, u)
    PROVE  Part(h, a, u, e) <=> h[u] = e
  BY DEF Part

LEMMA MineOf ==
    ASSUME NEW pc \in AccountPlaces, NEW u, NEW old, NEW new
    PROVE  \A w : Mine(OnAccount(pc, u, old, new), w) <=> w = u
  BY DEF OnAccount, Mine

LEMMA MineIdle == ASSUME NEW a, a.pc = "idle" PROVE \A w : ~Mine(a, w)
  BY DEF Mine, AccountPlaces

LEMMA ClaimAlone ==
    ASSUME NEW h, NEW q, NEW r \in Requests, NEW u, NEW e,
           \A p \in Requests \ {r} : ~Mine(q[p], u)
    PROVE  Claim(h, q, u, e) <=> Part(h, q[r], u, e)
  BY DEF Claim, Part

LEMMA ClaimElsewhere ==
    ASSUME NEW h, NEW h2, NEW q, NEW q2, NEW r \in Requests, NEW u, NEW e, h2[u] = h[u],
           \A p \in Requests \ {r} : q2[p] = q[p], ~Mine(q[r], u), ~Mine(q2[r], u)
    PROVE  Claim(h2, q2, u, e) <=> Claim(h, q, u, e)
  <1>1. \A p \in Requests : \/ q2[p] = q[p] 
                            \/ ~Mine(q[p], u) /\ ~Mine(q2[p], u)
    OBVIOUS
  <1>2. QED
    BY <1>1 DEF Claim

\* A step of request r concerns account u only, and keeps what the invariant
\* says of u.
Concerns(r, u) ==
    /\ \A q \in Requests \ {r} : req'[q] = req[q]
    /\ \A w \in Users \ {u} : /\ held'[w] = held[w]
                              /\ ~Mine(req[r], w) /\ ~Mine(req'[r], w)
    /\ spoiled \subseteq spoiled'
    /\ u \notin spoiled' => \A q \in Requests \ {r} : ~Mine(req[q], u)
    /\ u \notin spoiled' /\ Mine(req'[r], u) => Sits(held', req'[r], u)

\* It reserves and releases what u claims: S before the step, T after it.
Books(r, u, S, T) ==
    spoiled' = {} =>
        /\ \A e \in Addresses : /\ Part(held, req[r], u, e) <=> e \in S
                                /\ Part(held', req'[r], u, e) <=> e \in T
        /\ reserved' = (reserved \ S) \cup T
        /\ T \cap reserved \subseteq S

LEMMA OneAccount ==
    ASSUME AccountInv, TypeOK', NEW r \in Requests, NEW u \in Users, Concerns(r, u),
           NEW S, NEW T, Books(r, u, S, T)
    PROVE  AccountInv'
  <1>1. ASSUME NEW w \in Users \ spoiled' PROVE Orderly(w)'
    <2>1. CASE w = u
      BY <1>1, <2>1 DEF Orderly, Concerns
    <2>2. CASE w # u
      <3>1. Orderly(w) /\ held'[w] = held[w]
        BY <1>1, <2>2 DEF AccountInv, Accountable, Concerns
      <3>2. \A q \in Requests : Mine(req'[q], w) => q # r /\ req'[q] = req[q]
        BY <2>2 DEF Concerns
      <3>3. QED
        BY <3>1, <3>2 DEF Orderly, Sits
    <2>3. QED
      BY <2>1, <2>2
  <1>2. ASSUME spoiled' = {} PROVE Ledger'
    <2>1. Ledger
      BY <1>2 DEF AccountInv, Concerns
    <2>0. /\ \A e \in Addresses : /\ Part(held, req[r], u, e) <=> e \in S
                                  /\ Part(held', req'[r], u, e) <=> e \in T
          /\ reserved' = (reserved \ S) \cup T /\ T \cap reserved \subseteq S
      BY <1>2 DEF Books
    <2>2. \A w \in Users \ {u}, e \in Addresses : Claim(held', req', w, e) <=> Claim(held, req, w, e)
      BY ClaimElsewhere DEF Concerns
    <2>3. \A q \in Requests \ {r} : ~Mine(req[q], u) /\ ~Mine(req'[q], u)
      BY <1>2 DEF Concerns
    <2>4. \A e \in Addresses : Claim(held, req, u, e) <=> e \in S
      <3>1. \A e \in Addresses : Claim(held, req, u, e) <=> Part(held, req[r], u, e)
        BY <2>3, ClaimAlone
      <3>2. QED
        BY <2>0, <3>1
    <2>5. \A e \in Addresses : Claim(held', req', u, e) <=> e \in T
      <3>1. \A e \in Addresses : Claim(held', req', u, e) <=> Part(held', req'[r], u, e)
        BY <2>3, ClaimAlone
      <3>2. QED
        BY <2>0, <3>1
    <2>6. ASSUME NEW e \in Addresses, NEW v \in Users, NEW w \in Users,
                 Claim(held', req', v, e), Claim(held', req', w, e)
          PROVE  v = w
      <3>1. \A x \in Users \ {u} : Claim(held, req, x, e) => e \in reserved /\ e \notin S
        BY <2>1, <2>4 DEF Ledger
      <3>2. \A x \in Users \ {u} : Claim(held', req', x, e) => e \notin T
        BY <2>0, <2>2, <3>1
      <3>3. QED
        BY <2>1, <2>2, <2>5, <2>6, <3>2 DEF Ledger
    <2>7. ASSUME NEW e \in Addresses
          PROVE  e \in reserved' <=> \E w \in Users : Claim(held', req', w, e)
      <3>1. e \in reserved <=> e \in S \/ \E w \in Users \ {u} : Claim(held, req, w, e)
        BY <2>1, <2>4 DEF Ledger
      <3>2. \A w \in Users \ {u} : Claim(held, req, w, e) => e \notin S
        BY <2>1, <2>4 DEF Ledger
      <3>3. (\E w \in Users : Claim(held', req', w, e))
              <=> e \in T \/ \E w \in Users \ {u} : Claim(held, req, w, e)
        BY <2>2, <2>5
      <3>4. QED
        BY <2>0, <3>1, <3>2, <3>3
    <2>8. QED
      BY <2>6, <2>7 DEF Ledger
  <1>3. QED
    BY <1>1, <1>2 DEF AccountInv, Accountable

LEMMA AccountInit == Init => AccountInv
  <1> SUFFICES ASSUME Init PROVE AccountInv
    OBVIOUS
  <1>1. TypeOK
    BY InitTyped
  <1>2. \A r \in Requests : req[r].pc = "idle"
    BY DEF Init, Idle
  <1>3. \A r \in Requests : \A u : ~Mine(req[r], u)
    BY <1>2, MineIdle
  <1>4. \A u \in Users, e \in Addresses : Claim(held, req, u, e) <=> held[u] = e
    BY <1>3 DEF Claim
  <1>5. \A e \in Addresses : e # NoAddress
    BY NoAddressType
  <1>6. Ledger
    BY <1>4, <1>5 DEF Ledger, Init
  <1>7. QED
    BY <1>1, <1>3, <1>6 DEF AccountInv, Accountable, Orderly

\* A request that loads an account.
LEMMA AccountLoads ==
    ASSUME AccountInv, TypeOK', NEW r \in Requests, NEW u \in Users, NEW e \in Addresses,
           NEW pc \in {"put", "reserve", "delete"}, req[r].pc = "idle", held[u] # NoAddress,
           pc = "reserve" => e # held[u], pc \in {"put", "delete"} => e = held[u],
           Loads(r, OnAccount(pc, u, held[u], e)), UNCHANGED <<held, reserved>>
    PROVE  AccountInv'
  <1> DEFINE S == {held[u]}
  <1>1. pc \in AccountPlaces /\ held[u] \in Addresses
    BY DEF AccountPlaces, AccountInv, TypeOK
  <1>2. /\ req'[r] = OnAccount(pc, u, held[u], e)
        /\ \A q \in Requests \ {r} : req'[q] = req[q]
        /\ spoiled' = IF \E q \in Requests \ {r} : Uses(q, u) THEN spoiled \cup {u} ELSE spoiled
    BY <1>1, LoadsMoves DEF AccountInv
  <1>3. /\ spoiled \subseteq spoiled'
        /\ u \notin spoiled' => \A q \in Requests \ {r} : ~Mine(req[q], u)
    BY <1>2 DEF Uses, Mine
  <1>4. \A w : ~Mine(req[r], w)
    BY MineIdle
  <1>5. \A w : Mine(req'[r], w) <=> w = u
    BY <1>1, <1>2, MineOf
  <1>6. Sits(held', req'[r], u)
    BY <1>2 DEF Sits, OnAccount
  <1>7. \A x \in Addresses : Part(held, req[r], u, x) <=> x \in S
    BY <1>4, PartOfIdle
  <1>8. \A x \in Addresses : Part(held', req'[r], u, x) <=> x \in S
    <2>1. \A x \in Addresses : Part(held', req'[r], u, x) <=> x \in Claimed(req'[r])
      BY <1>5, <1>6, PartIsClaimed
    <2>2. Claimed(req'[r]) = S
      BY <1>2 DEF Claimed, OnAccount
    <2>3. QED
      BY <2>1, <2>2
  <1>9. spoiled' = {} => reserved' = (reserved \ S) \cup S /\ S \cap reserved \subseteq S
    <2>1. spoiled' = {} => held[u] \in reserved
      <3> SUFFICES ASSUME spoiled' = {} PROVE held[u] \in reserved
        OBVIOUS
      <3>1. Part(held, req[r], u, held[u])
        BY <1>1, <1>7
      <3>2. \A q \in Requests \ {r} : ~Mine(req[q], u)
        BY <1>3
      <3>3. Claim(held, req, u, held[u])
        BY <3>1, <3>2, ClaimAlone
      <3>4. QED
        BY <1>1, <1>3, <3>3 DEF AccountInv, Ledger
    <2>2. QED
      BY <2>1
  <1> HIDE DEF S
  <1>10. QED
    <2>1. Concerns(r, u)
      BY <1>2, <1>3, <1>4, <1>5, <1>6 DEF Concerns
    <2>2. Books(r, u, S, S)
      BY <1>7, <1>8, <1>9 DEF Books
    <2>3. QED
      BY <2>1, <2>2, OneAccount

LEMMA AccountAskSettings ==
    ASSUME AccountInv, NEW r \in Requests, NEW u \in Users, NEW e \in Addresses, AskSettings(r, u, e)
    PROVE  AccountInv'
  <1>1. TypeOK'
    BY AskSettingsTyped DEF AccountInv
  <1>2. req[r].pc = "idle" /\ held[u] # NoAddress /\ UNCHANGED <<held, reserved>>
    BY DEF AskSettings
  <1>3. CASE e = held[u]
    BY <1>1, <1>2, <1>3, AccountLoads DEF AskSettings
  <1>4. CASE e # held[u]
    BY <1>1, <1>2, <1>4, AccountLoads DEF AskSettings
  <1>5. QED
    BY <1>3, <1>4

LEMMA AccountAskDelete ==
    ASSUME AccountInv, NEW r \in Requests, NEW u \in Users, AskDelete(r, u)
    PROVE  AccountInv'
  <1>1. TypeOK'
    BY AskDeleteTyped DEF AccountInv
  <1>2. held[u] \in Addresses
    BY DEF AskDelete, AccountInv, TypeOK
  <1>3. QED
    BY <1>1, <1>2, AccountLoads DEF AskDelete

\* What the invariant says of a request of account u.
LEMMA AccountWorks ==
    ASSUME AccountInv, NEW r \in Requests, req[r].pc \in AccountPlaces
    PROVE  LET u == req[r].user
           IN  /\ u \in Users /\ req[r].old \in Addresses /\ req[r].new \in Addresses
               /\ req[r] = OnAccount(req[r].pc, u, req[r].old, req[r].new)
               /\ \A w : Mine(req[r], w) <=> w = u
               /\ u \notin spoiled => /\ Sits(held, req[r], u)
                                      /\ \A q \in Requests \ {r} : ~Mine(req[q], u)
               /\ spoiled = {} =>
                      \A e \in Addresses : Part(held, req[r], u, e) => e \in reserved
  <1> DEFINE u == req[r].user
  <1>1. /\ u \in Users /\ req[r].old \in Addresses /\ req[r].new \in Addresses
        /\ req[r] = OnAccount(req[r].pc, u, req[r].old, req[r].new)
    BY OnAccountFields DEF AccountInv
  <1>2. \A w : Mine(req[r], w) <=> w = u
    BY DEF Mine
  <1>3. ASSUME u \notin spoiled
        PROVE  Sits(held, req[r], u) /\ \A q \in Requests \ {r} : ~Mine(req[q], u)
    BY <1>1, <1>2, <1>3 DEF AccountInv, Accountable, Orderly
  <1>4. ASSUME spoiled = {}, NEW e \in Addresses, Part(held, req[r], u, e) PROVE e \in reserved
    <2>1. Claim(held, req, u, e)
      BY <1>3, <1>4, ClaimAlone
    <2>2. QED
      BY <1>1, <1>4, <2>1 DEF AccountInv, Ledger
  <1>5. QED
    BY <1>1, <1>2, <1>3, <1>4

\* What is claimed moves from S to T.
Moves(S, T) == reserved' = (reserved \ S) \cup T /\ T \cap reserved \subseteq S

LEMMA AccountClaims ==
    ASSUME AccountInv, NEW r \in Requests, req[r].pc \in AccountPlaces, spoiled = {}
    PROVE  /\ \A e \in Addresses : Part(held, req[r], req[r].user, e) <=> e \in Claimed(req[r])
           /\ Claimed(req[r]) \subseteq reserved
  <1>1. \A e \in Addresses : Part(held, req[r], req[r].user, e) <=> e \in Claimed(req[r])
    BY AccountWorks, PartIsClaimed
  <1>2. Claimed(req[r]) \subseteq Addresses
    BY AccountWorks DEF Claimed
  <1>3. QED
    BY <1>1, <1>2, AccountWorks

\* A request that goes on to another place.
LEMMA AccountGoes ==
    ASSUME AccountInv, TypeOK', NEW r \in Requests, req[r].pc \in AccountPlaces,
           NEW pc \in AccountPlaces, GoesTo(r, pc), spoiled' = spoiled,
           \A w \in Users \ {req[r].user} : held'[w] = held[w],
           req[r].user \notin spoiled => Sits(held', req'[r], req[r].user),
           spoiled = {} => Moves(Claimed(req[r]), Claimed(req'[r]))
    PROVE  AccountInv'
  <1> DEFINE u == req[r].user
             S == Claimed(req[r])
             T == Claimed(req'[r])
  <1>1. /\ u \in Users /\ \A w : Mine(req[r], w) <=> w = u
        /\ u \notin spoiled => \A q \in Requests \ {r} : ~Mine(req[q], u)
    BY AccountWorks
  <1>2. /\ req'[r] = OnAccount(pc, u, req[r].old, req[r].new)
        /\ \A q \in Requests \ {r} : req'[q] = req[q]
    BY GoesToMoves DEF AccountInv
  <1>3. \A w : Mine(req'[r], w) <=> w = u
    BY <1>2, MineOf
  <1>4. Concerns(r, u)
    BY <1>1, <1>2, <1>3 DEF Concerns
  <1>5. Books(r, u, S, T)
    <2> SUFFICES ASSUME spoiled = {}
                 PROVE  /\ \A e \in Addresses : /\ Part(held, req[r], u, e) <=> e \in S
                                                /\ Part(held', req'[r], u, e) <=> e \in T
                        /\ Moves(S, T)
      BY DEF Books, Moves
    <2>1. \A e \in Addresses : Part(held, req[r], u, e) <=> e \in S
      BY AccountClaims
    <2>2. \A e \in Addresses : Part(held', req'[r], u, e) <=> e \in T
      BY <1>3, PartIsClaimed
    <2>3. QED
      BY <2>1, <2>2
  <1>6. QED
    BY <1>1, <1>4, <1>5, OneAccount

\* A request that ends, and leaves its account with T.
LEMMA AccountEnds ==
    ASSUME AccountInv, TypeOK', NEW r \in Requests, req[r].pc \in AccountPlaces,
           Ends(r), spoiled \subseteq spoiled',
           \A w \in Users \ {req[r].user} : held'[w] = held[w],
           NEW T, T = {held'[req[r].user]} \cap Addresses,
           spoiled' = {} => Moves(Claimed(req[r]), T)
    PROVE  AccountInv'
  <1> DEFINE u == req[r].user
             S == Claimed(req[r])
  <1>1. /\ u \in Users /\ \A w : Mine(req[r], w) <=> w = u
        /\ u \notin spoiled => \A q \in Requests \ {r} : ~Mine(req[q], u)
    BY AccountWorks
  <1>2. req'[r].pc = "idle" /\ \A q \in Requests \ {r} : req'[q] = req[q]
    BY EndsMoves DEF AccountInv
  <1>3. \A w : ~Mine(req'[r], w)
    BY <1>2, MineIdle
  <1>4. Concerns(r, u)
    BY <1>1, <1>2, <1>3 DEF Concerns
  <1>5. Books(r, u, S, T)
    <2> SUFFICES ASSUME spoiled' = {}
                 PROVE  /\ \A e \in Addresses : /\ Part(held, req[r], u, e) <=> e \in S
                                                /\ Part(held', req'[r], u, e) <=> e \in T
                        /\ Moves(S, T)
      BY DEF Books, Moves
    <2>1. \A e \in Addresses : Part(held, req[r], u, e) <=> e \in S
      BY AccountClaims
    <2>2. \A e \in Addresses : Part(held', req'[r], u, e) <=> held'[u] = e
      BY <1>3, PartOfIdle
    <2>3. QED
      BY <2>1, <2>2
  <1>6. QED
    BY <1>1, <1>4, <1>5, OneAccount

LEMMA AccountReserve ==
    ASSUME AccountInv, NEW r \in Requests, Reserve(r) PROVE AccountInv'
  <1> DEFINE u == req[r].user
  <1>1. /\ req[r].pc = "reserve" /\ req[r].new \notin reserved
        /\ reserved' = reserved \cup {req[r].new}
        /\ GoesTo(r, "release") /\ UNCHANGED <<held, spoiled>> /\ TypeOK'
    BY ReserveTyped DEF Reserve, AccountInv
  <1>2. req[r].pc \in AccountPlaces /\ "release" \in AccountPlaces
    BY <1>1 DEF AccountPlaces
  <1>3. req'[r] = OnAccount("release", u, req[r].old, req[r].new)
    BY <1>1, <1>2, GoesToMoves DEF AccountInv
  <1>4. req'[r].pc = "release" /\ req'[r].old = req[r].old /\ req'[r].new = req[r].new
    BY <1>3 DEF OnAccount
  <1>5. u \notin spoiled => Sits(held', req'[r], u)
    BY <1>1, <1>2, <1>4, AccountWorks DEF Sits
  <1>6. Claimed(req[r]) = {req[r].old} /\ Claimed(req'[r]) = {req[r].old, req[r].new}
    BY <1>1, <1>4 DEF Claimed
  <1>7. spoiled = {} => Moves(Claimed(req[r]), Claimed(req'[r]))
    BY <1>1, <1>2, <1>6, AccountClaims DEF Moves
  <1>8. QED
    BY <1>1, <1>2, <1>5, <1>7, AccountGoes

LEMMA AccountRelease ==
    ASSUME AccountInv, NEW r \in Requests, Release(r) PROVE AccountInv'
  <1> DEFINE u == req[r].user
  <1>1. /\ req[r].pc = "release" /\ reserved' = reserved \ {req[r].old}
        /\ GoesTo(r, "put") /\ UNCHANGED <<held, spoiled>> /\ TypeOK'
    BY ReleaseTyped DEF Release, AccountInv
  <1>2. req[r].pc \in AccountPlaces /\ "put" \in AccountPlaces
    BY <1>1 DEF AccountPlaces
  <1>3. req'[r] = OnAccount("put", u, req[r].old, req[r].new)
    BY <1>1, <1>2, GoesToMoves DEF AccountInv
  <1>4. req'[r].pc = "put" /\ req'[r].old = req[r].old /\ req'[r].new = req[r].new
    BY <1>3 DEF OnAccount
  <1>5. u \notin spoiled => req[r].old # req[r].new /\ Sits(held', req'[r], u)
    BY <1>1, <1>2, <1>4, AccountWorks DEF Sits
  <1>6. Claimed(req[r]) = {req[r].old, req[r].new} /\ Claimed(req'[r]) = {req[r].new}
    BY <1>1, <1>4 DEF Claimed
  <1>7. spoiled = {} => Moves(Claimed(req[r]), Claimed(req'[r]))
    BY <1>1, <1>2, <1>5, <1>6, AccountClaims DEF Moves
  <1>8. QED
    BY <1>1, <1>2, <1>5, <1>7, AccountGoes

LEMMA AccountDelete ==
    ASSUME AccountInv, NEW r \in Requests, DeleteAccount(r) PROVE AccountInv'
  <1> DEFINE u == req[r].user
  <1>1. /\ req[r].pc = "delete" /\ held' = [held EXCEPT ![u] = NoAddress]
        /\ GoesTo(r, "forget") /\ UNCHANGED <<reserved, spoiled>> /\ TypeOK'
    BY DeleteTyped DEF DeleteAccount, AccountInv
  <1>2. req[r].pc \in AccountPlaces /\ "forget" \in AccountPlaces
    BY <1>1 DEF AccountPlaces
  <1>3. held'[u] = NoAddress /\ \A w \in Users \ {u} : held'[w] = held[w]
    BY <1>1, <1>2, AccountWorks DEF AccountInv, TypeOK
  <1>4. req'[r] = OnAccount("forget", u, req[r].old, req[r].new)
    BY <1>1, <1>2, GoesToMoves DEF AccountInv
  <1>5. req'[r].pc = "forget" /\ req'[r].old = req[r].old
    BY <1>4 DEF OnAccount
  <1>6. Sits(held', req'[r], u)
    BY <1>3, <1>5 DEF Sits
  <1>7. Claimed(req[r]) = {req[r].old} /\ Claimed(req'[r]) = {req[r].old}
    BY <1>1, <1>5 DEF Claimed
  <1>8. spoiled = {} => Moves(Claimed(req[r]), Claimed(req'[r]))
    BY <1>1, <1>2, <1>7, AccountClaims DEF Moves
  <1>9. QED
    BY <1>1, <1>2, <1>3, <1>6, <1>8, AccountGoes

\* The steps that end a request.
LEMMA AccountEnding ==
    ASSUME AccountInv, NEW r \in Requests,
           Refuse(r) \/ PutAccount(r) \/ GiveUp(r) \/ Forget(r)
    PROVE  AccountInv'
  <1> DEFINE u == req[r].user
             T == {held'[u]} \cap Addresses
  <1>1. TypeOK' /\ Ends(r) /\ req[r].pc \in AccountPlaces /\ spoiled \subseteq spoiled'
    BY EndingTyped DEF AccountInv, Refuse, PutAccount, GiveUp, Forget, AccountPlaces
  <1>2. /\ u \in Users /\ req[r].old \in Addresses /\ req[r].new \in Addresses
        /\ u \notin spoiled => Sits(held, req[r], u)
    BY <1>1, AccountWorks
  <1>3. \A w \in Users \ {u} : held'[w] = held[w]
    BY <1>2 DEF Refuse, PutAccount, GiveUp, Forget, AccountInv, TypeOK
  <1>4. ASSUME spoiled' = {} PROVE Moves(Claimed(req[r]), T)
    <2>1. spoiled = {} /\ Claimed(req[r]) \subseteq reserved /\ Sits(held, req[r], u)
      BY <1>1, <1>2, <1>4, AccountClaims
    <2>2. CASE Refuse(r)
      <3>1. reserved' = reserved /\ held'[u] = req[r].old /\ Claimed(req[r]) = {req[r].old}
        BY <2>1, <2>2 DEF Refuse, Sits, Claimed
      <3>2. QED
        BY <1>2, <2>1, <3>1 DEF Moves
    <2>3. CASE PutAccount(r)
      <3>1. reserved' = reserved /\ held'[u] = req[r].new /\ Claimed(req[r]) = {req[r].new}
        BY <1>2, <2>3 DEF PutAccount, Claimed, AccountInv, TypeOK
      <3>2. QED
        BY <1>2, <2>1, <3>1 DEF Moves
    <2>4. CASE GiveUp(r)
      <3>1. /\ reserved' = reserved /\ held' = held
            /\ \/ req[r].pc \in {"reserve", "delete"}
               \/ req[r].pc = "put" /\ req[r].old = req[r].new
        BY <1>1, <1>2, <1>4, <2>4 DEF GiveUp, AccountPlaces
      <3>2. held'[u] = req[r].old /\ Claimed(req[r]) = {req[r].old}
        BY <2>1, <3>1 DEF Sits, Claimed
      <3>3. QED
        BY <1>2, <2>1, <3>1, <3>2 DEF Moves
    <2>5. CASE Forget(r)
      <3>1. /\ reserved' = reserved \ {req[r].old} /\ held'[u] = NoAddress
            /\ Claimed(req[r]) = {req[r].old}
        BY <2>1, <2>5 DEF Forget, Sits, Claimed
      <3>2. QED
        BY <2>1, <3>1, NoAddressType DEF Moves
    <2>6. QED
      BY <2>2, <2>3, <2>4, <2>5
  <1> HIDE DEF T
  <1>5. T = {held'[req[r].user]} \cap Addresses
    BY DEF T
  <1>6. QED
    BY <1>1, <1>3, <1>4, <1>5, AccountEnds

LEMMA AccountListStep ==
    ASSUME AccountInv, TypeOK', NEW r \in Requests, ListStep(r) PROVE AccountInv'
  <1>1. /\ UNCHANGED <<held, reserved, spoiled>>
        /\ \A q \in Requests \ {r} : req'[q] = req[q]
        /\ \A w : ~Mine(req[r], w) /\ ~Mine(req'[r], w)
    BY ListStepFrame DEF AccountInv, Mine
  <1>2. \A u \in Users : Orderly(u) => Orderly(u)'
    BY <1>1 DEF Orderly, Sits
  <1>3. \A u \in Users, e \in Addresses : Claim(held', req', u, e) <=> Claim(held, req, u, e)
    BY <1>1, ClaimElsewhere
  <1>4. Ledger => Ledger'
    BY <1>1, <1>3 DEF Ledger
  <1>5. QED
    BY <1>1, <1>2, <1>4 DEF AccountInv, Accountable

LEMMA AccountNext == AccountInv /\ ListInv /\ [Next]_vars => AccountInv'
  <1> SUFFICES ASSUME AccountInv, ListInv, [Next]_vars PROVE AccountInv'
    OBVIOUS
  <1>1. CASE UNCHANGED vars
    BY <1>1 DEF vars, AccountInv, TypeOK, Accountable, Orderly, Ledger
  <1>2. ASSUME NEW r \in Requests, AccountStep(r) PROVE AccountInv'
    <2>1. ASSUME NEW u \in Users, AskDelete(r, u) PROVE AccountInv'
      BY <2>1, AccountAskDelete
    <2>2. ASSUME NEW u \in Users, NEW e \in Addresses, AskSettings(r, u, e) PROVE AccountInv'
      BY <2>2, AccountAskSettings
    <2>3. CASE Reserve(r)
      BY <2>3, AccountReserve
    <2>4. CASE Release(r)
      BY <2>4, AccountRelease
    <2>5. CASE DeleteAccount(r)
      BY <2>5, AccountDelete
    <2>6. CASE Refuse(r) \/ PutAccount(r) \/ GiveUp(r) \/ Forget(r)
      BY <2>6, AccountEnding
    <2>7. QED
      BY <1>2, <2>1, <2>2, <2>3, <2>4, <2>5, <2>6 DEF AccountStep
  <1>3. ASSUME NEW r \in Requests, ListStep(r) PROVE AccountInv'
    <2>1. TypeOK'
      BY ListNext DEF ListInv
    <2>2. QED
      BY <1>3, <2>1, AccountListStep
  <1>4. QED
    BY <1>1, <1>2, <1>3 DEF Next

-----------------------------------------------------------------------------
(* The properties of accounts.                                             *)

\* An account claims its address, unless it is about to be written.
LEMMA HeldIsClaimed ==
    ASSUME NEW u \in Users, ~Moving(u)
    PROVE  Claim(held, req, u, held[u])
  BY DEF Moving, Claim, Mine

(* Two accounts never have the same address, however many owners change    *)
(* theirs at the same time: unless a change was given up halfway or two    *)
(* requests changed one account at once.                                   *)
THEOREM AddressesNotShared == Spec => []NoSharedAddress
  <1>1. ASSUME AccountInv PROVE NoSharedAddress
    <2> SUFFICES ASSUME spoiled = {}, NEW u \in Users, NEW w \in Users, u # w,
                        held[u] = held[w], held[u] # NoAddress, ~Moving(u), ~Moving(w)
                 PROVE  FALSE
      BY DEF NoSharedAddress
    <2>1. held[u] \in Addresses
      BY <1>1 DEF AccountInv, TypeOK
    <2>2. Claim(held, req, u, held[u]) /\ Claim(held, req, w, held[u])
      BY HeldIsClaimed
    <2>3. QED
      BY <1>1, <2>1, <2>2 DEF AccountInv, Ledger
  <1>2. QED
    BY <1>1, ListInit, ListNext, AccountInit, AccountNext, PTL DEF Spec

(* The address of an account stays reserved for it while others change,    *)
(* give up addresses and are deleted.                                      *)
THEOREM AddressesStayReserved == Spec => []AddressesReserved
  <1>1. ASSUME AccountInv PROVE AddressesReserved
    <2> SUFFICES ASSUME spoiled = {}, NEW u \in Users, held[u] # NoAddress, ~Moving(u)
                 PROVE  held[u] \in reserved
      BY DEF AddressesReserved
    <2>1. held[u] \in Addresses
      BY <1>1 DEF AccountInv, TypeOK
    <2>2. QED
      BY <1>1, <2>1, HeldIsClaimed DEF AccountInv, Ledger
  <1>2. QED
    BY <1>1, ListInit, ListNext, AccountInit, AccountNext, PTL DEF Spec

(* No address stays reserved without an account or a request that has it.  *)
THEOREM RefusalsJustified == Spec => []RefusedIsTaken
  <1>1. ASSUME AccountInv PROVE RefusedIsTaken
    <2> SUFFICES ASSUME spoiled = {}, NEW e \in reserved
                 PROVE  \/ \E u \in Users : held[u] = e
                        \/ \E r \in Requests : /\ req[r].pc \in AccountPlaces
                                               /\ e \in {req[r].old, req[r].new}
      BY DEF RefusedIsTaken
    <2>1. PICK u \in Users : Claim(held, req, u, e)
      BY <1>1 DEF AccountInv, TypeOK, Ledger
    <2>2. QED
      BY <2>1 DEF Claim, Mine
  <1>2. QED
    BY <1>1, ListInit, ListNext, AccountInit, AccountNext, PTL DEF Spec

(* An account that was deleted comes back only if another request had      *)
(* loaded it before it was deleted, however the requests interleave.       *)
THEOREM DeletedAccountsStay == Spec => DeletedStaysDeleted
  <1>1. ASSUME AccountInv, [Next]_vars
        PROVE  [\A u \in Users : held[u] = NoAddress /\ held'[u] # NoAddress => u \in spoiled]_vars
    <2> SUFFICES ASSUME NEW u \in Users, held[u] = NoAddress, held'[u] # NoAddress
                 PROVE  u \in spoiled
      OBVIOUS
    <2>1. PICK r \in Requests : PutAccount(r) /\ req[r].user = u
      <3>1. PICK r \in Requests : AccountStep(r) \/ ListStep(r)
        BY <1>1 DEF Next, vars
      <3>2. ~ListStep(r)
        BY <1>1, ListStepFrame DEF AccountInv
      <3>3. PutAccount(r) \/ DeleteAccount(r)
        BY <3>1, <3>2 DEF AccountStep, AskSettings, AskDelete, Reserve, Refuse, Release, GiveUp, Forget
      <3>4. QED
        BY <1>1, <3>3 DEF PutAccount, DeleteAccount, AccountInv, TypeOK
    <2>2. req[r].pc = "put" /\ req[r].pc \in AccountPlaces
      BY <2>1 DEF PutAccount, AccountPlaces
    <2>3. u \notin spoiled => held[u] = req[r].old /\ req[r].old \in Addresses
      BY <1>1, <2>1, <2>2, AccountWorks DEF Sits
    <2>4. QED
      BY <2>3, NoAddressType
  <1>2. QED
    BY <1>1, ListInit, ListNext, AccountInit, AccountNext, PTL DEF Spec, DeletedStaysDeleted

-----------------------------------------------------------------------------
(* The address book.                                                       *)

Settled(q, r, u) == q[r].pc \in {"release", "put"} /\ q[r].user = u

\* bookBar[u], of given accounts and requests.
BookOf(h, q, u) == IF \E r \in Requests : Settled(q, r, u)
                   THEN q[CHOOSE r \in Requests : Settled(q, r, u)].new
                   ELSE h[u]

LEMMA BookIs ==
    /\ bookBar = [u \in Users |-> BookOf(held, req, u)]
    /\ bookBar' = [u \in Users |-> BookOf(held', req', u)]
  BY DEF bookBar, BookOf, Settles, Settled

\* The one request that may have an account decides.
LEMMA BookAlone ==
    ASSUME NEW h, NEW q, NEW r \in Requests, NEW u,
           \A p \in Requests \ {r} : ~Mine(q[p], u)
    PROVE  BookOf(h, q, u) = IF Settled(q, r, u) THEN q[r].new ELSE h[u]
  <1>1. \A p \in Requests : Settled(q, p, u) => p = r
    BY DEF Settled, Mine, AccountPlaces
  <1>2. CASE Settled(q, r, u)
    <2> DEFINE c == CHOOSE p \in Requests : Settled(q, p, u)
    <2>1. c \in Requests /\ Settled(q, c, u)
      BY <1>2
    <2>2. c = r
      BY <1>1, <2>1
    <2>3. QED
      BY <1>2, <2>2 DEF BookOf
  <1>3. CASE ~Settled(q, r, u)
    BY <1>1, <1>3 DEF BookOf
  <1>4. QED
    BY <1>2, <1>3

\* Administrators' accounts are not being deleted.
NoAdminDeleted == \A r \in Requests : req[r].pc = "delete" => req[r].user \notin Admins

BookInv == AccountInv /\ ListInv /\ NoAdminDeleted

\* Which account a step is about.
Touches(r, u) ==
    /\ \A q \in Requests \ {r} : req'[q] = req[q]
    /\ \A w \in Users \ {u} : /\ held'[w] = held[w]
                              /\ ~Mine(req[r], w) /\ ~Mine(req'[r], w)

\* The accounts that a step is not about stay in the book as they are.
LEMMA BookElsewhere ==
    ASSUME AccountInv, spoiled = {}, NEW r \in Requests, NEW u \in Users, Touches(r, u),
           NEW w \in Users, w # u
    PROVE  BookOf(held', req', w) = BookOf(held, req, w)
  <1>1. /\ held'[w] = held[w] /\ ~Mine(req[r], w) /\ ~Mine(req'[r], w)
        /\ \A q \in Requests \ {r} : req'[q] = req[q]
    BY DEF Touches
  <1>2. CASE \E p \in Requests : Mine(req[p], w)
    <2>1. PICK p \in Requests : Mine(req[p], w)
      BY <1>2
    <2>2. \A q \in Requests \ {p} : ~Mine(req[q], w)
      BY <2>1 DEF AccountInv, Accountable, Orderly
    <2>3. p # r /\ req'[p] = req[p] /\ \A q \in Requests \ {p} : ~Mine(req'[q], w)
      BY <1>1, <2>1, <2>2
    <2>4. Settled(req', p, w) <=> Settled(req, p, w)
      BY <2>3 DEF Settled
    <2>5. BookOf(held, req, w) = IF Settled(req, p, w) THEN req[p].new ELSE held[w]
      BY <2>2, BookAlone
    <2>6. BookOf(held', req', w) = IF Settled(req', p, w) THEN req'[p].new ELSE held'[w]
      BY <2>3, BookAlone
    <2>7. QED
      BY <1>1, <2>3, <2>4, <2>5, <2>6
  <1>3. CASE \A p \in Requests : ~Mine(req[p], w)
    <2>1. \A p \in Requests : ~Mine(req'[p], w)
      BY <1>1, <1>3
    <2>2. \A p \in Requests : ~Settled(req, p, w) /\ ~Settled(req', p, w)
      BY <1>3, <2>1 DEF Settled, Mine, AccountPlaces
    <2>3. QED
      BY <1>1, <2>2 DEF BookOf
  <1>4. QED
    BY <1>2, <1>3

\* A step that is about one account does to the book what it does to it.
LEMMA BookChanges ==
    ASSUME BookInv, spoiled = {}, NEW r \in Requests, NEW u \in Users, Touches(r, u), NEW e,
           \A q \in Requests \ {r} : ~Mine(req[q], u),
           e = IF Settled(req', r, u) THEN req'[r].new ELSE held'[u]
    PROVE  bookBar' = [bookBar EXCEPT ![u] = e]
  <1>1. BookOf(held', req', u) = e
    <2>1. \A q \in Requests \ {r} : ~Mine(req'[q], u)
      BY DEF Touches
    <2>2. QED
      BY <2>1, BookAlone
  <1>2. \A w \in Users \ {u} : BookOf(held', req', w) = BookOf(held, req, w)
    BY BookElsewhere DEF BookInv
  <1>3. QED
    BY <1>1, <1>2, BookIs

\* What the book says of the account of a request.
LEMMA BookAt ==
    ASSUME NEW r \in Requests, NEW u \in Users, \A q \in Requests \ {r} : ~Mine(req[q], u)
    PROVE  bookBar[u] = IF Settled(req, r, u) THEN req[r].new ELSE held[u]
  BY BookAlone, BookIs

\* Every address in the book is reserved.
LEMMA BookIsReserved ==
    ASSUME AccountInv, spoiled = {}, NEW u \in Users, bookBar[u] \in Addresses
    PROVE  bookBar[u] \in reserved
  <1>1. ASSUME Claim(held, req, u, bookBar[u]) PROVE bookBar[u] \in reserved
    BY <1>1 DEF AccountInv, Ledger
  <1>2. CASE \E r \in Requests : Mine(req[r], u)
    <2>1. PICK r \in Requests : Mine(req[r], u)
      BY <1>2
    <2>2. \A q \in Requests \ {r} : ~Mine(req[q], u)
      BY <2>1 DEF AccountInv, Accountable, Orderly
    <2>3. bookBar[u] = IF Settled(req, r, u) THEN req[r].new ELSE held[u]
      BY <2>2, BookAt
    <2>4. Part(held, req[r], u, bookBar[u])
      BY <2>1, <2>3 DEF Part, Settled, Mine
    <2>5. QED
      BY <1>1, <2>2, <2>4, ClaimAlone
  <1>3. CASE \A r \in Requests : ~Mine(req[r], u)
    <2>1. bookBar[u] = held[u]
      BY <1>3, BookIs DEF BookOf, Settled, Mine, AccountPlaces
    <2>2. QED
      BY <1>1, <1>3, <2>1 DEF Claim
  <1>4. QED
    BY <1>2, <1>3

\* A request that loads an account leaves the book as it is.
LEMMA BookLoads ==
    ASSUME BookInv, NEW r \in Requests, NEW u \in Users, NEW e \in Addresses,
           NEW pc \in {"put", "reserve", "delete"}, req[r].pc = "idle", held[u] # NoAddress,
           pc = "put" => e = held[u],
           Loads(r, OnAccount(pc, u, held[u], e)), UNCHANGED held, spoiled' = {}
    PROVE  bookBar' = bookBar
  <1>1. pc \in AccountPlaces /\ held[u] \in Addresses
    BY DEF AccountPlaces, BookInv, AccountInv, TypeOK
  <1>2. /\ req'[r] = OnAccount(pc, u, held[u], e)
        /\ \A q \in Requests \ {r} : req'[q] = req[q]
        /\ spoiled' = IF \E q \in Requests \ {r} : Uses(q, u) THEN spoiled \cup {u} ELSE spoiled
    BY <1>1, LoadsMoves DEF BookInv, AccountInv
  <1>3. spoiled = {} /\ \A q \in Requests \ {r} : ~Mine(req[q], u)
    BY <1>2 DEF Uses, Mine
  <1>4. Touches(r, u)
    <2>1. \A w : ~Mine(req[r], w)
      BY MineIdle
    <2>2. \A w : Mine(req'[r], w) <=> w = u
      BY <1>1, <1>2, MineOf
    <2>3. QED
      BY <1>2, <2>1, <2>2 DEF Touches
  <1>5. bookBar[u] = held[u]
    BY <1>3, BookAt DEF Settled
  <1>6. held[u] = IF Settled(req', r, u) THEN req'[r].new ELSE held'[u]
    BY <1>2 DEF Settled, OnAccount
  <1>7. bookBar' = [bookBar EXCEPT ![u] = held[u]]
    BY <1>3, <1>4, <1>6, BookChanges
  <1>8. QED
    BY <1>5, <1>7, BookIs

\* A step of a request that has loaded an account.
LEMMA BookWorks ==
    ASSUME BookInv, NEW r \in Requests, spoiled = {},
           \/ Reserve(r) \/ Refuse(r) \/ Release(r) \/ PutAccount(r) \/ GiveUp(r)
           \/ DeleteAccount(r) \/ Forget(r)
    PROVE  LET u == req[r].user
           IN  /\ u \in Users /\ Touches(r, u) /\ \A q \in Requests \ {r} : ~Mine(req[q], u)
               /\ req[r].old \in Addresses /\ req[r].new \in Addresses
               /\ Sits(held, req[r], u)
               /\ bookBar[u] = IF req[r].pc \in {"release", "put"} THEN req[r].new ELSE held[u]
  <1> DEFINE u == req[r].user
  <1>1. TypeOK /\ AccountInv /\ req[r].pc \in AccountPlaces
    BY DEF BookInv, AccountInv, Reserve, Refuse, Release, PutAccount, GiveUp, DeleteAccount,
           Forget, AccountPlaces
  <1>2. /\ u \in Users /\ req[r].old \in Addresses /\ req[r].new \in Addresses
        /\ \A w : Mine(req[r], w) <=> w = u
        /\ Sits(held, req[r], u) /\ \A q \in Requests \ {r} : ~Mine(req[q], u)
    BY <1>1, AccountWorks
  <1>3. \A q \in Requests \ {r} : req'[q] = req[q]
    BY <1>1, AccountStepFrame DEF AccountStep
  <1>4. \A w \in Users \ {u} : ~Mine(req'[r], w)
    <2>1. CASE Reserve(r) \/ Release(r) \/ DeleteAccount(r)
      <3>1. PICK pc \in {"release", "put", "forget"} : GoesTo(r, pc)
        BY <2>1 DEF Reserve, Release, DeleteAccount
      <3>2. pc \in AccountPlaces
        BY DEF AccountPlaces
      <3>3. req'[r] = OnAccount(pc, u, req[r].old, req[r].new)
        BY <1>1, <3>1, <3>2, GoesToMoves
      <3>4. QED
        BY <3>2, <3>3, MineOf
    <2>2. CASE Refuse(r) \/ PutAccount(r) \/ GiveUp(r) \/ Forget(r)
      <3>1. Ends(r)
        BY <2>2 DEF Refuse, PutAccount, GiveUp, Forget
      <3>2. req'[r].pc = "idle"
        BY <1>1, <3>1, EndsMoves
      <3>3. QED
        BY <3>2, MineIdle
    <2>3. QED
      BY <2>1, <2>2
  <1>5. \A w \in Users \ {u} : held'[w] = held[w]
    BY <1>1 DEF Reserve, Refuse, Release, PutAccount, GiveUp, DeleteAccount, Forget, TypeOK
  <1>6. bookBar[u] = IF req[r].pc \in {"release", "put"} THEN req[r].new ELSE held[u]
    BY <1>2, BookAt DEF Settled
  <1>7. QED
    BY <1>2, <1>3, <1>4, <1>5, <1>6 DEF Touches

\* A step that leaves the account of the request as the book has it.
LEMMA BookKept ==
    ASSUME BookInv, NEW r \in Requests, spoiled' = {},
           \/ Refuse(r) \/ Release(r) \/ PutAccount(r) \/ GiveUp(r) \/ Forget(r)
    PROVE  bookBar' = bookBar
  <1> DEFINE u == req[r].user
  <1>1. TypeOK /\ req[r].pc \in AccountPlaces
    BY DEF BookInv, AccountInv, Refuse, Release, PutAccount, GiveUp, Forget, AccountPlaces
  <1>2. spoiled = {}
    BY <1>1, AccountStepFrame DEF AccountStep
  <1>3. /\ u \in Users /\ Touches(r, u) /\ \A q \in Requests \ {r} : ~Mine(req[q], u)
        /\ Sits(held, req[r], u)
        /\ bookBar[u] = IF req[r].pc \in {"release", "put"} THEN req[r].new ELSE held[u]
    BY <1>2, BookWorks
  <1>4. CASE Release(r)
    <2>1. "put" \in AccountPlaces /\ GoesTo(r, "put")
      BY <1>4 DEF AccountPlaces, Release
    <2>2. req'[r] = OnAccount("put", u, req[r].old, req[r].new)
      BY <1>1, <2>1, GoesToMoves
    <2>3. Settled(req', r, u) /\ req'[r].new = req[r].new
      BY <2>2 DEF Settled, OnAccount
    <2>4. bookBar[u] = req[r].new
      BY <1>3, <1>4 DEF Release
    <2>5. bookBar' = [bookBar EXCEPT ![u] = req[r].new]
      BY <1>2, <1>3, <2>3, BookChanges
    <2>6. QED
      BY <2>4, <2>5, BookIs
  <1>5. CASE Refuse(r) \/ PutAccount(r) \/ GiveUp(r) \/ Forget(r)
    <2>1. Ends(r)
      BY <1>5 DEF Refuse, PutAccount, GiveUp, Forget
    <2>2. ~Settled(req', r, u)
      BY <1>1, <2>1, EndsMoves DEF Settled
    <2>3. bookBar[u] = held'[u]
      <3>1. CASE PutAccount(r)
        BY <1>1, <1>3, <3>1 DEF PutAccount, TypeOK
      <3>2. CASE GiveUp(r)
        <4>1. /\ held' = held /\ req[r].pc # "release"
              /\ req[r].pc = "put" => req[r].old = req[r].new
          BY <1>2, <3>2 DEF GiveUp
        <4>2. QED
          BY <1>3, <4>1 DEF Sits
      <3>3. CASE Refuse(r) \/ Forget(r)
        BY <1>3, <3>3 DEF Refuse, Forget
      <3>4. QED
        BY <1>5, <3>1, <3>2, <3>3
    <2>4. bookBar' = [bookBar EXCEPT ![u] = bookBar[u]]
      BY <1>2, <1>3, <2>2, <2>3, BookChanges
    <2>5. QED
      BY <2>4, BookIs
  <1>6. QED
    BY <1>4, <1>5

\* The two steps that write in the book.
LEMMA BookReserve ==
    ASSUME BookInv, NEW r \in Requests, spoiled = {}, Reserve(r)
    PROVE  \E u \in Users, e \in Addresses : Book!Change(u, e)
  <1> DEFINE u == req[r].user
             e == req[r].new
  <1>1. TypeOK /\ AccountInv
    BY DEF BookInv, AccountInv
  <1>2. /\ u \in Users /\ Touches(r, u) /\ \A q \in Requests \ {r} : ~Mine(req[q], u)
        /\ req[r].old \in Addresses /\ e \in Addresses /\ Sits(held, req[r], u)
        /\ req[r].pc = "reserve" /\ bookBar[u] = held[u]
    BY BookWorks DEF Reserve
  <1>3. "release" \in AccountPlaces /\ req[r].pc \in AccountPlaces /\ GoesTo(r, "release")
    BY DEF AccountPlaces, Reserve
  <1>4. req'[r] = OnAccount("release", u, req[r].old, e)
    BY <1>1, <1>3, GoesToMoves
  <1>5. Settled(req', r, u) /\ req'[r].new = e
    BY <1>4 DEF Settled, OnAccount
  <1>6. bookBar' = [bookBar EXCEPT ![u] = e]
    BY <1>2, <1>5, BookChanges
  <1>7. bookBar[u] # NoAddress
    BY <1>2, NoAddressType DEF Sits
  <1>8. \A w \in Users : bookBar[w] # e
    BY <1>1, <1>2, BookIsReserved DEF Reserve
  <1>9. (spoiled = {})' = (spoiled = {})
    BY DEF Reserve
  <1>10. Book!Change(u, e)
    BY <1>6, <1>7, <1>8, <1>9 DEF Book!Change
  <1>11. QED
    BY <1>2, <1>10

LEMMA BookDelete ==
    ASSUME BookInv, NEW r \in Requests, spoiled = {}, DeleteAccount(r)
    PROVE  \E u \in Users : Book!Delete(u)
  <1> DEFINE u == req[r].user
  <1>1. TypeOK /\ NoAdminDeleted
    BY DEF BookInv, AccountInv
  <1>2. u \in Users /\ Touches(r, u) /\ \A q \in Requests \ {r} : ~Mine(req[q], u)
    BY BookWorks
  <1>3. "forget" \in AccountPlaces /\ req[r].pc \in AccountPlaces /\ GoesTo(r, "forget")
    BY DEF AccountPlaces, DeleteAccount
  <1>4. req'[r] = OnAccount("forget", u, req[r].old, req[r].new)
    BY <1>1, <1>3, GoesToMoves
  <1>5. ~Settled(req', r, u) /\ held'[u] = NoAddress
    BY <1>1, <1>2, <1>4 DEF Settled, OnAccount, DeleteAccount, TypeOK
  <1>6. bookBar' = [bookBar EXCEPT ![u] = NoAddress]
    BY <1>2, <1>5, BookChanges
  <1>7. u \notin Admins
    BY <1>1 DEF NoAdminDeleted, DeleteAccount
  <1>8. (spoiled = {})' = (spoiled = {})
    BY DEF DeleteAccount
  <1>9. Book!Delete(u)
    BY <1>6, <1>7, <1>8 DEF Book!Delete
  <1>10. QED
    BY <1>2, <1>9

LEMMA BookStep ==
    ASSUME BookInv, [Next]_vars
    PROVE  [Book!Next]_(Book!vars)
  <1> USE DEF Book!vars
  <1>1. CASE spoiled' # {}
    BY <1>1 DEF Book!Next, Book!Lapse
  <1>2. CASE spoiled' = {} /\ UNCHANGED vars
    <2>1. UNCHANGED <<held, req, spoiled>>
      BY <1>2 DEF vars
    <2>2. QED
      BY <2>1 DEF bookBar, Settles
  <1>3. ASSUME NEW r \in Requests, AccountStep(r), spoiled' = {}
        PROVE  [Book!Next]_(Book!vars)
    <2>1. spoiled = {}
      BY <1>3, AccountStepFrame DEF BookInv, AccountInv
    <2>2. CASE bookBar' = bookBar
      BY <1>3, <2>1, <2>2
    <2>3. ASSUME NEW u \in Users, NEW e \in Addresses, AskSettings(r, u, e)
          PROVE  bookBar' = bookBar
      <3>1. PICK pc \in {"put", "reserve"} :
              Loads(r, OnAccount(pc, u, held[u], e)) /\ (pc = "put" => e = held[u])
        BY <2>3, Zenon DEF AskSettings
      <3>2. QED
        BY <1>3, <2>3, <3>1, BookLoads DEF AskSettings
    <2>4. ASSUME NEW u \in Users, AskDelete(r, u)
          PROVE  bookBar' = bookBar
      <3>1. held[u] \in Addresses
        BY <2>4 DEF AskDelete, BookInv, AccountInv, TypeOK
      <3>2. QED
        BY <1>3, <2>4, <3>1, BookLoads DEF AskDelete
    <2>5. CASE Refuse(r) \/ Release(r) \/ PutAccount(r) \/ GiveUp(r) \/ Forget(r)
      BY <1>3, <2>2, <2>5, BookKept
    <2>6. CASE Reserve(r)
      BY <2>1, <2>6, BookReserve DEF Book!Next
    <2>7. CASE DeleteAccount(r)
      BY <2>1, <2>7, BookDelete DEF Book!Next
    <2>8. QED
      BY <1>3, <2>2, <2>3, <2>4, <2>5, <2>6, <2>7 DEF AccountStep
  <1>4. ASSUME NEW r \in Requests, ListStep(r), spoiled' = {}
        PROVE  [Book!Next]_(Book!vars)
    <2>1. /\ UNCHANGED <<held, spoiled>>
          /\ \A q \in Requests \ {r} : req'[q] = req[q]
          /\ req[r].pc \notin AccountPlaces /\ req'[r].pc \notin AccountPlaces
      BY <1>4, ListStepFrame DEF BookInv, AccountInv
    <2>2. spoiled = {} /\ \A u : ~Mine(req[r], u) /\ ~Mine(req'[r], u)
      BY <1>4, <2>1 DEF Mine
    <2>3. ASSUME NEW u \in Users PROVE BookOf(held', req', u) = BookOf(held, req, u)
      <3>1. \A q \in Requests : Settled(req', q, u) <=> Settled(req, q, u)
        BY <2>1 DEF Settled, AccountPlaces
      <3>2. CASE \E q \in Requests : Mine(req[q], u)
        <4>1. PICK q \in Requests : Mine(req[q], u)
          BY <3>2
        <4>2. q # r /\ \A p \in Requests \ {q} : ~Mine(req[p], u) /\ ~Mine(req'[p], u)
          BY <2>1, <2>2, <4>1 DEF BookInv, AccountInv, Accountable, Orderly
        <4>3. /\ BookOf(held, req, u) = IF Settled(req, q, u) THEN req[q].new ELSE held[u]
              /\ BookOf(held', req', u) = IF Settled(req', q, u) THEN req'[q].new ELSE held'[u]
          BY <4>2, BookAlone
        <4>4. QED
          BY <2>1, <3>1, <4>2, <4>3
      <3>3. CASE \A q \in Requests : ~Mine(req[q], u)
        BY <2>1, <3>1, <3>3 DEF BookOf, Settled, Mine, AccountPlaces
      <3>4. QED
        BY <3>2, <3>3
    <2>4. bookBar' = bookBar
      BY <2>3, BookIs
    <2>5. QED
      BY <1>4, <2>2, <2>4
  <1>5. QED
    BY <1>1, <1>2, <1>3, <1>4 DEF Next

LEMMA BookNext == BookInv /\ [Next]_vars => BookInv'
  <1> SUFFICES ASSUME BookInv, [Next]_vars PROVE BookInv'
    OBVIOUS
  <1>1. AccountInv' /\ ListInv' /\ TypeOK
    BY AccountNext, ListNext DEF BookInv, AccountInv
  <1>2. ASSUME NEW q \in Requests, req'[q].pc = "delete", req'[q].user \in Admins
        PROVE  FALSE
    <2>1. req'[q] # req[q]
      BY <1>2 DEF BookInv, NoAdminDeleted
    <2>2. AccountStep(q)
      BY <1>1, <1>2, <2>1, AccountStepFrame, ListStepFrame DEF Next, vars, AccountPlaces
    <2>3. PICK u \in Users : AskDelete(q, u)
      <3>1. CASE Reserve(q) \/ Release(q) \/ DeleteAccount(q)
        <4>1. PICK pc \in {"release", "put", "forget"} : GoesTo(q, pc)
          BY <3>1 DEF Reserve, Release, DeleteAccount
        <4>2. req[q].pc \in AccountPlaces /\ pc \in AccountPlaces
          BY <3>1 DEF Reserve, Release, DeleteAccount, AccountPlaces
        <4>3. req'[q] = OnAccount(pc, req[q].user, req[q].old, req[q].new)
          BY <1>1, <4>1, <4>2, GoesToMoves
        <4>4. QED
          BY <1>2, <4>3 DEF OnAccount
      <3>2. CASE Refuse(q) \/ PutAccount(q) \/ GiveUp(q) \/ Forget(q)
        BY <1>1, <1>2, <3>2, EndsMoves DEF Refuse, PutAccount, GiveUp, Forget
      <3>3. ASSUME NEW u \in Users, NEW e \in Addresses, AskSettings(q, u, e) PROVE FALSE
        <4>1. PICK pc \in {"put", "reserve"} : Loads(q, OnAccount(pc, u, held[u], e))
          BY <3>3, Zenon DEF AskSettings
        <4>2. held[u] \in Addresses /\ pc \in AccountPlaces
          BY <1>1, <3>3 DEF AskSettings, TypeOK, AccountPlaces
        <4>3. req'[q].pc = pc
          BY <1>1, <4>1, <4>2, LoadsMoves DEF OnAccount
        <4>4. QED
          BY <1>2, <4>3
      <3>4. QED
        BY <2>2, <3>1, <3>2, <3>3 DEF AccountStep
    <2>4. held[u] \in Addresses /\ "delete" \in AccountPlaces
      BY <1>1, <2>3 DEF AskDelete, TypeOK, AccountPlaces
    <2>5. req'[q].user = u
      BY <1>1, <2>3, <2>4, LoadsMoves DEF AskDelete, OnAccount
    <2>6. QED
      BY <1>2, <2>3, <2>5 DEF AskDelete
  <1>3. QED
    BY <1>1, <1>2 DEF BookInv, NoAdminDeleted

LEMMA BookInit == Init => BookInv /\ Book!Init
  <1> SUFFICES ASSUME Init PROVE BookInv /\ Book!Init
    OBVIOUS
  <1>1. \A r \in Requests : req[r].pc = "idle"
    BY DEF Init, Idle
  <1>2. BookInv
    BY <1>1, AccountInit, ListInit DEF BookInv, NoAdminDeleted
  <1>3. bookBar = held
    BY <1>1 DEF bookBar, Settles, Init
  <1>4. QED
    BY <1>2, <1>3 DEF Book!Init, Init

(* Changes of addresses and deletions of accounts, call by call and with   *)
(* any number of requests in between, change the addresses as if each were *)
(* one step, for any accounts and addresses: until a change is given up    *)
(* halfway or two requests have one account at once.                       *)
THEOREM AddressBookImplemented == Spec => ImplementsAddressBook
  <1>1. QED
    BY BookInit, BookNext, BookStep, PTL DEF Spec, ImplementsAddressBook, Book!Spec

=============================================================================
