------------------------------ MODULE CloudFleet ------------------------------
(***************************************************************************)
(* The worker machines of CloudRunner: launching and stopping them from    *)
(* the credentials page (CloudManager and EC2Worker) and the machine that  *)
(* cr_build.py launches to build programs.  The first machine of an        *)
(* account is the queue head, on which the broker runs; every later one is *)
(* told the broker that the web server's celeryconfig.py names when it is  *)
(* launched.  That file is one for the whole server, whatever the account. *)
(***************************************************************************)
EXTENDS Integers, FiniteSets

CONSTANTS
    VMs,             \* the machines that EC2 will ever launch
    Users,           \* the users of the credentials page
    Builder,         \* the administrator who runs cr_build.py
    Accounts,        \* the EC2 accounts
    AccountOf,       \* the account whose keys a user has saved
    Covers,          \* Covers[u]: the users whose id begins with the id of u
    Counts,          \* the numbers that users put into the page's free text field
    Requests,        \* web requests and builds in progress at the same time
    Faults           \* a subset of FaultKinds

Owners == Users \cup {Builder}

FaultKinds ==
    { "late head",   \* a queue head is given up while it still boots
      "late worker", \* workers are given up while some of them still boot
      "refuse",      \* a call to EC2 raises and has no effect
      "address",     \* a running machine has no public address
      "alarm",       \* setting an alarm raises
      "image" }      \* creating an image raises

\* What celeryconfig.py names before any queue head was launched, and after the
\* launch of one without a public address.
Localhost == "localhost"
NoHost == "no address"

Brokers == VMs \cup {Localhost, NoHost}

ASSUME VMsFinite == IsFiniteSet(VMs)
ASSUME BuilderType == Builder \notin Users
ASSUME AccountOfType == AccountOf \in [Owners -> Accounts]
ASSUME CoversType ==
    Covers \in [Users -> SUBSET Users] /\ \A u \in Users : u \in Covers[u]
ASSUME CountsType == Counts \subseteq Int
ASSUME FleetFaultsType == Faults \subseteq FaultKinds
ASSUME LocalhostType == Localhost \notin VMs /\ NoHost \notin VMs

VARIABLES
    vm,              \* vm[v]: machine v
    conf,            \* the broker named in the web server's celeryconfig.py
    req              \* req[r]: what request r is doing

vars == <<vm, conf, req>>

-----------------------------------------------------------------------------
(* A machine.  state: as EC2 tells it; owner: the user whose id is in the  *)
(* name of its key pair; head: whether that name has the queue head's tag; *)
(* broker: where its worker takes jobs from; alarm: whether four idle      *)
(* hours terminate it.                                                     *)

MachineType == [ state : {"none", "pending", "running", "stopping", "terminated"},
                 owner : Owners, head : BOOLEAN,
                 broker : Brokers, alarm : BOOLEAN ]

Machine(state, owner, head, broker, alarm) ==
    [state |-> state, owner |-> owner, head |-> head, broker |-> broker, alarm |-> alarm]

Unused == Machine("none", Builder, FALSE, Localhost, FALSE)

Alive == {"pending", "running"}
Gone == {"stopping", "terminated"}

Up(v) == vm[v].state = "running"

\* The machines EC2 has not launched yet.
Fresh == {v \in VMs : vm[v].state = "none"}

SameAccount(v, user) == AccountOf[vm[v].owner] = AccountOf[user]

\* Mutant of Prefixed: a build stops its own machine only.
PrefixedOwn(u) == IF u = Builder THEN {Builder} ELSE Covers[u]

\* The owners whose machines a user's key prefix matches.
Prefixed(u) == IF u = Builder THEN Owners ELSE Covers[u]

\* The machines of S go to a state.
Become(S, state) ==
    vm' = [v \in VMs |->
             IF v \in S
             THEN Machine(state, vm[v].owner, vm[v].head, vm[v].broker, vm[v].alarm)
             ELSE vm[v]]

\* EC2 launches the machines of S.
Launch(S, owner, head, broker) ==
    vm' = [v \in VMs |->
             IF v \in S THEN Machine("pending", owner, head, broker, FALSE) ELSE vm[v]]

-----------------------------------------------------------------------------
(* A request.  asked: the number of machines the user wants; want: how     *)
(* many are still to be launched; mine: those it has launched; left: those *)
(* its current loop has still to see; broker: what it read from            *)
(* celeryconfig.py.                                                        *)

RequestType == [ pc : {"idle", "check", "head", "waitHead", "conf", "spawn", "wait",
                       "alarm", "build", "list", "terminate", "drain"},
                 user : Owners, asked : Int, want : Int,
                 mine : SUBSET VMs, left : SUBSET VMs,
                 broker : Brokers ]

Doing(pc, user, asked, want, mine, left, broker) ==
    [ pc |-> pc, user |-> user, asked |-> asked, want |-> want,
      mine |-> mine, left |-> left, broker |-> broker ]

Idle == Doing("idle", Builder, 0, 0, {}, {}, Localhost)

GoesTo(r, pc, left) ==
    req' = [req EXCEPT ![r] =
              Doing(pc, @.user, @.asked, @.want, @.mine, left, @.broker)]

\* The request is answered, or ended by an exception that nothing catches.
Ends(r) == req' = [req EXCEPT ![r] = Idle]

\* Where a launch goes on when want machines are left to launch.
Rest(want) == IF want > 0 THEN "conf" ELSE "alarm"

Init ==
    /\ vm = [v \in VMs |-> Unused]
    /\ conf = Localhost
    /\ req = [r \in Requests |-> Idle]

-----------------------------------------------------------------------------
(* Mutants of the definitions below, one plausible mistake each.  No       *)
(* behaviour of Spec takes them: they test that the properties can be      *)
(* violated.                                                               *)

\* Mutant of CheckHead: only a queue head of the user's own counts.
CheckOwnHead(r) ==
    /\ req[r].pc = "check"
    /\ IF \/ req[r].user = Builder
          \/ \E v \in VMs : Up(v) /\ vm[v].head /\ vm[v].owner = req[r].user
       THEN GoesTo(r, Rest(req[r].want), {})
       ELSE GoesTo(r, "head", {})
    /\ UNCHANGED <<vm, conf>>

\* Mutants of HeadUp: the address is written before there is one; it is not
\* written; the head comes in addition to the machines asked for.
HeadUpTooSoon(r, v) ==
    /\ req[r].pc = "waitHead" /\ v \in req[r].left
    /\ conf' = IF Up(v) THEN v ELSE "0.0.0.0"
    /\ req' = [req EXCEPT ![r] =
                  Doing(Rest(@.want - 1), @.user, @.asked, @.want - 1, @.mine, {}, @.broker)]
    /\ UNCHANGED vm

HeadUpNotSaved(r, v) ==
    /\ req[r].pc = "waitHead" /\ v \in req[r].left /\ Up(v)
    /\ req' = [req EXCEPT ![r] =
                  Doing(Rest(@.want - 1), @.user, @.asked, @.want - 1, @.mine, {}, @.broker)]
    /\ UNCHANGED <<vm, conf>>

HeadUpExtra(r, v) ==
    /\ req[r].pc = "waitHead" /\ v \in req[r].left /\ Up(v)
    /\ conf' = v
    /\ GoesTo(r, Rest(req[r].want), {})
    /\ UNCHANGED vm

\* Mutant of HeadLate: the deadline only counts while EC2 says pending.
HeadLatePending(r, v) ==
    /\ req[r].pc = "waitHead" /\ v \in req[r].left
    /\ vm[v].state = "pending"
    /\ "late head" \in Faults
    /\ Ends(r)
    /\ UNCHANGED <<vm, conf>>

\* Mutant of SpawnWorkers: the launch waits for, and then sets the alarms of,
\* the queue head as well.
SpawnWorkersAll(r, S) ==
    /\ req[r].pc = "spawn"
    /\ S \subseteq Fresh /\ Cardinality(S) = req[r].want
    /\ Launch(S, req[r].user, FALSE, req[r].broker)
    /\ req' = [req EXCEPT ![r] =
                  Doing("wait", @.user, @.asked, 0, @.mine \cup S, @.mine \cup S, @.broker)]
    /\ UNCHANGED conf

\* Mutant of StopTerminate: machines that still boot are not terminated.
StopTerminateUp(r) ==
    /\ req[r].pc = "terminate"
    /\ Become({v \in req[r].left : Up(v)}, "stopping")
    /\ GoesTo(r, "drain", req[r].left)
    /\ UNCHANGED conf

\* Mutant of Targets: machines that still boot are left out.
TargetsUp(u) == {v \in VMs : Up(v) /\ SameAccount(v, u) /\ vm[v].owner \in Prefixed(u)}

-----------------------------------------------------------------------------
(* Launching machines: CloudManager.launch_instances.                      *)

AskStart(r, u, n) ==
    /\ req[r].pc = "idle"
    /\ req' = [req EXCEPT ![r] = Doing("check", u, n, n, {}, {}, Localhost)]
    /\ UNCHANGED <<vm, conf>>

\* cr_build.py is one program run by hand.
AskBuild(r) ==
    /\ req[r].pc = "idle"
    /\ \A q \in Requests : req[q] = Idle \/ req[q].user # Builder
    /\ req' = [req EXCEPT ![r] = Doing("check", Builder, 1, 1, {}, {}, Localhost)]
    /\ UNCHANGED <<vm, conf>>

\* Only a running queue head counts, and a builder needs none.
CheckHead(r) ==
    /\ req[r].pc = "check"
    /\ IF \/ req[r].user = Builder
          \/ \E v \in VMs : Up(v) /\ vm[v].head /\ SameAccount(v, req[r].user)
       THEN GoesTo(r, Rest(req[r].want), {})
       ELSE GoesTo(r, "head", {})
    /\ UNCHANGED <<vm, conf>>

\* The worker on the queue head uses the broker next to it.
SpawnHead(r, v) ==
    /\ req[r].pc = "head"
    /\ v \in Fresh
    /\ Launch({v}, req[r].user, TRUE, v)
    /\ req' = [req EXCEPT ![r] =
                  Doing("waitHead", @.user, @.asked, @.want, {v}, {v}, @.broker)]
    /\ UNCHANGED conf

\* The head is one of the machines asked for.  Its address goes to the file,
\* whether it has one or not.
HeadUp(r, v) ==
    /\ req[r].pc = "waitHead"
    /\ v \in req[r].left
    /\ Up(v)
    /\ conf' \in {v} \cup (IF "address" \in Faults THEN {NoHost} ELSE {})
    /\ req' = [req EXCEPT ![r] =
                  Doing(Rest(@.want - 1), @.user, @.asked, @.want - 1, @.mine, {}, @.broker)]
    /\ UNCHANGED vm

\* The head that did not come up in time is neither stopped nor remembered.
HeadLate(r, v) ==
    /\ req[r].pc = "waitHead"
    /\ v \in req[r].left
    /\ ~Up(v)
    /\ "late head" \in Faults \/ vm[v].state \in Gone
    /\ Ends(r)
    /\ UNCHANGED <<vm, conf>>

ReadConf(r) ==
    /\ req[r].pc = "conf"
    /\ req' = [req EXCEPT ![r] =
                  Doing("spawn", @.user, @.asked, @.want, @.mine, {}, conf)]
    /\ UNCHANGED <<vm, conf>>

SpawnWorkers(r, S) ==
    /\ req[r].pc = "spawn"
    /\ S \subseteq Fresh
    /\ Cardinality(S) = req[r].want
    /\ Launch(S, req[r].user, FALSE, req[r].broker)
    /\ req' = [req EXCEPT ![r] =
                  Doing("wait", @.user, @.asked, 0, @.mine \cup S, S, @.broker)]
    /\ UNCHANGED conf

\* EC2 has no machine left, or refuses for a reason of its own.
Refused(r) ==
    /\ \/ req[r].pc = "head" /\ Fresh = {}
       \/ req[r].pc = "spawn" /\ Cardinality(Fresh) < req[r].want
       \/ "refuse" \in Faults /\ req[r].pc \in {"check", "head", "spawn", "list", "terminate"}
    /\ Ends(r)
    /\ UNCHANGED <<vm, conf>>

WorkersUp(r) ==
    /\ req[r].pc = "wait"
    /\ \A v \in req[r].left : Up(v)
    /\ GoesTo(r, "alarm", req[r].left)
    /\ UNCHANGED <<vm, conf>>

\* At the deadline the launch goes on with the machines that are up, after
\* terminating those without an address, and raises when there is none.
WorkersLate(r) ==
    /\ req[r].pc = "wait"
    /\ \E v \in req[r].left : ~Up(v)
    /\ "late worker" \in Faults \/ \A v \in req[r].left : vm[v].state # "pending"
    /\ LET up == {v \in req[r].left : Up(v)}
       IN  IF up = {}
           THEN Ends(r) /\ UNCHANGED vm
           ELSE /\ \E lost \in IF "address" \in Faults THEN SUBSET up ELSE {{}} :
                     Become(lost, "stopping")
                /\ GoesTo(r, "alarm", up)
    /\ UNCHANGED conf

SetAlarm(r, v) ==
    /\ req[r].pc = "alarm"
    /\ v \in req[r].left
    /\ vm' = [vm EXCEPT ![v] = Machine(@.state, @.owner, @.head, @.broker, TRUE)]
    /\ GoesTo(r, "alarm", req[r].left \ {v})
    /\ UNCHANGED conf

AlarmRaises(r) ==
    /\ "alarm" \in Faults
    /\ req[r].pc = "alarm"
    /\ req[r].left # {}
    /\ Ends(r)
    /\ UNCHANGED <<vm, conf>>

LaunchDone(r) ==
    /\ req[r].pc = "alarm"
    /\ req[r].left = {}
    /\ IF req[r].user = Builder THEN GoesTo(r, "build", {}) ELSE Ends(r)
    /\ UNCHANGED <<vm, conf>>

\* The programs are built on the machine.  If one was built the machine is
\* imaged and terminated; if none was, or imaging raises, it is left running.
\* Neither the wait for ssh nor that for the image has a deadline, and an image
\* that fails is waited for for ever: the step may never be taken.
Build(r) ==
    /\ req[r].pc = "build"
    /\ GoesTo(r, "list", {}) \/ Ends(r)
    /\ UNCHANGED <<vm, conf>>

-----------------------------------------------------------------------------
(* Stopping machines: CloudManager.terminate_instances.  It always sets a  *)
(* key prefix, so that EC2Worker goes by the names of the key pairs and    *)
(* never by the machine ids it is given.                                   *)

AskStop(r, u) ==
    /\ req[r].pc = "idle"
    /\ req' = [req EXCEPT ![r] = Doing("list", u, 0, 0, {}, {}, Localhost)]
    /\ UNCHANGED <<vm, conf>>

Targets(u) == {v \in VMs \ Fresh : SameAccount(v, u) /\ vm[v].owner \in Prefixed(u)}

\* EC2 refuses an empty list.
StopList(r) ==
    /\ req[r].pc = "list"
    /\ IF Targets(req[r].user) = {}
       THEN Ends(r)
       ELSE GoesTo(r, "terminate", Targets(req[r].user))
    /\ UNCHANGED <<vm, conf>>

StopTerminate(r) ==
    /\ req[r].pc = "terminate"
    /\ Become({v \in req[r].left : vm[v].state \in Alive}, "stopping")
    /\ GoesTo(r, "drain", req[r].left)
    /\ UNCHANGED conf

StopDone(r) ==
    /\ req[r].pc = "drain"
    /\ \A v \in req[r].left : vm[v].state = "terminated"
    /\ Ends(r)
    /\ UNCHANGED <<vm, conf>>

-----------------------------------------------------------------------------
(* EC2 itself.                                                             *)

Boot(v) == vm[v].state = "pending" /\ Become({v}, "running") /\ UNCHANGED <<conf, req>>

Halt(v) == vm[v].state = "stopping" /\ Become({v}, "terminated") /\ UNCHANGED <<conf, req>>

\* The alarm of an idle machine terminates it.
Sleepy(v) == vm[v].alarm /\ Up(v) /\ Become({v}, "stopping") /\ UNCHANGED <<conf, req>>

-----------------------------------------------------------------------------
Start(r) ==
    \/ CheckHead(r) \/ ReadConf(r) \/ WorkersUp(r) \/ WorkersLate(r) \/ LaunchDone(r)
    \/ \E v \in VMs : SpawnHead(r, v) \/ HeadUp(r, v) \/ HeadLate(r, v) \/ SetAlarm(r, v)
    \/ \E S \in SUBSET VMs : SpawnWorkers(r, S)

Stop(r) == StopList(r) \/ StopTerminate(r) \/ StopDone(r)

Handler(r) == Start(r) \/ Refused(r) \/ AlarmRaises(r) \/ Stop(r)

UserAsks(r) == \/ \E u \in Users : AskStop(r, u) \/ \E n \in Counts : AskStart(r, u, n)
               \/ AskBuild(r)

EC2(v) == Boot(v) \/ Halt(v)

Next == \/ \E r \in Requests : UserAsks(r) \/ Handler(r) \/ Build(r)
        \/ \E v \in VMs : EC2(v) \/ Sleepy(v)

Spec == Init /\ [][Next]_vars

(* A handler that has started goes on, and EC2 brings up and takes down the *)
(* machines it was told to.  Nothing is assumed of a build's ssh command,   *)
(* of its image or of idle alarms.                                          *)
FairSpec == /\ Spec
            /\ \A r \in Requests : WF_vars(Handler(r))
            /\ \A v \in VMs : WF_vars(EC2(v))

-----------------------------------------------------------------------------
(* Properties.                                                             *)

(* Every variable keeps its type.                                          *)
TypeOK ==
    /\ vm \in [VMs -> MachineType]
    /\ conf \in Brokers
    /\ req \in [Requests -> RequestType]

(* An account never has two queue heads at once.                           *)
OneHead ==
    \A v, w \in VMs :
        /\ vm[v].head /\ vm[v].state \in Alive
        /\ vm[w].head /\ vm[w].state \in Alive
        /\ SameAccount(v, vm[w].owner)
        => v = w

(* A worker is launched with the address of a queue head of its own account *)
(* that is running, so that it takes the account's jobs.                   *)
WorkersFindHead ==
    [][\A r \in Requests :
         req[r].pc = "spawn" /\ req'[r].pc = "wait" /\ req[r].user # Builder =>
            LET head == req[r].broker
            IN  /\ head \in VMs
                /\ Up(head) /\ vm[head].head /\ SameAccount(head, req[r].user)]_vars

(* Nothing but a request to stop machines stops a queue head: the alarm of *)
(* idle workers and the clean-up of late ones never reach it.              *)
HeadsStayUp ==
    [][\A v \in VMs :
         vm[v].head /\ vm[v].state \in Alive /\ vm'[v].state \notin Alive =>
            \E r \in Requests : req[r].pc = "terminate" /\ v \in req[r].left]_vars

(* A launch that is answered without an exception has launched as many     *)
(* machines as were asked for, the queue head included.  A number below    *)
(* one is not refused: where no queue head runs it launches one.           *)
LaunchedAsAsked ==
    \A r \in Requests : req[r].pc = "alarm" =>
        IF req[r].asked > 0
        THEN Cardinality(req[r].mine) = req[r].asked
        ELSE Cardinality(req[r].mine) <= 1 /\ \A v \in req[r].mine : vm[v].head

(* When a user's request to stop all machines is answered, none of the     *)
(* user's machines is left, those included whose launch was given up.      *)
StopLeavesNone ==
    [][\A r \in Requests :
         req[r].pc = "drain" /\ req'[r] = Idle =>
            \A v \in VMs : vm[v].owner = req[r].user => vm[v].state \notin Alive]_vars

(* The end of a build stops the machine it has launched and no other.      *)
BuildStopsOnlyItsOwn ==
    [][\A r \in Requests, v \in VMs :
         /\ req[r].pc = "terminate" /\ req[r].user = Builder /\ v \in req[r].left
         /\ vm[v].state \in Alive
         => vm'[v].state \in Alive \/ vm[v].owner = Builder]_vars

(* No request waits in vain: what it waits to come up has been launched,    *)
(* and what it waits to be gone is on its way down, whichever machines      *)
(* other requests launch and stop meanwhile.  The wait for machines to go   *)
(* has no deadline.                                                         *)
WaitsCanEnd ==
    \A r \in Requests : \A v \in req[r].left :
        /\ req[r].pc \in {"waitHead", "wait"} => vm[v].state # "none"
        /\ req[r].pc = "drain" => vm[v].state \in Gone

(* Every request comes to its end, or to the wait of a build for its ssh    *)
(* command and its image, which need not end; a build that comes out of it  *)
(* ends.  The launch ends by its deadlines, the wait for machines to go     *)
(* because EC2 terminates them.                                             *)
EveryRequestEnds ==
    \A r \in Requests : req[r].pc # "idle" ~> req[r].pc \in {"idle", "build"}

=============================================================================
