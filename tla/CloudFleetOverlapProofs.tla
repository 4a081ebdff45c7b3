----------------------- MODULE CloudFleetOverlapProofs -----------------------
(***************************************************************************)
(* Theorems about CloudFleet for any number of requests in progress at the *)
(* same time, and any machines, users and accounts: one queue head in an   *)
(* account, workers that are told it, stops that leave no machine, and     *)
(* waits that can end.  The code has no lock between requests, so each of  *)
(* the first three theorems names the overlap that its behaviours do not   *)
(* have; every other one is allowed.                                       *)
(***************************************************************************)
EXTENDS CloudFleetProofs

-----------------------------------------------------------------------------
(* What the theorems assume.                                               *)

\* Of an account's launches, one at a time is between its look for a queue
\* head and the end of its wait for the one it launches.
Looking(r) == req[r].pc \in {"check", "head", "waitHead"} /\ req[r].user # Builder

LaunchesApart ==
    \A r, q \in Requests :
        Looking(r) /\ Looking(q) /\ AccountOf[req[r].user] = AccountOf[req[q].user] => r = q

\* No machines are launched for a user from the listing of their machines to
\* the end of the request that stops them.
StopsApart ==
    \A r, q \in Requests :
        req[r].pc \in {"terminate", "drain"} /\ req[q].pc \in {"head", "spawn"} =>
            \/ AccountOf[req[r].user] # AccountOf[req[q].user]
            \/ req[q].user \notin Prefixed(req[r].user)

\* No machines of an account are stopped while a launch that has its queue
\* head is still to launch workers.
HeadsNotStopped ==
    \A r, q \in Requests :
        req[r].pc = "terminate" /\ req[q].pc \in {"conf", "spawn"} /\ req[q].user # Builder =>
            AccountOf[req[r].user] # AccountOf[req[q].user]

\* No queue head is given up while it boots.
HeadsAwaited == "late head" \notin Faults

\* Every queue head has a public address when it is up.
HeadsHaveAddress == "address" \notin Faults

OneAccount == \A u, w \in Owners : AccountOf[u] = AccountOf[w]

-----------------------------------------------------------------------------
(* The inductive invariants.                                               *)

Head(v) == vm[v].head /\ vm[v].state \in Alive

\* A request waits for one queue head, of its user's account, and every
\* queue head that boots is waited for.  A build needs none.
WaitsForHead ==
    \A r \in Requests :
        req[r].pc = "waitHead" =>
            \E v \in VMs : /\ req[r].left = {v}
                           /\ vm[v].head /\ vm[v].state # "none"
                           /\ SameAccount(v, req[r].user)

BootingIsAwaited ==
    \A v \in VMs :
        vm[v].head /\ vm[v].state = "pending" =>
            \E r \in Requests : req[r].pc = "waitHead" /\ v \in req[r].left

HeadsForUsers ==
    \A r \in Requests : req[r].pc \in {"head", "waitHead"} => req[r].user # Builder

\* A request that is to launch a queue head has found its account without one.
NoHeadYet ==
    \A r \in Requests :
        req[r].pc = "head" => \A v \in VMs : Head(v) => ~SameAccount(v, req[r].user)

HeadInv ==
    FleetInv /\ WaitsForHead /\ BootingIsAwaited /\ HeadsForUsers /\ NoHeadYet /\ OneHead

\* celeryconfig.py names the queue head that is running, until the next one
\* is up.
NamedInConf ==
    \A v \in VMs :
        vm[v].head /\ Up(v) =>
            v = conf \/ \E r \in Requests : req[r].pc = "waitHead" /\ v \in req[r].left

\* A launch of workers has a running queue head, which is the one named in
\* celeryconfig.py, and has read its address.
HeadForWorkers ==
    \A r \in Requests :
        req[r].pc \in {"conf", "spawn"} /\ req[r].user # Builder =>
            \E v \in VMs : /\ vm[v].head /\ Up(v) /\ SameAccount(v, req[r].user)
                           /\ v = conf
                           /\ req[r].pc = "spawn" => v = req[r].broker

BrokerInv == HeadInv /\ NamedInConf /\ HeadForWorkers

\* A request to stop machines has listed every one that it is to stop.
ListedAll ==
    \A r \in Requests :
        req[r].pc \in {"terminate", "drain"} => Targets(req[r].user) \subseteq req[r].left

StopInv == FleetInv /\ ListedAll

-----------------------------------------------------------------------------
(* What a step does to a machine and to a request.                         *)

\* A machine keeps its owner and its part, and comes no nearer to life.
Ages(v) ==
    /\ vm'[v].head = vm[v].head /\ vm'[v].owner = vm[v].owner
    /\ vm'[v].state = "none" <=> vm[v].state = "none"
    /\ vm'[v].state \in Alive => vm[v].state \in Alive
    /\ vm'[v].state = "pending" => vm[v].state = "pending"

LEMMA MachineSteps ==
    ASSUME FleetInv, [Next]_vars, NEW v \in VMs
    PROVE  \/ Ages(v)
           \/ \E r \in Requests : SpawnHead(r, v)
           \/ \E r \in Requests : \E S \in SUBSET VMs : SpawnWorkers(r, S) /\ v \in S
  <1> DEFINE Launched == \/ \E r \in Requests : SpawnHead(r, v)
                         \/ \E r \in Requests, S \in SUBSET VMs : SpawnWorkers(r, S) /\ v \in S
  <1>1. TypeOK
    BY DEF FleetInv
  <1>2. ASSUME vm'[v] = vm[v] PROVE Ages(v)
    BY <1>2 DEF Ages
  <1>3. ASSUME NEW S, NEW state \in {"stopping", "terminated"}, Become(S, state),
               v \in S => vm[v].state # "none"
        PROVE  Ages(v)
    BY <1>3 DEF Become, Machine, Ages, Alive
  <1>4. CASE UNCHANGED vm
    BY <1>2, <1>4
  <1>5. ASSUME NEW w \in VMs, EC2(w) \/ Sleepy(w)
        PROVE  Ages(v)
    <2>1. CASE Boot(w)
      BY <2>1 DEF Boot, Become, Machine, Ages, Alive
    <2>2. CASE Halt(w)
      BY <1>3, <2>2 DEF Halt
    <2>3. CASE Sleepy(w)
      BY <1>3, <2>3 DEF Sleepy, Up
    <2>4. QED
      BY <1>5, <2>1, <2>2, <2>3 DEF EC2
  <1>6. ASSUME NEW r \in Requests, UserAsks(r) \/ Handler(r) \/ Build(r)
        PROVE  Ages(v) \/ Launched
    <2>1. ASSUME NEW w \in VMs, SetAlarm(r, w) PROVE Ages(v)
      BY <1>1, <2>1 DEF SetAlarm, Machine, TypeOK, Ages
    <2>2. CASE WorkersLate(r)
      <3>1. ASSUME NEW lost \in SUBSET {w \in req[r].left : Up(w)}, Become(lost, "stopping")
            PROVE  Ages(v)
        BY <1>3, <3>1 DEF Up
      <3>2. QED
        BY <1>4, <2>2, <3>1 DEF WorkersLate
    <2>3. CASE StopTerminate(r)
      BY <1>3, <2>3 DEF StopTerminate, Alive
    <2>4. ASSUME NEW w \in VMs, SpawnHead(r, w) PROVE Ages(v) \/ Launched
      <3>1. CASE w = v
        BY <2>4, <3>1
      <3>2. CASE w # v
        BY <1>2, <2>4, <3>2 DEF SpawnHead, Launch
      <3>3. QED
        BY <3>1, <3>2
    <2>5. ASSUME NEW S \in SUBSET VMs, SpawnWorkers(r, S) PROVE Ages(v) \/ Launched
      <3>1. CASE v \in S
        BY <2>5, <3>1
      <3>2. CASE v \notin S
        BY <1>2, <2>5, <3>2 DEF SpawnWorkers, Launch
      <3>3. QED
        BY <3>1, <3>2
    <2>6. QED
      BY <1>4, <1>6, <2>1, <2>2, <2>3, <2>4, <2>5
         DEF UserAsks, AskStop, AskStart, AskBuild, Handler, Start, Stop, CheckHead, ReadConf,
             WorkersUp, LaunchDone, HeadUp, HeadLate, Refused, AlarmRaises, Build, StopList,
             StopDone
  <1>7. QED
    BY <1>4, <1>5, <1>6 DEF Next, vars

\* How a request comes to the places, and leaves those, that matter here.
LEMMA PlaceSteps ==
    ASSUME TypeOK, NEW r \in Requests, UserAsks(r) \/ Handler(r) \/ Build(r)
    PROVE  /\ req'[r].pc = "head" => CheckHead(r)
           /\ req'[r].pc = "waitHead" => \E v \in VMs : SpawnHead(r, v)
           /\ req[r].pc = "waitHead" => \E v \in VMs : HeadUp(r, v) \/ HeadLate(r, v)
           /\ req'[r].pc = "conf" => CheckHead(r) \/ \E v \in VMs : HeadUp(r, v)
           /\ req'[r].pc = "spawn" => ReadConf(r)
           /\ req'[r].pc = "terminate" => StopList(r)
           /\ req'[r].pc = "drain" => StopTerminate(r)
           /\ req[r].pc = "drain" => StopDone(r)
           /\ req[r].pc = "spawn" /\ req'[r].pc = "wait" =>
                  \E S \in SUBSET VMs : SpawnWorkers(r, S)
           /\ conf' = conf \/ \E v \in VMs : HeadUp(r, v)
  <1> USE DEF TypeOK
  <1>1. CASE UserAsks(r)
    BY <1>1 DEF UserAsks, AskStop, AskStart, AskBuild, Doing
  <1>2. CASE Ends(r) /\ UNCHANGED conf /\ req[r].pc \notin {"waitHead", "drain"}
    BY <1>2 DEF Ends, Idle, Doing
  <1>3. CASE Refused(r) \/ AlarmRaises(r) \/ Build(r) \/ LaunchDone(r)
    BY <1>2, <1>3 DEF Refused, AlarmRaises, Build, LaunchDone, GoesTo, Doing
  <1>4. CASE CheckHead(r)
    <2>1. /\ req[r].pc = "check" /\ req'[r].pc \in {"head", "conf", "alarm"}
          /\ conf' = conf
      BY <1>4 DEF CheckHead, GoesTo, Doing, Rest
    <2>2. QED
      BY <1>4, <2>1
  <1>5. CASE ReadConf(r) \/ WorkersUp(r) \/ WorkersLate(r) \/ \E v \in VMs : SetAlarm(r, v)
    <2>1. CASE ReadConf(r)
      BY <2>1 DEF ReadConf, Doing
    <2>2. ASSUME NEW left, GoesTo(r, "alarm", left), conf' = conf,
                 req[r].pc \in {"wait", "alarm"}
          PROVE  req'[r].pc = "alarm" /\ req[r].pc \notin {"waitHead", "drain", "spawn"}
      BY <2>2 DEF GoesTo, Doing
    <2>3. CASE WorkersUp(r) \/ WorkersLate(r) \/ \E v \in VMs : SetAlarm(r, v)
      <3>1. /\ req[r].pc \in {"wait", "alarm"} /\ conf' = conf
            /\ Ends(r) \/ \E left : GoesTo(r, "alarm", left)
        BY <2>3 DEF WorkersUp, WorkersLate, SetAlarm
      <3>2. CASE Ends(r)
        BY <1>2, <3>1, <3>2
      <3>3. CASE \E left : GoesTo(r, "alarm", left)
        BY <2>2, <3>1, <3>3
      <3>4. QED
        BY <3>1, <3>2, <3>3
    <2>4. QED
      BY <1>5, <2>1, <2>3
  <1>6. CASE \E v \in VMs : SpawnHead(r, v)
    <2>1. req[r].pc = "head" /\ req'[r].pc = "waitHead" /\ conf' = conf
      BY <1>6 DEF SpawnHead, Doing
    <2>2. QED
      BY <1>6, <2>1
  <1>7. CASE \E v \in VMs : HeadUp(r, v) \/ HeadLate(r, v)
    <2>1. PICK v \in VMs : HeadUp(r, v) \/ HeadLate(r, v)
      BY <1>7
    <2>2. CASE HeadUp(r, v)
      <3>1. req[r].pc = "waitHead" /\ req'[r].pc \in {"conf", "alarm"}
        BY <2>2 DEF HeadUp, Doing, Rest
      <3>2. QED
        BY <2>2, <3>1
    <2>3. CASE HeadLate(r, v)
      <3>1. req[r].pc = "waitHead" /\ req'[r].pc = "idle" /\ conf' = conf
        BY <2>3 DEF HeadLate, Ends, Idle, Doing
      <3>2. QED
        BY <2>3, <3>1
    <2>4. QED
      BY <2>1, <2>2, <2>3
  <1>8. CASE \E S \in SUBSET VMs : SpawnWorkers(r, S)
    <2>1. req[r].pc = "spawn" /\ req'[r].pc = "wait" /\ conf' = conf
      BY <1>8 DEF SpawnWorkers, Doing
    <2>2. QED
      BY <1>8, <2>1
  <1>9. CASE Stop(r)
    BY <1>2, <1>9 DEF Stop, StopList, StopTerminate, StopDone, GoesTo, Ends, Idle, Doing
  <1>10. QED
    BY <1>1, <1>3, <1>4, <1>5, <1>6, <1>7, <1>8, <1>9 DEF Handler, Start

\* What is launched: a queue head by the request that found none, or workers.
LEMMA HeadSteps ==
    ASSUME FleetInv, [Next]_vars, NEW v \in VMs, vm'[v].head
    PROVE  \/ vm[v].head /\ Ages(v)
           \/ \E r \in Requests : SpawnHead(r, v)
  <1>1. ASSUME NEW r \in Requests, NEW S \in SUBSET VMs, SpawnWorkers(r, S), v \in S
        PROVE  FALSE
    BY <1>1 DEF SpawnWorkers, Launch, Machine
  <1>2. QED
    BY <1>1, MachineSteps DEF Ages

\* What SpawnHead does.
LEMMA NewHead ==
    ASSUME TypeOK, NEW r \in Requests, NEW v \in VMs, SpawnHead(r, v)
    PROVE  /\ req[r].pc = "head" /\ req'[r].pc = "waitHead" /\ req'[r].left = {v}
           /\ req'[r].user = req[r].user
           /\ vm'[v].head /\ vm'[v].state = "pending" /\ vm'[v].owner = req[r].user
           /\ \A w \in VMs \ {v} : vm'[w] = vm[w]
  BY DEF SpawnHead, Launch, Machine, Doing, TypeOK

\* A step is one request's, or a machine's.
LEMMA WhoMoves ==
    ASSUME TypeOK, [Next]_vars
    PROVE  \/ /\ UNCHANGED <<conf, req>>
              /\ UNCHANGED vm \/ \E v \in VMs : EC2(v) \/ Sleepy(v)
           \/ \E r \in Requests : /\ UserAsks(r) \/ Handler(r) \/ Build(r)
                                  /\ \A q \in Requests \ {r} : req'[q] = req[q]
  <1>1. CASE UNCHANGED vars
    BY <1>1 DEF vars
  <1>2. CASE \E v \in VMs : EC2(v) \/ Sleepy(v)
    BY <1>2 DEF EC2, Boot, Halt, Sleepy
  <1>3. CASE \E r \in Requests : UserAsks(r) \/ Handler(r) \/ Build(r)
    BY <1>3, OneRequestMoves
  <1>4. QED
    BY <1>1, <1>2, <1>3 DEF Next

\* A launched machine is not launched again.
LEMMA LaunchedAges ==
    ASSUME FleetInv, [Next]_vars, NEW v \in VMs, vm[v].state # "none"
    PROVE  Ages(v)
  BY MachineSteps DEF SpawnHead, SpawnWorkers, Fresh

\* No machine is launched by a step that leaves the requests alone.
LEMMA OnlyAges ==
    ASSUME FleetInv, [Next]_vars, UNCHANGED req, NEW v \in VMs
    PROVE  Ages(v)
  <1>1. TypeOK
    BY DEF FleetInv
  <1>2. ASSUME NEW r \in Requests, SpawnHead(r, v) PROVE FALSE
    BY <1>1, <1>2, NewHead
  <1>3. ASSUME NEW r \in Requests, NEW S \in SUBSET VMs, SpawnWorkers(r, S) PROVE FALSE
    BY <1>1, <1>3 DEF SpawnWorkers, Doing, TypeOK
  <1>4. QED
    BY <1>2, <1>3, MachineSteps

-----------------------------------------------------------------------------
(* One queue head in an account.                                           *)

\* The launch of a queue head, while no other launch of the account looks for
\* one.
LEMMA HeadLaunched ==
    ASSUME HeadInv, LaunchesApart, [Next]_vars, NEW r \in Requests, NEW v \in VMs,
           SpawnHead(r, v), \A q \in Requests \ {r} : req'[q] = req[q]
    PROVE  WaitsForHead' /\ BootingIsAwaited' /\ NoHeadYet' /\ OneHead'
  <1>1. FleetInv /\ TypeOK /\ TypeOK'
    BY FleetNext DEF HeadInv, FleetInv
  <1>2. /\ req[r].pc = "head" /\ req'[r].pc = "waitHead" /\ req'[r].left = {v}
        /\ req'[r].user = req[r].user
        /\ vm'[v].head /\ vm'[v].state = "pending" /\ vm'[v].owner = req[r].user
        /\ \A w \in VMs \ {v} : vm'[w] = vm[w]
    BY <1>1, NewHead
  <1>3. vm[v].state = "none"
    BY DEF SpawnHead, Fresh
  <1>4. \A q \in Requests \ {r} :
          req[q].pc = "head" => AccountOf[req[q].user] # AccountOf[req[r].user]
    BY <1>2 DEF HeadInv, HeadsForUsers, LaunchesApart, Looking
  <1>5. WaitsForHead'
    <2>1. ASSUME NEW q \in Requests \ {r}, req[q].pc = "waitHead"
          PROVE  \E w \in VMs : /\ req'[q].left = {w}
                                /\ vm'[w].head /\ vm'[w].state # "none"
                                /\ AccountOf[vm'[w].owner] = AccountOf[req'[q].user]
      <3>1. PICK w \in VMs : /\ req[q].left = {w}
                             /\ vm[w].head /\ vm[w].state # "none"
                             /\ AccountOf[vm[w].owner] = AccountOf[req[q].user]
        BY <2>1 DEF HeadInv, WaitsForHead, SameAccount
      <3>2. vm'[w] = vm[w] /\ req'[q] = req[q]
        BY <1>2, <1>3, <3>1
      <3>3. QED
        BY <3>1, <3>2
    <2>2. QED
      BY <1>2, <2>1 DEF WaitsForHead, SameAccount
  <1>6. BootingIsAwaited'
    <2>1. ASSUME NEW w \in VMs \ {v}, vm'[w].head, vm'[w].state = "pending"
          PROVE  \E q \in Requests : req'[q].pc = "waitHead" /\ w \in req'[q].left
      <3>1. PICK q \in Requests : req[q].pc = "waitHead" /\ w \in req[q].left
        BY <1>2, <2>1 DEF HeadInv, BootingIsAwaited
      <3>2. q # r
        BY <1>2, <3>1
      <3>3. QED
        BY <3>1, <3>2
    <2>2. QED
      BY <1>2, <2>1 DEF BootingIsAwaited
  <1>7. NoHeadYet'
    <2>1. ASSUME NEW q \in Requests \ {r}, req[q].pc = "head", NEW w \in VMs,
                 vm'[w].head, vm'[w].state \in Alive
          PROVE  AccountOf[vm'[w].owner] # AccountOf[req[q].user]
      BY <1>2, <1>4, <2>1 DEF HeadInv, NoHeadYet, Head, SameAccount
    <2>2. QED
      BY <1>2, <2>1 DEF NoHeadYet, Head, SameAccount
  <1>8. OneHead'
    <2>1. \A w \in VMs \ {v} :
            vm'[w].head /\ vm'[w].state \in Alive =>
                AccountOf[vm'[w].owner] # AccountOf[vm'[v].owner]
      BY <1>2 DEF HeadInv, NoHeadYet, Head, SameAccount
    <2>2. QED
      BY <1>2, <2>1 DEF HeadInv, OneHead, SameAccount
  <1>9. QED
    BY <1>5, <1>6, <1>7, <1>8

LEMMA HeadNext ==
    ASSUME HeadsAwaited, HeadInv, LaunchesApart, [Next]_vars
    PROVE  HeadInv'
  <1>1. FleetInv /\ FleetInv' /\ TypeOK /\ TypeOK'
    BY FleetNext DEF HeadInv, FleetInv
  <1>2. CASE UNCHANGED req
    <2>1. \A v \in VMs : Ages(v)
      BY <1>1, <1>2, OnlyAges
    <2>2. WaitsForHead' /\ BootingIsAwaited' /\ HeadsForUsers'
      BY <1>2, <2>1
         DEF HeadInv, WaitsForHead, BootingIsAwaited, HeadsForUsers, SameAccount, Ages
    <2>3. NoHeadYet' /\ OneHead'
      BY <1>2, <2>1 DEF HeadInv, NoHeadYet, OneHead, Head, SameAccount, Ages
    <2>4. QED
      BY <1>1, <2>2, <2>3 DEF HeadInv
  <1>3. ASSUME NEW r \in Requests, UserAsks(r) \/ Handler(r) \/ Build(r),
               \A q \in Requests \ {r} : req'[q] = req[q]
        PROVE  HeadInv'
    <2>1. HeadsForUsers'
      <3>1. ASSUME req'[r].pc \in {"head", "waitHead"} PROVE req'[r].user # Builder
        <4>1. CASE CheckHead(r)
          BY <1>1, <3>1, <4>1 DEF CheckHead, GoesTo, Doing, Rest, TypeOK
        <4>2. ASSUME NEW v \in VMs, SpawnHead(r, v) PROVE req'[r].user # Builder
          BY <1>1, <4>2, NewHead DEF HeadInv, HeadsForUsers
        <4>3. QED
          BY <1>1, <1>3, <3>1, <4>1, <4>2, PlaceSteps
      <3>2. QED
        BY <1>3, <3>1 DEF HeadInv, HeadsForUsers
    <2>2. CASE \E v \in VMs : SpawnHead(r, v)
      BY <1>1, <1>3, <2>1, <2>2, HeadLaunched DEF HeadInv
    <2>3. CASE ~\E v \in VMs : SpawnHead(r, v)
      <3>1. \A v \in VMs : vm'[v].head => vm[v].head /\ Ages(v)
        <4>1. ASSUME NEW q \in Requests, NEW v \in VMs, SpawnHead(q, v) PROVE q = r
          BY <1>1, <1>3, <4>1, NewHead
        <4>2. QED
          BY <1>1, <2>3, <4>1, HeadSteps
      <3>2. WaitsForHead'
        <4>1. req'[r].pc # "waitHead"
          BY <1>1, <1>3, <2>3, PlaceSteps
        <4>2. \A v \in VMs : vm[v].state # "none" => Ages(v)
          BY <1>1, LaunchedAges
        <4>3. QED
          BY <1>3, <4>1, <4>2 DEF HeadInv, WaitsForHead, SameAccount, Ages
      <3>3. BootingIsAwaited'
        <4>1. ASSUME NEW v \in VMs, vm'[v].head, vm'[v].state = "pending"
              PROVE  \E q \in Requests \ {r} : req[q].pc = "waitHead" /\ v \in req[q].left
          <5>1. vm[v].head /\ vm[v].state = "pending"
            BY <3>1, <4>1 DEF Ages
          <5>2. PICK q \in Requests : req[q].pc = "waitHead" /\ v \in req[q].left
            BY <5>1 DEF HeadInv, BootingIsAwaited
          <5>3. ASSUME q = r PROVE FALSE
            <6>1. req[r].left = {v}
              BY <5>2, <5>3 DEF HeadInv, WaitsForHead
            <6>2. HeadUp(r, v) \/ HeadLate(r, v)
              BY <1>1, <1>3, <5>2, <5>3, <6>1, PlaceSteps DEF HeadUp, HeadLate
            <6>3. QED
              BY <5>1, <6>2 DEF HeadUp, HeadLate, HeadsAwaited, Up, Gone
          <5>4. QED
            BY <5>2, <5>3
        <4>2. QED
          BY <1>3, <4>1 DEF BootingIsAwaited
      <3>4. NoHeadYet'
        <4>1. ASSUME req'[r].pc = "head", NEW v \in VMs, vm'[v].head, vm'[v].state \in Alive,
                     AccountOf[vm'[v].owner] = AccountOf[req'[r].user]
              PROVE  FALSE
          <5>1. CheckHead(r)
            BY <1>1, <1>3, <4>1, PlaceSteps
          <5>2. vm' = vm /\ req'[r].user = req[r].user /\ req[r].pc = "check"
            BY <1>1, <5>1 DEF CheckHead, GoesTo, Doing, TypeOK
          <5>3. ~Up(v) /\ req[r].user # Builder
            BY <1>1, <4>1, <5>1, <5>2 DEF CheckHead, GoesTo, Doing, Rest, SameAccount, TypeOK
          <5>4. vm[v].state = "pending"
            BY <4>1, <5>2, <5>3 DEF Up, Alive
          <5>5. PICK q \in Requests : req[q].pc = "waitHead" /\ v \in req[q].left
            BY <4>1, <5>2, <5>4 DEF HeadInv, BootingIsAwaited
          <5>6. AccountOf[req[q].user] = AccountOf[req[r].user] /\ req[q].user # Builder
            BY <4>1, <5>2, <5>5 DEF HeadInv, WaitsForHead, HeadsForUsers, SameAccount
          <5>7. q = r
            BY <5>2, <5>3, <5>5, <5>6 DEF LaunchesApart, Looking
          <5>8. QED
            BY <5>2, <5>5, <5>7
        <4>2. ASSUME NEW q \in Requests \ {r}, req[q].pc = "head", NEW v \in VMs,
                     vm'[v].head, vm'[v].state \in Alive
              PROVE  AccountOf[vm'[v].owner] # AccountOf[req[q].user]
          BY <3>1, <4>2 DEF HeadInv, NoHeadYet, Head, SameAccount, Ages
        <4>3. QED
          BY <1>3, <4>1, <4>2 DEF NoHeadYet, Head, SameAccount
      <3>5. OneHead'
        BY <3>1 DEF HeadInv, OneHead, SameAccount, Ages
      <3>6. QED
        BY <1>1, <2>1, <3>2, <3>3, <3>4, <3>5 DEF HeadInv
    <2>4. QED
      BY <2>2, <2>3
  <1>4. QED
    BY <1>1, <1>2, <1>3, WhoMoves

LEMMA HeadInit == Init => HeadInv
  BY FleetInit DEF Init, HeadInv, WaitsForHead, BootingIsAwaited, HeadsForUsers, NoHeadYet,
                   OneHead, Head, Idle, Doing, Unused, Machine, Alive

\* An account never has two queue heads at once, when no two of its launches
\* look for one at the same time and no queue head is given up while it boots:
\* whatever other requests are in progress, and whatever else fails.
THEOREM AccountsHaveOneHead == HeadsAwaited => (Spec /\ []LaunchesApart => []OneHead)
  <1> SUFFICES ASSUME HeadsAwaited PROVE Spec /\ []LaunchesApart => []OneHead
    OBVIOUS
  <1>1. HeadInv /\ LaunchesApart /\ [Next]_vars => HeadInv'
    BY HeadNext
  <1>2. HeadInv => OneHead
    BY DEF HeadInv
  <1>3. QED
    BY <1>1, <1>2, HeadInit, PTL DEF Spec

-----------------------------------------------------------------------------
(* The broker that workers are told.                                       *)

\* A queue head that is up stays as it is but for a request to stop machines.
LEMMA UpStaysUp ==
    ASSUME FleetInv, [Next]_vars, NEW v \in VMs, vm[v].head, Up(v),
           ~\E r \in Requests : req[r].pc = "terminate" /\ v \in req[r].left
    PROVE  /\ vm'[v].head /\ vm'[v].state = "running"
           /\ vm'[v].owner = vm[v].owner
  <1>1. Ages(v)
    BY LaunchedAges DEF Up
  <1>2. vm'[v].state \in Alive
    BY HeadGoesDown DEF Up, Alive
  <1>3. QED
    BY <1>1, <1>2 DEF Ages, Up, Alive

LEMMA BrokerNext ==
    ASSUME HeadsAwaited, HeadsHaveAddress, OneAccount, BrokerInv, LaunchesApart, HeadsNotStopped, [Next]_vars
    PROVE  BrokerInv'
  <1>1. HeadInv /\ HeadInv' /\ FleetInv /\ TypeOK /\ TypeOK'
    BY HeadNext DEF BrokerInv, HeadInv, FleetInv
  <1>2. \A v, w \in VMs : Head(v) /\ Head(w) => v = w
    <2>1. \A v \in VMs : vm[v].owner \in Owners
      BY <1>1, MachineFields
    <2>2. QED
      BY <1>1, <2>1 DEF HeadInv, OneHead, Head, SameAccount, OneAccount
  <1>3. ASSUME NEW v \in VMs, vm'[v].head, vm'[v].state = "running"
        PROVE  /\ Head(v)
               /\ v = conf \/ \E q \in Requests : req[q].pc = "waitHead" /\ req[q].left = {v}
    <2>1. vm[v].head /\ vm[v].state \in Alive
      BY <1>1, <1>3, HeadSteps, NewHead DEF Ages, Alive
    <2>2. QED
      BY <1>1, <2>1 DEF BrokerInv, NamedInConf, HeadInv, BootingIsAwaited, WaitsForHead, Head,
                        Up, Alive
  \* While workers are to be launched, the queue head stays, and stays named.
  <1>4. ASSUME NEW q \in Requests, req[q].pc \in {"conf", "spawn"}, req[q].user # Builder,
               NEW v \in VMs, vm[v].head, Up(v)
        PROVE  vm'[v].head /\ vm'[v].state = "running" /\ vm'[v].owner = vm[v].owner
    <2>1. \A r \in Requests : req[r].pc # "terminate"
      BY <1>1, <1>4, RequestFields DEF HeadsNotStopped, OneAccount
    <2>2. QED
      BY <1>1, <1>4, <2>1, UpStaysUp
  <1>5. ASSUME NEW r \in Requests, NEW w \in VMs, HeadUp(r, w), NEW v \in VMs, Head(v)
        PROVE  conf' = v
    <2>1. Head(w) /\ conf' = w
      BY <1>1, <1>5 DEF HeadUp, HeadsHaveAddress, HeadInv, WaitsForHead, Head, Up, Alive
    <2>2. QED
      BY <1>2, <1>5, <2>1
  <1>6. CASE UNCHANGED <<conf, req>>
    <2>1. NamedInConf'
      BY <1>3, <1>6 DEF NamedInConf, Up
    <2>2. HeadForWorkers'
      BY <1>4, <1>6 DEF BrokerInv, HeadForWorkers, SameAccount, Up
    <2>3. QED
      BY <1>1, <2>1, <2>2 DEF BrokerInv
  <1>7. ASSUME NEW r \in Requests, UserAsks(r) \/ Handler(r) \/ Build(r),
               \A q \in Requests \ {r} : req'[q] = req[q]
        PROVE  BrokerInv'
    <2>1. conf' = conf \/ \E w \in VMs : HeadUp(r, w)
      BY <1>1, <1>7, PlaceSteps
    <2>2. NamedInConf'
      <3>1. ASSUME NEW v \in VMs, vm'[v].head, vm'[v].state = "running"
            PROVE  \/ v = conf'
                   \/ \E q \in Requests \ {r} : req[q].pc = "waitHead" /\ req[q].left = {v}
        <4>1. CASE \E w \in VMs : HeadUp(r, w)
          BY <1>3, <1>5, <3>1, <4>1
        <4>2. CASE ~\E w \in VMs : HeadUp(r, w)
          <5>1. ASSUME req[r].pc = "waitHead", req[r].left = {v} PROVE FALSE
            <6>1. HeadLate(r, v)
              BY <1>1, <1>7, <4>2, <5>1, PlaceSteps DEF HeadLate
            <6>2. vm[v].state \in Gone
              BY <6>1 DEF HeadLate, HeadsAwaited
            <6>3. QED
              BY <1>3, <3>1, <6>2 DEF Head, Alive, Gone
          <5>2. QED
            BY <1>3, <2>1, <3>1, <4>2, <5>1
        <4>3. QED
          BY <4>1, <4>2
      <3>2. QED
        BY <1>7, <3>1 DEF NamedInConf, Up
    <2>3. ASSUME NEW q \in Requests \ {r}, req[q].pc \in {"conf", "spawn"},
                 req[q].user # Builder
          PROVE  \E v \in VMs : /\ vm'[v].head /\ vm'[v].state = "running"
                                /\ AccountOf[vm'[v].owner] = AccountOf[req[q].user]
                                /\ v = conf'
                                /\ req[q].pc = "spawn" => v = req[q].broker
      <3>1. PICK v \in VMs : /\ vm[v].head /\ Up(v) /\ SameAccount(v, req[q].user)
                             /\ v = conf
                             /\ req[q].pc = "spawn" => v = req[q].broker
        BY <2>3 DEF BrokerInv, HeadForWorkers
      <3>2. vm'[v].head /\ vm'[v].state = "running" /\ vm'[v].owner = vm[v].owner
        BY <1>4, <2>3, <3>1
      <3>3. conf' = v
        BY <1>5, <2>1, <3>1 DEF Head, Up, Alive
      <3>4. QED
        BY <3>1, <3>2, <3>3 DEF SameAccount
    <2>4. ASSUME req'[r].pc = "conf", req'[r].user # Builder
          PROVE  \E v \in VMs : /\ vm'[v].head /\ vm'[v].state = "running"
                                /\ AccountOf[vm'[v].owner] = AccountOf[req'[r].user]
                                /\ v = conf'
      <3>1. CASE CheckHead(r)
        <4>1. /\ req[r].pc = "check" /\ req'[r].user = req[r].user
              /\ UNCHANGED <<vm, conf>>
          BY <1>1, <3>1 DEF CheckHead, GoesTo, Doing, TypeOK
        <4>2. PICK v \in VMs : Up(v) /\ vm[v].head /\ SameAccount(v, req[r].user)
          BY <1>1, <2>4, <3>1, <4>1 DEF CheckHead, GoesTo, Doing, TypeOK
        <4>3. ASSUME NEW q \in Requests, req[q].pc = "waitHead" PROVE FALSE
          <5>1. Looking(r) /\ Looking(q)
            BY <1>1, <2>4, <4>1, <4>3 DEF Looking, HeadInv, HeadsForUsers
          <5>2. AccountOf[req[r].user] = AccountOf[req[q].user]
            BY <1>1, RequestFields DEF OneAccount
          <5>3. QED
            BY <4>1, <4>3, <5>1, <5>2 DEF LaunchesApart
        <4>4. v = conf
          BY <4>2, <4>3 DEF BrokerInv, NamedInConf
        <4>5. QED
          BY <4>1, <4>2, <4>4 DEF SameAccount, Up
      <3>2. ASSUME NEW v \in VMs, HeadUp(r, v)
            PROVE  /\ vm'[v].head /\ vm'[v].state = "running"
                   /\ AccountOf[vm'[v].owner] = AccountOf[req'[r].user]
                   /\ v = conf'
        BY <1>1, <3>2 DEF HeadUp, HeadsHaveAddress, HeadInv, WaitsForHead, Doing,
                           SameAccount, Up, TypeOK
      <3>3. QED
        BY <1>1, <1>7, <2>4, <3>1, <3>2, PlaceSteps
    <2>5. ASSUME req'[r].pc = "spawn", req'[r].user # Builder
          PROVE  \E v \in VMs : /\ vm'[v].head /\ vm'[v].state = "running"
                                /\ AccountOf[vm'[v].owner] = AccountOf[req'[r].user]
                                /\ v = conf' /\ v = req'[r].broker
      <3>1. ReadConf(r)
        BY <1>1, <1>7, <2>5, PlaceSteps
      <3>2. /\ req[r].pc = "conf" /\ UNCHANGED <<vm, conf>>
            /\ req'[r].user = req[r].user /\ req'[r].broker = conf
        BY <1>1, <3>1 DEF ReadConf, Doing, TypeOK
      <3>3. QED
        BY <2>5, <3>2 DEF BrokerInv, HeadForWorkers, SameAccount, Up
    <2>6. HeadForWorkers'
      BY <1>7, <2>3, <2>4, <2>5 DEF HeadForWorkers, SameAccount, Up
    <2>7. QED
      BY <1>1, <2>2, <2>6 DEF BrokerInv
  <1>8. QED
    BY <1>1, <1>6, <1>7, WhoMoves

\* A worker is told a queue head of its own account that is running, when all
\* use one account, no two launches look for a queue head at the same time,
\* none is given up while it boots or comes up without an address, and no
\* machines are stopped while a launch has still to use the queue head it found.
THEOREM WorkersAreTold ==
    HeadsAwaited /\ HeadsHaveAddress /\ OneAccount =>
        (Spec /\ []LaunchesApart /\ []HeadsNotStopped => WorkersFindHead)
  <1> SUFFICES ASSUME HeadsAwaited, HeadsHaveAddress, OneAccount
               PROVE  Spec /\ []LaunchesApart /\ []HeadsNotStopped => WorkersFindHead
    OBVIOUS
  <1>1. Init => BrokerInv
    BY HeadInit DEF Init, BrokerInv, NamedInConf, HeadForWorkers, Idle, Doing, Unused, Machine
  <1>2. BrokerInv /\ LaunchesApart /\ HeadsNotStopped /\ [Next]_vars => BrokerInv'
    BY BrokerNext
  <1>3. ASSUME BrokerInv, NEW r \in Requests,
               req[r].pc = "spawn", req[r].user # Builder
        PROVE  /\ req[r].broker \in VMs
               /\ Up(req[r].broker) /\ vm[req[r].broker].head
               /\ SameAccount(req[r].broker, req[r].user)
    BY <1>3 DEF BrokerInv, HeadForWorkers
  <1>4. BrokerInv =>
          [\A r \in Requests :
             req[r].pc = "spawn" /\ req'[r].pc = "wait" /\ req[r].user # Builder =>
                LET head == req[r].broker
                IN  /\ head \in VMs
                    /\ Up(head) /\ vm[head].head /\ SameAccount(head, req[r].user)]_vars
    BY <1>3
  <1>5. QED
    BY <1>1, <1>2, <1>4, PTL DEF Spec, WorkersFindHead

-----------------------------------------------------------------------------
(* Stopping a user's machines.                                             *)

LEMMA StopNext ==
    ASSUME StopInv, StopsApart, [Next]_vars
    PROVE  StopInv'
  <1>1. FleetInv /\ FleetInv' /\ TypeOK
    BY FleetNext DEF StopInv, FleetInv
  \* What a request is to stop grows only by a launch for it.
  <1>2. ASSUME NEW u \in Owners, NEW v \in VMs, v \in Targets(u)', v \notin Targets(u)
        PROVE  \E q \in Requests : /\ req[q].pc \in {"head", "spawn"}
                                   /\ AccountOf[req[q].user] = AccountOf[u]
                                   /\ req[q].user \in Prefixed(u)
    <2>1. ~Ages(v)
      BY <1>2 DEF Targets, Fresh, SameAccount, Ages
    <2>2. ASSUME NEW q \in Requests, req[q].pc \in {"head", "spawn"},
                 vm'[v].owner = req[q].user
          PROVE  /\ AccountOf[req[q].user] = AccountOf[u]
                 /\ req[q].user \in Prefixed(u)
      BY <1>2, <2>2 DEF Targets, SameAccount
    <2>3. ASSUME NEW q \in Requests, SpawnHead(q, v)
          PROVE  req[q].pc = "head" /\ vm'[v].owner = req[q].user
      BY <1>1, <2>3, NewHead
    <2>4. ASSUME NEW q \in Requests, NEW S \in SUBSET VMs, SpawnWorkers(q, S), v \in S
          PROVE  req[q].pc = "spawn" /\ vm'[v].owner = req[q].user
      BY <2>4 DEF SpawnWorkers, Launch, Machine
    <2>5. QED
      BY <1>1, <2>1, <2>2, <2>3, <2>4, MachineSteps
  <1>3. ASSUME NEW r \in Requests, req[r].pc \in {"terminate", "drain"},
               NEW u \in Owners, req[r].user = u
        PROVE  Targets(u)' \subseteq req[r].left
    <2>1. ~\E q \in Requests : /\ req[q].pc \in {"head", "spawn"}
                               /\ AccountOf[req[q].user] = AccountOf[u]
                               /\ req[q].user \in Prefixed(u)
      BY <1>3 DEF StopsApart
    <2>2. Targets(u)' \subseteq VMs
      BY DEF Targets
    <2>3. Targets(u)' \subseteq Targets(u)
      BY <1>2, <2>1, <2>2
    <2>4. QED
      BY <1>3, <2>3 DEF StopInv, ListedAll
  <1>4. ASSUME NEW r \in Requests, req'[r] = req[r], req[r].pc \in {"terminate", "drain"},
               NEW u \in Owners, req[r].user = u
        PROVE  Targets(u)' \subseteq req'[r].left
    BY <1>3, <1>4
  <1>5. ASSUME NEW r \in Requests, UserAsks(r) \/ Handler(r) \/ Build(r),
               req'[r].pc \in {"terminate", "drain"},
               NEW u \in Owners, req'[r].user = u
        PROVE  Targets(u)' \subseteq req'[r].left
    <2>1. CASE StopList(r)
      <3>1. vm' = vm /\ req'[r].left = Targets(u)
        BY <1>1, <1>5, <2>1 DEF StopList, GoesTo, Ends, Idle, Doing, TypeOK
      <3>2. Targets(u)' = Targets(u)
        BY <3>1 DEF Targets, Fresh, SameAccount
      <3>3. QED
        BY <3>1, <3>2
    <2>2. CASE StopTerminate(r)
      <3>1. /\ req[r].pc = "terminate"
            /\ req'[r].left = req[r].left /\ req'[r].user = req[r].user
        BY <1>1, <2>2 DEF StopTerminate, GoesTo, Doing, TypeOK
      <3>2. QED
        BY <1>3, <1>5, <3>1
    <2>3. QED
      BY <1>1, <1>5, <2>1, <2>2, PlaceSteps
  <1>6. ASSUME NEW r \in Requests, req'[r].pc \in {"terminate", "drain"}
        PROVE  \A u \in Owners : req'[r].user = u => Targets(u)' \subseteq req'[r].left
    BY <1>1, <1>4, <1>5, <1>6, WhoMoves
  <1>7. ListedAll'
    <2>1. ASSUME NEW r \in Requests, req'[r].pc \in {"terminate", "drain"},
                 NEW v \in VMs, vm'[v].state # "none",
                 AccountOf[vm'[v].owner] = AccountOf[req'[r].user],
                 vm'[v].owner \in Prefixed(req'[r].user)
          PROVE  v \in req'[r].left
      <3>1. PICK u \in Owners : req'[r].user = u
        BY <1>1, RequestFields DEF TypeOK, RequestType, FleetInv
      <3>2. v \in Targets(u)'
        BY <2>1, <3>1 DEF Targets, Fresh, SameAccount
      <3>3. QED
        BY <1>6, <2>1, <3>1, <3>2
    <2>2. QED
      BY <2>1 DEF ListedAll, Targets, Fresh, SameAccount
  <1>8. QED
    BY <1>1, <1>7 DEF StopInv

\* When a request to stop all machines is answered, none of the user's is
\* left, those of given-up launches included, when none of the user's launches
\* gets machines while they are being stopped.
THEOREM StopsAreComplete == Spec /\ []StopsApart => StopLeavesNone
  <1>1. Init => StopInv
    BY FleetInit DEF Init, StopInv, ListedAll, Idle, Doing
  <1>2. StopInv /\ StopsApart /\ [Next]_vars => StopInv'
    BY StopNext
  <1>3. ASSUME StopInv, [Next]_vars, NEW r \in Requests, req[r].pc = "drain", req'[r] = Idle
        PROVE  \A v \in VMs : vm[v].owner = req[r].user => vm[v].state \notin Alive
    <2>1. req'[r] # req[r]
      BY <1>3 DEF Idle, Doing
    <2>2. StopDone(r)
      BY <1>3, <2>1, WhoMoves, PlaceSteps DEF StopInv, FleetInv
    <2>3. \A v \in VMs :
            vm[v].state # "none" /\ vm[v].owner = req[r].user => v \in Targets(req[r].user)
      <3>1. req[r].user \in Prefixed(req[r].user)
        BY <1>3, CoversType, RequestFields DEF StopInv, FleetInv, Prefixed, Owners
      <3>2. QED
        BY <3>1 DEF Targets, Fresh, SameAccount
    <2>4. \A v \in Targets(req[r].user) : vm[v].state = "terminated"
      BY <1>3, <2>2 DEF StopInv, ListedAll, StopDone
    <2>5. QED
      BY <2>3, <2>4 DEF Alive
  <1>4. StopInv /\ [Next]_vars =>
          [\A r \in Requests :
             req[r].pc = "drain" /\ req'[r] = Idle =>
                \A v \in VMs : vm[v].owner = req[r].user => vm[v].state \notin Alive]_vars
    BY <1>3
  <1>5. QED
    BY <1>1, <1>2, <1>4, PTL DEF Spec, StopLeavesNone

-----------------------------------------------------------------------------
(* What requests wait for comes.  Here requests may overlap in any way.    *)

\* A request that has listed machines to stop has listed launched ones, and
\* what it waits for is on its way.
ListedLaunched ==
    \A r \in Requests :
        req[r].pc = "terminate" => \A v \in req[r].left : vm[v].state # "none"

WaitInv == FleetInv /\ ListedLaunched /\ WaitsCanEnd

\* A machine on its way down does not come back.
LEMMA GoneStaysGone ==
    ASSUME FleetInv, [Next]_vars, NEW v \in VMs, vm[v].state \in Gone
    PROVE  vm'[v].state \in Gone
  <1>1. TypeOK'
    BY FleetNext DEF FleetInv
  <1>2. vm'[v].state \in {"none", "pending", "running", "stopping", "terminated"}
    BY <1>1 DEF TypeOK, MachineType
  <1>3. Ages(v)
    BY LaunchedAges DEF Gone
  <1>4. QED
    BY <1>2, <1>3 DEF Ages, Gone, Alive

LEMMA WaitNext == WaitInv /\ [Next]_vars => WaitInv'
  <1> SUFFICES ASSUME WaitInv, [Next]_vars PROVE WaitInv'
    OBVIOUS
  <1>1. FleetInv /\ FleetInv' /\ TypeOK /\ TypeOK'
    BY FleetNext DEF WaitInv, FleetInv
  <1> DEFINE Fits(r) ==
               /\ \A v \in req[r].left :
                    req[r].pc \in {"waitHead", "wait", "terminate"} => vm[v].state # "none"
               /\ \A v \in req[r].left : req[r].pc = "drain" => vm[v].state \in Gone
  <1>2. \A r \in Requests : Fits(r)
    <2>1. TypeOK
      BY <1>1
    <2>2. \A r \in Requests, v \in VMs :
             req[r].pc = "wait" /\ v \in req[r].left => vm[v].state # "none"
      BY DEF WaitInv, FleetInv, LaunchedWorkers
    <2>3. QED
      BY <2>1, <2>2 DEF WaitInv, ListedLaunched, WaitsCanEnd
  <1>3. \A r \in Requests : req[r].left \subseteq VMs /\ req'[r].left \subseteq VMs
    BY <1>1 DEF TypeOK, RequestType
  \* What a request already waited for stays as it was or comes nearer.
  <1>4. ASSUME NEW r \in Requests, req'[r].pc = req[r].pc, req'[r].left = req[r].left
        PROVE  Fits(r)'
    <2>1. ASSUME NEW v \in req[r].left, vm[v].state # "none" PROVE vm'[v].state # "none"
      BY <1>1, <1>3, <2>1, LaunchedAges DEF Ages
    <2>2. ASSUME NEW v \in req[r].left, vm[v].state \in Gone PROVE vm'[v].state \in Gone
      BY <1>1, <1>3, <2>2, GoneStaysGone
    <2>3. QED
      BY <1>2, <1>4, <2>1, <2>2
  \* A request that begins to wait.
  <1>5. ASSUME NEW r \in Requests, UserAsks(r) \/ Handler(r) \/ Build(r)
        PROVE  Fits(r)'
    <2>1. CASE req'[r].pc = "waitHead"
      <3>1. PICK v \in VMs : SpawnHead(r, v)
        BY <1>1, <1>5, <2>1, PlaceSteps
      <3>2. req'[r].left = {v} /\ vm'[v].state = "pending"
        BY <1>1, <3>1, NewHead
      <3>3. QED
        BY <2>1, <3>2
    <2>2. CASE req'[r].pc = "wait"
      BY <1>1, <1>3, <2>2 DEF FleetInv, LaunchedWorkers
    <2>3. CASE req'[r].pc = "terminate"
      <3>1. StopList(r)
        BY <1>1, <1>5, <2>3, PlaceSteps
      <3>2. Targets(req[r].user) # {} /\ GoesTo(r, "terminate", Targets(req[r].user))
        BY <1>1, <2>3, <3>1 DEF StopList, Ends, Idle, Doing, TypeOK
      <3>3. req'[r].left = Targets(req[r].user) /\ vm' = vm
        BY <1>1, <3>1, <3>2 DEF GoesTo, Doing, TypeOK, StopList
      <3>4. QED
        BY <2>3, <3>3 DEF Targets, Fresh
    <2>4. CASE req'[r].pc = "drain"
      <3>1. StopTerminate(r)
        BY <1>1, <1>5, <2>4, PlaceSteps
      <3>2. req[r].pc = "terminate" /\ req'[r].left = req[r].left
        BY <1>1, <3>1 DEF StopTerminate, GoesTo, Doing, TypeOK
      <3>3. ASSUME NEW v \in req[r].left PROVE vm'[v].state \in Gone
        <4>1. v \in VMs /\ vm[v].state # "none"
          BY <1>2, <1>3, <3>2
        <4>2. CASE vm[v].state \in Alive
          BY <3>1, <4>1, <4>2 DEF StopTerminate, Become, Machine, Gone
        <4>3. CASE vm[v].state \in Gone
          BY <1>1, <4>1, <4>3, GoneStaysGone
        <4>4. QED
          BY <1>1, <4>1, <4>2, <4>3 DEF TypeOK, MachineType, Alive, Gone
      <3>4. QED
        BY <2>4, <3>2, <3>3
    <2>5. QED
      BY <2>1, <2>2, <2>3, <2>4
  <1>6. \A r \in Requests : Fits(r)'
    BY <1>1, <1>4, <1>5, WhoMoves
  <1>7. QED
    <2>1. ListedLaunched'
      BY <1>6 DEF ListedLaunched
    <2>2. WaitsCanEnd'
      BY <1>6 DEF WaitsCanEnd
    <2>3. QED
      BY <1>1, <2>1, <2>2 DEF WaitInv

\* No request waits for a machine that was not launched, or for the end of one
\* that was not told to go, however requests overlap.  The wait for machines
\* to go has no deadline of its own.
THEOREM WaitsAreNotVain == Spec => []WaitsCanEnd
  <1>1. Init => WaitInv
    BY FleetInit DEF Init, WaitInv, ListedLaunched, WaitsCanEnd, Idle, Doing
  <1>2. WaitInv => WaitsCanEnd
    BY DEF WaitInv
  <1>3. QED
    BY <1>1, <1>2, WaitNext, PTL DEF Spec

-----------------------------------------------------------------------------
(* Requests that come one at a time overlap in no way at all.              *)

OneAtATime == \A r, q \in Requests : r = q

LEMMA OneAtATimeIsApart == OneAtATime => LaunchesApart /\ StopsApart /\ HeadsNotStopped
  BY DEF OneAtATime, LaunchesApart, StopsApart, HeadsNotStopped

=============================================================================
