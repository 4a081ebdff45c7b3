--------------------------- MODULE CloudFleetProofs ---------------------------
(***************************************************************************)
(* Theorems about CloudFleet, for any sets of machines, users, accounts    *)
(* and requests.                                                           *)
(***************************************************************************)
EXTENDS CloudFleet, FiniteSetTheorems, TLAPS

-----------------------------------------------------------------------------
(* The values that the actions compute have the types they are stored in.  *)

States == {"none", "pending", "running", "stopping", "terminated"}

Places == {"idle", "check", "head", "waitHead", "conf", "spawn", "wait",
           "alarm", "build", "list", "terminate", "drain"}

LEMMA MachineIsTyped ==
    ASSUME NEW state \in States, NEW owner \in Owners, NEW head \in BOOLEAN,
           NEW broker \in Brokers, NEW alarm \in BOOLEAN
    PROVE  Machine(state, owner, head, broker, alarm) \in MachineType
  BY DEF Machine, MachineType, States, Brokers

LEMMA DoingIsTyped ==
    ASSUME NEW pc \in Places, NEW user \in Owners, NEW asked \in Int, NEW want \in Int,
           NEW mine \in SUBSET VMs, NEW left \in SUBSET VMs, NEW broker \in Brokers
    PROVE  Doing(pc, user, asked, want, mine, left, broker) \in RequestType
  BY DEF Doing, RequestType, Places, Brokers

LEMMA IdleIsTyped == Idle \in RequestType
  BY DoingIsTyped DEF Idle, Places, Owners, Brokers

\* The fields of a machine and of a request.
LEMMA MachineFields ==
    ASSUME TypeOK, NEW v \in VMs
    PROVE  /\ vm[v].state \in States /\ vm[v].owner \in Owners /\ vm[v].head \in BOOLEAN
           /\ vm[v].broker \in Brokers /\ vm[v].alarm \in BOOLEAN
  BY DEF TypeOK, MachineType, States, Brokers

LEMMA RequestFields ==
    ASSUME TypeOK, NEW r \in Requests
    PROVE  /\ req[r].pc \in Places /\ req[r].user \in Owners /\ req[r].asked \in Int
           /\ req[r].want \in Int /\ req[r].mine \subseteq VMs /\ req[r].left \subseteq VMs
           /\ req[r].broker \in Brokers
  BY DEF TypeOK, RequestType, Places, Brokers

-----------------------------------------------------------------------------
(* What the ways to change the machines and the requests do.               *)

\* Machines that go to another state keep everything else.
LEMMA BecomeKeeps ==
    ASSUME TypeOK, NEW S \in SUBSET VMs, NEW state \in States, Become(S, state)
    PROVE  /\ vm' \in [VMs -> MachineType]
           /\ \A v \in VMs : /\ vm'[v].head = vm[v].head
                             /\ vm'[v].alarm = vm[v].alarm
                             /\ vm'[v].state = IF v \in S THEN state ELSE vm[v].state
  <1>1. \A v \in VMs : Machine(state, vm[v].owner, vm[v].head, vm[v].broker, vm[v].alarm)
                         \in MachineType
    BY MachineFields, MachineIsTyped
  <1>2. vm' \in [VMs -> MachineType]
    BY <1>1 DEF Become, TypeOK
  <1>3. QED
    BY <1>2 DEF Become, Machine

LEMMA GoesToKeeps ==
    ASSUME TypeOK, NEW r \in Requests, NEW pc \in Places, NEW left \in SUBSET VMs,
           GoesTo(r, pc, left)
    PROVE  /\ req' \in [Requests -> RequestType]
           /\ \A q \in Requests \ {r} : req'[q] = req[q]
           /\ req'[r].pc = pc /\ req'[r].left = left
  <1>1. Doing(pc, req[r].user, req[r].asked, req[r].want, req[r].mine, left, req[r].broker)
          \in RequestType
    BY RequestFields, DoingIsTyped
  <1>2. QED
    BY <1>1 DEF GoesTo, Doing, TypeOK

LEMMA EndsKeeps ==
    ASSUME TypeOK, NEW r \in Requests, Ends(r)
    PROVE  /\ req' \in [Requests -> RequestType]
           /\ \A q \in Requests \ {r} : req'[q] = req[q]
           /\ req'[r].pc = "idle"
  BY IdleIsTyped DEF Ends, TypeOK, Idle, Doing

-----------------------------------------------------------------------------
(* The inductive invariant.                                                *)

\* No queue head has an alarm.
HeadsUnalarmed == \A v \in VMs : vm[v].head => ~vm[v].alarm

\* What a launch waits for, sets alarms on, or cleans up is a launched worker.
LaunchedWorkers ==
    \A r \in Requests :
        req[r].pc \in {"wait", "alarm"} =>
            \A v \in req[r].left : vm[v].state # "none" /\ ~vm[v].head

FleetInv == TypeOK /\ HeadsUnalarmed /\ LaunchedWorkers

LEMMA FleetInit == Init => FleetInv
  <1> SUFFICES ASSUME Init PROVE FleetInv
    OBVIOUS
  <1>1. Unused \in MachineType
    BY MachineIsTyped DEF Unused, States, Owners, Brokers
  <1>2. TypeOK
    BY <1>1, IdleIsTyped DEF Init, TypeOK, Brokers
  <1>3. HeadsUnalarmed
    BY DEF Init, HeadsUnalarmed, Unused, Machine
  <1>4. LaunchedWorkers
    BY DEF Init, LaunchedWorkers, Idle, Doing
  <1>5. QED
    BY <1>2, <1>3, <1>4 DEF FleetInv

\* A step that leaves the machines alone and moves one request, to a place
\* where it waits for the workers it has launched or for nothing.
LEMMA RequestStep ==
    ASSUME FleetInv, NEW r \in Requests, UNCHANGED vm,
           conf' \in Brokers,
           req' \in [Requests -> RequestType],
           \A q \in Requests \ {r} : req'[q] = req[q],
           req'[r].pc \in {"wait", "alarm"} =>
               \A v \in req'[r].left : vm[v].state # "none" /\ ~vm[v].head
    PROVE  FleetInv'
  BY DEF FleetInv, TypeOK, HeadsUnalarmed, LaunchedWorkers, Brokers

\* A step that only moves machines between the states of launched machines.
LEMMA MovingStep ==
    ASSUME FleetInv, NEW S \in SUBSET VMs, NEW state \in States \ {"none"}, Become(S, state),
           UNCHANGED conf, NEW r \in Requests,
           req' \in [Requests -> RequestType],
           \A q \in Requests \ {r} : req'[q] = req[q],
           req'[r].pc \in {"wait", "alarm"} =>
               \A v \in req'[r].left : vm[v].state # "none" /\ ~vm[v].head
    PROVE  FleetInv'
  <1> USE DEF FleetInv
  <1>1. /\ vm' \in [VMs -> MachineType]
        /\ \A v \in VMs : /\ vm'[v].head = vm[v].head
                          /\ vm'[v].alarm = vm[v].alarm
                          /\ vm'[v].state = IF v \in S THEN state ELSE vm[v].state
    <2>1. TypeOK /\ state \in States
      OBVIOUS
    <2>2. QED
      BY <2>1, BecomeKeeps
  <1>2. TypeOK'
    BY <1>1 DEF TypeOK
  <1>3. HeadsUnalarmed'
    BY <1>1 DEF HeadsUnalarmed
  <1>4. \A q \in Requests : req'[q].left \subseteq VMs
    BY <1>2 DEF TypeOK, RequestType
  <1>5. LaunchedWorkers'
    BY <1>1, <1>4 DEF LaunchedWorkers
  <1>6. QED
    BY <1>2, <1>3, <1>5

-----------------------------------------------------------------------------
(* Every step preserves it.                                                *)

LEMMA AskSteps ==
    ASSUME FleetInv, NEW r \in Requests, UserAsks(r)
    PROVE  FleetInv'
  <1>1. ASSUME NEW u \in Owners, NEW pc \in {"check", "list"}, NEW n \in Int,
               req' = [req EXCEPT ![r] = Doing(pc, u, n, n, {}, {}, Localhost)],
               UNCHANGED <<vm, conf>>
        PROVE  FleetInv'
    <2>1. Doing(pc, u, n, n, {}, {}, Localhost) \in RequestType
      BY <1>1, DoingIsTyped DEF Places, Brokers
    <2>2. /\ req' \in [Requests -> RequestType]
          /\ \A q \in Requests \ {r} : req'[q] = req[q]
          /\ req'[r].pc = pc
      BY <1>1, <2>1 DEF FleetInv, TypeOK, Doing
    <2>3. conf' \in Brokers
      BY <1>1 DEF FleetInv, TypeOK, Brokers
    <2>4. QED
      BY <1>1, <2>2, <2>3, RequestStep
  <1>2. CASE \E u \in Users : AskStop(r, u)
    <2>1. PICK u \in Users : AskStop(r, u)
      BY <1>2
    <2>2. u \in Owners /\ 0 \in Int
      BY DEF Owners
    <2>3. QED
      BY <1>1, <2>1, <2>2 DEF AskStop
  <1>3. CASE \E u \in Users : \E n \in Counts : AskStart(r, u, n)
    BY <1>1, <1>3, CountsType DEF AskStart, Owners
  <1>4. CASE AskBuild(r)
    <2>1. Builder \in Owners /\ 1 \in Int
      BY DEF Owners
    <2>2. QED
      BY <1>1, <1>4, <2>1 DEF AskBuild
  <1>5. QED
    BY <1>2, <1>3, <1>4 DEF UserAsks

\* Steps of a handler that only move its request.
LEMMA QuietSteps ==
    ASSUME FleetInv, NEW r \in Requests,
           \/ CheckHead(r) \/ ReadConf(r) \/ WorkersUp(r) \/ LaunchDone(r)
           \/ Refused(r) \/ AlarmRaises(r) \/ Build(r)
           \/ StopList(r) \/ StopDone(r)
           \/ \E v \in VMs : HeadUp(r, v) \/ HeadLate(r, v)
    PROVE  FleetInv'
  <1>1. TypeOK
    BY DEF FleetInv
  <1>2. /\ req[r].left \subseteq VMs /\ req[r].user \in Owners /\ conf \in Brokers
        /\ \A n : Rest(n) \in {"conf", "alarm"}
    BY <1>1, RequestFields DEF TypeOK, Brokers, Rest
  <1>3. CASE Ends(r) /\ UNCHANGED <<vm, conf>>
    BY <1>1, <1>2, <1>3, EndsKeeps, RequestStep
  <1>4. ASSUME NEW pc \in Places \ {"wait"}, NEW left \in SUBSET VMs,
               pc = "alarm" => left = {},
               GoesTo(r, pc, left), UNCHANGED <<vm, conf>>
        PROVE  FleetInv'
    <2>1. /\ req' \in [Requests -> RequestType]
          /\ \A q \in Requests \ {r} : req'[q] = req[q]
          /\ req'[r].pc = pc /\ req'[r].left = left
      BY <1>1, <1>4, GoesToKeeps
    <2>2. QED
      BY <1>2, <1>4, <2>1, RequestStep
  <1>5. CASE CheckHead(r)
    BY <1>2, <1>4, <1>5 DEF CheckHead, Places
  <1>6. CASE ReadConf(r)
    <2>1. Doing("spawn", req[r].user, req[r].asked, req[r].want, req[r].mine, {}, conf)
            \in RequestType
      BY <1>1, <1>2, RequestFields, DoingIsTyped DEF Places
    <2>2. /\ req' \in [Requests -> RequestType]
          /\ \A q \in Requests \ {r} : req'[q] = req[q]
          /\ req'[r].pc = "spawn"
      BY <1>1, <1>6, <2>1 DEF ReadConf, TypeOK, Doing
    <2>3. QED
      BY <1>2, <1>6, <2>2, RequestStep DEF ReadConf
  <1>7. CASE WorkersUp(r)
    <2>1. /\ req' \in [Requests -> RequestType]
          /\ \A q \in Requests \ {r} : req'[q] = req[q]
          /\ req'[r].pc = "alarm" /\ req'[r].left = req[r].left
      BY <1>1, <1>2, <1>7, GoesToKeeps DEF WorkersUp, Places
    <2>2. \A v \in req'[r].left : vm[v].state # "none" /\ ~vm[v].head
      BY <1>7, <2>1 DEF WorkersUp, FleetInv, LaunchedWorkers
    <2>3. QED
      BY <1>2, <1>7, <2>1, <2>2, RequestStep DEF WorkersUp
  <1>8. CASE LaunchDone(r)
    BY <1>2, <1>3, <1>4, <1>8 DEF LaunchDone, Places
  <1>9. CASE Build(r)
    BY <1>2, <1>3, <1>4, <1>9 DEF Build, Places
  <1>10. CASE StopList(r)
    <2>1. Targets(req[r].user) \subseteq VMs
      BY DEF Targets
    <2>2. QED
      BY <1>3, <1>4, <1>10, <2>1 DEF StopList, Places
  <1>11. CASE \E v \in VMs : HeadUp(r, v)
    <2>1. PICK v \in VMs : HeadUp(r, v)
      BY <1>11
    <2>2. Doing(Rest(req[r].want - 1), req[r].user, req[r].asked, req[r].want - 1,
                req[r].mine, {}, req[r].broker) \in RequestType
      <3>1. req[r].want - 1 \in Int
        BY <1>1, RequestFields
      <3>2. Rest(req[r].want - 1) \in Places
        BY <1>2 DEF Places
      <3>3. QED
        BY <1>1, <3>1, <3>2, RequestFields, DoingIsTyped
    <2>3. /\ req' \in [Requests -> RequestType]
          /\ \A q \in Requests \ {r} : req'[q] = req[q]
          /\ req'[r].left = {}
      BY <1>1, <2>1, <2>2 DEF HeadUp, TypeOK, Doing
    <2>4. QED
      BY <2>1, <2>3, RequestStep DEF HeadUp, Brokers
  <1>12. QED
    BY <1>3, <1>5, <1>6, <1>7, <1>8, <1>9, <1>10, <1>11
       DEF Refused, AlarmRaises, StopDone, HeadLate

\* A launch gives no request a queue head to wait for: the machines that
\* others wait for are launched already.
LEMMA LaunchSteps ==
    ASSUME FleetInv, NEW r \in Requests,
           \/ \E v \in VMs : SpawnHead(r, v)
           \/ \E S \in SUBSET VMs : SpawnWorkers(r, S)
    PROVE  FleetInv'
  <1>1. TypeOK
    BY DEF FleetInv
  <1>2. ASSUME NEW S \in SUBSET VMs, NEW head \in BOOLEAN, NEW broker \in Brokers,
               NEW pc \in {"waitHead", "wait"},
               NEW want \in Int, NEW mine \in SUBSET VMs,
               S \subseteq Fresh, pc = "wait" => ~head,
               Launch(S, req[r].user, head, broker),
               req' = [req EXCEPT ![r] = Doing(pc, @.user, @.asked, want, mine, S, @.broker)],
               UNCHANGED conf
        PROVE  FleetInv'
    <2>1. /\ vm' \in [VMs -> MachineType]
          /\ \A v \in VMs \ S : vm'[v] = vm[v]
          /\ \A v \in S : /\ vm'[v].head = head
                          /\ vm'[v].alarm = FALSE
                          /\ vm'[v].state = "pending"
      <3>1. req[r].user \in Owners
        BY <1>1, RequestFields
      <3>2. Machine("pending", req[r].user, head, broker, FALSE) \in MachineType
        BY <1>2, <3>1, MachineIsTyped DEF States
      <3>3. QED
        BY <1>1, <1>2, <3>2 DEF Launch, Machine, TypeOK
    <2>2. Doing(pc, req[r].user, req[r].asked, want, mine, S, req[r].broker) \in RequestType
      BY <1>1, <1>2, RequestFields, DoingIsTyped DEF Places
    <2>3. /\ req' \in [Requests -> RequestType]
          /\ \A q \in Requests \ {r} : req'[q] = req[q]
          /\ req'[r].pc = pc /\ req'[r].left = S
      BY <1>1, <1>2, <2>2 DEF TypeOK, Doing
    <2>4. TypeOK'
      BY <1>1, <1>2, <2>1, <2>3 DEF TypeOK
    <2>5. HeadsUnalarmed'
      BY <2>1 DEF FleetInv, HeadsUnalarmed
    <2>6. ASSUME NEW q \in Requests, req'[q].pc \in {"wait", "alarm"}, NEW v \in req'[q].left
          PROVE  vm'[v].state # "none" /\ ~vm'[v].head
      <3>1. CASE q = r
        BY <1>2, <2>1, <2>3, <2>6, <3>1
      <3>2. CASE q # r
        <4>1. v \in VMs /\ vm[v].state # "none" /\ ~vm[v].head
          BY <1>1, <2>3, <2>6, <3>2, RequestFields DEF FleetInv, LaunchedWorkers
        <4>2. v \notin S
          BY <1>2, <4>1 DEF Fresh
        <4>3. QED
          BY <2>1, <4>1, <4>2
      <3>3. QED
        BY <3>1, <3>2
    <2>7. QED
      BY <2>4, <2>5, <2>6 DEF FleetInv, LaunchedWorkers
  <1>3. CASE \E v \in VMs : SpawnHead(r, v)
    <2>1. PICK v \in VMs : SpawnHead(r, v)
      BY <1>3
    <2>2. /\ {v} \subseteq Fresh /\ v \in Brokers /\ {v} \in SUBSET VMs
          /\ req[r].want \in Int
      BY <1>1, <2>1, RequestFields DEF SpawnHead, Brokers
    <2>3. /\ Launch({v}, req[r].user, TRUE, v)
          /\ req' = [req EXCEPT ![r] =
                        Doing("waitHead", @.user, @.asked, req[r].want, {v}, {v}, @.broker)]
          /\ UNCHANGED conf
      BY <2>1 DEF SpawnHead
    <2>4. QED
      BY <1>2, <2>2, <2>3
  <1>4. CASE \E S \in SUBSET VMs : SpawnWorkers(r, S)
    <2>1. PICK S \in SUBSET VMs : SpawnWorkers(r, S)
      BY <1>4
    <2>2. req[r].mine \cup S \in SUBSET VMs /\ req[r].broker \in Brokers /\ 0 \in Int
      BY <1>1, RequestFields
    <2>3. /\ S \subseteq Fresh
          /\ Launch(S, req[r].user, FALSE, req[r].broker)
          /\ req' = [req EXCEPT ![r] =
                        Doing("wait", @.user, @.asked, 0, req[r].mine \cup S, S, @.broker)]
          /\ UNCHANGED conf
      BY <2>1 DEF SpawnWorkers
    <2>4. QED
      BY <1>2, <2>2, <2>3
  <1>5. QED
    BY <1>3, <1>4

\* Alarms are only set on workers.
LEMMA AlarmStep ==
    ASSUME FleetInv, NEW r \in Requests, NEW v \in VMs, SetAlarm(r, v)
    PROVE  FleetInv'
  <1>1. TypeOK /\ v \in req[r].left /\ req[r].pc = "alarm" /\ ~vm[v].head
    BY DEF FleetInv, SetAlarm, LaunchedWorkers
  <1>2. Machine(vm[v].state, vm[v].owner, vm[v].head, vm[v].broker, TRUE) \in MachineType
    BY <1>1, MachineFields, MachineIsTyped
  <1>3. /\ vm' \in [VMs -> MachineType]
        /\ \A w \in VMs : /\ vm'[w].state = vm[w].state
                          /\ vm'[w].head = vm[w].head
                          /\ w # v => vm'[w].alarm = vm[w].alarm
    BY <1>1, <1>2 DEF SetAlarm, Machine, TypeOK
  <1>4. /\ req' \in [Requests -> RequestType]
        /\ \A q \in Requests \ {r} : req'[q] = req[q]
        /\ req'[r].left \subseteq req[r].left
    <2>1. req[r].left \ {v} \in SUBSET VMs
      BY <1>1, RequestFields
    <2>2. GoesTo(r, "alarm", req[r].left \ {v})
      BY DEF SetAlarm
    <2>3. QED
      BY <1>1, <2>1, <2>2, GoesToKeeps DEF Places
  <1>5. TypeOK'
    BY <1>1, <1>3, <1>4 DEF SetAlarm, TypeOK
  <1>6. HeadsUnalarmed'
    BY <1>1, <1>3 DEF FleetInv, HeadsUnalarmed
  <1>7. ASSUME NEW q \in Requests, req'[q].pc \in {"wait", "alarm"}, NEW w \in req'[q].left
        PROVE  vm'[w].state # "none" /\ ~vm'[w].head
    <2>1. w \in req[q].left /\ req[q].pc \in {"wait", "alarm"}
      BY <1>1, <1>4, <1>7
    <2>2. w \in VMs /\ vm[w].state # "none" /\ ~vm[w].head
      BY <1>1, <2>1, RequestFields DEF FleetInv, LaunchedWorkers
    <2>3. QED
      BY <1>3, <2>2
  <1>8. QED
    BY <1>5, <1>6, <1>7 DEF FleetInv, LaunchedWorkers

\* Steps that move machines between states.
LEMMA StateSteps ==
    ASSUME FleetInv, NEW r \in Requests, WorkersLate(r) \/ StopTerminate(r)
    PROVE  FleetInv'
  <1>1. TypeOK /\ req[r].left \in SUBSET VMs /\ "stopping" \in States \ {"none"}
    BY RequestFields DEF FleetInv, States
  <1>2. CASE WorkersLate(r)
    <2> DEFINE up == {v \in req[r].left : Up(v)}
    <2>1. up \in SUBSET VMs
      BY <1>1
    <2>2. CASE up = {}
      BY <1>1, <1>2, <2>2, EndsKeeps, RequestStep DEF WorkersLate, TypeOK, Brokers
    <2>3. CASE up # {}
      <3>1. PICK lost \in SUBSET up : Become(lost, "stopping")
        BY <1>2, <2>3 DEF WorkersLate
      <3>2. GoesTo(r, "alarm", up) /\ UNCHANGED conf
        BY <1>2, <2>3 DEF WorkersLate
      <3>3. /\ req' \in [Requests -> RequestType]
            /\ \A q \in Requests \ {r} : req'[q] = req[q]
            /\ req'[r].left = up
        BY <1>1, <2>1, <3>2, GoesToKeeps DEF Places
      <3>4. \A v \in up : vm[v].state # "none" /\ ~vm[v].head
        BY <1>2 DEF WorkersLate, FleetInv, LaunchedWorkers
      <3>5. lost \in SUBSET VMs
        BY <2>1, <3>1
      <3>6. QED
        BY <1>1, <3>1, <3>2, <3>3, <3>4, <3>5, MovingStep
    <2>4. QED
      BY <2>2, <2>3
  <1>3. CASE StopTerminate(r)
    <2>1. /\ req' \in [Requests -> RequestType]
          /\ \A q \in Requests \ {r} : req'[q] = req[q]
          /\ req'[r].pc = "drain"
      BY <1>1, <1>3, GoesToKeeps DEF StopTerminate, Places
    <2>2. {v \in req[r].left : vm[v].state \in Alive} \in SUBSET VMs
      BY <1>1
    <2>3. QED
      BY <1>1, <1>3, <2>1, <2>2, MovingStep DEF StopTerminate
  <1>4. QED
    BY <1>2, <1>3

LEMMA EC2Steps ==
    ASSUME FleetInv, NEW v \in VMs, EC2(v) \/ Sleepy(v)
    PROVE  FleetInv'
  <1>1. PICK state \in States \ {"none"} : Become({v}, state)
    BY DEF EC2, Boot, Halt, Sleepy, States
  <1>2. TypeOK /\ UNCHANGED <<conf, req>>
    BY DEF FleetInv, EC2, Boot, Halt, Sleepy
  <1>3. /\ vm' \in [VMs -> MachineType]
        /\ \A w \in VMs : /\ vm'[w].head = vm[w].head
                          /\ vm'[w].alarm = vm[w].alarm
                          /\ vm'[w].state = IF w \in {v} THEN state ELSE vm[w].state
    <2>1. state \in States /\ {v} \in SUBSET VMs
      OBVIOUS
    <2>2. QED
      BY <1>1, <1>2, <2>1, BecomeKeeps
  <1>4. TypeOK'
    BY <1>2, <1>3 DEF TypeOK
  <1>5. HeadsUnalarmed'
    BY <1>3 DEF FleetInv, HeadsUnalarmed
  <1>6. LaunchedWorkers'
    BY <1>2, <1>3, RequestFields DEF FleetInv, LaunchedWorkers
  <1>7. QED
    BY <1>4, <1>5, <1>6 DEF FleetInv

LEMMA FleetNext == FleetInv /\ [Next]_vars => FleetInv'
  <1> SUFFICES ASSUME FleetInv, [Next]_vars PROVE FleetInv'
    OBVIOUS
  <1>1. CASE UNCHANGED vars
    BY <1>1 DEF FleetInv, TypeOK, HeadsUnalarmed, LaunchedWorkers, vars
  <1>2. CASE \E r \in Requests : UserAsks(r) \/ Handler(r) \/ Build(r)
    <2>1. PICK r \in Requests : UserAsks(r) \/ Handler(r) \/ Build(r)
      BY <1>2
    <2>2. QED
      BY <2>1, AskSteps, QuietSteps, LaunchSteps, AlarmStep, StateSteps
         DEF Handler, Start, Stop
  <1>3. CASE \E v \in VMs : EC2(v) \/ Sleepy(v)
    BY <1>3, EC2Steps
  <1>4. QED
    BY <1>1, <1>2, <1>3 DEF Next

-----------------------------------------------------------------------------
(* The theorems.                                                           *)

\* Every variable of the fleet keeps its type.
THEOREM FleetTypeCorrect == Spec => []TypeOK
  <1>1. FleetInv => TypeOK
    BY DEF FleetInv
  <1>2. QED
    BY <1>1, FleetInit, FleetNext, PTL DEF Spec

\* A step that takes a queue head down takes one that a request to stop
\* machines has listed.
LEMMA HeadGoesDown ==
    ASSUME FleetInv, [Next]_vars, NEW v \in VMs,
           vm[v].head, vm[v].state \in Alive, vm'[v].state \notin Alive
    PROVE  \E r \in Requests : req[r].pc = "terminate" /\ v \in req[r].left
  <1>1. TypeOK
    BY DEF FleetInv
  <1>2. ASSUME NEW r \in Requests, StopTerminate(r)
        PROVE  v \in req[r].left /\ req[r].pc = "terminate"
    BY <1>1, <1>2 DEF StopTerminate, Become
  <1>3. ASSUME NEW r \in Requests, WorkersLate(r)
        PROVE  FALSE
    <2>1. \A w \in req[r].left : ~vm[w].head
      BY <1>3 DEF WorkersLate, FleetInv, LaunchedWorkers
    <2>2. v \notin req[r].left
      BY <2>1
    <2>3. vm' = vm \/ \E lost \in SUBSET req[r].left : Become(lost, "stopping")
      BY <1>3 DEF WorkersLate
    <2>4. vm'[v] = vm[v]
      BY <2>2, <2>3 DEF Become
    <2>5. QED
      BY <2>4
  <1>4. ASSUME NEW r \in Requests, NEW S \in SUBSET VMs, NEW owner, NEW head, NEW broker,
               S \subseteq Fresh, Launch(S, owner, head, broker)
        PROVE  vm'[v] = vm[v]
    BY <1>4 DEF Launch, Fresh, Alive
  <1>5. ASSUME NEW r \in Requests, \E w \in VMs : SpawnHead(r, w)
        PROVE  FALSE
    <2>1. PICK w \in VMs : SpawnHead(r, w)
      BY <1>5
    <2>2. {w} \in SUBSET VMs /\ {w} \subseteq Fresh /\ Launch({w}, req[r].user, TRUE, w)
      BY <2>1 DEF SpawnHead
    <2>3. QED
      BY <1>4, <2>2
  <1>6. ASSUME NEW r \in Requests, \E S \in SUBSET VMs : SpawnWorkers(r, S)
        PROVE  FALSE
    BY <1>4, <1>6 DEF SpawnWorkers
  <1>7. ASSUME NEW r \in Requests, NEW w \in VMs, SetAlarm(r, w)
        PROVE  FALSE
    BY <1>1, <1>7 DEF SetAlarm, Machine, TypeOK
  <1>8. ASSUME NEW w \in VMs, EC2(w) \/ Sleepy(w)
        PROVE  FALSE
    <2>1. CASE Boot(w)
      BY <2>1 DEF Boot, Become, Machine, Alive
    <2>2. CASE Halt(w)
      BY <2>2 DEF Halt, Become, Alive
    <2>3. CASE Sleepy(w)
      BY <2>3 DEF Sleepy, Become, FleetInv, HeadsUnalarmed
    <2>4. QED
      BY <1>8, <2>1, <2>2, <2>3 DEF EC2
  <1>9. ASSUME UNCHANGED vm
        PROVE  FALSE
    BY <1>9
  <1>10. CASE UNCHANGED vars
    BY <1>9, <1>10 DEF vars
  <1>11. CASE \E w \in VMs : EC2(w) \/ Sleepy(w)
    BY <1>8, <1>11
  <1>12. CASE \E r \in Requests : UserAsks(r) \/ Handler(r) \/ Build(r)
    <2>1. PICK r \in Requests : UserAsks(r) \/ Handler(r) \/ Build(r)
      BY <1>12
    <2>2. CASE UserAsks(r)
      BY <1>9, <2>2 DEF UserAsks, AskStop, AskStart, AskBuild
    <2>3. CASE Start(r)
      BY <1>3, <1>5, <1>6, <1>7, <1>9, <2>3
         DEF Start, CheckHead, ReadConf, WorkersUp, LaunchDone, HeadUp, HeadLate
    <2>4. CASE Stop(r)
      BY <1>2, <1>9, <2>4 DEF Stop, StopList, StopDone
    <2>5. CASE Refused(r) \/ AlarmRaises(r) \/ Build(r)
      BY <1>9, <2>5 DEF Refused, AlarmRaises, Build
    <2>6. QED
      BY <2>1, <2>2, <2>3, <2>4, <2>5 DEF Handler
  <1>13. QED
    BY <1>10, <1>11, <1>12 DEF Next

\* Nothing but a request to stop machines stops a queue head: neither the
\* alarms that terminate idle workers nor the clean-up of a late launch.
THEOREM QueueHeadsStayUp == Spec => HeadsStayUp
  <1>1. FleetInv /\ [Next]_vars =>
          [\A v \in VMs :
             vm[v].head /\ vm[v].state \in Alive /\ vm'[v].state \notin Alive =>
                \E r \in Requests : req[r].pc = "terminate" /\ v \in req[r].left]_vars
    BY HeadGoesDown
  <1>2. QED
    BY <1>1, FleetInit, FleetNext, PTL DEF Spec, HeadsStayUp

-----------------------------------------------------------------------------
(* A launch that is answered has launched as many machines as were asked   *)
(* for, or a queue head.                                                   *)

\* How many machines a launch has and how many it wants, at each of its steps.
\* One that is asked for less than one machine launches a queue head or nothing.
Tally(d) ==
    /\ d.pc \in {"check", "head"} => d.mine = {} /\ d.want = d.asked
    /\ d.pc = "waitHead" => Cardinality(d.mine) = 1 /\ d.want = d.asked
    /\ d.pc \in {"conf", "spawn"} => d.want > 0 /\ Cardinality(d.mine) + d.want = d.asked
    /\ d.pc = "wait" => d.asked > 0 /\ Cardinality(d.mine) = d.asked
    /\ d.pc = "alarm" => IF d.asked > 0 THEN Cardinality(d.mine) = d.asked
                         ELSE Cardinality(d.mine) <= 1

\* A machine of a launch is not among those that EC2 has still to launch, and a
\* queue head if no machine was asked for.
Mine(d, v) == vm[v].state # "none" /\ (d.asked > 0 \/ vm[v].head)

MineAreLaunched ==
    \A r \in Requests : \A v \in req[r].mine : Mine(req[r], v)

CountInv ==
    FleetInv /\ MineAreLaunched /\ \A r \in Requests : Tally(req[r])

\* A machine that EC2 has launched is never launched again, and stays a queue
\* head if it is one.
LEMMA StaysLaunched ==
    ASSUME FleetInv, [Next]_vars, NEW v \in VMs, vm[v].state # "none"
    PROVE  vm'[v].state # "none" /\ vm'[v].head = vm[v].head
  <1> DEFINE Stays == vm'[v].state # "none" /\ vm'[v].head = vm[v].head
  <1>1. TypeOK
    BY DEF FleetInv
  <1>2. ASSUME NEW S, NEW state \in States \ {"none"}, Become(S, state)
        PROVE  Stays
    BY <1>2 DEF Become, Machine
  <1>3. ASSUME NEW S, NEW owner, NEW head, NEW broker, S \subseteq Fresh,
               Launch(S, owner, head, broker)
        PROVE  Stays
    BY <1>3 DEF Launch, Fresh
  <1>4. CASE UNCHANGED vm
    BY <1>4
  <1>5. CASE \E w \in VMs : EC2(w) \/ Sleepy(w)
    BY <1>2, <1>5 DEF EC2, Boot, Halt, Sleepy, States
  <1>6. ASSUME NEW r \in Requests, UserAsks(r) \/ Handler(r) \/ Build(r)
        PROVE  Stays
    <2>1. ASSUME NEW w \in VMs, SetAlarm(r, w) PROVE Stays
      BY <1>1, <2>1 DEF SetAlarm, Machine, TypeOK
    <2>2. CASE WorkersLate(r)
      BY <1>2, <1>4, <2>2 DEF WorkersLate, States
    <2>3. CASE StopTerminate(r)
      BY <1>2, <2>3 DEF StopTerminate, States
    <2>4. ASSUME NEW w \in VMs, SpawnHead(r, w) PROVE Stays
      <3>1. w # v
        BY <2>4 DEF SpawnHead, Fresh
      <3>2. vm'[v] = vm[v]
        BY <2>4, <3>1 DEF SpawnHead, Launch
      <3>3. QED
        BY <3>2
    <2>5. ASSUME NEW S \in SUBSET VMs, SpawnWorkers(r, S) PROVE Stays
      BY <1>3, <2>5 DEF SpawnWorkers
    <2>6. QED
      BY <1>4, <1>6, <2>1, <2>2, <2>3, <2>4, <2>5
         DEF UserAsks, AskStop, AskStart, AskBuild, Handler, Start, Stop, CheckHead, ReadConf,
             WorkersUp, LaunchDone, HeadUp, HeadLate, Refused, AlarmRaises, Build, StopList,
             StopDone
  <1>7. QED
    BY <1>4, <1>5, <1>6 DEF Next, vars

\* The steps of one request leave the others alone.
LEMMA OneRequestMoves ==
    ASSUME TypeOK, NEW r \in Requests, UserAsks(r) \/ Handler(r) \/ Build(r), NEW q \in Requests, q # r
    PROVE  req'[q] = req[q]
  BY DEF TypeOK, UserAsks, AskStop, AskStart, AskBuild, Handler, Start, Stop, CheckHead,
         SpawnHead, HeadUp, HeadLate, ReadConf, SpawnWorkers, Refused, WorkersUp, WorkersLate,
         SetAlarm, AlarmRaises, LaunchDone, Build, StopList, StopTerminate, StopDone, GoesTo,
         Ends

\* Requests that do not launch machines, and launches that are over.
LEMMA NothingToCount ==
    /\ Tally(Idle) /\ Idle.mine = {}
    /\ \A pc, u, a, w, m, l, b :
         pc \in {"build", "list", "terminate", "drain"} => Tally(Doing(pc, u, a, w, m, l, b))
  BY DEF Tally, Idle, Doing

\* The step of a request keeps its own count.
LEMMA CountStep ==
    ASSUME CountInv, NEW r \in Requests, UserAsks(r) \/ Handler(r) \/ Build(r)
    PROVE  /\ Tally(req'[r])
           /\ \A v \in req'[r].mine :
                \/ v \in req[r].mine /\ req'[r].asked = req[r].asked
                \/ Mine(req[r], v)'
  <1> DEFINE d == req[r]
             Kept(pc, left) == Doing(pc, d.user, d.asked, d.want, d.mine, left, d.broker)
             Goal == /\ Tally(req'[r])
                     /\ \A v \in req'[r].mine :
                          \/ v \in d.mine /\ req'[r].asked = d.asked
                          \/ Mine(req[r], v)'
  <1>1. /\ TypeOK /\ r \in DOMAIN req /\ Tally(d)
        /\ d.pc \in Places /\ d.asked \in Int /\ d.want \in Int /\ d.mine \subseteq VMs
    BY RequestFields DEF CountInv, FleetInv, TypeOK
  <1>2. IsFiniteSet(d.mine) /\ Cardinality(d.mine) \in Nat
    BY <1>1, VMsFinite, FS_Subset, FS_CardinalityType
  <1>3. CASE Ends(r)
    BY <1>1, <1>3, NothingToCount DEF Ends, Idle, Doing
  <1>4. ASSUME NEW pc, NEW left, GoesTo(r, pc, left) PROVE req'[r] = Kept(pc, left)
    BY <1>1, <1>4 DEF GoesTo
  <1>5. ASSUME NEW pc \in {"build", "list", "terminate", "drain"}, NEW left, GoesTo(r, pc, left)
        PROVE  Goal
    <2>1. req'[r] = Kept(pc, left)
      BY <1>4, <1>5
    <2>2. Tally(Kept(pc, left))
      BY <1>5, NothingToCount
    <2>3. QED
      BY <2>1, <2>2 DEF Doing
  <1>6. CASE \E u \in Users : AskStop(r, u)
    BY <1>1, <1>6, NothingToCount DEF AskStop, Doing
  <1>7. CASE (\E u \in Users : \E n \in Counts : AskStart(r, u, n)) \/ AskBuild(r)
    BY <1>1, <1>7 DEF AskStart, AskBuild, Doing, Tally
  <1>8. CASE CheckHead(r)
    <2>1. req'[r] = Kept(Rest(d.want), {}) \/ req'[r] = Kept("head", {})
      BY <1>4, <1>8 DEF CheckHead
    <2>2. d.mine = {} /\ d.want = d.asked
      BY <1>1, <1>8 DEF CheckHead, Tally
    <2>3. QED
      BY <1>1, <2>1, <2>2, FS_EmptySet DEF Rest, Doing, Tally
  <1>9. ASSUME NEW v \in VMs, SpawnHead(r, v)
        PROVE  Goal
    <2>1. req'[r] = Doing("waitHead", d.user, d.asked, d.want, {v}, {v}, d.broker)
      BY <1>1, <1>9 DEF SpawnHead
    <2>2. d.want = d.asked
      BY <1>1, <1>9 DEF SpawnHead, Tally
    <2>3. vm'[v].state # "none" /\ vm'[v].head
      BY <1>9 DEF SpawnHead, Launch, Machine
    <2>4. QED
      BY <2>1, <2>2, <2>3, FS_Singleton DEF Doing, Tally, Mine
  <1>10. ASSUME NEW v \in VMs, HeadUp(r, v)
         PROVE  Goal
    <2>1. req'[r] = Doing(Rest(d.want - 1), d.user, d.asked, d.want - 1, d.mine, {}, d.broker)
      BY <1>1, <1>10 DEF HeadUp
    <2>2. Cardinality(d.mine) = 1 /\ d.want = d.asked
      BY <1>1, <1>10 DEF HeadUp, Tally
    <2>3. QED
      BY <1>1, <2>1, <2>2 DEF Rest, Doing, Tally
  <1>11. CASE ReadConf(r)
    <2>1. req'[r] = Doing("spawn", d.user, d.asked, d.want, d.mine, {}, conf)
      BY <1>1, <1>11 DEF ReadConf
    <2>2. QED
      BY <1>1, <1>11, <2>1 DEF ReadConf, Doing, Tally
  <1>12. ASSUME NEW S \in SUBSET VMs, SpawnWorkers(r, S)
         PROVE  Goal
    <2>1. req'[r] = Doing("wait", d.user, d.asked, 0, d.mine \cup S, S, d.broker)
      BY <1>1, <1>12 DEF SpawnWorkers
    <2>2. d.mine \cap S = {}
      BY <1>12 DEF SpawnWorkers, Fresh, CountInv, MineAreLaunched, Mine
    <2>3. IsFiniteSet(S)
      BY VMsFinite, FS_Subset
    <2>4. Cardinality(d.mine \cup S) = Cardinality(d.mine) + Cardinality(S)
      <3>1. Cardinality(S) \in Nat
        BY <2>3, FS_CardinalityType
      <3>2. Cardinality(d.mine \cup S)
              = Cardinality(d.mine) + Cardinality(S) - Cardinality(d.mine \cap S)
        BY <1>2, <2>3, FS_Union
      <3>3. Cardinality(d.mine \cap S) = 0
        <4>1. Cardinality({}) = 0
          BY FS_EmptySet
        <4>2. QED
          BY <2>2, <4>1
      <3>4. QED
        BY <1>2, <3>1, <3>2, <3>3
    <2>5. d.asked > 0 /\ Cardinality(d.mine \cup S) = d.asked
      BY <1>1, <1>2, <1>12, <2>4 DEF SpawnWorkers, Tally
    <2>6. \A v \in S : vm'[v].state # "none"
      BY <1>12 DEF SpawnWorkers, Launch, Machine
    <2>7. QED
      BY <2>1, <2>5, <2>6 DEF Doing, Tally, Mine
  <1>13. ASSUME NEW left, GoesTo(r, "alarm", left), d.pc \in {"wait", "alarm"}
         PROVE  Goal
    <2>1. req'[r] = Kept("alarm", left)
      BY <1>4, <1>13
    <2>2. QED
      BY <1>1, <1>13, <2>1 DEF Doing, Tally
  <1>14. CASE WorkersUp(r) \/ WorkersLate(r) \/ \E v \in VMs : SetAlarm(r, v)
    BY <1>3, <1>13, <1>14 DEF WorkersUp, WorkersLate, SetAlarm
  <1>15. CASE LaunchDone(r) \/ Build(r) \/ Stop(r)
    BY <1>3, <1>5, <1>15 DEF LaunchDone, Build, Stop, StopList, StopTerminate, StopDone
  <1>16. CASE Refused(r) \/ AlarmRaises(r) \/ \E v \in VMs : HeadLate(r, v)
    BY <1>3, <1>16 DEF Refused, AlarmRaises, HeadLate
  <1>17. QED
    BY <1>6, <1>7, <1>8, <1>9, <1>10, <1>11, <1>12, <1>14, <1>15, <1>16
       DEF UserAsks, Handler, Start

LEMMA CountNext == CountInv /\ [Next]_vars => CountInv'
  <1> SUFFICES ASSUME CountInv, [Next]_vars PROVE CountInv'
    OBVIOUS
  <1>1. FleetInv /\ FleetInv' /\ TypeOK
    BY FleetNext DEF CountInv, FleetInv
  <1>2. \A r \in Requests : \A v \in req[r].mine :
          vm'[v].state # "none" /\ (req[r].asked > 0 \/ vm'[v].head)
    BY <1>1, StaysLaunched, RequestFields DEF CountInv, MineAreLaunched, Mine
  <1>3. CASE UNCHANGED req
    BY <1>1, <1>2, <1>3 DEF CountInv, MineAreLaunched, Mine, Tally
  <1>4. ASSUME NEW r \in Requests, UserAsks(r) \/ Handler(r) \/ Build(r)
        PROVE  CountInv'
    <2>1. ASSUME NEW q \in Requests
          PROVE  /\ Tally(req'[q])
                 /\ \A v \in req'[q].mine :
                      vm'[v].state # "none" /\ (req'[q].asked > 0 \/ vm'[v].head)
      <3>1. CASE q = r
        BY <1>2, <1>4, <3>1, CountStep DEF Mine
      <3>2. CASE q # r
        BY <1>1, <1>2, <1>4, <3>2, OneRequestMoves DEF CountInv
      <3>3. QED
        BY <3>1, <3>2
    <2>2. QED
      BY <1>1, <2>1 DEF CountInv, MineAreLaunched, Mine, Tally
  <1>5. QED
    BY <1>3, <1>4 DEF Next, EC2, Boot, Halt, Sleepy, vars

\* A launch that is answered without an exception has launched as many
\* machines as were asked for, whatever other requests launch meanwhile; one
\* that was asked for less than one machine has launched a queue head at most.
THEOREM AskedIsLaunched == Spec => []LaunchedAsAsked
  <1>1. Init => CountInv
    BY FleetInit, NothingToCount DEF Init, CountInv, MineAreLaunched
  <1>2. CountInv => LaunchedAsAsked
    BY DEF CountInv, MineAreLaunched, Mine, Tally, LaunchedAsAsked
  <1>3. QED
    BY <1>1, <1>2, CountNext, PTL DEF Spec

=============================================================================
