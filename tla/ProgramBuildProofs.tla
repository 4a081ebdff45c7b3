-------------------------- MODULE ProgramBuildProofs --------------------------
(***************************************************************************)
(* Theorems about ProgramBuild, for any sets of machines, users, requests  *)
(* and repositories, any number of directories, and every failure.         *)
(***************************************************************************)
EXTENDS ProgramBuild, CloudFleetOverlapProofs, FiniteSetTheorems

-----------------------------------------------------------------------------
(* Every step of ProgramBuild is a step of CloudFleet or leaves its        *)
(* variables alone: the composition takes nothing away from the fleet and  *)
(* adds nothing to it, so that what is proved of the fleet holds here.     *)

LEMMA FleetStepIsNext == FleetStep => Next
  <1> SUFFICES ASSUME FleetStep PROVE Next
    OBVIOUS
  <1>1. CASE \E v \in VMs : MachineStep(v)
    BY <1>1 DEF MachineStep, Next
  <1>2. ASSUME NEW r \in Requests,
               PageAsks(r) \/ CheckAndRead(r) \/ ReadImage(r) \/ OtherStep(r)
        PROVE  UserAsks(r) \/ Handler(r)
    BY <1>2 DEF PageAsks, CheckAndRead, ReadImage, OtherStep, UserAsks, Handler, Start
  <1>3. ASSUME NEW r \in Requests,
               \/ \E v \in VMs : LaunchHead(r, v)
               \/ \E S \in SUBSET VMs : LaunchWorkers(r, S)
        PROVE  Handler(r)
    BY <1>3 DEF LaunchHead, LaunchWorkers, Handler, Start
  <1>4. QED
    BY <1>1, <1>2, <1>3 DEF FleetStep, Next

LEMMA BuildStepIsNext == BuildStep => [Next]_vars
  <1> SUFFICES ASSUME NEW r \in Requests,
                      \/ \E S \in SUBSET Repos \ {{}} : StartBuild(r, S)
                      \/ NoneBuilt(r) \/ OfferBuilt(r)
                      \/ \E v \in VMs : RemoteBuild(r, v) \/ MakeImage(r, v) \/ ImageFails(r, v)
               PROVE  [Next]_vars
    BY DEF BuildStep
  <1>1. CASE \E S \in SUBSET Repos \ {{}} : StartBuild(r, S)
    BY <1>1 DEF StartBuild, UserAsks, Next
  <1>2. CASE OfferBuilt(r) \/ \E v \in VMs : RemoteBuild(r, v)
    BY <1>2 DEF OfferBuilt, RemoteBuild
  <1>3. CASE NoneBuilt(r) \/ \E v \in VMs : MakeImage(r, v) \/ ImageFails(r, v)
    <2>1. Build(r)
      BY <1>3 DEF NoneBuilt, MakeImage, ImageFails, Build
    <2>2. QED
      BY <2>1 DEF Next
  <1>4. QED
    BY <1>1, <1>2, <1>3

LEMMA BuildRefines == [BuildNext]_buildVars => [Next]_vars
  BY FleetStepIsNext, BuildStepIsNext DEF BuildNext, buildVars

\* With builds, images and disks added, the machines still behave as
\* CloudFleet says.
THEOREM FleetImplemented == BuildSpec => Spec
  <1>1. BuildInit => Init
    BY DEF BuildInit
  <1>2. QED
    BY <1>1, BuildRefines, PTL DEF BuildSpec, Spec

\* So no build and no failure of one takes a queue head down that no request
\* to stop machines has listed.
THEOREM QueueHeadsSurviveBuilds == BuildSpec => HeadsStayUp
  BY FleetImplemented, QueueHeadsStayUp, PTL

-----------------------------------------------------------------------------
(* Types.                                                                  *)

LEMMA ResultsAreDisks ==
    ASSUME NEW d \in Disk, NEW S \in SUBSET Repos, NEW e \in Results(d, S)
    PROVE  e \in Disk /\ New(d, e) \in SUBSET Programs
  BY DEF Results, New

LEMMA FirstDisks == EmptyDisk \in Disk /\ FirstImage \in Disk
  BY DEF EmptyDisk, FirstImage, Disk

LEMMA RunsAreTyped ==
    ASSUME NEW pc \in {"off", "machine", "built", "image", "stop"},
           NEW repos \in SUBSET Repos, NEW built \in SUBSET Programs
    PROVE  At(pc, repos, built) \in BuildRun
  BY DEF At, BuildRun

LEMMA BuildFields ==
    ASSUME BuildTypeOK
    PROVE  build.repos \in SUBSET Repos /\ build.built \in SUBSET Programs /\ Off \in BuildRun
  BY RunsAreTyped DEF BuildTypeOK, BuildRun, Off

LEMMA BuildTypeStep ==
    ASSUME BuildTypeOK, TypeOK', BuildNext
    PROVE  BuildTypeOK'
  <1>1. /\ build.repos \in SUBSET Repos /\ build.built \in SUBSET Programs /\ Off \in BuildRun
        /\ EmptyDisk \in Disk /\ image \in Disk
        /\ \A r \in Requests : read[r] \in Disk
        /\ \A v \in VMs : disk[v] \in Disk
    BY BuildFields, FirstDisks DEF BuildTypeOK
  <1>2. ASSUME NEW r \in Requests, BuildGoesOn(r)
        PROVE  build' \in BuildRun /\ undone' \subseteq Programs
    BY <1>1, <1>2 DEF BuildGoesOn, BuildTypeOK
  <1>3. ASSUME NEW r \in Requests, NEW S \in SUBSET Repos \ {{}}, StartBuild(r, S)
        PROVE  BuildTypeOK'
    BY <1>3, RunsAreTyped DEF StartBuild, config, BuildTypeOK
  <1>4. ASSUME NEW r \in Requests, NEW v \in VMs, RemoteBuild(r, v)
        PROVE  BuildTypeOK'
    <2>1. PICK e \in IF Up(v) THEN Results(disk[v], build.repos) ELSE {disk[v]} :
             /\ disk' = [disk EXCEPT ![v] = e]
             /\ build' = At("built", build.repos, New(disk[v], e))
      BY <1>4 DEF RemoteBuild
    <2>2. e \in Disk /\ New(disk[v], e) \in SUBSET Programs
      BY <1>1, <2>1, ResultsAreDisks DEF New
    <2>3. build' \in BuildRun
      BY <1>1, <2>1, <2>2, RunsAreTyped
    <2>4. disk' \in [VMs -> Disk]
      BY <2>1, <2>2 DEF BuildTypeOK
    <2>5. UNCHANGED <<image, offers, read, undone>>
      BY <1>4 DEF RemoteBuild, config
    <2>6. QED
      BY <2>3, <2>4, <2>5 DEF BuildTypeOK
  <1>5. ASSUME NEW r \in Requests, NoneBuilt(r) \/ OfferBuilt(r)
        PROVE  BuildTypeOK'
    BY <1>1, <1>5, RunsAreTyped DEF NoneBuilt, OfferBuilt, config, BuildTypeOK
  <1>6. ASSUME NEW r \in Requests, NEW v \in VMs, MakeImage(r, v) \/ ImageFails(r, v)
        PROVE  BuildTypeOK'
    BY <1>1, <1>6, RunsAreTyped DEF MakeImage, ImageFails, config, BuildTypeOK
  <1>7. ASSUME NEW r \in Requests,
               PageAsks(r) \/ CheckAndRead(r) \/ ReadImage(r) \/ OtherStep(r)
        PROVE  BuildTypeOK'
    BY <1>1, <1>2, <1>7
       DEF PageAsks, CheckAndRead, ReadImage, OtherStep, config, BuildTypeOK
  <1>8. ASSUME NEW r \in Requests, NEW v \in VMs, LaunchHead(r, v)
        PROVE  BuildTypeOK'
    BY <1>1, <1>8 DEF LaunchHead, config, BuildTypeOK
  <1>9. ASSUME NEW r \in Requests, NEW S \in SUBSET VMs, LaunchWorkers(r, S)
        PROVE  BuildTypeOK'
    BY <1>1, <1>9 DEF LaunchWorkers, config, BuildTypeOK
  <1>10. ASSUME NEW v \in VMs, MachineStep(v)
        PROVE  BuildTypeOK'
    BY <1>1, <1>10 DEF MachineStep, config, BuildTypeOK
  <1>11. QED
    BY <1>3, <1>4, <1>5, <1>6, <1>7, <1>8, <1>9, <1>10 DEF BuildNext, BuildStep, FleetStep

-----------------------------------------------------------------------------
(* The inductive invariant.                                                *)

\* The request of a build.
Building(r) == req[r].user = Builder /\ req[r].pc # "idle"

\* The programs that are built in a directory.
Held(d) == {p \in Programs : d[p] = "built"}

OneBuild == \A r, q \in Requests : Building(r) /\ Building(q) => r = q

\* A build launches one machine, which is no queue head.
Phase(r) ==
    /\ req[r].pc = "build" => req[r].user = Builder
    /\ Building(r) =>
         /\ req[r].pc \notin {"head", "waitHead"}
         /\ req[r].pc \in {"check", "conf", "spawn"} => req[r].want = 1 /\ req[r].mine = {}
         /\ req[r].pc \in {"wait", "alarm", "build"} => \E v \in VMs : req[r].mine = {v}

\* It is launched with the image of the configuration.
Reads(r) == Building(r) /\ req[r].pc = "spawn" => Held(image) \subseteq Held(read[r])

\* Until it is terminated its disk has all that the image has, and all that
\* the build has built.
Disks(r) ==
    Building(r) /\ req[r].pc \in {"wait", "alarm", "build"} =>
        \A v \in req[r].mine :
            /\ vm[v].state # "none"
            /\ vm[v].state # "terminated" =>
                  /\ Held(image) \subseteq Held(disk[v])
                  /\ build.pc \in {"built", "image"} => build.built \subseteq Held(disk[v])

\* What a build has built is only looked at while its request builds.
UnderWay == build.pc \in {"built", "image"} => \E r \in Requests : req[r].pc = "build"

\* What it has built is not in the image yet.
Anew == build.pc = "built" => build.built \cap Held(image) = {}

Offered ==
    offers \ undone \subseteq Held(image) \cup (IF build.pc = "image" THEN build.built ELSE {})

BuildInv ==
    /\ FleetInv /\ BuildTypeOK
    /\ OneBuild
    /\ \A r \in Requests : Phase(r) /\ Reads(r) /\ Disks(r)
    /\ UnderWay /\ Anew /\ Offered

LEMMA BuildInitInv == BuildInit => BuildInv
  <1> SUFFICES ASSUME BuildInit PROVE BuildInv
    OBVIOUS
  <1>1. FleetInv
    BY FleetInit DEF BuildInit
  <1>2. BuildTypeOK
    BY <1>1, FirstDisks, RunsAreTyped, DeployedType DEF BuildInit, BuildTypeOK, FleetInv, Off
  <1>3. \A r \in Requests : req[r].pc = "idle"
    BY DEF BuildInit, Init, Idle, Doing
  <1>4. OneBuild /\ \A r \in Requests : Phase(r) /\ Reads(r) /\ Disks(r)
    BY <1>3 DEF OneBuild, Phase, Reads, Disks, Building
  <1>5. UnderWay /\ Anew /\ Offered
    BY DeployedType DEF BuildInit, UnderWay, Anew, Offered, Off, At, Held, FirstImage
  <1>6. QED
    BY <1>1, <1>2, <1>4, <1>5 DEF BuildInv

LEMMA BuildInvHolds == BuildInv => OfferedIsBuilt /\ OfferedOnce
  <1> SUFFICES ASSUME BuildInv PROVE OfferedIsBuilt /\ OfferedOnce
    OBVIOUS
  <1>1. OfferedIsBuilt
    BY DEF BuildInv, Offered, Held, OfferedIsBuilt
  <1>2. OfferedOnce
    BY DEF BuildInv, Offered, Anew, OfferedOnce
  <1>3. QED
    BY <1>1, <1>2

\* Building in a directory keeps what is built there.
LEMMA ResultsKeep ==
    ASSUME NEW d \in Disk, NEW S \in SUBSET Repos, NEW e \in Results(d, S)
    PROVE  Held(d) \subseteq Held(e) /\ New(d, e) \subseteq Held(e)
  <1>1. ASSUME NEW p \in Programs, d[p] = "built"
        PROVE  e[p] = "built"
    <2> DEFINE own(repo) == [q \in Programs |-> IF q[1] = repo THEN e[q] ELSE d[q]]
    <2>1. p[1] \in Repos
      BY DEF Programs
    <2>2. Succeeds(d, p[1], own(p[1])) \/ Fails(d, p[1], own(p[1])) \/ own(p[1]) = d
      BY <2>1 DEF Results
    <2>3. \A q \in Programs : Takes(d, p[1], q) => q # p
      <3>1. \A q \in Programs : q = <<q[1], q[2]>>
        BY DEF Programs
      <3>2. \A q \in Programs : Takes(d, p[1], q) => d[<<p[1], q[2]>>] = "none"
        BY DEF Takes, Free
      <3>3. QED
        BY <1>1, <3>1, <3>2
    <2>4. own(p[1])[p] = d[p]
      BY <2>2, <2>3 DEF Succeeds, Fails, Disk
    <2>5. QED
      BY <1>1, <2>4
  <1>2. QED
    BY <1>1 DEF Held, New

-----------------------------------------------------------------------------
(* Two kinds of step that keep it.                                         *)

\* No machine is launched anew, and one that is not terminated keeps its disk.
MachinesKept ==
    \A v \in VMs :
        vm[v].state # "none" =>
            /\ vm'[v].state # "none"
            /\ vm'[v].state # "terminated" =>
                  vm[v].state # "terminated" /\ disk'[v] = disk[v]

\* One request moves, without starting a build or leaving the place where
\* one builds.
LEMMA OneMoves ==
    ASSUME BuildInv, FleetInv', BuildTypeOK', NEW r \in Requests,
           UNCHANGED <<config, build, undone>>, MachinesKept,
           \A q \in Requests \ {r} : req'[q] = req[q] /\ read'[q] = read[q],
           req[r].pc = "build" => req'[r].pc = "build",
           Building(r)' => Building(r),
           Phase(r)', Reads(r)', Disks(r)'
    PROVE  BuildInv'
  <1>1. image' = image /\ offers' = offers
    BY DEF config
  <1>2. \A q \in Requests \ {r} : Building(q)' <=> Building(q)
    BY DEF Building
  <1>3. OneBuild'
    <2>1. \A q \in Requests : Building(q)' => Building(q)
      BY <1>2
    <2>2. QED
      BY <2>1 DEF BuildInv, OneBuild, Building
  <1>4. ASSUME NEW q \in Requests \ {r} PROVE Phase(q)' /\ Reads(q)' /\ Disks(q)'
    <2>1. Phase(q) /\ Reads(q) /\ Disks(q) /\ req'[q] = req[q] /\ read'[q] = read[q]
      BY <1>4 DEF BuildInv
    <2>2. Phase(q)' /\ Reads(q)'
      BY <1>1, <1>4, <2>1 DEF Phase, Reads, Building, Held
    <2>3. req[q].mine \subseteq VMs
      BY <1>4, RequestFields DEF BuildInv, FleetInv
    <2>4. Disks(q)'
      BY <1>1, <2>1, <2>3 DEF Disks, Building, Held, MachinesKept
    <2>5. QED
      BY <2>2, <2>4
  <1>5. UnderWay' /\ Anew' /\ Offered'
    <2>1. UnderWay /\ Anew /\ Offered
      BY DEF BuildInv
    <2>2. ASSUME NEW q \in Requests, req[q].pc = "build" PROVE req'[q].pc = "build"
      BY <2>2
    <2>3. UnderWay'
      BY <2>1, <2>2 DEF UnderWay
    <2>4. Anew' /\ Offered'
      BY <1>1, <2>1 DEF Anew, Offered, Held
    <2>5. QED
      BY <2>3, <2>4
  <1>6. QED
    BY <1>3, <1>4, <1>5 DEF BuildInv

\* The request of a build ends, with it the run of cr_build.py, and what it has
\* offered without an image counts as undone.
LEMMA RunEnds ==
    ASSUME BuildInv, FleetInv', BuildTypeOK', NEW r \in Requests,
           Building(r), req'[r] = Idle,
           UNCHANGED <<config, read>>, build' = Off, MachinesKept,
           undone \subseteq undone', build.pc = "image" => build.built \subseteq undone',
           \A q \in Requests \ {r} : req'[q] = req[q]
    PROVE  BuildInv'
  <1>1. image' = image /\ offers' = offers /\ read' = read /\ build'.pc = "off"
    BY DEF config, Off, At
  <1>2. \A q \in Requests \ {r} : ~Building(q)
    BY DEF BuildInv, OneBuild
  <1>3. \A q \in Requests : ~Building(q)'
    BY <1>2 DEF Building, Idle, Doing
  <1>4. OneBuild' /\ \A q \in Requests : Reads(q)' /\ Disks(q)'
    BY <1>3 DEF OneBuild, Reads, Disks, Building
  <1>5. \A q \in Requests : Phase(q)'
    BY <1>3 DEF Phase, Building, BuildInv, Idle, Doing
  <1>6. UnderWay' /\ Anew' /\ Offered'
    BY <1>1 DEF UnderWay, Anew, Offered, BuildInv, Held
  <1>7. QED
    BY <1>4, <1>5, <1>6 DEF BuildInv

-----------------------------------------------------------------------------
(* What the steps of the fleet do to a request.                            *)

LEMMA GoesToMoves ==
    ASSUME TypeOK, NEW r \in Requests, NEW pc, NEW left, GoesTo(r, pc, left)
    PROVE  /\ \A q \in Requests \ {r} : req'[q] = req[q]
           /\ req'[r].pc = pc /\ req'[r].user = req[r].user
           /\ req'[r].want = req[r].want /\ req'[r].mine = req[r].mine
  BY DEF GoesTo, Doing, TypeOK

\* Where a step that launches nothing leads.
Moves(r) ==
    /\ req'[r].user = req[r].user /\ req'[r].mine = req[r].mine
    /\ \/ req[r].pc = "waitHead" /\ req'[r].pc \in {"conf", "alarm"}
       \/ req[r].pc \in {"wait", "alarm"} /\ req'[r].pc = "alarm"
       \/ req[r].pc = "alarm" /\ req'[r].pc = "build" /\ req[r].user = Builder
       \/ req'[r].pc \in {"terminate", "drain"}

LEMMA OtherMoves ==
    ASSUME TypeOK, NEW r \in Requests, OtherStep(r)
    PROVE  /\ req[r].pc \notin {"idle", "build"}
           /\ \A q \in Requests \ {r} : req'[q] = req[q]
           /\ req'[r] = Idle \/ Moves(r)
  <1>1. CASE Ends(r) /\ req[r].pc \notin {"idle", "build"}
    BY <1>1 DEF Ends, TypeOK
  <1>2. CASE WorkersUp(r)
    BY <1>2, GoesToMoves DEF WorkersUp, Moves
  <1>3. CASE WorkersLate(r)
    BY <1>1, <1>3, GoesToMoves DEF WorkersLate, Moves
  <1>4. CASE LaunchDone(r)
    BY <1>1, <1>4, GoesToMoves DEF LaunchDone, Moves
  <1>5. CASE \E v \in VMs : HeadUp(r, v)
    BY <1>5 DEF HeadUp, Rest, Doing, TypeOK, Moves
  <1>6. CASE \E v \in VMs : SetAlarm(r, v)
    BY <1>6, GoesToMoves DEF SetAlarm, Moves
  <1>7. CASE Stop(r)
    BY <1>1, <1>7, GoesToMoves DEF Stop, StopList, StopTerminate, StopDone, Moves
  <1>8. CASE Refused(r) \/ AlarmRaises(r) \/ \E v \in VMs : HeadLate(r, v)
    BY <1>1, <1>8 DEF Refused, AlarmRaises, HeadLate
  <1>9. QED
    BY <1>2, <1>3, <1>4, <1>5, <1>6, <1>7, <1>8 DEF OtherStep

LEMMA OtherKeepsMachines ==
    ASSUME TypeOK, NEW r \in Requests, OtherStep(r)
    PROVE  MachinesKept
  <1>1. disk' = disk
    BY DEF OtherStep
  <1>2. ASSUME NEW S, Become(S, "stopping"), \A v \in S : vm[v].state \in Alive
        PROVE  MachinesKept
    BY <1>1, <1>2 DEF Become, Machine, MachinesKept, Alive
  <1>3. CASE UNCHANGED vm
    BY <1>1, <1>3 DEF MachinesKept
  <1>4. CASE WorkersLate(r)
    BY <1>2, <1>3, <1>4 DEF WorkersLate, Up, Alive
  <1>5. CASE \E v \in VMs : SetAlarm(r, v)
    BY <1>1, <1>5 DEF SetAlarm, Machine, MachinesKept, TypeOK
  <1>6. CASE StopTerminate(r)
    BY <1>2, <1>6 DEF StopTerminate
  <1>7. QED
    BY <1>3, <1>4, <1>5, <1>6
       DEF OtherStep, WorkersUp, LaunchDone, HeadUp, HeadLate, Refused, AlarmRaises, Stop,
           StopList, StopDone

LEMMA OtherKeeps ==
    ASSUME BuildInv, FleetInv', BuildTypeOK', NEW r \in Requests, OtherStep(r)
    PROVE  BuildInv'
  <1>1. TypeOK /\ Phase(r) /\ Reads(r) /\ Disks(r)
    BY DEF BuildInv, FleetInv
  <1>2. /\ req[r].pc \notin {"idle", "build"}
        /\ \A q \in Requests \ {r} : req'[q] = req[q]
        /\ req'[r] = Idle \/ Moves(r)
        /\ MachinesKept /\ UNCHANGED <<disk, config, read>> /\ BuildGoesOn(r)
    BY <1>1, OtherMoves, OtherKeepsMachines DEF OtherStep
  <1>3. CASE req[r].user = Builder /\ req'[r] = Idle
    <2>1. Building(r)
      BY <1>2, <1>3 DEF Building
    <2>2. build.pc # "image"
      <3>1. ASSUME NEW q \in Requests, req[q].pc = "build" PROVE FALSE
        <4>1. Building(q)
          BY <3>1 DEF BuildInv, Phase, Building
        <4>2. QED
          BY <1>2, <2>1, <3>1, <4>1 DEF BuildInv, OneBuild
      <3>2. QED
        BY <3>1 DEF BuildInv, UnderWay
    <2>3. build' = Off /\ undone \subseteq undone'
      BY <1>2, <1>3 DEF BuildGoesOn
    <2>4. QED
      BY <1>2, <1>3, <2>1, <2>2, <2>3, RunEnds
  <1>4. CASE req[r].user # Builder /\ req'[r] = Idle
    <2>1. UNCHANGED <<build, undone>>
      BY <1>2, <1>4 DEF BuildGoesOn
    <2>2. ~Building(r)' /\ req'[r].pc = "idle"
      BY <1>4 DEF Building, Idle, Doing
    <2>3. Phase(r)' /\ Reads(r)' /\ Disks(r)'
      BY <2>2 DEF Phase, Reads, Disks, Building
    <2>4. QED
      BY <1>2, <2>1, <2>2, <2>3, OneMoves
  <1>5. CASE req'[r] # Idle
    <2>1. UNCHANGED <<build, undone>> /\ Moves(r)
      BY <1>2, <1>5 DEF BuildGoesOn
    <2>2. Building(r)' => Building(r)
      BY <1>2, <2>1 DEF Building, Moves
    <2>3. Phase(r)' /\ Reads(r)'
      BY <1>1, <1>2, <2>1, <2>2 DEF Phase, Reads, Building, Moves, Rest
    <2>4. req'[r].mine \subseteq VMs
      BY <1>1, <2>1, RequestFields DEF Moves
    <2>5. Disks(r)'
      BY <1>1, <1>2, <2>1, <2>2, <2>4
         DEF Disks, Phase, Building, Moves, Rest, MachinesKept, config
    <2>6. QED
      BY <1>2, <2>1, <2>2, <2>3, <2>5, OneMoves
  <1>6. QED
    BY <1>3, <1>4, <1>5

-----------------------------------------------------------------------------
(* The other steps of the fleet.                                           *)

LEMMA PageAsksKeeps ==
    ASSUME BuildInv, FleetInv', BuildTypeOK', NEW r \in Requests, PageAsks(r)
    PROVE  BuildInv'
  <1>1. UNCHANGED <<vm, disk, config, read, build, undone>> /\ req[r].pc = "idle"
    BY DEF PageAsks, AskStop, AskStart
  <1>2. \A q \in Requests \ {r} : req'[q] = req[q]
    BY DEF PageAsks, AskStop, AskStart, BuildInv, FleetInv, TypeOK
  <1>3. req'[r].pc # "build" /\ req'[r].user # Builder
    BY BuilderType DEF PageAsks, AskStop, AskStart, Doing, BuildInv, FleetInv, TypeOK
  <1>4. ~Building(r)' /\ Phase(r)' /\ Reads(r)' /\ Disks(r)'
    BY <1>3 DEF Phase, Reads, Disks, Building
  <1>5. MachinesKept
    BY <1>1 DEF MachinesKept
  <1>6. QED
    BY <1>1, <1>2, <1>4, <1>5, OneMoves

LEMMA CheckAndReadKeeps ==
    ASSUME BuildInv, FleetInv', BuildTypeOK', NEW r \in Requests, CheckAndRead(r)
    PROVE  BuildInv'
  <1>1. UNCHANGED <<vm, disk, config, build, undone>> /\ req[r].pc = "check" /\ Phase(r)
    BY DEF CheckAndRead, CheckHead, BuildInv
  <1>2. /\ \A q \in Requests \ {r} : req'[q] = req[q]
        /\ req'[r].user = req[r].user
        /\ req'[r].want = req[r].want /\ req'[r].mine = req[r].mine
        /\ \/ req'[r].pc = Rest(req[r].want)
           \/ req'[r].pc = "head" /\ req[r].user # Builder
    BY <1>1, GoesToMoves DEF CheckAndRead, CheckHead, BuildInv, FleetInv
  <1>3. \A q \in Requests \ {r} : read'[q] = read[q]
    BY DEF CheckAndRead, BuildInv, BuildTypeOK
  <1>4. Building(r)' => Building(r)
    BY <1>1, <1>2 DEF Building
  <1>5. Phase(r)' /\ Reads(r)' /\ Disks(r)'
    BY <1>1, <1>2, <1>4 DEF Phase, Reads, Disks, Building, Rest
  <1>6. MachinesKept
    BY <1>1 DEF MachinesKept
  <1>7. QED
    BY <1>1, <1>2, <1>3, <1>4, <1>5, <1>6, OneMoves

LEMMA ReadImageKeeps ==
    ASSUME BuildInv, FleetInv', BuildTypeOK', NEW r \in Requests, ReadImage(r)
    PROVE  BuildInv'
  <1>1. UNCHANGED <<vm, disk, config, build, undone>> /\ req[r].pc = "conf" /\ Phase(r)
    BY DEF ReadImage, ReadConf, BuildInv
  <1>2. /\ \A q \in Requests \ {r} : req'[q] = req[q] /\ read'[q] = read[q]
        /\ read'[r] = image /\ req'[r].pc = "spawn" /\ req'[r].user = req[r].user
        /\ req'[r].want = req[r].want /\ req'[r].mine = req[r].mine
    BY DEF ReadImage, ReadConf, Doing, BuildInv, FleetInv, TypeOK, BuildTypeOK
  <1>3. Building(r)' => Building(r)
    BY <1>1, <1>2 DEF Building
  <1>4. Phase(r)' /\ Reads(r)' /\ Disks(r)'
    BY <1>1, <1>2, <1>3 DEF Phase, Reads, Disks, Building, config
  <1>5. MachinesKept
    BY <1>1 DEF MachinesKept
  <1>6. QED
    BY <1>1, <1>2, <1>3, <1>4, <1>5, OneMoves

LEMMA LaunchHeadKeeps ==
    ASSUME BuildInv, FleetInv', BuildTypeOK', NEW r \in Requests, NEW v \in VMs,
           LaunchHead(r, v)
    PROVE  BuildInv'
  <1>1. UNCHANGED <<config, build, undone>> /\ req[r].pc = "head" /\ Phase(r)
    BY DEF LaunchHead, SpawnHead, BuildInv
  <1>2. /\ \A q \in Requests \ {r} : req'[q] = req[q] /\ read'[q] = read[q]
        /\ req'[r].pc = "waitHead" /\ req'[r].user = req[r].user
    BY DEF LaunchHead, SpawnHead, Doing, BuildInv, FleetInv, TypeOK, BuildTypeOK
  <1>3. ~Building(r)'
    BY <1>1, <1>2 DEF Building, Phase
  <1>4. Phase(r)' /\ Reads(r)' /\ Disks(r)'
    BY <1>2, <1>3 DEF Phase, Reads, Disks
  <1>5. MachinesKept
    BY DEF LaunchHead, SpawnHead, Launch, Fresh, MachinesKept, BuildInv, BuildTypeOK
  <1>6. QED
    BY <1>1, <1>2, <1>3, <1>4, <1>5, OneMoves

\* A set of as many machines as a build wants has one.
LEMMA OneMachine ==
    ASSUME NEW S \in SUBSET VMs, Cardinality(S) = 1
    PROVE  \E v \in VMs : S = {v}
  BY VMsFinite, FS_Subset, FS_Singleton

LEMMA LaunchWorkersKeeps ==
    ASSUME BuildInv, FleetInv', BuildTypeOK', NEW r \in Requests, NEW S \in SUBSET VMs,
           LaunchWorkers(r, S)
    PROVE  BuildInv'
  <1>1. /\ UNCHANGED <<config, build, undone>> /\ req[r].pc = "spawn"
        /\ Phase(r) /\ Reads(r)
        /\ disk' = [v \in VMs |-> IF v \in S THEN read[r] ELSE disk[v]]
        /\ S \subseteq Fresh /\ Cardinality(S) = req[r].want
        /\ Launch(S, req[r].user, FALSE, req[r].broker)
    BY DEF LaunchWorkers, SpawnWorkers, BuildInv
  <1>2. /\ \A q \in Requests \ {r} : req'[q] = req[q] /\ read'[q] = read[q]
        /\ req'[r].pc = "wait" /\ req'[r].user = req[r].user
        /\ req'[r].mine = req[r].mine \cup S
    BY DEF LaunchWorkers, SpawnWorkers, Doing, BuildInv, FleetInv, TypeOK, BuildTypeOK
  <1>3. Building(r)' => Building(r)
    BY <1>1, <1>2 DEF Building
  <1>4. ASSUME Building(r) PROVE req'[r].mine = S /\ Cardinality(S) = 1
    BY <1>1, <1>2, <1>4 DEF Phase
  <1>5. Phase(r)' /\ Reads(r)'
    BY <1>2, <1>3, <1>4, OneMachine DEF Phase, Reads
  <1>6. ASSUME Building(r) PROVE build.pc \notin {"built", "image"}
    <2>1. ASSUME NEW q \in Requests, req[q].pc = "build" PROVE FALSE
      BY <1>1, <1>6, <2>1 DEF BuildInv, OneBuild, Phase, Building
    <2>2. QED
      BY <2>1 DEF BuildInv, UnderWay
  <1>7. \A v \in S : vm'[v].state = "pending" /\ disk'[v] = read[r]
    BY <1>1 DEF Launch, Machine
  <1>8. Disks(r)'
    BY <1>1, <1>2, <1>3, <1>4, <1>6, <1>7 DEF Disks, Reads, config
  <1>9. MachinesKept
    BY <1>1 DEF Launch, Fresh, MachinesKept
  <1>10. QED
    BY <1>1, <1>2, <1>3, <1>5, <1>8, <1>9, OneMoves

LEMMA MachineKeeps ==
    ASSUME BuildInv, FleetInv', BuildTypeOK', NEW v \in VMs, MachineStep(v)
    PROVE  BuildInv'
  <1>1. UNCHANGED <<req, config, read, build, undone>>
    BY DEF MachineStep, EC2, Boot, Halt, Sleepy
  <1>2. MachinesKept
    <2>1. PICK state \in {"running", "stopping", "terminated"} :
             Become({v}, state) /\ vm[v].state # "terminated"
      BY DEF MachineStep, EC2, Boot, Halt, Sleepy, Up
    <2>2. vm'[v].state = state /\ \A w \in VMs \ {v} : vm'[w] = vm[w]
      BY <2>1 DEF Become, Machine
    <2>3. \A w \in VMs : w # v \/ state # "terminated" => disk'[w] = disk[w]
      BY <2>2 DEF MachineStep, BuildInv, BuildTypeOK
    <2>4. QED
      BY <2>1, <2>2, <2>3 DEF MachinesKept
  <1>3. OneBuild' /\ \A r \in Requests : Phase(r)' /\ Reads(r)'
    BY <1>1 DEF BuildInv, OneBuild, Phase, Reads, Building, Held, config
  <1>4. \A r \in Requests : Disks(r)'
    BY <1>1, <1>2, RequestFields
       DEF BuildInv, FleetInv, Disks, Building, Held, MachinesKept, config
  <1>5. UnderWay' /\ Anew' /\ Offered'
    BY <1>1 DEF BuildInv, UnderWay, Anew, Offered, Held, config
  <1>6. QED
    BY <1>3, <1>4, <1>5 DEF BuildInv

-----------------------------------------------------------------------------
(* The steps of a build.                                                   *)

LEMMA StartBuildKeeps ==
    ASSUME BuildInv, FleetInv', BuildTypeOK', NEW r \in Requests,
           NEW S \in SUBSET Repos, StartBuild(r, S)
    PROVE  BuildInv'
  <1>1. /\ UNCHANGED <<vm, disk, config, read, undone>>
        /\ build.pc = "off" /\ build'.pc = "machine" /\ req[r].pc = "idle"
        /\ \A q \in Requests : ~Building(q)
    BY DEF StartBuild, AskBuild, At, Building, Idle, Doing
  <1>2. /\ \A q \in Requests \ {r} : req'[q] = req[q]
        /\ req'[r].pc = "check" /\ req'[r].want = 1 /\ req'[r].mine = {}
    BY DEF StartBuild, AskBuild, Doing, BuildInv, FleetInv, TypeOK
  <1>3. \A q \in Requests \ {r} : ~Building(q)'
    BY <1>1, <1>2 DEF Building
  <1>4. OneBuild' /\ Phase(r)' /\ Reads(r)' /\ Disks(r)'
    BY <1>2, <1>3 DEF OneBuild, Phase, Reads, Disks
  <1>5. \A q \in Requests \ {r} : Phase(q)' /\ Reads(q)' /\ Disks(q)'
    BY <1>2, <1>3 DEF Phase, Reads, Disks, BuildInv
  <1>6. UnderWay' /\ Anew' /\ Offered'
    BY <1>1 DEF UnderWay, Anew, Offered, BuildInv, Held, config
  <1>7. QED
    BY <1>4, <1>5, <1>6 DEF BuildInv

\* While a build builds, it is the only one.
LEMMA TheBuild ==
    ASSUME BuildInv, NEW r \in Requests, req[r].pc = "build"
    PROVE  Building(r) /\ \A q \in Requests \ {r} : ~Building(q)
  BY DEF BuildInv, Phase, Building, OneBuild

LEMMA RemoteBuildKeeps ==
    ASSUME BuildInv, FleetInv', BuildTypeOK', NEW r \in Requests, NEW v \in VMs,
           RemoteBuild(r, v)
    PROVE  BuildInv'
  <1>1. /\ req[r].pc = "build" /\ v \in req[r].mine /\ build.pc \in {"machine", "built"}
        /\ UNCHANGED <<vm, req, config, read, undone>>
    BY DEF RemoteBuild, vars
  <1>2. PICK e \in IF Up(v) THEN Results(disk[v], build.repos) ELSE {disk[v]} :
           /\ disk' = [disk EXCEPT ![v] = e]
           /\ build' = At("built", build.repos, New(disk[v], e))
    BY DEF RemoteBuild
  <1>3. disk[v] \in Disk /\ build.repos \in SUBSET Repos /\ disk'[v] = e
    BY <1>2, BuildFields DEF BuildInv, BuildTypeOK
  <1>4. Held(disk[v]) \subseteq Held(e) /\ New(disk[v], e) \subseteq Held(e)
    BY <1>2, <1>3, ResultsKeep DEF New
  <1>5. Building(r) /\ \A q \in Requests \ {r} : ~Building(q)
    BY <1>1, TheBuild
  <1>6. req[r].mine = {v}
    BY <1>1, <1>5 DEF BuildInv, Phase
  <1>7. OneBuild' /\ \A q \in Requests : Phase(q)' /\ Reads(q)'
    BY <1>1 DEF BuildInv, OneBuild, Phase, Reads, Building, Held, config
  <1>8. Disks(r)'
    BY <1>1, <1>2, <1>3, <1>4, <1>5, <1>6 DEF BuildInv, Disks, At, Held, config
  <1>9. \A q \in Requests \ {r} : Disks(q)'
    BY <1>1, <1>5 DEF Disks, Building
  <1>10. UnderWay' /\ Offered'
    BY <1>1, <1>2 DEF BuildInv, UnderWay, Offered, Held, At, config
  <1>11. Anew'
    <2>1. Up(v) => Held(image) \subseteq Held(disk[v])
      BY <1>1, <1>5 DEF BuildInv, Disks, Up
    <2>2. New(disk[v], e) \cap Held(image) = {}
      BY <1>2, <2>1 DEF New, Held
    <2>3. QED
      BY <1>1, <1>2, <2>2 DEF Anew, At, Held, config
  <1>12. QED
    BY <1>7, <1>8, <1>9, <1>10, <1>11 DEF BuildInv

LEMMA OfferBuiltKeeps ==
    ASSUME BuildInv, FleetInv', BuildTypeOK', NEW r \in Requests, OfferBuilt(r)
    PROVE  BuildInv'
  <1>1. /\ req[r].pc = "build" /\ build.pc = "built"
        /\ offers' = offers \cup build.built
        /\ build'.pc = "image" /\ build'.built = build.built
        /\ UNCHANGED <<vm, req, disk, image, read, undone>>
    BY DEF OfferBuilt, At, vars
  <1>2. OneBuild' /\ \A q \in Requests : Phase(q)' /\ Reads(q)' /\ Disks(q)'
    BY <1>1 DEF BuildInv, OneBuild, Phase, Reads, Disks, Building, Held
  <1>3. UnderWay'
    BY <1>1 DEF UnderWay
  <1>4. Anew' /\ Offered'
    BY <1>1 DEF BuildInv, Anew, Offered, Held
  <1>5. QED
    BY <1>2, <1>3, <1>4 DEF BuildInv

LEMMA MakeImageKeeps ==
    ASSUME BuildInv, FleetInv', BuildTypeOK', NEW r \in Requests, NEW v \in VMs,
           MakeImage(r, v)
    PROVE  BuildInv'
  <1>1. /\ req[r].pc = "build" /\ build.pc = "image" /\ v \in req[r].mine /\ Up(v)
        /\ image' = disk[v] /\ GoesTo(r, "list", {}) /\ build'.pc = "stop"
        /\ UNCHANGED <<vm, disk, read, offers, undone>>
    BY DEF MakeImage, At
  <1>2. Building(r) /\ \A q \in Requests \ {r} : ~Building(q)
    BY <1>1, TheBuild
  <1>3. Held(image) \subseteq Held(image') /\ build.built \subseteq Held(image')
    BY <1>1, <1>2 DEF BuildInv, Disks, Up
  <1>4. /\ \A q \in Requests \ {r} : req'[q] = req[q]
        /\ req'[r].pc = "list" /\ req'[r].user = req[r].user
    BY <1>1, GoesToMoves DEF BuildInv, FleetInv
  <1>5. \A q \in Requests \ {r} : ~Building(q)'
    BY <1>2, <1>4 DEF Building
  <1>6. OneBuild' /\ Phase(r)' /\ Reads(r)' /\ Disks(r)'
    BY <1>2, <1>4, <1>5 DEF OneBuild, Phase, Reads, Disks, Building
  <1>7. \A q \in Requests \ {r} : Phase(q)' /\ Reads(q)' /\ Disks(q)'
    BY <1>4, <1>5 DEF BuildInv, Phase, Reads, Disks
  <1>8. UnderWay' /\ Anew' /\ Offered'
    BY <1>1, <1>3 DEF BuildInv, UnderWay, Anew, Offered, Held
  <1>9. QED
    BY <1>6, <1>7, <1>8 DEF BuildInv

\* A build that ends without an image.
LEMMA NoImageKeeps ==
    ASSUME BuildInv, FleetInv', BuildTypeOK', NEW r \in Requests,
           NoneBuilt(r) \/ \E v \in VMs : ImageFails(r, v)
    PROVE  BuildInv'
  <1>1. /\ req[r].pc = "build" /\ Ends(r) /\ build' = Off
        /\ UNCHANGED <<vm, disk, config, read>>
        /\ undone \subseteq undone'
        /\ build.pc = "image" => build.built \subseteq undone'
    BY DEF NoneBuilt, ImageFails
  <1>2. req'[r] = Idle /\ \A q \in Requests \ {r} : req'[q] = req[q]
    BY <1>1 DEF Ends, BuildInv, FleetInv, TypeOK
  <1>3. MachinesKept
    BY <1>1 DEF MachinesKept
  <1>4. QED
    BY <1>1, <1>2, <1>3, TheBuild, RunEnds

LEMMA BuildNextInv == BuildInv /\ [BuildNext]_buildVars => BuildInv'
  <1> SUFFICES ASSUME BuildInv, [BuildNext]_buildVars PROVE BuildInv'
    OBVIOUS
  <1>1. FleetInv'
    BY BuildRefines, FleetNext DEF BuildInv
  <1>2. CASE UNCHANGED buildVars
    BY <1>1, <1>2
       DEF buildVars, vars, config, BuildInv, BuildTypeOK, FleetInv, OneBuild, Phase, Reads,
           Disks, UnderWay, Anew, Offered, Building, Held
  <1>3. CASE BuildNext
    <2>1. BuildTypeOK'
      BY <1>1, <1>3, BuildTypeStep DEF BuildInv, FleetInv
    <2>2. CASE FleetStep
      BY <1>1, <2>1, <2>2, PageAsksKeeps, CheckAndReadKeeps, ReadImageKeeps, OtherKeeps,
         LaunchHeadKeeps, LaunchWorkersKeeps, MachineKeeps DEF FleetStep
    <2>3. CASE BuildStep
      BY <1>1, <2>1, <2>3, StartBuildKeeps, NoImageKeeps, OfferBuiltKeeps, RemoteBuildKeeps,
         MakeImageKeeps DEF BuildStep
    <2>4. QED
      BY <1>3, <2>2, <2>3 DEF BuildNext
  <1>4. QED
    BY <1>2, <1>3

-----------------------------------------------------------------------------
(* What machines are launched with, when no stop overlaps a launch.        *)

\* What is offered, but for what a build has offered that has not yet stopped
\* the machines that lack it.
Given == (offers \ undone) \ (IF build.pc \in {"image", "stop"} THEN build.built ELSE {})

\* Every launch has read an image that has it, and every machine has it.
GivenIsRead ==
    \A r \in Requests : req[r].pc \in {"head", "spawn"} => Given \subseteq Held(read[r])

GivenOnDisks == \A v \in VMs : vm[v].state \in Alive => Given \subseteq Held(disk[v])

OfferInv == BuildInv /\ StopInv /\ GivenIsRead /\ GivenOnDisks

LEMMA GivenInImage == BuildInv => Given \subseteq Held(image)
  BY DEF BuildInv, Offered, Given

\* It only grows when a build has stopped all machines.
LEMMA GivenShrinks ==
    ASSUME BuildNext, \A r \in Requests : req[r].user = Builder => ~StopDone(r)
    PROVE  Given' \subseteq Given
  <1>1. CASE UNCHANGED <<config, build, undone>>
    BY <1>1 DEF Given, config
  <1>2. ASSUME UNCHANGED config, build' = Off, undone' = undone \cup build.built
        PROVE  Given' \subseteq Given
    BY <1>2 DEF Given, config
  <1>3. ASSUME NEW r \in Requests, OtherStep(r)
        PROVE  Given' \subseteq Given
    <2>1. req[r].user = Builder => req[r].pc # "drain"
      BY <1>3 DEF OtherStep, WorkersUp, WorkersLate, LaunchDone, HeadUp, HeadLate,
                  SetAlarm, Refused, AlarmRaises, Stop, StopList, StopTerminate
    <2>2. QED
      BY <1>1, <1>2, <1>3, <2>1 DEF OtherStep, BuildGoesOn
  <1>4. CASE FleetStep
    BY <1>1, <1>3, <1>4
       DEF FleetStep, PageAsks, CheckAndRead, ReadImage, LaunchHead, LaunchWorkers,
           MachineStep
  <1>5. ASSUME NEW r \in Requests, NoneBuilt(r) \/ \E S \in SUBSET Repos : StartBuild(r, S)
        PROVE  Given' \subseteq Given
    BY <1>5 DEF NoneBuilt, StartBuild, Off, At, Given, config
  <1>6. ASSUME NEW r \in Requests, OfferBuilt(r)
        PROVE  Given' \subseteq Given
    BY <1>6 DEF OfferBuilt, At, Given
  <1>7. ASSUME NEW r \in Requests, NEW v \in VMs,
               RemoteBuild(r, v) \/ MakeImage(r, v) \/ ImageFails(r, v)
        PROVE  Given' \subseteq Given
    <2>1. CASE RemoteBuild(r, v)
      BY <2>1 DEF RemoteBuild, At, Given, config
    <2>2. CASE MakeImage(r, v)
      BY <2>2 DEF MakeImage, At, Given
    <2>3. CASE ImageFails(r, v)
      BY <1>2, <2>3 DEF ImageFails
    <2>4. QED
      BY <1>7, <2>1, <2>2, <2>3
  <1>8. QED
    BY <1>4, <1>5, <1>6, <1>7 DEF BuildNext, BuildStep

\* A request about to launch has just read the image, or keeps what it has read.
LEMMA SpawnReads ==
    ASSUME BuildInv, BuildNext, NEW r \in Requests, req'[r].pc \in {"head", "spawn"}
    PROVE  \/ read'[r] = image
           \/ req[r].pc \in {"head", "spawn"} /\ read'[r] = read[r]
  <1>1. TypeOK /\ BuildTypeOK
    BY DEF BuildInv, FleetInv
  <1>2. ASSUME NEW q \in Requests, OfferBuilt(q) \/ \E v \in VMs : RemoteBuild(q, v)
        PROVE  read' = read /\ req'[r] = req[r]
    BY <1>2 DEF OfferBuilt, RemoteBuild, vars
  <1>3. ASSUME NEW q \in Requests, PageAsks(q) \/ \E S \in SUBSET Repos : StartBuild(q, S)
        PROVE  read' = read /\ req'[r] = req[r]
    BY <1>1, <1>3 DEF PageAsks, AskStop, AskStart, StartBuild, AskBuild, Doing, TypeOK
  <1>4. ASSUME NEW q \in Requests, CheckAndRead(q) \/ ReadImage(q)
        PROVE  \/ read'[r] = image
               \/ read'[r] = read[r] /\ req'[r] = req[r]
    <2>1. CASE CheckAndRead(q)
      <3>1. /\ \A k \in Requests \ {q} : req'[k] = req[k]
            /\ req'[q].pc \in {"head", "conf", "alarm"}
        BY <1>1, <2>1, GoesToMoves DEF CheckAndRead, CheckHead, Rest
      <3>2. read' = IF req'[q].pc = "head" THEN [read EXCEPT ![q] = image] ELSE read
        BY <2>1 DEF CheckAndRead
      <3>3. QED
        BY <1>1, <3>1, <3>2 DEF BuildTypeOK
    <2>2. CASE ReadImage(q)
      BY <1>1, <2>2 DEF ReadImage, ReadConf, TypeOK, BuildTypeOK
    <2>3. QED
      BY <1>4, <2>1, <2>2
  <1>5. ASSUME NEW q \in Requests, OtherStep(q)
        PROVE  read' = read /\ req'[r] = req[r]
    BY <1>1, <1>5, OtherMoves DEF OtherStep, Moves, Rest, Idle, Doing
  <1>6. ASSUME NEW q \in Requests, NEW v \in VMs, LaunchHead(q, v)
        PROVE  read'[r] = read[r] /\ req'[r] = req[r]
    BY <1>1, <1>6 DEF LaunchHead, SpawnHead, Doing, TypeOK, BuildTypeOK
  <1>7. ASSUME NEW q \in Requests, NEW S \in SUBSET VMs, LaunchWorkers(q, S)
        PROVE  read'[r] = read[r] /\ req'[r] = req[r]
    BY <1>1, <1>7 DEF LaunchWorkers, SpawnWorkers, Doing, TypeOK, BuildTypeOK
  <1>8. ASSUME NEW q \in Requests,
               NoneBuilt(q) \/ \E v \in VMs : MakeImage(q, v) \/ ImageFails(q, v)
        PROVE  read' = read /\ req'[r] = req[r]
    BY <1>1, <1>8 DEF NoneBuilt, MakeImage, ImageFails, Ends, GoesTo, Idle, Doing, TypeOK
  <1>9. ASSUME NEW v \in VMs, MachineStep(v)
        PROVE  read' = read /\ req'[r] = req[r]
    BY <1>9 DEF MachineStep, EC2, Boot, Halt, Sleepy
  <1>10. CASE FleetStep
    BY <1>3, <1>4, <1>5, <1>6, <1>7, <1>9, <1>10 DEF FleetStep
  <1>11. CASE BuildStep
    BY <1>2, <1>3, <1>8, <1>11 DEF BuildStep
  <1>12. QED
    BY <1>10, <1>11 DEF BuildNext

\* A machine that runs has kept its programs, or is launched with an image that
\* its launch has read.
LEMMA DisksComeFrom ==
    ASSUME BuildInv, BuildNext, NEW v \in VMs, vm'[v].state \in Alive
    PROVE  \/ vm[v].state \in Alive /\ Held(disk[v]) \subseteq Held(disk'[v])
           \/ \E r \in Requests : req[r].pc \in {"head", "spawn"} /\ disk'[v] = read[r]
  <1>1. FleetInv /\ TypeOK /\ BuildTypeOK
    BY DEF BuildInv, FleetInv
  <1>2. ASSUME vm'[v] = vm[v], disk'[v] = disk[v]
        PROVE  vm[v].state \in Alive /\ Held(disk[v]) \subseteq Held(disk'[v])
    BY <1>2
  <1>3. ASSUME NEW r \in Requests, NEW w \in VMs, LaunchHead(r, w)
        PROVE  \/ req[r].pc = "head" /\ disk'[v] = read[r]
               \/ vm'[v] = vm[v] /\ disk'[v] = disk[v]
    <2>1. /\ req[r].pc = "head"
          /\ disk' = [disk EXCEPT ![w] = read[r]] /\ Launch({w}, req[r].user, TRUE, w)
      BY <1>3 DEF LaunchHead, SpawnHead
    <2>2. v # w => vm'[v] = vm[v]
      BY <2>1 DEF Launch
    <2>3. QED
      BY <1>1, <2>1, <2>2 DEF BuildTypeOK
  <1>4. ASSUME NEW r \in Requests, NEW S \in SUBSET VMs, LaunchWorkers(r, S)
        PROVE  \/ req[r].pc = "spawn" /\ disk'[v] = read[r]
               \/ vm'[v] = vm[v] /\ disk'[v] = disk[v]
    BY <1>1, <1>4 DEF LaunchWorkers, SpawnWorkers, Launch
  <1>5. ASSUME NEW r \in Requests, NEW w \in VMs, RemoteBuild(r, w)
        PROVE  vm'[v] = vm[v] /\ Held(disk[v]) \subseteq Held(disk'[v])
    <2>1. PICK e \in IF Up(w) THEN Results(disk[w], build.repos) ELSE {disk[w]} :
             disk' = [disk EXCEPT ![w] = e]
      BY <1>5 DEF RemoteBuild
    <2>2. disk[w] \in Disk /\ build.repos \in SUBSET Repos
      BY <1>1, BuildFields DEF BuildTypeOK
    <2>3. Held(disk[w]) \subseteq Held(e)
      BY <2>1, <2>2, ResultsKeep
    <2>4. QED
      BY <1>1, <1>5, <2>1, <2>3 DEF RemoteBuild, vars, BuildTypeOK
  <1>6. ASSUME NEW r \in Requests,
               \/ PageAsks(r) \/ CheckAndRead(r) \/ ReadImage(r) \/ NoneBuilt(r) \/ OfferBuilt(r)
               \/ \E S \in SUBSET Repos : StartBuild(r, S)
               \/ \E w \in VMs : MakeImage(r, w) \/ ImageFails(r, w)
        PROVE  vm'[v] = vm[v] /\ disk'[v] = disk[v]
    BY <1>6 DEF PageAsks, AskStop, AskStart, CheckAndRead, CheckHead, ReadImage, ReadConf,
                NoneBuilt, OfferBuilt, StartBuild, AskBuild, MakeImage, ImageFails, vars
  <1>7. ASSUME disk'[v] = disk[v],
               ~\E r \in Requests : SpawnHead(r, v),
               ~\E r \in Requests : \E S \in SUBSET VMs : SpawnWorkers(r, S) /\ v \in S
        PROVE  vm[v].state \in Alive /\ Held(disk[v]) \subseteq Held(disk'[v])
    <2>1. [Next]_vars
      BY BuildRefines
    <2>2. Ages(v)
      BY <1>1, <1>7, <2>1, MachineSteps
    <2>3. QED
      BY <1>7, <2>2 DEF Ages
  <1>8. ASSUME NEW r \in Requests, OtherStep(r)
        PROVE  vm[v].state \in Alive /\ Held(disk[v]) \subseteq Held(disk'[v])
    <2>1. /\ disk' = disk
          /\ \A q \in Requests \ {r} : req'[q] = req[q]
          /\ req'[r] = Idle \/ Moves(r)
      BY <1>1, <1>8, OtherMoves DEF OtherStep
    <2>2. ASSUME NEW q \in Requests, SpawnHead(q, v) PROVE FALSE
      BY <1>1, <2>1, <2>2, NewHead DEF Moves, Rest, Idle, Doing
    <2>3. ASSUME NEW q \in Requests, NEW S \in SUBSET VMs, SpawnWorkers(q, S) PROVE FALSE
      BY <1>1, <2>1, <2>3 DEF SpawnWorkers, Moves, Rest, Idle, Doing, TypeOK
    <2>4. QED
      BY <1>7, <2>1, <2>2, <2>3
  <1>9. ASSUME NEW w \in VMs, MachineStep(w)
        PROVE  vm[v].state \in Alive /\ Held(disk[v]) \subseteq Held(disk'[v])
    <2>1. req' = req /\ vm'[v].state # "terminated"
      BY <1>9 DEF MachineStep, EC2, Boot, Halt, Sleepy, Alive
    <2>2. disk'[v] = disk[v]
      BY <1>1, <1>9, <2>1 DEF MachineStep, BuildTypeOK
    <2>3. ASSUME NEW q \in Requests, SpawnHead(q, v) PROVE FALSE
      BY <1>1, <2>1, <2>3, NewHead
    <2>4. ASSUME NEW q \in Requests, NEW S \in SUBSET VMs, SpawnWorkers(q, S) PROVE FALSE
      BY <1>1, <2>1, <2>4 DEF SpawnWorkers, Doing, TypeOK
    <2>5. QED
      BY <1>7, <2>2, <2>3, <2>4
  <1>10. QED
    BY <1>2, <1>3, <1>4, <1>5, <1>6, <1>8, <1>9 DEF BuildNext, BuildStep, FleetStep

LEMMA OfferNext ==
    ASSUME OneAccount, OfferInv, StopsApart, [BuildNext]_buildVars
    PROVE  OfferInv'
  <1>1. BuildInv /\ StopInv /\ FleetInv /\ TypeOK
    BY DEF OfferInv, StopInv, FleetInv
  <1>2. BuildInv' /\ StopInv'
    BY <1>1, BuildNextInv, BuildRefines, StopNext
  <1>3. CASE UNCHANGED buildVars
    BY <1>2, <1>3
       DEF OfferInv, GivenIsRead, GivenOnDisks, Given, Held, buildVars, vars, config
  <1>4. ASSUME BuildNext, NEW r \in Requests, req[r].user = Builder, StopDone(r)
        PROVE  GivenIsRead' /\ GivenOnDisks'
    <2>1. \A v \in VMs : vm[v].state # "none" => v \in Targets(Builder)
      BY <1>1, MachineFields DEF Targets, Fresh, Prefixed, SameAccount, OneAccount, Owners
    <2>2. \A v \in VMs : vm'[v].state \notin Alive
      BY <1>1, <1>4, <2>1 DEF StopInv, ListedAll, StopDone, Alive
    <2>3. \A q \in Requests : req[q].pc \notin {"head", "spawn"}
      BY <1>1, <1>4, RequestFields DEF StopsApart, StopDone, OneAccount, Prefixed, Owners
    <2>4. \A q \in Requests : req'[q] = req[q] \/ req'[q].pc = "idle"
      BY <1>1, <1>4 DEF StopDone, Ends, Idle, Doing, TypeOK
    <2>5. QED
      BY <2>2, <2>3, <2>4 DEF GivenIsRead, GivenOnDisks
  <1>5. ASSUME BuildNext, \A r \in Requests : req[r].user = Builder => ~StopDone(r)
        PROVE  GivenIsRead' /\ GivenOnDisks'
    <2>1. Given' \subseteq Given /\ Given \subseteq Held(image)
      BY <1>1, <1>5, GivenShrinks, GivenInImage
    <2>2. ASSUME NEW r \in Requests, req'[r].pc \in {"head", "spawn"}
          PROVE  Given' \subseteq Held(read'[r])
      BY <1>1, <1>5, <2>1, <2>2, SpawnReads DEF OfferInv, GivenIsRead
    <2>3. ASSUME NEW v \in VMs, vm'[v].state \in Alive
          PROVE  Given' \subseteq Held(disk'[v])
      BY <1>1, <1>5, <2>1, <2>3, DisksComeFrom DEF OfferInv, GivenIsRead, GivenOnDisks
    <2>4. QED
      BY <2>2, <2>3 DEF GivenIsRead, GivenOnDisks, Held
  <1>6. QED
    BY <1>2, <1>3, <1>4, <1>5 DEF OfferInv

LEMMA OfferInit == BuildInit => OfferInv
  <1> SUFFICES ASSUME BuildInit PROVE OfferInv
    OBVIOUS
  <1>1. \A r \in Requests : req[r].pc = "idle"
    BY DEF BuildInit, Init, Idle, Doing
  <1>2. \A v \in VMs : vm[v].state \notin Alive
    BY DEF BuildInit, Init, Unused, Machine, Alive
  <1>3. QED
    BY <1>1, <1>2, BuildInitInv
       DEF OfferInv, BuildInv, StopInv, ListedAll, GivenIsRead, GivenOnDisks

-----------------------------------------------------------------------------
(* The theorems.                                                           *)

\* Every variable of the builds keeps its type.
THEOREM BuildTypeCorrect == BuildSpec => []BuildTypeOK
  <1>1. BuildInv => BuildTypeOK
    BY DEF BuildInv
  <1>2. QED
    BY <1>1, BuildInitInv, BuildNextInv, PTL DEF BuildSpec

\* Between builds every program that is offered is in the image that machines
\* are launched with, but for those of builds that raised: whichever
\* repositories of a build fail, however often one is built again, whatever
\* requests start and stop machines meanwhile.
THEOREM OfferedProgramsBuilt == BuildSpec => []OfferedIsBuilt
  BY BuildInitInv, BuildNextInv, BuildInvHolds, PTL DEF BuildSpec

\* A program is offered a second time only if an earlier build of it raised
\* between offering it and making the image.
THEOREM ProgramsOfferedOnce == BuildSpec => []OfferedOnce
  BY BuildInitInv, BuildNextInv, BuildInvHolds, PTL DEF BuildSpec

\* Between builds every machine that runs, the one that a failed build has left
\* behind included, has every program that is offered,
\* when all use one account and none of a user's launches gets machines while
\* they are being stopped: whatever fails, whenever machines were launched, and
\* whatever else is in progress at the same time.
THEOREM WorkersHaveOffered ==
    OneAccount => (BuildSpec /\ []StopsApart => []WorkersRunOffered)
  <1> SUFFICES ASSUME OneAccount PROVE BuildSpec /\ []StopsApart => []WorkersRunOffered
    OBVIOUS
  <1>1. OfferInv /\ StopsApart /\ [BuildNext]_buildVars => OfferInv'
    BY OfferNext
  <1>2. OfferInv => WorkersRunOffered
    BY DEF OfferInv, GivenOnDisks, Given, Held, WorkersRunOffered
  <1>3. QED
    BY <1>1, <1>2, OfferInit, PTL DEF BuildSpec

=============================================================================
