----------------------------- MODULE ProgramBuild -----------------------------
(***************************************************************************)
(* What cr_build.py does for the cloud, composed with the machines of      *)
(* CloudFleet.  A build clones and builds repositories on a machine        *)
(* launched for it, whose disk then becomes the image that later machines  *)
(* are launched with.  What was built is written to cr-config.yaml, from   *)
(* which the web server reads what it may offer.                           *)
(*                                                                         *)
(* A program is a repository with the number of its directory: a directory *)
(* that exists is never reused, and the program is named after it.  Each   *)
(* repository describes one executable, and no two have the same name.     *)
(***************************************************************************)
EXTENDS CloudFleet

CONSTANTS
    Repos,           \* the repositories that builds are asked for
    Suffixes,        \* Suffixes[repo]: the numbers tried for its directory
    Deployed         \* the programs that earlier builds have deployed

Programs == UNION {{repo} \X Suffixes[repo] : repo \in Repos}

ASSUME SuffixesType == \A repo \in Repos : Suffixes[repo] \subseteq Nat
ASSUME DeployedType == Deployed \subseteq Programs

\* A programs directory: what each subdirectory of it holds.
Disk == [Programs -> {"none", "broken", "built"}]

EmptyDisk == [p \in Programs |-> "none"]

FirstImage == [p \in Programs |-> IF p \in Deployed THEN "built" ELSE "none"]

VARIABLES
    disk,            \* disk[v]: the programs directory of machine v
    image,           \* that of the image named in cr-config.yaml
    read,            \* read[r]: that of the image that launch r has read there
    offers,          \* cr-config.yaml: the programs available on the cloud
    build,           \* the run of cr_build.py
    undone           \* history: programs of builds that raised after offering them

config == <<image, offers>>

buildVars == <<vars, disk, config, read, build, undone>>

(* A run of cr_build.py.  repos: the repositories it is given; built: the  *)
(* programs that the last ssh command has built on the machine.            *)
BuildRun == [ pc : {"off", "machine", "built", "image", "stop"},
              repos : SUBSET Repos, built : SUBSET Programs ]

At(pc, repos, built) == [pc |-> pc, repos |-> repos, built |-> built]

Off == At("off", {}, {})

-----------------------------------------------------------------------------
(* Building one repository in a programs directory.                        *)

\* The directories that mkdir can still create for a repository.
Free(d, repo) == {n \in Suffixes[repo] : d[<<repo, n>>] = "none"}

\* The directory it takes is the first of them.
Takes(d, repo, p) ==
    /\ p[1] = repo /\ p[2] \in Free(d, repo)
    /\ \A n \in Free(d, repo) : p[2] <= n

Succeeds(d, repo, e) ==
    \E p \in Programs : Takes(d, repo, p) /\ e = [d EXCEPT ![p] = "built"]

\* No directory can be created, or the clone fails and its directory is
\* removed; or the tests fail and the directory stays.
Fails(d, repo, e) ==
    \/ e = d
    \/ \E p \in Programs : Takes(d, repo, p) /\ e = [d EXCEPT ![p] = "broken"]

New(d, e) == {p \in Programs : d[p] # "built" /\ e[p] = "built"}

\* What a directory can hold after the repositories of S were built in it.
Results(d, S) ==
    {e \in Disk :
        \A repo \in Repos :
            LET own == [p \in Programs |-> IF p[1] = repo THEN e[p] ELSE d[p]]
            IN  IF repo \in S
                THEN Succeeds(d, repo, own) \/ Fails(d, repo, own)
                ELSE own = d}

-----------------------------------------------------------------------------
BuildInit ==
    /\ Init
    /\ disk = [v \in VMs |-> EmptyDisk]
    /\ image = FirstImage
    /\ read = [r \in Requests |-> EmptyDisk]
    /\ offers = Deployed
    /\ build = Off
    /\ undone = {}

-----------------------------------------------------------------------------
(* Mutants of the definitions below, one plausible mistake each.           *)

\* Mutant of MakeImage: the new image is not written to the configuration.
ImageNotSaved(r, v) ==
    /\ req[r].pc = "build" /\ build.pc = "image" /\ v \in req[r].mine /\ Up(v)
    /\ GoesTo(r, "list", {})
    /\ build' = At("stop", build.repos, build.built)
    /\ UNCHANGED <<vm, conf, disk, image, read, offers, undone>>

\* Mutant of LaunchWorkers: builds start from the image that was shipped.
LaunchFromShipped(r, S) ==
    /\ SpawnWorkers(r, S)
    /\ disk' = [v \in VMs |-> CASE v \notin S -> disk[v]
                               [] req[r].user = Builder -> EmptyDisk
                               [] OTHER -> read[r]]
    /\ read' = [read EXCEPT ![r] = EmptyDisk]
    /\ UNCHANGED <<config, build, undone>>

\* Mutant of OfferBuilt: programs are named after their repositories.
OfferRepos(r) ==
    /\ req[r].pc = "build" /\ build.pc = "built" /\ build.built # {}
    /\ offers' = offers \cup {p[1] : p \in build.built}
    /\ build' = At("image", build.repos, build.built)
    /\ UNCHANGED <<vars, disk, image, read, undone>>

-----------------------------------------------------------------------------
(* The run of cr_build.py.                                                 *)

\* A machine is launched for the build.
StartBuild(r, S) ==
    /\ build.pc = "off"
    /\ AskBuild(r)
    /\ build' = At("machine", S, {})
    /\ UNCHANGED <<disk, config, read, undone>>

\* All repositories are built there in one ssh command, which is run again when
\* it reports a failure within its first seconds.
RemoteBuild(r, v) ==
    /\ req[r].pc = "build" /\ v \in req[r].mine
    /\ \/ build.pc = "machine"
       \/ build.pc = "built" /\ Cardinality(build.built) < Cardinality(build.repos)
    /\ \E e \in IF Up(v) THEN Results(disk[v], build.repos) ELSE {disk[v]} :
         /\ disk' = [disk EXCEPT ![v] = e]
         /\ build' = At("built", build.repos, New(disk[v], e))
    /\ UNCHANGED <<vars, config, read, undone>>

\* Nothing was built: the machine is left running.
NoneBuilt(r) ==
    /\ req[r].pc = "build" /\ build.pc = "built" /\ build.built = {}
    /\ Ends(r)
    /\ build' = Off
    /\ UNCHANGED <<vm, conf, disk, config, read, undone>>

\* The programs are offered before there is an image that has them.
OfferBuilt(r) ==
    /\ req[r].pc = "build" /\ build.pc = "built" /\ build.built # {}
    /\ offers' = offers \cup build.built
    /\ build' = At("image", build.repos, build.built)
    /\ UNCHANGED <<vars, disk, image, read, undone>>

MakeImage(r, v) ==
    /\ req[r].pc = "build" /\ build.pc = "image" /\ v \in req[r].mine /\ Up(v)
    /\ image' = disk[v]
    /\ GoesTo(r, "list", {})
    /\ build' = At("stop", build.repos, build.built)
    /\ UNCHANGED <<vm, conf, disk, read, offers, undone>>

\* EC2 refuses the image, or the machine is gone.
ImageFails(r, v) ==
    /\ req[r].pc = "build" /\ build.pc = "image" /\ v \in req[r].mine
    /\ "image" \in Faults \/ ~Up(v)
    /\ Ends(r)
    /\ build' = Off
    /\ undone' = undone \cup build.built
    /\ UNCHANGED <<vm, conf, disk, config, read>>

-----------------------------------------------------------------------------
(* The steps of CloudFleet.  A launch reads the image in the configuration *)
(* before it reads the broker, that of a queue head after the search for   *)
(* one; an exception in a launch or a termination that the build has asked *)
(* for ends the build.                                                     *)

BuildGoesOn(r) ==
    IF req[r].user # Builder \/ req'[r] # Idle
    THEN UNCHANGED <<build, undone>>
    ELSE /\ build' = Off
         /\ undone' = IF req[r].pc = "drain" THEN undone ELSE undone \cup build.built

\* The credentials page does nothing while no program is offered for a cloud.
PageAsks(r) ==
    /\ offers # {}
    /\ \E u \in Users : AskStop(r, u) \/ \E n \in Counts : AskStart(r, u, n)
    /\ UNCHANGED <<disk, config, read, build, undone>>

CheckAndRead(r) ==
    /\ CheckHead(r)
    /\ read' = IF req'[r].pc = "head" THEN [read EXCEPT ![r] = image] ELSE read
    /\ UNCHANGED <<disk, config, build, undone>>

ReadImage(r) ==
    /\ ReadConf(r)
    /\ read' = [read EXCEPT ![r] = image]
    /\ UNCHANGED <<disk, config, build, undone>>

LaunchHead(r, v) ==
    /\ SpawnHead(r, v)
    /\ disk' = [disk EXCEPT ![v] = read[r]]
    /\ read' = [read EXCEPT ![r] = EmptyDisk]
    /\ UNCHANGED <<config, build, undone>>

LaunchWorkers(r, S) ==
    /\ SpawnWorkers(r, S)
    /\ disk' = [v \in VMs |-> IF v \in S THEN read[r] ELSE disk[v]]
    /\ read' = [read EXCEPT ![r] = EmptyDisk]
    /\ UNCHANGED <<config, build, undone>>

\* No other step of a request launches a machine.
OtherStep(r) ==
    /\ \/ WorkersUp(r) \/ WorkersLate(r) \/ LaunchDone(r)
       \/ \E v \in VMs : HeadUp(r, v) \/ HeadLate(r, v) \/ SetAlarm(r, v)
       \/ Refused(r) \/ AlarmRaises(r) \/ Stop(r)
    /\ BuildGoesOn(r)
    /\ UNCHANGED <<disk, config, read>>

\* The disk goes with the machine.
MachineStep(v) ==
    /\ EC2(v) \/ Sleepy(v)
    /\ disk' = IF vm'[v].state = "terminated" THEN [disk EXCEPT ![v] = EmptyDisk] ELSE disk
    /\ UNCHANGED <<config, read, build, undone>>

FleetStep ==
    \/ \E r \in Requests : \/ PageAsks(r) \/ CheckAndRead(r) \/ ReadImage(r) \/ OtherStep(r)
                           \/ \E v \in VMs : LaunchHead(r, v)
                           \/ \E S \in SUBSET VMs : LaunchWorkers(r, S)
    \/ \E v \in VMs : MachineStep(v)

BuildStep ==
    \E r \in Requests :
        \/ \E S \in SUBSET Repos \ {{}} : StartBuild(r, S)
        \/ NoneBuilt(r) \/ OfferBuilt(r)
        \/ \E v \in VMs : RemoteBuild(r, v) \/ MakeImage(r, v) \/ ImageFails(r, v)

BuildNext == BuildStep \/ FleetStep

BuildSpec == BuildInit /\ [][BuildNext]_buildVars

-----------------------------------------------------------------------------
(* Properties.                                                             *)

(* Every variable keeps its type.                                          *)
BuildTypeOK ==
    /\ TypeOK
    /\ disk \in [VMs -> Disk]
    /\ image \in Disk /\ read \in [Requests -> Disk]
    /\ offers \subseteq Programs
    /\ build \in BuildRun
    /\ undone \subseteq Programs

(* Between builds, what the wizard offers for the cloud is in the image    *)
(* that machines are launched with, however many builds came before and    *)
(* whichever of their repositories failed.  Only the programs of a build   *)
(* that raised after offering them are missing.                            *)
OfferedIsBuilt ==
    build.pc # "image" => \A p \in offers \ undone : image[p] = "built"

(* While no request and no build is under way, every running machine has   *)
(* every program that is offered (all of them take jobs, the one that a    *)
(* failed build leaves behind as well): the end of a build stops all       *)
(* machines that were launched with an older image.                        *)
WorkersRunOffered ==
    build.pc \notin {"image", "stop"} /\ (\A r \in Requests : req[r] = Idle) =>
        \A v \in VMs : vm[v].state \in Alive =>
            \A p \in offers \ undone : disk[v][p] = "built"

(* A program is never offered a second time for the same infrastructure,   *)
(* which would list it twice, unless an earlier build of it was cut short. *)
OfferedOnce ==
    build.pc = "built" => build.built \cap offers \subseteq undone

=============================================================================
