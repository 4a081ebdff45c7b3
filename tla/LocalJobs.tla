------------------------------- MODULE LocalJobs -------------------------------
(***************************************************************************)
(* The life of CloudRunner's local jobs: the wizard starts a subprocess of *)
(* the web server and keeps its process id in a LocalJobWrapper; the status*)
(* page sends signal 0 to that id; a deletion removes the output folder    *)
(* and the wrapper.  Nobody waits for the subprocess.  When it has exited  *)
(* it stays a zombie, which still answers to its id, until its parent      *)
(* starts another subprocess or dies.                                      *)
(***************************************************************************)
EXTENDS FiniteSets

CONSTANTS
    Jobs,            \* submissions: each one is a wrapper key
    Names,           \* job names; the output folder has the job's name
    NameOf,          \* the name a submission was given
    Pids,            \* the process ids of the server's machine
    NoPid,
    Requests,        \* requests to the status page in progress at the same time
    Faults           \* a subset of LocalFaultKinds

LocalFaultKinds ==
    { "restart",     \* the web server dies and is started again
      "pids",        \* other processes of the same account take free ids
      "program",     \* starting the program raises
      "names",       \* two submissions choose a name at the same time
      "tabs",        \* a deletion overlaps with other requests to the page
      "early" }      \* users delete jobs not yet shown Finished

ASSUME LocalNameOfType == NameOf \in [Jobs -> Names]
ASSUME NoPidType == NoPid \notin Pids
ASSUME LocalFaultsType == Faults \subseteq LocalFaultKinds

VARIABLES
    submit,          \* submit[j]: where the wizard is with job j
    proc,            \* proc[j]: the subprocess of job j
    pid,             \* pid[j]: the process id it was started with
    others,          \* the process ids of processes that are no jobs
    out,             \* out[n]: the jobs with output in the folder of name n
    wrap,            \* wrap[j]: the status in the LocalJobWrapper of job j
    req              \* req[r]: what request r to the status page is doing

vars == <<submit, proc, pid, others, out, wrap, req>>

-----------------------------------------------------------------------------
(* Processes.  A child belongs to the running web server, an orphan to one *)
(* that has died; only the former becomes a zombie.                        *)

Live == {"child", "orphan"}

Alive(j) == proc[j] \in Live

Zombies == {j \in Jobs : proc[j] = "zombie"}

\* Whether signal 0 to process p is delivered.
Answers(p) == p \in others \/ \E j \in Jobs : pid[j] = p /\ proc[j] \in Live \cup {"zombie"}

\* Popen first reaps the zombies that the same server instance has started.
Reaped(S) == [j \in Jobs |-> IF j \in S THEN "over" ELSE proc[j]]

Shown == {j \in Jobs : wrap[j] # "absent"}

Open == {j \in Jobs : wrap[j] \in {"unset", "running"}}

\* A folder that exists is taken as it is, with all it holds.
Opened(j) == [out EXCEPT ![NameOf[j]] = @ \cup {j}]

-----------------------------------------------------------------------------
(* A request: the wrappers its loop has still to see, the one it is at, and *)
(* the answer about that one.                                              *)

Request == [ pc : {"idle", "refresh", "save", "delete", "forget"},
             left : SUBSET Jobs, at : SUBSET Jobs,
             status : {"none", "running", "finished"} ]

Doing(pc, left, at, status) == [pc |-> pc, left |-> left, at |-> at, status |-> status]

Idle == Doing("idle", {}, {}, "none")

Init ==
    /\ submit = [j \in Jobs |-> "new"]
    /\ proc = [j \in Jobs |-> "none"]
    /\ pid = [j \in Jobs |-> NoPid]
    /\ others = {}
    /\ out = [n \in Names |-> {}]
    /\ wrap = [j \in Jobs |-> "absent"]
    /\ req = [r \in Requests |-> Idle]

-----------------------------------------------------------------------------
(* Mutants of the actions below, one plausible mistake each.  No behaviour  *)
(* of Spec takes them: they test that the properties can be violated.      *)

\* Mutant of CheckName: a name is free again as soon as its job is over.
CheckNameOfOpen(j) ==
    /\ submit[j] = "new"
    /\ \A k \in Open : NameOf[k] # NameOf[j]
    /\ "names" \in Faults \/ \A k \in Jobs \ {j} :
                               NameOf[k] = NameOf[j] => submit[k] \notin {"named", "started"}
    /\ submit' = [submit EXCEPT ![j] = "named"]
    /\ UNCHANGED <<proc, pid, others, out, wrap, req>>

\* Mutant of RefreshQuery: the server asks for its own children only.
RefreshQueryChildren(r, j) ==
    /\ req[r].pc = "refresh"
    /\ j \in req[r].left
    /\ req' = [req EXCEPT ![r] =
                 Doing("save", @.left \ {j}, {j},
                       IF proc[j] \in {"child", "zombie"} THEN "running" ELSE "finished")]
    /\ UNCHANGED <<submit, proc, pid, others, out, wrap>>

\* Mutants of RefreshSave: the text shown to the user is stored; the wrapper
\* is not put.
RefreshSaveShown(r) ==
    /\ req[r].pc = "save"
    /\ wrap' = [j \in Jobs |-> IF j \in req[r].at THEN "Running" ELSE wrap[j]]
    /\ req' = [req EXCEPT ![r] = Doing("refresh", @.left, {}, "none")]
    /\ UNCHANGED <<submit, proc, pid, others, out>>

RefreshSaveForgotten(r) ==
    /\ req[r].pc = "save"
    /\ req' = [req EXCEPT ![r] = Doing("refresh", @.left, {}, "none")]
    /\ UNCHANGED <<submit, proc, pid, others, out, wrap>>

-----------------------------------------------------------------------------
(* The submission wizard.                                                  *)

\* Step 2 accepts a name that no wrapper has.
CheckName(j) ==
    /\ submit[j] = "new"
    /\ \A k \in Shown : NameOf[k] # NameOf[j]
    /\ "names" \in Faults \/ \A k \in Jobs \ {j} :
                               NameOf[k] = NameOf[j] => submit[k] \notin {"named", "started"}
    /\ submit' = [submit EXCEPT ![j] = "named"]
    /\ UNCHANGED <<proc, pid, others, out, wrap, req>>

\* Step 3, BaseJob.run: the folder, the files, the subprocess.  One that has
\* exited when run returns is reaped with its Popen object.
Start(j) ==
    /\ submit[j] = "named"
    /\ submit' = [submit EXCEPT ![j] = "started"]
    /\ out' = Opened(j)
    /\ \E S \in SUBSET Zombies, now \in {"child", "over"}, p \in Pids :
         /\ p \notin others
         /\ \A k \in Jobs \ S : proc[k] \in Live \cup {"zombie"} => pid[k] # p
         /\ proc' = [Reaped(S) EXCEPT ![j] = now]
         /\ pid' = [pid EXCEPT ![j] = p]
    /\ UNCHANGED <<others, wrap, req>>

\* The folder and the files are there when starting the program raises.
StartRaises(j) ==
    /\ "program" \in Faults
    /\ submit[j] = "named"
    /\ submit' = [submit EXCEPT ![j] = "dropped"]
    /\ out' = Opened(j)
    /\ \E S \in SUBSET Zombies : proc' = Reaped(S)
    /\ UNCHANGED <<pid, others, wrap, req>>

\* The wrapper that makes the job visible is created after the process.
SaveWrapper(j) ==
    /\ submit[j] = "started"
    /\ submit' = [submit EXCEPT ![j] = "done"]
    /\ wrap' = [wrap EXCEPT ![j] = "unset"]
    /\ UNCHANGED <<proc, pid, others, out, req>>

-----------------------------------------------------------------------------
(* Processes and the server's machine.                                     *)

Exit(j) ==
    /\ Alive(j)
    /\ proc' = [proc EXCEPT ![j] = IF @ = "child" THEN "zombie" ELSE "over"]
    /\ UNCHANGED <<submit, pid, others, out, wrap, req>>

\* The jobs survive the web server, the submissions in progress do not.
Restart ==
    /\ "restart" \in Faults
    /\ proc' = [j \in Jobs |-> CASE proc[j] = "child"  -> "orphan"
                                 [] proc[j] = "zombie" -> "over"
                                 [] OTHER              -> proc[j]]
    /\ submit' = [j \in Jobs |-> IF submit[j] = "started" THEN "dropped" ELSE submit[j]]
    /\ req' = [r \in Requests |-> Idle]
    /\ UNCHANGED <<pid, others, out, wrap>>

OtherStarts(p) ==
    /\ "pids" \in Faults
    /\ ~Answers(p)
    /\ others' = others \cup {p}
    /\ UNCHANGED <<submit, proc, pid, out, wrap, req>>

OtherEnds(p) ==
    /\ p \in others
    /\ others' = others \ {p}
    /\ UNCHANGED <<submit, proc, pid, out, wrap, req>>

-----------------------------------------------------------------------------
(* The status page.                                                        *)

Deleting(r) == req[r].pc \in {"delete", "forget"}

RefreshLoad(r) ==
    /\ req[r].pc = "idle"
    /\ "tabs" \in Faults \/ \A q \in Requests : ~Deleting(q)
    /\ Open # {}
    /\ req' = [req EXCEPT ![r] = Doing("refresh", Open, {}, "none")]
    /\ UNCHANGED <<submit, proc, pid, others, out, wrap>>

\* A process that does not answer has finished, however it ended.
RefreshQuery(r, j) ==
    /\ req[r].pc = "refresh"
    /\ j \in req[r].left
    /\ req' = [req EXCEPT ![r] =
                 Doing("save", @.left \ {j}, {j},
                       IF Answers(pid[j]) THEN "running" ELSE "finished")]
    /\ UNCHANGED <<submit, proc, pid, others, out, wrap>>

\* The loaded wrapper is put, even if it has been deleted or settled since.
RefreshSave(r) ==
    /\ req[r].pc = "save"
    /\ wrap' = [j \in Jobs |-> IF j \in req[r].at THEN req[r].status ELSE wrap[j]]
    /\ req' = [req EXCEPT ![r] = Doing("refresh", @.left, {}, "none")]
    /\ UNCHANGED <<submit, proc, pid, others, out>>

DeleteLoad(r, selected) ==
    /\ req[r].pc = "idle"
    /\ "tabs" \in Faults \/ \A q \in Requests : req[q] = Idle
    /\ LET chosen == {j \in Shown : NameOf[j] \in selected}
       IN  /\ chosen # {}
           /\ "early" \in Faults \/ \A j \in chosen : wrap[j] = "finished"
           /\ req' = [req EXCEPT ![r] = Doing("delete", chosen, {}, "none")]
    /\ UNCHANGED <<submit, proc, pid, others, out, wrap>>

\* The folder goes first; the process, if it still runs, is not stopped.
DeleteFolder(r, j) ==
    /\ req[r].pc = "delete"
    /\ j \in req[r].left
    /\ out' = [out EXCEPT ![NameOf[j]] = {}]
    /\ req' = [req EXCEPT ![r] = Doing("forget", @.left \ {j}, {j}, "none")]
    /\ UNCHANGED <<submit, proc, pid, others, wrap>>

DeleteWrapper(r) ==
    /\ req[r].pc = "forget"
    /\ wrap' = [j \in Jobs |-> IF j \in req[r].at THEN "absent" ELSE wrap[j]]
    /\ req' = [req EXCEPT ![r] = Doing("delete", @.left, {}, "none")]
    /\ UNCHANGED <<submit, proc, pid, others, out>>

Respond(r) ==
    /\ req[r].pc \in {"refresh", "delete"}
    /\ req[r].left = {}
    /\ req' = [req EXCEPT ![r] = Idle]
    /\ UNCHANGED <<submit, proc, pid, others, out, wrap>>

\* Packing the output of a job for its user runs tar as a subprocess.
Pack(j) ==
    /\ j \in Shown
    /\ \E S \in SUBSET Zombies : proc' = Reaped(S)
    /\ UNCHANGED <<submit, pid, others, out, wrap, req>>

-----------------------------------------------------------------------------
Wizard(j) == CheckName(j) \/ Start(j) \/ StartRaises(j) \/ SaveWrapper(j)

Machine == \/ Restart
           \/ \E j \in Jobs : Exit(j)
           \/ \E p \in Pids : OtherStarts(p) \/ OtherEnds(p)

UserAsks(r) == RefreshLoad(r) \/ \E selected \in SUBSET Names : DeleteLoad(r, selected)

Handle(r) == \/ RefreshSave(r) \/ DeleteWrapper(r) \/ Respond(r)
             \/ \E j \in Jobs : RefreshQuery(r, j) \/ DeleteFolder(r, j)

Next == \/ \E j \in Jobs : Wizard(j) \/ Pack(j)
        \/ \E r \in Requests : UserAsks(r) \/ Handle(r)
        \/ Machine

Spec == Init /\ [][Next]_vars

(* A request that has been made goes on.                                   *)
FairSpec == Spec /\ \A r \in Requests : WF_vars(Handle(r))

-----------------------------------------------------------------------------
(* Properties.                                                             *)

(* Every variable keeps its type.                                          *)
TypeOK ==
    /\ submit \in [Jobs -> {"new", "named", "started", "done", "dropped"}]
    /\ proc \in [Jobs -> {"none", "child", "orphan", "zombie", "over"}]
    /\ pid \in [Jobs -> Pids \cup {NoPid}]
    /\ others \subseteq Pids
    /\ out \in [Names -> SUBSET Jobs]
    /\ wrap \in [Jobs -> {"absent", "unset", "running", "finished"}]
    /\ req \in [Requests -> Request]

(* A job that the page shows as Finished has ended, although the page only *)
(* ever asks for a number: whatever restarts come between, and however ids *)
(* are given to other processes or queries of two requests overlap.  The   *)
(* page never asks again, and users fetch or delete the output then.       *)
ShownFinishedIsOver == \A j \in Jobs : wrap[j] = "finished" => proc[j] = "over"

(* The folder of a running job that the page shows holds the job's output, *)
(* and that of no other job the page shows, although names and with them   *)
(* folders are used again after a deletion.                                *)
RunningJobOwnsFolder ==
    \A j \in Shown :
        Alive(j) => /\ j \in out[NameOf[j]]
                    /\ \A k \in out[NameOf[j]] \ {j} : k \notin Shown

(* For a user who gets the page again and again, a job whose process id is *)
(* not in use any more ends up as Finished, although a slow request can    *)
(* put Running back over it.                                               *)
ShownStatusConverges ==
    []<>(Open = {} \/ \E r \in Requests : req[r].pc = "refresh" /\ req[r].left = {})
    => \A j \in Jobs : <>[](proc[j] = "over" /\ ~Answers(pid[j])) => <>[](j \notin Open)

=============================================================================
