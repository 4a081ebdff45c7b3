------------------------------- MODULE CloudJobs -------------------------------
(***************************************************************************)
(* The life of CloudRunner's cloud jobs, from the submission wizard to the *)
(* status page.  Three kinds of processes share no lock:                   *)
(*   - web handlers of the GAE application (wizard, status page, download),*)
(*     each a sequence of datastore, DynamoDB, broker and S3 calls;        *)
(*   - one Celery task per job on some worker VM;                          *)
(*   - the failures that the environment may add (constant Faults).        *)
(* Every remote call is a step of its own, so that any other process can   *)
(* run between two calls of the same handler.                              *)
(***************************************************************************)
EXTENDS FiniteSets

CONSTANTS
    Jobs,            \* submissions: each one is a database id and a wrapper key
    Names,           \* job names: the wizard's key, the S3 key and the folder
    NameOf,          \* the name a submission was given
    Requests,        \* web requests in flight at the same time
    Faults,          \* the failures the environment adds, a subset of FaultKinds
    DeleteRunning    \* whether users delete jobs not yet shown Finished or Failed

FaultKinds ==
    { "put",         \* a write to DynamoDB raises and has no effect
      "reply",       \* a write to DynamoDB takes effect and still raises
      "table",       \* looking the table up raises: it is taken for missing
      "get",         \* a batched read leaves out an entry that exists
      "batch",       \* a batched delete raises, with any of its items deleted
      "s3",          \* a call to S3 raises
      "web",         \* a web request dies between two of its calls
      "worker",      \* a worker VM dies with the task it has acknowledged
      "broker" }     \* the queue head is stopped, with all waiting messages

ASSUME NameOfType == NameOf \in [Jobs -> Names]
ASSUME FaultsType == Faults \subseteq FaultKinds
ASSUME DeleteRunningType == DeleteRunning \in BOOLEAN

VARIABLES
    submit,          \* submit[j]: where the wizard is with job j
    queue,           \* the broker's messages, one per job waiting for a worker
    db,              \* db[j]: the entry of job j in the DynamoDB table
    s3,              \* the names under which the bucket holds an object
    task,            \* task[j]: the Celery task of job j
    wrap,            \* wrap[j]: the CloudJobWrapper of job j in the GAE datastore
    folders,         \* the names with a folder in the server's output directory
    req              \* req[r]: what web request r is doing

vars == <<submit, queue, db, s3, task, wrap, folders, req>>

-----------------------------------------------------------------------------
(* The stored data.  An entry keeps its status and whether it has the      *)
(* attributes "output_url" (and "exec_str") and "exception"/"traceback".   *)

NoEntry == [status |-> "none", url |-> FALSE, exc |-> FALSE]

Entry == [ status : {"pending", "running", "failed", "finished"},
           url : BOOLEAN, exc : BOOLEAN ] \cup {NoEntry}

PendingEntry == [status |-> "pending", url |-> FALSE, exc |-> FALSE]

Wrapper == [ status : {"absent", "unset", "pending", "running",
                       "failed", "finished"},
             url : BOOLEAN, local : BOOLEAN ]

NoWrapper == [status |-> "absent", url |-> FALSE, local |-> FALSE]

\* A wrapper as the wizard creates it: no status and no output_location yet.
NewWrapper == [status |-> "unset", url |-> FALSE, local |-> FALSE]

Terminal == {"failed", "finished"}

-----------------------------------------------------------------------------
(* The Celery task.  pc "get" and "put" are the two halves of every        *)
(* database update; goal says which update the task is making; item is the *)
(* entry that the first half read; exit is how the program ended.          *)

Task == [ pc : {"none", "get", "put", "run", "upload", "done", "lost"},
          goal : {"none", "running", "norun", "failed", "finished", "exception"},
          item : Entry,
          exit : {"none", "ok", "bad"} ]

At(pc, goal, item, exit) == [pc |-> pc, goal |-> goal, item |-> item, exit |-> exit]

NoTask == At("none", "none", NoEntry, "none")

Active == {"get", "put", "run", "upload"}

\* Mutant of Merged: the update's own name is written as the status.
MergedUnmapped(entry, goal) ==
    [status |-> goal, url |-> entry.url \/ goal \in Terminal,
     exc |-> entry.exc \/ goal = "exception"]

\* Mutant of Merged: a program that failed is recorded like one that did not.
MergedFallThrough(entry, goal) ==
    [status |-> CASE goal = "running" -> "running"
                  [] goal \in Terminal -> "finished"
                  [] OTHER -> "failed",
     url |-> entry.url \/ goal \in Terminal,
     exc |-> entry.exc \/ goal = "exception"]

\* Mutant of Merged: a program that ended well leaves no output_url.
MergedForgetsUrl(entry, goal) ==
    [status |-> CASE goal = "running" -> "running"
                  [] goal = "finished" -> "finished"
                  [] OTHER -> "failed",
     url |-> entry.url \/ goal = "failed",
     exc |-> entry.exc \/ goal = "exception"]

\* The attributes that each update of the task writes over the entry it read.
Merged(entry, goal) ==
    [ status |-> CASE goal = "running"  -> "running"
                   [] goal = "finished" -> "finished"
                   [] OTHER             -> "failed",
      url |-> entry.url \/ goal \in Terminal,
      exc |-> entry.exc \/ goal = "exception" ]

\* What an exception does to the task: its handler tries to record it, and
\* an exception inside the handler ends the task.
Raised(t) ==
    IF t.goal = "exception"
    THEN At("done", t.goal, NoEntry, t.exit)
    ELSE At("get", "exception", NoEntry, t.exit)

\* Where the task goes on after an update that did not raise.
Updated(t) == At(IF t.goal = "running" THEN "run" ELSE "done", t.goal, NoEntry, t.exit)

-----------------------------------------------------------------------------
(* A web request: pc, the wrappers it loaded, the entries it read, and the *)
(* jobs it still has to handle in the current loop.                        *)

Request == [ pc : {"idle", "refresh", "save", "pageError", "lookup",
                   "deleteDB", "deleteS3", "deleteWrapper",
                   "fetch", "unpack", "saveLocal"},
             seen : [Jobs -> Wrapper],
             got : [Jobs -> Entry],
             left : SUBSET Jobs ]

NoneSeen == [j \in Jobs |-> NoWrapper]
NoneGot == [j \in Jobs |-> NoEntry]

Doing(pc, seen, got, left) == [pc |-> pc, seen |-> seen, got |-> got, left |-> left]

Idle == Doing("idle", NoneSeen, NoneGot, {})

\* The wrappers of the jobs in S, as a datastore query returns them.
Load(S) == [j \in Jobs |-> IF j \in S THEN wrap[j] ELSE NoWrapper]

Stored == {j \in Jobs : wrap[j] # NoWrapper}

\* The answers that CloudDB.get may give for the jobs in S.  DynamoDB reads,
\* here and in TaskGet, are taken to see every earlier write: the code asks for
\* eventually consistent ones, which may be older.
Answers(S) ==
    {[j \in Jobs |-> IF j \in S \ missed THEN db[j] ELSE NoEntry] :
        missed \in IF "get" \in Faults THEN SUBSET S ELSE {{}}}

-----------------------------------------------------------------------------
Init ==
    /\ submit = [j \in Jobs |-> "new"]
    /\ queue = {}
    /\ db = [j \in Jobs |-> NoEntry]
    /\ s3 = {}
    /\ task = [j \in Jobs |-> NoTask]
    /\ wrap = [j \in Jobs |-> NoWrapper]
    /\ folders = {}
    /\ req = [r \in Requests |-> Idle]

-----------------------------------------------------------------------------
(* Mutants of the actions below, one plausible mistake each.  No behaviour  *)
(* of Spec takes them: they test that the properties can be violated.      *)

\* Mutant of Deliver: the task starts its job without the RUNNING update.
DeliverSilently(j) ==
    /\ j \in queue
    /\ queue' = queue \ {j}
    /\ task' = [task EXCEPT ![j] = At("run", "running", NoEntry, "none")]
    /\ UNCHANGED <<submit, db, s3, wrap, folders, req>>

\* Mutant of TaskPut: no return after the FAILED update.
TaskPutNoReturn(j) ==
    /\ task[j].pc = "put"
    /\ db' = [db EXCEPT ![j] = Merged(task[j].item, task[j].goal)]
    /\ task' = [task EXCEPT ![j] =
                  CASE @.goal = "running" -> At("run", @.goal, NoEntry, @.exit)
                    [] @.goal = "failed"  -> At("get", "finished", NoEntry, @.exit)
                    [] OTHER              -> At("done", @.goal, NoEntry, @.exit)]
    /\ UNCHANGED <<submit, queue, s3, wrap, folders, req>>

\* Mutant of RunJob: a refused job ends the task without an update.
RunJobForgetsRefusal(j) ==
    /\ task[j].pc = "run"
    /\ \/ task' = [task EXCEPT ![j] = At("done", "norun", NoEntry, "none")]
       \/ task' = [task EXCEPT ![j] = At("upload", "finished", NoEntry, "ok")]
    /\ UNCHANGED <<submit, queue, db, s3, wrap, folders, req>>

\* Mutant of Upload: an exception of S3 is swallowed.
UploadSwallowsError(j) ==
    /\ task[j].pc = "upload"
    /\ s3' \in {s3, s3 \cup {NameOf[j]}}
    /\ task' = [task EXCEPT ![j] = At("get", @.goal, NoEntry, @.exit)]
    /\ UNCHANGED <<submit, queue, db, wrap, folders, req>>

\* Mutant of RefreshSave: the wrapper is put before its status is assigned.
RefreshSaveStale(r, j) ==
    /\ req[r].pc = "save"
    /\ req[r].got[j] # NoEntry
    /\ wrap' = [wrap EXCEPT ![j] = req[r].seen[j]]
    /\ req' = [req EXCEPT ![r] = Doing("refresh", [@.seen EXCEPT ![j] = NoWrapper],
                                       NoneGot, @.left \ {j})]
    /\ UNCHANGED <<submit, queue, db, s3, task, folders>>

\* Mutant of DeleteEntriesDone: the outputs are forgotten.
DeleteEntriesOnly(r) ==
    /\ req[r].pc = "deleteDB"
    /\ req[r].left = {}
    /\ req' = [req EXCEPT ![r] = Doing("deleteS3", @.seen, @.got, {})]
    /\ UNCHANGED <<submit, queue, db, s3, task, wrap, folders>>

-----------------------------------------------------------------------------
(* The submission wizard.                                                  *)

\* Step 2 accepts a name that no wrapper has.
CheckName(j) ==
    /\ submit[j] = "new"
    /\ \A k \in Stored : NameOf[k] # NameOf[j]
    /\ submit' = [submit EXCEPT ![j] = "named"]
    /\ UNCHANGED <<queue, db, s3, task, wrap, folders, req>>

\* Step 3, first call: the database entry, with a fresh id.  When its reply is
\* lost the request ends with the entry there and no message sent.
CreateEntry(j) ==
    /\ submit[j] = "named"
    /\ db' = [db EXCEPT ![j] = PendingEntry]
    /\ \/ submit' = [submit EXCEPT ![j] = "created"]
       \/ /\ "reply" \in Faults
          /\ submit' = [submit EXCEPT ![j] = "dropped"]
    /\ UNCHANGED <<queue, s3, task, wrap, folders, req>>

\* Step 3, second call: the message to the broker.
Enqueue(j) ==
    /\ submit[j] = "created"
    /\ submit' = [submit EXCEPT ![j] = "queued"]
    /\ queue' = queue \cup {j}
    /\ UNCHANGED <<db, s3, task, wrap, folders, req>>

\* Step 3, third call: the wrapper that makes the job visible.
SaveWrapper(j) ==
    /\ submit[j] = "queued"
    /\ submit' = [submit EXCEPT ![j] = "done"]
    /\ wrap' = [wrap EXCEPT ![j] = NewWrapper]
    /\ UNCHANGED <<queue, db, s3, task, folders, req>>

\* The broker cannot be reached, or the server stops, inside step 3.
SubmitDies(j) ==
    /\ "web" \in Faults
    /\ submit[j] \in {"created", "queued"}
    /\ submit' = [submit EXCEPT ![j] = "dropped"]
    /\ UNCHANGED <<queue, db, s3, task, wrap, folders, req>>

-----------------------------------------------------------------------------
(* The worker.  The message is acknowledged before the task runs, so that  *)
(* it is gone from the queue whatever happens to the worker.               *)

Deliver(j) ==
    /\ j \in queue
    /\ queue' = queue \ {j}
    /\ task' = [task EXCEPT ![j] = At("get", "running", NoEntry, "none")]
    /\ UNCHANGED <<submit, db, s3, wrap, folders, req>>

\* First half of update_db_entry: reading an entry that is gone raises.
TaskGet(j) ==
    /\ task[j].pc = "get"
    /\ task' = [task EXCEPT ![j] =
                  IF db[j] = NoEntry
                  THEN Raised(@)
                  ELSE At("put", @.goal, db[j], @.exit)]
    /\ UNCHANGED <<submit, queue, db, s3, wrap, folders, req>>

\* Second half: the whole item is written, whatever the table holds by now.
TaskPut(j) ==
    /\ task[j].pc = "put"
    /\ db' = [db EXCEPT ![j] = Merged(task[j].item, task[j].goal)]
    /\ \/ task' = [task EXCEPT ![j] = Updated(@)]
       \/ /\ "reply" \in Faults
          /\ task' = [task EXCEPT ![j] = Raised(@)]
    /\ UNCHANGED <<submit, queue, s3, wrap, folders, req>>

\* Either half raises before it has any effect.
TaskUpdateFails(j) ==
    /\ "put" \in Faults
    /\ task[j].pc \in {"get", "put"}
    /\ task' = [task EXCEPT ![j] = Raised(@)]
    /\ UNCHANGED <<submit, queue, db, s3, wrap, folders, req>>

\* An update of a table that seems to be missing is dropped: put answers False,
\* which nobody reads.
TaskUpdateSkipped(j) ==
    /\ "table" \in Faults
    /\ task[j].pc = "get"
    /\ task' = [task EXCEPT ![j] = Updated(@)]
    /\ UNCHANGED <<submit, queue, db, s3, wrap, folders, req>>

\* The job: it may raise (a missing program), be refused (no output
\* directory), or run to the end with a zero or nonzero exit status.
RunJob(j) ==
    /\ task[j].pc = "run"
    /\ \/ task' = [task EXCEPT ![j] = Raised(@)]
       \/ task' = [task EXCEPT ![j] = At("get", "norun", NoEntry, "none")]
       \/ task' = [task EXCEPT ![j] = At("upload", "failed", NoEntry, "bad")]
       \/ task' = [task EXCEPT ![j] = At("upload", "finished", NoEntry, "ok")]
    /\ UNCHANGED <<submit, queue, db, s3, wrap, folders, req>>

\* The output goes to S3 before the database says where it is.
Upload(j) ==
    /\ task[j].pc = "upload"
    /\ \/ /\ s3' = s3 \cup {NameOf[j]}
          /\ task' = [task EXCEPT ![j] = At("get", @.goal, NoEntry, @.exit)]
       \/ /\ "s3" \in Faults
          /\ task' = [task EXCEPT ![j] = Raised(@)]
          /\ UNCHANGED s3
    /\ UNCHANGED <<submit, queue, db, wrap, folders, req>>

WorkerDies(j) ==
    /\ "worker" \in Faults
    /\ task[j].pc \in Active
    /\ task' = [task EXCEPT ![j] = At("lost", @.goal, NoEntry, @.exit)]
    /\ UNCHANGED <<submit, queue, db, s3, wrap, folders, req>>

\* A request to stop machines terminates the queue head like any other one.
BrokerDies ==
    /\ "broker" \in Faults
    /\ queue # {}
    /\ queue' = {}
    /\ UNCHANGED <<submit, db, s3, task, wrap, folders, req>>

-----------------------------------------------------------------------------
(* The status page.  It loads all wrappers, and asks the database about    *)
(* those not yet shown Finished or Failed, one at a time.                  *)

RefreshLoad(r) ==
    /\ req[r].pc = "idle"
    /\ LET open == {j \in Stored : wrap[j].status \notin Terminal}
       IN  /\ open # {}
           /\ req' = [req EXCEPT ![r] = Doing("refresh", Load(open), NoneGot, open)]
    /\ UNCHANGED <<submit, queue, db, s3, task, wrap, folders>>

\* The page reads keys that the answer may not have: the job's own entry, and
\* "exception" when the job failed.  A missing key ends the request.
RefreshQuery(r, j) ==
    /\ req[r].pc = "refresh"
    /\ j \in req[r].left
    /\ \E answer \in Answers({j}) :
         req' = [req EXCEPT ![r] =
                   IF \/ answer[j] = NoEntry
                      \/ answer[j].status = "failed" /\ ~answer[j].exc
                   THEN Doing("pageError", NoneSeen, NoneGot, {})
                   ELSE Doing("save", @.seen, answer, @.left)]
    /\ UNCHANGED <<submit, queue, db, s3, task, wrap, folders>>

\* When the table seems to be missing the job is shown as Unknown.
RefreshUnknown(r, j) ==
    /\ "table" \in Faults
    /\ req[r].pc = "refresh"
    /\ j \in req[r].left
    /\ req' = [req EXCEPT ![r] = Doing("refresh", [@.seen EXCEPT ![j] = NoWrapper],
                                       NoneGot, @.left \ {j})]
    /\ UNCHANGED <<submit, queue, db, s3, task, wrap, folders>>

\* The whole wrapper that was loaded is put back with the new status.
RefreshSave(r, j) ==
    /\ req[r].pc = "save"
    /\ req[r].got[j] # NoEntry
    /\ LET entry == req[r].got[j]
           loaded == req[r].seen[j]
       IN  wrap' = [wrap EXCEPT ![j] =
                      [ status |-> entry.status,
                        url |-> loaded.url \/ entry.status = "finished",
                        local |-> loaded.local ]]
    /\ req' = [req EXCEPT ![r] = Doing("refresh", [@.seen EXCEPT ![j] = NoWrapper],
                                       NoneGot, @.left \ {j})]
    /\ UNCHANGED <<submit, queue, db, s3, task, folders>>

\* The page is rendered, or answered with an error.
RefreshRespond(r) ==
    /\ \/ req[r].pc = "refresh" /\ req[r].left = {}
       \/ req[r].pc = "pageError"
    /\ req' = [req EXCEPT ![r] = Idle]
    /\ UNCHANGED <<submit, queue, db, s3, task, wrap, folders>>

-----------------------------------------------------------------------------
(* Deleting the selected jobs.                                             *)

DeleteLoad(r, selected) ==
    /\ req[r].pc = "idle"
    /\ LET chosen == {j \in Stored : NameOf[j] \in selected}
       IN  /\ chosen # {}
           /\ DeleteRunning \/ \A j \in chosen : wrap[j].status \in Terminal
           /\ req' = [req EXCEPT ![r] = Doing("lookup", Load(chosen), NoneGot, chosen)]
    /\ UNCHANGED <<submit, queue, db, s3, task, wrap, folders>>

\* delete_job reads the entries first: they say where the outputs are.  It
\* does not look at the success of that read.
DeleteLookup(r) ==
    /\ req[r].pc = "lookup"
    /\ \E answer \in Answers(req[r].left)
                     \cup (IF "table" \in Faults THEN {NoneGot} ELSE {}) :
         req' = [req EXCEPT ![r] = Doing("deleteDB", @.seen, answer, @.left)]
    /\ UNCHANGED <<submit, queue, db, s3, task, wrap, folders>>

\* The table seems to be missing when the deletion starts: it is refused.
DeleteRefused(r) ==
    /\ "table" \in Faults
    /\ req[r].pc = "deleteDB"
    /\ req[r].left = {j \in Jobs : req[r].seen[j] # NoWrapper}
    /\ req' = [req EXCEPT ![r] = Idle]
    /\ UNCHANGED <<submit, queue, db, s3, task, wrap, folders>>

\* Each item of the batch is deleted on its own.
DeleteEntry(r, j) ==
    /\ req[r].pc = "deleteDB"
    /\ j \in req[r].left
    /\ db' = [db EXCEPT ![j] = NoEntry]
    /\ req' = [req EXCEPT ![r] = Doing(@.pc, @.seen, @.got, @.left \ {j})]
    /\ UNCHANGED <<submit, queue, s3, task, wrap, folders>>

\* A call of the batched deletion raises, its own or the retry of items that
\* DynamoDB left unprocessed (BatchDelete has both): the request ends there,
\* and any of the entries, or all of them, are deleted.
DeleteBatchRaises(r) ==
    /\ "batch" \in Faults
    /\ req[r].pc = "deleteDB"
    /\ req' = [req EXCEPT ![r] = Idle]
    /\ UNCHANGED <<submit, queue, db, s3, task, wrap, folders>>

\* All entries are gone: go on with the outputs the first read has seen.
DeleteEntriesDone(r) ==
    /\ req[r].pc = "deleteDB"
    /\ req[r].left = {}
    /\ req' = [req EXCEPT ![r] = Doing("deleteS3", @.seen, @.got,
                                       {j \in Jobs : @.got[j].url})]
    /\ UNCHANGED <<submit, queue, db, s3, task, wrap, folders>>

\* A key that is not there makes the deletion of that job a failure: its
\* wrapper stays.  An exception of S3 ends the request.
DeleteOutput(r, j) ==
    /\ req[r].pc = "deleteS3"
    /\ j \in req[r].left
    /\ \/ /\ s3' = s3 \ {NameOf[j]}
          /\ req' = [req EXCEPT ![r] =
                       Doing(@.pc,
                             IF NameOf[j] \in s3
                             THEN @.seen ELSE [@.seen EXCEPT ![j] = NoWrapper],
                             @.got, @.left \ {j})]
       \/ /\ "s3" \in Faults
          /\ req' = [req EXCEPT ![r] = Idle]
          /\ UNCHANGED s3
    /\ UNCHANGED <<submit, queue, db, task, wrap, folders>>

DeleteOutputsDone(r) ==
    /\ req[r].pc = "deleteS3"
    /\ req[r].left = {}
    /\ req' = [req EXCEPT ![r] = Doing("deleteWrapper", @.seen, @.got,
                                       {j \in Jobs : @.seen[j] # NoWrapper})]
    /\ UNCHANGED <<submit, queue, db, s3, task, wrap, folders>>

\* The local copy, if the loaded wrapper knew of one, then the wrapper.
DeleteWrapper(r, j) ==
    /\ req[r].pc = "deleteWrapper"
    /\ j \in req[r].left
    /\ folders' = IF req[r].seen[j].local THEN folders \ {NameOf[j]} ELSE folders
    /\ wrap' = [wrap EXCEPT ![j] = NoWrapper]
    /\ req' = [req EXCEPT ![r] = Doing(@.pc, @.seen, @.got, @.left \ {j})]
    /\ UNCHANGED <<submit, queue, db, s3, task>>

DeleteRespond(r) ==
    /\ req[r].pc = "deleteWrapper"
    /\ req[r].left = {}
    /\ req' = [req EXCEPT ![r] = Idle]
    /\ UNCHANGED <<submit, queue, db, s3, task, wrap, folders>>

-----------------------------------------------------------------------------
(* Downloading the output of a job to the server.                          *)

\* Without an output_url the request raises and changes nothing.
PullLoad(r, j) ==
    /\ req[r].pc = "idle"
    /\ j \in Stored
    /\ wrap[j].url
    /\ req' = [req EXCEPT ![r] = Doing("fetch", Load({j}), NoneGot, {j})]
    /\ UNCHANGED <<submit, queue, db, s3, task, wrap, folders>>

\* No object of that name ends the request with a message.
PullFetch(r) ==
    /\ req[r].pc = "fetch"
    /\ req' = [req EXCEPT ![r] = IF \E j \in @.left : NameOf[j] \in s3
                                THEN Doing("unpack", @.seen, @.got, @.left) ELSE Idle]
    /\ UNCHANGED <<submit, queue, db, s3, task, wrap, folders>>

\* So does a folder of that name: nothing is ever unpacked over another one.
PullUnpack(r, j) ==
    /\ req[r].pc = "unpack"
    /\ j \in req[r].left
    /\ folders' = folders \cup {NameOf[j]}
    /\ req' = [req EXCEPT ![r] = IF NameOf[j] \in folders
                                THEN Idle
                                ELSE Doing("saveLocal", @.seen, @.got, @.left)]
    /\ UNCHANGED <<submit, queue, db, s3, task, wrap>>

PullSave(r, j) ==
    /\ req[r].pc = "saveLocal"
    /\ j \in req[r].left
    /\ LET loaded == req[r].seen[j]
       IN  wrap' = [wrap EXCEPT ![j] = [ status |-> loaded.status,
                                         url |-> loaded.url,
                                         local |-> TRUE ]]
    /\ req' = [req EXCEPT ![r] = Idle]
    /\ UNCHANGED <<submit, queue, db, s3, task, folders>>

\* The server stops serving the request between two of its calls.
RequestDies(r) ==
    /\ "web" \in Faults
    /\ req[r].pc # "idle"
    /\ req' = [req EXCEPT ![r] = Idle]
    /\ UNCHANGED <<submit, queue, db, s3, task, wrap, folders>>

-----------------------------------------------------------------------------
Wizard(j) == CheckName(j) \/ CreateEntry(j) \/ Enqueue(j) \/ SaveWrapper(j)

\* The steps of a task once a worker has it.
TaskStep(j) == TaskGet(j) \/ TaskPut(j) \/ RunJob(j) \/ Upload(j)

\* The steps that a request takes once a user has made it.
Refresh(r) == \/ \E j \in Jobs : RefreshQuery(r, j) \/ RefreshSave(r, j)
              \/ RefreshRespond(r)

Delete(r) == \/ DeleteLookup(r) \/ DeleteEntriesDone(r) \/ DeleteOutputsDone(r)
             \/ DeleteRespond(r)
             \/ \E j \in Jobs : \/ DeleteEntry(r, j) \/ DeleteOutput(r, j)
                                \/ DeleteWrapper(r, j)

Pull(r) == \/ PullFetch(r)
           \/ \E j \in Jobs : PullUnpack(r, j) \/ PullSave(r, j)

UserAsks(r) == \/ RefreshLoad(r)
               \/ \E selected \in SUBSET Names : DeleteLoad(r, selected)
               \/ \E j \in Jobs : PullLoad(r, j)

Failure == \/ \E j \in Jobs : \/ SubmitDies(j) \/ WorkerDies(j)
                              \/ TaskUpdateFails(j) \/ TaskUpdateSkipped(j)
           \/ \E r \in Requests : \/ DeleteRefused(r) \/ DeleteBatchRaises(r)
                                  \/ RequestDies(r)
                                  \/ \E j \in Jobs : RefreshUnknown(r, j)
           \/ BrokerDies

Next ==
    \/ \E j \in Jobs : Wizard(j) \/ Deliver(j) \/ TaskStep(j)
    \/ \E r \in Requests : UserAsks(r) \/ Refresh(r) \/ Delete(r) \/ Pull(r)
    \/ Failure

Spec == Init /\ [][Next]_vars

(* What the code lets run to its end: a handler that has started, a message *)
(* that some worker takes, and a task whose program terminates.  Users owe  *)
(* nothing, so that no request is ever fair before it is made.              *)
Fairness ==
    /\ \A j \in Jobs : /\ WF_vars(Enqueue(j)) /\ WF_vars(SaveWrapper(j))
                       /\ WF_vars(Deliver(j)) /\ WF_vars(TaskStep(j))
    /\ \A r \in Requests : WF_vars(Refresh(r) \/ Delete(r) \/ Pull(r))

FairSpec == Spec /\ Fairness

-----------------------------------------------------------------------------
(* Properties.                                                             *)

(* Every variable keeps its type.                                          *)
TypeOK ==
    /\ submit \in [Jobs -> {"new", "named", "created", "queued", "done", "dropped"}]
    /\ queue \subseteq Jobs
    /\ db \in [Jobs -> Entry]
    /\ s3 \subseteq Names
    /\ task \in [Jobs -> Task]
    /\ wrap \in [Jobs -> Wrapper]
    /\ folders \subseteq Names
    /\ req \in [Requests -> Request]

NameUnshared(j) == \A k \in Jobs \ {j} : NameOf[k] # NameOf[j]

(* An entry that says where the output is never outlives the output: tasks *)
(* upload before they record the url, and a deletion removes the entry     *)
(* before the object, whatever other requests and failures come between.   *)
(* (With "reply" failures a task can record a url it has read before a     *)
(* deletion, after that deletion has removed the object.)                  *)
RecordedOutputExists ==
    \A j \in Jobs : db[j].url /\ NameUnshared(j) => NameOf[j] \in s3

(* The status and the download that the page shows are those of the job's  *)
(* own run: Finished only after exit status 0, Failed never after a run    *)
(* that ended well and was recorded.  The page keeps final statuses and    *)
(* never asks again, so that a wrong one would stay.                       *)
ShownOutcomeIsTrue ==
    \A j \in Jobs :
        /\ wrap[j].status = "finished" \/ wrap[j].url => task[j].exit = "ok"
        /\ wrap[j].status = "failed" =>
               task[j].exit # "ok" \/ task[j].goal = "exception"

(* An entry that says how the job ended is only ever deleted, which is what *)
(* lets the status page stop asking about it.                               *)
SettledEntryFrozen ==
    [][\A j \in Jobs : db[j].status \in Terminal => db'[j] \in {db[j], NoEntry}]_vars

(* A task that is over has said so in its entry, unless the entry is gone:  *)
(* Finished after exit status 0, Failed after any other or a refusal, and   *)
(* Failed with the exception when there was one.  Every way out of a task   *)
(* passes an update, and none is missed when another raises after it has    *)
(* taken effect, or when the entry is deleted between its two halves.       *)
OutcomeRecorded ==
    \A j \in Jobs :
        task[j].pc = "done" /\ db[j] # NoEntry =>
            /\ db[j].status = IF task[j].goal # "exception" /\ task[j].exit = "ok"
                              THEN "finished" ELSE "failed"
            /\ task[j].goal = "exception" => db[j].exc

(* A job whose entry says pending is on its way to a worker, in the queue   *)
(* or with a task that is about to say running; else its submission has     *)
(* not sent the message, or was broken off before it could, and then no     *)
(* page shows the job, not even one that a request puts back.               *)
PendingIsWaiting ==
    \A j \in Jobs : db[j].status = "pending" =>
        \/ j \in queue \/ task[j].pc \in {"get", "put"}
        \/ submit[j] \in {"created", "dropped"} /\ wrap[j] = NoWrapper

(* Once a job has been deleted from the page, its task is over and every    *)
(* request is answered, neither its entry nor its output is left.           *)
DeletedLeavesNothing ==
    \A j \in Jobs :
        /\ submit[j] = "done" /\ wrap[j] = NoWrapper /\ NameUnshared(j)
        /\ task[j].pc = "done" /\ \A r \in Requests : req[r] = Idle
        => db[j] = NoEntry /\ NameOf[j] \notin s3

(* The status page is never answered with an error.                         *)
PageNeverErrors == \A r \in Requests : req[r].pc # "pageError"

(* Every job handed to the broker ends with a final entry, unless a user    *)
(* deletes the entry first.                                                 *)
EveryTaskSettles ==
    \A j \in Jobs :
        submit[j] = "queued" ~> db[j].status \in Terminal \/ db[j] = NoEntry

(* For a user who keeps refreshing and gets no error page, the page ends up *)
(* showing the final status of every job that is over, although a slow      *)
(* refresh can put an older status back over a newer one.                   *)
ShownStatusConverges ==
    LET open == {j \in Stored : wrap[j].status \notin Terminal}
    IN  /\ []<>(open = {} \/ \E r \in Requests : req[r].pc = "refresh")
        /\ []PageNeverErrors
        => <>[](\A j \in open : task[j].pc # "done")

=============================================================================
