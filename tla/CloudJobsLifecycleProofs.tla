----------------------- MODULE CloudJobsLifecycleProofs -----------------------
(***************************************************************************)
(* CloudJobs implements JobLifecycle, and deletions leave nothing behind,  *)
(* for any sets of jobs, names and requests.                               *)
(***************************************************************************)
EXTENDS CloudJobsLifecycle, CloudJobsProofs

(* What the promise takes: no two jobs of one name, users who delete only  *)
(* jobs that the page shows as over, and writes that are not repeated by   *)
(* an exception handler after they took effect.                            *)
Promised ==
    /\ "reply" \notin Faults
    /\ ~DeleteRunning
    /\ \A j \in Jobs : NameUnshared(j)

-----------------------------------------------------------------------------
(* The strengthening of OutputInv under which every step has a counterpart *)
(* in the life of a job.                                                   *)

\* Whoever has seen a final status of job j, and whoever deletes it, has done
\* so after its task was over.
SettledIsOver(j) ==
    /\ wrap[j].status \in Terminal => task[j].pc = "done"
    /\ \A r \in Requests :
         /\ req[r].got[j].status \in Terminal => task[j].pc = "done"
         /\ req[r].seen[j].status \in Terminal => task[j].pc = "done"
         /\ req[r].pc \in {"lookup", "deleteDB"} /\ j \in req[r].left =>
               task[j].pc = "done"

\* Until its task is over the entry of a submitted job stays, and is what the
\* task has last read.
EntryKept(j) ==
    /\ submit[j] \in {"new", "named"} => db[j] = NoEntry
    /\ submit[j] \notin {"new", "named"} /\ task[j].pc # "done" => db[j] # NoEntry
    /\ task[j].pc = "put" => task[j].item = db[j]

\* The first update of a task finds its entry pending, and is made once.
StartsOnce(j) ==
    /\ \/ task[j].pc = "none"
       \/ task[j].pc \in {"get", "put"} /\ task[j].goal = "running"
       => db[j] = NoEntry \/ db[j].status = "pending"
    /\ task[j].pc = "upload" => task[j].goal \in Terminal

LifeInv ==
    /\ OutputInv
    /\ \A j \in Jobs : SettledIsOver(j) /\ EntryKept(j) /\ StartsOnce(j)

\* What is stored at first, and what an empty answer says, tells of no end.
LEMMA NothingOver ==
    /\ NoEntry.status \notin Terminal /\ PendingEntry.status = "pending"
    /\ PendingEntry # NoEntry
    /\ NoWrapper.status \notin Terminal /\ NewWrapper.status \notin Terminal
    /\ \A j \in Jobs : NoneGot[j] = NoEntry /\ NoneSeen[j] = NoWrapper
  BY DEF NoEntry, PendingEntry, NoWrapper, NewWrapper, NoneGot, NoneSeen, Terminal

LEMMA LifeInit == Init => LifeInv
  <1> SUFFICES ASSUME Init PROVE LifeInv
    OBVIOUS
  <1>1. /\ \A j \in Jobs : /\ db[j] = NoEntry /\ task[j] = NoTask /\ wrap[j] = NoWrapper
                           /\ submit[j] = "new"
        /\ \A r \in Requests : req[r] = Idle
    BY DEF Init
  <1>2. \A j \in Jobs : SettledIsOver(j) /\ EntryKept(j) /\ StartsOnce(j)
    BY <1>1, NothingOver DEF SettledIsOver, EntryKept, StartsOnce, NoTask, At, Idle, Doing
  <1>3. QED
    BY <1>2, OutputInit DEF LifeInv

LEMMA LifeWizard ==
    ASSUME LifeInv, OutputInv', NEW j \in Jobs, Wizard(j) \/ SubmitDies(j)
    PROVE  LifeInv'
  <1> USE NothingOver DEF LifeInv, SettledIsOver, EntryKept, StartsOnce
  <1>1. TypeOK /\ TypeOK' /\ \A k \in Jobs : DeliveredOnce(k)
    BY DEF OutputInv
  <1>2. CASE CheckName(j)
    BY <1>1, <1>2 DEF CheckName, TypeOK
  <1>3. CASE CreateEntry(j)
    BY <1>1, <1>3 DEF CreateEntry, TypeOK, DeliveredOnce
  <1>4. CASE Enqueue(j)
    BY <1>1, <1>4 DEF Enqueue, TypeOK
  <1>5. CASE SaveWrapper(j)
    BY <1>1, <1>5 DEF SaveWrapper, TypeOK
  <1>6. CASE SubmitDies(j)
    BY <1>1, <1>6 DEF SubmitDies, TypeOK
  <1>7. QED
    BY <1>2, <1>3, <1>4, <1>5, <1>6 DEF Wizard

\* What a task has written is an entry, and is final unless it says running.
LEMMA MergedStatus ==
    ASSUME NEW e \in Entry, NEW g
    PROVE  /\ Merged(e, g) # NoEntry
           /\ Merged(e, g).status \in Terminal \cup {"running"}
           /\ Merged(e, g).status = "running" <=> g = "running"
  BY DEF Merged, NoEntry, Terminal

LEMMA LifeTask ==
    ASSUME LifeInv, OutputInv', "reply" \notin Faults, NEW j \in Jobs,
           \/ Deliver(j) \/ TaskStep(j) \/ TaskUpdateFails(j)
           \/ TaskUpdateSkipped(j) \/ WorkerDies(j)
    PROVE  LifeInv'
  <1> USE DEF LifeInv, SettledIsOver, EntryKept, StartsOnce
  <1>1. /\ TypeOK /\ TypeOK'
        /\ \A k \in Jobs : DeliveredOnce(k) /\ UrlIsLast(k)
    BY DEF OutputInv
  <1>2. CASE Deliver(j)
    BY <1>1, <1>2 DEF Deliver, TypeOK, At, DeliveredOnce
  <1>3. CASE TaskGet(j)
    BY <1>1, <1>3 DEF TaskGet, TypeOK, At, Raised
  <1>4. CASE TaskPut(j)
    <2> DEFINE written == Merged(task[j].item, task[j].goal)
    <2>1. /\ written # NoEntry
          /\ written.status = "running" <=> task[j].goal = "running"
      BY <1>1, MergedStatus DEF TypeOK, Task
    <2>2. /\ task[j].pc = "put"
          /\ db' = [db EXCEPT ![j] = written]
          /\ task' = [task EXCEPT ![j] =
                        At(IF task[j].goal = "running" THEN "run" ELSE "done",
                           task[j].goal, NoEntry, task[j].exit)]
          /\ UNCHANGED <<submit, queue, s3, wrap, folders, req>>
      BY <1>4 DEF TaskPut, Updated
    <2>3. submit[j] \notin {"new", "named"}
      BY <1>1, <2>2 DEF DeliveredOnce
    <2> HIDE DEF written
    <2>4. QED
      BY <1>1, <2>1, <2>2, <2>3 DEF TypeOK, At
  <1>5. CASE RunJob(j)
    BY <1>1, <1>5 DEF RunJob, TypeOK, At, Raised, Terminal
  <1>6. CASE Upload(j)
    BY <1>1, <1>6 DEF Upload, TypeOK, At, Raised, Terminal
  <1>7. CASE TaskUpdateFails(j)
    BY <1>1, <1>7 DEF TaskUpdateFails, TypeOK, At, Raised
  <1>8. CASE WorkerDies(j)
    BY <1>1, <1>8 DEF WorkerDies, TypeOK, At, Active
  <1>9. CASE TaskUpdateSkipped(j)
    BY <1>1, <1>9 DEF TaskUpdateSkipped, TypeOK, At, Updated
  <1>10. QED
    BY <1>2, <1>3, <1>4, <1>5, <1>6, <1>7, <1>8, <1>9 DEF TaskStep

\* What a query has loaded is over when it is shown as over.
LEMMA LoadOver ==
    ASSUME LifeInv, NEW S, NEW j \in Jobs
    PROVE  Load(S)[j].status \in Terminal => task[j].pc = "done"
  BY NothingOver DEF Load, LifeInv, SettledIsOver

\* So is what a read of the table has found to be over.
LEMMA AnswerOver ==
    ASSUME LifeInv, NEW answer, NEW j \in Jobs, answer[j] \in {db[j], NoEntry}
    PROVE  answer[j].status \in Terminal => task[j].pc = "done"
  BY NothingOver DEF LifeInv, OutputInv, UrlIsLast

LEMMA LifeRefresh ==
    ASSUME LifeInv, OutputInv', NEW r \in Requests,
           \/ RefreshLoad(r) \/ Refresh(r)
           \/ \E j \in Jobs : RefreshUnknown(r, j) \/ PullLoad(r, j)
           \/ Pull(r) \/ RequestDies(r)
    PROVE  LifeInv'
  <1> USE NothingOver DEF LifeInv, SettledIsOver, EntryKept, StartsOnce
  <1>1. TypeOK /\ TypeOK'
    BY DEF OutputInv
  <1>2. CASE RefreshLoad(r)
    <2>1. PICK open : req' = [req EXCEPT ![r] = Doing("refresh", Load(open), NoneGot, open)]
      BY <1>2 DEF RefreshLoad
    <2>2. QED
      BY <1>1, <1>2, <2>1, LoadOver DEF RefreshLoad, TypeOK, Doing
  <1>3. ASSUME NEW j \in Jobs, RefreshQuery(r, j)
        PROVE  LifeInv'
    <2>1. PICK answer \in Answers({j}) :
             req' = [req EXCEPT ![r] =
                       IF \/ answer[j] = NoEntry
                          \/ answer[j].status = "failed" /\ ~answer[j].exc
                       THEN Doing("pageError", NoneSeen, NoneGot, {})
                       ELSE Doing("save", req[r].seen, answer, req[r].left)]
      BY <1>3 DEF RefreshQuery
    <2>2. \A k \in Jobs : answer[k] \in {db[k], NoEntry}
      BY <1>1, AnswerType
    <2>3. \A k \in Jobs : answer[k].status \in Terminal => task[k].pc = "done"
      BY <2>2, AnswerOver
    <2>4. QED
      BY <1>1, <1>3, <2>1, <2>3 DEF RefreshQuery, TypeOK, Doing
  <1>4. ASSUME NEW j \in Jobs, RefreshSave(r, j)
        PROVE  LifeInv'
    <2>1. /\ req[r].seen \in [Jobs -> Wrapper]
          /\ req' = [req EXCEPT ![r] = Doing("refresh", [req[r].seen EXCEPT ![j] = NoWrapper],
                                             NoneGot, req[r].left \ {j})]
          /\ UNCHANGED <<submit, queue, db, s3, task, folders>>
      BY <1>1, <1>4 DEF RefreshSave, TypeOK, Request
    <2>2. /\ wrap'[j].status = req[r].got[j].status
          /\ \A k \in Jobs \ {j} : wrap'[k] = wrap[k]
      BY <1>1, <1>4 DEF RefreshSave, TypeOK
    <2>3. QED
      BY <1>1, <2>1, <2>2 DEF TypeOK, Doing
  <1>5. CASE RefreshRespond(r)
    BY <1>1, <1>5 DEF RefreshRespond, TypeOK, Idle, Doing
  <1>6. ASSUME NEW j \in Jobs, PullLoad(r, j)
        PROVE  LifeInv'
    BY <1>1, <1>6, LoadOver DEF PullLoad, TypeOK, Doing
  <1>7. CASE PullFetch(r)
    BY <1>1, <1>7 DEF PullFetch, TypeOK, Idle, Doing
  <1>8. ASSUME NEW j \in Jobs, PullUnpack(r, j)
        PROVE  LifeInv'
    BY <1>1, <1>8 DEF PullUnpack, TypeOK, Idle, Doing
  <1>9. ASSUME NEW j \in Jobs, PullSave(r, j)
        PROVE  LifeInv'
    BY <1>1, <1>9 DEF PullSave, TypeOK, Idle, Doing
  <1>10. CASE RequestDies(r)
    BY <1>1, <1>10 DEF RequestDies, TypeOK, Idle, Doing
  <1>11. ASSUME NEW j \in Jobs, RefreshUnknown(r, j)
         PROVE  LifeInv'
    BY <1>1, <1>11 DEF RefreshUnknown, TypeOK, Doing, Request
  <1>12. QED
    BY <1>2, <1>3, <1>4, <1>5, <1>6, <1>7, <1>8, <1>9, <1>10, <1>11 DEF Refresh, Pull

\* A deletion is asked for jobs that are shown as over, and therefore are.
LEMMA LifeDelete ==
    ASSUME LifeInv, OutputInv', ~DeleteRunning, NEW r \in Requests,
           \/ \E selected \in SUBSET Names : DeleteLoad(r, selected)
           \/ Delete(r)
           \/ DeleteRefused(r) \/ DeleteBatchRaises(r)
    PROVE  LifeInv'
  <1> USE NothingOver DEF LifeInv, SettledIsOver, EntryKept, StartsOnce
  <1>1. TypeOK /\ TypeOK'
    BY DEF OutputInv
  <1>2. ASSUME NEW selected \in SUBSET Names, DeleteLoad(r, selected)
        PROVE  LifeInv'
    <2>1. PICK chosen \in SUBSET Jobs :
             /\ \A j \in chosen : wrap[j].status \in Terminal
             /\ req' = [req EXCEPT ![r] = Doing("lookup", Load(chosen), NoneGot, chosen)]
      BY <1>2 DEF DeleteLoad, Stored
    <2>2. QED
      BY <1>1, <1>2, <2>1, LoadOver DEF DeleteLoad, TypeOK, Doing
  <1>3. CASE DeleteLookup(r)
    <2>1. PICK answer \in Answers(req[r].left) \cup {NoneGot} :
             req' = [req EXCEPT ![r] = Doing("deleteDB", req[r].seen, answer, req[r].left)]
      BY <1>3 DEF DeleteLookup
    <2>2. \A k \in Jobs : answer[k] \in {db[k], NoEntry}
      BY <1>1, AnswerType
    <2>3. \A k \in Jobs : answer[k].status \in Terminal => task[k].pc = "done"
      BY <2>2, AnswerOver
    <2>4. QED
      BY <1>1, <1>3, <2>1, <2>3 DEF DeleteLookup, TypeOK, Doing
  <1>4. ASSUME NEW j \in Jobs, DeleteEntry(r, j)
        PROVE  LifeInv'
    BY <1>1, <1>4 DEF DeleteEntry, TypeOK, Doing
  <1>5. CASE DeleteBatchRaises(r)
    BY <1>1, <1>5 DEF DeleteBatchRaises, TypeOK, Idle, Doing
  <1>6. CASE DeleteRefused(r)
    BY <1>1, <1>6 DEF DeleteRefused, TypeOK, Idle, Doing
  <1>7. CASE DeleteEntriesDone(r)
    BY <1>1, <1>7 DEF DeleteEntriesDone, TypeOK, Doing
  <1>8. ASSUME NEW j \in Jobs, DeleteOutput(r, j)
        PROVE  LifeInv'
    <2> DEFINE seen == IF NameOf[j] \in s3 THEN req[r].seen
                       ELSE [req[r].seen EXCEPT ![j] = NoWrapper]
    <2>1. \/ req' = [req EXCEPT ![r] = Doing("deleteS3", seen, req[r].got, req[r].left \ {j})]
          \/ req' = [req EXCEPT ![r] = Idle]
      BY <1>8 DEF DeleteOutput
    <2>2. \A k \in Jobs : seen[k] \in {req[r].seen[k], NoWrapper}
      BY <1>1 DEF TypeOK, Request
    <2>3. UNCHANGED <<submit, queue, db, task, wrap, folders>>
      BY <1>8 DEF DeleteOutput
    <2> HIDE DEF seen
    <2>4. CASE req' = [req EXCEPT ![r] = Doing("deleteS3", seen, req[r].got, req[r].left \ {j})]
      <3>1. \A k \in Jobs : seen[k].status \in Terminal => task[k].pc = "done"
        BY <2>2
      <3>2. QED
        BY <1>1, <2>3, <2>4, <3>1 DEF TypeOK, Doing
    <2>5. CASE req' = [req EXCEPT ![r] = Idle]
      BY <1>1, <2>3, <2>5 DEF TypeOK, Idle, Doing
    <2>6. QED
      BY <2>1, <2>4, <2>5
  <1>9. CASE DeleteOutputsDone(r)
    BY <1>1, <1>9 DEF DeleteOutputsDone, TypeOK, Doing
  <1>10. ASSUME NEW j \in Jobs, DeleteWrapper(r, j)
         PROVE  LifeInv'
    BY <1>1, <1>10 DEF DeleteWrapper, TypeOK, Doing
  <1>11. CASE DeleteRespond(r)
    BY <1>1, <1>11 DEF DeleteRespond, TypeOK, Idle, Doing
  <1>12. QED
    BY <1>2, <1>3, <1>4, <1>5, <1>6, <1>7, <1>8, <1>9, <1>10, <1>11 DEF Delete

LEMMA LifeBroker ==
    ASSUME LifeInv, OutputInv', BrokerDies
    PROVE  LifeInv'
  BY DEF BrokerDies, LifeInv, SettledIsOver, EntryKept, StartsOnce

LEMMA LifeNext ==
    ASSUME LifeInv, "reply" \notin Faults, ~DeleteRunning, [Next]_vars
    PROVE  LifeInv'
  <1>1. OutputInv'
    BY OutputNext DEF LifeInv
  <1>2. CASE UNCHANGED vars
    BY <1>1, <1>2 DEF vars, LifeInv, SettledIsOver, EntryKept, StartsOnce
  <1>3. ASSUME NEW j \in Jobs, Wizard(j) \/ Deliver(j) \/ TaskStep(j)
        PROVE  LifeInv'
    BY <1>1, <1>3, LifeWizard, LifeTask
  <1>4. ASSUME NEW r \in Requests, UserAsks(r) \/ Refresh(r) \/ Delete(r) \/ Pull(r)
        PROVE  LifeInv'
    BY <1>1, <1>4, LifeRefresh, LifeDelete DEF UserAsks
  <1>5. CASE Failure
    BY <1>1, <1>5, LifeWizard, LifeTask, LifeRefresh, LifeDelete, LifeBroker
       DEF Failure
  <1>6. QED
    BY <1>2, <1>3, <1>4, <1>5 DEF Next

-----------------------------------------------------------------------------
(* The steps.  Five actions show in the life of a job; the others leave    *)
(* the table, the bucket, and what has been submitted as they are.         *)

Hidden ==
    /\ UNCHANGED <<db, s3>>
    /\ \A j \in Jobs : submit'[j] \in {"new", "named"} <=> submit[j] \in {"new", "named"}

LEMMA FiveShow ==
    ASSUME TypeOK, [Next]_vars
    PROVE  \/ Hidden
           \/ \E j \in Jobs : CreateEntry(j) \/ TaskPut(j) \/ Upload(j)
           \/ \E r \in Requests, j \in Jobs : DeleteEntry(r, j) \/ DeleteOutput(r, j)
  <1> DEFINE Shown == \/ Hidden
                      \/ \E j \in Jobs : CreateEntry(j) \/ TaskPut(j) \/ Upload(j)
                      \/ \E r \in Requests, j \in Jobs : DeleteEntry(r, j) \/ DeleteOutput(r, j)
  <1>1. CASE UNCHANGED vars
    BY <1>1 DEF vars, Hidden
  <1>2. ASSUME NEW j \in Jobs, Wizard(j) \/ SubmitDies(j)
        PROVE  Shown
    BY <1>2 DEF Wizard, CheckName, Enqueue, SaveWrapper, SubmitDies, TypeOK, Hidden
  <1>3. ASSUME NEW j \in Jobs,
               \/ Deliver(j) \/ TaskStep(j) \/ WorkerDies(j)
               \/ TaskUpdateFails(j) \/ TaskUpdateSkipped(j)
        PROVE  Shown
    BY <1>3 DEF TaskStep, Deliver, TaskGet, RunJob, WorkerDies, TaskUpdateFails,
                TaskUpdateSkipped, Hidden
  <1>4. ASSUME NEW r \in Requests,
               \/ UserAsks(r) \/ Refresh(r) \/ Pull(r) \/ RequestDies(r)
               \/ \E j \in Jobs : RefreshUnknown(r, j)
        PROVE  Shown
    BY <1>4 DEF UserAsks, RefreshLoad, DeleteLoad, PullLoad, Refresh, RefreshQuery,
                RefreshSave, RefreshRespond, RefreshUnknown, Pull, PullFetch, PullUnpack,
                PullSave, RequestDies, Hidden
  <1>5. ASSUME NEW r \in Requests, Delete(r) \/ DeleteRefused(r) \/ DeleteBatchRaises(r)
        PROVE  Shown
    BY <1>5 DEF Delete, DeleteLookup, DeleteEntriesDone, DeleteOutputsDone, DeleteRespond,
                DeleteWrapper, DeleteRefused, DeleteBatchRaises, Hidden
  <1>6. CASE BrokerDies
    BY <1>6 DEF BrokerDies, Hidden
  <1>7. QED
    BY <1>1, <1>2, <1>3, <1>4, <1>5, <1>6 DEF Next, Failure

LEMMA HiddenStutters ==
    ASSUME Hidden
    PROVE  UNCHANGED Lifecycle!vars
  BY DEF Hidden, Lifecycle!vars, phaseBar, linkedBar, storedBar

LEMMA CreateEntrySubmits ==
    ASSUME LifeInv, NEW j \in Jobs, CreateEntry(j)
    PROVE  Lifecycle!Submit(j)
  <1>1. TypeOK /\ db[j] = NoEntry
    BY DEF LifeInv, OutputInv, EntryKept, CreateEntry
  <1>2. /\ PendingEntry # NoEntry /\ PendingEntry.status = "pending"
        /\ ~PendingEntry.url /\ ~NoEntry.url
    BY DEF PendingEntry, NoEntry
  <1>3. phaseBar[j] = "new"
    BY <1>1 DEF CreateEntry, phaseBar
  <1>4. phaseBar' = [phaseBar EXCEPT ![j] = "pending"]
    BY <1>1, <1>2 DEF CreateEntry, phaseBar, TypeOK
  <1>5. UNCHANGED <<linkedBar, storedBar>>
    BY <1>1, <1>2 DEF CreateEntry, linkedBar, storedBar, TypeOK
  <1>6. QED
    BY <1>3, <1>4, <1>5 DEF Lifecycle!Submit

\* An update of a task that is not over finds the entry it has read.
LEMMA TaskPutSettles ==
    ASSUME LifeInv, Promised, NEW j \in Jobs, TaskPut(j)
    PROVE  Lifecycle!Start(j) \/ Lifecycle!Finish(j) \/ Lifecycle!Fail(j)
  <1> DEFINE goal == task[j].goal
             written == Merged(db[j], goal)
  <1>1. /\ TypeOK /\ DeliveredOnce(j) /\ UrlIsLast(j) /\ OutputBacked(j)
        /\ EntryKept(j) /\ StartsOnce(j) /\ NameUnshared(j)
    BY DEF LifeInv, OutputInv, Promised
  <1>2. /\ task[j].pc = "put" /\ db[j] \in Entry /\ db[j] # NoEntry
        /\ db' = [db EXCEPT ![j] = written]
        /\ UNCHANGED <<submit, s3>>
        /\ goal \in {"none", "running", "norun", "failed", "finished", "exception"}
    BY <1>1 DEF TaskPut, EntryKept, DeliveredOnce, TypeOK, Task
  <1>3. /\ written # NoEntry
        /\ written.url = (db[j].url \/ goal \in Terminal)
        /\ written.status = CASE goal = "running" -> "running"
                              [] goal = "finished" -> "finished"
                              [] OTHER -> "failed"
    BY DEF Merged, NoEntry
  <1> HIDE DEF written
  <1>4. phaseBar[j] = db[j].status /\ phaseBar[j] \in Lifecycle!Open
    BY <1>1, <1>2 DEF phaseBar, Entry, UrlIsLast, Terminal, Lifecycle!Open
  <1>5. phaseBar' = [phaseBar EXCEPT ![j] = written.status]
    BY <1>1, <1>2, <1>3 DEF phaseBar, TypeOK
  <1>6. /\ linkedBar' = IF written.url THEN linkedBar \cup {j} ELSE linkedBar \ {j}
        /\ UNCHANGED storedBar
    BY <1>1, <1>2 DEF linkedBar, storedBar, TypeOK
  <1>7. ~db[j].url /\ j \notin linkedBar
    BY <1>1, <1>2 DEF UrlIsLast, linkedBar
  <1>8. CASE goal = "running"
    <2>1. phaseBar[j] = "pending"
      BY <1>1, <1>2, <1>4, <1>8 DEF StartsOnce
    <2>2. written.status = "running" /\ ~written.url
      BY <1>3, <1>7, <1>8 DEF Terminal
    <2>3. QED
      BY <1>5, <1>6, <1>7, <2>1, <2>2 DEF Lifecycle!Start
  <1>9. CASE goal \in Terminal
    <2>1. j \in storedBar
      BY <1>1, <1>2, <1>9 DEF OutputBacked, storedBar
    <2>2. written.url /\ written.status = goal
      BY <1>3, <1>9 DEF Terminal
    <2>3. QED
      BY <1>4, <1>5, <1>6, <1>9, <2>1, <2>2 DEF Lifecycle!Finish, Lifecycle!Fail, Terminal
  <1>10. CASE goal \notin Terminal \cup {"running"}
    <2>1. written.status = "failed" /\ ~written.url
      BY <1>3, <1>7, <1>10 DEF Terminal
    <2>2. QED
      BY <1>4, <1>5, <1>6, <1>7, <2>1 DEF Lifecycle!Fail
  <1>11. QED
    BY <1>8, <1>9, <1>10

LEMMA UploadStores ==
    ASSUME LifeInv, Promised, NEW j \in Jobs, Upload(j)
    PROVE  Lifecycle!Store(j) \/ UNCHANGED Lifecycle!vars
  <1>1. /\ TypeOK /\ DeliveredOnce(j) /\ UrlIsLast(j) /\ EntryKept(j)
        /\ \A k \in Jobs : NameUnshared(k)
    BY DEF LifeInv, OutputInv, Promised
  <1>2. /\ db[j] \in Entry /\ db[j] # NoEntry /\ task[j].pc = "upload"
        /\ UNCHANGED <<submit, db>>
    BY <1>1 DEF Upload, EntryKept, DeliveredOnce, TypeOK
  <1>3. phaseBar[j] \in Lifecycle!Open
    BY <1>1, <1>2 DEF phaseBar, Entry, UrlIsLast, Terminal, Lifecycle!Open
  <1>4. UNCHANGED <<phaseBar, linkedBar>>
    BY <1>2 DEF phaseBar, linkedBar
  <1>5. CASE s3' = s3 \cup {NameOf[j]}
    <2>1. storedBar' = storedBar \cup {j}
      BY <1>1, <1>5 DEF storedBar, NameUnshared
    <2>2. QED
      BY <1>3, <1>4, <2>1 DEF Lifecycle!Store
  <1>6. CASE UNCHANGED s3
    BY <1>4, <1>6 DEF Lifecycle!vars, storedBar
  <1>7. QED
    BY <1>5, <1>6 DEF Upload

LEMMA DeleteEntryDeletes ==
    ASSUME LifeInv, NEW r \in Requests, NEW j \in Jobs, DeleteEntry(r, j)
    PROVE  Lifecycle!Delete(j) \/ UNCHANGED Lifecycle!vars
  <1>1. TypeOK /\ EntryKept(j) /\ ~NoEntry.url
    BY DEF LifeInv, OutputInv, NoEntry
  <1>2. /\ db' = [db EXCEPT ![j] = NoEntry] /\ db[j] \in Entry
        /\ UNCHANGED <<submit, s3>>
    BY <1>1 DEF DeleteEntry, TypeOK
  <1>3. CASE db[j] = NoEntry
    <2>1. db' = db
      BY <1>1, <1>2, <1>3 DEF TypeOK
    <2>2. QED
      BY <1>2, <2>1 DEF Lifecycle!vars, phaseBar, linkedBar, storedBar
  <1>4. CASE db[j] # NoEntry
    <2>1. submit[j] \notin {"new", "named"}
      BY <1>1, <1>4 DEF EntryKept
    <2>2. phaseBar[j] \in Lifecycle!Phases \ {"new", "deleted"}
      BY <1>2, <1>4 DEF phaseBar, Entry, Lifecycle!Phases
    <2>3. phaseBar' = [phaseBar EXCEPT ![j] = "deleted"]
      BY <1>1, <1>2, <2>1 DEF phaseBar, TypeOK
    <2>4. linkedBar' = linkedBar \ {j} /\ UNCHANGED storedBar
      BY <1>1, <1>2 DEF linkedBar, storedBar, TypeOK
    <2>5. QED
      BY <2>2, <2>3, <2>4 DEF Lifecycle!Delete
  <1>5. QED
    BY <1>3, <1>4

LEMMA DeleteOutputDiscards ==
    ASSUME LifeInv, Promised, NEW r \in Requests, NEW j \in Jobs, DeleteOutput(r, j)
    PROVE  Lifecycle!Discard(j) \/ UNCHANGED Lifecycle!vars
  <1>1. /\ TypeOK /\ DeliveredOnce(j) /\ UrlIsLast(j) /\ EntryGoesFirst(j)
        /\ \A k \in Jobs : NameUnshared(k)
    BY DEF LifeInv, OutputInv, Promised
  <1>2. /\ db[j] = NoEntry /\ submit[j] \notin {"new", "named"}
        /\ UNCHANGED <<submit, db>>
    BY <1>1 DEF DeleteOutput, EntryGoesFirst, UrlIsLast, DeliveredOnce
  <1>3. phaseBar[j] = "deleted" /\ UNCHANGED <<phaseBar, linkedBar>>
    BY <1>2 DEF phaseBar, linkedBar
  <1>4. CASE s3' = s3 \ {NameOf[j]}
    <2>1. storedBar' = storedBar \ {j}
      BY <1>1, <1>4 DEF storedBar, NameUnshared
    <2>2. QED
      BY <1>3, <2>1 DEF Lifecycle!Discard
  <1>5. CASE UNCHANGED s3
    BY <1>3, <1>5 DEF Lifecycle!vars, storedBar
  <1>6. QED
    BY <1>4, <1>5 DEF DeleteOutput

LEMMA LifecycleStep ==
    ASSUME LifeInv, Promised, [Next]_vars
    PROVE  [Lifecycle!Next]_Lifecycle!vars
  <1>1. TypeOK
    BY DEF LifeInv, OutputInv
  <1>2. CASE Hidden
    BY <1>2, HiddenStutters
  <1>3. ASSUME NEW j \in Jobs, CreateEntry(j) \/ TaskPut(j) \/ Upload(j)
        PROVE  [Lifecycle!Next]_Lifecycle!vars
    BY <1>3, CreateEntrySubmits, TaskPutSettles, UploadStores DEF Lifecycle!Next
  <1>4. ASSUME NEW r \in Requests, NEW j \in Jobs, DeleteEntry(r, j) \/ DeleteOutput(r, j)
        PROVE  [Lifecycle!Next]_Lifecycle!vars
    BY <1>4, DeleteEntryDeletes, DeleteOutputDiscards DEF Lifecycle!Next
  <1>5. QED
    BY <1>1, <1>2, <1>3, <1>4, FiveShow

(* With names of their own, users who delete what is shown as over, and no *)
(* write that both takes effect and raises, every cloud job has the life   *)
(* that JobLifecycle promises, whatever else fails: it ends once, its      *)
(* record never tells of an output that is not there, and once deleted it  *)
(* does not come back.                                                     *)
THEOREM LifecycleImplemented == Promised => (Spec => ImplementsLifecycle)
  <1> SUFFICES ASSUME Promised
               PROVE  Spec => ImplementsLifecycle
    OBVIOUS
  <1>1. Init => LifeInv
    BY LifeInit
  <1>2. LifeInv /\ [Next]_vars => LifeInv'
    BY LifeNext DEF Promised
  <1>3. Init => Lifecycle!Init
    BY DEF Init, Lifecycle!Init, phaseBar, linkedBar, storedBar, NoEntry
  <1>4. LifeInv /\ [Next]_vars => [Lifecycle!Next]_Lifecycle!vars
    BY LifecycleStep
  <1>5. QED
    BY <1>1, <1>2, <1>3, <1>4, PTL DEF Spec, ImplementsLifecycle, Lifecycle!Spec

-----------------------------------------------------------------------------
(* A deletion is complete.  The invariant follows an output from its       *)
(* upload to its removal: somebody always knows of it, the task that is to *)
(* record it, the entry, or the deletion that has read the entry.          *)

\* Only jobs with an entry become known to the page and to requests.
KnownIsCreated(j) ==
    \/ wrap[j] # NoWrapper
    \/ \E r \in Requests : \/ req[r].seen[j] # NoWrapper \/ req[r].got[j] # NoEntry
                           \/ j \in req[r].left
    => submit[j] \notin {"new", "named"}

\* The wrapper of a job is deleted after its entry.
WrapperGoesLast(j) ==
    /\ submit[j] = "done" /\ wrap[j] = NoWrapper => db[j] = NoEntry
    /\ \A r \in Requests :
         /\ req[r].pc = "lookup" /\ req[r].seen[j] # NoWrapper => j \in req[r].left
         /\ req[r].pc = "deleteDB" /\ req[r].seen[j] # NoWrapper =>
               j \in req[r].left \/ db[j] = NoEntry
         /\ req[r].pc \in {"deleteS3", "deleteWrapper"} /\ req[r].seen[j] # NoWrapper =>
               db[j] = NoEntry
         /\ req[r].pc = "deleteWrapper" /\ j \in req[r].left => req[r].seen[j] # NoWrapper

\* Request r is going to remove the output of job j.
Clears(r, j) ==
    \/ req[r].pc = "deleteDB" /\ req[r].got[j].url
    \/ req[r].pc = "deleteS3" /\ j \in req[r].left

\* A stored output is about to be recorded, recorded, or about to be removed,
\* unless the machine has died before it recorded it.
OutputTold(j) ==
    /\ NameUnshared(j) /\ NameOf[j] \in s3 =>
          \/ task[j].pc \in {"get", "put"} /\ task[j].goal \in Terminal
          \/ task[j].pc = "lost"
          \/ db[j].url
          \/ \E r \in Requests : Clears(r, j)
    /\ \A r \in Requests :
          req[r].pc = "deleteDB" /\ j \in req[r].left /\ db[j].url => req[r].got[j].url

ClearInv ==
    /\ LifeInv
    /\ \A j \in Jobs : KnownIsCreated(j) /\ WrapperGoesLast(j) /\ OutputTold(j)

\* The failures that a deletion survives.
Steady == Faults \subseteq {"worker", "broker"} /\ ~DeleteRunning

LEMMA NothingKnown ==
    /\ ~NoEntry.url /\ PendingEntry # NoEntry /\ ~PendingEntry.url
    /\ NewWrapper # NoWrapper
    /\ \A j \in Jobs : NoneGot[j] = NoEntry /\ NoneSeen[j] = NoWrapper
  BY DEF NoEntry, PendingEntry, NoWrapper, NewWrapper, NoneGot, NoneSeen

LEMMA ClearInit == Init => ClearInv
  <1> SUFFICES ASSUME Init PROVE ClearInv
    OBVIOUS
  <1>1. /\ s3 = {}
        /\ \A j \in Jobs : db[j] = NoEntry /\ wrap[j] = NoWrapper /\ submit[j] = "new"
        /\ \A r \in Requests : req[r] = Idle
    BY DEF Init
  <1>2. \A j \in Jobs : KnownIsCreated(j) /\ WrapperGoesLast(j) /\ OutputTold(j)
    BY <1>1, NothingKnown DEF KnownIsCreated, WrapperGoesLast, OutputTold, Idle, Doing
  <1>3. QED
    BY <1>2, LifeInit DEF ClearInv

LEMMA ClearWizard ==
    ASSUME ClearInv, LifeInv', NEW j \in Jobs, Wizard(j)
    PROVE  ClearInv'
  <1> USE NothingKnown DEF ClearInv, KnownIsCreated, WrapperGoesLast, OutputTold, Clears
  <1>1. TypeOK /\ TypeOK' /\ \A k \in Jobs : EntryKept(k)
    BY DEF LifeInv, OutputInv
  <1>2. CASE CheckName(j)
    BY <1>1, <1>2 DEF CheckName, TypeOK, NameUnshared
  <1>3. CASE CreateEntry(j)
    BY <1>1, <1>3 DEF CreateEntry, TypeOK, NameUnshared, EntryKept
  <1>4. CASE Enqueue(j)
    BY <1>1, <1>4 DEF Enqueue, TypeOK, NameUnshared
  <1>5. CASE SaveWrapper(j)
    BY <1>1, <1>5 DEF SaveWrapper, TypeOK, NameUnshared
  <1>6. QED
    BY <1>2, <1>3, <1>4, <1>5 DEF Wizard

LEMMA ClearTask ==
    ASSUME ClearInv, LifeInv', Steady, NEW j \in Jobs,
           Deliver(j) \/ TaskStep(j) \/ WorkerDies(j)
    PROVE  ClearInv'
  <1> USE NothingKnown DEF ClearInv, KnownIsCreated, WrapperGoesLast, OutputTold, Clears
  <1>1. /\ TypeOK /\ TypeOK'
        /\ \A k \in Jobs : /\ DeliveredOnce(k) /\ UrlIsLast(k)
                           /\ SettledIsOver(k) /\ EntryKept(k) /\ StartsOnce(k)
    BY DEF LifeInv, OutputInv
  <1>2. CASE Deliver(j)
    BY <1>1, <1>2 DEF Deliver, TypeOK, NameUnshared, At, DeliveredOnce
  <1>3. CASE TaskGet(j)
    <2>1. db[j] # NoEntry
      BY <1>1, <1>3 DEF TaskGet, DeliveredOnce, EntryKept
    <2>2. QED
      BY <1>1, <1>3, <2>1 DEF TaskGet, TypeOK, NameUnshared, At
  <1>4. CASE TaskPut(j)
    <2> DEFINE written == Merged(task[j].item, task[j].goal)
    <2>1. /\ task[j].pc = "put"
          /\ db' = [db EXCEPT ![j] = written]
          /\ task' = [task EXCEPT ![j] = Updated(task[j])]
          /\ UNCHANGED <<submit, queue, s3, wrap, folders, req>>
      BY <1>4 DEF TaskPut, Steady
    <2>2. written.url = (task[j].item.url \/ task[j].goal \in Terminal)
      BY MergedUrl
    <2>3. /\ submit[j] \notin {"new", "named"} /\ db[j] # NoEntry /\ ~db[j].url
          /\ \A r \in Requests : req[r].pc = "deleteDB" => j \notin req[r].left
      BY <1>1, <2>1 DEF DeliveredOnce, EntryKept, UrlIsLast, SettledIsOver
    <2>4. \A k \in Jobs \ {j} : db'[k] = db[k] /\ task'[k] = task[k]
      BY <1>1, <2>1 DEF TypeOK
    <2>5. db'[j].url = (task[j].item.url \/ task[j].goal \in Terminal)
      BY <1>1, <2>1, <2>2 DEF TypeOK
    <2> HIDE DEF written
    <2>6. \A k \in Jobs : KnownIsCreated(k)'
      BY <2>1
    <2>7. \A k \in Jobs : WrapperGoesLast(k)'
      <3>1. UNCHANGED <<submit, wrap, req>>
        BY <2>1
      <3>2. WrapperGoesLast(j)'
        BY <2>3, <3>1
      <3>3. \A k \in Jobs \ {j} : WrapperGoesLast(k)'
        BY <2>4, <3>1
      <3>4. QED
        BY <3>2, <3>3
    <2>8. \A k \in Jobs : OutputTold(k)'
      <3>1. UNCHANGED <<s3, req>>
        BY <2>1
      <3>2. OutputTold(j)'
        BY <2>1, <2>3, <2>5, <3>1 DEF NameUnshared
      <3>3. \A k \in Jobs \ {j} : OutputTold(k)'
        BY <2>4, <3>1 DEF NameUnshared
      <3>4. QED
        BY <3>2, <3>3
    <2>9. QED
      BY <2>6, <2>7, <2>8
  <1>5. CASE RunJob(j)
    BY <1>1, <1>5 DEF RunJob, TypeOK, NameUnshared, At, Raised
  <1>6. CASE Upload(j)
    <2>1. /\ s3' = s3 \cup {NameOf[j]}
          /\ task' = [task EXCEPT ![j] = At("get", task[j].goal, NoEntry, task[j].exit)]
          /\ UNCHANGED <<submit, queue, db, wrap, folders, req>>
      BY <1>6 DEF Upload, Steady
    <2>2. task[j].goal \in Terminal
      BY <1>1, <1>6 DEF Upload, StartsOnce
    <2>3. QED
      BY <1>1, <2>1, <2>2 DEF TypeOK, NameUnshared, At
  <1>7. CASE WorkerDies(j)
    BY <1>1, <1>7 DEF WorkerDies, TypeOK, NameUnshared, At, Active
  <1>8. QED
    BY <1>2, <1>3, <1>4, <1>5, <1>6, <1>7 DEF TaskStep

LEMMA ClearRefresh ==
    ASSUME ClearInv, LifeInv', Steady, NEW r \in Requests,
           \/ RefreshLoad(r) \/ Refresh(r) \/ Pull(r)
           \/ \E j \in Jobs : PullLoad(r, j)
    PROVE  ClearInv'
  <1> USE NothingKnown DEF ClearInv, KnownIsCreated, WrapperGoesLast, OutputTold, Clears
  <1>1. TypeOK /\ TypeOK' /\ \A k \in Jobs : EntryKept(k)
    BY DEF LifeInv, OutputInv
  <1>2. CASE RefreshLoad(r)
    <2>1. PICK open \in SUBSET Stored :
             req' = [req EXCEPT ![r] = Doing("refresh", Load(open), NoneGot, open)]
      BY <1>2 DEF RefreshLoad
    <2>2. QED
      BY <1>1, <1>2, <2>1 DEF RefreshLoad, TypeOK, NameUnshared, Doing, Load, Stored
  <1>3. ASSUME NEW j \in Jobs, RefreshQuery(r, j)
        PROVE  ClearInv'
    <2>1. PICK answer \in Answers({j}) :
             req' = [req EXCEPT ![r] =
                       IF \/ answer[j] = NoEntry
                          \/ answer[j].status = "failed" /\ ~answer[j].exc
                       THEN Doing("pageError", NoneSeen, NoneGot, {})
                       ELSE Doing("save", req[r].seen, answer, req[r].left)]
      BY <1>3 DEF RefreshQuery
    <2>2. \A k \in Jobs : answer[k] # NoEntry => submit[k] \notin {"new", "named"}
      BY <1>1, AnswerType DEF EntryKept
    <2>3. QED
      BY <1>1, <1>3, <2>1, <2>2 DEF RefreshQuery, TypeOK, NameUnshared, Doing
  <1>4. ASSUME NEW j \in Jobs, RefreshSave(r, j)
        PROVE  ClearInv'
    <2>1. /\ req[r].seen \in [Jobs -> Wrapper]
          /\ req' = [req EXCEPT ![r] = Doing("refresh", [req[r].seen EXCEPT ![j] = NoWrapper],
                                             NoneGot, req[r].left \ {j})]
          /\ UNCHANGED <<submit, queue, db, s3, task, folders>>
      BY <1>1, <1>4 DEF RefreshSave, TypeOK, Request
    <2>2. /\ req[r].got[j] \in Entry /\ req[r].got[j] # NoEntry
          /\ wrap'[j].status = req[r].got[j].status
          /\ \A k \in Jobs \ {j} : wrap'[k] = wrap[k]
      BY <1>1, <1>4 DEF RefreshSave, TypeOK, Request
    <2>3. wrap'[j] # NoWrapper /\ submit[j] \notin {"new", "named"}
      BY <2>2 DEF Entry, NoWrapper
    <2> DEFINE rest == [req[r].seen EXCEPT ![j] = NoWrapper]
    <2>4. \A k \in Jobs : rest[k] # NoWrapper => req[r].seen[k] # NoWrapper
      BY <2>1
    <2> HIDE DEF rest
    <2>5. \A k \in Jobs : KnownIsCreated(k)'
      BY <1>1, <2>1, <2>2, <2>3, <2>4 DEF rest, TypeOK, Doing
    <2>6. \A k \in Jobs : WrapperGoesLast(k)'
      BY <1>1, <2>1, <2>2, <2>3 DEF TypeOK, Doing
    <2>7. \A k \in Jobs : OutputTold(k)'
      BY <1>1, <1>4, <2>1 DEF RefreshSave, TypeOK, NameUnshared, Doing
    <2>8. QED
      BY <2>5, <2>6, <2>7
  <1>5. CASE RefreshRespond(r)
    BY <1>1, <1>5 DEF RefreshRespond, TypeOK, NameUnshared, Idle, Doing
  <1>6. ASSUME NEW j \in Jobs, PullLoad(r, j)
        PROVE  ClearInv'
    BY <1>1, <1>6 DEF PullLoad, TypeOK, NameUnshared, Doing, Load, Stored
  <1>7. CASE PullFetch(r)
    BY <1>1, <1>7 DEF PullFetch, TypeOK, NameUnshared, Idle, Doing
  <1>8. ASSUME NEW j \in Jobs, PullUnpack(r, j)
        PROVE  ClearInv'
    BY <1>1, <1>8 DEF PullUnpack, TypeOK, NameUnshared, Idle, Doing
  <1>9. ASSUME NEW j \in Jobs, PullSave(r, j)
        PROVE  ClearInv'
    <2>1. wrap'[j] # NoWrapper /\ submit[j] \notin {"new", "named"}
      BY <1>1, <1>9 DEF PullSave, TypeOK, NoWrapper
    <2>2. QED
      BY <1>1, <1>9, <2>1 DEF PullSave, TypeOK, NameUnshared, Idle, Doing
  <1>10. QED
    BY <1>2, <1>3, <1>4, <1>5, <1>6, <1>7, <1>8, <1>9 DEF Refresh, Pull

LEMMA ClearDelete ==
    ASSUME ClearInv, LifeInv', Steady, NEW r \in Requests,
           \/ \E selected \in SUBSET Names : DeleteLoad(r, selected)
           \/ Delete(r)
    PROVE  ClearInv'
  <1> USE NothingKnown DEF ClearInv, KnownIsCreated, WrapperGoesLast, OutputTold, Clears
  <1>1. /\ TypeOK /\ TypeOK'
        /\ \A k \in Jobs : UrlIsLast(k) /\ EntryGoesFirst(k) /\ EntryKept(k)
    BY DEF LifeInv, OutputInv
  <1>2. ASSUME NEW selected \in SUBSET Names, DeleteLoad(r, selected)
        PROVE  ClearInv'
    <2>1. PICK chosen \in SUBSET Stored :
             req' = [req EXCEPT ![r] = Doing("lookup", Load(chosen), NoneGot, chosen)]
      BY <1>2 DEF DeleteLoad
    <2>2. QED
      BY <1>1, <1>2, <2>1 DEF DeleteLoad, TypeOK, NameUnshared, Doing, Load, Stored
  <1>3. CASE DeleteLookup(r)
    <2>1. PICK answer \in Answers(req[r].left) :
             req' = [req EXCEPT ![r] = Doing("deleteDB", req[r].seen, answer, req[r].left)]
      BY <1>3 DEF DeleteLookup, Steady
    <2>2. answer = [k \in Jobs |-> IF k \in req[r].left THEN db[k] ELSE NoEntry]
      BY DEF Answers, Steady
    <2>3. \A k \in Jobs : answer[k] # NoEntry => submit[k] \notin {"new", "named"}
      BY <1>1, <2>2 DEF EntryKept
    <2>4. QED
      BY <1>1, <1>3, <2>1, <2>2, <2>3 DEF DeleteLookup, TypeOK, NameUnshared, Doing
  <1>4. ASSUME NEW j \in Jobs, DeleteEntry(r, j)
        PROVE  ClearInv'
    BY <1>1, <1>4 DEF DeleteEntry, TypeOK, NameUnshared, Doing
  <1>5. CASE DeleteEntriesDone(r)
    BY <1>1, <1>5 DEF DeleteEntriesDone, TypeOK, NameUnshared, Doing, EntryGoesFirst
  <1>6. ASSUME NEW j \in Jobs, DeleteOutput(r, j)
        PROVE  ClearInv'
    <2> DEFINE seen == IF NameOf[j] \in s3 THEN req[r].seen
                       ELSE [req[r].seen EXCEPT ![j] = NoWrapper]
    <2>1. /\ s3' = s3 \ {NameOf[j]}
          /\ req' = [req EXCEPT ![r] = Doing("deleteS3", seen, req[r].got, req[r].left \ {j})]
          /\ UNCHANGED <<submit, queue, db, task, wrap, folders>>
      BY <1>6 DEF DeleteOutput, Steady
    <2>2. \A k \in Jobs : seen[k] \in {req[r].seen[k], NoWrapper}
      BY <1>1 DEF TypeOK, Request
    <2>3. req[r].pc = "deleteS3"
      BY <1>6 DEF DeleteOutput
    <2> HIDE DEF seen
    <2>4. \A k \in Jobs : KnownIsCreated(k)' /\ WrapperGoesLast(k)'
      BY <1>1, <2>1, <2>2, <2>3 DEF TypeOK, Doing
    <2>5. \A k \in Jobs : OutputTold(k)'
      BY <1>1, <2>1, <2>3 DEF TypeOK, Doing, NameUnshared
    <2>6. QED
      BY <2>4, <2>5
  <1>7. CASE DeleteOutputsDone(r)
    BY <1>1, <1>7 DEF DeleteOutputsDone, TypeOK, NameUnshared, Doing
  <1>8. ASSUME NEW j \in Jobs, DeleteWrapper(r, j)
        PROVE  ClearInv'
    BY <1>1, <1>8 DEF DeleteWrapper, TypeOK, NameUnshared, Doing
  <1>9. CASE DeleteRespond(r)
    BY <1>1, <1>9 DEF DeleteRespond, TypeOK, NameUnshared, Idle, Doing
  <1>10. QED
    BY <1>2, <1>3, <1>4, <1>5, <1>6, <1>7, <1>8, <1>9 DEF Delete

LEMMA ClearNext ==
    ASSUME ClearInv, Steady, [Next]_vars
    PROVE  ClearInv'
  <1>1. LifeInv'
    BY LifeNext DEF ClearInv, Steady
  <1> USE DEF ClearInv, KnownIsCreated, WrapperGoesLast, OutputTold, Clears, NameUnshared
  <1>2. CASE UNCHANGED vars
    BY <1>1, <1>2 DEF vars
  <1>3. ASSUME NEW j \in Jobs, Wizard(j) \/ Deliver(j) \/ TaskStep(j) \/ WorkerDies(j)
        PROVE  ClearInv'
    BY <1>1, <1>3, ClearWizard, ClearTask
  <1>4. ASSUME NEW r \in Requests, UserAsks(r) \/ Refresh(r) \/ Delete(r) \/ Pull(r)
        PROVE  ClearInv'
    BY <1>1, <1>4, ClearRefresh, ClearDelete DEF UserAsks
  <1>5. CASE BrokerDies
    BY <1>1, <1>5 DEF BrokerDies
  <1>6. Failure => BrokerDies \/ \E j \in Jobs : WorkerDies(j)
    BY DEF Failure, Steady, SubmitDies, TaskUpdateFails, TaskUpdateSkipped, DeleteRefused,
           DeleteBatchRaises, RequestDies, RefreshUnknown
  <1>7. QED
    BY <1>2, <1>3, <1>4, <1>5, <1>6 DEF Next

(* When no call fails, users who delete only jobs that the page shows as   *)
(* over get rid of them: neither the entry nor the output is left, however *)
(* many deletions, refreshes and downloads of the same jobs overlap.       *)
THEOREM DeletionsComplete == Steady => (Spec => []DeletedLeavesNothing)
  <1> SUFFICES ASSUME Steady
               PROVE  Spec => []DeletedLeavesNothing
    OBVIOUS
  <1>1. Init => ClearInv
    BY ClearInit
  <1>2. ClearInv /\ [Next]_vars => ClearInv'
    BY ClearNext
  <1>3. ClearInv => DeletedLeavesNothing
    BY NothingKnown DEF ClearInv, WrapperGoesLast, OutputTold, Clears, DeletedLeavesNothing,
                        Idle, Doing
  <1>4. QED
    BY <1>1, <1>2, <1>3, PTL DEF Spec

=============================================================================
