--------------------------- MODULE CloudJobsProofs ---------------------------
(***************************************************************************)
(* Theorems about CloudJobs, for any sets of jobs, names and requests.     *)
(***************************************************************************)
EXTENDS CloudJobs, TLAPS

-----------------------------------------------------------------------------
(* The values that the actions compute have the types they are stored in.  *)

LEMMA EntryValues ==
    /\ NoEntry \in Entry
    /\ PendingEntry \in Entry
    /\ NoWrapper \in Wrapper
    /\ NewWrapper \in Wrapper
    /\ NoTask \in Task
  BY DEF NoEntry, PendingEntry, Entry, NoWrapper, NewWrapper, Wrapper, NoTask, At, Task

\* What a task writes is an entry.
LEMMA MergedType ==
    ASSUME NEW e \in Entry, NEW g \in {"none", "running", "norun", "failed", "finished", "exception"}
    PROVE  Merged(e, g) \in Entry
  BY DEF Merged, Entry, Terminal

\* A written entry has a url when the entry that was read has one, or the task
\* has uploaded an output; and only the first update leaves it open.
LEMMA MergedUrl ==
    ASSUME NEW e, NEW g
    PROVE  /\ Merged(e, g).url = (e.url \/ g \in Terminal)
           /\ Merged(e, g).status \in Terminal => g # "running"
  BY DEF Merged, Terminal

\* An exception leaves a well-formed task.
LEMMA RaisedType ==
    ASSUME NEW t \in Task
    PROVE  Raised(t) \in Task
  <1>1. NoEntry \in Entry
    BY EntryValues
  <1>2. QED
    BY <1>1 DEF Raised, At, Task

\* So does an update that did not raise.
LEMMA UpdatedType ==
    ASSUME NEW t \in Task
    PROVE  Updated(t) \in Task
  BY EntryValues DEF Updated, At, Task

LEMMA DoingType ==
    ASSUME NEW pc \in {"idle", "refresh", "save", "pageError", "lookup",
                       "deleteDB", "deleteS3", "deleteWrapper",
                       "fetch", "unpack", "saveLocal"},
           NEW seen \in [Jobs -> Wrapper],
           NEW got \in [Jobs -> Entry],
           NEW left \in SUBSET Jobs
    PROVE  Doing(pc, seen, got, left) \in Request
  BY DEF Doing, Request

LEMMA NoneTypes == NoneSeen \in [Jobs -> Wrapper] /\ NoneGot \in [Jobs -> Entry]
  BY EntryValues DEF NoneSeen, NoneGot

LEMMA IdleType == Idle \in Request
  BY DoingType, NoneTypes DEF Idle

\* A query returns wrappers.
LEMMA LoadType ==
    ASSUME TypeOK, NEW S
    PROVE  Load(S) \in [Jobs -> Wrapper]
  BY EntryValues DEF Load, TypeOK

\* A read of the table returns what the table holds, or nothing.
LEMMA AnswerType ==
    ASSUME TypeOK, NEW S, NEW answer \in Answers(S)
    PROVE  /\ answer \in [Jobs -> Entry]
           /\ \A j \in Jobs : answer[j] \in {db[j], NoEntry}
           /\ \A j \in Jobs \ S : answer[j] = NoEntry
  BY EntryValues DEF Answers, TypeOK

-----------------------------------------------------------------------------
(* Type correctness.                                                       *)

LEMMA TypeInit == Init => TypeOK
  BY EntryValues, IdleType DEF Init, TypeOK

LEMMA TypeWizard ==
    ASSUME TypeOK, NEW j \in Jobs, Wizard(j) \/ SubmitDies(j)
    PROVE  TypeOK'
  <1>1. CASE CheckName(j)
    BY <1>1 DEF CheckName, TypeOK
  <1>2. CASE CreateEntry(j)
    BY <1>2, EntryValues DEF CreateEntry, TypeOK
  <1>3. CASE Enqueue(j)
    BY <1>3 DEF Enqueue, TypeOK
  <1>4. CASE SaveWrapper(j)
    BY <1>4, EntryValues DEF SaveWrapper, TypeOK
  <1>5. CASE SubmitDies(j)
    BY <1>5 DEF SubmitDies, TypeOK
  <1>6. QED
    BY <1>1, <1>2, <1>3, <1>4, <1>5 DEF Wizard

LEMMA TypeTask ==
    ASSUME TypeOK, NEW j \in Jobs,
           \/ Deliver(j) \/ TaskStep(j) \/ TaskUpdateFails(j)
           \/ TaskUpdateSkipped(j) \/ WorkerDies(j)
    PROVE  TypeOK'
  <1> USE EntryValues
  <1>1. /\ task[j] \in Task /\ db[j] \in Entry
        /\ Raised(task[j]) \in Task /\ Updated(task[j]) \in Task
    BY RaisedType, UpdatedType DEF TypeOK
  <1>2. CASE Deliver(j)
    BY <1>2 DEF Deliver, TypeOK, At, Task
  <1>3. CASE TaskGet(j)
    BY <1>1, <1>3 DEF TaskGet, TypeOK, At, Task
  <1>4. CASE TaskPut(j)
    <2>1. Merged(task[j].item, task[j].goal) \in Entry
      BY <1>1, MergedType DEF Task
    <2>2. db' \in [Jobs -> Entry]
      BY <1>4, <2>1 DEF TaskPut, TypeOK
    <2>3. task' \in [Jobs -> Task]
      BY <1>1, <1>4 DEF TaskPut, TypeOK
    <2>4. QED
      BY <1>4, <2>2, <2>3 DEF TaskPut, TypeOK
  <1>5. CASE RunJob(j)
    <2>1. /\ At("get", "norun", NoEntry, "none") \in Task
          /\ At("upload", "failed", NoEntry, "bad") \in Task
          /\ At("upload", "finished", NoEntry, "ok") \in Task
      BY DEF At, Task
    <2>2. task' \in [Jobs -> Task]
      BY <1>1, <1>5, <2>1 DEF RunJob, TypeOK
    <2>3. QED
      BY <1>5, <2>2 DEF RunJob, TypeOK
  <1>6. CASE Upload(j)
    <2>1. At("get", task[j].goal, NoEntry, task[j].exit) \in Task
      BY <1>1 DEF At, Task
    <2>2. task' \in [Jobs -> Task]
      BY <1>1, <1>6, <2>1 DEF Upload, TypeOK
    <2>3. s3' \subseteq Names
      BY <1>6, NameOfType DEF Upload, TypeOK
    <2>4. QED
      BY <1>6, <2>2, <2>3 DEF Upload, TypeOK
  <1>7. CASE TaskUpdateFails(j)
    BY <1>1, <1>7 DEF TaskUpdateFails, TypeOK
  <1>8. CASE WorkerDies(j)
    BY <1>1, <1>8 DEF WorkerDies, TypeOK, At, Task
  <1>9. CASE TaskUpdateSkipped(j)
    BY <1>1, <1>9 DEF TaskUpdateSkipped, TypeOK
  <1>10. QED
    BY <1>2, <1>3, <1>4, <1>5, <1>6, <1>7, <1>8, <1>9 DEF TaskStep

LEMMA TypeRefresh ==
    ASSUME TypeOK, NEW r \in Requests,
           RefreshLoad(r) \/ Refresh(r) \/ \E j \in Jobs : RefreshUnknown(r, j)
    PROVE  TypeOK'
  <1> USE NoneTypes, IdleType, EntryValues
  <1>1. req[r] \in Request
    BY DEF TypeOK
  <1>2. /\ req[r].seen \in [Jobs -> Wrapper]
        /\ req[r].got \in [Jobs -> Entry]
        /\ req[r].left \in SUBSET Jobs
    BY <1>1 DEF Request
  <1>3. CASE RefreshLoad(r)
    <2> DEFINE open == {j \in Stored : wrap[j].status \notin Terminal}
    <2>1. Doing("refresh", Load(open), NoneGot, open) \in Request
      BY LoadType, DoingType DEF Stored
    <2>2. QED
      BY <1>3, <2>1 DEF RefreshLoad, TypeOK
  <1>4. ASSUME NEW j \in Jobs, RefreshQuery(r, j)
        PROVE  TypeOK'
    <2>1. PICK answer \in Answers({j}) :
             req' = [req EXCEPT ![r] =
                       IF \/ answer[j] = NoEntry
                          \/ answer[j].status = "failed" /\ ~answer[j].exc
                       THEN Doing("pageError", NoneSeen, NoneGot, {})
                       ELSE Doing("save", req[r].seen, answer, req[r].left)]
      BY <1>4 DEF RefreshQuery
    <2>2. answer \in [Jobs -> Entry]
      BY AnswerType
    <2>3. /\ Doing("pageError", NoneSeen, NoneGot, {}) \in Request
          /\ Doing("save", req[r].seen, answer, req[r].left) \in Request
      BY <1>2, <2>2, DoingType
    <2>4. QED
      BY <1>4, <2>1, <2>3 DEF RefreshQuery, TypeOK
  <1>5. ASSUME NEW j \in Jobs, RefreshSave(r, j)
        PROVE  TypeOK'
    <2>1. req[r].got[j] \in Entry /\ req[r].seen[j] \in Wrapper
      BY <1>2
    <2>2. wrap' \in [Jobs -> Wrapper]
      BY <1>5, <2>1 DEF RefreshSave, TypeOK, Entry, Wrapper, NoEntry
    <2>3. Doing("refresh", [req[r].seen EXCEPT ![j] = NoWrapper],
                NoneGot, req[r].left \ {j}) \in Request
      BY <1>2, DoingType
    <2>4. QED
      BY <1>5, <2>2, <2>3 DEF RefreshSave, TypeOK
  <1>6. CASE RefreshRespond(r)
    BY <1>6 DEF RefreshRespond, TypeOK
  <1>7. ASSUME NEW j \in Jobs, RefreshUnknown(r, j)
        PROVE  TypeOK'
    <2>1. Doing("refresh", [req[r].seen EXCEPT ![j] = NoWrapper],
                NoneGot, req[r].left \ {j}) \in Request
      BY <1>2, DoingType
    <2>2. QED
      BY <1>7, <2>1 DEF RefreshUnknown, TypeOK
  <1>8. QED
    BY <1>3, <1>4, <1>5, <1>6, <1>7 DEF Refresh

LEMMA TypeDelete ==
    ASSUME TypeOK, NEW r \in Requests,
           \/ \E selected \in SUBSET Names : DeleteLoad(r, selected)
           \/ Delete(r)
           \/ DeleteRefused(r) \/ DeleteBatchRaises(r)
    PROVE  TypeOK'
  <1> USE NoneTypes, IdleType, EntryValues
  <1>1. req[r] \in Request
    BY DEF TypeOK
  <1>2. /\ req[r].seen \in [Jobs -> Wrapper]
        /\ req[r].got \in [Jobs -> Entry]
        /\ req[r].left \in SUBSET Jobs
    BY <1>1 DEF Request
  <1>3. ASSUME NEW selected \in SUBSET Names, DeleteLoad(r, selected)
        PROVE  TypeOK'
    <2> DEFINE chosen == {j \in Stored : NameOf[j] \in selected}
    <2>1. Doing("lookup", Load(chosen), NoneGot, chosen) \in Request
      BY LoadType, DoingType DEF Stored
    <2>2. QED
      BY <1>3, <2>1 DEF DeleteLoad, TypeOK
  <1>4. CASE DeleteLookup(r)
    <2>1. PICK answer \in Answers(req[r].left) \cup {NoneGot} :
             req' = [req EXCEPT ![r] = Doing("deleteDB", req[r].seen, answer, req[r].left)]
      BY <1>4 DEF DeleteLookup
    <2>2. answer \in [Jobs -> Entry]
      BY AnswerType
    <2>3. Doing("deleteDB", req[r].seen, answer, req[r].left) \in Request
      BY <1>2, <2>2, DoingType
    <2>4. QED
      BY <1>4, <2>1, <2>3 DEF DeleteLookup, TypeOK
  <1>5. ASSUME NEW j \in Jobs, DeleteEntry(r, j)
        PROVE  TypeOK'
    <2>1. Doing("deleteDB", req[r].seen, req[r].got, req[r].left \ {j}) \in Request
      BY <1>2, DoingType
    <2>2. QED
      BY <1>5, <2>1 DEF DeleteEntry, TypeOK
  <1>6. CASE DeleteBatchRaises(r)
    BY <1>6 DEF DeleteBatchRaises, TypeOK
  <1>13. CASE DeleteRefused(r)
    BY <1>13 DEF DeleteRefused, TypeOK
  <1>7. CASE DeleteEntriesDone(r)
    <2>1. Doing("deleteS3", req[r].seen, req[r].got,
                {j \in Jobs : req[r].got[j].url}) \in Request
      BY <1>2, DoingType
    <2>2. QED
      BY <1>7, <2>1 DEF DeleteEntriesDone, TypeOK
  <1>8. ASSUME NEW j \in Jobs, DeleteOutput(r, j)
        PROVE  TypeOK'
    <2>1. \A seen \in [Jobs -> Wrapper] :
            Doing("deleteS3", seen, req[r].got, req[r].left \ {j}) \in Request
      BY <1>2, DoingType
    <2>2. [req[r].seen EXCEPT ![j] = NoWrapper] \in [Jobs -> Wrapper]
      BY <1>2
    <2> DEFINE seen == IF NameOf[j] \in s3 THEN req[r].seen
                       ELSE [req[r].seen EXCEPT ![j] = NoWrapper]
    <2>3. Doing(req[r].pc, seen, req[r].got, req[r].left \ {j}) \in Request
      BY <1>2, <1>8, <2>1, <2>2 DEF DeleteOutput
    <2> HIDE DEF seen
    <2>5. \/ req' = [req EXCEPT ![r] = Doing(req[r].pc, seen, req[r].got, req[r].left \ {j})]
          \/ req' = [req EXCEPT ![r] = Idle]
      BY <1>8 DEF DeleteOutput, seen
    <2>6. req' \in [Requests -> Request]
      BY <2>3, <2>5 DEF TypeOK
    <2>4. QED
      BY <1>8, <2>6 DEF DeleteOutput, TypeOK
  <1>9. CASE DeleteOutputsDone(r)
    <2>1. Doing("deleteWrapper", req[r].seen, req[r].got,
                {j \in Jobs : req[r].seen[j] # NoWrapper}) \in Request
      BY <1>2, DoingType
    <2>2. QED
      BY <1>9, <2>1 DEF DeleteOutputsDone, TypeOK
  <1>10. ASSUME NEW j \in Jobs, DeleteWrapper(r, j)
         PROVE  TypeOK'
    <2>1. Doing("deleteWrapper", req[r].seen, req[r].got, req[r].left \ {j}) \in Request
      BY <1>2, DoingType
    <2>2. QED
      BY <1>10, <2>1 DEF DeleteWrapper, TypeOK
  <1>11. CASE DeleteRespond(r)
    BY <1>11 DEF DeleteRespond, TypeOK
  <1>12. QED
    BY <1>3, <1>4, <1>5, <1>6, <1>7, <1>8, <1>9, <1>10, <1>11, <1>13 DEF Delete

LEMMA TypePull ==
    ASSUME TypeOK, NEW r \in Requests,
           (\E j \in Jobs : PullLoad(r, j)) \/ Pull(r) \/ RequestDies(r)
    PROVE  TypeOK'
  <1> USE NoneTypes, IdleType
  <1>1. req[r] \in Request
    BY DEF TypeOK
  <1>2. /\ req[r].seen \in [Jobs -> Wrapper]
        /\ req[r].got \in [Jobs -> Entry]
        /\ req[r].left \in SUBSET Jobs
    BY <1>1 DEF Request
  <1>3. ASSUME NEW j \in Jobs, PullLoad(r, j)
        PROVE  TypeOK'
    <2>1. Doing("fetch", Load({j}), NoneGot, {j}) \in Request
      BY LoadType, DoingType
    <2>2. QED
      BY <1>3, <2>1 DEF PullLoad, TypeOK
  <1>4. CASE PullFetch(r)
    <2>1. Doing("unpack", req[r].seen, req[r].got, req[r].left) \in Request
      BY <1>2, DoingType
    <2>2. QED
      BY <1>4, <2>1 DEF PullFetch, TypeOK
  <1>5. ASSUME NEW j \in Jobs, PullUnpack(r, j)
        PROVE  TypeOK'
    <2>1. Doing("saveLocal", req[r].seen, req[r].got, req[r].left) \in Request
      BY <1>2, DoingType
    <2>2. QED
      BY <1>5, <2>1, NameOfType DEF PullUnpack, TypeOK
  <1>6. ASSUME NEW j \in Jobs, PullSave(r, j)
        PROVE  TypeOK'
    <2>1. req[r].seen[j] \in Wrapper
      BY <1>2
    <2>2. wrap' \in [Jobs -> Wrapper]
      BY <1>6, <2>1 DEF PullSave, TypeOK, Wrapper
    <2>3. QED
      BY <1>6, <2>2 DEF PullSave, TypeOK
  <1>7. CASE RequestDies(r)
    BY <1>7 DEF RequestDies, TypeOK
  <1>8. QED
    BY <1>3, <1>4, <1>5, <1>6, <1>7 DEF Pull

LEMMA TypeBroker ==
    ASSUME TypeOK, BrokerDies
    PROVE  TypeOK'
  BY DEF BrokerDies, TypeOK

LEMMA TypeNext == TypeOK /\ [Next]_vars => TypeOK'
  <1> SUFFICES ASSUME TypeOK, [Next]_vars
               PROVE  TypeOK'
    OBVIOUS
  <1>1. CASE UNCHANGED vars
    BY <1>1 DEF vars, TypeOK
  <1>2. ASSUME NEW j \in Jobs, Wizard(j) \/ Deliver(j) \/ TaskStep(j)
        PROVE  TypeOK'
    BY <1>2, TypeWizard, TypeTask
  <1>3. ASSUME NEW r \in Requests, UserAsks(r) \/ Refresh(r) \/ Delete(r) \/ Pull(r)
        PROVE  TypeOK'
    BY <1>3, TypeRefresh, TypeDelete, TypePull DEF UserAsks
  <1>4. CASE Failure
    BY <1>4, TypeWizard, TypeTask, TypeRefresh, TypeDelete, TypePull, TypeBroker DEF Failure
  <1>5. QED
    BY <1>1, <1>2, <1>3, <1>4 DEF Next

(* Every variable of CloudJobs keeps its type in every behaviour.          *)
THEOREM TypeCorrect == Spec => []TypeOK
  <1>1. Init => TypeOK
    BY TypeInit
  <1>2. TypeOK /\ [Next]_vars => TypeOK'
    BY TypeNext
  <1>3. QED
    BY <1>1, <1>2, PTL DEF Spec

-----------------------------------------------------------------------------
\* The table is written by the wizard, by tasks and by deletions.
LEMMA OnlyThreeWrite ==
    ASSUME [Next]_vars
    PROVE  \/ UNCHANGED db
           \/ \E k \in Jobs : CreateEntry(k) \/ TaskPut(k)
           \/ \E r \in Requests, k \in Jobs : DeleteEntry(r, k)
  <1> DEFINE Written == \/ UNCHANGED db
                        \/ \E k \in Jobs : CreateEntry(k) \/ TaskPut(k)
                        \/ \E r \in Requests, k \in Jobs : DeleteEntry(r, k)
  <1>1. CASE UNCHANGED vars
    BY <1>1 DEF vars
  <1>2. ASSUME NEW j \in Jobs, Wizard(j) \/ Deliver(j) \/ TaskStep(j)
        PROVE  Written
    BY <1>2 DEF Wizard, TaskStep, CheckName, Enqueue, SaveWrapper, Deliver,
                TaskGet, RunJob, Upload
  <1>3. ASSUME NEW r \in Requests, UserAsks(r) \/ Refresh(r) \/ Pull(r)
        PROVE  Written
    BY <1>3 DEF UserAsks, RefreshLoad, DeleteLoad, PullLoad, Refresh, RefreshQuery,
                RefreshSave, RefreshRespond, Pull, PullFetch, PullUnpack, PullSave
  <1>4. ASSUME NEW r \in Requests, Delete(r)
        PROVE  Written
    BY <1>4 DEF Delete, DeleteLookup, DeleteEntriesDone, DeleteOutputsDone, DeleteRespond,
                DeleteOutput, DeleteWrapper
  <1>5. CASE Failure
    BY <1>5 DEF Failure, SubmitDies, WorkerDies, TaskUpdateFails, TaskUpdateSkipped,
                DeleteRefused, DeleteBatchRaises, RequestDies, RefreshUnknown, BrokerDies
  <1>6. QED
    BY <1>1, <1>2, <1>3, <1>4, <1>5 DEF Next

-----------------------------------------------------------------------------
(* A recorded output exists.  RecordedOutputExists alone is not inductive: *)
(* the object may only go when no entry tells of it, and a deletion relies *)
(* on an entry that it read before.  The invariant says what makes that    *)
(* reading safe: an entry has a url only when its task is over, and then   *)
(* nothing can write it again.                                             *)

\* A job has no message and no task before the wizard has enqueued it, and
\* one message makes one task.
DeliveredOnce(j) ==
    /\ submit[j] \in {"new", "named", "created"} => j \notin queue
    /\ submit[j] \in {"new", "named", "created"} => task[j].pc = "none"
    /\ j \in queue => task[j].pc = "none"

\* Whoever has seen a url of job j has seen the last thing its task wrote, and
\* so has everybody who has seen a final status.
UrlIsLast(j) ==
    /\ db[j].status \in Terminal => task[j].pc = "done"
    /\ db[j].url => task[j].pc = "done"
    /\ ~task[j].item.url
    /\ \A r \in Requests : req[r].got[j].url => task[j].pc = "done"

\* A deletion reaches the output of job j only after its entry is gone.
EntryGoesFirst(j) ==
    \A r \in Requests :
        /\ req[r].pc = "deleteDB" /\ req[r].got[j].url =>
              j \in req[r].left \/ db[j] = NoEntry
        /\ req[r].pc = "deleteS3" /\ req[r].got[j].url => db[j] = NoEntry
        /\ req[r].pc = "deleteS3" /\ j \in req[r].left => req[r].got[j].url

\* A task that is about to record an output has uploaded it.
OutputBacked(j) ==
    NameUnshared(j) =>
        /\ task[j].pc \in {"get", "put"} /\ task[j].goal \in Terminal =>
              NameOf[j] \in s3
        /\ db[j].url => NameOf[j] \in s3

OutputInv ==
    /\ TypeOK
    /\ \A j \in Jobs : /\ DeliveredOnce(j) /\ UrlIsLast(j)
                       /\ EntryGoesFirst(j) /\ OutputBacked(j)

LEMMA OutputInit == Init => OutputInv
  <1> SUFFICES ASSUME Init PROVE OutputInv
    OBVIOUS
  <1>1. TypeOK
    BY TypeInit
  <1>2. /\ \A j \in Jobs : db[j] = NoEntry /\ task[j] = NoTask
        /\ \A r \in Requests : req[r] = Idle
        /\ queue = {}
    BY DEF Init
  <1>3. \A j \in Jobs : ~NoneGot[j].url /\ ~NoEntry.url
    BY DEF NoneGot, NoEntry
  <1>4. \A j \in Jobs : DeliveredOnce(j) /\ UrlIsLast(j)
                       /\ EntryGoesFirst(j) /\ OutputBacked(j)
    BY <1>2, <1>3 DEF DeliveredOnce, UrlIsLast, EntryGoesFirst, OutputBacked,
                      NoTask, At, Idle, Doing, NoEntry, Terminal
  <1>5. QED
    BY <1>1, <1>4 DEF OutputInv

LEMMA OutputWizard ==
    ASSUME OutputInv, NEW j \in Jobs, Wizard(j) \/ SubmitDies(j)
    PROVE  OutputInv'
  <1> USE DEF OutputInv, DeliveredOnce, UrlIsLast, EntryGoesFirst, OutputBacked
  <1>1. TypeOK /\ TypeOK'
    BY TypeWizard
  <1>2. CASE CheckName(j)
    BY <1>1, <1>2 DEF CheckName, TypeOK, NameUnshared
  <1>3. CASE CreateEntry(j)
    BY <1>1, <1>3 DEF CreateEntry, TypeOK, NameUnshared, PendingEntry, Terminal
  <1>4. CASE Enqueue(j)
    BY <1>1, <1>4 DEF Enqueue, TypeOK, NameUnshared
  <1>5. CASE SaveWrapper(j)
    BY <1>1, <1>5 DEF SaveWrapper, TypeOK, NameUnshared
  <1>6. CASE SubmitDies(j)
    BY <1>1, <1>6 DEF SubmitDies, TypeOK, NameUnshared
  <1>7. QED
    BY <1>2, <1>3, <1>4, <1>5, <1>6 DEF Wizard

LEMMA OutputTask ==
    ASSUME OutputInv, "reply" \notin Faults, NEW j \in Jobs,
           \/ Deliver(j) \/ TaskStep(j) \/ TaskUpdateFails(j)
           \/ TaskUpdateSkipped(j) \/ WorkerDies(j)
    PROVE  OutputInv'
  <1> USE DEF OutputInv, DeliveredOnce, UrlIsLast, EntryGoesFirst, OutputBacked
  <1>1. TypeOK /\ TypeOK'
    BY TypeTask
  <1>2. ~NoEntry.url
    BY DEF NoEntry
  <1>3. CASE Deliver(j)
    BY <1>1, <1>2, <1>3 DEF Deliver, TypeOK, NameUnshared, At, Terminal
  <1>4. CASE TaskGet(j)
    BY <1>1, <1>2, <1>4 DEF TaskGet, TypeOK, NameUnshared, At, Raised, Terminal
  <1>5. CASE TaskPut(j)
    <2> DEFINE written == Merged(task[j].item, task[j].goal)
    <2>1. /\ written.url = (task[j].item.url \/ task[j].goal \in Terminal)
          /\ written.status \in Terminal => task[j].goal # "running"
      BY MergedUrl
    <2>2. /\ task[j].pc = "put"
          /\ db' = [db EXCEPT ![j] = written]
          /\ task' = [task EXCEPT ![j] =
                        At(IF task[j].goal = "running" THEN "run" ELSE "done",
                           task[j].goal, NoEntry, task[j].exit)]
          /\ UNCHANGED <<submit, queue, s3, wrap, folders, req>>
      BY <1>5 DEF TaskPut, Updated
    <2> HIDE DEF written
    <2>3. QED
      BY <1>1, <1>2, <2>1, <2>2 DEF TypeOK, NameUnshared, At, Terminal
  <1>6. CASE RunJob(j)
    BY <1>1, <1>2, <1>6 DEF RunJob, TypeOK, NameUnshared, At, Raised, Terminal
  <1>7. CASE Upload(j)
    BY <1>1, <1>2, <1>7 DEF Upload, TypeOK, NameUnshared, At, Raised, Terminal
  <1>8. CASE TaskUpdateFails(j)
    BY <1>1, <1>2, <1>8 DEF TaskUpdateFails, TypeOK, NameUnshared, At, Raised, Terminal
  <1>9. CASE WorkerDies(j)
    BY <1>1, <1>2, <1>9 DEF WorkerDies, TypeOK, NameUnshared, At, Active
  <1>10. CASE TaskUpdateSkipped(j)
    BY <1>1, <1>2, <1>10 DEF TaskUpdateSkipped, TypeOK, NameUnshared, At, Updated, Terminal
  <1>11. QED
    BY <1>3, <1>4, <1>5, <1>6, <1>7, <1>8, <1>9, <1>10 DEF TaskStep

LEMMA OutputRefresh ==
    ASSUME OutputInv, NEW r \in Requests,
           \/ RefreshLoad(r) \/ Refresh(r)
           \/ \E j \in Jobs : RefreshUnknown(r, j) \/ PullLoad(r, j)
           \/ Pull(r) \/ RequestDies(r)
    PROVE  OutputInv'
  <1> USE DEF OutputInv, DeliveredOnce, UrlIsLast, EntryGoesFirst, OutputBacked
  <1>1. TypeOK /\ TypeOK'
    BY TypeRefresh, TypePull
  <1>2. ~NoEntry.url /\ NoEntry.status \notin Terminal /\ \A j \in Jobs : ~NoneGot[j].url
    BY DEF NoEntry, NoneGot, Terminal
  <1>3. CASE RefreshLoad(r)
    BY <1>1, <1>2, <1>3 DEF RefreshLoad, TypeOK, NameUnshared, Doing
  <1>4. ASSUME NEW j \in Jobs, RefreshQuery(r, j)
        PROVE  OutputInv'
    <2>1. PICK answer \in Answers({j}) :
             req' = [req EXCEPT ![r] =
                       IF \/ answer[j] = NoEntry
                          \/ answer[j].status = "failed" /\ ~answer[j].exc
                       THEN Doing("pageError", NoneSeen, NoneGot, {})
                       ELSE Doing("save", req[r].seen, answer, req[r].left)]
      BY <1>4 DEF RefreshQuery
    <2>2. \A k \in Jobs : answer[k] \in {db[k], NoEntry}
      BY <1>1, AnswerType
    <2>3. QED
      BY <1>1, <1>2, <1>4, <2>1, <2>2 DEF RefreshQuery, TypeOK, NameUnshared, Doing
  <1>5. ASSUME NEW j \in Jobs, RefreshSave(r, j)
        PROVE  OutputInv'
    BY <1>1, <1>2, <1>5 DEF RefreshSave, TypeOK, NameUnshared, Doing
  <1>6. CASE RefreshRespond(r)
    BY <1>1, <1>2, <1>6 DEF RefreshRespond, TypeOK, NameUnshared, Idle, Doing
  <1>7. ASSUME NEW j \in Jobs, PullLoad(r, j)
        PROVE  OutputInv'
    BY <1>1, <1>2, <1>7 DEF PullLoad, TypeOK, NameUnshared, Doing
  <1>8. CASE PullFetch(r)
    BY <1>1, <1>2, <1>8 DEF PullFetch, TypeOK, NameUnshared, Idle, Doing
  <1>9. ASSUME NEW j \in Jobs, PullUnpack(r, j) \/ PullSave(r, j)
        PROVE  OutputInv'
    BY <1>1, <1>2, <1>9 DEF PullUnpack, PullSave, TypeOK, NameUnshared, Idle, Doing
  <1>10. CASE RequestDies(r)
    BY <1>1, <1>2, <1>10 DEF RequestDies, TypeOK, NameUnshared, Idle, Doing
  <1>11. ASSUME NEW j \in Jobs, RefreshUnknown(r, j)
         PROVE  OutputInv'
    BY <1>1, <1>2, <1>11 DEF RefreshUnknown, TypeOK, NameUnshared, Doing
  <1>12. QED
    BY <1>3, <1>4, <1>5, <1>6, <1>7, <1>8, <1>9, <1>10, <1>11 DEF Refresh, Pull

LEMMA OutputDelete ==
    ASSUME OutputInv, NEW r \in Requests,
           \/ \E selected \in SUBSET Names : DeleteLoad(r, selected)
           \/ Delete(r)
           \/ DeleteRefused(r) \/ DeleteBatchRaises(r)
    PROVE  OutputInv'
  <1> USE DEF OutputInv, DeliveredOnce, UrlIsLast, EntryGoesFirst, OutputBacked
  <1>1. TypeOK /\ TypeOK'
    BY TypeDelete
  <1>2. ~NoEntry.url /\ NoEntry.status \notin Terminal /\ \A j \in Jobs : ~NoneGot[j].url
    BY DEF NoEntry, NoneGot, Terminal
  <1>3. ASSUME NEW selected \in SUBSET Names, DeleteLoad(r, selected)
        PROVE  OutputInv'
    BY <1>1, <1>2, <1>3 DEF DeleteLoad, TypeOK, NameUnshared, Doing
  <1>4. CASE DeleteLookup(r)
    <2>1. PICK answer \in Answers(req[r].left) \cup {NoneGot} :
             req' = [req EXCEPT ![r] = Doing("deleteDB", req[r].seen, answer, req[r].left)]
      BY <1>4 DEF DeleteLookup
    <2>2. /\ \A k \in Jobs : answer[k] \in {db[k], NoEntry}
          /\ \A k \in Jobs \ req[r].left : answer[k] = NoEntry
      BY <1>1, AnswerType DEF NoneGot
    <2>3. QED
      BY <1>1, <1>2, <1>4, <2>1, <2>2 DEF DeleteLookup, TypeOK, NameUnshared, Doing
  <1>5. ASSUME NEW j \in Jobs, DeleteEntry(r, j)
        PROVE  OutputInv'
    BY <1>1, <1>2, <1>5 DEF DeleteEntry, TypeOK, NameUnshared, Doing
  <1>6. CASE DeleteBatchRaises(r)
    BY <1>1, <1>2, <1>6 DEF DeleteBatchRaises, TypeOK, NameUnshared, Idle, Doing
  <1>13. CASE DeleteRefused(r)
    BY <1>1, <1>2, <1>13 DEF DeleteRefused, TypeOK, NameUnshared, Idle, Doing
  <1>7. CASE DeleteEntriesDone(r)
    BY <1>1, <1>2, <1>7 DEF DeleteEntriesDone, TypeOK, NameUnshared, Doing
  <1>8. ASSUME NEW j \in Jobs, DeleteOutput(r, j)
        PROVE  OutputInv'
    <2> DEFINE seen == IF NameOf[j] \in s3 THEN req[r].seen
                       ELSE [req[r].seen EXCEPT ![j] = NoWrapper]
    <2>1. CASE /\ s3' = s3 \ {NameOf[j]}
               /\ req' = [req EXCEPT ![r] =
                            Doing("deleteS3", seen, req[r].got, req[r].left \ {j})]
      <3> HIDE DEF seen
      <3>1. db[j] = NoEntry /\ task[j].pc = "done"
        BY <1>8 DEF DeleteOutput
      <3>2. \A k \in Jobs : NameUnshared(k) /\ NameOf[k] \in s3 /\ k # j => NameOf[k] \in s3'
        BY <2>1 DEF NameUnshared
      <3>3. UNCHANGED <<submit, queue, db, task, wrap, folders>>
        BY <1>8 DEF DeleteOutput
      <3>4. \A k \in Jobs : DeliveredOnce(k)' /\ UrlIsLast(k)'
        BY <1>1, <2>1, <3>3 DEF TypeOK, Doing
      <3>5. \A k \in Jobs : EntryGoesFirst(k)'
        BY <1>1, <1>8, <2>1, <3>3 DEF DeleteOutput, TypeOK, Doing
      <3>6. \A k \in Jobs : OutputBacked(k)'
        BY <1>2, <3>1, <3>2, <3>3 DEF NameUnshared
      <3>7. QED
        BY <1>1, <3>4, <3>5, <3>6
    <2>2. CASE req' = [req EXCEPT ![r] = Idle] /\ UNCHANGED s3
      BY <1>1, <1>2, <1>8, <2>2 DEF DeleteOutput, TypeOK, NameUnshared, Idle, Doing
    <2>3. QED
      BY <1>8, <2>1, <2>2 DEF DeleteOutput
  <1>9. CASE DeleteOutputsDone(r)
    BY <1>1, <1>2, <1>9 DEF DeleteOutputsDone, TypeOK, NameUnshared, Doing
  <1>10. ASSUME NEW j \in Jobs, DeleteWrapper(r, j)
         PROVE  OutputInv'
    BY <1>1, <1>2, <1>10 DEF DeleteWrapper, TypeOK, NameUnshared, Doing
  <1>11. CASE DeleteRespond(r)
    BY <1>1, <1>2, <1>11 DEF DeleteRespond, TypeOK, NameUnshared, Idle, Doing
  <1>12. QED
    BY <1>3, <1>4, <1>5, <1>6, <1>7, <1>8, <1>9, <1>10, <1>11, <1>13 DEF Delete

LEMMA OutputBroker ==
    ASSUME OutputInv, BrokerDies
    PROVE  OutputInv'
  BY TypeBroker DEF BrokerDies, OutputInv, TypeOK, DeliveredOnce, UrlIsLast,
                    EntryGoesFirst, OutputBacked, NameUnshared

LEMMA OutputNext ==
    ASSUME OutputInv, "reply" \notin Faults, [Next]_vars
    PROVE  OutputInv'
  <1>1. CASE UNCHANGED vars
    BY <1>1 DEF vars, OutputInv, TypeOK, DeliveredOnce, UrlIsLast, EntryGoesFirst,
                OutputBacked, NameUnshared
  <1>2. ASSUME NEW j \in Jobs, Wizard(j) \/ Deliver(j) \/ TaskStep(j)
        PROVE  OutputInv'
    BY <1>2, OutputWizard, OutputTask
  <1>3. ASSUME NEW r \in Requests, UserAsks(r) \/ Refresh(r) \/ Delete(r) \/ Pull(r)
        PROVE  OutputInv'
    BY <1>3, OutputRefresh, OutputDelete DEF UserAsks
  <1>4. CASE Failure
    BY <1>4, OutputWizard, OutputTask, OutputRefresh, OutputDelete, OutputBroker DEF Failure
  <1>5. QED
    BY <1>1, <1>2, <1>3, <1>4 DEF Next

(* When no database write takes effect and still raises, an entry that says *)
(* where its output is never outlives that output, for any number of jobs   *)
(* and concurrent requests, and whatever other failures occur.              *)
THEOREM RecordedOutputSafe == "reply" \notin Faults => (Spec => []RecordedOutputExists)
  <1> SUFFICES ASSUME "reply" \notin Faults
               PROVE  Spec => []RecordedOutputExists
    OBVIOUS
  <1>1. Init => OutputInv
    BY OutputInit
  <1>2. OutputInv /\ [Next]_vars => OutputInv'
    BY OutputNext
  <1>3. OutputInv => RecordedOutputExists
    BY DEF OutputInv, OutputBacked, RecordedOutputExists
  <1>4. QED
    BY <1>1, <1>2, <1>3, PTL DEF Spec

(* When no database write takes effect and still raises, an entry that says *)
(* how its job ended is never written again, only deleted: no update of the *)
(* same task, and no other task or submission, comes after it.              *)
THEOREM SettledEntriesFrozen == "reply" \notin Faults => (Spec => SettledEntryFrozen)
  <1> SUFFICES ASSUME "reply" \notin Faults
               PROVE  Spec => SettledEntryFrozen
    OBVIOUS
  <1> DEFINE Frozen == \A j \in Jobs : db[j].status \in Terminal => db'[j] \in {db[j], NoEntry}
  <1>1. Init => OutputInv
    BY OutputInit
  <1>2. OutputInv /\ [Next]_vars => OutputInv'
    BY OutputNext
  <1>3. OutputInv /\ [Next]_vars => Frozen
    <2> SUFFICES ASSUME OutputInv, [Next]_vars, NEW j \in Jobs, db[j].status \in Terminal
                 PROVE  db'[j] \in {db[j], NoEntry}
      OBVIOUS
    <2>1. /\ task[j].pc = "done"
          /\ submit[j] # "named"
          /\ db \in [Jobs -> Entry]
      BY DEF OutputInv, TypeOK, UrlIsLast, DeliveredOnce
    <2>2. CASE UNCHANGED db
      BY <2>2
    <2>3. ASSUME NEW k \in Jobs, CreateEntry(k) \/ TaskPut(k)
          PROVE  db'[j] \in {db[j], NoEntry}
      BY <2>1, <2>3 DEF CreateEntry, TaskPut
    <2>4. ASSUME NEW r \in Requests, NEW k \in Jobs, DeleteEntry(r, k)
          PROVE  db'[j] \in {db[j], NoEntry}
      BY <2>1, <2>4 DEF DeleteEntry
    <2>5. \/ UNCHANGED db
          \/ \E k \in Jobs : CreateEntry(k) \/ TaskPut(k)
          \/ \E r \in Requests, k \in Jobs : DeleteEntry(r, k)
      BY OnlyThreeWrite
    <2>6. QED
      BY <2>2, <2>3, <2>4, <2>5
  <1>4. QED
    BY <1>1, <1>2, <1>3, PTL DEF Spec, SettledEntryFrozen

-----------------------------------------------------------------------------
(* The page shows the job's own outcome.  A status reaches the page through *)
(* the task, the table, the answer to a request and the loaded wrapper, and *)
(* any of these copies may be old.  The invariant says of every copy what   *)
(* ShownOutcomeIsTrue says of the page, in a form that no later step of the *)
(* task can make false.                                                     *)

Failures == {"norun", "failed", "exception"}

\* A final status tells what became of the run of job j.
Truthful(j, status) ==
    /\ status = "finished" => task[j].exit = "ok"
    /\ status = "failed" => task[j].goal \in Failures

\* The update that a task is making is the one its run calls for.
TaskHonest(j) ==
    /\ task[j].pc = "none" <=> task[j].goal = "none"
    /\ task[j].pc = "run" => task[j].goal = "running"
    /\ task[j].pc = "upload" => task[j].goal \in {"failed", "finished"}
    /\ task[j].goal \in {"none", "running", "norun"} => task[j].exit = "none"
    /\ task[j].goal = "failed" => task[j].exit = "bad"
    /\ task[j].goal = "finished" => task[j].exit = "ok"

\* Every copy of a status, and every url, is that of the run.
CopiesTrue(j) ==
    /\ Truthful(j, db[j].status)
    /\ Truthful(j, wrap[j].status) /\ (wrap[j].url => task[j].exit = "ok")
    /\ \A r \in Requests :
         /\ Truthful(j, req[r].got[j].status)
         /\ Truthful(j, req[r].seen[j].status)
         /\ req[r].seen[j].url => task[j].exit = "ok"

OutcomeInv ==
    /\ TypeOK
    /\ \A j \in Jobs : DeliveredOnce(j) /\ TaskHonest(j) /\ CopiesTrue(j)

\* What is stored before anything has happened tells of no outcome.
LEMMA NothingTold ==
    /\ NoEntry.status = "none" /\ PendingEntry.status = "pending"
    /\ NoWrapper.status = "absent" /\ ~NoWrapper.url
    /\ NewWrapper.status = "unset" /\ ~NewWrapper.url
    /\ \A j \in Jobs : NoneGot[j] = NoEntry /\ NoneSeen[j] = NoWrapper
  BY DEF NoEntry, PendingEntry, NoWrapper, NewWrapper, NoneGot, NoneSeen

LEMMA OutcomeInit == Init => OutcomeInv
  <1> SUFFICES ASSUME Init PROVE OutcomeInv
    OBVIOUS
  <1>1. TypeOK
    BY TypeInit
  <1>2. ASSUME NEW j \in Jobs
        PROVE  DeliveredOnce(j) /\ TaskHonest(j) /\ CopiesTrue(j)
    <2>1. /\ db[j] = NoEntry /\ task[j] = NoTask /\ wrap[j] = NoWrapper
          /\ queue = {} /\ \A r \in Requests : req[r] = Idle
      BY DEF Init
    <2>2. QED
      BY <2>1, NothingTold DEF DeliveredOnce, TaskHonest, CopiesTrue, Truthful,
                               NoTask, At, Idle, Doing
  <1>3. QED
    BY <1>1, <1>2 DEF OutcomeInv

LEMMA OutcomeWizard ==
    ASSUME OutcomeInv, NEW j \in Jobs, Wizard(j) \/ SubmitDies(j)
    PROVE  OutcomeInv'
  <1> USE NothingTold DEF OutcomeInv, DeliveredOnce, TaskHonest, CopiesTrue, Truthful
  <1>1. TypeOK /\ TypeOK'
    BY TypeWizard
  <1>2. CASE CheckName(j)
    BY <1>1, <1>2 DEF CheckName, TypeOK
  <1>3. CASE CreateEntry(j)
    BY <1>1, <1>3 DEF CreateEntry, TypeOK
  <1>4. CASE Enqueue(j)
    BY <1>1, <1>4 DEF Enqueue, TypeOK
  <1>5. CASE SaveWrapper(j)
    BY <1>1, <1>5 DEF SaveWrapper, TypeOK
  <1>6. CASE SubmitDies(j)
    BY <1>1, <1>6 DEF SubmitDies, TypeOK
  <1>7. QED
    BY <1>2, <1>3, <1>4, <1>5, <1>6 DEF Wizard

\* The steps of a task keep what earlier copies tell of it.
LEMMA OutcomeTask ==
    ASSUME OutcomeInv, NEW j \in Jobs,
           \/ Deliver(j) \/ TaskStep(j) \/ TaskUpdateFails(j)
           \/ TaskUpdateSkipped(j) \/ WorkerDies(j)
    PROVE  OutcomeInv'
  <1> USE DEF OutcomeInv, DeliveredOnce, TaskHonest, CopiesTrue, Truthful, Failures
  <1>1. TypeOK /\ TypeOK'
    BY TypeTask
  <1>2. CASE Deliver(j)
    BY <1>1, <1>2 DEF Deliver, TypeOK, At
  <1>3. CASE TaskGet(j)
    BY <1>1, <1>3 DEF TaskGet, TypeOK, At, Raised
  <1>4. CASE TaskPut(j)
    <2> DEFINE written == Merged(task[j].item, task[j].goal)
    <2>1. /\ written.status = "finished" => task[j].goal = "finished"
          /\ written.status = "failed" => task[j].goal \notin {"running", "finished"}
      BY DEF Merged
    <2>2. /\ task[j].pc = "put" /\ task[j] \in Task
          /\ db' = [db EXCEPT ![j] = written]
          /\ UNCHANGED <<submit, queue, s3, wrap, folders, req>>
      BY <1>1, <1>4 DEF TaskPut, TypeOK
    <2>3. \/ task' = [task EXCEPT ![j] = Updated(task[j])]
          \/ task' = [task EXCEPT ![j] = Raised(task[j])]
      BY <1>4 DEF TaskPut
    <2> HIDE DEF written
    <2>4. CASE task' = [task EXCEPT ![j] = Updated(task[j])]
      BY <1>1, <2>1, <2>2, <2>4 DEF TypeOK, At, Updated, Task
    <2>5. CASE task' = [task EXCEPT ![j] = Raised(task[j])]
      BY <1>1, <2>1, <2>2, <2>5 DEF TypeOK, At, Raised, Task
    <2>6. QED
      BY <2>3, <2>4, <2>5
  <1>5. CASE RunJob(j)
    BY <1>1, <1>5 DEF RunJob, TypeOK, At, Raised
  <1>6. CASE Upload(j)
    BY <1>1, <1>6 DEF Upload, TypeOK, At, Raised
  <1>7. CASE TaskUpdateFails(j)
    BY <1>1, <1>7 DEF TaskUpdateFails, TypeOK, At, Raised
  <1>8. CASE WorkerDies(j)
    BY <1>1, <1>8 DEF WorkerDies, TypeOK, At, Active
  <1>9. CASE TaskUpdateSkipped(j)
    BY <1>1, <1>9 DEF TaskUpdateSkipped, TypeOK, At, Updated
  <1>10. QED
    BY <1>2, <1>3, <1>4, <1>5, <1>6, <1>7, <1>8, <1>9 DEF TaskStep

\* What a query or a read returns are copies of what is stored.
LEMMA LoadTrue ==
    ASSUME OutcomeInv, NEW S, NEW j \in Jobs
    PROVE  /\ Truthful(j, Load(S)[j].status)
           /\ Load(S)[j].url => task[j].exit = "ok"
  BY NothingTold DEF Load, OutcomeInv, CopiesTrue, Truthful

LEMMA OutcomeRefresh ==
    ASSUME OutcomeInv, NEW r \in Requests,
           \/ RefreshLoad(r) \/ Refresh(r)
           \/ \E j \in Jobs : RefreshUnknown(r, j) \/ PullLoad(r, j)
           \/ Pull(r) \/ RequestDies(r)
    PROVE  OutcomeInv'
  <1> USE NothingTold DEF OutcomeInv, DeliveredOnce, TaskHonest, CopiesTrue
  <1>1. TypeOK /\ TypeOK'
    BY TypeRefresh, TypePull
  <1>2. CASE RefreshLoad(r)
    <2>1. PICK open : req' = [req EXCEPT ![r] = Doing("refresh", Load(open), NoneGot, open)]
      BY <1>2 DEF RefreshLoad
    <2>2. QED
      BY <1>1, <1>2, <2>1, LoadTrue DEF RefreshLoad, TypeOK, Doing, Truthful
  <1>3. ASSUME NEW j \in Jobs, RefreshQuery(r, j)
        PROVE  OutcomeInv'
    <2>1. PICK answer \in Answers({j}) :
             req' = [req EXCEPT ![r] =
                       IF \/ answer[j] = NoEntry
                          \/ answer[j].status = "failed" /\ ~answer[j].exc
                       THEN Doing("pageError", NoneSeen, NoneGot, {})
                       ELSE Doing("save", req[r].seen, answer, req[r].left)]
      BY <1>3 DEF RefreshQuery
    <2>2. \A k \in Jobs : answer[k] \in {db[k], NoEntry}
      BY <1>1, AnswerType
    <2>3. QED
      BY <1>1, <1>3, <2>1, <2>2 DEF RefreshQuery, TypeOK, Doing, Truthful
  <1>4. ASSUME NEW j \in Jobs, RefreshSave(r, j)
        PROVE  OutcomeInv'
    <2>1. /\ req[r].seen \in [Jobs -> Wrapper]
          /\ req' = [req EXCEPT ![r] = Doing("refresh", [req[r].seen EXCEPT ![j] = NoWrapper],
                                             NoneGot, req[r].left \ {j})]
          /\ UNCHANGED <<submit, queue, db, s3, task, folders>>
      BY <1>1, <1>4 DEF RefreshSave, TypeOK, Request
    <2>2. /\ wrap'[j].status = req[r].got[j].status
          /\ wrap'[j].url => req[r].seen[j].url \/ req[r].got[j].status = "finished"
          /\ \A k \in Jobs \ {j} : wrap'[k] = wrap[k]
      BY <1>1, <1>4 DEF RefreshSave, TypeOK
    <2>3. QED
      BY <1>1, <2>1, <2>2 DEF TypeOK, Doing, Truthful
  <1>5. CASE RefreshRespond(r)
    BY <1>1, <1>5 DEF RefreshRespond, TypeOK, Idle, Doing, Truthful
  <1>6. ASSUME NEW j \in Jobs, PullLoad(r, j)
        PROVE  OutcomeInv'
    BY <1>1, <1>6, LoadTrue DEF PullLoad, TypeOK, Doing, Truthful
  <1>7. CASE PullFetch(r)
    BY <1>1, <1>7 DEF PullFetch, TypeOK, Idle, Doing, Truthful
  <1>8. ASSUME NEW j \in Jobs, PullUnpack(r, j)
        PROVE  OutcomeInv'
    BY <1>1, <1>8 DEF PullUnpack, TypeOK, Idle, Doing, Truthful
  <1>9. ASSUME NEW j \in Jobs, PullSave(r, j)
        PROVE  OutcomeInv'
    BY <1>1, <1>9 DEF PullSave, TypeOK, Idle, Doing, Truthful
  <1>10. CASE RequestDies(r)
    BY <1>1, <1>10 DEF RequestDies, TypeOK, Idle, Doing, Truthful
  <1>11. ASSUME NEW j \in Jobs, RefreshUnknown(r, j)
         PROVE  OutcomeInv'
    BY <1>1, <1>11 DEF RefreshUnknown, TypeOK, Doing, Truthful, Request
  <1>12. QED
    BY <1>2, <1>3, <1>4, <1>5, <1>6, <1>7, <1>8, <1>9, <1>10, <1>11 DEF Refresh, Pull

LEMMA OutcomeDelete ==
    ASSUME OutcomeInv, NEW r \in Requests,
           \/ \E selected \in SUBSET Names : DeleteLoad(r, selected)
           \/ Delete(r)
           \/ DeleteRefused(r) \/ DeleteBatchRaises(r)
    PROVE  OutcomeInv'
  <1> USE NothingTold DEF OutcomeInv, DeliveredOnce, TaskHonest, CopiesTrue
  <1>1. TypeOK /\ TypeOK'
    BY TypeDelete
  <1>2. ASSUME NEW selected \in SUBSET Names, DeleteLoad(r, selected)
        PROVE  OutcomeInv'
    <2>1. PICK chosen : req' = [req EXCEPT ![r] =
                                  Doing("lookup", Load(chosen), NoneGot, chosen)]
      BY <1>2 DEF DeleteLoad
    <2>2. QED
      BY <1>1, <1>2, <2>1, LoadTrue DEF DeleteLoad, TypeOK, Doing, Truthful
  <1>3. CASE DeleteLookup(r)
    <2>1. PICK answer \in Answers(req[r].left) \cup {NoneGot} :
             req' = [req EXCEPT ![r] = Doing("deleteDB", req[r].seen, answer, req[r].left)]
      BY <1>3 DEF DeleteLookup
    <2>2. \A k \in Jobs : answer[k] \in {db[k], NoEntry}
      BY <1>1, AnswerType
    <2>3. QED
      BY <1>1, <1>3, <2>1, <2>2 DEF DeleteLookup, TypeOK, Doing, Truthful
  <1>4. ASSUME NEW j \in Jobs, DeleteEntry(r, j)
        PROVE  OutcomeInv'
    BY <1>1, <1>4 DEF DeleteEntry, TypeOK, Doing, Truthful
  <1>5. CASE DeleteBatchRaises(r)
    BY <1>1, <1>5 DEF DeleteBatchRaises, TypeOK, Idle, Doing, Truthful
  <1>6. CASE DeleteRefused(r)
    BY <1>1, <1>6 DEF DeleteRefused, TypeOK, Idle, Doing, Truthful
  <1>7. CASE DeleteEntriesDone(r)
    BY <1>1, <1>7 DEF DeleteEntriesDone, TypeOK, Doing, Truthful
  <1>8. ASSUME NEW j \in Jobs, DeleteOutput(r, j)
        PROVE  OutcomeInv'
    <2> DEFINE seen == IF NameOf[j] \in s3 THEN req[r].seen
                       ELSE [req[r].seen EXCEPT ![j] = NoWrapper]
    <2>1. \/ req' = [req EXCEPT ![r] = Doing("deleteS3", seen, req[r].got, req[r].left \ {j})]
          \/ req' = [req EXCEPT ![r] = Idle]
      BY <1>8 DEF DeleteOutput
    <2>2. \A k \in Jobs : seen[k] \in {req[r].seen[k], NoWrapper}
      BY <1>1 DEF TypeOK, Request
    <2>3. UNCHANGED <<submit, queue, db, task, wrap, folders>>
      BY <1>8 DEF DeleteOutput
    <2> HIDE DEF seen
    <2>4. CASE req' = [req EXCEPT ![r] = Doing("deleteS3", seen, req[r].got, req[r].left \ {j})]
      <3>1. ASSUME NEW k \in Jobs
            PROVE  /\ Truthful(k, seen[k].status)
                   /\ seen[k].url => task[k].exit = "ok"
        BY <2>2 DEF Truthful
      <3>2. QED
        BY <1>1, <2>3, <2>4, <3>1 DEF TypeOK, Doing, Truthful
    <2>5. CASE req' = [req EXCEPT ![r] = Idle]
      BY <1>1, <2>3, <2>5 DEF TypeOK, Idle, Doing, Truthful
    <2>6. QED
      BY <2>1, <2>4, <2>5
  <1>9. CASE DeleteOutputsDone(r)
    BY <1>1, <1>9 DEF DeleteOutputsDone, TypeOK, Doing, Truthful
  <1>10. ASSUME NEW j \in Jobs, DeleteWrapper(r, j)
         PROVE  OutcomeInv'
    BY <1>1, <1>10 DEF DeleteWrapper, TypeOK, Doing, Truthful
  <1>11. CASE DeleteRespond(r)
    BY <1>1, <1>11 DEF DeleteRespond, TypeOK, Idle, Doing, Truthful
  <1>12. QED
    BY <1>2, <1>3, <1>4, <1>5, <1>6, <1>7, <1>8, <1>9, <1>10, <1>11 DEF Delete

LEMMA OutcomeBroker ==
    ASSUME OutcomeInv, BrokerDies
    PROVE  OutcomeInv'
  BY TypeBroker DEF BrokerDies, OutcomeInv, DeliveredOnce, TaskHonest, CopiesTrue, Truthful

LEMMA OutcomeNext ==
    ASSUME OutcomeInv, [Next]_vars
    PROVE  OutcomeInv'
  <1>1. CASE UNCHANGED vars
    BY <1>1 DEF vars, OutcomeInv, TypeOK, DeliveredOnce, TaskHonest, CopiesTrue, Truthful
  <1>2. ASSUME NEW j \in Jobs, Wizard(j) \/ Deliver(j) \/ TaskStep(j)
        PROVE  OutcomeInv'
    BY <1>2, OutcomeWizard, OutcomeTask
  <1>3. ASSUME NEW r \in Requests, UserAsks(r) \/ Refresh(r) \/ Delete(r) \/ Pull(r)
        PROVE  OutcomeInv'
    BY <1>3, OutcomeRefresh, OutcomeDelete DEF UserAsks
  <1>4. CASE Failure
    BY <1>4, OutcomeWizard, OutcomeTask, OutcomeRefresh, OutcomeDelete, OutcomeBroker
       DEF Failure
  <1>5. QED
    BY <1>1, <1>2, <1>3, <1>4 DEF Next

(* Whatever fails and however requests, deletions and updates overlap, the *)
(* page calls a job Finished, or offers its output, only after it ended    *)
(* with status 0, and Failed never after a recorded good end.              *)
THEOREM ShownOutcomesTrue == Spec => []ShownOutcomeIsTrue
  <1>1. Init => OutcomeInv
    BY OutcomeInit
  <1>2. OutcomeInv /\ [Next]_vars => OutcomeInv'
    BY OutcomeNext
  <1>3. OutcomeInv => ShownOutcomeIsTrue
    BY DEF OutcomeInv, TaskHonest, CopiesTrue, Truthful, Failures, ShownOutcomeIsTrue
  <1>4. QED
    BY <1>1, <1>2, <1>3, PTL DEF Spec

-----------------------------------------------------------------------------
(* A task that is over has recorded its outcome.                           *)

RecordedInv == OutcomeInv /\ OutcomeRecorded

\* What an update writes of the outcome.
LEMMA MergedOutcome ==
    ASSUME NEW e, NEW g
    PROVE  /\ g = "finished" => Merged(e, g).status = "finished"
           /\ g \in Failures => Merged(e, g).status = "failed"
           /\ g = "exception" => Merged(e, g).exc
  BY DEF Merged, Failures

LEMMA RecordedTask ==
    ASSUME RecordedInv, Faults \cap {"put", "table"} = {}, NEW j \in Jobs,
           Wizard(j) \/ Deliver(j) \/ TaskStep(j) \/ WorkerDies(j)
    PROVE  OutcomeRecorded'
  <1> USE DEF OutcomeRecorded
  <1>1. /\ TypeOK /\ OutcomeRecorded
        /\ DeliveredOnce(j) /\ TaskHonest(j)
    BY DEF RecordedInv, OutcomeInv
  <1>2. CASE Wizard(j)
    <2>1. task' = task
      BY <1>2 DEF Wizard, CheckName, CreateEntry, Enqueue, SaveWrapper
    <2>2. CASE CreateEntry(j)
      <3>1. task[j].pc = "none" /\ \A k \in Jobs \ {j} : db'[k] = db[k]
        BY <1>1, <2>2 DEF CreateEntry, DeliveredOnce, TypeOK
      <3>2. QED
        BY <1>1, <2>1, <3>1
    <2>3. CASE ~CreateEntry(j)
      <3>1. db' = db
        BY <1>2, <2>3 DEF Wizard, CheckName, Enqueue, SaveWrapper
      <3>2. QED
        BY <1>1, <2>1, <3>1
    <2>4. QED
      BY <2>2, <2>3
  <1>3. CASE Deliver(j) \/ RunJob(j) \/ WorkerDies(j)
    <2>1. CASE Deliver(j) \/ WorkerDies(j)
      BY <1>1, <2>1 DEF Deliver, WorkerDies, TypeOK, At
    <2>2. CASE RunJob(j)
      BY <1>1, <2>2 DEF RunJob, TypeOK, At, Raised, TaskHonest
    <2>3. QED
      BY <1>3, <2>1, <2>2
  <1>4. CASE TaskGet(j)
    BY <1>1, <1>4 DEF TaskGet, TypeOK, At, Raised
  <1>5. CASE Upload(j)
    <2>1. /\ task'[j].pc = "get" /\ db' = db
          /\ \A k \in Jobs \ {j} : task'[k] = task[k]
      <3>1. task[j].goal # "exception"
        BY <1>1, <1>5 DEF TaskHonest, Upload
      <3>2. QED
        BY <1>1, <1>5, <3>1 DEF Upload, TypeOK, At, Raised
    <2>2. QED
      BY <1>1, <2>1
  <1>6. CASE TaskPut(j)
    <2> DEFINE written == Merged(task[j].item, task[j].goal)
               over == task'[j].pc = "done"
    <2>1. /\ task[j].pc = "put" /\ task[j] \in Task
          /\ db' = [db EXCEPT ![j] = written]
          /\ \A k \in Jobs \ {j} : task'[k] = task[k]
      BY <1>1, <1>6 DEF TaskPut, TypeOK
    <2>2. /\ over => task[j].goal # "running"
          /\ over => task'[j].goal = task[j].goal /\ task'[j].exit = task[j].exit
      <3>1. task'[j] = Updated(task[j]) \/ task'[j] = Raised(task[j])
        BY <1>1, <1>6 DEF TaskPut, TypeOK
      <3>2. QED
        BY <3>1 DEF Updated, Raised, At
    <2>3. task[j].goal \in Failures \cup {"running", "finished"}
      BY <1>1, <2>1 DEF TaskHonest, Task, Failures
    <2>4. over => /\ written.status = IF task[j].goal # "exception" /\ task[j].exit = "ok"
                                      THEN "finished" ELSE "failed"
                  /\ task[j].goal = "exception" => written.exc
      BY <1>1, <2>2, <2>3, MergedOutcome DEF TaskHonest, Failures
    <2> HIDE DEF written
    <2>5. QED
      BY <1>1, <2>1, <2>2, <2>4 DEF TypeOK
  <1>7. QED
    BY <1>2, <1>3, <1>4, <1>5, <1>6 DEF TaskStep

LEMMA RecordedNext ==
    ASSUME RecordedInv, Faults \cap {"put", "table"} = {}, [Next]_vars
    PROVE  RecordedInv'
  <1>1. SUFFICES OutcomeRecorded'
    BY OutcomeNext DEF RecordedInv
  <1>2. ASSUME UNCHANGED task, \A j \in Jobs : db'[j] \in {db[j], NoEntry}
        PROVE  OutcomeRecorded'
    BY <1>2 DEF RecordedInv, OutcomeRecorded
  <1>3. CASE UNCHANGED <<task, db>>
    BY <1>2, <1>3
  <1>4. ASSUME NEW r \in Requests, UserAsks(r) \/ Refresh(r) \/ Pull(r)
        PROVE  UNCHANGED <<task, db>>
    BY <1>4 DEF UserAsks, RefreshLoad, DeleteLoad, PullLoad, Refresh, RefreshQuery,
                RefreshSave, RefreshRespond, Pull, PullFetch, PullUnpack, PullSave
  <1>5. ASSUME NEW r \in Requests, NEW j \in Jobs, DeleteEntry(r, j)
        PROVE  OutcomeRecorded'
    BY <1>2, <1>5 DEF DeleteEntry, RecordedInv, OutcomeInv, TypeOK
  <1>6. ASSUME NEW r \in Requests, Delete(r), ~\E j \in Jobs : DeleteEntry(r, j)
        PROVE  UNCHANGED <<task, db>>
    BY <1>6 DEF Delete, DeleteLookup, DeleteEntriesDone, DeleteOutputsDone, DeleteRespond,
                DeleteOutput, DeleteWrapper
  <1>7. ASSUME Failure, ~\E j \in Jobs : WorkerDies(j)
        PROVE  UNCHANGED <<task, db>>
    BY <1>7 DEF Failure, SubmitDies, TaskUpdateFails, TaskUpdateSkipped, DeleteRefused,
                DeleteBatchRaises, RequestDies, RefreshUnknown, BrokerDies
  <1>8. CASE \E j \in Jobs : Wizard(j) \/ Deliver(j) \/ TaskStep(j) \/ WorkerDies(j)
    BY <1>8, RecordedTask
  <1>9. CASE \E r \in Requests : UserAsks(r) \/ Refresh(r) \/ Delete(r) \/ Pull(r)
    BY <1>3, <1>4, <1>5, <1>6, <1>9
  <1>10. CASE Failure
    BY <1>3, <1>7, <1>8, <1>10
  <1>11. QED
    BY <1>3, <1>8, <1>9, <1>10 DEF Next, vars

(* When the updates of the table do not fail outright, every task that is  *)
(* over has left its outcome in the entry, unless the entry is gone: for   *)
(* users who delete jobs at any time, updates that raise although they took *)
(* effect, and whatever else fails.                                        *)
THEOREM TasksRecordOutcome ==
    Faults \cap {"put", "table"} = {} => (Spec => []OutcomeRecorded)
  <1> SUFFICES ASSUME Faults \cap {"put", "table"} = {}
               PROVE  Spec => []OutcomeRecorded
    OBVIOUS
  <1>1. Init => RecordedInv
    BY OutcomeInit DEF Init, RecordedInv, OutcomeRecorded
  <1>2. RecordedInv /\ [Next]_vars => RecordedInv'
    BY RecordedNext
  <1>3. RecordedInv => OutcomeRecorded
    BY DEF RecordedInv
  <1>4. QED
    BY <1>1, <1>2, <1>3, PTL DEF Spec

-----------------------------------------------------------------------------
(* A pending job is on its way to a worker, or no page shows it.           *)

\* What requests have loaded, and so what they can put back, are jobs whose
\* submission has come to its end.
ShownIsSubmitted ==
    \A j \in Jobs :
        /\ wrap[j] # NoWrapper => submit[j] = "done"
        /\ \A r \in Requests :
             \/ req[r].seen[j] # NoWrapper \/ req[r].got[j] # NoEntry \/ j \in req[r].left
             => submit[j] = "done"

WaitInv == TypeOK /\ PendingIsWaiting /\ ShownIsSubmitted

LEMMA WaitTask ==
    ASSUME WaitInv, NEW j \in Jobs, Wizard(j) \/ Deliver(j) \/ TaskStep(j)
    PROVE  PendingIsWaiting'
  <1> USE DEF WaitInv, PendingIsWaiting
  <1>1. CASE Wizard(j)
    BY <1>1 DEF Wizard, CheckName, CreateEntry, Enqueue, SaveWrapper, TypeOK, ShownIsSubmitted
  <1>2. CASE Deliver(j)
    BY <1>2 DEF Deliver, TypeOK, At
  <1>3. CASE TaskGet(j)
    BY <1>3 DEF TaskGet, TypeOK, At, Raised, NoEntry
  <1>4. CASE TaskPut(j)
    <2> DEFINE written == Merged(task[j].item, task[j].goal)
    <2>1. written.status # "pending"
      BY DEF Merged
    <2>2. /\ db' = [db EXCEPT ![j] = written]
          /\ \A k \in Jobs \ {j} : task'[k] = task[k]
          /\ UNCHANGED <<submit, queue, wrap>>
      BY <1>4 DEF TaskPut, TypeOK
    <2> HIDE DEF written
    <2>3. QED
      BY <2>1, <2>2 DEF TypeOK
  <1>5. CASE RunJob(j) \/ Upload(j)
    BY <1>5 DEF RunJob, Upload, TypeOK, At
  <1>6. QED
    BY <1>1, <1>2, <1>3, <1>4, <1>5 DEF TaskStep

\* An answer tells only of entries that were asked for.
LEMMA AnswersAsked ==
    ASSUME NEW S \in SUBSET Jobs, NEW answer \in Answers(S), NEW j \in Jobs \ S
    PROVE  answer[j] = NoEntry
  BY DEF Answers

\* What a request puts back is a wrapper of a job it has loaded.
LEMMA RequestsPutBack ==
    ASSUME WaitInv, NEW r \in Requests, UserAsks(r) \/ Refresh(r) \/ Delete(r) \/ Pull(r)
    PROVE  /\ \A j \in Jobs : wrap'[j] \in {wrap[j], NoWrapper} \/ submit[j] = "done"
           /\ \A j \in Jobs : db'[j] \in {db[j], NoEntry}
           /\ UNCHANGED <<submit, queue, task>>
  <1> USE DEF WaitInv, TypeOK, ShownIsSubmitted
  <1>1. CASE UserAsks(r)
    BY <1>1 DEF UserAsks, RefreshLoad, DeleteLoad, PullLoad
  <1>2. CASE Refresh(r)
    BY <1>2 DEF Refresh, RefreshQuery, RefreshSave, RefreshRespond
  <1>3. CASE Delete(r)
    BY <1>3 DEF Delete, DeleteLookup, DeleteEntriesDone, DeleteOutputsDone, DeleteRespond,
                DeleteEntry, DeleteOutput, DeleteWrapper
  <1>4. CASE Pull(r)
    BY <1>4 DEF Pull, PullFetch, PullUnpack, PullSave
  <1>5. QED
    BY <1>1, <1>2, <1>3, <1>4

\* What a request has loaded, read or has still to do concerns jobs of which it
\* knew already, or that are stored.
Knows(r, j) == req[r].seen[j] # NoWrapper \/ req[r].got[j] # NoEntry \/ j \in req[r].left

LEMMA RequestsLearn ==
    ASSUME WaitInv, NEW r \in Requests,
           UserAsks(r) \/ Refresh(r) \/ Delete(r) \/ Pull(r) \/ DeleteRefused(r)
           \/ DeleteBatchRaises(r) \/ RequestDies(r)
           \/ \E j \in Jobs : RefreshUnknown(r, j)
    PROVE  /\ \A j \in Jobs : Knows(r, j)' => Knows(r, j) \/ wrap[j] # NoWrapper
           /\ \A q \in Requests \ {r} : req'[q] = req[q]
  <1> DEFINE know(q) == \A j \in Jobs :
                          q.seen[j] # NoWrapper \/ q.got[j] # NoEntry \/ j \in q.left
                          => Knows(r, j) \/ wrap[j] # NoWrapper
  <1>1. know(Idle)
    BY DEF Idle, Doing, NoneSeen, NoneGot
  <1>2. \A S \in SUBSET Jobs : (\A j \in S : wrap[j] # NoWrapper)
            => \A pc : know(Doing(pc, Load(S), NoneGot, S))
    BY DEF Doing, Load, NoneGot
  <1>3. \A pc, answer : \A S \in SUBSET Jobs :
            (\A j \in S : Knows(r, j)) /\ (\A j \in Jobs : answer[j] # NoEntry => Knows(r, j))
            => know(Doing(pc, req[r].seen, answer, S))
    BY DEF Doing, Knows
  <1>4. \A pc, j : \A S \in SUBSET req[r].left :
            know(Doing(pc, [req[r].seen EXCEPT ![j] = NoWrapper], NoneGot, S))
    BY DEF Doing, Knows, NoneGot, WaitInv, TypeOK, Request
  <1>5. \A pc, j, answer : \A S \in SUBSET req[r].left :
            (\A k \in Jobs : answer[k] # NoEntry => Knows(r, k))
            => know(Doing(pc, [req[r].seen EXCEPT ![j] = NoWrapper], answer, S))
    BY DEF Doing, Knows, WaitInv, TypeOK, Request
  <1>6. /\ req[r].left \in SUBSET Jobs
        /\ \A j \in req[r].left : Knows(r, j)
        /\ \A j \in Jobs : req[r].got[j] # NoEntry => Knows(r, j)
        /\ \A S \in SUBSET req[r].left : S \in SUBSET Jobs /\ \A j \in S : Knows(r, j)
        /\ \A j \in Jobs : req[r].seen[j] # NoWrapper => Knows(r, j)
        /\ \A j \in Jobs : req[r].got[j].url => Knows(r, j)
        /\ \A j \in Jobs : NoneGot[j] = NoEntry
    BY DEF WaitInv, TypeOK, Request, Knows, NoEntry, NoneGot
  <1>7. \A S \in SUBSET req[r].left : \A answer \in Answers(S), j \in Jobs :
            answer[j] # NoEntry => Knows(r, j)
    BY <1>6, AnswersAsked
  <1> HIDE DEF know
  <1>8. know(req'[r]) /\ \A q \in Requests \ {r} : req'[q] = req[q]
    <2> USE DEF WaitInv, TypeOK
    <2>1. CASE RefreshRespond(r) \/ DeleteRespond(r) \/ DeleteRefused(r)
               \/ DeleteBatchRaises(r) \/ RequestDies(r)
      BY <1>1, <2>1 DEF RefreshRespond, DeleteRespond, DeleteRefused, DeleteBatchRaises, RequestDies
    <2>2. CASE UserAsks(r)
      <3>1. PICK S \in SUBSET Jobs, pc \in {"refresh", "lookup", "fetch"} :
              /\ \A j \in S : wrap[j] # NoWrapper
              /\ req' = [req EXCEPT ![r] = Doing(pc, Load(S), NoneGot, S)]
        BY <2>2 DEF UserAsks, RefreshLoad, DeleteLoad, PullLoad, Stored
      <3>2. QED
        BY <1>2, <3>1
    <2>3. CASE \E j \in Jobs : RefreshUnknown(r, j) \/ RefreshSave(r, j)
      <3>1. PICK j \in Jobs : req' = [req EXCEPT ![r] =
              Doing("refresh", [req[r].seen EXCEPT ![j] = NoWrapper], NoneGot, req[r].left \ {j})]
        BY <2>3 DEF RefreshUnknown, RefreshSave
      <3>2. QED
        BY <1>4, <3>1
    <2>4. ASSUME NEW j \in Jobs, RefreshQuery(r, j)
          PROVE  know(req'[r]) /\ \A q \in Requests \ {r} : req'[q] = req[q]
      <3>1. PICK answer \in Answers({j}) :
               req' = [req EXCEPT ![r] =
                         IF \/ answer[j] = NoEntry
                            \/ answer[j].status = "failed" /\ ~answer[j].exc
                         THEN Doing("pageError", NoneSeen, NoneGot, {})
                         ELSE Doing("save", req[r].seen, answer, req[r].left)]
        BY <2>4 DEF RefreshQuery
      <3>2. {j} \in SUBSET req[r].left
        BY <2>4 DEF RefreshQuery
      <3>3. know(Doing("save", req[r].seen, answer, req[r].left))
        BY <1>3, <1>6, <1>7, <3>2
      <3>4. know(Doing("pageError", NoneSeen, NoneGot, {}))
        BY DEF know, Doing, NoneSeen, NoneGot
      <3>5. QED
        BY <3>1, <3>3, <3>4
    <2>5. CASE DeleteLookup(r)
      <3>1. PICK answer \in Answers(req[r].left) \cup {NoneGot} :
               req' = [req EXCEPT ![r] = Doing("deleteDB", req[r].seen, answer, req[r].left)]
        BY <2>5 DEF DeleteLookup
      <3>2. \A j \in Jobs : answer[j] # NoEntry => Knows(r, j)
        BY <1>6, <1>7
      <3>3. know(Doing("deleteDB", req[r].seen, answer, req[r].left))
        BY <1>3, <1>6, <3>2
      <3>4. QED
        BY <3>1, <3>3
    <2>6. CASE DeleteEntriesDone(r)
      <3>1. req' = [req EXCEPT ![r] = Doing("deleteS3", req[r].seen, req[r].got,
                                            {j \in Jobs : req[r].got[j].url})]
        BY <2>6 DEF DeleteEntriesDone
      <3>2. know(Doing("deleteS3", req[r].seen, req[r].got, {j \in Jobs : req[r].got[j].url}))
        BY <1>3, <1>6
      <3>3. QED
        BY <3>1, <3>2
    <2>7. CASE DeleteOutputsDone(r)
      <3>1. req' = [req EXCEPT ![r] = Doing("deleteWrapper", req[r].seen, req[r].got,
                                            {j \in Jobs : req[r].seen[j] # NoWrapper})]
        BY <2>7 DEF DeleteOutputsDone
      <3>2. know(Doing("deleteWrapper", req[r].seen, req[r].got,
                       {j \in Jobs : req[r].seen[j] # NoWrapper}))
        BY <1>3, <1>6
      <3>3. QED
        BY <3>1, <3>2
    <2>8. CASE \E j \in Jobs : DeleteEntry(r, j) \/ DeleteWrapper(r, j)
      <3>1. PICK j \in Jobs : req' = [req EXCEPT ![r] =
              Doing(req[r].pc, req[r].seen, req[r].got, req[r].left \ {j})]
        BY <2>8 DEF DeleteEntry, DeleteWrapper
      <3>2. know(Doing(req[r].pc, req[r].seen, req[r].got, req[r].left \ {j}))
        BY <1>3, <1>6
      <3>3. QED
        BY <3>1, <3>2
    <2>9. ASSUME NEW j \in Jobs, DeleteOutput(r, j)
          PROVE  know(req'[r]) /\ \A q \in Requests \ {r} : req'[q] = req[q]
      <3>1. /\ know(Doing(req[r].pc, req[r].seen, req[r].got, req[r].left \ {j}))
            /\ know(Doing(req[r].pc, [req[r].seen EXCEPT ![j] = NoWrapper], req[r].got,
                          req[r].left \ {j}))
        BY <1>3, <1>5, <1>6
      <3>2. \/ req' = [req EXCEPT ![r] = Idle]
            \/ req' = [req EXCEPT ![r] =
                         Doing(req[r].pc, req[r].seen, req[r].got, req[r].left \ {j})]
            \/ req' = [req EXCEPT ![r] =
                         Doing(req[r].pc, [req[r].seen EXCEPT ![j] = NoWrapper], req[r].got,
                               req[r].left \ {j})]
        BY <2>9 DEF DeleteOutput
      <3>3. QED
        BY <1>1, <3>1, <3>2
    <2>10. CASE Pull(r)
      <3>1. \/ req' = [req EXCEPT ![r] = Idle]
            \/ \E pc : req' = [req EXCEPT ![r] = Doing(pc, req[r].seen, req[r].got, req[r].left)]
        BY <2>10 DEF Pull, PullFetch, PullUnpack, PullSave
      <3>2. \A pc : know(Doing(pc, req[r].seen, req[r].got, req[r].left))
        BY <1>3, <1>6
      <3>3. QED
        BY <1>1, <3>1, <3>2
    <2>11. QED
      BY <2>1, <2>2, <2>3, <2>4, <2>5, <2>6, <2>7, <2>8, <2>9, <2>10 DEF Refresh, Delete
  <1>9. QED
    BY <1>8 DEF know, Knows

LEMMA SubmittedNext == WaitInv /\ [Next]_vars => ShownIsSubmitted'
  <1> SUFFICES ASSUME WaitInv, [Next]_vars PROVE ShownIsSubmitted'
    OBVIOUS
  <1>1. \A r \in Requests, j \in Jobs : Knows(r, j) \/ wrap[j] # NoWrapper => submit[j] = "done"
    BY DEF WaitInv, ShownIsSubmitted, Knows
  <1>2. \A j \in Jobs : submit[j] = "done" => submit'[j] = "done"
    <2>1. ASSUME NEW j \in Jobs, Wizard(j) \/ SubmitDies(j)
          PROVE  \A k \in Jobs : submit[k] = "done" => submit'[k] = "done"
      BY <2>1 DEF Wizard, CheckName, CreateEntry, Enqueue, SaveWrapper, SubmitDies, WaitInv, TypeOK
    <2>2. ~(\E j \in Jobs : Wizard(j) \/ SubmitDies(j)) => submit' = submit
      BY DEF Next, vars, Deliver, TaskStep, TaskGet, TaskPut, RunJob, Upload, Failure, WorkerDies,
             TaskUpdateFails, TaskUpdateSkipped, DeleteRefused, DeleteBatchRaises, RequestDies,
             RefreshUnknown, BrokerDies, UserAsks, RefreshLoad, DeleteLoad, PullLoad, Refresh,
             RefreshQuery, RefreshSave, RefreshRespond, Delete, DeleteLookup, DeleteEntriesDone,
             DeleteOutputsDone, DeleteRespond, DeleteEntry, DeleteOutput, DeleteWrapper, Pull,
             PullFetch, PullUnpack, PullSave
    <2>3. QED
      BY <2>1, <2>2
  <1>3. \A j \in Jobs : wrap'[j] # NoWrapper => wrap[j] # NoWrapper \/ submit'[j] = "done"
    <2>1. ASSUME NEW j \in Jobs, SaveWrapper(j)
          PROVE  \A k \in Jobs : wrap'[k] # NoWrapper => wrap[k] # NoWrapper \/ submit'[k] = "done"
      BY <2>1 DEF SaveWrapper, WaitInv, TypeOK
    <2>2. ASSUME NEW r \in Requests, UserAsks(r) \/ Refresh(r) \/ Delete(r) \/ Pull(r)
          PROVE  \A k \in Jobs : wrap'[k] # NoWrapper => wrap[k] # NoWrapper \/ submit'[k] = "done"
      BY <2>2, RequestsPutBack
    <2>3. \/ \E j \in Jobs : SaveWrapper(j)
          \/ \E r \in Requests : UserAsks(r) \/ Refresh(r) \/ Delete(r) \/ Pull(r)
          \/ wrap' = wrap
      BY DEF Next, vars, Wizard, CheckName, CreateEntry, Enqueue, Deliver, TaskStep, TaskGet, TaskPut,
             RunJob, Upload, Failure, SubmitDies, WorkerDies, TaskUpdateFails, TaskUpdateSkipped,
             DeleteRefused, DeleteBatchRaises, RequestDies, RefreshUnknown, BrokerDies
    <2>4. QED
      BY <2>1, <2>2, <2>3
  <1>4. \A r \in Requests, j \in Jobs : Knows(r, j)' => Knows(r, j) \/ wrap[j] # NoWrapper
    <2>1. ASSUME NEW q \in Requests,
                 UserAsks(q) \/ Refresh(q) \/ Delete(q) \/ Pull(q) \/ DeleteRefused(q)
                 \/ DeleteBatchRaises(q) \/ RequestDies(q)
                 \/ \E j \in Jobs : RefreshUnknown(q, j)
          PROVE  \A r \in Requests, j \in Jobs : Knows(r, j)' => Knows(r, j) \/ wrap[j] # NoWrapper
      BY <2>1, RequestsLearn DEF Knows
    <2>2. req' = req \/ \E q \in Requests :
                 UserAsks(q) \/ Refresh(q) \/ Delete(q) \/ Pull(q) \/ DeleteRefused(q)
                 \/ DeleteBatchRaises(q) \/ RequestDies(q)
                 \/ \E j \in Jobs : RefreshUnknown(q, j)
      BY DEF Next, vars, Wizard, CheckName, CreateEntry, Enqueue, SaveWrapper, Deliver, TaskStep, TaskGet,
             TaskPut, RunJob, Upload, Failure, SubmitDies, WorkerDies, TaskUpdateFails,
             TaskUpdateSkipped, BrokerDies
    <2>3. QED
      BY <2>1, <2>2 DEF Knows
  <1>5. \A r \in Requests, j \in Jobs : Knows(r, j)' => submit'[j] = "done"
    BY <1>1, <1>2, <1>4
  <1>6. \A j \in Jobs : wrap'[j] # NoWrapper => submit'[j] = "done"
    <2>1. \A j \in Jobs : wrap[j] # NoWrapper => submit[j] = "done"
      BY DEF WaitInv, ShownIsSubmitted
    <2>2. QED
      BY <2>1, <1>2, <1>3
  <1>7. QED
    BY <1>5, <1>6 DEF ShownIsSubmitted, Knows

(* When updates of the table do not fail outright and neither the broker   *)
(* nor a machine stops, a job that says pending is in the queue or with a  *)
(* task that is about to say running, or its submission has not sent the   *)
(* message and no page shows it.  Lost replies are among the faults, that  *)
(* of the call that creates the entry as well.                             *)
THEOREM PendingJobsWait ==
    Faults \subseteq {"reply", "get", "batch", "s3", "web"} => (Spec => []PendingIsWaiting)
  <1> SUFFICES ASSUME Faults \subseteq {"reply", "get", "batch", "s3", "web"}
               PROVE  Spec => []PendingIsWaiting
    OBVIOUS
  <1>1. Init => WaitInv
    <2>1. Init => PendingIsWaiting
      BY DEF Init, PendingIsWaiting, NoEntry
    <2>2. Init => ShownIsSubmitted
      BY DEF Init, ShownIsSubmitted, Idle, Doing, NoneSeen, NoneGot
    <2>3. QED
      BY <2>1, <2>2, TypeInit DEF WaitInv
  <1>2. ASSUME WaitInv, [Next]_vars
        PROVE  WaitInv'
    <2>1. TypeOK' /\ ShownIsSubmitted'
      BY <1>2, TypeNext, SubmittedNext DEF WaitInv
    <2>2. ASSUME UNCHANGED <<submit, queue, db, task, wrap>>
          PROVE  PendingIsWaiting'
      BY <1>2, <2>2 DEF WaitInv, PendingIsWaiting
    <2>3. ASSUME NEW j \in Jobs, Wizard(j) \/ Deliver(j) \/ TaskStep(j)
          PROVE  PendingIsWaiting'
      BY <1>2, <2>3, WaitTask
    <2>4. ASSUME NEW r \in Requests, UserAsks(r) \/ Refresh(r) \/ Delete(r) \/ Pull(r)
          PROVE  PendingIsWaiting'
      <3>1. /\ \A j \in Jobs : wrap'[j] \in {wrap[j], NoWrapper} \/ submit[j] = "done"
            /\ \A j \in Jobs : db'[j] \in {db[j], NoEntry}
            /\ UNCHANGED <<submit, queue, task>>
        BY <1>2, <2>4, RequestsPutBack
      <3>2. QED
        BY <1>2, <3>1 DEF WaitInv, PendingIsWaiting, NoEntry
    <2>5. ASSUME NEW j \in Jobs, SubmitDies(j)
          PROVE  PendingIsWaiting'
      BY <1>2, <2>5 DEF SubmitDies, WaitInv, PendingIsWaiting, ShownIsSubmitted, TypeOK
    <2>6. Failure => UNCHANGED <<submit, queue, db, task, wrap>> \/ \E j \in Jobs : SubmitDies(j)
      BY DEF Failure, WorkerDies, TaskUpdateFails, TaskUpdateSkipped,
             DeleteRefused, DeleteBatchRaises, RequestDies, RefreshUnknown, BrokerDies
    <2>7. PendingIsWaiting'
      <3>1. CASE UNCHANGED vars
        BY <2>2, <3>1 DEF vars
      <3>2. CASE Next
        BY <2>2, <2>3, <2>4, <2>5, <2>6, <3>2 DEF Next
      <3>3. QED
        BY <1>2, <3>1, <3>2
    <2>8. QED
      BY <2>1, <2>7 DEF WaitInv
  <1>3. WaitInv => PendingIsWaiting
    BY DEF WaitInv
  <1>4. QED
    BY <1>1, <1>2, <1>3, PTL DEF Spec

=============================================================================
