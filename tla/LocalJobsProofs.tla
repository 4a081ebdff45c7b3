---------------------------- MODULE LocalJobsProofs ----------------------------
(***************************************************************************)
(* Theorems about LocalJobs: type correctness, that a job shown as Finished*)
(* has ended, for any numbers of jobs, process ids and overlapping requests*)
(* and any faults, and that a running job has its folder to itself.        *)
(***************************************************************************)
EXTENDS LocalJobs, TLAPS

\* What a request knows: a job it is about to save as Finished has ended.
AnswerIsTrue ==
    \A r \in Requests :
        /\ req[r].pc = "save" => req[r].status \in {"running", "finished"}
        /\ req[r].status = "finished" => \A j \in req[r].at : proc[j] = "over"

\* A job that the wizard, the page or a request knows of has been started,
\* and no job is started twice.
KnownIsStarted ==
    \A j \in Jobs :
        /\ submit[j] \in {"new", "named"} => proc[j] = "none"
        /\ submit[j] = "started" \/ j \in Shown => proc[j] # "none"
        /\ \A r \in Requests : j \in req[r].left => proc[j] # "none"
        /\ \A r \in Requests : j \in req[r].at => proc[j] # "none"

FinishedInv == TypeOK /\ KnownIsStarted /\ AnswerIsTrue /\ ShownFinishedIsOver

(* Every variable keeps its type: the initial state.                       *)
LEMMA InitType == Init => TypeOK
  BY NoPidType DEF Init, TypeOK, Request, Idle, Doing

(* Every variable keeps its type: every step.                              *)
LEMMA NextType == FinishedInv /\ [Next]_vars => TypeOK'
<1> SUFFICES ASSUME FinishedInv, [Next]_vars PROVE TypeOK'
  OBVIOUS
<1> USE LocalNameOfType DEF FinishedInv, TypeOK
<1>1. ASSUME NEW j \in Jobs, CheckName(j) PROVE TypeOK'
  BY <1>1 DEF CheckName
<1>2. ASSUME NEW j \in Jobs, Start(j) PROVE TypeOK'
  BY <1>2 DEF Start, Opened, Reaped, Zombies
<1>3. ASSUME NEW j \in Jobs, StartRaises(j) PROVE TypeOK'
  BY <1>3 DEF StartRaises, Opened, Reaped
<1>4. ASSUME NEW j \in Jobs, SaveWrapper(j) PROVE TypeOK'
  BY <1>4 DEF SaveWrapper
<1>5. ASSUME NEW j \in Jobs, Exit(j) PROVE TypeOK'
  BY <1>5 DEF Exit
<1>6. CASE Restart
  BY <1>6 DEF Restart, Request, Idle, Doing
<1>7. ASSUME NEW p \in Pids, OtherStarts(p) \/ OtherEnds(p) PROVE TypeOK'
  BY <1>7 DEF OtherStarts, OtherEnds
<1>8. ASSUME NEW r \in Requests, RefreshLoad(r) PROVE TypeOK'
  BY <1>8 DEF RefreshLoad, Open, Request, Doing
<1>9. ASSUME NEW r \in Requests, NEW j \in Jobs, RefreshQuery(r, j) PROVE TypeOK'
  BY <1>9 DEF RefreshQuery, Request, Doing
<1>10. ASSUME NEW r \in Requests, RefreshSave(r) PROVE TypeOK'
  BY <1>10 DEF RefreshSave, AnswerIsTrue, Request, Doing
<1>11. ASSUME NEW r \in Requests, NEW S \in SUBSET Names, DeleteLoad(r, S) PROVE TypeOK'
  BY <1>11 DEF DeleteLoad, Shown, Request, Doing
<1>12. ASSUME NEW r \in Requests, NEW j \in Jobs, DeleteFolder(r, j) PROVE TypeOK'
  BY <1>12 DEF DeleteFolder, Request, Doing
<1>13. ASSUME NEW r \in Requests, DeleteWrapper(r) PROVE TypeOK'
  BY <1>13 DEF DeleteWrapper, Request, Doing
<1>14. ASSUME NEW r \in Requests, Respond(r) PROVE TypeOK'
  BY <1>14 DEF Respond, Request, Idle, Doing
<1>15. ASSUME NEW j \in Jobs, Pack(j) PROVE TypeOK'
  BY <1>15 DEF Pack, Reaped
<1>16. CASE UNCHANGED vars
  BY <1>16 DEF vars
<1> QED
  BY <1>1, <1>2, <1>3, <1>4, <1>5, <1>6, <1>7, <1>8, <1>9, <1>10, <1>11, <1>12,
     <1>13, <1>14, <1>15, <1>16
  DEF Next, Wizard, Machine, UserAsks, Handle

(* A process that has ended, or has been started, stays so: the wizard     *)
(* starts each job once.                                                   *)
LEMMA ProcessesGoOn ==
  ASSUME FinishedInv, [Next]_vars, NEW j \in Jobs
  PROVE  /\ proc[j] = "over" => proc'[j] = "over"
         /\ proc[j] # "none" => proc'[j] # "none"
<1> USE DEF FinishedInv, TypeOK, KnownIsStarted
<1>1. ASSUME NEW k \in Jobs, Start(k) \/ StartRaises(k) \/ Pack(k)
      PROVE  /\ proc[j] = "over" => proc'[j] = "over"
             /\ proc[j] # "none" => proc'[j] # "none"
  BY <1>1 DEF Start, StartRaises, Pack, Reaped, Zombies
<1>2. ASSUME NEW k \in Jobs, Exit(k)
      PROVE  /\ proc[j] = "over" => proc'[j] = "over"
             /\ proc[j] # "none" => proc'[j] # "none"
  BY <1>2 DEF Exit, Alive, Live
<1>3. CASE Restart
  BY <1>3 DEF Restart
<1>4. CASE UNCHANGED proc
  BY <1>4
<1> QED
  BY <1>1, <1>2, <1>3, <1>4
  DEF Next, Wizard, Machine, UserAsks, Handle, vars, CheckName, SaveWrapper, OtherStarts,
      OtherEnds, RefreshLoad, RefreshQuery, RefreshSave, DeleteLoad, DeleteFolder,
      DeleteWrapper, Respond
(* What the wizard, the page and the requests know of stays started.       *)
LEMMA NextKnown == FinishedInv /\ [Next]_vars => KnownIsStarted'
<1> SUFFICES ASSUME FinishedInv, [Next]_vars, NEW j \in Jobs
             PROVE  /\ submit'[j] \in {"new", "named"} => proc'[j] = "none"
                    /\ submit'[j] = "started" \/ wrap'[j] # "absent" => proc'[j] # "none"
                    /\ \A r \in Requests : j \in req'[r].left \cup req'[r].at => proc'[j] # "none"
  BY DEF KnownIsStarted, Shown
<1> USE DEF FinishedInv, TypeOK, KnownIsStarted
<1>1. submit'[j] \in {"new", "named"} => proc'[j] = "none"
  <2> SUFFICES ASSUME submit'[j] \in {"new", "named"} PROVE proc'[j] = "none"
    OBVIOUS
  <2>1. submit[j] \in {"new", "named"} /\ proc[j] = "none"
    BY DEF Next, Wizard, Machine, UserAsks, Handle, vars, CheckName, Start, StartRaises,
           SaveWrapper, Exit, Restart, Pack, OtherStarts, OtherEnds, RefreshLoad, RefreshQuery,
           RefreshSave, DeleteLoad, DeleteFolder, DeleteWrapper, Respond
  <2>2. ASSUME NEW k \in Jobs, Start(k) PROVE proc'[j] = "none"
    <3>1. k # j
      BY <2>2 DEF Start
    <3>2. QED
      BY <2>1, <2>2, <3>1 DEF Start, Reaped, Zombies
  <2>3. ASSUME NEW k \in Jobs, StartRaises(k) \/ Pack(k) PROVE proc'[j] = "none"
    BY <2>1, <2>3 DEF StartRaises, Pack, Reaped, Zombies
  <2>4. ASSUME NEW k \in Jobs, Exit(k) PROVE proc'[j] = "none"
    BY <2>1, <2>4 DEF Exit, Alive, Live
  <2>5. CASE Restart
    BY <2>1, <2>5 DEF Restart
  <2>6. CASE UNCHANGED proc
    BY <2>1, <2>6
  <2> QED
    BY <2>2, <2>3, <2>4, <2>5, <2>6
    DEF Next, Wizard, Machine, UserAsks, Handle, vars, CheckName, SaveWrapper, OtherStarts,
        OtherEnds, RefreshLoad, RefreshQuery, RefreshSave, DeleteLoad, DeleteFolder,
        DeleteWrapper, Respond
<1>2. submit'[j] = "started" => proc'[j] # "none"
  <2>1. ASSUME NEW k \in Jobs, Start(k), submit[j] # "started", submit'[j] = "started"
        PROVE  proc'[j] # "none"
    BY <2>1 DEF Start, Reaped
  <2>2. (\A k \in Jobs : ~Start(k)) /\ submit'[j] = "started" => submit[j] = "started"
    BY DEF Next, Wizard, Machine, UserAsks, Handle, vars, CheckName, StartRaises,
           SaveWrapper, Exit, Restart, Pack, OtherStarts, OtherEnds, RefreshLoad, RefreshQuery,
           RefreshSave, DeleteLoad, DeleteFolder, DeleteWrapper, Respond
  <2> QED
    BY <2>1, <2>2, ProcessesGoOn
<1>3. ASSUME wrap'[j] # "absent" PROVE proc[j] # "none"
  <2>1. ASSUME NEW k \in Jobs, SaveWrapper(k) PROVE proc[j] # "none"
    BY <1>3, <2>1 DEF SaveWrapper, Shown
  <2>2. ASSUME NEW r \in Requests, RefreshSave(r) \/ DeleteWrapper(r) PROVE proc[j] # "none"
    BY <1>3, <2>2 DEF RefreshSave, DeleteWrapper, Shown
  <2>3. CASE UNCHANGED wrap
    BY <1>3, <2>3 DEF Shown
  <2> QED
    BY <2>1, <2>2, <2>3
    DEF Next, Wizard, Machine, UserAsks, Handle, vars, CheckName, Start, StartRaises,
        Exit, Restart, Pack, OtherStarts, OtherEnds, RefreshLoad, RefreshQuery,
        DeleteLoad, DeleteFolder, Respond
<1>4. ASSUME NEW r \in Requests, j \in req'[r].left \cup req'[r].at PROVE proc[j] # "none"
  <2>1. ASSUME NEW q \in Requests, RefreshLoad(q) \/ RefreshSave(q) \/ DeleteWrapper(q) \/ Respond(q)
        PROVE  proc[j] # "none"
    BY <1>4, <2>1 DEF RefreshLoad, RefreshSave, DeleteWrapper, Respond, Doing, Idle, Open, Shown
  <2>2. ASSUME NEW q \in Requests, NEW S \in SUBSET Names, DeleteLoad(q, S)
        PROVE  proc[j] # "none"
    BY <1>4, <2>2 DEF DeleteLoad, Doing, Shown
  <2>3. ASSUME NEW q \in Requests, NEW k \in Jobs, RefreshQuery(q, k) \/ DeleteFolder(q, k)
        PROVE  proc[j] # "none"
    BY <1>4, <2>3 DEF RefreshQuery, DeleteFolder, Doing
  <2>4. CASE Restart
    BY <1>4, <2>4 DEF Restart, Idle, Doing
  <2>5. CASE UNCHANGED req
    BY <1>4, <2>5
  <2> QED
    BY <2>1, <2>2, <2>3, <2>4, <2>5
    DEF Next, Wizard, Machine, UserAsks, Handle, vars, CheckName, Start, StartRaises,
        SaveWrapper, Exit, Pack, OtherStarts, OtherEnds
<1> QED
  BY <1>1, <1>2, <1>3, <1>4, ProcessesGoOn

(* The answer of a query stays true until it is saved: what has ended does *)
(* not start again, and only a process that has ended does not answer.     *)
LEMMA NextAnswer == FinishedInv /\ [Next]_vars => AnswerIsTrue'
<1> SUFFICES ASSUME FinishedInv, [Next]_vars, NEW r \in Requests
             PROVE  /\ req'[r].pc = "save" => req'[r].status \in {"running", "finished"}
                    /\ req'[r].status = "finished" => \A j \in req'[r].at : proc'[j] = "over"
  BY DEF AnswerIsTrue
<1> DEFINE Same == req'[r] = req[r]
<1> USE DEF FinishedInv, TypeOK, AnswerIsTrue
<1>1. CASE Same
  BY <1>1, ProcessesGoOn DEF Request
<1>2. ASSUME NEW j \in Jobs, RefreshQuery(r, j)
      PROVE  /\ req'[r].status \in {"running", "finished"}
             /\ req'[r].at = {j}
             /\ req'[r].status = "finished" => proc[j] = "over"
  BY <1>2 DEF RefreshQuery, Doing, Answers, KnownIsStarted, Live
<1>3. CASE req'[r].status = "none" /\ req'[r].pc # "save"
  BY <1>3
<1>4. Same \/ (req'[r].status = "none" /\ req'[r].pc # "save") \/ \E j \in Jobs : RefreshQuery(r, j)
  <2>1. ASSUME NEW q \in Requests, UserAsks(q) \/ Handle(q)
        PROVE  \/ Same
               \/ req'[r].status = "none" /\ req'[r].pc # "save"
               \/ \E j \in Jobs : RefreshQuery(r, j)
    BY <2>1 DEF UserAsks, Handle, RefreshLoad, RefreshQuery, RefreshSave, DeleteLoad,
                DeleteFolder, DeleteWrapper, Respond, Idle, Doing
  <2>2. CASE Restart
    BY <2>2 DEF Restart, Idle, Doing
  <2>3. CASE UNCHANGED req
    BY <2>3
  <2> QED
    BY <2>1, <2>2, <2>3
    DEF Next, Wizard, Machine, vars, CheckName, Start, StartRaises, SaveWrapper, Exit, Pack,
        OtherStarts, OtherEnds
<1> QED
  BY <1>1, <1>2, <1>3, <1>4, ProcessesGoOn

(* Only an answer that says so makes a job shown as Finished.              *)
LEMMA NextFinished == FinishedInv /\ [Next]_vars => ShownFinishedIsOver'
<1> SUFFICES ASSUME FinishedInv, [Next]_vars, NEW j \in Jobs, wrap'[j] = "finished"
             PROVE  proc'[j] = "over"
  BY DEF ShownFinishedIsOver
<1>1. wrap[j] = "finished" \/ \E r \in Requests : RefreshSave(r) /\ j \in req[r].at
  BY DEF Next, Wizard, Machine, UserAsks, Handle, vars, CheckName, Start, StartRaises,
         SaveWrapper, Exit, Restart, Pack, OtherStarts, OtherEnds, RefreshLoad, RefreshQuery,
         RefreshSave, DeleteLoad, DeleteFolder, DeleteWrapper, Respond, FinishedInv, TypeOK
<1>2. proc[j] = "over"
  BY <1>1 DEF FinishedInv, ShownFinishedIsOver, AnswerIsTrue, RefreshSave
<1> QED
  BY <1>2, ProcessesGoOn

LEMMA FinishedInvariant == Spec => []FinishedInv
<1>1. Init => FinishedInv
  <2>1. Init => KnownIsStarted /\ AnswerIsTrue /\ ShownFinishedIsOver
    BY DEF Init, KnownIsStarted, AnswerIsTrue, ShownFinishedIsOver, Idle, Doing, Shown
  <2> QED
    BY <2>1, InitType DEF FinishedInv
<1>2. FinishedInv /\ [Next]_vars => FinishedInv'
  BY NextType, NextKnown, NextAnswer, NextFinished DEF FinishedInv
<1> QED
  BY <1>1, <1>2, PTL DEF Spec

(* Every variable keeps its type, for any constants and faults.            *)
THEOREM LocalTypeCorrect == Spec => []TypeOK
<1>1. FinishedInv => TypeOK
  BY DEF FinishedInv
<1> QED
  BY <1>1, FinishedInvariant, PTL

(* A job that the page shows as Finished has ended: with any number of     *)
(* requests at once, deletions included, restarts and ids given again.     *)
THEOREM FinishedIsOver == Spec => []ShownFinishedIsOver
<1>1. FinishedInv => ShownFinishedIsOver
  BY DEF FinishedInv
<1> QED
  BY <1>1, FinishedInvariant, PTL

-----------------------------------------------------------------------------
(* The folders of running jobs, when names are chosen one at a time and    *)
(* deletions, of jobs shown as Finished, overlap with nothing.             *)

OneByOne == Faults \cap {"names", "tabs", "early"} = {}

\* Who has a name: a submission from its check to its end, and a job with a
\* wrapper.
Holds(j) == submit[j] \in {"named", "started"} \/ j \in Shown

OneOccupant == \A j, k \in Jobs : Holds(j) /\ Holds(k) /\ NameOf[j] = NameOf[k] => j = k

\* A wrapper is there once the submission is done, for as long as a request
\* has it loaded, and a request sees each one once.
LoadedIsShown ==
    /\ \A j \in Shown : submit[j] = "done"
    /\ \A r \in Requests : /\ req[r].left \cup req[r].at \subseteq Shown
                           /\ req[r].left \cap req[r].at = {}

\* A deletion is alone on the page, and what it deletes has been shown as
\* Finished.
DeletesAlone ==
    \A r \in Requests :
        Deleting(r) => /\ \A q \in Requests \ {r} : req[q] = Idle
                       /\ \A j \in req[r].left \cup req[r].at : wrap[j] = "finished"

\* The folder of a name has the output of its jobs only, and that of each one
\* that runs and has not been deleted.
Folders ==
    /\ \A n \in Names : \A j \in out[n] : NameOf[j] = n
    /\ \A j \in Jobs :
         Alive(j) /\ (submit[j] = "started" \/ j \in Shown) => j \in out[NameOf[j]]

FolderInv == FinishedInv /\ OneOccupant /\ LoadedIsShown /\ DeletesAlone /\ Folders

(* A name has one occupant: it is checked against the wrappers and the     *)
(* other submissions, and no request brings a deleted wrapper back.        *)
LEMMA NextOccupant ==
  ASSUME FolderInv, OneByOne, [Next]_vars
  PROVE  OneOccupant'
<1> DEFINE HoldsThen(j) == submit'[j] \in {"named", "started"} \/ wrap'[j] # "absent"
<1> USE DEF FolderInv, FinishedInv, TypeOK
<1>1. ASSUME NEW j \in Jobs, HoldsThen(j), ~Holds(j)
      PROVE  CheckName(j)
  <2>1. ASSUME NEW r \in Requests, RefreshSave(r) PROVE FALSE
    BY <1>1, <2>1 DEF RefreshSave, LoadedIsShown, Holds, Shown
  <2>2. ASSUME NEW r \in Requests, DeleteWrapper(r) PROVE FALSE
    BY <1>1, <2>2 DEF DeleteWrapper, Holds, Shown
  <2>3. ASSUME NEW k \in Jobs, CheckName(k) PROVE k = j
    BY <1>1, <2>3 DEF CheckName, Holds, Shown
  <2>4. ASSUME NEW k \in Jobs, Start(k) \/ StartRaises(k) \/ SaveWrapper(k) PROVE FALSE
    BY <1>1, <2>4 DEF Start, StartRaises, SaveWrapper, Holds, Shown
  <2>5. CASE Restart
    BY <1>1, <2>5 DEF Restart, Holds, Shown
  <2>6. CASE UNCHANGED <<submit, wrap>>
    BY <1>1, <2>6 DEF Holds, Shown
  <2> QED
    BY <2>1, <2>2, <2>3, <2>4, <2>5, <2>6
    DEF Next, Wizard, Machine, UserAsks, Handle, vars, Exit, Pack, OtherStarts, OtherEnds,
        RefreshLoad, RefreshQuery, DeleteLoad, DeleteFolder, Respond
<1>2. ASSUME NEW j \in Jobs, NEW k \in Jobs, CheckName(j), NameOf[k] = NameOf[j], Holds(k)
      PROVE  k = j
  BY <1>2 DEF CheckName, OneByOne, Holds
<1>3. ASSUME NEW j \in Jobs, CheckName(j), NEW k \in Jobs, CheckName(k)
      PROVE  k = j
  BY <1>3 DEF CheckName
<1>4. ASSUME NEW j \in Jobs, NEW k \in Jobs, HoldsThen(j), HoldsThen(k), NameOf[j] = NameOf[k]
      PROVE  j = k
  BY <1>1, <1>2, <1>3, <1>4 DEF OneOccupant
<1> QED
  BY <1>4 DEF OneOccupant, Holds, Shown

(* What a request has loaded stays shown while it has it, and is taken once.*)
LEMMA NextLoaded ==
  ASSUME FolderInv, OneByOne, [Next]_vars
  PROVE  LoadedIsShown'
<1> USE DEF FolderInv, FinishedInv, TypeOK, LoadedIsShown
<1>1. ASSUME NEW j \in Jobs, wrap'[j] # "absent"
      PROVE  submit'[j] = "done"
  <2>1. ASSUME NEW k \in Jobs, SaveWrapper(k) PROVE submit'[j] = "done"
    BY <1>1, <2>1 DEF SaveWrapper, Shown
  <2>2. ASSUME NEW r \in Requests, RefreshSave(r) \/ DeleteWrapper(r) PROVE submit'[j] = "done"
    BY <1>1, <2>2 DEF RefreshSave, DeleteWrapper, Shown
  <2>3. ASSUME NEW k \in Jobs, CheckName(k) \/ Start(k) \/ StartRaises(k)
        PROVE  submit'[j] = "done"
    BY <1>1, <2>3 DEF CheckName, Start, StartRaises, Shown
  <2>4. CASE Restart
    BY <1>1, <2>4 DEF Restart, Shown
  <2>5. CASE UNCHANGED <<submit, wrap>>
    BY <1>1, <2>5 DEF Shown
  <2> QED
    BY <2>1, <2>2, <2>3, <2>4, <2>5
    DEF Next, Wizard, Machine, UserAsks, Handle, vars, Exit, Pack, OtherStarts, OtherEnds,
        RefreshLoad, RefreshQuery, DeleteLoad, DeleteFolder, Respond
<1>2. ASSUME NEW r \in Requests
      PROVE  /\ req'[r].left \cup req'[r].at \subseteq Shown
             /\ req'[r].left \cap req'[r].at = {}
  <2>1. ASSUME NEW q \in Requests, RefreshLoad(q) \/ RefreshSave(q) \/ DeleteWrapper(q) \/ Respond(q)
        PROVE  /\ req'[r].left \cup req'[r].at \subseteq Shown
               /\ req'[r].left \cap req'[r].at = {}
    BY <2>1 DEF RefreshLoad, RefreshSave, DeleteWrapper, Respond, Doing, Idle, Open, Shown
  <2>2. ASSUME NEW q \in Requests, NEW S \in SUBSET Names, DeleteLoad(q, S)
        PROVE  /\ req'[r].left \cup req'[r].at \subseteq Shown
               /\ req'[r].left \cap req'[r].at = {}
    BY <2>2 DEF DeleteLoad, Doing, Shown
  <2>3. ASSUME NEW q \in Requests, NEW k \in Jobs, RefreshQuery(q, k) \/ DeleteFolder(q, k)
        PROVE  /\ req'[r].left \cup req'[r].at \subseteq Shown
               /\ req'[r].left \cap req'[r].at = {}
    BY <2>3 DEF RefreshQuery, DeleteFolder, Doing
  <2>4. CASE Restart
    BY <2>4 DEF Restart, Idle, Doing
  <2>5. CASE UNCHANGED req
    BY <2>5
  <2> QED
    BY <2>1, <2>2, <2>3, <2>4, <2>5
    DEF Next, Wizard, Machine, UserAsks, Handle, vars, CheckName, Start, StartRaises,
        SaveWrapper, Exit, Pack, OtherStarts, OtherEnds
<1>3. ASSUME NEW r \in Requests, NEW j \in req'[r].left \cup req'[r].at
      PROVE  wrap'[j] # "absent"
  <2>1. j \in Jobs /\ wrap[j] # "absent"
    BY <1>2, <1>3 DEF Shown
  <2>2. ASSUME NEW q \in Requests, DeleteWrapper(q), j \in req[q].at PROVE FALSE
    <3>1. CASE q = r
      BY <1>3, <2>2, <3>1 DEF DeleteWrapper, Doing
    <3>2. CASE q # r
      <4>1. req[r] = Idle
        BY <2>2, <3>2 DEF DeletesAlone, DeleteWrapper, Deleting
      <4>2. QED
        BY <1>3, <2>2, <3>2, <4>1 DEF DeleteWrapper, Idle, Doing
    <3> QED
      BY <3>1, <3>2
  <2>3. ASSUME NEW q \in Requests, RefreshSave(q) PROVE wrap'[j] # "absent"
    <3>1. req[q].status \in {"running", "finished"}
      BY <2>3 DEF RefreshSave, AnswerIsTrue
    <3> QED
      BY <2>1, <2>3, <3>1 DEF RefreshSave
  <2>4. ASSUME NEW k \in Jobs, SaveWrapper(k) PROVE wrap'[j] # "absent"
    BY <2>1, <2>4 DEF SaveWrapper
  <2>5. ASSUME NEW q \in Requests, DeleteWrapper(q) PROVE wrap'[j] # "absent"
    BY <2>1, <2>2, <2>5 DEF DeleteWrapper
  <2>6. CASE UNCHANGED wrap
    BY <2>1, <2>6
  <2> QED
    BY <2>3, <2>4, <2>5, <2>6
    DEF Next, Wizard, Machine, UserAsks, Handle, vars, CheckName, Start, StartRaises,
        Exit, Restart, Pack, OtherStarts, OtherEnds, RefreshLoad, RefreshQuery, DeleteLoad,
        DeleteFolder, Respond
<1>4. ASSUME NEW r \in Requests
      PROVE  req'[r].left \cup req'[r].at \subseteq {j \in Jobs : wrap'[j] # "absent"}
  BY <1>2, <1>3 DEF Shown
<1> QED
  BY <1>1, <1>2, <1>4 DEF Shown

(* No other request starts beside a deletion, nor a deletion beside another *)
(* request, and no wrapper that is being deleted changes.                  *)
LEMMA NextAlone ==
  ASSUME FolderInv, OneByOne, [Next]_vars
  PROVE  DeletesAlone'
<1> USE DEF FolderInv, FinishedInv, TypeOK, DeletesAlone
<1> SUFFICES ASSUME NEW r \in Requests, req'[r].pc \in {"delete", "forget"}
             PROVE  /\ \A q \in Requests \ {r} : req'[q] = Idle
                    /\ \A j \in req'[r].left \cup req'[r].at : wrap'[j] = "finished"
  BY DEF Deleting
<1>1. ASSUME NEW S \in SUBSET Names, DeleteLoad(r, S)
      PROVE  /\ \A q \in Requests \ {r} : req'[q] = Idle
             /\ \A j \in req'[r].left \cup req'[r].at : wrap'[j] = "finished"
  BY <1>1 DEF DeleteLoad, OneByOne, Doing
<1>2. Deleting(r) \/ \E S \in SUBSET Names : DeleteLoad(r, S)
  <2>1. ASSUME NEW q \in Requests, UserAsks(q) \/ Handle(q)
        PROVE  Deleting(r) \/ \E S \in SUBSET Names : DeleteLoad(r, S)
    BY <2>1 DEF Deleting, UserAsks, Handle, RefreshLoad, RefreshQuery, RefreshSave, DeleteLoad,
                DeleteFolder, DeleteWrapper, Respond, Idle, Doing
  <2>2. CASE Restart
    BY <2>2 DEF Restart, Idle, Doing
  <2>3. CASE UNCHANGED req
    BY <2>3 DEF Deleting
  <2> QED
    BY <2>1, <2>2, <2>3
    DEF Next, Wizard, Machine, vars, CheckName, Start, StartRaises, SaveWrapper, Exit, Pack,
        OtherStarts, OtherEnds
<1>3. ASSUME Deleting(r)
      PROVE  /\ \A q \in Requests \ {r} : req'[q] = Idle
             /\ \A j \in req'[r].left \cup req'[r].at : wrap'[j] = "finished"
  <2>1. \A q \in Requests \ {r} : req[q] = Idle /\ req[q].pc = "idle" /\ req[q].at = {}
    BY <1>3 DEF Idle, Doing
  <2>2. ASSUME NEW q \in Requests \ {r} PROVE ~UserAsks(q) /\ ~Handle(q)
    BY <1>3, <2>1 DEF UserAsks, RefreshLoad, DeleteLoad, Handle, RefreshQuery, RefreshSave,
                      DeleteFolder, DeleteWrapper, Respond, OneByOne, Idle, Doing
  <2>3. ASSUME UserAsks(r) \/ Handle(r)
        PROVE  /\ \A q \in Requests \ {r} : req'[q] = Idle
               /\ \A j \in req'[r].left \cup req'[r].at : wrap'[j] = "finished"
    <3>1. ASSUME NEW j \in Jobs, DeleteFolder(r, j)
          PROVE  /\ \A q \in Requests \ {r} : req'[q] = Idle
                 /\ \A k \in req'[r].left \cup req'[r].at : wrap'[k] = "finished"
      BY <1>3, <2>1, <3>1 DEF DeleteFolder, Doing
    <3>2. CASE DeleteWrapper(r)
      <4>1. /\ \A q \in Requests \ {r} : req'[q] = req[q]
            /\ req'[r].left = req[r].left /\ req'[r].at = {}
            /\ \A j \in Jobs \ req[r].at : wrap'[j] = wrap[j]
        BY <3>2 DEF DeleteWrapper, Doing
      <4>2. req[r].left \subseteq Jobs \ req[r].at
        BY DEF LoadedIsShown, Shown
      <4> QED
        BY <1>3, <2>1, <4>1, <4>2
    <3>3. CASE Respond(r)
      BY <2>1, <3>3 DEF Respond, Idle, Doing
    <3> QED
      BY <1>3, <2>3, <3>1, <3>2, <3>3
      DEF UserAsks, RefreshLoad, DeleteLoad, Handle, RefreshQuery, RefreshSave, Deleting
  <2>4. ASSUME NEW j \in Jobs, SaveWrapper(j)
        PROVE  /\ \A q \in Requests \ {r} : req'[q] = Idle
               /\ \A k \in req'[r].left \cup req'[r].at : wrap'[k] = "finished"
    BY <1>3, <2>1, <2>4 DEF SaveWrapper, LoadedIsShown, Shown
  <2>5. CASE Restart
    BY <2>5 DEF Restart, Idle, Doing
  <2>6. CASE UNCHANGED <<req, wrap>>
    BY <1>3, <2>1, <2>6
  <2> QED
    BY <2>2, <2>3, <2>4, <2>5, <2>6
    DEF Next, Wizard, Machine, vars, CheckName, Start, StartRaises, Exit, Pack,
        OtherStarts, OtherEnds
<1> QED
  BY <1>1, <1>2, <1>3

(* Only the folder of a job shown as Finished is removed, and the only job *)
(* with a wrapper or a submission under its name is that one.              *)
LEMMA NextFolders ==
  ASSUME FolderInv, OneByOne, [Next]_vars
  PROVE  Folders'
<1> USE LocalNameOfType DEF FolderInv, FinishedInv, TypeOK
<1>1. ASSUME NEW n \in Names, NEW j \in out'[n]
      PROVE  NameOf[j] = n
  <2>1. ASSUME NEW k \in Jobs, Start(k) \/ StartRaises(k) PROVE NameOf[j] = n
    BY <1>1, <2>1 DEF Start, StartRaises, Opened, Folders
  <2>2. ASSUME NEW r \in Requests, NEW k \in Jobs, DeleteFolder(r, k) PROVE NameOf[j] = n
    BY <1>1, <2>2 DEF DeleteFolder, Folders
  <2>3. CASE UNCHANGED out
    BY <1>1, <2>3 DEF Folders
  <2> QED
    BY <2>1, <2>2, <2>3
    DEF Next, Wizard, Machine, UserAsks, Handle, vars, CheckName, SaveWrapper, Exit, Restart,
        Pack, OtherStarts, OtherEnds, RefreshLoad, RefreshQuery, RefreshSave, DeleteLoad,
        DeleteWrapper, Respond
<1>2. ASSUME NEW j \in Jobs, proc'[j] \in Live, submit'[j] = "started" \/ wrap'[j] # "absent",
             ~Start(j)
      PROVE  /\ proc[j] \in Live
             /\ submit[j] = "started" \/ j \in Shown
  <2>1. proc[j] \in Live
    <3>1. ASSUME NEW k \in Jobs, Start(k) PROVE proc[j] \in Live
      BY <1>2, <3>1 DEF Start, Reaped, Live
    <3>2. ASSUME NEW k \in Jobs, StartRaises(k) \/ Pack(k) PROVE proc[j] \in Live
      BY <1>2, <3>2 DEF StartRaises, Pack, Reaped, Live
    <3>3. ASSUME NEW k \in Jobs, Exit(k) PROVE proc[j] \in Live
      BY <1>2, <3>3 DEF Exit, Live
    <3>4. CASE Restart
      BY <1>2, <3>4 DEF Restart, Live
    <3>5. CASE UNCHANGED proc
      BY <1>2, <3>5
    <3> QED
      BY <3>1, <3>2, <3>3, <3>4, <3>5
      DEF Next, Wizard, Machine, UserAsks, Handle, vars, CheckName, SaveWrapper, OtherStarts,
          OtherEnds, RefreshLoad, RefreshQuery, RefreshSave, DeleteLoad, DeleteFolder,
          DeleteWrapper, Respond
  <2>2. submit[j] = "started" \/ j \in Shown
    <3>1. ASSUME NEW r \in Requests, RefreshSave(r) PROVE submit[j] = "started" \/ j \in Shown
      BY <1>2, <3>1 DEF RefreshSave, LoadedIsShown, Shown
    <3>2. ASSUME NEW r \in Requests, DeleteWrapper(r)
          PROVE  submit[j] = "started" \/ j \in Shown
      BY <1>2, <3>2 DEF DeleteWrapper, Shown
    <3>3. ASSUME NEW k \in Jobs, CheckName(k) \/ Start(k) \/ StartRaises(k) \/ SaveWrapper(k)
          PROVE  submit[j] = "started" \/ j \in Shown
      BY <1>2, <3>3 DEF CheckName, Start, StartRaises, SaveWrapper, Shown
    <3>4. CASE Restart
      BY <1>2, <3>4 DEF Restart, Shown
    <3>5. CASE UNCHANGED <<submit, wrap>>
      BY <1>2, <3>5 DEF Shown
    <3> QED
      BY <3>1, <3>2, <3>3, <3>4, <3>5
      DEF Next, Wizard, Machine, UserAsks, Handle, vars, Exit, Pack, OtherStarts, OtherEnds,
          RefreshLoad, RefreshQuery, DeleteLoad, DeleteFolder, Respond
  <2> QED
    BY <2>1, <2>2
<1>3. ASSUME NEW j \in Jobs, proc'[j] \in Live, submit'[j] = "started" \/ wrap'[j] # "absent"
      PROVE  j \in out'[NameOf[j]]
  <2>1. CASE Start(j)
    BY <2>1 DEF Start, Opened
  <2>2. CASE ~Start(j)
    <3>1. /\ proc[j] \in Live /\ Holds(j)
          /\ j \in out[NameOf[j]]
      BY <1>2, <1>3, <2>2 DEF Folders, Alive, Holds
    <3>2. ASSUME NEW k \in Jobs, Start(k) \/ StartRaises(k) PROVE j \in out'[NameOf[j]]
      BY <3>1, <3>2 DEF Start, StartRaises, Opened, Alive
    <3>3. ASSUME NEW r \in Requests, NEW k \in Jobs, DeleteFolder(r, k)
          PROVE  j \in out'[NameOf[j]]
      <4>1. wrap[k] = "finished" /\ k \in Shown
        BY <3>3 DEF DeleteFolder, DeletesAlone, Deleting, Shown
      <4>2. proc[k] = "over" /\ Holds(k)
        BY <4>1 DEF ShownFinishedIsOver, Holds
      <4>3. NameOf[k] # NameOf[j]
        BY <3>1, <4>2 DEF OneOccupant, Live
      <4> QED
        BY <3>1, <3>3, <4>3 DEF DeleteFolder
    <3>4. CASE UNCHANGED out
      BY <3>1, <3>4
    <3> QED
      BY <3>2, <3>3, <3>4
      DEF Next, Wizard, Machine, UserAsks, Handle, vars, CheckName, SaveWrapper, Exit, Restart,
          Pack, OtherStarts, OtherEnds, RefreshLoad, RefreshQuery, RefreshSave, DeleteLoad,
          DeleteWrapper, Respond
  <2> QED
    BY <2>1, <2>2
<1> QED
  BY <1>1, <1>3 DEF Folders, Alive, Shown

(* The folder of a running job holds its output and that of no other job   *)
(* on the page, when names are chosen one at a time and only jobs shown as *)
(* Finished are deleted, by requests that overlap with no other: for any   *)
(* number of jobs and reuses of a name, and any restarts.                  *)
THEOREM FoldersAreOwn == OneByOne => (Spec => []RunningJobOwnsFolder)
<1> SUFFICES ASSUME OneByOne PROVE Spec => []RunningJobOwnsFolder
  OBVIOUS
<1>1. Init => FolderInv
  <2>1. Init => FinishedInv
    BY InitType DEF Init, FinishedInv, KnownIsStarted, AnswerIsTrue, ShownFinishedIsOver, Idle,
                    Doing, Shown
  <2>2. Init => OneOccupant /\ LoadedIsShown /\ DeletesAlone /\ Folders
    BY DEF Init, OneOccupant, Holds, LoadedIsShown, DeletesAlone, Deleting, Folders, Idle,
           Doing, Shown, Alive, Live
  <2> QED
    BY <2>1, <2>2 DEF FolderInv
<1>2. FolderInv /\ [Next]_vars => FolderInv'
  <2> SUFFICES ASSUME FolderInv, [Next]_vars PROVE FolderInv'
    OBVIOUS
  <2>1. FinishedInv'
    BY NextType, NextKnown, NextAnswer, NextFinished DEF FolderInv, FinishedInv
  <2> QED
    BY <2>1, NextOccupant, NextLoaded, NextAlone, NextFolders DEF FolderInv
<1>3. FolderInv => RunningJobOwnsFolder
  <2> SUFFICES ASSUME FolderInv, NEW j \in Shown, Alive(j)
               PROVE  /\ j \in out[NameOf[j]]
                      /\ \A k \in out[NameOf[j]] \ {j} : k \notin Shown
    BY DEF RunningJobOwnsFolder
  <2>1. j \in Jobs /\ NameOf[j] \in Names /\ out[NameOf[j]] \subseteq Jobs
    BY LocalNameOfType DEF FolderInv, FinishedInv, TypeOK, Shown
  <2> QED
    BY <2>1 DEF FolderInv, Folders, OneOccupant, Holds
<1> QED
  BY <1>1, <1>2, <1>3, PTL DEF Spec

=============================================================================
