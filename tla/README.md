# Verification of CloudRunner

CloudRunner runs scientific programs on machines that its users rent from
Amazon EC2.  A web application (Google App Engine, `app/`) lets users submit
jobs, watch them, fetch their output and start or stop worker machines.  Jobs
travel through a Celery queue; their records are kept in DynamoDB and their
output in S3.  This directory holds TLA+ models of that system, the TLC
configurations that check them on small instances, and theorems checked by
TLAPS.  All paths below are relative to `src/`.

    tlc -config CloudJobs_failures.cfg MCCloudJobs   # a run
    tlapm CloudJobsProofs.tla                        # a proof

`PROJECT.json` lists the runs, the source lines behind every definition, the
hazards, and one mutant per checked property.

## 1. The system

| Component | Source | State it keeps | Operations |
| --- | --- | --- | --- |
| Submission wizard | `app/handlers/execution.py` | the session's choices; a `CloudJobWrapper` or `LocalJobWrapper` per job in the GAE datastore | choose a type, check the name, submit |
| Job service | `services/jobmanager/execution_controller.py` | none | `run_job`, `query_job`, `delete_job`, for cloud and local jobs |
| Task | `services/jobmanager/tasks.py`, `base_job.py` | one entry in DynamoDB, one directory on the worker | run the program, upload, record |
| Queue | `task_queue.py`, `celeryconfig.py` | messages in RabbitMQ on the queue head | send, deliver (acknowledged early) |
| Status page | `app/handlers/status.py` | the wrappers; output folders on the server | refresh, delete, fetch the output |
| DynamoDB agent | `shared_resources/db.py`, `databases/` | the table of entries | get, put (read, merge, write), delete in batches |
| S3 agent | `shared_resources/file_storage.py`, `filesystems/` | the bucket | upload, read, delete |
| Worker machines | `services/cloudmanager/`, `app/handlers/credentials.py` | EC2 instances; the broker address in `celeryconfig.py` | start, stop, list |
| Program build | `cr_build.py` | an EC2 machine and its image; `cr-config.yaml` | build and image programs |
| Login and approval | `services/login/`, `app/handlers/auth.py`, `admin.py` | accounts; one entity (`Unique`) per reserved address; one entity with the lists of pending and approved addresses | change settings, delete an account, request, approve, deny, revoke |
| Local jobs | the local half of the job service and status page | subprocesses and their files | run, poll, delete |
| Plumbing, pages, libraries | `cr_run.py`, `cloudrunnerapp.py`, `config_file.py`, `constants.py`, `app/views`, `app/static`, `lib`, `sdk` | a session cookie | dispatch, render |

How they interact.  A submission is three writes to three stores: the entry in
DynamoDB, the message to the broker, the wrapper in the datastore.  A worker
takes the message, and its task updates the entry while the status page reads
it, copies its status to the wrapper and stops asking once the status is final.
A deletion reads the entries, deletes them, deletes the outputs that the first
read has seen, then the local folders and the wrappers.  Worker machines are
told, when they are launched, the broker that `celeryconfig.py` names on the
web server, which the launch of a queue head rewrites.

What is hard.  There is no lock and no transaction anywhere in the program.
`app/app.yaml` says `threadsafe: no`, which makes one instance serve one
request at a time, but the development server adds instances when requests
wait, and several users' requests, the workers' tasks and `cr_build.py` all run
at once.  Every handler is a sequence of remote calls, and what it read before
one call may no longer be true after it.  Any call can raise, and most handlers
catch nothing, so that an exception stops them half-way.  Writes to DynamoDB
replace a whole item.  Machines take minutes to come up, and their launch may
be given up before they do.

What makes each part correct:

* *Jobs*: what the page shows is what happened; a final status stays; what says
  where an output is does not outlive it; a deleted job stays deleted and
  leaves nothing; every job that is queued ends with a final status.
* *Batched deletion*: what is reported deleted is deleted; every id is
  reported; the deletion is answered only when every entry is gone.
* *Machines*: an account has one queue head; workers take jobs from it; nothing
  but its users stops it; users get the machines they ask for, stop all of
  them, and idle workers do not run for ever.
* *Accounts*: no two have one address; the address of an account is reserved
  for it, and a reserved address is somebody's; a deleted account stays
  deleted.
* *Approval*: the list that every request finds says what was decided last
  about each address.
* *Local jobs*: one shown as finished is over, and its output folder is not
  shared with another job while it runs.
* *Build*: the programs that are offered are in the image that machines are
  launched with, and offered once; machines that take jobs have them; a build
  stops no machine but its own.

## 2. Modules

| Module | What it is |
| --- | --- |
| `CloudJobs` | cloud jobs: wizard, task, DynamoDB, S3, status page, deletion, download |
| `JobLifecycle` | the abstract life of a job |
| `CloudJobsLifecycle` | the refinement mapping from `CloudJobs` to `JobLifecycle` |
| `CloudJobsProofs`, `CloudJobsLifecycleProofs` | theorems about `CloudJobs`, and that it implements `JobLifecycle` |
| `EntryDeletion` | what a deletion of entries promises to its callers |
| `BatchDelete`, `BatchDeleteProofs` | the loop of `DynamoDBAgent.delete`, and theorems, among them that it implements `EntryDeletion` |
| `CloudFleet`, `CloudFleetProofs`, `CloudFleetOverlapProofs` | worker machines and the build machine; theorems, and those about what may overlap |
| `ProgramBuild`, `ProgramBuildProofs` | `CloudFleet` composed with the builds of `cr_build.py`, and theorems |
| `LocalJobs`, `LocalJobsProofs` | jobs that run on the web server itself, and theorems |
| `AddressBook` | the addresses of accounts as the rest of the program takes them |
| `Accounts`, `AccountsProofs` | accounts, reserved addresses, the list of pending users, and theorems, among them that it implements `AddressBook` |
| `MCCloudJobs`, `MCCloudFleet`, `MCProgramBuild`, `MCLocalJobs`, `MCAccounts` | values of the constants for TLC |

`CloudJobs` composes the processes that share the job stores.  `BatchDelete`
refines one of its calls: `CloudJobs` has the outcome of the loop (`DeleteEntry`
per id, in any order, and `DeleteBatchRaises`), `BatchDelete` has the loop, and
`EntryDeletion` says what the one relies on and the other keeps.  `ProgramBuild`
extends `CloudFleet`: each of its actions is an action of the fleet together
with what it does to disks, image and configuration, or leaves the machines
alone, so that the composition implements the fleet (`FleetImplemented`).

### CloudJobs

| Variable | In the program |
| --- | --- |
| `submit[j]` | how far the handler of step 3 of the wizard has come |
| `queue` | messages in RabbitMQ |
| `db[j]` | the DynamoDB item: `status`, and whether it has `output_url` and `exception` |
| `s3` | the keys of the bucket; a key is a job's *name* |
| `task[j]` | the Celery task: where it is, which update it makes, what it read, how the program ended |
| `wrap[j]` | the wrapper: status, `output_url`, `output_location` |
| `folders` | folders of the server's output directory |
| `req[r]` | a web request: where it is, the wrappers and entries it read, the jobs left in its loop |

One action is one remote call with the code up to the next one.
`CheckName`, `CreateEntry`, `Enqueue`, `SaveWrapper` are the wizard.
`Deliver` is the worker's early acknowledgement.  `TaskGet` and `TaskPut` are
the two halves of `DynamoDBAgent.put`, the read of the item and its
replacement; `Merged` says which attributes each of the task's six updates
writes.  `RunJob` is `BaseJob.run` (raises, is refused, ends well, ends badly),
`Upload` the copy to S3.  `Refresh*`, `Delete*` and `Pull*` are the three
requests of the status pages.  Two submissions may have the same name
(`NameOf`), because the code checks names in one request and saves in another.

Failures are actions of their own or disjuncts, each switched on by an element
of the constant `Faults`: a write that raises without effect (`put`) or with it
(`reply`), a lookup of the table that fails (`table`: the agent then behaves as
if there were no table), an incomplete batched read (`get`), a batched deletion
that raises (`batch`), exceptions of S3 (`s3`), web requests and submissions
that stop between two calls (`web`), workers that die (`worker`), and a queue
head that is stopped with the messages that wait on it (`broker`): stopping
machines on the credentials page does both.  `DeleteRunning` says whether users
delete jobs that are not yet shown as over; the page offers it.

### BatchDelete

`todo` are the ids in chunks not begun (`utils.chunks`), `chunk` the current
one, `unprocessed` what DynamoDB left over, `marked` the ids the result calls
deleted, `gone` those that are.  DynamoDB may leave any part of any batch, and
`Send`, the call of a batch, may raise with any part of it deleted.  `Retry` sends
the leftovers again, and raises: boto's `layer2` has decoded their keys from
`{"S": id}` to `id` (`lib/boto/boto/dynamodb/layer2.py:520`), the agent passes
them as they are to `layer1` (`dynamodb.py:108`), and DynamoDB refuses a request
without typed keys.  A chunk is therefore only marked when nothing was left
over, and lines 109 to 116 never run with a leftover.  In terms of
`EntryDeletion` an entry is left until it is gone, and the deletion is answered
when the loop returns (`answerBar`).

### CloudFleet

`vm[v]` is an instance with its state, the user in its key name, the tag of the
queue head in that name, the broker its user data names, and its alarm.  `conf`
is the address in `celeryconfig.py`.  `req[r]` is a request to start or stop
machines, or a run of `cr_build.py`.  `CheckHead`, `SpawnHead`, `HeadUp`,
`ReadConf`, `SpawnWorkers`, `WorkersUp`, `SetAlarm` follow
`CloudManager.launch_instances` through `EC2Worker.run_instances`;
`HeadLate` and `WorkersLate` are its deadline, `Refused` and `AlarmRaises` the
exceptions.  A worker without a public address (fault `address`) is terminated at
the deadline; a queue head without one is not, and what goes to
`celeryconfig.py` is then no machine's address (`NoHost`,
`cloud_manager.py:296`).  `Build` is a build that has come out of its ssh command
and out of the wait for its image.  `StopList`, `StopTerminate`, `StopDone` are
`terminate_instances`, which goes by the prefix of the key name (`Targets`).
`Boot`, `Halt` and `Sleepy` are EC2.  `Covers` tells which users' ids begin with
which other's, since the prefix is an id.  A deadline is a nondeterministic
choice while machines are not up (faults `late head` and `late worker`), because
EC2 gives no bound.

### ProgramBuild

| Variable | In the program |
| --- | --- |
| `disk[v]` | the programs directory of machine `v`: what each subdirectory holds |
| `image`, `offers` | `cr-config.yaml`: the image, by what its disk holds, and the programs available on the cloud |
| `read[r]` | the image that a launch has read from the configuration before EC2 launches |
| `build` | the run of `cr_build.py`: how far it is, its repositories, what the last ssh command has built |
| `undone` | history: programs of builds that raised after they had offered them |

`StartBuild` launches the machine; `RemoteBuild` is the ssh command that builds
all repositories there, and its repetition after a failure within the first
seconds, when the directories of the first attempt are still there; `NoneBuilt`
ends the run and leaves the machine; `OfferBuilt` writes the programs to the
configuration, before `MakeImage` makes the image and writes its id;
`ImageFails` is EC2's refusal (fault `image`).  A launch reads the image from
the configuration (`CheckAndRead` for a queue head, `ReadImage` for workers)
before EC2 launches (`LaunchHead`, `LaunchWorkers`), and a build may end in
between; `OtherStep` and `MachineStep` its other steps, which end the build if
they end its request.  A program is a repository with the number of its
directory: the code tries the plain name and then -1 to -19, takes the first
that `mkdir` can create, and names the program after it.

### Accounts

| Variable | In the program |
| --- | --- |
| `held[u]` | the address in the account of `u` |
| `reserved` | the entities of the `Unique` model |
| `lists` | the entities of `PendingUsersList`, by key |
| `req[r]` | a request: what it works on, and the copy it has loaded |
| `spoiled` | history: accounts that two requests had loaded at a time, or whose owner mistyped the password when changing the address |
| `crowded` | history: requests on the list whose use of it overlaps with another one's |
| `unsure` | history: addresses whose last answer came from such a request |
| `decided` | history: for each address, what the answers about it come to |

`AskSettings` loads an account to change it; a new address is reserved
(`Reserve`) or refused (`Refuse`), the old one released (`Release`), and then
the account is put (`PutAccount`) or, because the current password is only
looked at now, not (`GiveUp`).  `AskDelete`, `DeleteAccount` and `Forget` are
the admin's deletion.  `AskList` loads the list of pending users, `CreateList`
stores one when there is none, and `AnswerList` changes the copy and puts it
back (`Changed`).  `decided` is not computed from the list: it adds to what was
decided about an address what each answer says of it (`After`), and takes the
word of the list only to begin anew after an answer that may be lost.
Registration uses an attribute that its class does not have
(`services/login/auth.py:62`, `:99`) and raises before it creates an account:
accounts are those that exist at the beginning, and a registration only loads
the list.

In terms of `AddressBook` (`bookBar`) an account has a new address from the
moment it is reserved, two calls before the account says so; the book is sound
until an account is spoiled.

### LocalJobs

| Variable | In the program |
| --- | --- |
| `submit[j]` | how far the wizard has come with job `j` |
| `proc[j]` | the subprocess: child of the running server, orphan of an earlier one, zombie, over |
| `pid[j]` | `result["pid"]`, which the wrapper keeps |
| `others` | process ids that processes of the same account have, and are no jobs |
| `out[n]` | the jobs with files in the output folder of name `n` |
| `wrap[j]` | the status in the `LocalJobWrapper`; `unset` when it is new |
| `req[r]` | a request to the status page: the wrappers still to come, the one at hand, the answer |

`CheckName`, `Start`, `StartRaises`, `SaveWrapper` are the wizard; `Start` is
`BaseJob.run`, which makes the folder, or takes it with all it holds (`Opened`),
writes the files and starts the program.  `RefreshQuery` sends signal 0;
`RefreshSave` puts the wrapper back.  `DeleteFolder` and `DeleteWrapper` are one
round of the deletion; the process is left alone.  `Pack` is `pull_local`.

What the operating system and Python do matters here.  A child that exits is a
zombie, and answers to signal 0, until it is reaped.  The server never waits,
but in Python 2 every `subprocess.Popen` first reaps the children that earlier
`Popen` objects have left (`Reaped`).  It does so for the children of its own
process only, and the development server may have several, so that any set of
zombies may be reaped.  When the server dies (`Restart`) its jobs go on as
orphans.  A free id may be given to another process (`OtherStarts`).

## 3. Runs

### Jobs

| Run | Instance | Shows |
| --- | --- | --- |
| `jobs_failures` | 1 job, 2 requests, all faults but lost replies, deleting jobs shown as over | `ShownOutcomeIsTrue`: whatever fails, the page never shows an outcome the run did not have; `RecordedOutputExists`, `SettledEntryFrozen`; `ImplementsLifecycle`: the refinement of `JobLifecycle` |
| `jobs_settled` | 2 jobs, 2 requests, no faults, deleting jobs shown as over | `DeletedLeavesNothing` |
| `jobs_liveness` | 1 job, 2 requests, faults of S3 and of batches, lost replies, deleting at any time | `EveryTaskSettles`, `ShownStatusConverges`; `OutcomeRecorded`: a task that is over has left its outcome in the entry; `PendingIsWaiting`: an entry that says pending has a message or a task, or its submission was broken off and no page shows it |

Why these bounds are enough.  Entries, wrappers, outputs and tasks of jobs with
different names never touch each other; jobs meet only inside one request,
which loops over several, and in names.  One job with two requests has every
interleaving of two handlers and a task on the same entry (two deletions, a
deletion and a download, two refreshes); `jobs_settled` has two jobs for the
loops.  The mutants show that each property can fail at these bounds.

The preconditions are those without which the code does not keep the property.

* With `reply`, an exception handler writes *failed* over a recorded *finished*,
  and a task may record a url it read before a deletion.
* With `table` an update is dropped; with `put` it fails, and so may the one of
  the exception handler; with `worker` nobody makes it.  The entry then says
  running for ever.
* `DeletedLeavesNothing` for jobs that still run is refuted below; with `s3` a
  deletion stops after the entry.
* With `broker` messages are lost with the queue head, and their entries say
  pending for ever.
* With `web`, or with `reply` when the call that creates the entry is meant
  (`dynamodb.py:59`), a submission can stop after its first write, and leaves an
  entry that says pending for ever and has no message.  `PendingIsWaiting` names
  this as the only such case, and says that no page ever shows the job.
* Two submissions that are both between step 2 and step 3 of the wizard can
  take one name, since only step 2 looks it up (`execution.py:79`).  They then
  share the key in S3 and the folder, which is why the properties about
  outputs say `NameUnshared`.

Two runs end in a counterexample, each a disagreement with a line of the
repository:

* `jobs_failed_page` (`PageNeverErrors`): a program that exits with an error, or a
  job that is refused, is recorded without the key `exception` that the page
  reads, and the page fails for all jobs until that job is deleted.
* `jobs_delete_running` (`DeletedLeavesNothing`): deleting a job while its task
  runs answers success and leaves its entry or its output behind.

### Batched deletion

`batch_loop`: five ids, chunks of two.  The code has chunks of 25; five ids in
twos give full chunks and a remainder, and the theorems below hold for every
size.  `ImplementsDeletion` says that the loop is an `EntryDeletion`: one that
answers has left no entry.

The comments of the loop say that what DynamoDB leaves over is retried, and
marked unsuccessful if it is left again (`dynamodb.py:105`, `:111`).  What happens
is that the first leftover makes the deletion raise (`Retry`), and no later chunk
is deleted; its callers see the exception, never an answer.

### Machines

| Run | Instance | Shows |
| --- | --- | --- |
| `fleet_sequential` | `ProgramBuild`: 4 machines, 2 users of one account, 1 request or build at a time, 2 repositories with one directory each, the first deployed before; queue heads come up in time and have addresses, anything else may fail, images included | `OneHead`, `WorkersFindHead`; `StopLeavesNone`: also workers that came up after their launch was given up are stopped; `OfferedIsBuilt`, `OfferedOnce`; `WorkersRunOffered`: on an idle server no machine takes jobs with an older image |
| `fleet_concurrent` | `CloudFleet`: 2 machines, 2 accounts, 2 requests, launches of 0, 1 or 2 machines, all faults but images | `LaunchedAsAsked`: a launch that raises nothing has as many machines as were asked for, and a queue head at most if less than one was; `HeadsStayUp`; `WaitsCanEnd`: what a request waits for is on its way; `EveryRequestEnds` |

The number of machines bounds the launches of a behaviour; when all are used
EC2 refuses, which it also does in life (capacity and instance limits), so that
the bound adds no behaviour the code cannot meet.  Two machines are a head and
a worker; four are that for two accounts or for two successive launches.
`u1`'s id is a prefix of `u2`'s, so that prefix termination meets machines of
both.  `cr_build.py` is assumed to be run by one person at a time.  One directory
per repository is enough for a build to find it taken, by an earlier build or
by the first attempt of its own ssh command; two repositories are enough for
one to fail and one to succeed.

The preconditions, again, are those that matter; section 4 says which overlaps
of requests are enough to exclude.  With two requests, both may
find no queue head and launch one each, so that `OneHead` fails.  With
`late head`, a head given up at its deadline comes up later and is used, but is
not the broker of the configuration (`WorkersFindHead`).  A worker that comes up
after its deadline has no alarm and runs until somebody stops it.
`OfferedIsBuilt` and `OfferedOnce` leave out the programs of a build that raised
between offering them and making the image (`undone`): the configuration then
names programs that are nowhere, and the next build offers them again.  They are
not said of the moments in which a build has offered programs and makes their
image.

`EveryRequestEnds` follows a build until its machine is up, and again from the end
of its ssh command and of its image, but not through them: `EC2Worker.make_image`
loops until the image is available (`ec2_worker.py:238`), which never comes if
EC2 ends it as failed, and the ssh command has no timeout (`cr_build.py:194`).

`WorkersRunOffered` speaks of every machine that runs, the one included that a
build has left behind because all its programs failed: its user data starts a
celery worker as well (`ec2_worker.py:348`).

The number of machines is free text.  For 0, where no queue head runs, the code
launches one and answers as after any launch (`cloud_manager.py:112`), although the
form asks for "the number of nodes you want to launch" (`credentials.html:111`):
`LaunchedAsAsked` says of a number below one no more than that nothing but a queue
head was launched.

Two runs end in a counterexample: `fleet_two_accounts` (the configured broker
is another account's) and `fleet_build` (the end of a build terminates every
machine of the account).

### Accounts

`accounts_concurrent`: two accounts, one of an admin, three addresses, two of
which are put on the list of pending users, two keys for lists, and two requests.
In one part of the behaviours they change accounts, in the other they use the
list (`PartsSpec`): the two meet only where an address is put on the list, which
no account may have, and there the accounts stay as they are.

* `NoSharedAddress`, `AddressesReserved`, `RefusedIsTaken`: a change of address
  is four calls in two stores, and others change theirs in between.
* `DeletedStaysDeleted`: an account that was deleted comes back only through a
  request that had loaded it before.
* `ImplementsAddressBook`: call by call, addresses change hands as in a book in
  which each change and each deletion is one step, no address goes to two
  accounts, and no account of an administrator is deleted.

Three addresses let two owners exchange theirs and want the same third one.  The
preconditions are written in the history variables and name what breaks the
property: a change given up halfway, because the password is wrong, leaves an
account without its reservation, and two requests that have loaded one account put
back each other's changes (`spoiled`).  Between the release of the old address and
the write of the account (`Moving`) the account still has the old one, which
another account may already have taken: `NoSharedAddress` and `AddressesReserved`
leave this moment out, and `ImplementsAddressBook` says that it is the write that
is late, not the change.

About the list:

* `ListKeepsDecisions`: of an address the list says what the answers about it come
  to, unless the request that answered last overlapped with another one.  Whatever
  overlaps about the other address, an answer once given to a request that was
  alone is neither taken back by a copy loaded earlier nor hidden by a second
  list.  With one address there would be nothing to lose; two keys are what two
  requests need that find no list and create one each.

An answer whose own request overlaps can be lost, although the page of the
administrator says that "when you grant access to someone, their email address
will appear in the approved users table" (`admin.html:114`): a registration that
has loaded the list before the grant puts its copy back after it, and the address
is on no list.

### Local jobs

`local_reuse`: three jobs, two of them with one name, two process ids and two
requests, with restarts, programs that do not start, and other processes that
take ids.

* `ShownFinishedIsOver`: a job shown as Finished has ended.
* `RunningJobOwnsFolder`: a running job that the page shows has its output in its
  folder, and no other job that the page shows has any there.
* `ShownStatusConverges`: for a user who gets the page again and again, a job
  whose id is free ends up as Finished.

Two jobs of one name are one that is deleted and one that comes after it; the
third is the other job of a request's loop and the one whose start reaps, or
whose process takes an id again.  With two ids and three jobs ids are reused.

The preconditions.  `RunningJobOwnsFolder` fails when users delete jobs that
still run (`early`), when two submissions choose a name at once (`names`), and when
a deletion overlaps with another request (`tabs`): a refresh then brings back the
wrapper of a deleted job, or a second deletion of the name removes the folder
after a new job has been given it.  `ShownFinishedIsOver` needs none of them, as
the theorem says.  `ShownStatusConverges` says nothing of a zombie: nothing in
the code makes the server reap it, and the job says Running until another local
job or download starts a subprocess.  Nor does it say anything while another
process has the id.

### Fairness and stopping

A handler that has started, a task that a worker has, and the delivery of a
message are weakly fair: nothing in the code lets them wait for one another.
Users owe nothing: no request is fair before it is made.  EC2 is fair in
bringing up and taking down what it was told to, but not in making images, and
the ssh command of a build may hang: `Build` is not fair.  Programs end
(`RunJob`); the code sets no time limit on them.  `ShownStatusConverges`
assumes, in its own premise, a user who keeps refreshing (in `LocalJobs`, and is
answered, since restarts may end every request).  `EveryRequestEnds` rests on
EC2 alone for the loop that waits for terminated machines.  `CHECK_DEADLOCK
FALSE` is set for jobs, cloud and local, for batches and in
`accounts_concurrent`, where the system stops when all jobs are submitted and
deleted, the loop has returned, or no account is left; the runs of the machines
check deadlock.

## 4. Theorems

All for every value of the constants that satisfies the modules' assumptions.

* `CloudJobsProofs`: `TypeCorrect`, and `RecordedOutputSafe`: if `reply` is not
  among the faults, `RecordedOutputExists` always holds, for any number of jobs
  and requests.  The property is not inductive: a task that has read an entry
  will write it back later, and a deletion removes an object it decided on
  earlier.  `OutputInv` adds what makes it so: a message is delivered once
  (`DeliveredOnce`), a task that writes a url has uploaded and makes its last
  update (`UrlIsLast`), a request that deletes an object has deleted its entry
  first (`EntryGoesFirst`), and what a task is about to record is stored
  (`OutputBacked`).  From this a deletion and a final update of the same job
  cannot overlap so as to leave a url without its object: the deletion only
  deletes an object whose url it has read, which is after the last update.
  `SettledEntriesFrozen` follows from the same invariant.
  `ShownOutcomesTrue` (`ShownOutcomeIsTrue`) needs no condition: `OutcomeInv` says
  of every place that keeps a status (entry, copies in requests, wrapper) that
  it is one the run justifies.  `TasksRecordOutcome` (`OutcomeRecorded`) holds
  unless updates of the table fail outright (`put`, `table`): it says what the
  entry of a job settles to.  `PendingJobsWait` (`PendingIsWaiting`) holds as long
  as updates do not fail outright and neither a worker nor the broker stops: lost
  replies, that of the entry's creation too, batched reads and deletions, S3 and
  requests broken off anywhere are admitted.  `WaitInv` adds that a page shows, and
  a request has loaded, only jobs whose message was sent (`ShownIsSubmitted`).
* `CloudJobsLifecycleProofs`: `LifecycleImplemented`: without `reply`, with names
  that are not shared and users who delete what is shown as over, `CloudJobs`
  implements `JobLifecycle`.  `LifeInv` adds to `OutputInv` that whoever has seen
  a final status did so after the task was over (`SettledIsOver`), that until
  then the entry stays (`EntryKept`), and that it is set to running once
  (`StartsOnce`).  Five actions change what `JobLifecycle` shows (`FiveShow`):
  creating the entry, the task's put, the upload, and the two deletions; each is
  one of its steps, every other one a stutter.
  `DeletionsComplete` (`DeletedLeavesNothing`): if only workers and the broker fail,
  a deleted job leaves neither entry nor output; `ClearInv` adds that the
  wrapper goes last (`WrapperGoesLast`) and that a request that deletes an entry
  knows of the output (`OutputTold`).
* `CloudFleetProofs`: `FleetTypeCorrect`, and `QueueHeadsStayUp` (`HeadsStayUp`),
  from `FleetInv`: a queue head never has an alarm (`HeadsUnalarmed`), because
  the machines a launch waits for and sets alarms on are those it launched as
  workers (`LaunchedWorkers`).  `AskedIsLaunched` (`LaunchedAsAsked`), for any
  number of concurrent launches of any number of machines, from `CountInv`: what a
  launch has and what it still wants add up to what was asked for, or it was asked
  for less than one and has a queue head at most (`Tally`), since what it has was
  launched (`MineAreLaunched`) and EC2 launches no machine twice
  (`StaysLaunched`).
* `CloudFleetOverlapProofs`: for any number of requests at once.  The code has
  no lock between requests, so the first three theorems name, as a property of
  the behaviour, the overlap that must not happen; each is needed, since without
  it two requests are enough to break the conclusion.  `AccountsHaveOneHead`
  (`OneHead`): no two launches of an account are between their look for a queue
  head and the end of the wait for it (`LaunchesApart`), and no head is given up
  while it boots (`HeadsAwaited`, an assumption on `Faults`).  A launch that is
  to start a queue head has found its account without one that runs
  (`NoHeadYet`); that it has none that boots either is because every such one is
  waited for (`BootingIsAwaited`).  `WorkersAreTold` (`WorkersFindHead`):
  moreover all use one EC2 account, every queue head has a public address
  (`HeadsHaveAddress`), and no machines are stopped while a launch that has its
  head is still to launch workers (`HeadsNotStopped`).  The configuration names
  the head that runs, until the next one is up (`NamedInConf`,
  `HeadForWorkers`).  `StopsAreComplete` (`StopLeavesNone`): no machines are
  launched for a user while they are being stopped (`StopsApart`), so that the
  list stays complete (`ListedAll`).  `WaitsAreNotVain` (`WaitsCanEnd`) needs no
  condition: what a request has listed or launched is launched, and a machine on
  its way down does not come back (`GoneStaysGone`).  Requests that come one at
  a time, as in `fleet_sequential`, meet all three conditions
  (`OneAtATimeIsApart`).
* `ProgramBuildProofs`: `FleetImplemented`: with builds the machines still do
  what `CloudFleet` says, so that its theorems hold for `BuildSpec`, such as
  `QueueHeadsSurviveBuilds`.  `BuildTypeCorrect`, `OfferedProgramsBuilt`
  (`OfferedIsBuilt`) and `ProgramsOfferedOnce` (`OfferedOnce`), for any number of
  requests, from `BuildInv`: there is one build, the disk of its machine has
  what the image had and what it has built, what it builds is not in the
  image yet (`Anew`), and what is offered and not `undone` is in the image,
  or on that disk while the image is made.
  `WorkersHaveOffered` (`WorkersRunOffered`), for one EC2 account and requests
  of which none launches machines while they are being stopped (`StopsApart`),
  from `OfferInv`: what is offered, but for what a build has
  offered that still has machines to stop (`Given`), is in the image, in what a
  launch has read and on every machine that runs.  `Given` only grows when a
  build ends by stopping machines (`GivenShrinks`), and by then none runs,
  since it has listed them all (`ListedAll`).
* `AccountsProofs`: `AccountsTypeCorrect`; `DecisionsKept` (`ListKeepsDecisions`)
  from `ListInv`: a request that is not `crowded` is alone with the list that is
  shared (`Alone`), and of an address that is not `unsure` the shared list and
  every copy of it say the same (`Sure`), because a request that puts back another
  copy makes its own address unsure and leaves the others as they are
  (`ChangedElsewhere`); and `AddressesNotShared`, `AddressesStayReserved`,
  `RefusalsJustified` and `DeletedAccountsStay` from `AccountInv`: while no
  account is spoiled at most one request works on each, and every reserved
  address has one claimant, an account or a request (`Claim`).
  `AddressBookImplemented`: `Accounts` implements `AddressBook`.  Only two steps
  write in the book, `Reserve` and `DeleteAccount`; every other one leaves it as
  it is, because the one request that works on an account decides what the book
  says of it (`BookAlone`).  What is in the book is reserved (`BookIsReserved`),
  so that a new address is nobody's.
* `BatchDeleteProofs`: `BatchTypeCorrect`, `ReportIsTrue`, `ReportIsComplete`,
  `BatchesFit`, from `BatchInv`: every id is to come, in the current chunk or
  reported (`NoIdForgotten`), what is not left over is gone (`ProcessedIsGone`),
  and the loop is done only when no chunk is left (`DoneIsDone`).
  `DeletionImplemented` (`ImplementsDeletion`): a loop that answers has
  reported, and deleted, everything.
* `LocalJobsProofs`: `LocalTypeCorrect`, and `FinishedIsOver`
  (`ShownFinishedIsOver`), from `FinishedInv`: what the wizard, the page or a
  request knows of has been started, and what has been started is not started
  again (`KnownIsStarted`), so that a process that has ended stays so
  (`ProcessesGoOn`); and an answer that says Finished is true until it is saved
  (`AnswerIsTrue`), however late.  No uniqueness of process ids is needed: a
  process that lives always answers to its own id.  `FoldersAreOwn`
  (`RunningJobOwnsFolder`), without the faults `names`, `tabs` and `early`, from
  `FolderInv`: a name has one occupant (`OneOccupant`), what a request has loaded
  stays shown while it has it (`LoadedIsShown`), and a deletion is alone and
  deletes what is shown as Finished (`DeletesAlone`), which by the theorem
  before it has ended.

Assumptions are the types of the constants, that the machines and the ids of a
deletion are finite, and that chunks are not empty; and, where a theorem says
so, which faults and overlaps do not occur.

Only model-checked: liveness (`EveryTaskSettles`, `ShownStatusConverges`,
`EveryRequestEnds`); the prover does not reach liveness under fairness.  Proved is
the safety they rest on: a task that is over has recorded how it ended
(`OutcomeRecorded`), and what a request waits for is on its way (`WaitsCanEnd`).

## 5. Not modelled

* Contents: parameters, command lines, output files, dates, messages, HTML.
* Creating the table (`dynamodb.py:52`) and the bucket, and their first seconds:
  `CloudJobs` starts with both.
* Credentials, security groups, key pairs and spot prices of EC2.
* BatchGet's limit of 100 keys (`dynamodb.py:43`), and running out of anything
  else.
* A torn read of `celeryconfig.py` while it is rewritten (`cloud_manager.py:340`;
  it raises, like `Refused`).
* Builds on the server itself, which keep no state but files (and raise a
  `KeyError` when `mkdir` or `git clone` fails, `cr_build.py:131`), the texts about
  failed programs (`cr_build.py:424`), and the pages a build generates.
* The exit status of local jobs, which the code does not look at: it shows as
  Finished also what failed.
* The working directory of the server, which the downloads change and change
  back.
* Login and its sessions, and the token of the first administrator.  That no
  account has an address yet when a user asks for one is looked up in the step
  that puts the list.
* Queries of the datastore that lag behind its writes: a query sees them at once.
* Reads of DynamoDB that lag behind its writes: boto asks for eventually
  consistent ones (`dynamodb.py:43`, `:71`), the models take every read for one of
  the table as it is.  An older item would let an update write back attributes
  that a later one has changed, and what the properties of cloud jobs say rests on
  this not happening.
* A list of pending users whose request stops, or whose put raises, between its
  calls: nothing is put back, as by a request that changes nothing.
* Launcher, dispatch and session cookies, templates and styles; `lib` and `sdk`
  are third-party code, of which the models state what the program relies on.

## 6. Plan

Done, in this order: `CloudJobs` with `JobLifecycle`; `BatchDelete`;
`CloudFleet`; `LocalJobs`; `ProgramBuild`; `Accounts`; their theorems; those
about overlapping requests, and the refinements of `EntryDeletion` and
`AddressBook`.

Left: an abstract life of local jobs, as `JobLifecycle` is for cloud jobs; and
weaker conditions for `FoldersAreOwn`, which excludes all overlaps of deletions
where some do no harm.  `CloudFleet` and `CloudJobs` are not composed: which
broker a job waits at is seen nowhere but in what is lost with it, for which
the faults `worker` and `broker` of `CloudJobs` stand.
