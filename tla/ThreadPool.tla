----------------------------- MODULE ThreadPool -----------------------------
(***************************************************************************)
(* The thread pool of myrefl_thread.c: NBR_THREADS workers, the list of    *)
(* free threads, the list of executing threads and the list of pending     *)
(* jobs.  Any thread of the program may call myrefl_thread_request; nothing *)
(* but the mutex of each list, and the mutex in which                      *)
(* myrefl_xos_thread_wait and myrefl_xos_thread_release exchange           *)
(* work_to_do, orders it with the workers' thread_main.  The model has one *)
(* action per access of shared state, in the order of the code.            *)
(*                                                                         *)
(* The thread that ran myrefl_start may stop the pool once, with           *)
(* myrefl_thread_terminate: nothing holds the other threads back meanwhile. *)
(*                                                                         *)
(* A job stands for one call of myrefl_thread_request; that the program    *)
(* recycles the job structures is left out.  A worker that leaves          *)
(* thread_main frees its thread structure: what another thread writes into *)
(* it later is lost, so the model lets the write happen and nobody read it. *)
(*                                                                         *)
(* An operator whose name starts with Bug is no part of Next: it is what   *)
(* the definition after it would be with a slip that a property catches.   *)
(***************************************************************************)
EXTENDS MyreflList, FiniteSets

CONSTANTS Workers,      \* the threads of the pool
          Requesters,   \* the threads that call myrefl_thread_request
          Jobs,         \* the calls they make
          MayStop,      \* whether myrefl_stop may be called
          None          \* NULL

ASSUME NoneAssumption == None \notin Workers /\ None \notin Jobs
ASSUME WorkersAssumption == IsFiniteSet(Workers)

VARIABLES
    free,         \* thread_free_queue
    executing,    \* thread_executing_queue
    pending,      \* job_pending_queue
    lists,        \* which of the three lists exist (not NULL)
    job,          \* thread->job
    quit,         \* thread->quit
    workToDo,     \* thread->xos->work_to_do
    wpc,          \* where thread_main is, for each worker
    runs,         \* the job each worker has called execute for, or None
    rpc,          \* where myrefl_thread_request is, for each requester
    thread,       \* its local variable thread
    request,      \* its local variable job
    tpc,          \* where myrefl_thread_terminate is
    victim,       \* the list it drains and its local variable thread
    requested,    \* history: the calls made so far
    finished      \* history: the calls whose job has been executed

queues == <<free, executing, pending, lists>>
threads == <<job, quit, workToDo, wpc, runs>>
calls == <<rpc, thread, request, requested>>
stop == <<tpc, victim>>
vars == <<queues, threads, calls, stop, finished>>

ListNames == {"free", "executing", "pending"}

(* myrefl_list_push on a list that may be gone: an error, no change. A     *)
(* list that is gone is empty, so pop and remove find nothing in it.       *)
PushOn(name, list, data) == IF name \in lists THEN ListPush(list, data) ELSE list

WorkerPC == {"top", "wait", "awake", "loop", "exec", "next", "retire",
             "enlist", "dead"}
RequesterPC == {"idle", "pop", "check", "assign", "release", "push", "defer",
                "kill", "signal"}
TerminatorPC == {"running", "drain", "kill", "signal", "drop", "jobs", "stopped"}

(***************************************************************************)
(* myrefl_thread_init: every thread is created, has no job, and is on the  *)
(* free list; each runs thread_main from its start.                        *)
(***************************************************************************)
Init ==
    /\ free \in SetToSeqs(Workers)
    /\ executing = <<>>
    /\ pending = <<>>
    /\ lists = ListNames
    /\ job = [w \in Workers |-> None]
    /\ quit = [w \in Workers |-> FALSE]
    /\ workToDo = [w \in Workers |-> FALSE]
    /\ wpc = [w \in Workers |-> "top"]
    /\ runs = [w \in Workers |-> None]
    /\ rpc = [r \in Requesters |-> "idle"]
    /\ thread = [r \in Requesters |-> None]
    /\ request = [r \in Requesters |-> None]
    /\ tpc = "running"
    /\ victim = [list |-> "free", thread |-> None]
    /\ requested = {}
    /\ finished = {}

-----------------------------------------------------------------------------
(* thread_main *)

GoWorker(w, from, to) ==
    /\ wpc[w] = from
    /\ wpc' = [wpc EXCEPT ![w] = to]

BugTop(w) ==   \* work_to_do is cleared before the wait, not after it
    /\ GoWorker(w, "top", IF quit[w] THEN "dead" ELSE "wait")
    /\ workToDo' = [workToDo EXCEPT ![w] = FALSE]
    /\ UNCHANGED <<queues, job, quit, runs, calls, finished, stop>>

(* while (!thread->quit) *)
Top(w) ==
    /\ GoWorker(w, "top", IF quit[w] THEN "dead" ELSE "wait")
    /\ UNCHANGED <<queues, job, quit, workToDo, runs, calls, finished, stop>>

BugWait(w) ==   \* work_to_do is not reset
    /\ workToDo[w]
    /\ GoWorker(w, "wait", "awake")
    /\ UNCHANGED <<queues, job, quit, workToDo, runs, calls, finished, stop>>

(* myrefl_xos_thread_wait returns once work_to_do is set, and resets it *)
Wait(w) ==
    /\ workToDo[w]
    /\ GoWorker(w, "wait", "awake")
    /\ workToDo' = [workToDo EXCEPT ![w] = FALSE]
    /\ UNCHANGED <<queues, job, quit, runs, calls, finished, stop>>

(* if (thread->quit) continue *)
Awake(w) ==
    /\ GoWorker(w, "awake", IF quit[w] THEN "top" ELSE "loop")
    /\ UNCHANGED <<queues, job, quit, workToDo, runs, calls, finished, stop>>

(* while (thread->job): execute it, or retire *)
TakeJob(w) ==
    /\ GoWorker(w, "loop", IF job[w] = None THEN "retire" ELSE "exec")
    /\ runs' = [runs EXCEPT ![w] = job[w]]
    /\ UNCHANGED <<queues, job, quit, workToDo, calls, finished, stop>>

BugFinishJob(w) ==   \* thread->job keeps the job while none is pending
    /\ GoWorker(w, "exec", IF pending = <<>> THEN "loop" ELSE "next")
    /\ finished' = finished \cup {runs[w]}
    /\ runs' = [runs EXCEPT ![w] = None]
    /\ UNCHANGED <<queues, job, quit, workToDo, calls, stop>>

(* execute returns: the job is recycled and thread->job becomes NULL *)
FinishJob(w) ==
    /\ GoWorker(w, "exec", "next")
    /\ finished' = finished \cup {runs[w]}
    /\ runs' = [runs EXCEPT ![w] = None]
    /\ job' = [job EXCEPT ![w] = None]
    /\ UNCHANGED <<queues, quit, workToDo, calls, stop>>

BugPopPending(w) ==   \* myrefl_list_peek for myrefl_list_pop
    /\ GoWorker(w, "next", "loop")
    /\ job' = [job EXCEPT ![w] = ListPeek(pending, None)]
    /\ UNCHANGED <<queues, quit, workToDo, runs, calls, finished, stop>>

(* thread->job = myrefl_list_pop(job_pending_queue) *)
PopPending(w) ==
    /\ GoWorker(w, "next", "loop")
    /\ job' = [job EXCEPT ![w] = ListPeek(pending, None)]
    /\ pending' = ListRest(pending)
    /\ UNCHANGED <<free, executing, lists, quit, workToDo, runs, calls, finished, stop>>

(* myrefl_list_remove(thread_executing_queue, thread) *)
Retire(w) ==
    /\ GoWorker(w, "retire", "enlist")
    /\ executing' = ListRemove(executing, w)
    /\ UNCHANGED <<free, pending, lists, job, quit, workToDo, runs, calls, finished, stop>>

(* myrefl_list_push(thread_free_queue, thread) *)
Enlist(w) ==
    /\ GoWorker(w, "enlist", "top")
    /\ free' = PushOn("free", free, w)
    /\ UNCHANGED <<executing, pending, lists, job, quit, workToDo, runs, calls, finished, stop>>

Worker(w) ==
    \/ Top(w) \/ Wait(w) \/ Awake(w) \/ TakeJob(w) \/ FinishJob(w)
    \/ PopPending(w) \/ Retire(w) \/ Enlist(w)

-----------------------------------------------------------------------------
(* myrefl_thread_request *)

GoRequester(r, from, to) ==
    /\ rpc[r] = from
    /\ rpc' = [rpc EXCEPT ![r] = to]

(* job = thread_alloc_job(execute, display, context) *)
Request(r, j) ==
    /\ j \in Jobs \ requested
    /\ GoRequester(r, "idle", "pop")
    /\ request' = [request EXCEPT ![r] = j]
    /\ requested' = requested \cup {j}
    /\ UNCHANGED <<queues, threads, thread, finished, stop>>

(* thread = myrefl_list_pop(thread_free_queue); if (thread && ... *)
PopFree(r) ==
    /\ GoRequester(r, "pop", IF free = <<>> THEN "defer" ELSE "check")
    /\ thread' = [thread EXCEPT ![r] = ListPeek(free, None)]
    /\ free' = ListRest(free)
    /\ UNCHANGED <<executing, pending, lists, threads, request, requested, finished, stop>>

(* ... !thread->quit) *)
CheckQuit(r) ==
    /\ GoRequester(r, "check", IF quit[thread[r]] THEN "defer" ELSE "assign")
    /\ UNCHANGED <<queues, threads, thread, request, requested, finished, stop>>

(* thread->job = job *)
Assign(r) ==
    /\ GoRequester(r, "assign", "release")
    /\ job' = [job EXCEPT ![thread[r]] = request[r]]
    /\ request' = [request EXCEPT ![r] = None]
    /\ UNCHANGED <<queues, quit, workToDo, wpc, runs, thread, requested, finished, stop>>

(* myrefl_xos_thread_release sets work_to_do; it fails if it is set *)
Release(r) ==
    /\ GoRequester(r, "release", IF workToDo[thread[r]] THEN "kill" ELSE "push")
    /\ workToDo' = [workToDo EXCEPT ![thread[r]] = TRUE]
    /\ UNCHANGED <<queues, job, quit, wpc, runs, thread, request, requested, finished, stop>>

(* myrefl_list_push(thread_executing_queue, thread) *)
PushExecuting(r) ==
    /\ GoRequester(r, "push", "idle")
    /\ executing' = PushOn("executing", executing, thread[r])
    /\ thread' = [thread EXCEPT ![r] = None]
    /\ UNCHANGED <<free, pending, lists, threads, request, requested, finished, stop>>

BugDefer(r) ==   \* deferred only if a thread executes that can find it
    /\ GoRequester(r, "defer", "idle")
    /\ pending' = IF executing = <<>> THEN pending
                  ELSE PushOn("pending", pending, request[r])
    /\ request' = [request EXCEPT ![r] = None]
    /\ thread' = [thread EXCEPT ![r] = None]
    /\ UNCHANGED <<free, executing, lists, threads, requested, finished, stop>>

(* myrefl_list_push(job_pending_queue, job) *)
Defer(r) ==
    /\ GoRequester(r, "defer", "idle")
    /\ pending' = PushOn("pending", pending, request[r])
    /\ request' = [request EXCEPT ![r] = None]
    /\ thread' = [thread EXCEPT ![r] = None]
    /\ UNCHANGED <<free, executing, lists, threads, requested, finished, stop>>

(* myrefl_thread_kill, after a failed release: job and quit are written,   *)
(* then the thread is released to see them                                 *)
Kill(r) ==
    /\ GoRequester(r, "kill", "signal")
    /\ job' = [job EXCEPT ![thread[r]] = None]
    /\ quit' = [quit EXCEPT ![thread[r]] = TRUE]
    /\ UNCHANGED <<queues, workToDo, wpc, runs, thread, request, requested, finished, stop>>

Signal(r) ==
    /\ GoRequester(r, "signal", "idle")
    /\ workToDo' = [workToDo EXCEPT ![thread[r]] = TRUE]
    /\ thread' = [thread EXCEPT ![r] = None]
    /\ UNCHANGED <<queues, job, quit, wpc, runs, request, requested, finished, stop>>

(* A call that has begun runs to its end *)
Proceed(r) ==
    \/ PopFree(r) \/ CheckQuit(r) \/ Assign(r) \/ Release(r)
    \/ PushExecuting(r) \/ Defer(r) \/ Kill(r) \/ Signal(r)

Requester(r) == (\E j \in Jobs : Request(r, j)) \/ Proceed(r)

-----------------------------------------------------------------------------
(* myrefl_thread_terminate: myrefl_thread_kill_threads, thread_free_jobs *)

GoTerminator(from, to) == tpc = from /\ tpc' = to

(* running became FALSE: myrefl_thread_terminate is called *)
Terminate ==
    /\ GoTerminator("running", "drain")
    /\ MayStop
    /\ UNCHANGED <<queues, threads, calls, finished, victim>>

(* The list being drained: first the free one, then the executing one *)
Draining == IF victim.list = "free" THEN free ELSE executing

(* while ((thread = myrefl_list_pop(...)) != NULL) *)
PopVictim ==
    /\ GoTerminator("drain", IF Draining = <<>> THEN "drop" ELSE "kill")
    /\ victim' = [victim EXCEPT !.thread = ListPeek(Draining, None)]
    /\ IF victim.list = "free"
       THEN free' = ListRest(free) /\ UNCHANGED executing
       ELSE executing' = ListRest(executing) /\ UNCHANGED free
    /\ UNCHANGED <<pending, lists, threads, calls, finished>>

(* myrefl_thread_kill(thread) *)
KillVictim ==
    /\ GoTerminator("kill", "signal")
    /\ job' = [job EXCEPT ![victim.thread] = None]
    /\ quit' = [quit EXCEPT ![victim.thread] = TRUE]
    /\ UNCHANGED <<queues, workToDo, wpc, runs, calls, finished, victim>>

BugSignalVictim ==   \* only a thread that executes is signalled
    /\ GoTerminator("signal", "drain")
    /\ workToDo' = [workToDo EXCEPT ![victim.thread] = (victim.list = "executing")]
    /\ UNCHANGED <<queues, job, quit, wpc, runs, calls, finished, victim>>

SignalVictim ==
    /\ GoTerminator("signal", "drain")
    /\ workToDo' = [workToDo EXCEPT ![victim.thread] = TRUE]
    /\ UNCHANGED <<queues, job, quit, wpc, runs, calls, finished, victim>>

(* The list is freed, with what a worker or a requester has pushed since   *)
(* it was found empty, and its pointer becomes NULL                        *)
DropList ==
    /\ GoTerminator("drop", IF victim.list = "free" THEN "drain" ELSE "jobs")
    /\ lists' = lists \ {victim.list}
    /\ IF victim.list = "free"
       THEN free' = <<>> /\ UNCHANGED executing
       ELSE executing' = <<>> /\ UNCHANGED free
    /\ victim' = [list |-> "executing", thread |-> None]
    /\ UNCHANGED <<pending, threads, calls, finished>>

(* thread_free_jobs *)
FreeJobs ==
    /\ GoTerminator("jobs", "stopped")
    /\ pending' = <<>>
    /\ lists' = lists \ {"pending"}
    /\ UNCHANGED <<free, executing, threads, calls, finished, victim>>

(* A termination that has begun runs to its end *)
Terminator ==
    \/ PopVictim \/ KillVictim \/ SignalVictim \/ DropList \/ FreeJobs

-----------------------------------------------------------------------------
Next ==
    \/ \E w \in Workers : Worker(w)
    \/ \E r \in Requesters : Requester(r)
    \/ Terminate
    \/ Terminator

Spec == Init /\ [][Next]_vars

(* The operating system runs every thread and every job ends; nobody has   *)
(* to make a call, nor to stop the program.                                *)
Fairness ==
    /\ \A w \in Workers : WF_vars(Worker(w))
    /\ \A r \in Requesters : WF_vars(Proceed(r))
    /\ WF_vars(Terminator)

FairSpec == Spec /\ Fairness

-----------------------------------------------------------------------------
(* Properties *)

JobOrNone == Jobs \cup {None}

(* The type invariant. *)
TypeOK ==
    /\ free \in Seq(Workers)
    /\ executing \in Seq(Workers)
    /\ pending \in Seq(Jobs)
    /\ lists \subseteq ListNames
    /\ job \in [Workers -> JobOrNone]
    /\ quit \in [Workers -> BOOLEAN]
    /\ workToDo \in [Workers -> BOOLEAN]
    /\ wpc \in [Workers -> WorkerPC]
    /\ runs \in [Workers -> JobOrNone]
    /\ rpc \in [Requesters -> RequesterPC]
    /\ thread \in [Requesters -> Workers \cup {None}]
    /\ request \in [Requesters -> JobOrNone]
    /\ tpc \in TerminatorPC
    /\ victim \in [list : {"free", "executing"}, thread : Workers \cup {None}]
    /\ requested \subseteq Jobs
    /\ finished \subseteq Jobs

(* The requesters that have taken w off the free list and not released it. *)
Holds(r, w) == thread[r] = w /\ rpc[r] \in {"check", "assign", "release"}

(* Nobody has begun to stop the pool *)
InService == tpc = "running"

(* A thread on the free list is there once, no requester holds it, it has  *)
(* no job and no wakeup under way: myrefl_thread_request may hand it one.  *)
(* Enlisting a thread before thread_main is done with it would break this. *)
FreeThreadsAreIdle ==
    InService =>
        /\ NoDuplicates(free)
        /\ \A w \in Workers :
              ListFind(free, w) =>
                  /\ job[w] = None /\ ~ workToDo[w] /\ wpc[w] \in {"top", "wait"}
                  /\ \A r \in Requesters : ~ Holds(r, w)

(* No two requesters hold one thread, and the release of a thread a        *)
(* requester holds always succeeds: work_to_do is clear, so as long as the *)
(* pool is in service the branch in which myrefl_thread_request kills the  *)
(* thread and drops the job is never taken.                                *)
ReleaseNeverFails ==
    InService =>
        /\ \A r \in Requesters : rpc[r] = "release" => ~ workToDo[thread[r]]
        /\ \A r, s \in Requesters :
              r # s => \A w \in Workers : ~ (Holds(r, w) /\ Holds(s, w))
        /\ \A w \in Workers : ~ quit[w]

(* The places a requested job can be in: with its requester, pending, with *)
(* a thread, or executed.                                                  *)
WithRequester(j) == \E r \in Requesters : request[r] = j
WithThread(j) == \E w \in Workers : job[w] = j
IsPending(j) == ListFind(pending, j)
IsRun(j) == \E w \in Workers : runs[w] = j

(* No call of myrefl_thread_request is forgotten while in service. *)
NoJobLost ==
    InService =>
        \A j \in requested :
            j \in finished \/ WithRequester(j) \/ WithThread(j) \/ IsPending(j)

(* No call is served twice, not even while the pool is being stopped: a    *)
(* job is in one place only, so no second thread can find it, and a job    *)
(* that runs or has run is in none but its thread.                         *)
NoJobTwice ==
    /\ NoDuplicates(pending)
    /\ \A j \in Jobs :
          /\ ~ (WithRequester(j) /\ WithThread(j))
          /\ ~ (WithRequester(j) /\ IsPending(j))
          /\ ~ (WithThread(j) /\ IsPending(j))
          /\ j \in finished \/ IsRun(j) => ~ (WithRequester(j) \/ IsPending(j))
          /\ j \in finished => ~ (WithThread(j) \/ IsRun(j))
    /\ \A v, w \in Workers :
          v # w => /\ runs[v] # None => runs[v] # runs[w] /\ runs[v] # job[w]
                   /\ job[v] # None => job[v] # job[w]
    /\ \A r, s \in Requesters :
          r # s /\ request[r] # None => request[r] # request[s]

(* What the pool promises its callers (JobPool), whether it is stopped or  *)
(* not: stopping drops jobs, but runs none a second time.                  *)
Promise == INSTANCE JobPool WITH
    waiting <- requested \ (finished \cup {runs[w] : w \in Workers}),
    running <- runs,
    done <- finished

RefinesJobPool == Promise!Spec

(* TypeOK and NoJobTwice are made inductive by what each program counter   *)
(* says of the local variables, and by every job anywhere being requested. *)
LocalsOK ==
    /\ \A r \in Requesters :
          /\ rpc[r] \in {"pop", "check", "assign", "defer"} <=> request[r] # None
          /\ rpc[r] \in {"check", "assign", "release", "push", "kill", "signal"}
                => thread[r] # None
    /\ \A w \in Workers : wpc[w] = "exec" <=> runs[w] # None

OnlyRequested ==
    \A j \in Jobs :
        WithRequester(j) \/ WithThread(j) \/ IsPending(j) \/ IsRun(j) \/ j \in finished
            => j \in requested

(* The other invariants, by what a thread's program counter says of it: a  *)
(* free or held thread is idle; a thread at work is neither, and only it   *)
(* touches its job.                                                        *)
ThreadsOK ==
    InService =>
        /\ lists = ListNames
        /\ \A r \in Requesters :
              /\ rpc[r] \notin {"kill", "signal"}
              /\ \A w \in Workers :
                    Holds(r, w) =>
                        /\ wpc[w] \in {"top", "wait"} /\ ~ workToDo[w]
                        /\ rpc[r] # "release" => job[w] = None
        /\ \A w \in Workers :
              /\ wpc[w] \notin {"top", "wait"} => ~ ListFind(free, w) /\ ~ workToDo[w]
              /\ wpc[w] \in {"next", "retire", "enlist"} => job[w] = None
              /\ wpc[w] = "exec" => runs[w] = job[w]

(* A job handed to a thread is executed, whatever else happens: the wakeup *)
(* is not lost and the thread is not sent away.  (Without a stop.)         *)
AssignedJobRuns ==
    \A j \in Jobs : WithThread(j) ~> j \in finished

(* A thread that is told to quit leaves thread_main, however many jobs it  *)
(* still finds pending and whoever else signals or kills it.               *)
KilledThreadsDie == \A w \in Workers : quit[w] ~> wpc[w] = "dead"

=============================================================================
