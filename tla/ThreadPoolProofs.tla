-------------------------- MODULE ThreadPoolProofs --------------------------
(* Theorems about ThreadPool, for any number of threads, calls and jobs. *)
EXTENDS ThreadPool, MyreflListProofs, FiniteSetTheorems

USE NoneAssumption

(* The initial free list holds each worker, once. *)
LEMMA InitialFree ==
    ASSUME NEW f \in SetToSeqs(Workers)
    PROVE  f \in Seq(Workers) /\ NoDuplicates(f)
<1>1. Cardinality(Workers) \in Nat
  BY WorkersAssumption, FS_CardinalityType
<1>2. /\ f \in [1..Cardinality(Workers) -> Workers]
      /\ \A i, j \in 1..Cardinality(Workers) : i # j => f[i] # f[j]
  BY DEF SetToSeqs
<1>3. f \in Seq(Workers) /\ Len(f) = Cardinality(Workers)
  BY <1>1, <1>2, SeqDef
<1>4. QED BY <1>2, <1>3 DEF NoDuplicates

-----------------------------------------------------------------------------
(* Type correctness *)

IType == TypeOK /\ LocalsOK

LEMMA TypeInit == Init => IType
BY InitialFree, EmptySeq
   DEF Init, IType, TypeOK, LocalsOK, ListNames, JobOrNone, WorkerPC,
       RequesterPC, TerminatorPC

LEMMA WorkerType ==
    ASSUME IType, NEW w \in Workers, Worker(w)
    PROVE  IType'
<1> USE DEF IType, TypeOK, LocalsOK, WorkerPC, JobOrNone, GoWorker,
            queues, calls, stop
<1>1. CASE Top(w) BY <1>1 DEF Top
<1>2. CASE Wait(w) BY <1>2 DEF Wait
<1>3. CASE Awake(w) BY <1>3 DEF Awake
<1>4. CASE TakeJob(w) BY <1>4 DEF TakeJob
<1>5. CASE FinishJob(w) BY <1>5 DEF FinishJob
<1>6. CASE PopPending(w)
  <2>1. ListPeek(pending, None) \in JobOrNone /\ ListRest(pending) \in Seq(Jobs)
    BY RestFacts DEF ListPeek
  <2>2. QED BY <1>6, <2>1 DEF PopPending
<1>7. CASE Retire(w)
  <2>1. ListRemove(executing, w) \in Seq(Workers) BY RemoveType
  <2>2. QED BY <1>7, <2>1 DEF Retire
<1>8. CASE Enlist(w)
  <2>1. PushOn("free", free, w) \in Seq(Workers) BY PushFacts DEF PushOn
  <2>2. QED BY <1>8, <2>1 DEF Enlist
<1>9. QED BY <1>1, <1>2, <1>3, <1>4, <1>5, <1>6, <1>7, <1>8 DEF Worker

LEMMA RequesterType ==
    ASSUME IType, NEW r \in Requesters, Requester(r)
    PROVE  IType'
<1> USE DEF IType, TypeOK, LocalsOK, RequesterPC, JobOrNone, GoRequester,
            queues, threads, stop
<1>1. CASE \E j \in Jobs : Request(r, j) BY <1>1 DEF Request
<1>2. CASE PopFree(r)
  <2>1. /\ ListRest(free) \in Seq(Workers)
        /\ ListPeek(free, None) \in Workers \cup {None}
        /\ free # <<>> => ListPeek(free, None) \in Workers
    BY RestFacts DEF ListPeek
  <2>2. QED BY <1>2, <2>1 DEF PopFree
<1>3. CASE CheckQuit(r) BY <1>3 DEF CheckQuit
<1>4. CASE Assign(r) BY <1>4 DEF Assign
<1>5. CASE Release(r) BY <1>5 DEF Release
<1>6. CASE PushExecuting(r)
  <2>1. PushOn("executing", executing, thread[r]) \in Seq(Workers)
    BY <1>6, PushFacts DEF PushOn, PushExecuting
  <2>2. QED BY <1>6, <2>1 DEF PushExecuting
<1>7. CASE Defer(r)
  <2>1. PushOn("pending", pending, request[r]) \in Seq(Jobs)
    BY <1>7, PushFacts DEF PushOn, Defer
  <2>2. QED BY <1>7, <2>1 DEF Defer
<1>8. CASE Kill(r) BY <1>8 DEF Kill
<1>9. CASE Signal(r) BY <1>9 DEF Signal
<1>10. QED
  BY <1>1, <1>2, <1>3, <1>4, <1>5, <1>6, <1>7, <1>8, <1>9 DEF Requester, Proceed

LEMMA TerminatorType ==
    ASSUME IType, Terminate \/ Terminator
    PROVE  IType'
<1> USE DEF IType, TypeOK, LocalsOK, TerminatorPC, JobOrNone, GoTerminator,
            queues, threads, calls
<1>1. CASE Terminate BY <1>1 DEF Terminate
<1>2. CASE PopVictim
  <2>1. /\ ListRest(free) \in Seq(Workers) /\ ListRest(executing) \in Seq(Workers)
        /\ ListPeek(Draining, None) \in Workers \cup {None}
    BY RestFacts DEF ListPeek, Draining
  <2>2. QED BY <1>2, <2>1 DEF PopVictim
<1>3. CASE KillVictim BY <1>3 DEF KillVictim
<1>4. CASE SignalVictim BY <1>4 DEF SignalVictim
<1>5. CASE DropList
  <2>1. <<>> \in Seq(Workers) BY EmptySeq
  <2>2. free' \in Seq(Workers) /\ executing' \in Seq(Workers)
    BY <1>5, <2>1 DEF DropList
  <2>3. QED BY <1>5, <2>2 DEF DropList
<1>6. CASE FreeJobs BY <1>6, EmptySeq DEF FreeJobs
<1>7. QED BY <1>1, <1>2, <1>3, <1>4, <1>5, <1>6 DEF Terminator

LEMMA TypeStep == IType /\ [Next]_vars => IType'
<1>1. ASSUME IType, UNCHANGED vars PROVE IType'
  BY <1>1 DEF IType, TypeOK, LocalsOK, vars, queues, threads, calls, stop
<1>2. QED
  BY <1>1, WorkerType, RequesterType, TerminatorType DEF Next

(* Every variable keeps its type and a program counter tells which local   *)
(* variables are set: what myrefl_thread.c puts on a list or dereferences  *)
(* is never NULL.                                                          *)
THEOREM TypeCorrect == Spec => [](TypeOK /\ LocalsOK)
<1>1. QED BY TypeInit, TypeStep, PTL DEF Spec, IType
-----------------------------------------------------------------------------
(* At most once *)

OnceInv == IType /\ NoJobTwice /\ OnlyRequested

LEMMA OnceInit == Init => OnceInv
BY TypeInit
   DEF Init, OnceInv, NoJobTwice, OnlyRequested, NoDuplicates, ListFind,
       WithRequester, WithThread, IsPending, IsRun

(* The step of each action that moves a job; the others leave all jobs     *)
(* where they are.                                                         *)
LEMMA WorkerOnce ==
    ASSUME OnceInv, NEW w \in Workers, Worker(w)
    PROVE  NoJobTwice' /\ OnlyRequested'
<1> USE DEF OnceInv, IType, TypeOK, LocalsOK, JobOrNone, GoWorker, NoJobTwice,
            OnlyRequested, WithRequester, WithThread, IsPending, IsRun,
            queues, calls, stop
<1>1. CASE Top(w) BY <1>1 DEF Top
<1>2. CASE Wait(w) BY <1>2 DEF Wait
<1>3. CASE Awake(w) BY <1>3 DEF Awake
<1>4. CASE TakeJob(w) BY <1>4 DEF TakeJob
<1>5. CASE FinishJob(w) BY <1>5 DEF FinishJob
<1>6. CASE PopPending(w)
  <2>1. CASE pending = <<>> BY <1>6, <2>1 DEF PopPending, ListPeek, ListRest
  <2>2. CASE pending # <<>>
    <3> DEFINE j == Head(pending)
               rest == ListRest(pending)
    <3>1. /\ j \in Jobs /\ IsPending(j) /\ NoDuplicates(rest) /\ ~ ListFind(rest, j)
          /\ \A k \in Jobs : ListFind(rest, k) => IsPending(k)
      BY <2>2, RestFacts, RestFind, RestNoDuplicates
    <3>2. pending' = rest /\ job' = [job EXCEPT ![w] = j]
      BY <1>6, <2>2 DEF PopPending, ListPeek
    <3> HIDE DEF j, rest
    <3>3. QED BY <1>6, <3>1, <3>2 DEF PopPending
  <2>3. QED BY <2>1, <2>2
<1>7. CASE Retire(w) BY <1>7 DEF Retire
<1>8. CASE Enlist(w) BY <1>8 DEF Enlist
<1>9. QED BY <1>1, <1>2, <1>3, <1>4, <1>5, <1>6, <1>7, <1>8 DEF Worker

LEMMA RequesterOnce ==
    ASSUME OnceInv, NEW r \in Requesters, Requester(r)
    PROVE  NoJobTwice' /\ OnlyRequested'
<1> USE DEF OnceInv, IType, TypeOK, LocalsOK, JobOrNone, GoRequester, NoJobTwice,
            OnlyRequested, WithRequester, WithThread, IsPending, IsRun,
            queues, threads, stop
<1>1. CASE \E j \in Jobs : Request(r, j) BY <1>1 DEF Request
<1>2. CASE PopFree(r) BY <1>2 DEF PopFree
<1>3. CASE CheckQuit(r) BY <1>3 DEF CheckQuit
<1>4. CASE Assign(r) BY <1>4 DEF Assign
<1>5. CASE Release(r) BY <1>5 DEF Release
<1>6. CASE PushExecuting(r) BY <1>6 DEF PushExecuting
<1>7. CASE Defer(r)
  <2> DEFINE j == request[r]
  <2>1. j \in Jobs /\ WithRequester(j) /\ ~ IsPending(j) BY <1>7 DEF Defer
  <2>2. /\ \/ pending' = pending
           \/ /\ NoDuplicates(pending')
              /\ \A k \in Jobs : ListFind(pending', k) <=> IsPending(k) \/ k = j
        /\ NoDuplicates(pending')
    BY <1>7, <2>1, PushFind, PushNoDuplicates DEF Defer, PushOn
  <2> HIDE DEF j
  <2>3. QED BY <1>7, <2>1, <2>2 DEF Defer, j
<1>8. CASE Kill(r) BY <1>8 DEF Kill
<1>9. CASE Signal(r) BY <1>9 DEF Signal
<1>10. QED
  BY <1>1, <1>2, <1>3, <1>4, <1>5, <1>6, <1>7, <1>8, <1>9 DEF Requester, Proceed

LEMMA TerminatorOnce ==
    ASSUME OnceInv, Terminate \/ Terminator
    PROVE  NoJobTwice' /\ OnlyRequested'
<1> USE DEF OnceInv, IType, TypeOK, LocalsOK, JobOrNone, GoTerminator, NoJobTwice,
            OnlyRequested, WithRequester, WithThread, IsPending, IsRun,
            queues, threads, calls
<1>1. CASE Terminate BY <1>1 DEF Terminate
<1>2. CASE PopVictim BY <1>2 DEF PopVictim
<1>3. CASE KillVictim BY <1>3 DEF KillVictim
<1>4. CASE SignalVictim BY <1>4 DEF SignalVictim
<1>5. CASE DropList BY <1>5 DEF DropList
<1>6. CASE FreeJobs BY <1>6 DEF FreeJobs, NoDuplicates, ListFind
<1>7. QED BY <1>1, <1>2, <1>3, <1>4, <1>5, <1>6 DEF Terminator

LEMMA OnceStep == OnceInv /\ [Next]_vars => OnceInv'
<1>1. ASSUME OnceInv, UNCHANGED vars PROVE NoJobTwice' /\ OnlyRequested'
  BY <1>1 DEF OnceInv, NoJobTwice, OnlyRequested, WithRequester, WithThread,
              IsPending, IsRun, vars, queues, threads, calls, stop
<1>2. OnceInv /\ [Next]_vars => IType'
  BY TypeStep DEF OnceInv
<1>3. QED
  BY <1>1, <1>2, WorkerOnce, RequesterOnce, TerminatorOnce DEF Next, OnceInv

(* No call of myrefl_thread_request is served twice, with any number of    *)
(* threads and calls, and even while the pool is being stopped.            *)
THEOREM AtMostOnce == Spec => []NoJobTwice
<1>1. QED BY OnceInit, OnceStep, PTL DEF Spec, OnceInv
-----------------------------------------------------------------------------
(* Idle threads, and jobs that are not lost *)

ServiceInv ==
    IType /\ ThreadsOK /\ FreeThreadsAreIdle /\ ReleaseNeverFails /\ NoJobLost

LEMMA ServiceInit == Init => ServiceInv
<1> SUFFICES ASSUME Init PROVE ServiceInv OBVIOUS
<1>2. IType BY TypeInit
<1>3. NoDuplicates(free) BY InitialFree DEF Init
<1>4. ThreadsOK BY DEF Init, ThreadsOK, Holds
<1>5. FreeThreadsAreIdle BY <1>3 DEF Init, FreeThreadsAreIdle, Holds
<1>6. ReleaseNeverFails /\ NoJobLost
  BY DEF Init, ReleaseNeverFails, NoJobLost, Holds
<1>7. QED BY <1>2, <1>4, <1>5, <1>6 DEF ServiceInv

(* A pool that is being stopped is out of service for good. *)
LEMMA OutOfService ==
    ASSUME IType', ~ InService'
    PROVE  ServiceInv'
BY DEF ServiceInv, ThreadsOK, FreeThreadsAreIdle, ReleaseNeverFails, NoJobLost

(* What the loss of a job depends on. *)
Places == <<request, job, pending, finished, requested, tpc>>

LEMMA NothingMoves ==
    ASSUME NoJobLost, UNCHANGED Places
    PROVE  NoJobLost'
BY DEF NoJobLost, InService, WithRequester, WithThread, IsPending, Places

LEMMA WorkerService ==
    ASSUME ServiceInv, NEW w \in Workers, Worker(w)
    PROVE  ServiceInv'
<1>1. IType' BY WorkerType DEF ServiceInv
<1>2. UNCHANGED tpc
  BY DEF Worker, Top, Wait, Awake, TakeJob, FinishJob, PopPending, Retire, Enlist, stop
<1>3. CASE ~ InService BY <1>1, <1>2, <1>3, OutOfService DEF InService
<1>4. CASE InService
  <2> USE <1>1, <1>4 DEF ServiceInv, ThreadsOK, FreeThreadsAreIdle,
          ReleaseNeverFails, Holds, JobOrNone, GoWorker, queues, calls, stop, IType, TypeOK, LocalsOK
  <2>1. CASE Top(w)
    <3>1. ThreadsOK' BY <2>1 DEF Top
    <3>2. FreeThreadsAreIdle' BY <2>1 DEF Top
    <3>3. ReleaseNeverFails' BY <2>1 DEF Top
    <3>4. NoJobLost' BY <2>1, NothingMoves DEF Top, Places
    <3>5. QED BY <3>1, <3>2, <3>3, <3>4
  <2>2. CASE Wait(w)
    <3>1. ThreadsOK' BY <2>2 DEF Wait
    <3>2. FreeThreadsAreIdle' BY <2>2 DEF Wait
    <3>3. ReleaseNeverFails' BY <2>2 DEF Wait
    <3>4. NoJobLost' BY <2>2, NothingMoves DEF Wait, Places
    <3>5. QED BY <3>1, <3>2, <3>3, <3>4
  <2>3. CASE Awake(w)
    <3>1. ThreadsOK' BY <2>3 DEF Awake
    <3>2. FreeThreadsAreIdle' BY <2>3 DEF Awake
    <3>3. ReleaseNeverFails' BY <2>3 DEF Awake
    <3>4. NoJobLost' BY <2>3, NothingMoves DEF Awake, Places
    <3>5. QED BY <3>1, <3>2, <3>3, <3>4
  <2>4. CASE TakeJob(w)
    <3>1. ThreadsOK' BY <2>4 DEF TakeJob
    <3>2. FreeThreadsAreIdle' BY <2>4 DEF TakeJob
    <3>3. ReleaseNeverFails' BY <2>4 DEF TakeJob
    <3>4. NoJobLost' BY <2>4, NothingMoves DEF TakeJob, Places
    <3>5. QED BY <3>1, <3>2, <3>3, <3>4
  <2>5. CASE FinishJob(w)
    <3>1. ThreadsOK' BY <2>5 DEF FinishJob
    <3>2. FreeThreadsAreIdle' BY <2>5 DEF FinishJob
    <3>3. ReleaseNeverFails' BY <2>5 DEF FinishJob
    <3>4. NoJobLost' BY <2>5 DEF FinishJob, NoJobLost, WithRequester, WithThread, IsPending
    <3>5. QED BY <3>1, <3>2, <3>3, <3>4
  <2>6. CASE PopPending(w)
    <3>1. /\ ListPeek(pending, None) \in JobOrNone
          /\ \A k \in Jobs : ListFind(pending, k) =>
                ListFind(ListRest(pending), k) \/ ListPeek(pending, None) = k
      <4>1. CASE pending = <<>> BY <4>1 DEF ListPeek, ListFind
      <4>2. CASE pending # <<>> BY <4>2, RestFacts, RestFind DEF ListPeek
      <4>3. QED BY <4>1, <4>2
    <3>2. ThreadsOK' BY <2>6 DEF PopPending
    <3>3. FreeThreadsAreIdle' BY <2>6 DEF PopPending
    <3>4. ReleaseNeverFails' BY <2>6 DEF PopPending
    <3>5. NoJobLost'
      <4>1. /\ job[w] = None
            /\ job' = [job EXCEPT ![w] = ListPeek(pending, None)]
            /\ pending' = ListRest(pending)
            /\ UNCHANGED <<request, requested, finished>>
        BY <2>6 DEF PopPending
      <4>2. \A k \in requested : WithThread(k) => WithThread(k)'
        BY <4>1 DEF WithThread
      <4>3. \A k \in requested : IsPending(k) => IsPending(k)' \/ WithThread(k)'
        BY <3>1, <4>1 DEF IsPending, WithThread
      <4>4. QED BY <4>1, <4>2, <4>3 DEF NoJobLost, WithRequester
    <3>6. QED BY <3>2, <3>3, <3>4, <3>5
  <2>7. CASE Retire(w)
    <3>1. ThreadsOK'
      <4>1. /\ wpc[w] = "retire" /\ job[w] = None
            /\ wpc' = [wpc EXCEPT ![w] = "enlist"]
            /\ UNCHANGED <<free, lists, job, quit, workToDo, runs, rpc, thread>>
        BY <2>7 DEF Retire
      <4>2. QED BY <4>1
    <3>2. FreeThreadsAreIdle' BY <2>7 DEF Retire
    <3>3. ReleaseNeverFails' BY <2>7 DEF Retire
    <3>4. NoJobLost' BY <2>7, NothingMoves DEF Retire, Places
    <3>5. QED BY <3>1, <3>2, <3>3, <3>4
  <2>8. CASE Enlist(w)
    <3>1. ~ ListFind(free, w) /\ free' = ListPush(free, w)
      BY <2>8 DEF Enlist, PushOn, ListNames
    <3>2. /\ NoDuplicates(free')
          /\ \A v \in Workers : ListFind(free', v) <=> ListFind(free, v) \/ v = w
      BY <3>1, PushFind, PushNoDuplicates
    <3>3. ThreadsOK' BY <2>8, <3>2 DEF Enlist
    <3>4. FreeThreadsAreIdle' BY <2>8, <3>2 DEF Enlist
    <3>5. ReleaseNeverFails' BY <2>8 DEF Enlist
    <3>6. NoJobLost' BY <2>8, NothingMoves DEF Enlist, Places
    <3>7. QED BY <3>3, <3>4, <3>5, <3>6
  <2>9. QED BY <2>1, <2>2, <2>3, <2>4, <2>5, <2>6, <2>7, <2>8 DEF Worker
<1>5. QED BY <1>3, <1>4

LEMMA RequesterService ==
    ASSUME ServiceInv, NEW r \in Requesters, Requester(r)
    PROVE  ServiceInv'
<1>1. IType' BY RequesterType DEF ServiceInv
<1>2. UNCHANGED tpc
  BY DEF Requester, Proceed, Request, PopFree, CheckQuit, Assign, Release,
         PushExecuting, Defer, Kill, Signal, stop
<1>3. CASE ~ InService BY <1>1, <1>2, <1>3, OutOfService DEF InService
<1>4. CASE InService
  <2> USE <1>1, <1>4 DEF ServiceInv, ThreadsOK, FreeThreadsAreIdle,
          ReleaseNeverFails, Holds, JobOrNone, GoRequester, queues, threads, stop, IType, TypeOK,
          LocalsOK
  <2>1. CASE \E j \in Jobs : Request(r, j)
    <3>1. PICK j \in Jobs : Request(r, j) BY <2>1
    <3>2. ThreadsOK' BY <3>1 DEF Request
    <3>3. FreeThreadsAreIdle' BY <3>1 DEF Request
    <3>4. ReleaseNeverFails' BY <3>1 DEF Request
    <3>5. NoJobLost'
      <4>1. /\ request[r] = None /\ request' = [request EXCEPT ![r] = j]
            /\ requested' = requested \cup {j}
            /\ UNCHANGED <<job, pending, finished>>
        BY <3>1 DEF Request
      <4>2. \A k \in requested : WithRequester(k) => WithRequester(k)'
        BY <4>1 DEF WithRequester
      <4>3. WithRequester(j)' BY <4>1 DEF WithRequester
      <4>4. QED BY <4>1, <4>2, <4>3 DEF NoJobLost, WithThread, IsPending
    <3>6. QED BY <3>2, <3>3, <3>4, <3>5
  <2>2. CASE PopFree(r)
    <3>1. CASE free = <<>>
      <4>1. /\ free' = <<>> /\ thread' = [thread EXCEPT ![r] = None]
            /\ rpc' = [rpc EXCEPT ![r] = "defer"]
        BY <2>2, <3>1 DEF PopFree, ListPeek, ListRest
      <4>2. ThreadsOK' BY <2>2, <3>1, <4>1 DEF PopFree
      <4>3. FreeThreadsAreIdle' BY <2>2, <3>1, <4>1 DEF PopFree
      <4>4. ReleaseNeverFails' BY <2>2, <3>1, <4>1 DEF PopFree
      <4>5. NoJobLost' BY <2>2, NothingMoves DEF PopFree, Places
      <4>6. QED BY <4>2, <4>3, <4>4, <4>5
    <3>2. CASE free # <<>>
      <4> DEFINE w == Head(free)
                 rest == ListRest(free)
      <4>1. /\ w \in Workers /\ ListFind(free, w) /\ ~ ListFind(rest, w)
            /\ NoDuplicates(rest)
            /\ \A v \in Workers : ListFind(rest, v) => ListFind(free, v)
        BY <3>2, RestFacts, RestFind, RestNoDuplicates
      <4>2. /\ free' = rest
            /\ thread' = [thread EXCEPT ![r] = w]
            /\ rpc' = [rpc EXCEPT ![r] = "check"]
        BY <2>2, <3>2 DEF PopFree, ListPeek
      <4> HIDE DEF w, rest
      <4>3. ThreadsOK' BY <2>2, <4>1, <4>2 DEF PopFree
      <4>4. FreeThreadsAreIdle' BY <2>2, <4>1, <4>2 DEF PopFree
      <4>5. ReleaseNeverFails' BY <2>2, <4>1, <4>2 DEF PopFree
      <4>6. NoJobLost' BY <2>2, NothingMoves DEF PopFree, Places
      <4>7. QED BY <4>3, <4>4, <4>5, <4>6
    <3>3. QED BY <3>1, <3>2
  <2>3. CASE CheckQuit(r)
    <3>1. ThreadsOK' BY <2>3 DEF CheckQuit
    <3>2. FreeThreadsAreIdle' BY <2>3 DEF CheckQuit
    <3>3. ReleaseNeverFails' BY <2>3 DEF CheckQuit
    <3>4. NoJobLost' BY <2>3, NothingMoves DEF CheckQuit, Places
    <3>5. QED BY <3>1, <3>2, <3>3, <3>4
  <2>4. CASE Assign(r)
    <3> DEFINE w == thread[r]
    <3>0. /\ w \in Workers /\ Holds(r, w) /\ wpc[w] \in {"top", "wait"}
          /\ job' = [job EXCEPT ![w] = request[r]]
          /\ \A s \in Requesters \ {r} : ~ Holds(s, w)
      BY <2>4 DEF Assign
    <3> HIDE DEF w
    <3>1. ThreadsOK' BY <2>4, <3>0 DEF Assign
    <3>2. FreeThreadsAreIdle' /\ ReleaseNeverFails' BY <2>4 DEF Assign
    <3>3. NoJobLost' BY <2>4, <3>0 DEF Assign, NoJobLost, WithRequester, WithThread, IsPending
    <3>4. QED BY <3>1, <3>2, <3>3
  <2>5. CASE Release(r)
    <3>1. ThreadsOK' BY <2>5 DEF Release
    <3>2. FreeThreadsAreIdle' BY <2>5 DEF Release
    <3>3. ReleaseNeverFails' BY <2>5 DEF Release
    <3>4. NoJobLost' BY <2>5, NothingMoves DEF Release, Places
    <3>5. QED BY <3>1, <3>2, <3>3, <3>4
  <2>6. CASE PushExecuting(r)
    <3>1. ThreadsOK' BY <2>6 DEF PushExecuting
    <3>2. FreeThreadsAreIdle' BY <2>6 DEF PushExecuting
    <3>3. ReleaseNeverFails' BY <2>6 DEF PushExecuting
    <3>4. NoJobLost' BY <2>6, NothingMoves DEF PushExecuting, Places
    <3>5. QED BY <3>1, <3>2, <3>3, <3>4
  <2>7. CASE Defer(r)
    <3>1. request[r] \in Jobs /\ pending' = ListPush(pending, request[r])
      BY <2>7 DEF Defer, PushOn, ListNames
    <3>2. \A k \in Jobs : ListFind(pending', k) <=> ListFind(pending, k) \/ k = request[r]
      BY <3>1, PushFind
    <3>3. ThreadsOK' /\ FreeThreadsAreIdle' /\ ReleaseNeverFails'
      BY <2>7 DEF Defer
    <3>4. /\ request' = [request EXCEPT ![r] = None]
          /\ UNCHANGED <<job, requested, finished>> /\ (InService' => InService)
      BY <2>7 DEF Defer, InService
    <3>5. \A j : WithThread(j)' <=> WithThread(j) BY <3>4 DEF WithThread
    <3>6. \A j : WithRequester(j) => WithRequester(j)' \/ j = request[r]
      BY <3>4 DEF WithRequester
    <3>7. NoJobLost' BY <3>1, <3>2, <3>4, <3>5, <3>6 DEF NoJobLost, IsPending
    <3>8. QED BY <3>3, <3>7
  <2>8. CASE Kill(r) BY <2>8 DEF Kill
  <2>9. CASE Signal(r) BY <2>9 DEF Signal
  <2>10. QED
    BY <2>1, <2>2, <2>3, <2>4, <2>5, <2>6, <2>7, <2>8, <2>9 DEF Requester, Proceed
<1>5. QED BY <1>3, <1>4

LEMMA ServiceStep == ServiceInv /\ [Next]_vars => ServiceInv'
<1>1. ASSUME ServiceInv, UNCHANGED vars PROVE ServiceInv'
  <2>1. IType' BY <1>1, TypeStep DEF ServiceInv
  <2>2. QED
    BY <1>1, <2>1 DEF ServiceInv, ThreadsOK, FreeThreadsAreIdle, ReleaseNeverFails,
        NoJobLost, InService, WithRequester, WithThread, IsPending, Holds,
        vars, queues, threads, calls, stop
<1>2. ASSUME ServiceInv, Terminate \/ Terminator PROVE ServiceInv'
  <2>1. IType' BY <1>2, TerminatorType DEF ServiceInv
  <2>2. ~ InService'
    BY <1>2 DEF InService, Terminate, Terminator, PopVictim, KillVictim,
                SignalVictim, DropList, FreeJobs, GoTerminator
  <2>3. QED BY <2>1, <2>2, OutOfService
<1>3. QED BY <1>1, <1>2, WorkerService, RequesterService DEF Next

(* While the pool is in service, a thread on the free list is idle and     *)
(* nobody else's: what lets myrefl_thread_request write to it unlocked.    *)
THEOREM FreeIdle == Spec => []FreeThreadsAreIdle
<1>1. QED BY ServiceInit, ServiceStep, PTL DEF Spec, ServiceInv

(* While the pool is in service no release fails, so no thread is killed   *)
(* and the branch of myrefl_thread_request that drops its job is not taken. *)
THEOREM NoFailedRelease == Spec => []ReleaseNeverFails
<1>1. QED BY ServiceInit, ServiceStep, PTL DEF Spec, ServiceInv

(* While the pool is in service every call is with its caller, pending,    *)
(* with a thread, or executed.                                             *)
THEOREM NothingLost == Spec => []NoJobLost
<1>1. QED BY ServiceInit, ServiceStep, PTL DEF Spec, ServiceInv

-----------------------------------------------------------------------------
(* Refinement *)

LEMMA PromiseInit == Init => Promise!Init
BY DEF Init, Promise!Init

LEMMA PromiseStep == OnceInv /\ OnceInv' /\ [Next]_vars => [Promise!Next]_Promise!vars
<1> DEFINE waits == requested \ (finished \cup {runs[w] : w \in Workers})
<1>1. SUFFICES ASSUME OnceInv, OnceInv', [Next]_vars
               PROVE  [Promise!Next]_Promise!vars
  OBVIOUS
<1> USE <1>1 DEF OnceInv, IType, TypeOK, LocalsOK, JobOrNone
<1>2. ASSUME UNCHANGED <<requested, finished, runs>>
      PROVE  UNCHANGED Promise!vars
  BY <1>2 DEF Promise!vars
<1>3. ASSUME NEW r \in Requesters, NEW j \in Jobs, Request(r, j)
      PROVE  Promise!Next
  <2>1. Promise!Submit(j)
    BY <1>3 DEF Request, threads, Promise!Submit, Promise!IsRunning, OnlyRequested, IsRun
  <2>2. QED BY <2>1 DEF Promise!Next
<1>4. ASSUME NEW w \in Workers, TakeJob(w), job[w] # None
      PROVE  Promise!Next
  <2>1. PICK j \in Jobs : j = job[w] BY <1>4
  <2>2. /\ j \in requested /\ j \notin finished
        /\ \A v \in Workers : runs[v] # j
        /\ runs[w] = None
    BY <1>4, <2>1 DEF TakeJob, GoWorker, OnlyRequested, NoJobTwice, WithThread, IsRun
  <2>3. runs' = [runs EXCEPT ![w] = j] /\ UNCHANGED <<requested, finished>>
    BY <1>4, <2>1 DEF TakeJob, calls
  <2>4. waits' = waits \ {j} BY <2>2, <2>3
  <2>5. Promise!Start(w, j) BY <2>2, <2>3, <2>4 DEF Promise!Start
  <2>6. QED BY <2>5 DEF Promise!Next
<1>5. ASSUME NEW w \in Workers, FinishJob(w)
      PROVE  Promise!Next
  <2>1. runs[w] # None /\ runs[w] \in Jobs BY <1>5 DEF FinishJob, GoWorker
  <2>2. /\ runs' = [runs EXCEPT ![w] = None]
        /\ finished' = finished \cup {runs[w]} /\ requested' = requested
    BY <1>5 DEF FinishJob, calls
  <2>3. waits' = waits BY <2>1, <2>2
  <2>4. Promise!Finish(w) BY <2>1, <2>2, <2>3 DEF Promise!Finish
  <2>5. \E v \in Workers : Promise!Finish(v) BY <2>4
  <2>6. QED BY <2>5, Zenon DEF Promise!Next
<1>6. ASSUME NEW w \in Workers, Worker(w), ~ FinishJob(w),
             ~ (TakeJob(w) /\ job[w] # None)
      PROVE  UNCHANGED <<requested, finished, runs>>
  <2>1. CASE TakeJob(w)
    <3>1. runs[w] = None /\ job[w] = None BY <1>6, <2>1 DEF TakeJob, GoWorker
    <3>2. QED BY <2>1, <3>1 DEF TakeJob, calls
  <2>2. QED
    BY <1>6, <2>1 DEF Worker, Top, Wait, Awake, PopPending, Retire, Enlist, calls
<1>7. ASSUME NEW r \in Requesters, Proceed(r)
      PROVE  UNCHANGED <<requested, finished, runs>>
  BY <1>7 DEF Proceed, PopFree, CheckQuit, Assign, Release, PushExecuting, Defer,
              Kill, Signal, threads
<1>8. ASSUME Terminate \/ Terminator
      PROVE  UNCHANGED <<requested, finished, runs>>
  BY <1>8 DEF Terminate, Terminator, PopVictim, KillVictim, SignalVictim, DropList,
              FreeJobs, calls, threads
<1>9. UNCHANGED vars => UNCHANGED <<requested, finished, runs>>
  BY DEF vars, calls, threads
<1>10. QED
  BY <1>2, <1>3, <1>4, <1>5, <1>6, <1>7, <1>8, <1>9 DEF Next, Requester

(* The pool keeps what JobPool promises: a job is run at most once, by one *)
(* thread, one at a time; stopping the pool breaks nothing of that.        *)
THEOREM Refinement == Spec => RefinesJobPool
<1>1. Spec => []OnceInv BY OnceInit, OnceStep, PTL DEF Spec
<1>2. QED
  BY <1>1, PromiseInit, PromiseStep, PTL DEF Spec, RefinesJobPool, Promise!Spec
=============================================================================
