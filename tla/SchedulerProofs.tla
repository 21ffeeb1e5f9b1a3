-------------------------- MODULE SchedulerProofs --------------------------
(* Theorems about Scheduler, for any tests, periods and number of calls.   *)
EXTENDS Scheduler, MyreflListProofs, FiniteSetTheorems

USE TestsAssumption, TimesAssumption

-----------------------------------------------------------------------------
(* The queues and the timer *)

QueuesType ==
    /\ queue \in [QueueNames -> Seq(Tests)]
    /\ queued \in [Tests -> QueueNames \cup {"none"}]
    /\ due \in [Tests -> Int]

WakeupType ==
    /\ timer \in Nat
    /\ signal \in BOOLEAN /\ workToDo \in BOOLEAN
    /\ spc \in {"check", "wait"}

(* A test that is inserted goes to a place on the list. *)
LEMMA EarlierRange ==
    ASSUME NEW list \in Seq(Tests), NEW ds, NEW d
    PROVE  Earlier(list, ds, d) \in 0..Len(list)
<1> DEFINE P == {n \in 1..Len(list) : \A i \in 1..n : ds[list[i]] <= d}
<1>1. Len(list) \in Nat OBVIOUS
<1>2. /\ IsFiniteSet(1..Len(list))
      /\ Cardinality(1..Len(list)) = Len(list)
  BY <1>1, FS_Interval
<1>3. P \in SUBSET (1..Len(list))
  <2>1. P \subseteq 1..Len(list) OBVIOUS
  <2>2. QED BY <2>1
<1> HIDE DEF P
<1>4. IsFiniteSet(P) /\ Cardinality(P) <= Len(list)
  <2>1. IsFiniteSet(P) /\ Cardinality(P) <= Cardinality(1..Len(list))
    BY <1>2, <1>3, FS_Subset, Zenon
  <2>2. QED BY <2>1, <1>2
<1>5. Cardinality(P) \in Nat BY <1>4, FS_CardinalityType
<1>6. Cardinality(P) \in 0..Len(list) BY <1>1, <1>4, <1>5
<1>7. QED BY <1>6 DEF Earlier, P

LEMMA HeadTimesType ==
    ASSUME NEW qs \in [QueueNames -> Seq(Tests)], NEW ds \in [Tests -> Int]
    PROVE  HeadTimes(qs, ds) \subseteq Int
<1>1. \A q \in QueueNames : qs[q] # <<>> => Head(qs[q]) \in Tests OBVIOUS
<1>2. QED BY <1>1 DEF HeadTimes

(* After check_test_start_timer the wakeup is armed, whatever was before:  *)
(* the thread is released, or the timer expires once a test is due.        *)
LEMMA TimerArmed ==
    ASSUME QueuesType', WakeupType,
           CheckTestStartTimer(queue', due'), UNCHANGED <<signal, spc>>
    PROVE  WakeupType' /\ WakeupArmed'
<1> DEFINE H == HeadTimes(queue', due')
<1>1. H \subseteq Int BY HeadTimesType DEF QueuesType
<1>2. HeadTimes(queue, due)' = H BY DEF HeadTimes
<1> HIDE DEF H
<1>3. CASE H = {} /\ UNCHANGED <<timer, workToDo>>
  BY <1>2, <1>3 DEF WakeupType, WakeupArmed
<1>4. CASE \E soonest \in H :
             /\ \A d \in H : soonest <= d
             /\ IF soonest < 0
                THEN workToDo' = TRUE /\ UNCHANGED timer
                ELSE timer' = soonest + Padding /\ UNCHANGED workToDo
  <2>1. PICK soonest \in H :
             /\ \A d \in H : soonest <= d
             /\ IF soonest < 0
                THEN workToDo' = TRUE /\ UNCHANGED timer
                ELSE timer' = soonest + Padding /\ UNCHANGED workToDo
    BY <1>4
  <2>2. CASE soonest < 0 BY <2>1, <2>2 DEF WakeupType, WakeupArmed
  <2>3. CASE ~ (soonest < 0)
    <3>1. soonest \in Nat BY <1>1, <2>3
    <3>2. timer' = soonest + 1 /\ workToDo' = workToDo
      BY <2>1, <2>3 DEF Padding
    <3>3. \A d \in H : timer' <= d + 1 BY <1>1, <2>1, <3>1, <3>2
    <3>4. timer' > 0 /\ timer' \in Nat BY <3>1, <3>2
    <3>5. QED BY <1>2, <3>2, <3>3, <3>4 DEF WakeupType, WakeupArmed, Padding
  <2>4. QED BY <2>2, <2>3
<1>5. QED BY <1>3, <1>4 DEF CheckTestStartTimer, H

(* What a handler that only touches t does to the queues and the timer. *)
Touch(t) ==
    /\ QueuesType' /\ WakeupType'
    /\ WakeupArmed => WakeupArmed'
    /\ \A s \in Tests \ {t} : queued'[s] = queued[s]

LEMMA TouchNothing ==
    ASSUME NEW t \in Tests, QueuesType, WakeupType, UNCHANGED <<queues, wakeup>>
    PROVE  Touch(t) /\ queued'[t] = queued[t]
BY DEF Touch, QueuesType, WakeupType, queues, wakeup, WakeupArmed, HeadTimes

LEMMA WithoutType ==
    ASSUME NEW t \in Tests, QueuesType
    PROVE  Without(t) \in [QueueNames -> Seq(Tests)]
<1>1. \A q \in QueueNames : ListRemove(queue[q], t) \in Seq(Tests)
  BY RemoveType DEF QueuesType
<1>2. QED BY <1>1 DEF Without, QueuesType

(* A list, with t inserted where it is or to a place of it *)
LEMMA InsertType ==
    ASSUME NEW list \in Seq(Tests), NEW n \in 0..Len(list), NEW t \in Tests
    PROVE  ListInsert(list, n, t) \in Seq(Tests)
<1>1. CASE ListFind(list, t) BY <1>1 DEF ListInsert
<1>2. CASE ~ ListFind(list, t) BY <1>2, InsertFacts
<1>3. QED BY <1>1, <1>2

LEMMA PlaceTouches ==
    ASSUME NEW t \in Tests, NEW q \in QueueNames, NEW d \in Int,
           QueuesType, WakeupType, Place(t, q, d)
    PROVE  Touch(t) /\ queued'[t] = q
<1> DEFINE rest == Without(t)
           list == IF q = "user"
                   THEN ListInsert(rest[q], Earlier(rest[q], due', d), t)
                   ELSE ListPush(rest[q], t)
<1>1. rest \in [QueueNames -> Seq(Tests)] BY WithoutType
<1>2. queue' = [rest EXCEPT ![q] = list] BY DEF Place
<1>3. /\ due' = [due EXCEPT ![t] = d]
      /\ queued' = [queued EXCEPT ![t] = q]
      /\ CheckTestStartTimer(queue', due')
      /\ UNCHANGED <<signal, spc>>
  BY DEF Place
<1> HIDE DEF rest
<1>4. list \in Seq(Tests)
  <2>1. rest[q] \in Seq(Tests) BY <1>1
  <2>2. Earlier(rest[q], due', d) \in 0..Len(rest[q]) BY <2>1, EarlierRange
  <2>3. ListInsert(rest[q], Earlier(rest[q], due', d), t) \in Seq(Tests)
    BY <2>1, <2>2, InsertType
  <2>4. ListPush(rest[q], t) \in Seq(Tests) BY <2>1, PushFacts
  <2>5. QED BY <2>3, <2>4
<1> HIDE DEF list
<1>5. QueuesType' BY <1>1, <1>2, <1>3, <1>4 DEF QueuesType
<1>6. WakeupType' /\ WakeupArmed' BY <1>3, <1>5, TimerArmed
<1>7. QED BY <1>3, <1>5, <1>6 DEF Touch, QueuesType

LEMMA RemoveTouches ==
    ASSUME NEW t \in Tests, QueuesType, WakeupType, RemoveTest(t)
    PROVE  Touch(t) /\ queued'[t] = "none"
<1>1. Without(t) \in [QueueNames -> Seq(Tests)] BY WithoutType
<1>2. QueuesType' BY <1>1 DEF RemoveTest, QueuesType
<1>3. CheckTestStartTimer(queue', due') /\ UNCHANGED <<signal, spc>>
  BY DEF RemoveTest
<1>4. WakeupType' /\ WakeupArmed' BY <1>2, <1>3, TimerArmed
<1>5. QED BY <1>2, <1>4 DEF Touch, RemoveTest, QueuesType

(* A test is added if it is enabled; a polled one is then queued. *)
LEMMA AddTouches ==
    ASSUME NEW t \in Tests, QueuesType, WakeupType, AddTest(t),
           period'[t] \in Periods
    PROVE  /\ Touch(t)
           /\ state'[t] # "enabled" => queued'[t] = queued[t]
           /\ state'[t] = "enabled" /\ t \in Polled => queued'[t] # "none"
<1> DEFINE wanted == IF t \in Polled THEN QueueFor(period'[t]) ELSE "user"
           delay == IF t \in Polled THEN period'[t] ELSE Autopass
           ignored == \/ state'[t] # "enabled"
                      \/ t \in Notified /\ ~ (t \in Autopassed /\ lastResult'[t] = "fail")
                      \/ queued[t] = wanted /\ wanted # "user"
<1>1. wanted \in QueueNames /\ wanted # "none" BY DEF QueueFor, QueueNames
<1>2. delay \in Int
  <2>1. period'[t] \in Nat BY Zenon DEF TimesAssumption
  <2>2. QED BY <2>1
<1>3. CASE ignored
  <2>1. UNCHANGED <<queues, wakeup>> BY <1>3 DEF AddTest
  <2>2. Touch(t) /\ queued'[t] = queued[t] BY <2>1, TouchNothing
  <2>3. QED BY <2>2, <1>1, <1>3
<1>4. CASE ~ ignored
  <2>1. Place(t, wanted, delay) BY <1>4 DEF AddTest
  <2> HIDE DEF wanted, delay
  <2>2. Touch(t) /\ queued'[t] = wanted BY <1>1, <1>2, <2>1, PlaceTouches
  <2>3. QED BY <1>1, <1>4, <2>2
<1>5. QED BY <1>3, <1>4

LEMMA AddIfPolledTouches ==
    ASSUME NEW t \in Tests, QueuesType, WakeupType, AddIfPolled(t),
           period'[t] \in Periods
    PROVE  /\ Touch(t)
           /\ state'[t] # "enabled" => queued'[t] = queued[t]
           /\ state'[t] = "enabled" /\ t \in Polled => queued'[t] # "none"
<1>1. CASE t \in Polled BY <1>1, AddTouches DEF AddIfPolled
<1>2. CASE t \notin Polled BY <1>2, TouchNothing DEF AddIfPolled
<1>3. QED BY <1>1, <1>2

LEMMA RemoveIfPolledTouches ==
    ASSUME NEW t \in Tests, QueuesType, WakeupType, RemoveIfPolled(t)
    PROVE  Touch(t) /\ queued'[t] \in {queued[t], "none"}
<1>1. CASE t \in Polled BY <1>1, RemoveTouches DEF RemoveIfPolled
<1>2. CASE t \notin Polled BY <1>2, TouchNothing DEF RemoveIfPolled
<1>3. QED BY <1>1, <1>2

-----------------------------------------------------------------------------
(* The inductive invariant *)

ConfigType ==
    /\ state \in [Tests -> States]
    /\ defaultState \in [Tests -> {"unset", "enabled", "disabled"}]
    /\ cliState \in [Tests -> {"unset", "enabled", "disabled"}]
    /\ period \in [Tests -> Periods] /\ defaultPeriod \in [Tests -> Periods]

ResultsType ==
    /\ lastResult \in [Tests -> Results]
    /\ jobs \in [Tests -> [JobKinds -> Nat]]
    /\ owed \subseteq Tests
    /\ calls \in 0..MaxCalls

(* DeletedNotQueued and PolledIsScheduled, of one test *)
FineAt(t) ==
    t \notin Members =>
        /\ Exists(t) \/ queued[t] = "none"
        /\ t \in Polled /\ state[t] = "enabled" /\ cliState[t] # "enabled" =>
              queued[t] # "none" \/ jobs[t]["run"] > 0 \/ t \in owed

IInv ==
    /\ QueuesType /\ WakeupType /\ ConfigType /\ ResultsType
    /\ WakeupArmed
    /\ \A t \in Tests : FineAt(t)

LEMMA Split ==
    /\ IInv <=> TypeOK /\ DeletedNotQueued /\ WakeupArmed /\ PolledIsScheduled
BY DEF IInv, TypeOK, QueuesType, WakeupType, ConfigType, ResultsType, FineAt,
       DeletedNotQueued, PolledIsScheduled, Tests

LEMMA Initially == Init => IInv
<1> SUFFICES ASSUME Init PROVE IInv OBVIOUS
<1>1. QueuesType BY EmptySeq DEF Init, QueuesType
<1>2. WakeupType /\ WakeupArmed BY DEF Init, WakeupType, WakeupArmed
<1>3. ConfigType BY DEF Init, ConfigType, States
<1>4. ResultsType BY CallsAssumption DEF Init, ResultsType, Results
<1>5. \A t \in Tests : FineAt(t) BY DEF Init, FineAt, Exists
<1>6. QED BY <1>1, <1>2, <1>3, <1>4, <1>5 DEF IInv

(* Nothing is said of another test *)
Apart(t) ==
    \A s \in Tests \ {t} :
        /\ state'[s] = state[s] /\ cliState'[s] = cliState[s]
        /\ jobs'[s] = jobs[s]
        /\ s \in owed <=> s \in owed'

(* A handler that touches t only, and leaves it fine, keeps the invariant. *)
LEMMA Preserved ==
    ASSUME IInv, NEW t \in Tests, Touch(t), Apart(t),
           ConfigType', ResultsType', FineAt(t)'
    PROVE  IInv'
<1>1. ASSUME NEW s \in Tests \ {t} PROVE FineAt(s)'
  <2>1. FineAt(s) BY DEF IInv
  <2>2. /\ state'[s] = state[s] /\ cliState'[s] = cliState[s]
        /\ jobs'[s] = jobs[s] /\ queued'[s] = queued[s]
        /\ s \in owed <=> s \in owed'
    BY DEF Touch, Apart
  <2>3. QED BY <2>1, <2>2 DEF FineAt, Exists
<1>2. \A s \in Tests : FineAt(s)' BY <1>1
<1>3. QED BY <1>2 DEF IInv, Touch

-----------------------------------------------------------------------------
(* The scheduler thread, the timer and the sequencer *)

LEMMA WakeStep == ASSUME IInv, Wake PROVE IInv'
BY DEF IInv, Wake, QueuesType, WakeupType, ConfigType, ResultsType, WakeupArmed,
       FineAt, Exists, queues, config, results

LEMMA DequeueStep ==
    ASSUME IInv, NEW q \in QueueNames, Dequeue(q)
    PROVE  IInv'
<1>1. queue[q] \in Seq(Tests) /\ queue[q] # <<>> BY DEF IInv, QueuesType, Dequeue
<1>2. Tail(queue[q]) \in Seq(Tests) /\ Head(queue[q]) \in Tests BY <1>1
<1> PICK t \in Tests : t = Head(queue[q]) BY <1>2
<1> DEFINE kind == IF t \in Polled THEN "run"
                   ELSE IF queued[t] = "user" THEN "pass" ELSE "rci"
<1>3. queue' = [queue EXCEPT ![q] = Tail(@)] BY DEF Dequeue
<1>4. /\ queued' = [queued EXCEPT ![t] = "none"]
      /\ \/ Exists(t) /\ jobs' = [jobs EXCEPT ![t][kind] = @ + 1]
         \/ ~ Exists(t) /\ UNCHANGED jobs
  BY DEF Dequeue, AddJob
<1>5. UNCHANGED <<due, wakeup, config, lastResult, owed, calls>> /\ spc = "check"
  BY DEF Dequeue
<1>6. kind \in JobKinds /\ (t \in Polled => kind = "run") BY DEF JobKinds
<1> HIDE DEF kind
<1>7. QueuesType' BY <1>2, <1>3, <1>4, <1>5 DEF IInv, QueuesType
<1>8. WakeupType' /\ WakeupArmed' BY <1>5 DEF IInv, WakeupType, WakeupArmed, wakeup
<1>9. ConfigType' BY <1>5 DEF IInv, ConfigType, config
<1>10. ResultsType'
  <2>1. jobs \in [Tests -> [JobKinds -> Nat]] /\ jobs[t][kind] \in Nat
    BY <1>6 DEF IInv, ResultsType
  <2>2. jobs' \in [Tests -> [JobKinds -> Nat]] BY <1>4, <1>6, <2>1
  <2>3. QED BY <1>5, <2>2 DEF IInv, ResultsType
<1>11. ASSUME NEW s \in Tests PROVE FineAt(s)'
  <2>1. FineAt(s) BY DEF IInv
  <2>2. /\ state'[s] = state[s] /\ cliState'[s] = cliState[s]
        /\ s \in owed <=> s \in owed'
    BY <1>5 DEF config
  <2>3. CASE s # t
    <3>1. queued'[s] = queued[s] /\ jobs'[s] = jobs[s]
      BY <1>2, <1>4, <2>3 DEF IInv, QueuesType, ResultsType
    <3>2. QED BY <2>1, <2>2, <3>1 DEF FineAt, Exists
  <2>4. CASE s = t /\ ~ Exists(t)
    <3>1. state'[t] = "none" /\ queued'[t] = "none"
      BY <1>4, <2>2, <2>4 DEF Exists, IInv, QueuesType
    <3>2. QED BY <2>4, <3>1 DEF FineAt
  <2>5. CASE s = t /\ Exists(t)
    <3>1. Exists(t)' BY <2>2, <2>5 DEF Exists
    <3>2. t \in Polled => jobs'[t]["run"] > 0
      BY <1>2, <1>4, <1>6, <2>5 DEF IInv, ResultsType
    <3>3. QED BY <2>5, <3>1, <3>2 DEF FineAt
  <2>6. QED BY <2>3, <2>4, <2>5
<1>12. QED BY <1>7, <1>8, <1>9, <1>10, <1>11 DEF IInv

LEMMA EndCheckStep == ASSUME IInv, EndCheck PROVE IInv'
<1> DEFINE H == HeadTimes(queue, due)
<1>1. H \subseteq Int BY HeadTimesType DEF IInv, QueuesType
<1>2. /\ \A d \in H : d >= 0
      /\ CheckTestStartTimer(queue, due)
      /\ spc' = "wait"
      /\ UNCHANGED <<queues, signal, config, results, calls>>
  BY DEF EndCheck
<1>3. HeadTimes(queue, due)' = H BY <1>2 DEF queues, HeadTimes
<1> HIDE DEF H
<1>4. WakeupType' /\ WakeupArmed'
  <2>1. CASE H = {} /\ UNCHANGED <<timer, workToDo>>
    BY <2>1, <1>2, <1>3 DEF IInv, WakeupType, WakeupArmed
  <2>2. CASE \E soonest \in H :
                /\ \A d \in H : soonest <= d
                /\ IF soonest < 0
                   THEN workToDo' = TRUE /\ UNCHANGED timer
                   ELSE timer' = soonest + Padding /\ UNCHANGED workToDo
    <3>1. PICK soonest \in H :
                /\ \A d \in H : soonest <= d
                /\ timer' = soonest + 1 /\ UNCHANGED workToDo
      BY <1>1, <1>2, <2>2 DEF Padding
    <3>2. soonest \in Nat BY <1>1, <1>2, <3>1
    <3>3. timer' \in Nat /\ timer' > 0 /\ \A d \in H : timer' <= d + 1
      BY <1>1, <3>1, <3>2
    <3>4. QED BY <1>2, <1>3, <3>1, <3>3 DEF IInv, WakeupType, WakeupArmed, Padding
  <2>3. QED BY <1>2, <2>1, <2>2 DEF CheckTestStartTimer, H
<1>5. QED
  BY <1>2, <1>4 DEF IInv, QueuesType, ConfigType, ResultsType, FineAt, Exists,
                    queues, config, results

LEMMA TickStep == ASSUME IInv, Tick PROVE IInv'
<1>1. /\ spc = "wait" /\ spc' = "wait"
      /\ due' = [t \in Tests |-> IF due[t] < 0 THEN due[t] ELSE due[t] - 1]
      /\ timer' = IF timer = 0 THEN 0 ELSE timer - 1
      /\ signal' = (signal \/ timer = 1)
      /\ UNCHANGED <<queue, queued, workToDo, config, results, calls>>
  BY DEF Tick, Unlocked, IInv, WakeupType
<1>2. QueuesType' BY <1>1 DEF IInv, QueuesType
<1>3. WakeupType'
  <2>1. timer \in Nat /\ timer' \in Nat BY <1>1 DEF IInv, WakeupType
  <2>2. signal' \in BOOLEAN BY <1>1 DEF IInv, WakeupType
  <2>3. QED BY <1>1, <2>1, <2>2 DEF IInv, WakeupType
<1>4. WakeupArmed'
  <2> DEFINE N == {p \in QueueNames : queue[p] # <<>>}
             h(q) == Head(queue[q])
  <2>1. /\ HeadTimes(queue, due) = {due[h(q)] : q \in N}
        /\ HeadTimes(queue', due') = {due'[h(q)] : q \in N}
    BY <1>1 DEF HeadTimes
  <2>2. \A q \in N : h(q) \in Tests BY DEF IInv, QueuesType
  <2>3. timer \in Nat /\ due \in [Tests -> Int]
    BY DEF IInv, WakeupType, QueuesType
  <2>4. HeadTimes(queue, due)' = HeadTimes(queue', due') BY DEF HeadTimes
  <2> HIDE DEF N, h
  <2>5. SUFFICES ASSUME N # {}
                 PROVE  \/ workToDo'
                        \/ signal' /\ timer' = 0
                        \/ timer' > 0 /\ \A q \in N : timer' <= due'[h(q)] + 1
    BY <2>1, <2>4 DEF WakeupArmed, Padding
  <2>6. \/ workToDo
        \/ signal /\ timer = 0
        \/ timer > 0 /\ \A q \in N : timer <= due[h(q)] + 1
    BY <1>1, <2>1, <2>5 DEF IInv, WakeupArmed, Padding
  <2>7. CASE workToDo BY <1>1, <2>7
  <2>8. CASE signal /\ timer = 0 BY <1>1, <2>8
  <2>9. CASE timer > 0 /\ \A q \in N : timer <= due[h(q)] + 1
    <3>1. CASE timer = 1
      <4>1. signal' BY <1>1, <3>1, Zenon
      <4>2. timer' = 0 BY <1>1, <3>1
      <4>3. QED BY <4>1, <4>2
    <3>2. CASE timer > 1
      <4>1. timer' = timer - 1 /\ timer' > 0 BY <1>1, <2>3, <3>2
      <4>2. ASSUME NEW q \in N PROVE timer' <= due'[h(q)] + 1
        <5>1. due[h(q)] \in Int /\ due[h(q)] > 0 BY <2>2, <2>3, <2>9, <3>2
        <5>2. due'[h(q)] = due[h(q)] - 1 BY <1>1, <2>2, <5>1
        <5>3. QED BY <2>3, <2>9, <4>1, <5>1, <5>2
      <4>3. QED BY <4>1, <4>2
    <3>3. QED BY <2>3, <2>9, <3>1, <3>2
  <2>10. QED BY <2>6, <2>7, <2>8, <2>9
<1>5. QED
  BY <1>1, <1>2, <1>3, <1>4 DEF IInv, ConfigType, ResultsType, FineAt, Exists,
                                config, results

LEMMA ExpireStep == ASSUME IInv, Expire PROVE IInv'
<1>1. WakeupType' /\ WakeupArmed'
  BY DEF IInv, Expire, WakeupType, WakeupArmed, HeadTimes, queues
<1>2. QED
  BY <1>1 DEF IInv, Expire, QueuesType, ConfigType, ResultsType, FineAt, Exists,
              queues, config, results

LEMMA SequencerStep ==
    ASSUME IInv, NEW t \in Tests, Sequencer(t)
    PROVE  IInv'
<1>1. QueuesType /\ WakeupType /\ ConfigType /\ ResultsType /\ FineAt(t) BY DEF IInv
<1>2. ASSUME NEW k \in JobKinds, TakeJob(t, k), owed' \subseteq Tests,
             lastResult' \in [Tests -> Results], UNCHANGED <<config, calls>>,
             \A s \in Tests \ {t} : s \in owed <=> s \in owed'
      PROVE  ConfigType' /\ ResultsType' /\ Apart(t)
  <2>1. jobs[t][k] \in Nat /\ jobs[t][k] > 0 BY <1>1, <1>2 DEF ResultsType, TakeJob
  <2>2. jobs' = [jobs EXCEPT ![t][k] = @ - 1] BY <1>2 DEF TakeJob
  <2>3. jobs' \in [Tests -> [JobKinds -> Nat]] BY <1>1, <2>1, <2>2 DEF ResultsType
  <2>4. QED BY <1>1, <1>2, <2>2, <2>3 DEF ConfigType, ResultsType, Apart, config
<1>3. ASSUME ConfigType', ResultsType', Apart(t), UNCHANGED config, AddTest(t)
      PROVE  IInv'
  <2>1. period'[t] \in Periods BY <1>3 DEF ConfigType
  <2>2. /\ Touch(t)
        /\ state'[t] # "enabled" => queued'[t] = queued[t]
        /\ state'[t] = "enabled" /\ t \in Polled => queued'[t] # "none"
    BY <1>1, <1>3, <2>1, AddTouches
  <2>3. FineAt(t)' BY <1>1, <1>3, <2>2 DEF FineAt, Exists, config
  <2>4. QED BY <1>3, <2>2, <2>3, Preserved
<1>4. CASE EndRun(t)
  <2>1. /\ TakeJob(t, "run") /\ UNCHANGED <<config, owed, calls>> /\ AddTest(t)
        /\ lastResult' \in [Tests -> Results]
    BY <1>1, <1>4 DEF EndRun, ResultsType
  <2>2. QED BY <1>1, <1>2, <1>3, <2>1 DEF JobKinds, ResultsType
<1>5. CASE RunInProgress(t)
  <2>1. /\ TakeJob(t, "run") /\ owed' = owed \cup {t}
        /\ UNCHANGED <<queues, wakeup, config, lastResult, calls>>
    BY <1>5 DEF RunInProgress
  <2>2. ConfigType' /\ ResultsType' /\ Apart(t)
    BY <1>1, <1>2, <2>1 DEF JobKinds, ResultsType
  <2>3. Touch(t) /\ queued'[t] = queued[t] BY <1>1, <2>1, TouchNothing
  <2>4. FineAt(t)' BY <1>1, <2>1, <2>3 DEF FineAt, Exists, config
  <2>5. QED BY <2>2, <2>3, <2>4, Preserved
<1>6. CASE \E result \in Results : TestResult(t, result)
  <2>1. PICK result \in Results : TestResult(t, result) BY <1>6
  <2>2. /\ TakeJob(t, result) /\ UNCHANGED <<config, calls>> /\ AddTest(t)
        /\ lastResult' \in [Tests -> Results]
        /\ owed' = owed \ {t} /\ result \in JobKinds
    BY <1>1, <2>1 DEF TestResult, ResultsType, Results, JobKinds
  <2>3. QED BY <1>1, <1>2, <1>3, <2>2 DEF ResultsType
<1>7. CASE TestResultRci(t)
  <2>1. /\ TakeJob(t, "rci") /\ UNCHANGED <<config, lastResult, owed, calls>>
        /\ AddTest(t)
    BY <1>7 DEF TestResultRci
  <2>2. QED BY <1>1, <1>2, <1>3, <2>1 DEF JobKinds, ResultsType
<1>8. QED BY <1>4, <1>5, <1>6, <1>7 DEF Sequencer, Run

-----------------------------------------------------------------------------
(* The API, the CLI and RCI *)

LEMMA CallType ==
    ASSUME ResultsType, Call, UNCHANGED results
    PROVE  ResultsType'
BY CallsAssumption DEF ResultsType, Call, results

LEMMA ImmediateStep ==
    ASSUME IInv, NEW t \in Tests, Immediate(t) PROVE IInv'
<1>1. QueuesType /\ WakeupType /\ ConfigType /\ ResultsType /\ FineAt(t) BY DEF IInv
<1>2. Exists(t) /\ UNCHANGED <<config, results>> /\ Call BY DEF Immediate
<1>3. Touch(t) /\ queued'[t] \in {queued[t], "immediate"}
  <2>1. CASE UNCHANGED <<queues, wakeup>> BY <2>1, <1>1, TouchNothing
  <2>2. CASE Place(t, "immediate", 0)
    BY <2>2, <1>1, PlaceTouches DEF QueueNames
  <2>3. QED BY <2>1, <2>2 DEF Immediate
<1>4. ConfigType' /\ ResultsType' BY <1>1, <1>2, CallType DEF ConfigType, config
<1>5. Apart(t) /\ FineAt(t)'
  BY <1>1, <1>2, <1>3 DEF Apart, FineAt, Exists, config, results
<1>6. QED BY <1>3, <1>4, <1>5, Preserved

LEMMA NotifyStep ==
    ASSUME IInv, NEW t \in Tests, NEW result \in Results, Notify(t, result)
    PROVE  IInv'
<1>1. QueuesType /\ WakeupType /\ ConfigType /\ ResultsType /\ FineAt(t) BY DEF IInv
<1>2. /\ Call /\ jobs' = [jobs EXCEPT ![t][result] = @ + 1]
      /\ UNCHANGED <<queues, wakeup, config, lastResult, owed>>
  BY DEF Notify, AddJob
<1>3. Touch(t) /\ queued'[t] = queued[t] BY <1>1, <1>2, TouchNothing
<1>4. result \in JobKinds /\ result # "run" BY DEF Results, JobKinds
<1>5. jobs \in [Tests -> [JobKinds -> Nat]] /\ jobs[t][result] \in Nat
  BY <1>1, <1>4 DEF ResultsType
<1>6. /\ jobs' \in [Tests -> [JobKinds -> Nat]]
      /\ jobs'[t]["run"] = jobs[t]["run"]
      /\ \A s \in Tests \ {t} : jobs'[s] = jobs[s]
  BY <1>2, <1>4, <1>5 DEF JobKinds
<1>7. ConfigType' /\ ResultsType'
  BY <1>1, <1>2, <1>6, CallsAssumption DEF ConfigType, ResultsType, config, Call
<1>8. Apart(t) /\ FineAt(t)'
  BY <1>1, <1>2, <1>3, <1>6 DEF Apart, FineAt, Exists, config
<1>9. QED BY <1>3, <1>7, <1>8, Preserved

LEMMA CreateStep ==
    ASSUME IInv, NEW t \in Tests, NEW p \in Periods, Create(t, p)
    PROVE  IInv'
<1>1. QueuesType /\ WakeupType /\ ConfigType /\ ResultsType /\ WakeupArmed
  BY DEF IInv
<1>2. /\ state' = [state EXCEPT ![t] = "created"]
      /\ period' = [period EXCEPT ![t] = p]
      /\ defaultPeriod' = [defaultPeriod EXCEPT ![t] = p]
      /\ queued' = [queued EXCEPT ![t] = "none"]
      /\ UNCHANGED <<queue, due, wakeup, defaultState, cliState, results>>
      /\ Call \/ UNCHANGED calls
  BY DEF Create
<1>3. Touch(t)
  BY <1>1, <1>2 DEF Touch, QueuesType, WakeupType, wakeup, WakeupArmed, HeadTimes
<1>4. ConfigType' BY <1>1, <1>2 DEF ConfigType, States
<1>5. ResultsType' BY <1>1, <1>2, CallType DEF ResultsType, results
<1>6. Apart(t) /\ FineAt(t)'
  BY <1>1, <1>2 DEF Apart, FineAt, Exists, results, ConfigType
<1>7. QED BY <1>3, <1>4, <1>5, <1>6, Preserved

(* A test is discarded; a member may stay where it is queued. *)
LEMMA DiscardStep ==
    ASSUME IInv, NEW t \in Tests, Call, Discard(t),
           RemoveTest(t) \/ (t \in Members /\ Touch(t))
    PROVE  IInv'
<1>1. QueuesType /\ WakeupType /\ ConfigType /\ ResultsType BY DEF IInv
<1>2. /\ state' = [state EXCEPT ![t] = "none"]
      /\ defaultState' = [defaultState EXCEPT ![t] = "unset"]
      /\ cliState' = [cliState EXCEPT ![t] = "unset"]
      /\ lastResult' = [lastResult EXCEPT ![t] = "pass"]
      /\ jobs' = [jobs EXCEPT ![t] = [k \in JobKinds |-> 0]]
      /\ owed' = owed \ {t}
      /\ UNCHANGED <<period, defaultPeriod>>
  BY DEF Discard
<1>3. Touch(t) /\ (t \in Members \/ queued'[t] = "none") BY <1>1, RemoveTouches
<1>4. ConfigType' BY <1>1, <1>2 DEF ConfigType, States
<1>5. ResultsType'
  BY <1>1, <1>2, CallsAssumption DEF ResultsType, Call, Results
<1>6. Apart(t) BY <1>1, <1>2 DEF Apart, ConfigType, ResultsType
<1>7. FineAt(t)' BY <1>1, <1>2, <1>3 DEF FineAt, Exists, ConfigType
<1>8. QED BY <1>3, <1>4, <1>5, <1>6, <1>7, Preserved

(* A handler that gives t a new configuration, in which t exists, and then *)
(* adds it if it is polled.                                                *)
LEMMA AddStep ==
    ASSUME IInv, NEW t \in Tests, Call, UNCHANGED results, ConfigType',
           state'[t] # "none",
           \A s \in Tests \ {t} : state'[s] = state[s] /\ cliState'[s] = cliState[s],
           AddIfPolled(t)
    PROVE  IInv'
<1>1. QueuesType /\ WakeupType /\ ResultsType BY DEF IInv
<1>2. /\ Touch(t)
      /\ state'[t] = "enabled" /\ t \in Polled => queued'[t] # "none"
  BY <1>1, AddIfPolledTouches DEF ConfigType
<1>3. ResultsType' BY <1>1, CallType
<1>4. Apart(t) /\ FineAt(t)' BY <1>2 DEF Apart, FineAt, Exists, results
<1>5. QED BY <1>2, <1>3, <1>4, Preserved

(* One that leaves it where it is, or takes it off, when it is not an      *)
(* enabled test that has to be polled.                                     *)
LEMMA DropStep ==
    ASSUME IInv, NEW t \in Tests, Call, UNCHANGED results, ConfigType',
           state'[t] # "none",
           \A s \in Tests \ {t} : state'[s] = state[s] /\ cliState'[s] = cliState[s],
           \/ RemoveIfPolled(t) /\ (state'[t] # "enabled" \/ cliState'[t] = "enabled")
           \/ /\ UNCHANGED <<queues, wakeup>>
              /\ \/ state'[t] # "enabled" \/ cliState'[t] = "enabled"
                 \/ state[t] = "enabled" /\ cliState[t] # "enabled"
                 \/ t \in Members
    PROVE  IInv'
<1>1. QueuesType /\ WakeupType /\ ResultsType /\ FineAt(t) BY DEF IInv
<1>2. ResultsType' BY <1>1, CallType
<1>3. Apart(t) BY DEF Apart, results
<1>4. CASE RemoveIfPolled(t) /\ (state'[t] # "enabled" \/ cliState'[t] = "enabled")
  <2>1. Touch(t) BY <1>1, <1>4, RemoveIfPolledTouches
  <2>2. FineAt(t)' BY <1>4 DEF FineAt, Exists
  <2>3. QED BY <2>1, <2>2, <1>2, <1>3, Preserved
<1>5. CASE /\ UNCHANGED <<queues, wakeup>>
           /\ \/ state'[t] # "enabled" \/ cliState'[t] = "enabled"
              \/ state[t] = "enabled" /\ cliState[t] # "enabled"
              \/ t \in Members
  <2>1. Touch(t) /\ queued'[t] = queued[t] BY <1>1, <1>5, TouchNothing
  <2>2. FineAt(t)' BY <1>1, <1>5, <2>1 DEF FineAt, Exists, results
  <2>3. QED BY <2>1, <2>2, <1>2, <1>3, Preserved
<1>6. QED BY <1>4, <1>5

LEMMA InstanceCreateStep ==
    ASSUME IInv, NEW t \in Tests, NEW p \in Periods, InstanceCreate(t, p)
    PROVE  IInv'
<1>1. ConfigType BY DEF IInv
<1>2. PICK s \in Created, d \in {"unset", "enabled", "disabled"} :
         /\ state' = [state EXCEPT ![t] = s]
         /\ defaultState' = [defaultState EXCEPT ![t] = d]
  BY DEF InstanceCreate
<1>3. /\ Call /\ AddIfPolled(t)
      /\ period' = [period EXCEPT ![t] = p]
      /\ UNCHANGED <<cliState, defaultPeriod, results>>
  BY DEF InstanceCreate
<1>4. /\ ConfigType' /\ state'[t] # "none"
      /\ \A u \in Tests \ {t} : state'[u] = state[u] /\ cliState'[u] = cliState[u]
  BY <1>1, <1>2, <1>3 DEF ConfigType, States, Created
<1>5. QED BY <1>3, <1>4, AddStep

LEMMA MemberDeleteStep ==
    ASSUME IInv, NEW t \in Tests, MemberDelete(t)
    PROVE  IInv'
<1>1. QueuesType /\ WakeupType BY DEF IInv
<1>2. /\ t \in Members /\ Call /\ Discard(t)
      /\ RemoveIfPolled(t) \/ UNCHANGED <<queues, wakeup>>
  BY DEF MemberDelete
<1>3. Touch(t) BY <1>1, <1>2, RemoveIfPolledTouches, TouchNothing
<1>4. QED BY <1>2, <1>3, DiscardStep

LEMMA SetStateType ==
    ASSUME ConfigType, NEW t \in Tests, NEW s \in {"enabled", "disabled"},
           NEW cli \in BOOLEAN, NEW whole \in Whole(t),
           Exists(t), SetState(t, s, cli, whole)
    PROVE  /\ ConfigType'
           /\ state'[t] # "none"
           /\ \A u \in Tests \ {t} : state'[u] = state[u] /\ cliState'[u] = cliState[u]
           /\ UNCHANGED results
<1>1. /\ cliState' \in [Tests -> {"unset", "enabled", "disabled"}]
      /\ defaultState' \in [Tests -> {"unset", "enabled", "disabled"}]
      /\ \A u \in Tests \ {t} : cliState'[u] = cliState[u]
  BY DEF SetState, ConfigType
<1>2. state' = [state EXCEPT ![t] =
                  IF Admitted(t, whole) /\ cliState'[t] \in {"unset", s} THEN s ELSE @]
  BY DEF SetState
<1>3. /\ state' \in [Tests -> States] /\ state'[t] # "none"
      /\ \A u \in Tests \ {t} : state'[u] = state[u]
  BY <1>2 DEF ConfigType, States, Exists
<1>4. UNCHANGED <<period, defaultPeriod, results>> BY DEF SetState
<1>5. QED BY <1>1, <1>3, <1>4 DEF ConfigType

LEMMA EnableStep ==
    ASSUME IInv, NEW t \in Tests, NEW cli \in BOOLEAN, NEW whole \in Whole(t),
           Enable(t, cli, whole)
    PROVE  IInv'
<1>1. /\ Call /\ Exists(t) /\ SetState(t, "enabled", cli, whole)
      /\ IF Admitted(t, whole) THEN AddIfPolled(t) ELSE UNCHANGED <<queues, wakeup>>
  BY DEF Enable
<1>2. /\ ConfigType' /\ state'[t] # "none" /\ UNCHANGED results
      /\ \A u \in Tests \ {t} : state'[u] = state[u] /\ cliState'[u] = cliState[u]
  BY <1>1, SetStateType DEF IInv
<1>3. CASE Admitted(t, whole) BY <1>1, <1>2, <1>3, AddStep
<1>4. CASE ~ Admitted(t, whole)
  <2>1. state[t] # "enabled" BY <1>1, <1>4 DEF Admitted, Created
  <2>2. state'[t] # "enabled"
    BY <1>1, <1>4, <2>1 DEF SetState, IInv, ConfigType
  <2>3. QED BY <1>1, <1>2, <1>4, <2>2, DropStep
<1>5. QED BY <1>3, <1>4

LEMMA DisableStep ==
    ASSUME IInv, NEW t \in Tests, NEW cli \in BOOLEAN, NEW whole \in Whole(t),
           Disable(t, cli, whole)
    PROVE  IInv'
<1>1. /\ Call /\ Exists(t) /\ SetState(t, "disabled", cli, whole)
      /\ IF Admitted(t, whole) THEN RemoveIfPolled(t) ELSE UNCHANGED <<queues, wakeup>>
  BY DEF Disable
<1>2. /\ ConfigType' /\ state'[t] # "none" /\ UNCHANGED results
      /\ \A u \in Tests \ {t} : state'[u] = state[u] /\ cliState'[u] = cliState[u]
  BY <1>1, SetStateType DEF IInv
<1>3. state'[t] # "enabled" \/ cliState'[t] = "enabled"
  <2>1. state'[t] = IF Admitted(t, whole) /\ cliState'[t] \in {"unset", "disabled"}
                    THEN "disabled" ELSE state[t]
    BY <1>1 DEF SetState, IInv, ConfigType
  <2>2. cliState'[t] \in {"unset", "enabled", "disabled"} BY <1>2 DEF ConfigType
  <2>3. ~ Admitted(t, whole) => state[t] # "enabled" BY <1>1 DEF Admitted, Created
  <2>4. QED BY <2>1, <2>2, <2>3
<1>4. QED BY <1>1, <1>2, <1>3, DropStep

LEMMA ChainReadyStep ==
    ASSUME IInv, NEW t \in Tests, NEW s \in {"enabled", "disabled"}, ChainReady(t, s)
    PROVE  IInv'
<1> DEFINE fallback == IF defaultState[t] = "unset" THEN s ELSE defaultState[t]
<1>1. ConfigType BY DEF IInv
<1>2. /\ Call /\ Exists(t)
      /\ \/ /\ cliState[t] # "unset"
            /\ state' = [state EXCEPT ![t] = cliState[t]]
            /\ UNCHANGED defaultState
         \/ UNCHANGED <<state, defaultState>>
         \/ /\ state' = [state EXCEPT ![t] = fallback]
            /\ defaultState' = [defaultState EXCEPT ![t] = fallback]
      /\ UNCHANGED <<cliState, period, defaultPeriod, results>>
      /\ \/ AddIfPolled(t)
         \/ t \in Members /\ UNCHANGED <<queues, wakeup>>
  BY DEF ChainReady, Admitted
<1>3. fallback \in {"enabled", "disabled"} BY <1>1 DEF ConfigType
<1>4. cliState[t] # "unset" => cliState[t] \in {"enabled", "disabled"}
  BY <1>1 DEF ConfigType
<1> HIDE DEF fallback
<1>5. /\ ConfigType' /\ state'[t] # "none"
      /\ \A u \in Tests \ {t} : state'[u] = state[u] /\ cliState'[u] = cliState[u]
  BY <1>1, <1>2, <1>3, <1>4 DEF ConfigType, States, Exists
<1>6. QED BY <1>2, <1>5, AddStep, DropStep

LEMMA DefaultStep ==
    ASSUME IInv, NEW t \in Tests, NEW whole \in Whole(t), Default(t, whole)
    PROVE  IInv'
<1>1. ConfigType /\ Call BY DEF IInv, Default
<1>2. CASE /\ Admitted(t, whole)
           /\ period' = [period EXCEPT ![t] =
                            IF t \in Members /\ ~ whole THEN @ ELSE defaultPeriod[t]]
           /\ state' = [state EXCEPT ![t] =
                           IF @ \in {"enabled", "disabled"} THEN defaultState[t] ELSE @]
           /\ cliState' = [cliState EXCEPT ![t] = "unset"]
           /\ UNCHANGED <<defaultState, defaultPeriod, results>>
           /\ AddIfPolled(t)
  <2>1. /\ ConfigType' /\ state'[t] # "none"
        /\ \A u \in Tests \ {t} : state'[u] = state[u] /\ cliState'[u] = cliState[u]
    BY <1>1, <1>2 DEF ConfigType, States, Admitted, Exists
  <2>2. QED BY <1>1, <1>2, <2>1, AddStep
<1>3. CASE Discard(t) /\ RemoveTest(t) BY <1>1, <1>3, DiscardStep
<1>4. CASE /\ state[t] = "unset" /\ period[t] # defaultPeriod[t]
           /\ cliState' = [cliState EXCEPT ![t] = "unset"]
           /\ UNCHANGED <<queues, wakeup, state, defaultState, period, defaultPeriod, results>>
  <2>1. /\ ConfigType' /\ state'[t] = "unset"
        /\ \A u \in Tests \ {t} : state'[u] = state[u] /\ cliState'[u] = cliState[u]
    BY <1>1, <1>4 DEF ConfigType
  <2>2. QED BY <1>1, <1>4, <2>1, DropStep
<1>5. QED BY <1>2, <1>3, <1>4 DEF Default

LEMMA ConfigureStep ==
    ASSUME IInv, NEW t \in Tests, NEW p \in Periods, Configure(t, p)
    PROVE  IInv'
<1>1. QueuesType /\ WakeupType /\ ConfigType /\ ResultsType BY DEF IInv
<1>2. /\ Call /\ Exists(t)
      /\ period' = [period EXCEPT ![t] = p]
      /\ UNCHANGED <<state, defaultState, cliState, defaultPeriod, results>>
      /\ IF state[t] = "enabled" THEN Place(t, QueueFor(p), p) ELSE RemoveTest(t)
  BY DEF Configure
<1>3. Touch(t) /\ (state[t] = "enabled" => queued'[t] # "none")
  <2>1. p \in Nat BY TimesAssumption, Zenon DEF TimesAssumption
  <2>2. QueueFor(p) \in QueueNames /\ QueueFor(p) # "none"
    BY DEF QueueFor, QueueNames
  <2>3. CASE state[t] = "enabled" BY <1>1, <1>2, <2>1, <2>2, <2>3, PlaceTouches
  <2>4. CASE state[t] # "enabled" BY <1>1, <1>2, <2>4, RemoveTouches
  <2>5. QED BY <2>3, <2>4
<1>4. ConfigType' BY <1>1, <1>2 DEF ConfigType
<1>5. ResultsType' BY <1>1, <1>2, CallType
<1>6. Apart(t) /\ FineAt(t)' BY <1>2, <1>3 DEF Apart, FineAt, Exists, results
<1>7. QED BY <1>3, <1>4, <1>5, <1>6, Preserved

LEMMA CompEnableStep ==
    ASSUME IInv, NEW t \in Tests, NEW cli \in BOOLEAN, NEW agree \in BOOLEAN,
           CompEnable(t, cli, agree)
    PROVE  IInv'
<1> DEFINE open == state[t] \in {"disabled", "created"}
           enables == open /\ agree /\ cliState'[t] # "disabled"
<1>1. ConfigType BY DEF IInv
<1>2. /\ Call /\ Exists(t) /\ AddIfPolled(t)
      /\ cliState' = [cliState EXCEPT ![t] = IF open /\ cli THEN "unset" ELSE @]
      /\ state' = [state EXCEPT ![t] = IF enables THEN "enabled" ELSE @]
      /\ defaultState' = [defaultState EXCEPT ![t] = IF cli THEN @ ELSE "enabled"]
      /\ UNCHANGED <<period, defaultPeriod, results>>
  BY DEF CompEnable
<1> HIDE DEF open, enables
<1>3. /\ ConfigType' /\ state'[t] # "none"
      /\ \A u \in Tests \ {t} : state'[u] = state[u] /\ cliState'[u] = cliState[u]
  BY <1>1, <1>2 DEF ConfigType, States, Exists
<1>4. QED BY <1>2, <1>3, AddStep

LEMMA CompDisableStep ==
    ASSUME IInv, NEW t \in Tests, NEW cli \in BOOLEAN, NEW agree \in BOOLEAN,
           CompDisable(t, cli, agree)
    PROVE  IInv'
<1> DEFINE open == state[t] \in {"enabled", "created"}
           disables == open /\ agree /\ cliState'[t] # "enabled"
<1>1. ConfigType BY DEF IInv
<1>2. /\ Call /\ Exists(t) /\ (cli => agree)
      /\ cliState' = [cliState EXCEPT ![t] = IF open /\ cli THEN "unset" ELSE @]
      /\ state' = [state EXCEPT ![t] = IF disables THEN "disabled" ELSE @]
      /\ defaultState' = [defaultState EXCEPT ![t] = IF cli THEN @ ELSE "disabled"]
      /\ UNCHANGED <<period, defaultPeriod, results>>
      /\ IF state'[t] = "disabled" THEN RemoveIfPolled(t) ELSE UNCHANGED <<queues, wakeup>>
  BY DEF CompDisable
<1>3. open /\ cli => disables BY <1>1, <1>2 DEF ConfigType
<1>4. ~ disables => state'[t] = state[t] BY <1>1, <1>2 DEF ConfigType
<1>5. disables => state'[t] = "disabled" BY <1>1, <1>2 DEF ConfigType
<1>6. ~ (open /\ cli) => cliState'[t] = cliState[t] BY <1>1, <1>2 DEF ConfigType
<1> HIDE DEF open, disables
<1>7. /\ ConfigType' /\ state'[t] # "none"
      /\ \A u \in Tests \ {t} : state'[u] = state[u] /\ cliState'[u] = cliState[u]
  BY <1>1, <1>2 DEF ConfigType, States, Exists
<1>8. CASE state'[t] = "disabled" BY <1>2, <1>7, <1>8, DropStep
<1>9. CASE state'[t] # "disabled"
  <2>1. state'[t] = state[t] /\ cliState'[t] = cliState[t]
    BY <1>3, <1>4, <1>5, <1>6, <1>9
  <2>2. QED BY <1>2, <1>7, <1>9, <2>1, DropStep
<1>10. QED BY <1>8, <1>9

LEMMA ClientStep ==
    ASSUME IInv, NEW t \in Tests, Client(t)
    PROVE  IInv'
<1>1. CASE Immediate(t) BY <1>1, ImmediateStep
<1>2. CASE Delete(t) BY <1>2, DiscardStep DEF Delete
<1>3. CASE MemberDelete(t) BY <1>3, MemberDeleteStep
<1>4. CASE \E result \in Results : Notify(t, result) BY <1>4, NotifyStep
<1>5. CASE \E p \in Periods : Create(t, p) \/ InstanceCreate(t, p) \/ Configure(t, p)
  BY <1>5, CreateStep, InstanceCreateStep, ConfigureStep
<1>6. CASE \E s \in {"enabled", "disabled"} : ChainReady(t, s)
  BY <1>6, ChainReadyStep
<1>7. CASE \E whole \in Whole(t) :
               \/ Default(t, whole)
               \/ \E cli \in BOOLEAN : Enable(t, cli, whole) \/ Disable(t, cli, whole)
  BY <1>7, DefaultStep, EnableStep, DisableStep
<1>8. CASE \E cli, agree \in BOOLEAN :
              CompEnable(t, cli, agree) \/ CompDisable(t, cli, agree)
  BY <1>8, CompEnableStep, CompDisableStep
<1>9. QED BY <1>1, <1>2, <1>3, <1>4, <1>5, <1>6, <1>7, <1>8 DEF Client

LEMMA Stutter == ASSUME IInv, UNCHANGED vars PROVE IInv'
BY DEF IInv, QueuesType, WakeupType, ConfigType, ResultsType, WakeupArmed,
       FineAt, Exists, HeadTimes, vars, queues, wakeup, config, results

LEMMA Inductive == IInv /\ [Next]_vars => IInv'
<1> SUFFICES ASSUME IInv, [Next]_vars PROVE IInv' OBVIOUS
<1>1. CASE SchedThread BY <1>1, WakeStep, DequeueStep, EndCheckStep DEF SchedThread
<1>2. CASE Tick BY <1>2, TickStep
<1>3. CASE Expire BY <1>3, ExpireStep
<1>4. CASE \E t \in Tests : Sequencer(t) \/ Client(t)
  BY <1>4, SequencerStep, ClientStep
<1>5. CASE UNCHANGED vars BY <1>5, Stutter
<1>6. QED BY <1>1, <1>2, <1>3, <1>4, <1>5 DEF Next

LEMMA Invariance == Spec => []IInv
<1>1. QED BY Initially, Inductive, PTL DEF Spec

(* Every variable keeps its type. *)
THEOREM TypeCorrect == Spec => []TypeOK
<1>1. QED BY Invariance, Split, PTL

(* myrefl_obj_delete takes the primary instance of a test off its queue,   *)
(* whichever that is by then, and nobody puts it back, whatever scheduler, *)
(* sequencer and other callers do.  Of the members it would not hold.      *)
THEOREM DeletedLeaves == Spec => []DeletedNotQueued
<1>1. QED BY Invariance, Split, PTL

(* However handlers, ticks and signals interleave, the scheduler thread    *)
(* does not wait for a test with neither a release nor a timer to come.    *)
THEOREM NoLostWakeup == Spec => []WakeupArmed
<1>1. QED BY Invariance, Split, PTL

(* No sequence of calls leaves an enabled polled test that is neither      *)
(* queued nor running nor about to notify, except one the CLI has enabled. *)
THEOREM PollingGoesOn == Spec => []PolledIsScheduled
<1>1. QED BY Invariance, Split, PTL

-----------------------------------------------------------------------------
(* The order of the queues, when no test is created twice *)

Sorted(list, ds) ==
    \A i, j \in 1..Len(list) : i < j => ds[list[i]] <= ds[list[j]]

(* Earlier counts a beginning of the list: it is the place where a test    *)
(* due in d belongs.                                                       *)
LEMMA EarlierSplits ==
    ASSUME NEW list \in Seq(Tests), NEW ds \in [Tests -> Int], NEW d \in Int,
           Sorted(list, ds), NEW n \in 1..Len(list)
    PROVE  n <= Earlier(list, ds, d) <=> ds[list[n]] <= d
<1> DEFINE P == {m \in 1..Len(list) : \A i \in 1..m : ds[list[i]] <= d}
           E == Cardinality(P)
<1>1. Len(list) \in Nat /\ n \in Nat /\ \A i \in 1..Len(list) : ds[list[i]] \in Int
  OBVIOUS
<1>2. P \in SUBSET (1..Len(list)) /\ IsFiniteSet(1..Len(list))
  <2>1. P \subseteq 1..Len(list) OBVIOUS
  <2>2. IsFiniteSet(1..Len(list)) BY <1>1, FS_Interval
  <2>3. QED BY <2>1, <2>2
<1>3. \A m \in 1..Len(list) : m \in P <=> ds[list[m]] <= d
  <2>1. SUFFICES ASSUME NEW m \in 1..Len(list), ds[list[m]] <= d,
                        NEW i \in 1..m
                 PROVE  ds[list[i]] <= d
    BY <1>1
  <2>2. i \in 1..Len(list) /\ (i < m \/ i = m) BY <1>1
  <2>3. ds[list[i]] <= ds[list[m]] BY <2>2, <1>1 DEF Sorted
  <2>4. QED BY <2>1, <2>2, <2>3, <1>1
<1>4. IsFiniteSet(P) BY <1>2, FS_Subset, Zenon
<1>5. ASSUME n \in P PROVE n <= E
  <2>1. \A i \in 1..n : i \in P BY <1>1, <1>5
  <2>2. 1..n \in SUBSET P BY <2>1
  <2> HIDE DEF P
  <2>3. Cardinality(1..n) <= Cardinality(P) BY <2>2, <1>4, FS_Subset, Zenon
  <2>4. Cardinality(1..n) = n BY <1>1, FS_Interval
  <2>5. QED BY <2>3, <2>4
<1>6. ASSUME n \notin P PROVE E <= n - 1
  <2>1. \A m \in P : m <= n - 1
    <3>1. SUFFICES ASSUME NEW m \in P, ~ (m <= n - 1) PROVE FALSE OBVIOUS
    <3>2. m \in 1..Len(list) /\ n <= m BY <3>1, <1>1
    <3>3. \A i \in 1..n : i \in 1..m BY <3>2, <1>1
    <3>4. n \in P BY <3>3
    <3>5. QED BY <3>4, <1>6
  <2>2. P \in SUBSET (1..n - 1) BY <2>1, <1>1
  <2> HIDE DEF P
  <2>3. IsFiniteSet(1..n - 1) /\ Cardinality(1..n - 1) = n - 1
    <3>1. PICK k \in Nat : k = n - 1 BY <1>1
    <3>2. IsFiniteSet(1..k) /\ Cardinality(1..k) = k BY <3>1, FS_Interval
    <3>3. QED BY <3>1, <3>2
  <2>4. Cardinality(P) <= Cardinality(1..n - 1) BY <2>2, <2>3, FS_Subset, Zenon
  <2>5. QED BY <2>3, <2>4
<1>7. Earlier(list, ds, d) = E BY DEF Earlier
<1>8. E \in Nat BY <1>4, FS_CardinalityType
<1> HIDE DEF P
<1>9. QED BY <1>1, <1>3, <1>5, <1>6, <1>7, <1>8

(* A test whose time comes no sooner than any other's goes to the tail. *)
LEMMA SortedPush ==
    ASSUME NEW list \in Seq(Tests), NEW ds \in [Tests -> Int], NEW t \in Tests,
           Sorted(list, ds), \A i \in 1..Len(list) : ds[list[i]] <= ds[t]
    PROVE  Sorted(ListPush(list, t), ds)
<1> DEFINE p == ListPush(list, t)
<1>1. /\ Len(p) = Len(list) + 1 /\ Len(list) \in Nat
      /\ p[Len(list) + 1] = t
      /\ \A i \in 1..Len(list) : p[i] = list[i]
  BY DEF ListPush
<1> HIDE DEF p
<1>2. SUFFICES ASSUME NEW i \in 1..Len(p), NEW j \in 1..Len(p), i < j
               PROVE  ds[p[i]] <= ds[p[j]]
  BY DEF Sorted, p
<1>3. i \in 1..Len(list) BY <1>1, <1>2
<1>4. CASE j \in 1..Len(list) BY <1>1, <1>2, <1>3, <1>4 DEF Sorted
<1>5. CASE j = Len(list) + 1 BY <1>1, <1>3, <1>5
<1>6. QED BY <1>1, <1>4, <1>5

(* The order of a list outlives a removal. *)
LEMMA SortedRemove ==
    ASSUME NEW list \in Seq(Tests), NEW ds \in [Tests -> Int], NEW t \in Tests,
           Sorted(list, ds), NoDuplicates(list)
    PROVE  Sorted(ListRemove(list, t), ds)
<1> DEFINE r == ListRemove(list, t)
<1>1. CASE ~ ListFind(list, t) BY <1>1, RemoveFacts
<1>2. CASE ListFind(list, t)
  <2>1. PICK p \in 1..Len(list) : list[p] = t BY <1>2 DEF ListFind
  <2>2. /\ Len(list) \in Nat \ {0} /\ Len(r) = Len(list) - 1
        /\ \A k \in 1..Len(list) - 1 : r[k] = IF p <= k THEN list[k + 1] ELSE list[k]
    <3>1. IsWithout(r, list, p) BY <2>1, RemoveIsWithout
    <3>2. QED BY <3>1 DEF IsWithout
  <2> HIDE DEF r
  <2>3. SUFFICES ASSUME NEW i \in 1..Len(r), NEW j \in 1..Len(r), i < j
                 PROVE  ds[r[i]] <= ds[r[j]]
    BY DEF Sorted, r
  <2> DEFINE f(k) == IF p <= k THEN k + 1 ELSE k
  <2>4. \A k \in 1..Len(r) : f(k) \in 1..Len(list) /\ r[k] = list[f(k)]
    <3> DEFINE n == Len(list)
    <3>1. n \in Nat \ {0} /\ Len(r) = n - 1 /\ p \in 1..n BY <2>1, <2>2
    <3>2. \A k \in 1 .. n - 1 : r[k] = list[f(k)] BY <2>2
    <3> HIDE DEF n
    <3>3. \A k \in 1 .. n - 1 : f(k) \in 1..n BY <3>1
    <3>4. QED BY <3>1, <3>2, <3>3 DEF n
  <2>5. f(i) < f(j) BY <2>1, <2>2, <2>3
  <2> HIDE DEF f
  <2>6. QED BY <2>4, <2>5 DEF Sorted
<1>3. QED BY <1>1, <1>2

(* A test inserted behind those that are no later than it keeps the order. *)
LEMMA SortedInsert ==
    ASSUME NEW list \in Seq(Tests), NEW ds \in [Tests -> Int], NEW t \in Tests,
           Sorted(list, ds), ~ ListFind(list, t)
    PROVE  Sorted(ListInsert(list, Earlier(list, ds, ds[t]), t), ds)
<1> PICK e \in 0..Len(list) : e = Earlier(list, ds, ds[t]) BY EarlierRange
<1> DEFINE p == ListInsert(list, e, t)
<1>1. e \in 0..Len(list) /\ Len(list) \in Nat OBVIOUS
<1>2. \A n \in 1..Len(list) : n <= e <=> ds[list[n]] <= ds[t] BY EarlierSplits
<1>3. \A n \in 1..Len(list) : list[n] \in Tests /\ ds[list[n]] \in Int OBVIOUS
<1>4. /\ Len(p) = Len(list) + 1
      /\ \A k \in 1..Len(list) + 1 :
            p[k] = IF k <= e THEN list[k] ELSE IF k = e + 1 THEN t ELSE list[k - 1]
  BY <1>1, InsertFacts
<1> HIDE DEF p
<1>5. SUFFICES ASSUME NEW i \in 1..Len(p), NEW j \in 1..Len(p), i < j
               PROVE  ds[p[i]] <= ds[p[j]]
  BY DEF Sorted, p
<1>6. CASE j <= e
  <2>1. /\ i \in 1..Len(list) /\ j \in 1..Len(list)
        /\ p[i] = list[i] /\ p[j] = list[j]
    BY <1>1, <1>4, <1>5, <1>6
  <2>2. QED BY <2>1, <1>5 DEF Sorted
<1>7. CASE j = e + 1
  <2>1. i \in 1..Len(list) /\ i <= e /\ p[i] = list[i] /\ p[j] = t
    BY <1>1, <1>4, <1>5, <1>7
  <2>2. QED BY <2>1, <1>2
<1>8. CASE j > e + 1
  <2>1. /\ j - 1 \in 1..Len(list) /\ ~ (j - 1 <= e) /\ p[j] = list[j - 1]
    BY <1>1, <1>4, <1>8
  <2>2. CASE i <= e
    <3>1. i \in 1..Len(list) /\ i < j - 1 /\ p[i] = list[i]
      BY <1>1, <1>4, <1>8, <2>2
    <3>2. QED BY <2>1, <3>1 DEF Sorted
  <2>3. CASE i = e + 1
    <3>1. p[i] = t BY <1>1, <1>4, <2>3
    <3>2. ~ (ds[list[j - 1]] <= ds[t]) BY <2>1, <1>2
    <3>3. QED BY <2>1, <3>1, <3>2, <1>3
  <2>4. CASE i > e + 1
    <3>1. i - 1 \in 1..Len(list) /\ i - 1 < j - 1 /\ p[i] = list[i - 1]
      BY <1>1, <1>4, <1>5, <2>4
    <3>2. QED BY <2>1, <3>1 DEF Sorted
  <2>5. QED BY <2>2, <2>3, <2>4, <1>1
<1>9. QED BY <1>6, <1>7, <1>8, <1>1

(* How long the tests of a queue other than the user queue wait *)
WaitTime(q) ==
    CASE q = "slow" -> Slow
      [] q = "normal" -> Normal
      [] q = "fast" -> Fast
      [] OTHER -> 0

(* QueuedOnce and HeadIsSoonest, of one queue; the order of a queue that   *)
(* tests are pushed on rests on none of them waiting longer than the last. *)
QueueFine(q) ==
    /\ NoDuplicates(queue[q])
    /\ \A t \in Tests : ListFind(queue[q], t) <=> queued[t] = q
    /\ Sorted(queue[q], due)
    /\ \A t \in Tests : queued[t] = q => q = "user" \/ due[t] <= WaitTime(q)

QInv == \A q \in QueueNames : QueueFine(q)

LEMMA KeptQueues ==
    ASSUME QInv, UNCHANGED queues
    PROVE  QInv'
BY DEF QInv, QueueFine, queues, Sorted

(* The queues without t are fine, whatever time t is given. *)
LEMMA WithoutFine ==
    ASSUME QueuesType, QInv, NEW t \in Tests, NEW q \in QueueNames,
           NEW ds \in [Tests -> Int], \A s \in Tests \ {t} : ds[s] = due[s]
    PROVE  /\ Without(t)[q] \in Seq(Tests)
           /\ NoDuplicates(Without(t)[q])
           /\ \A s \in Tests : ListFind(Without(t)[q], s) <=> queued[s] = q /\ s # t
           /\ Sorted(Without(t)[q], ds)
<1>1. /\ queue[q] \in Seq(Tests) /\ due \in [Tests -> Int]
      /\ NoDuplicates(queue[q]) /\ Sorted(queue[q], due)
      /\ \A s \in Tests : ListFind(queue[q], s) <=> queued[s] = q
  BY DEF QueuesType, QInv, QueueFine
<1>2. Without(t)[q] = IF q = queued[t] THEN ListRemove(queue[q], t) ELSE queue[q]
  BY DEF Without
<1>3. PICK l : l = Without(t)[q] OBVIOUS
<1>4. /\ l \in Seq(Tests) /\ NoDuplicates(l)
      /\ \A s \in Tests : ListFind(l, s) <=> queued[s] = q /\ s # t
      /\ Sorted(l, due)
  <2>1. CASE q = queued[t]
    <3>1. l = ListRemove(queue[q], t) BY <1>2, <1>3, <2>1
    <3>2. l \in Seq(Tests) BY <1>1, <3>1, RemoveType
    <3>3. NoDuplicates(l) BY <1>1, <3>1, RemoveNoDuplicates
    <3>4. \A s \in Tests : ListFind(l, s) <=> ListFind(queue[q], s) /\ s # t
      BY <1>1, <3>1, RemoveFind
    <3>5. Sorted(l, due) BY <1>1, <3>1, SortedRemove
    <3>6. QED BY <1>1, <3>2, <3>3, <3>4, <3>5
  <2>2. CASE q # queued[t]
    <3>1. l = queue[q] BY <1>2, <1>3, <2>2
    <3>2. QED BY <1>1, <2>2, <3>1
  <2>3. QED BY <2>1, <2>2
<1>5. \A i \in 1..Len(l) : ds[l[i]] = due[l[i]]
  <2>1. SUFFICES ASSUME NEW i \in 1..Len(l) PROVE l[i] \in Tests \ {t} OBVIOUS
  <2>2. l[i] \in Tests /\ ListFind(l, l[i]) BY <1>4 DEF ListFind
  <2>3. QED BY <1>4, <2>2
<1>6. Sorted(l, ds) BY <1>4, <1>5 DEF Sorted
<1>7. QED BY <1>3, <1>4, <1>6

(* A test put in its place on a queue leaves every queue fine. *)
LEMMA PlaceFine ==
    ASSUME QueuesType, QInv, NEW t \in Tests, NEW q \in QueueNames, NEW d \in Int,
           q = "user" \/ d = WaitTime(q), Place(t, q, d)
    PROVE  QInv'
<1> DEFINE list == IF q = "user"
                   THEN ListInsert(Without(t)[q], Earlier(Without(t)[q], due', d), t)
                   ELSE ListPush(Without(t)[q], t)
<1>1. Without(t) \in [QueueNames -> Seq(Tests)] BY WithoutType
<1>2. /\ due' = [due EXCEPT ![t] = d]
      /\ queue' = [Without(t) EXCEPT ![q] = list]
      /\ queued' = [queued EXCEPT ![t] = q]
  BY DEF Place
<1>3. PICK ds \in [Tests -> Int] :
         ds = due' /\ ds[t] = d /\ \A s \in Tests \ {t} : ds[s] = due[s]
  BY <1>2 DEF QueuesType
<1>4. \A s \in Tests : queued'[s] = IF s = t THEN q ELSE queued[s]
  BY <1>2 DEF QueuesType
<1>5. \A u \in QueueNames :
         /\ Without(t)[u] \in Seq(Tests)
         /\ NoDuplicates(Without(t)[u])
         /\ \A s \in Tests : ListFind(Without(t)[u], s) <=> queued[s] = u /\ s # t
         /\ Sorted(Without(t)[u], ds)
  BY <1>3, WithoutFine
<1>6. PICK l \in Seq(Tests) : l = Without(t)[q] BY <1>5
<1>7. /\ NoDuplicates(l) /\ Sorted(l, ds) /\ ~ ListFind(l, t)
      /\ \A s \in Tests : ListFind(l, s) <=> queued[s] = q /\ s # t
  BY <1>5, <1>6
<1>8. /\ NoDuplicates(list) /\ Sorted(list, ds)
      /\ \A s \in Tests : ListFind(list, s) <=> ListFind(l, s) \/ s = t
  <2>1. CASE q = "user"
    <3>1. PICK e \in 0..Len(l) : e = Earlier(l, ds, d) BY EarlierRange
    <3>2. list = ListInsert(l, e, t) BY <1>3, <1>6, <2>1, <3>1
    <3>3. NoDuplicates(list) BY <1>7, <3>2, InsertNoDuplicates
    <3>4. \A s \in Tests : ListFind(list, s) <=> ListFind(l, s) \/ s = t
      BY <1>7, <3>2, InsertFind
    <3>5. Sorted(list, ds) BY <1>3, <1>7, <3>1, <3>2, SortedInsert
    <3>6. QED BY <3>3, <3>4, <3>5
  <2>2. CASE q # "user"
    <3>1. list = ListPush(l, t) BY <1>6, <2>2
    <3>2. NoDuplicates(list) BY <1>7, <3>1, PushNoDuplicates
    <3>3. \A s \in Tests : ListFind(list, s) <=> ListFind(l, s) \/ s = t
      BY <3>1, PushFind
    <3>4. \A i \in 1..Len(l) : ds[l[i]] <= ds[t]
      <4>1. SUFFICES ASSUME NEW i \in 1..Len(l) PROVE ds[l[i]] <= WaitTime(q)
        BY <1>3, <2>2
      <4>2. l[i] \in Tests /\ ListFind(l, l[i]) BY DEF ListFind
      <4>3. queued[l[i]] = q /\ l[i] # t BY <1>7, <4>2
      <4>4. due[l[i]] <= WaitTime(q) BY <2>2, <4>2, <4>3 DEF QInv, QueueFine
      <4>5. QED BY <1>3, <4>2, <4>3, <4>4
    <3>5. Sorted(list, ds) BY <1>7, <3>1, <3>4, SortedPush
    <3>6. QED BY <3>2, <3>3, <3>5
  <2>3. QED BY <2>1, <2>2
<1> HIDE DEF list
<1>9. ASSUME NEW u \in QueueNames PROVE QueueFine(u)'
  <2>1. \A s \in Tests : queued'[s] = u => u = "user" \/ due'[s] <= WaitTime(u)
    <3>1. SUFFICES ASSUME NEW s \in Tests, queued'[s] = u, u # "user"
                   PROVE  due'[s] <= WaitTime(u)
      OBVIOUS
    <3>2. CASE s = t
      <4>1. u = q /\ due'[s] = WaitTime(u) /\ WaitTime(u) \in Int
        BY <1>3, <1>4, <3>1, <3>2
      <4>2. QED BY <4>1
    <3>3. CASE s # t
      <4>1. queued[s] = u /\ due'[s] = due[s] BY <1>3, <1>4, <3>1, <3>3
      <4>2. QED BY <3>1, <4>1 DEF QInv, QueueFine
    <3>4. QED BY <3>2, <3>3
  <2>2. CASE u = q
    <3>1. queue'[u] = list BY <1>1, <1>2, <2>2
    <3>2. \A s \in Tests : ListFind(list, s) <=> queued'[s] = q
      BY <1>4, <1>7, <1>8
    <3>3. QED BY <1>3, <1>8, <2>1, <2>2, <3>1, <3>2 DEF QueueFine
  <2>3. CASE u # q
    <3>1. queue'[u] = Without(t)[u] BY <1>1, <1>2, <2>3
    <3>2. \A s \in Tests : ListFind(Without(t)[u], s) <=> queued'[s] = u
      BY <1>4, <1>5, <2>3
    <3>3. QED BY <1>3, <1>5, <2>1, <3>1, <3>2 DEF QueueFine
  <2>4. QED BY <2>2, <2>3
<1>10. QED BY <1>9 DEF QInv

LEMMA RemoveFine ==
    ASSUME QueuesType, QInv, NEW t \in Tests, RemoveTest(t)
    PROVE  QInv'
<1>1. /\ queue' = Without(t) /\ due' = due
      /\ queued' = [queued EXCEPT ![t] = "none"]
  BY DEF RemoveTest
<1>2. ASSUME NEW u \in QueueNames PROVE QueueFine(u)'
  <2>1. /\ NoDuplicates(Without(t)[u])
        /\ \A s \in Tests : ListFind(Without(t)[u], s) <=> queued[s] = u /\ s # t
        /\ Sorted(Without(t)[u], due)
    BY WithoutFine DEF QueuesType
  <2>2. \A s \in Tests : queued'[s] = u <=> queued[s] = u /\ s # t
    BY <1>1 DEF QueuesType, QueueNames
  <2>3. \A s \in Tests : queued[s] = u => u = "user" \/ due[s] <= WaitTime(u)
    BY DEF QInv, QueueFine
  <2>4. QED BY <1>1, <2>1, <2>2, <2>3 DEF QueueFine
<1>3. QED BY <1>2 DEF QInv

(* A test is added to a queue whose tests wait as long as it does. *)
LEMMA QueueForWaits ==
    ASSUME NEW p
    PROVE  /\ QueueFor(p) \in QueueNames
           /\ QueueFor(p) = "user" \/ p = WaitTime(QueueFor(p))
BY DEF QueueFor, WaitTime, QueueNames

LEMMA AddFine ==
    ASSUME QueuesType, QInv, NEW t \in Tests, AddTest(t), period'[t] \in Periods
    PROVE  QInv'
<1> DEFINE wanted == IF t \in Polled THEN QueueFor(period'[t]) ELSE "user"
           delay == IF t \in Polled THEN period'[t] ELSE Autopass
<1>1. /\ wanted \in QueueNames
      /\ wanted = "user" \/ delay = WaitTime(wanted)
  <2>1. "user" \in QueueNames BY DEF QueueNames
  <2>2. QED BY <2>1, QueueForWaits
<1>2. delay \in Int
  <2>1. period'[t] \in Nat BY Zenon DEF TimesAssumption
  <2>2. QED BY <2>1
<1>3. UNCHANGED queues \/ Place(t, wanted, delay) BY DEF AddTest
<1> HIDE DEF wanted, delay
<1>4. QED BY <1>1, <1>2, <1>3, KeptQueues, PlaceFine

LEMMA AddIfPolledFine ==
    ASSUME QueuesType, QInv, NEW t \in Tests, AddIfPolled(t), period'[t] \in Periods
    PROVE  QInv'
<1>1. UNCHANGED queues \/ AddTest(t) BY DEF AddIfPolled
<1>2. QED BY <1>1, KeptQueues, AddFine

LEMMA RemoveIfPolledFine ==
    ASSUME QueuesType, QInv, NEW t \in Tests, RemoveIfPolled(t)
    PROVE  QInv'
<1>1. UNCHANGED queues \/ RemoveTest(t) BY DEF RemoveIfPolled
<1>2. QED BY <1>1, KeptQueues, RemoveFine

(* A test that is taken off a queue is the one its field queued named.     *)
LEMMA DequeueFine ==
    ASSUME IInv, QInv, NEW q \in QueueNames, Dequeue(q)
    PROVE  QInv'
<1>1. /\ QueuesType
      /\ queue[q] \in Seq(Tests) /\ queue[q] # <<>> /\ due \in [Tests -> Int]
      /\ QueueFine(q)
  BY DEF IInv, QueuesType, Dequeue, QInv
<1>2. PICK t \in Tests : t = Head(queue[q]) BY <1>1
<1>3. PICK l \in Seq(Tests) : l = ListRest(queue[q]) BY <1>1, RestFacts
<1>4. /\ NoDuplicates(l)
      /\ \A s \in Tests : ListFind(l, s) <=> queued[s] = q /\ s # t
      /\ queued[t] = q
  <2>1. NoDuplicates(l) /\ ~ ListFind(l, t)
    BY <1>1, <1>2, <1>3, RestNoDuplicates DEF QueueFine
  <2>2. \A s \in Tests : ListFind(queue[q], s) <=> ListFind(l, s) \/ s = t
    BY <1>1, <1>2, <1>3, RestFind
  <2>3. QED BY <1>1, <2>1, <2>2 DEF QueueFine
<1>5. Sorted(l, due)
  <2>1. /\ Len(l) = Len(queue[q]) - 1 /\ Len(queue[q]) \in Nat \ {0}
        /\ \A i \in 1..Len(queue[q]) - 1 : l[i] = queue[q][i + 1]
    BY <1>1, <1>3 DEF ListRest
  <2>2. SUFFICES ASSUME NEW i \in 1..Len(l), NEW j \in 1..Len(l), i < j
                 PROVE  due[l[i]] <= due[l[j]]
    BY DEF Sorted
  <2>3. /\ i + 1 \in 1..Len(queue[q]) /\ j + 1 \in 1..Len(queue[q])
        /\ i + 1 < j + 1 /\ l[i] = queue[q][i + 1] /\ l[j] = queue[q][j + 1]
    BY <2>1, <2>2
  <2>4. QED BY <1>1, <2>3 DEF QueueFine, Sorted
<1>6. /\ queue' = [queue EXCEPT ![q] = l] /\ due' = due
      /\ queued' = [queued EXCEPT ![t] = "none"]
  BY <1>1, <1>2, <1>3 DEF Dequeue, ListRest
<1>7. ASSUME NEW u \in QueueNames PROVE QueueFine(u)'
  <2>1. QueueFine(u) BY DEF QInv
  <2>2. \A s \in Tests : queued'[s] = u <=> queued[s] = u /\ s # t
    BY <1>1, <1>6 DEF QueuesType, QueueNames
  <2>3. CASE u = q
    <3>1. queue'[u] = l BY <1>1, <1>6, <2>3 DEF QueuesType
    <3>2. QED BY <1>4, <1>5, <1>6, <2>1, <2>2, <2>3, <3>1 DEF QueueFine
  <2>4. CASE u # q
    <3>1. queue'[u] = queue[u] BY <1>1, <1>6, <2>4 DEF QueuesType
    <3>2. queued[t] # u BY <1>4, <2>4
    <3>3. QED BY <1>6, <2>1, <2>2, <3>1, <3>2 DEF QueueFine
  <2>5. QED BY <2>3, <2>4
<1>8. QED BY <1>7 DEF QInv

(* Time passes for all tests alike. *)
LEMMA TickFine ==
    ASSUME IInv, QInv, Tick
    PROVE  QInv'
<1>1. /\ \A q \in QueueNames : queue[q] \in Seq(Tests)
      /\ due \in [Tests -> Int]
      /\ UNCHANGED <<queue, queued>>
      /\ due' = [t \in Tests |-> IF due[t] < 0 THEN due[t] ELSE due[t] - 1]
  BY DEF IInv, QueuesType, Tick
<1>2. \A s, t \in Tests : due[s] <= due[t] => due'[s] <= due'[t] BY <1>1
<1>3. \A t \in Tests : due'[t] \in Int /\ due'[t] <= due[t] BY <1>1
<1>4. ASSUME NEW q \in QueueNames PROVE QueueFine(q)'
  <2>1. QueueFine(q) /\ queue[q] \in Seq(Tests) BY <1>1 DEF QInv
  <2>2. Sorted(queue[q], due')
    <3>1. \A i \in 1..Len(queue[q]) : queue[q][i] \in Tests BY <2>1
    <3>2. QED BY <1>2, <2>1, <3>1 DEF QueueFine, Sorted
  <2>3. \A t \in Tests : queued[t] = q => q = "user" \/ due'[t] <= WaitTime(q)
    <3>1. q # "user" => WaitTime(q) \in Int
      BY DEF TimesAssumption, WaitTime, QueueNames
    <3>2. SUFFICES ASSUME NEW t \in Tests, queued[t] = q, q # "user"
                   PROVE  due'[t] <= WaitTime(q)
      OBVIOUS
    <3>3. due[t] <= WaitTime(q) BY <2>1, <3>2 DEF QueueFine
    <3>4. due[t] \in Int BY <1>1
    <3>5. QED BY <1>3, <3>1, <3>2, <3>3, <3>4
  <2>4. QED BY <1>1, <2>1, <2>2, <2>3 DEF QueueFine
<1>5. QED BY <1>4 DEF QInv

(* No call but a second creation disturbs the queues otherwise. *)
LEMMA ClientFine ==
    ASSUME ~ MayRecreate, IInv, ConfigType', QInv, NEW t \in Tests, Client(t)
    PROVE  QInv'
<1>1. QueuesType /\ period'[t] \in Periods BY DEF IInv, ConfigType
<1>2. CASE Immediate(t)
  <2>1. "immediate" \in QueueNames /\ WaitTime("immediate") = 0
    BY DEF QueueNames, WaitTime
  <2>2. UNCHANGED queues \/ Place(t, "immediate", 0) BY <1>2 DEF Immediate
  <2>3. QED BY <1>1, <2>1, <2>2, KeptQueues, PlaceFine
<1>3. CASE Delete(t) BY <1>1, <1>3, RemoveFine DEF Delete
<1>4. CASE MemberDelete(t)
  BY <1>1, <1>4, RemoveIfPolledFine, KeptQueues DEF MemberDelete
<1>5. CASE \E result \in Results : Notify(t, result)
  BY <1>5, KeptQueues DEF Notify
<1>6. ASSUME NEW p \in Periods, Create(t, p) PROVE QInv'
  <2>1. ~ Exists(t) /\ t \notin Members BY <1>6 DEF Create
  <2>2. queued[t] = "none" BY <2>1 DEF IInv, FineAt
  <2>3. UNCHANGED queues BY <1>1, <1>6, <2>2 DEF Create, QueuesType, queues
  <2>4. QED BY <2>3, KeptQueues
<1>7. ASSUME NEW p \in Periods, Configure(t, p) PROVE QInv'
  <2>1. p \in Nat BY Zenon DEF TimesAssumption
  <2>2. Place(t, QueueFor(p), p) \/ RemoveTest(t) BY <1>7 DEF Configure
  <2>3. QED BY <1>1, <2>1, <2>2, QueueForWaits, PlaceFine, RemoveFine
<1>8. CASE \E s \in {"enabled", "disabled"} : ChainReady(t, s)
  BY <1>1, <1>8, AddIfPolledFine, KeptQueues DEF ChainReady
<1>9. CASE \E whole \in Whole(t) :
               \/ Default(t, whole)
               \/ \E cli \in BOOLEAN : Enable(t, cli, whole) \/ Disable(t, cli, whole)
  <2>1. AddIfPolled(t) \/ RemoveIfPolled(t) \/ RemoveTest(t) \/ UNCHANGED queues
    BY <1>9 DEF Default, Enable, Disable
  <2>2. QED
    BY <1>1, <2>1, AddIfPolledFine, RemoveIfPolledFine, RemoveFine, KeptQueues
<1>10. CASE \E cli, agree \in BOOLEAN :
               CompEnable(t, cli, agree) \/ CompDisable(t, cli, agree)
  <2>1. AddIfPolled(t) \/ RemoveIfPolled(t) \/ UNCHANGED queues
    BY <1>10 DEF CompEnable, CompDisable
  <2>2. QED BY <1>1, <2>1, AddIfPolledFine, RemoveIfPolledFine, KeptQueues
<1>11. ASSUME NEW p \in Periods, InstanceCreate(t, p) PROVE QInv'
  BY <1>1, <1>11, AddIfPolledFine DEF InstanceCreate
<1>12. QED
  BY <1>2, <1>3, <1>4, <1>5, <1>6, <1>7, <1>8, <1>9, <1>10, <1>11 DEF Client

LEMMA QInductive ==
    ASSUME ~ MayRecreate
    PROVE  IInv /\ IInv' /\ QInv /\ [Next]_vars => QInv'
<1> SUFFICES ASSUME IInv, IInv', QInv, [Next]_vars PROVE QInv' OBVIOUS
<1>1. QueuesType /\ ConfigType' BY DEF IInv
<1>2. CASE SchedThread
  BY <1>2, DequeueFine, KeptQueues DEF SchedThread, Wake, EndCheck
<1>3. CASE Tick BY <1>3, TickFine
<1>4. CASE Expire BY <1>4, KeptQueues DEF Expire
<1>5. CASE \E t \in Tests : Sequencer(t)
  <2>1. PICK t \in Tests : Sequencer(t) BY <1>5
  <2>2. UNCHANGED queues \/ AddTest(t)
    BY <2>1 DEF Sequencer, Run, EndRun, RunInProgress, TestResult, TestResultRci
  <2>3. QED BY <1>1, <2>2, KeptQueues, AddFine DEF ConfigType
<1>6. CASE \E t \in Tests : Client(t) BY <1>1, <1>6, ClientFine
<1>7. CASE UNCHANGED vars BY <1>7, KeptQueues DEF vars
<1>8. QED BY <1>2, <1>3, <1>4, <1>5, <1>6, <1>7 DEF Next

LEMMA QInitially == Init => QInv
BY DEF Init, QInv, QueueFine, Sorted, NoDuplicates, ListFind, QueueNames

LEMMA QInvariance ==
    ASSUME ~ MayRecreate
    PROVE  Spec => []QInv
<1>1. QED BY QInitially, QInductive, Invariance, PTL DEF Spec

(* Unless a test is created while it exists, it is on the queue its field  *)
(* queued names, whatever handlers and the scheduler do in between.        *)
THEOREM FieldTellsQueue ==
    ASSUME ~ MayRecreate
    PROVE  Spec => []QueuedOnce
<1>1. QInv => QueuedOnce BY DEF QInv, QueueFine, QueuedOnce
<1>2. QED BY <1>1, QInvariance, PTL

(* Unless a test is created while it exists, the head of a queue is the    *)
(* soonest test of it: those that look at the heads miss none.             *)
THEOREM HeadsAreSoonest ==
    ASSUME ~ MayRecreate
    PROVE  Spec => []HeadIsSoonest
<1>1. QInv => HeadIsSoonest BY DEF QInv, QueueFine, Sorted, HeadIsSoonest
<1>2. QED BY <1>1, QInvariance, PTL
=============================================================================
