----------------------------- MODULE Scheduler -----------------------------
(***************************************************************************)
(* The scheduler of myrefl_sched.c: the queues of tests that wait for      *)
(* their time, the thread that takes them off when it has come, the timer  *)
(* that wakes that thread, and what its callers do to a test meanwhile:    *)
(* the sequencer that reschedules it when it has run, and the API and the  *)
(* CLI that create, enable, disable, configure and delete it.              *)
(*                                                                         *)
(* A handler holds the object DB lock from its start to its end, except    *)
(* while a test runs, so it is one action.  The scheduler thread holds it  *)
(* from its first look at the queues to its last.                          *)
(*                                                                         *)
(* Time is counted in ticks.  due[t] is next_time minus now: a test may be *)
(* started when it is negative, XOS_TIME_LT(next_time, now).               *)
(*                                                                         *)
(* What is queued is an instance, and a test here is one: the primary      *)
(* instance that comes with a test, or, in Members, one that was created   *)
(* for it later.  A call for a whole test is an action of each of its      *)
(* instances, so that others may come in between.  Of a member's primary   *)
(* instance the model keeps nothing: what a call finds of it is left open. *)
(* An instance is its memory: when one has been deleted and its name is    *)
(* created again while the old one is queued, the new one is another test. *)
(* The model starts when myrefl_sched_init is done                         *)
(* and no test exists; a test created earlier is added by it in the same   *)
(* way.  An instance that is enabled, disabled or configured before it is  *)
(* created is a forward reference, no business of the scheduler, and left  *)
(* out.  myrefl_stop is left to ThreadPool; recover_schedular is not       *)
(* registered anywhere and never called.                                   *)
(*                                                                         *)
(* An operator whose name starts with Bug is no part of Next: it is what   *)
(* the definition after it would be with a slip that a property catches.   *)
(***************************************************************************)
EXTENDS MyreflList, Integers, FiniteSets

CONSTANTS Polled,               \* the tests of OBJ_TEST_TYPE_POLLED
          Notified,             \* the notification tests
          Members,              \* those that are no primary instances
          Autopassed,           \* those whose autopass is set
          Autopass,             \* to this many ticks
          Fast, Normal, Slow,   \* MYREFL_PERIOD_..., in ticks
          Periods,              \* the periods tests are created or configured with
          MayRecreate,          \* whether a test that exists may be created again
          MaxCalls              \* bound: calls of the API, the CLI and RCI

Tests == Polled \cup Notified

ASSUME TestsAssumption ==
    /\ Polled \cap Notified = {} /\ Autopassed \subseteq Notified
    /\ Members \subseteq Tests
ASSUME TimesAssumption ==
    /\ Fast \in Nat /\ Normal \in Nat /\ Slow \in Nat
    /\ Periods \subseteq Nat /\ Autopass \in Nat
ASSUME CallsAssumption == MaxCalls \in Nat

VARIABLES
    queue,         \* test_queues[q].queue
    queued,        \* sched_test.queued
    due,           \* sched_test.next_time, from now
    timer,         \* ticks until test_start_timer expires; 0: not running
    signal,        \* it expired and its signal is not handled yet
    workToDo,      \* sched_thread->xos->work_to_do
    spc,           \* where sched_thread_main is
    state,         \* instance->state
    defaultState,  \* instance->default_state
    cliState,      \* instance->cli_state
    period,        \* test->period
    defaultPeriod, \* test->default_period
    lastResult,    \* instance->last_result
    jobs,          \* the jobs of each kind the sequencer has for a test
    owed,          \* tests that returned MYREFL_RESULT_IN_PROGRESS
    calls          \* the calls made so far

queues == <<queue, queued, due>>
wakeup == <<timer, signal, workToDo, spc>>
config == <<state, defaultState, cliState, period, defaultPeriod>>
results == <<lastResult, jobs, owed>>
vars == <<queues, wakeup, config, results, calls>>

QueueNames == {"immediate", "fast", "normal", "slow", "user"}

(* What the sequencer is asked to do: run the test, take a notified result, *)
(* feed the last result to root cause identification.                      *)
JobKinds == {"run", "pass", "fail", "rci"}

(* OBJ_STATE_INITIALIZED is "unset", that of a forward reference; "none"   *)
(* is a test that does not exist, or is deleted                            *)
States == {"none", "unset", "created", "enabled", "disabled"}
Created == {"created", "enabled", "disabled"}

Exists(t) == state[t] # "none"

(* Nobody reads the period of a test before it is created *)
Init ==
    /\ queue = [q \in QueueNames |-> <<>>]
    /\ queued = [t \in Tests |-> "none"]
    /\ due = [t \in Tests |-> 0]
    /\ timer = 0
    /\ signal = FALSE
    /\ workToDo = FALSE
    /\ spc = "check"
    /\ state = [t \in Tests |-> "none"]
    /\ defaultState = [t \in Tests |-> "unset"]
    /\ cliState = [t \in Tests |-> "unset"]
    /\ \E p \in Periods : period = [t \in Tests |-> p]
    /\ defaultPeriod = period
    /\ lastResult = [t \in Tests |-> "pass"]
    /\ jobs = [t \in Tests |-> [k \in JobKinds |-> 0]]
    /\ owed = {}
    /\ calls = 0

-----------------------------------------------------------------------------
(* The queues and the timer *)

(* When the head of each queue that is not empty is due *)
HeadTimes(qs, ds) == {ds[Head(qs[q])] : q \in {p \in QueueNames : qs[p] # <<>>}}

BugPadding == 0   \* the timer expires when a test is due, not past it

(* The timer expires a little later than a test is due, so that the test   *)
(* is found to be due by then.                                             *)
Padding == 1

BugCheckTestStartTimer(qs, ds) ==   \* a timer that runs is left to run
    IF timer > 0 \/ HeadTimes(qs, ds) = {}
    THEN UNCHANGED <<timer, workToDo>>
    ELSE \E soonest \in HeadTimes(qs, ds) :
            /\ \A d \in HeadTimes(qs, ds) : soonest <= d
            /\ IF soonest < 0
               THEN workToDo' = TRUE /\ UNCHANGED timer
               ELSE timer' = soonest + Padding /\ UNCHANGED workToDo

(* check_test_start_timer: the thread is released if a test is overdue,    *)
(* or the timer is restarted for the soonest one; starting it with a delay *)
(* of zero would stop it.  What is released already stays so.              *)
CheckTestStartTimer(qs, ds) ==
    \/ /\ HeadTimes(qs, ds) = {}
       /\ UNCHANGED <<timer, workToDo>>
    \/ \E soonest \in HeadTimes(qs, ds) :
          /\ \A d \in HeadTimes(qs, ds) : soonest <= d
          /\ IF soonest < 0
             THEN workToDo' = TRUE /\ UNCHANGED timer
             ELSE timer' = soonest + Padding /\ UNCHANGED workToDo

BugWithout(t) == queue   \* queued is changed, the list forgotten

(* The queues without t, wherever its field queued says it is *)
Without(t) ==
    [q \in QueueNames |-> IF q = queued[t] THEN ListRemove(queue[q], t) ELSE queue[q]]

BugEarlier(list, ds, d) == Len(list)   \* always to the tail

(* The number of tests of a user queue that a test due in d goes behind,   *)
(* with ds the times of them all: those before the first that is due later *)
Earlier(list, ds, d) ==
    Cardinality({n \in 1..Len(list) : \A i \in 1..n : ds[list[i]] <= d})

(* t goes to its place on q, to be started in d ticks.  The user queue is  *)
(* sorted; the tests of every other one wait equally long.                 *)
Place(t, q, d) ==
    LET rest == Without(t)
    IN  /\ due' = [due EXCEPT ![t] = d]
        /\ queue' = [rest EXCEPT ![q] = IF q = "user"
                                        THEN ListInsert(@, Earlier(@, due', d), t)
                                        ELSE ListPush(@, t)]
        /\ queued' = [queued EXCEPT ![t] = q]
        /\ CheckTestStartTimer(queue', due')
        /\ UNCHANGED <<signal, spc>>

(* myrefl_sched_remove_test *)
RemoveTest(t) ==
    /\ queue' = Without(t)
    /\ queued' = [queued EXCEPT ![t] = "none"]
    /\ due' = due
    /\ CheckTestStartTimer(queue', due)
    /\ UNCHANGED <<signal, spc>>

QueueFor(p) ==
    CASE p = Slow -> "slow"
      [] p = Normal -> "normal"
      [] p = Fast -> "fast"
      [] OTHER -> "user"

(* myrefl_sched_add_test, for what state[t], period[t] and lastResult[t]   *)
(* have become: a polled test is added by its period, a notification test  *)
(* that failed to pass by itself.  A test on the queue already stays there, *)
(* but for a user period its time starts again.                            *)
AddTest(t) ==
    LET wanted == IF t \in Polled THEN QueueFor(period'[t]) ELSE "user"
        delay == IF t \in Polled THEN period'[t] ELSE Autopass
        ignored == \/ state'[t] # "enabled"
                   \/ t \in Notified /\ ~ (t \in Autopassed /\ lastResult'[t] = "fail")
                   \/ queued[t] = wanted /\ wanted # "user"
    IN  IF ignored THEN UNCHANGED <<queues, wakeup>> ELSE Place(t, wanted, delay)

(* Callers that add, or remove, polled tests only *)
AddIfPolled(t) == IF t \in Polled THEN AddTest(t) ELSE UNCHANGED <<queues, wakeup>>
RemoveIfPolled(t) == IF t \in Polled THEN RemoveTest(t) ELSE UNCHANGED <<queues, wakeup>>

-----------------------------------------------------------------------------
(* sched_thread_main and the timer *)

(* The scheduler thread holds the DB lock while it looks at the queues *)
Unlocked == spc # "check"

(* myrefl_xos_thread_wait, then myrefl_obj_db_lock *)
Wake ==
    /\ spc = "wait" /\ workToDo
    /\ spc' = "check"
    /\ workToDo' = FALSE
    /\ UNCHANGED <<queues, timer, signal, config, results, calls>>

AddJob(t, kind) == jobs' = [jobs EXCEPT ![t][kind] = @ + 1]

(* check_queue_test_times finds the head of a queue overdue:               *)
(* dequeue_test_for_start takes it off and asks the sequencer to run a     *)
(* polled test, to pass one that waited for its autopass, or to feed the   *)
(* last result to root cause identification.  The queues are served in     *)
(* turn; the model leaves the turn open.  A deleted test is dropped; that  *)
(* its field queued is left as it was, nobody sees any more.               *)
Dequeue(q) ==
    /\ spc = "check" /\ queue[q] # <<>>
    /\ LET t == Head(queue[q])
       IN  /\ due[t] < 0
           /\ queue' = [queue EXCEPT ![q] = Tail(@)]
           /\ queued' = [queued EXCEPT ![t] = "none"]
           /\ IF Exists(t)
              THEN AddJob(t, IF t \in Polled THEN "run"
                             ELSE IF queued[t] = "user" THEN "pass" ELSE "rci")
              ELSE UNCHANGED jobs
    /\ UNCHANGED <<due, wakeup, config, lastResult, owed, calls>>

(* No head is overdue any more: check_test_start_timer, and wait *)
EndCheck ==
    /\ spc = "check"
    /\ \A d \in HeadTimes(queue, due) : d >= 0
    /\ CheckTestStartTimer(queue, due)
    /\ spc' = "wait"
    /\ UNCHANGED <<queues, signal, config, results, calls>>

(* Time passes, but not while the scheduler thread looks at the queues,    *)
(* which reads the clock once.                                             *)
Tick ==
    /\ Unlocked
    /\ due' = [t \in Tests |-> IF due[t] < 0 THEN due[t] ELSE due[t] - 1]
    /\ timer' = IF timer = 0 THEN 0 ELSE timer - 1
    /\ signal' = (signal \/ timer = 1)
    /\ UNCHANGED <<queue, queued, workToDo, spc, config, results, calls>>

(* signal_handler: a timer that has been started again in the meantime is  *)
(* not expired; test_start_timer_expired releases the thread               *)
Expire ==
    /\ signal
    /\ signal' = FALSE
    /\ workToDo' = (workToDo \/ timer = 0)
    /\ UNCHANGED <<queues, timer, spc, config, results, calls>>

-----------------------------------------------------------------------------
(* seq_sequencer, when a worker has got a job *)

Results == {"pass", "fail"}

TakeJob(t, kind) ==
    /\ Unlocked
    /\ jobs[t][kind] > 0
    /\ jobs' = [jobs EXCEPT ![t][kind] = @ - 1]

BugEndRun(t) ==   \* a result such as an abort returns before the test is added
    /\ TakeJob(t, "run")
    /\ UNCHANGED <<queues, wakeup, config, lastResult, owed, calls>>

(* A polled test has run and has a result: recorded, the test rescheduled *)
EndRun(t) ==
    /\ TakeJob(t, "run")
    /\ \E result \in Results : lastResult' = [lastResult EXCEPT ![t] = result]
    /\ UNCHANGED <<config, owed, calls>>
    /\ AddTest(t)

(* A polled test has run but will notify its result later *)
RunInProgress(t) ==
    /\ TakeJob(t, "run")
    /\ owed' = owed \cup {t}
    /\ UNCHANGED <<queues, wakeup, config, lastResult, calls>>

(* A notified, or an automatic, result: recorded, the test rescheduled *)
TestResult(t, result) ==
    /\ TakeJob(t, result)
    /\ lastResult' = [lastResult EXCEPT ![t] = result]
    /\ owed' = owed \ {t}
    /\ UNCHANGED <<config, calls>>
    /\ AddTest(t)

(* The result that RCI asked for once more: rescheduled, not recorded *)
TestResultRci(t) ==
    /\ TakeJob(t, "rci")
    /\ UNCHANGED <<config, lastResult, owed, calls>>
    /\ AddTest(t)

Run(t) == EndRun(t) \/ RunInProgress(t)

Sequencer(t) ==
    \/ Run(t)
    \/ \E result \in Results : TestResult(t, result)
    \/ TestResultRci(t)

-----------------------------------------------------------------------------
(* The API, the CLI and RCI, under the DB lock *)

Call == Unlocked /\ calls < MaxCalls /\ calls' = calls + 1

(* myrefl_sched_test_immediate: a polled test that is not queued runs      *)
Immediate(t) ==
    /\ Call
    /\ Exists(t)
    /\ IF queued[t] = "immediate" \/ (queued[t] = "none" /\ t \in Polled)
       THEN UNCHANGED <<queues, wakeup>>
       ELSE Place(t, "immediate", 0)
    /\ UNCHANGED <<config, results>>

(* myrefl_test_notify *)
Notify(t, result) ==
    /\ Call
    /\ state[t] = "enabled"
    /\ AddJob(t, result)
    /\ UNCHANGED <<queues, wakeup, config, lastResult, owed>>

(* p is a period t may be created with; a notification test is given none  *)
CreatedWith(t, p) == t \in Polled \/ p = period[t]

(* myrefl_test_create_polled, myrefl_test_create_notification.  A new test *)
(* has a structure of its own; one that exists keeps its own.              *)
Create(t, p) ==
    /\ t \notin Members /\ CreatedWith(t, p)
    /\ IF Exists(t) THEN MayRecreate /\ Call ELSE Unlocked /\ UNCHANGED calls
    /\ state' = [state EXCEPT ![t] = "created"]
    /\ period' = [period EXCEPT ![t] = p]
    /\ defaultPeriod' = [defaultPeriod EXCEPT ![t] = p]
    /\ queued' = [queued EXCEPT ![t] = "none"]
    /\ UNCHANGED <<queue, due, wakeup, defaultState, cliState, results>>

(* myrefl_instance_create: a member takes after the primary instance, and  *)
(* is added at once if that is enabled.                                    *)
InstanceCreate(t, p) ==
    /\ Call
    /\ t \in Members /\ ~ Exists(t) /\ queued[t] = "none" /\ CreatedWith(t, p)
    /\ \E s \in Created : state' = [state EXCEPT ![t] = s]
    /\ \E s \in {"unset", "enabled", "disabled"} :
          defaultState' = [defaultState EXCEPT ![t] = s]
    /\ period' = [period EXCEPT ![t] = p]
    /\ UNCHANGED <<cliState, defaultPeriod, results>>
    /\ AddIfPolled(t)

(* t is no valid object any more: what the sequencer still has to do for   *)
(* it comes to nothing                                                     *)
Discard(t) ==
    /\ state' = [state EXCEPT ![t] = "none"]
    /\ defaultState' = [defaultState EXCEPT ![t] = "unset"]
    /\ cliState' = [cliState EXCEPT ![t] = "unset"]
    /\ lastResult' = [lastResult EXCEPT ![t] = "pass"]
    /\ jobs' = [jobs EXCEPT ![t] = [k \in JobKinds |-> 0]]
    /\ owed' = owed \ {t}
    /\ UNCHANGED <<period, defaultPeriod>>

BugDelete(t) ==   \* left to its queue, as the members of a notification test are
    /\ Call /\ Exists(t) /\ Discard(t)
    /\ UNCHANGED <<queues, wakeup>>

(* myrefl_test_delete of a primary instance, which myrefl_obj_delete then  *)
(* unlinks from the queues; myrefl_instance_delete of a member             *)
Delete(t) ==
    /\ Call /\ Exists(t) /\ Discard(t)
    /\ RemoveTest(t)

(* A member goes with its test.  myrefl_test_delete removes it if it is    *)
(* polled; where the test is but defaulted away, as one of its instances   *)
(* is a forward reference, no member is removed.                           *)
MemberDelete(t) ==
    /\ t \in Members
    /\ Call /\ Exists(t) /\ Discard(t)
    /\ \/ RemoveIfPolled(t)
       \/ period[t] = defaultPeriod[t] /\ UNCHANGED <<queues, wakeup>>

(* A call for a test looks at the state of its primary instance and does   *)
(* what it does to all; one for a member looks at the member's.            *)
Whole(t) == IF t \in Members THEN BOOLEAN ELSE {FALSE}
Admitted(t, whole) == Exists(t) /\ (whole \/ state[t] \in Created)

(* myrefl_test_chain_ready, with s the state of the component or the       *)
(* system; a member is added if the primary instance is enabled            *)
ChainReady(t, s) ==
    /\ Call
    /\ \E whole \in Whole(t) : Admitted(t, whole)
    /\ LET fallback == IF defaultState[t] = "unset" THEN s ELSE defaultState[t]
       IN  IF cliState[t] # "unset"
           THEN /\ state' = [state EXCEPT ![t] = cliState[t]]
                /\ UNCHANGED defaultState
           ELSE IF state[t] = "unset" THEN UNCHANGED <<state, defaultState>>
           ELSE /\ state' = [state EXCEPT ![t] = fallback]
                /\ defaultState' = [defaultState EXCEPT ![t] = fallback]
    /\ UNCHANGED <<cliState, period, defaultPeriod, results>>
    /\ \/ AddIfPolled(t)
       \/ t \in Members /\ UNCHANGED <<queues, wakeup>>

(* s is set by the CLI, or as the default by the API; the CLI prevails over *)
(* the API.  A forward reference keeps it for when it is created.          *)
SetState(t, s, cli, whole) ==
    /\ IF cli THEN cliState' = [cliState EXCEPT ![t] = s] /\ UNCHANGED defaultState
              ELSE defaultState' = [defaultState EXCEPT ![t] = s] /\ UNCHANGED cliState
    /\ state' = [state EXCEPT ![t] =
                    IF Admitted(t, whole) /\ cliState'[t] \in {"unset", s} THEN s ELSE @]
    /\ UNCHANGED <<period, defaultPeriod, results>>

(* myrefl_api_test_enable_guts *)
Enable(t, cli, whole) ==
    /\ Call
    /\ Exists(t)
    /\ SetState(t, "enabled", cli, whole)
    /\ IF Admitted(t, whole) THEN AddIfPolled(t) ELSE UNCHANGED <<queues, wakeup>>

(* myrefl_api_test_disable_guts *)
Disable(t, cli, whole) ==
    /\ Call
    /\ Exists(t)
    /\ SetState(t, "disabled", cli, whole)
    /\ IF Admitted(t, whole) THEN RemoveIfPolled(t) ELSE UNCHANGED <<queues, wakeup>>

(* myrefl_api_test_default: back to the defaults; a test with a forward    *)
(* reference that has nothing but defaults is deleted                      *)
Default(t, whole) ==
    /\ Call
    /\ \/ /\ Admitted(t, whole)
          /\ period' = [period EXCEPT ![t] =
                           IF t \in Members /\ ~ whole THEN @ ELSE defaultPeriod[t]]
          /\ state' = [state EXCEPT ![t] =
                          IF @ \in {"enabled", "disabled"} THEN defaultState[t] ELSE @]
          /\ cliState' = [cliState EXCEPT ![t] = "unset"]
          /\ UNCHANGED <<defaultState, defaultPeriod, results>>
          /\ AddIfPolled(t)
       \/ /\ state[t] = "unset" /\ period[t] = defaultPeriod[t]
          /\ t \notin Members   \* for a member it is MemberDelete
          /\ Discard(t) /\ RemoveTest(t)
       \/ /\ state[t] = "unset" /\ period[t] # defaultPeriod[t] /\ ~ whole
          /\ cliState' = [cliState EXCEPT ![t] = "unset"]
          /\ UNCHANGED <<queues, wakeup, state, defaultState, period, defaultPeriod, results>>

(* myrefl_cli_local_config_test_param: removed, given the period p, added  *)
Configure(t, p) ==
    /\ Call
    /\ t \in Polled /\ Exists(t)
    /\ period' = [period EXCEPT ![t] = p]
    /\ UNCHANGED <<state, defaultState, cliState, defaultPeriod, results>>
    /\ IF state[t] = "enabled" THEN Place(t, QueueFor(p), p) ELSE RemoveTest(t)

(* myrefl_api_comp_enable_guts, for a test of the component; agree is      *)
(* whether the component itself is enabled now, as it is if the CLI says so *)
CompEnable(t, cli, agree) ==
    /\ Call
    /\ cli => agree
    /\ LET open == state[t] \in {"disabled", "created"}
           cleared == open /\ cli
       IN  /\ cliState' = [cliState EXCEPT ![t] = IF cleared THEN "unset" ELSE @]
           /\ state' = [state EXCEPT ![t] =
                 IF open /\ agree /\ cliState'[t] # "disabled" THEN "enabled" ELSE @]
    /\ Exists(t)
    /\ defaultState' = [defaultState EXCEPT ![t] = IF cli THEN @ ELSE "enabled"]
    /\ UNCHANGED <<period, defaultPeriod, results>>
    /\ AddIfPolled(t)

(* myrefl_api_comp_disable_guts *)
CompDisable(t, cli, agree) ==
    /\ Call
    /\ cli => agree
    /\ LET open == state[t] \in {"enabled", "created"}
           cleared == open /\ cli
       IN  /\ cliState' = [cliState EXCEPT ![t] = IF cleared THEN "unset" ELSE @]
           /\ state' = [state EXCEPT ![t] =
                 IF open /\ agree /\ cliState'[t] # "enabled" THEN "disabled" ELSE @]
    /\ Exists(t)
    /\ defaultState' = [defaultState EXCEPT ![t] = IF cli THEN @ ELSE "disabled"]
    /\ UNCHANGED <<period, defaultPeriod, results>>
    /\ IF state'[t] = "disabled" THEN RemoveIfPolled(t) ELSE UNCHANGED <<queues, wakeup>>

Client(t) ==
    \/ Immediate(t) \/ Delete(t) \/ MemberDelete(t)
    \/ \E result \in Results : Notify(t, result)
    \/ \E p \in Periods : Create(t, p) \/ InstanceCreate(t, p) \/ Configure(t, p)
    \/ \E s \in {"enabled", "disabled"} : ChainReady(t, s)
    \/ \E whole \in Whole(t) :
          \/ Default(t, whole)
          \/ \E cli \in BOOLEAN : Enable(t, cli, whole) \/ Disable(t, cli, whole)
    \/ \E cli, agree \in BOOLEAN : CompEnable(t, cli, agree) \/ CompDisable(t, cli, agree)

-----------------------------------------------------------------------------
SchedThread == Wake \/ (\E q \in QueueNames : Dequeue(q)) \/ EndCheck

Next ==
    \/ SchedThread
    \/ Tick
    \/ Expire
    \/ \E t \in Tests : Sequencer(t) \/ Client(t)

Spec == Init /\ [][Next]_vars

(* Time passes, signals are delivered, every thread runs, every test ends; *)
(* nobody has to call.                                                     *)
Fairness ==
    /\ WF_vars(SchedThread) /\ WF_vars(Tick) /\ WF_vars(Expire)
    /\ \A t \in Tests :
          /\ WF_vars(Run(t)) /\ WF_vars(TestResultRci(t))
          /\ \A result \in Results : WF_vars(TestResult(t, result))

FairSpec == Spec /\ Fairness

-----------------------------------------------------------------------------
(* Properties *)

(* The type invariant. *)
TypeOK ==
    /\ queue \in [QueueNames -> Seq(Tests)]
    /\ queued \in [Tests -> QueueNames \cup {"none"}]
    /\ due \in [Tests -> Int]
    /\ timer \in Nat
    /\ signal \in BOOLEAN /\ workToDo \in BOOLEAN
    /\ spc \in {"check", "wait"}
    /\ state \in [Tests -> States]
    /\ defaultState \in [Tests -> {"unset", "enabled", "disabled"}]
    /\ cliState \in [Tests -> {"unset", "enabled", "disabled"}]
    /\ period \in [Tests -> Periods] /\ defaultPeriod \in [Tests -> Periods]
    /\ lastResult \in [Tests -> Results]
    /\ jobs \in [Tests -> [JobKinds -> Nat]]
    /\ owed \subseteq Tests
    /\ calls \in 0..MaxCalls

(* A test is on the queue its field queued names, once, and on no other:   *)
(* what every handler that finds or removes a test by this field relies on. *)
QueuedOnce ==
    /\ \A q \in QueueNames : NoDuplicates(queue[q])
    /\ \A t \in Tests, q \in QueueNames : ListFind(queue[q], t) <=> queued[t] = q

(* A primary instance that is deleted is on no queue, whatever moved it    *)
(* from one to another before: the collector frees it without a look at    *)
(* the queues.  (Of the members of a notification test that is not so:     *)
(* they stay queued when it is deleted, and are freed there.)              *)
DeletedNotQueued == \A t \in Tests \ Members : Exists(t) \/ queued[t] = "none"

(* The tests of a queue are in the order of their times, though they are   *)
(* added, moved and removed at any moment: check_queue_test_times and      *)
(* check_test_start_timer look at nothing but the head.                    *)
HeadIsSoonest ==
    \A q \in QueueNames :
        \A i, j \in 1..Len(queue[q]) : i < j => due[queue[q][i]] <= due[queue[q][j]]

(* No wakeup is lost: while the scheduler thread waits, and a test is      *)
(* queued, the thread has been released, or the timer has expired and its  *)
(* signal will release it, or the timer expires as soon as a test is due.  *)
WakeupArmed ==
    spc = "wait" /\ HeadTimes(queue, due) # {} =>
        \/ workToDo
        \/ signal /\ timer = 0
        \/ timer > 0 /\ \A d \in HeadTimes(queue, due) : timer <= d + Padding

(* A polled test that is enabled is queued, or running, or has yet to      *)
(* notify its result.  (Unless the CLI has enabled it: then the API's      *)
(* disable takes it off its queue and leaves it enabled.  And of a test    *)
(* whose primary instance stays disabled no member is added as its chain   *)
(* becomes ready.)                                                         *)
PolledIsScheduled ==
    \A t \in Polled \ Members :
        state[t] = "enabled" /\ cliState[t] # "enabled" =>
            queued[t] # "none" \/ jobs[t]["run"] > 0 \/ t \in owed

(* Every queued test is taken off its queue in the end, deleted or not. *)
QueuedIsStarted == \A t \in Tests : queued[t] # "none" ~> queued[t] = "none"

=============================================================================
