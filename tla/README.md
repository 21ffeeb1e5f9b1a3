# A verification of myrefl's diagnostics core

`myrefl` (Software Diagnostics) is a C library that a program links in to watch
itself: *tests* produce results, *rules* turn results into verdicts, *root cause
identification* (RCI) decides which of several failing rules is to blame, and
*actions* try to put it right. The library is multi-threaded: one scheduler
thread, a pool of workers, a POSIX timer whose signal may arrive in any thread,
and whatever threads of the host program call the client API.

The modules here are translated from the C in `src/src/`. TLC checks them on
small instances, TLAPS proves the theorems for all values of the constants.

## The system

| Component | State | Operations | Talks to |
|---|---|---|---|
| Lists (`myrefl_util.c`) | a linked list and its mutex | push, insert, remove, pop, peek, find | used by all |
| Thread pool (`myrefl_thread.c`, `myrefl_posix.c`) | lists of free and executing threads and of pending jobs; `job`, `quit`, `work_to_do` of each thread | request, `thread_main`, terminate | runs the sequencer's jobs |
| Scheduler (`myrefl_sched.c`) | a queue of tests per period, one timer; `queued`, `next_time` of each test | add, remove, immediate, expiry, `sched_thread_main` | hands tests to the sequencer |
| Sequencer (`myrefl_sequence.c`) | results, counts and histories of tests, rules, actions; component health | run a test, evaluate rules, run actions | calls RCI, reschedules tests |
| RCI (`myrefl_rci.c`) | `root_cause` of each rule; dependency graph and its loop domains | a rule's result, a rule's deletion, a new dependency | asks the scheduler for immediate runs, the sequencer for actions |
| Object database (`myrefl_obj.c`) | tests, rules, actions, components, their instances, the links between them, the list of objects to free; the DB lock | create, link, delete, instance delete, garbage collection | used by all |
| Client API (`myrefl_api.c`) | `state`, `default_state`, `cli_state` of each instance | create, enable, disable, delete, notify, chain ready, ... | all of the above |
| CLI (`myrefl_cli_local.c`) | what it is printing | show, debug, and configuration | the API, with `cli` set |
| Trace, RPC threads, syslog, Solaris port, server, examples | | input and output | |

What is hard about it, in short (`PROJECT.json` lists each hazard at its line):

* the pool's handshake: a job is assigned, a wakeup set and a thread enlisted in
  three separately locked steps, while the thread itself runs and retires;
* the scheduler finds a test by its field `queued`, which handlers all over the
  program write, and relies on the head of each queue being the soonest test;
* time: a timer that is restarted while its signal is under way, or with zero,
  may leave the scheduler asleep with a test due;
* two authorities, API and CLI, enable and disable the same test;
* tests and actions run without the DB lock, so that everything may change under
  them, and what they hold must not be freed (`in_use`);
* several workers feed results into one network of rules, and a rule found to
  blame waits in the pool for its action while new results come in;
* names are inputs, containers and dependencies before they are created, and
  every call has to keep several lists on several objects in step;
* a listing of the CLI keeps a place between its pages while the program deletes;
* shutdown frees lists that other threads still use.

What makes each component correct: *pool*: every request is served, once, and a
thread is given to one requester at a time. *Scheduler*: a test is on the queue
it says it is on; an enabled polled test is queued or running; a queued test is
started once its time has come, and never after its deletion. *RCI*: of a set of
failing rules the deepest is the root cause, every candidate is resolved in the
end, and the dependency graph has no loop. *Sequencer*: a rule's verdict is the
one its type prescribes for the history of its inputs. *Database*: links are
symmetric, and nothing deleted is reachable or freed while in use. *Health*: the
number of a component is what its failing rules and members add up to.

## Modules

| Module | Models | State |
|---|---|---|
| `MyreflList`, `MyreflListProofs` | the lists, as functions of sequences, and the lemmas about them | done |
| `JobPool` | what a caller of the pool may rely on | done |
| `ThreadPool`, `ThreadPoolProofs`, `MCThreadPool` | the pool; implements `JobPool` | done |
| `Scheduler`, `SchedulerProofs`, `MCScheduler` | the scheduler and its callers | done |
| `Depend`, `DependProofs`, `MCDepend` | dependencies and their loop domains, containment, deletion | done |
| `Rci`, `RciProofs`, `MCRci` | candidates, reruns and blame among rules that depend on each other | done |
| `Sequencer`, `SequencerProofs`, `MCSequencer` | results through tests, rules, gates, members, health, root causes and actions | done |
| `Objects`, `ObjectsProofs`, `MCObjects` | the wiring of tests, rules and actions, forward references, and their states | done |
| `Garbage`, `GarbageProofs`, `MCGarbage` | `in_use`, the listings of the CLI, and the garbage collector | done |

How they fit. `ThreadPool` shows that a job is run at most once (`JobPool`), and
`Sequencer` and `Garbage` take jobs from a queue on that ground. `Scheduler` shows
that a test is started when its time has come; `Rci` and `Sequencer` start a test
at any time, which is all that they need of it. `Depend` builds the graphs that
`Rci` is given, and says when they may have a loop; `Objects` builds the network
of inputs that `Sequencer` is given. `Rci` decides who is to blame, and `Sequencer`
has a rule that depends on none blamed when it fails, as `Rci` does, and lets any
other be blamed, cleared and tested again as it may.

An operator whose name starts with `Bug` belongs to no specification: it is the
definition that follows it with a plausible slip, and the property that catches
the slip is named in `PROJECT.json` under `mutants`.

### Thread pool

State. The three lists are sequences, `lists` says which are not `NULL`; `job`,
`quit`, `workToDo` are the fields of the thread structure; `wpc`, `rpc` and
`tpc` say where each worker is in `thread_main`, each requester in
`myrefl_thread_request`, and the stopping thread in `myrefl_thread_terminate`;
`thread`, `request`, `victim` are their local variables. `requested` and
`finished` are history.

Actions. One per access of shared state, in the order of the code. List
operations are atomic because each list has a mutex; `Wait`, `Release` and
`Signal` are, because `myrefl_xos_thread_wait` and `_release` exchange
`work_to_do` under one. Nothing else orders the threads, so everything else
interleaves. Requesters are apart from workers: a worker that makes a request
(the sequencer does) is a requester that does nothing else meanwhile, which
allows more interleavings than the code, and no fewer.

Left out: the CPU throttle (it only delays), recycling of job structures, the
memory of a thread that has quit. `JobPool` says that a job is run at most once,
by one thread, one job at a time; `ThreadPool` implements it with a job
*waiting* from its request until `TakeJob`, also while it is being stopped.

### Scheduler

State. `queue`, `queued`, `due` are the queues and the two fields of a test;
`timer` and `signal` the timer and its undelivered expiry; `workToDo`, `spc` the
scheduler thread; `state`, `defaultState`, `cliState`, `period`,
`defaultPeriod`, `lastResult` the fields of a test that the handlers read;
`jobs` counts what the sequencer has to do for a test, `owed` the tests that
answered *in progress*.

Actions. Every handler takes the DB lock on entry and releases it on exit, so it
is one action, including `check_test_start_timer` at its end; a test runs
without the lock, so its start (`Dequeue`) and its end (`EndRun`, ...) are two.
The scheduler thread holds the lock for a whole look at the queues, of which
each `Dequeue` and the final `EndCheck` are actions: no handler may come in
between (`Unlocked`), but signals may.

Time is counted in ticks. A test may be started when its time lies strictly
before now; the code pads the timer for that reason, and so does the model, by
one tick. The clock stands still while a handler runs, and while the thread looks
at the queues, as it reads the clock once per look.

What is queued is an instance. A test of the model is the primary instance that
comes with a test, or, if it is one of `Members`, an instance that was created for it
later; a call for a whole test is an action of each of its instances, in any order and
with others between them, which allows more than the code does. Members differ: they
are created by `InstanceCreate`, with the states their primary has; a call looks at
the state of the primary where it is for the whole test (`whole`); chain ready adds a
member only if the primary is enabled; and when their test is deleted
(`MemberDelete`), those of a notification test stay on their queue, as
`myrefl_test_delete` looks after polled tests only and `unlink_obj_instance` after the
primary, and so do all when a test is defaulted away. What a call finds of the primary
of a member is left open. A member that is deleted while queued keeps its memory, so
that one created again under its name is another instance (`queued[t] = "none"` in
`InstanceCreate`).

Left out: forward references (a test or an instance configured before it is created),
the start and stop of the scheduler, the nanosecond arithmetic. The scheduler thread's very first look takes no lock
in the code; in the model nothing is queued by then.

### Dependencies and containment

State. `type` and `inside` say whether an object exists and where; `children`
and `parents` are `child_depend` and `parent_depend`; `comps` is the list that
`next_in_comp` chains, head first; `top` and `bottom` are the boundary lists of a
component; `domain`, `domains` and `reachable` are the loop domains. Domains are
numbered upwards and their list has the newest first, which is the order in which
`RecordReachable` passes them.

Actions. One per API call, as each holds the DB lock throughout: `Create`,
`DependCreate`, `CompContains`, `CompDelete`, `RuleDelete`, with the forward
references that looking for a name creates. `Walk` follows
`comp_get_next_contained` step by step; where the code reads through a null
pointer the program ends (`alive`). A deletion moves members one by one, and
whether one is at a boundary depends on those already moved, so their order
(`nth`) is a choice.

Left out: tests, and with them the inputs of rules; the instances of an object
(dependencies are between objects); a second object under the name of one that
cannot be found any more; the System component as a member; the nesting limit of
255; failing allocations.

### Root cause identification

State. `rc` is `root_cause` of each rule, `last` and `count` its last result and
how often it was the last one (up to `Often`, as the code asks whether it is one
and whether it is above three); `rerun` the rules whose test is on the immediate
queue, `running` those whose test runs or whose result is under way, `idle` those whose
polled test is disabled. `graph` is
one of `Graphs`, what the program has built; it does not change. `given` and
`calls` are history.

Actions. `myrefl_rci_run` holds the DB lock from beginning to end, so `Report`,
`Abort` and `Redo` are each one step with all the traversals they start.
A traversal is the set of enabled rules it meets (`Above`, `Below`), as the four
functions it is used with treat every rule by itself; it goes into a component
through its boundary lists, and passes over what is disabled. Those sets are
fixed by the graph and by what is enabled, so they are functions, worked out once
(`AboveIn`, `BelowIn`). `Disable`, `Enable`, `RuleDelete`, `TestDisable` and
`TestEnable` are the API. A test that is disabled leaves its queue, its rule stays
enabled, and an immediate run asked for by RCI comes to nothing, as the scheduler
takes a polled test that is on no queue to be running (`Immediate`). A call for a
component that does the same to all that is in it is several calls here.

Left out: the order in which rules are met, instances (each is as a rule of its
own), loops (`Depend` says when there is one), a rule with several tests, a test that
is disabled before RCI first hears of its rule. A test that is disabled while it runs
is enabled again only when it has ended, as two runs at a time are for `Scheduler`.

### Sequencer

State. A thread's `stack` is what it has left to do, the events of
`seq_sequencer`, which calls itself; `lock` is the DB lock and `jobs` the queue of
the pool; `last`, `count`, `memory` are what an instance keeps of results,
`actionRun` and `cause` whether its action has been run and whether it is to
blame; `health` and `confidence` of components. `setup` is one of `Setups`, the
program that was built. `seen` and `acted` are history.

Actions. One per event of `seq_sequencer`, with the lock held from `TestResult`
to the last of what it leads to: nothing else that needs the lock comes between.
Without it are the wait of a job (`Take`), the function of a test (between `Take`
and `TestResult`) and of an action (between `RootCause` and `ActionEnd`).
`RuleResult` and `Memory` say what a rule makes of an input and what it remembers,
for every type that is implemented; `Reaches` which instances a result goes to.

Left out: statistics and history that are only shown, results that stop where
they came from, an N-in-M rule with a negative M, a rule's further actions, a rule without a container (its health
is nobody's), what the result of an action is beyond its pass.

### Objects

State. `db` is a record of all that the lists and fields of `myrefl_obj.c` say of
the objects: type, the three states, inputs, the chain of rules of an input
(`head`, `ref`, `next`), actions. An object is a name and a life, as a name may be
created again after its deletion.

Actions. One per API call, as each holds the lock; what a call does is an operator
from a database to the next, so that one can be made of others as in the code
(`RuleCreate` creates forward references, leaves old inputs, links the new one and
validates). `Updated` and `ChainReady` are the walk along the chain which sets
states.

There are finitely many names, as there is no room for more in memory.

Left out: components and dependencies (`Depend`), instances, the user's periods
and types, a name used for two types of object.

### Garbage

State. Each instance is an allocation that is made once: `state`, `inUse`; `chain`
are the member instances of an object, `order` the objects of the component by
type, since a listing goes over one type only;
`freeme`, `hand`, `budget` and `gpc` the collector; `job` and `handle` those who
hold an instance. `off`, and `owed` and `shown` of a handle, are history: the
instances whose count is no longer that of their holders, what a listing has
still to show, and what it has shown.

Actions. A page of a listing is `Begin`, which finds the handle, looks at its
place and marks it busy without the database's lock, and one action per function
that makes a page, under it; `Place`, `Left` and `Rest` say what a page shows, and
what happens to `in_use`. The collector pops an instance without the lock and
looks at it with it. `fault` is a read of freed memory or through null: what
follows is not modelled.

Left out: remote objects, option tables, the listing of a test's rules and of one
instance; the connected instances of a test, whose page goes on from its place without
a search (`GetConnectedInstances` is that of a rule); a handle that is taken after twelve hours in the very moment between
its lookup and its busy flag.

## Runs

| Run | Checks | Expect |
|---|---|---|
| `pool` | the pool in service: `ReleaseNeverFails`, `NoJobLost`, `NoJobTwice`, `RefinesJobPool`, `AssignedJobRuns` | holds |
| `pool_stop` | the pool stopped at any moment: `KilledThreadsDie` | holds |
| `sched` | `QueuedOnce`, `DeletedNotQueued`, `HeadIsSoonest`, `WakeupArmed`, `PolledIsScheduled`, `QueuedIsStarted` | holds |
| `sched_recreate` | `QueuedOnce`, when a test may be created again | violated |
| `depend` | `LinksMirrored`, `BoundaryOfMembers`, `LoopsCrossDomains`, `ContainmentEnds` | holds |
| `depend_loop` | `NoLoop` | violated |
| `rci` | `RootCauseFails`, `PassingCandidateIsRetested`, `OneCausePerPath`, `FailureExplained`, `CandidateResolved` | holds |
| `sequencer` | `TypeOK`, `CountingFollowsHistory`, `GatesFollowInputs`, `BaseFollowsMembers`, `HealthFollowsRules`, `ConfidenceEarned`, `ActedOnce`, `FailureActedOn` | holds |
| `objects` | `TypeOK`, `ChainsFollowInputs`, `InputsEnd`, `UserHasTheLastWord`, `ReadyReachesAll`, `CreatedStays` | holds |
| `objects_chain` | `NextDependsOnSameInput` | violated |
| `garbage` | `TypeOK`, `ReferencesCounted`, `FreedOnce`, `ListingComplete`, `Collected` | holds |
| `garbage_freed` | `FreedIsNotReferenced` | violated |

The type invariants of the modules with proofs are theorems; those of the pool, the
scheduler, `Depend` and `Rci` no run checks again.

The violations are disagreements of the code with its own comments:

* `sched_recreate`: creating a test again forgets where it is queued.
* `depend_loop`: a dependency refused as a loop between two domains also erases
  that the one domain reaches the other, though an earlier dependency still
  leads there; the search is skipped for the next one and the loop is closed.
* `objects_chain`: a rule has one `next_in_input` for all of its inputs, and each
  new input has it lead to the rest of its own chain: results of one test are
  then input to rules of another.
* `garbage_freed`: `in_use` of an object does not count the jobs of its member
  instances: it is freed while a client's function runs for one of them, and read
  when that returns.

What the passing properties leave out, because the code does otherwise. Each of
these was met while modelling; the properties say in their comments what they
exempt.

* *Pool.* A requester that finds no free thread pushes its job on the pending
  list after the last busy worker has looked there (`myrefl_thread.c` 464): until
  another job is requested and ends, all workers idle beside it. A worker is on no
  list between leaving the one and joining the other (209), and a pool stopped in
  that moment never tells it to quit.
* *Scheduler.* The API cannot disable a test the CLI has enabled, but takes it off
  its queue all the same (`myrefl_api.c` 1270). A failure taken in while a test
  is disabled is not queued for its autopass, and enabling the test does not do it
  (1002). Members are apart. When a notification test is deleted, those of its
  members that wait for their autopass or for an immediate run stay on their queue
  (772, and `myrefl_obj.c` 1342), and the collector frees them there, though it is to
  look for references first (`myrefl_obj.c` 2374); so do the members of any test that
  is defaulted away (1142). `DeletedNotQueued` is about primary instances for that
  reason, and fails at once for others: a member created, run immediately, and gone
  with its test. `PolledIsScheduled` is so too, as chain ready does not add
  the members of a test whose primary stays disabled (875).
* *Containment.* The walk through nested components asks for the peer of a parent
  that may have none (`myrefl_obj.c` 285). A deleted component takes the components
  in it along (1315), though members are to end up in System.
* *RCI.* A rule whose polled test is disabled is made a candidate when a rule above
  it fails, as the scheduler takes a test on no queue to be running (`myrefl_sched.c`
  597), though a rule with no runnable test is to be none (`myrefl_rci.c` 404). It is
  neither tested nor cleared, and those above it wait; enabling the test queues it
  for its period. Hence `PassingCandidateIsRetested` asks nothing of a rule whose test was ever
  disabled, and `CandidateResolved` nothing while the test of the rule or of one
  below it is. A failing rule that is deleted leaves those above it unexplained, as it
  has left the enabled state before its parents are looked for (`myrefl_rci.c`
  1302); hence `Untouched`. A rule whose test was running when it was disabled may
  still become a root cause (1160); one enabled again may be blamed beside another
  on its path, hence `NoneEnabledAgain`. Failures dropped after more than three
  aborts of a candidate are in `given`.
* *Sequencer.* The history of an N-in-M rule is as long as M was when it was first
  run: with a larger M it passes for ever (`myrefl_sequence.c` 748), hence
  `TypesKept`. A rule that is to count no failures, none of no results, or more
  failures in a row than are counted, follows no history (`Countable`). An input
  hands a result on to the instance of its own name where a gate has it (1057): a
  gate with a further member reads the base of the input for that one, and is not
  told of it; and an AND without an enabled input is never what that asks for
  until it is run. `ToldOf` leaves these gates out, and those that an input does
  not lead to, as when chains go astray (*Objects*). A rule to blame whose action waits in the pool may pass meanwhile;
  the action is run all the same, and counts as the action of its next failure
  (1182). The health that `myrefl_health_set` asks for is overwritten at once by
  the one that follows from the rules. Health is not worked out again when a rule
  is disabled or changes its severity or container. A failing rule of a negative
  severity raises health above full (`MYREFL_SEVERITY_POSITIVE`,
  `myrefl_client.h` 988), and a component may then have more confidence than a
  member: `ConfidenceEarned` compares them only without such rules.
* *Objects.* With two inputs to a rule, or a rule its own input, chains go astray
  (`objects_chain`), hence `plain`. A rule that is created again, or a forward
  reference that is configured before it is created, keeps its old `ref_rule`
  (`myrefl_api.c` 2253) or has none. A deleted rule is taken off the inputs of the
  rules after it by the address of its rule part, which is on no such list
  (`myrefl_obj.c` 1291).
* *Garbage.* Four ways put `in_use` off, and the instances concerned are in `off`:
  a listing that moves on from, or ends on, a deleted instance
  (`myrefl_cli_local.c` 160); one of an object's children, which is let go twice
  (2016); one of the instances of an object that has none, which is never let go
  (523); one that is taken while others hold the same object, which sets the
  count to zero, or leaves it if the object is deleted (130). The comment before
  the collector of handles (3075) says that it is there so that such objects do
  not stay for ever. A listing that searches a list for a place that was deleted
  runs off its end (1652, and in 1863, 1980, 2150): that is a `fault`.

Bounds. *Pool*: two workers and two requesters are the fewest with a thread free
and another busy while two requests compete; three jobs let one be pending
while both threads work (two while stopping, where the teardown multiplies the
states). *Scheduler*: a polled and a notification test share the user queue
and meet in the immediate one; periods of one and two ticks make the order of
the user queue matter (1 is `Fast`, so that another queue competes for the
timer); an autopass of three is longer than both; `MaxCalls = 3` calls allow
every sequence of three handlers at any moment, and the first creation of a test
is free. The safety properties were also checked with two polled tests, and with
four calls. There is one member, of a notification test beside the other, as those
are the members a deletion leaves queued; its creation is one of the three calls, which
leaves two: one to queue and one to delete. A member of a polled test was checked
apart. *Dependencies*: two rules and two components are enough for a
dependency within a component, across two, and on a component, and five calls
for creating, linking, moving and deleting in any order; one rule and three
components were checked as well. Two domains and four rules are the fewest that
violate `NoLoop`, in six calls. 
*RCI*: three rules are the fewest with two below one, two above one and three in a
row; in the row the lower two are in a component, so that a traversal goes through
its boundary. One rule has a notification test, which need not ever report. A
disabling, an enabling or a deletion of one rule at any moment, or a disabling or an
enabling of its test, two such calls, `Often = 2`. Other graphs (a row and a crossing without components), any rule
touched and `Often = 4` were checked apart.
*Sequencer*: nine small programs instead of one with everything. `Counts`: two
counting rules in one chain; two `Gate`s, one with a disabled input; `Split`: a
test with one member, a rule and a gate with two; two `Apart`, whose gate has
members that its input has not, one or two; `Watch`: a test on the health of
a component in another; two `Busy` ones with two workers, in the second of which a
rule depends on others. Full health is 3, a byte of history has 2 bits, so that M
= 3 is no multiple of it, and confidence rises in two steps. One job waits while
each worker has one.
*Objects*: two tests, two rules, one action, two lives for each name and five
calls are enough to wire two rules in a row or to one input, delete one and create
it again; `Depth` 3 is above what two rules can reach. Two tests and two rules are
alike, which is sound: the properties treat them alike.
*Garbage*: one test, two actions, one of which is created in between, two members
of one of them, one of which is created in between; one job, two listings, pages
of one element, and three calls: enough to delete what a listing and a job both
hold. `Wrap = 8` stands for 2^32: an underflow is seen as one, and as there are
three holders at most no honest count reaches it. Two jobs and four calls were
checked apart for safety.
Deadlock is not checked for the pool, which may come to rest with
nothing requested, nor where the calls are used up.

Fairness. *Pool*: every worker, every call that has begun and a termination that
has begun go on, which assumes that jobs end and that the system schedules every
thread; nobody has to request or to stop. *Scheduler*: time passes, signals are
delivered, the scheduler thread runs, every job of the sequencer ends; nobody has
to call. A test that answers *in progress* need not ever notify: the code has no
watchdog for it (a `TODO`), and the properties claim nothing for it.
*RCI*: a test that stays enabled is started, which is what `PolledIsScheduled` and
`QueuedIsStarted` say of the scheduler; nothing is assumed of one that is disabled
(`Start` is not enabled then). Results are handed on, and a polled
test does not abort for ever (strong fairness of `Report`): the code asks for one
more run at every abort, and nothing bounds that. *Sequencer*: a thread that waits
for the lock or a job gets it in the end, however many others compete (strong
fairness of `Take` and `Step`), which is what a fair mutex and queue give; nobody
has to notify. *Garbage*: the collector's timer goes off, jobs get threads and
return, a page that was begun ends, and a listing left alone grows twelve hours
old; nobody has to ask for the next page. As each instance is made and deleted
once, that all garbage is collected in the end (`<>[]`) is that each piece is.

## Proofs

`MyreflListProofs`: what `push`, `pop`, `insert` and `remove` do to membership and
to the absence of duplicates.

`ThreadPoolProofs`, for any requesters and jobs and any finite set of workers,
from `NoneAssumption` and `WorkersAssumption`:

* `TypeCorrect`: `Spec => []TypeOK`, by itself inductive but for what the
  program counters say of the local variables (`LocalsOK`): `thread[r]` is only
  a worker where the code dereferences it.
* `AtMostOnce`: `Spec => []NoJobTwice`. The inductive invariant adds `LocalsOK`
  and `OnlyRequested`, every job anywhere has been requested, without which a
  new request might be for a job that is already somewhere.
* `FreeIdle`, `NoFailedRelease`, `NothingLost`: from `ThreadsOK`, which says for
  each program counter whose hands the thread is in, and holds together with the
  other three only: a release succeeds because a free thread has no wakeup, and
  that is so because only its one holder sets it.
* `Refinement`: `Spec => RefinesJobPool`; `Request`, `TakeJob` and `FinishJob`
  are the abstract steps, every other action stutters. It rests on
  `NoJobTwice`: a job taken must still be waiting.

`SchedulerProofs`, for any finite or infinite sets of tests, any periods and any
number of calls, from `TestsAssumption`, `TimesAssumption` and `CallsAssumption`:

* `TypeCorrect`, `NoLostWakeup` (`WakeupArmed`), `DeletedLeaves`
  (`DeletedNotQueued`), `PollingGoesOn` (`PolledIsScheduled`): by one inductive
  invariant, the types, `WakeupArmed`, and for each test a statement about its
  own fields, `FineAt`, which asks nothing of members: `DeletedLeaves` and
  `PollingGoesOn` are about primary instances. Every handler touches one test and then arms the timer,
  so a lemma per kind of handler says what it leaves true of that test.
* `FieldTellsQueue` (`QueuedOnce`) and `HeadsAreSoonest` (`HeadIsSoonest`),
  assuming `~ MayRecreate`: by a second invariant, per queue: no test twice, on
  the list exactly when its field says so, in the order of their times, and on a
  queue with a fixed wait no time is later than that wait from now. The last
  part is what makes appending to such a queue keep it sorted; the user queue is
  sorted by the search for a place (`Earlier`). `sched_recreate` shows that the
  assumption is needed.

`DependProofs`, for any rules, finitely many components, and any number of domains
and calls, from `NamesAssumption` and `BoundsAssumption`:

* `TypeCorrect`, `Mirrored` (`LinksMirrored`) and `BoundaryIsOfMembers`, each with
  `TypeOK` alone: they are inductive.
* `LoopsAcross` (`LoopsCrossDomains`), together with `LinkedInDomain`: whatever
  depends on something has a domain, so that an object without one may join any.
  "No loop" says that every set of objects has one that depends on none of the
  set. When p comes to depend on c, which did not reach p, the members of the
  set that c reaches have such an object, and it is not p (`NoNewLoop`): no
  induction over paths is needed.
* `NoneWithinItself` (`ContainmentEnds`). The invariant adds, as long as the program
  is alive, that only components contain, and that a component is on the list of
  the one it is in, once (`Nested`). With that the walk through nested components
  stays in the component that is moved (`WalkStays`) and, unless it follows a null
  pointer, misses none (`WalkFindsAll`), so that what it does not find
  may take the component in (`MoveEnds`). A walk that has come to the first of a
  list goes on to the last, if none on the way is left before it is through; if one
  were, so were an innermost one (`Innermost`, for which the components must be
  finitely many).

`RciProofs`, for any rules and components, any graphs and any number of calls, from
`GraphsAssumption`, `NamesAssumption` and `BoundsAssumption`; the last two theorems
also from `OrderAssumption`, that what is below a rule has it above and that no
rule is below itself (which `Depend` has of graphs without a loop):

* `TypeCorrect`: what a traversal meets are rules (`MetAreRules`), so every
  propagation changes blame of rules only.
* `CauseFails` (`RootCauseFails`), with `TypeOK` inductive. The lemma behind it says
  of each function that is mapped over rules what it may make of one rule
  (`DeterminedAt`, `PassedAt`): a rule becomes the cause only where it fails by
  the results the propagation was given, and the rule whose result has changed is
  cleared first if it passes.
* `Retested` (`PassingCandidateIsRetested`), inductive with `TypeOK` and that every
  rule in `idle` has had its test disabled (`RInv`): a rule becomes a candidate only
  in the step that asks for its test, which then is on the immediate queue or
  running, unless it is disabled.
* `OneCause` (`OneCausePerPath`): as objects leave the enabled state what a
  traversal meets shrinks (`MetShrinks`), and a rule that is blamed has nothing
  below it that is.
* `Accounted` (`FailureExplained`): the invariant asks for the explanation of every
  failing rule (`AllExplained`), and that everything is enabled, tests included. When a rule
  stops failing, the rules above it lose an explanation, and either are told to
  run again or have another one below (`BelowBelow`).

`SequencerProofs`, for any programs, of finitely many rules and components, and any
threads, results and number of calls, from `NamesAssumption`, `SetupsAssumption`
and `NumbersAssumption`. Nothing is claimed while the lock is held, so an
invariant has to say what is right at every step of an event: what is not right
yet is on the stack of the thread with the lock, and all others only wait
(`Kept`, which is the types and `Locked`).

* `TypeCorrect`: every task is about an object of its kind, and confidence is
  between none and full.
* `BegunOnce` (`ActedOnce`): an instance whose action was begun has `action_run`
  set (`ActedIsMarked`); the flag is tested and set in one step, and cleared in the
  one step that takes a pass.
* `HealthRight` (`HealthFollowsRules`): each component's health is what its rules
  and members add up to, or the task that sets it is on a stack (`HealthKnown`).
  A rule whose result changes, or a member whose health does, puts it there. The
  sums over finite sets are compared by a smallest set for which they would not
  compare: without one element it is smaller still.
* `BaseRight` (`BaseFollowsMembers`): a member that has failed while the base
  passes is still to be told to the base (`MembersKnown`). A base that is run has
  all its members behind it on the stack (`RunsTogether`), or it could
  take the last result of one for the new one.
* `ConfidenceRight` (`ConfidenceEarned`): a component's confidence is above that of
  none of its members, or the health of the component is the next task, and the
  member has just lost the confidence that it has lost in health
  (`ConfidenceKnown`). The component then loses no less (`LostCovers`).
* `CountingRight` (`CountingFollowsHistory`): the memory of a rule that counts is an
  image of its last results (`CountingKnown`). For N in a row the counter is how
  many of the last failed, up to N (`InRow`). For N in M the bits are the places in
  the ring of the results that failed, one place each, with the place to be
  written next behind the youngest (`InRing`); so the bits are as many as the
  failures (`RingCounts`), and a write over the oldest keeps it so (`RingGoesOn`),
  however M stands to the length of a byte. What is run is an instance that the
  rule has (`RunsTogether`), so that a run changes no other result but a base's.
* `GatesRight` (`GatesFollowInputs`): a gate that is not what its inputs make it has
  on a stack its own run, or a task that leads to it: the result of an input that
  is still to be handed on, or the chain from a rule before it (`GateDue`). It is
  proved for any chains, with `Chained` for what a chain reaches, and needs that the
  results of a test are of instances it has (`TestsThere`).

`GarbageProofs`, for any objects, jobs, listings and number of calls, from
`TypesAssumption` (a finite set of members), `KindsAssumption` and
`BoundsAssumption`: objects, jobs and listings are finite, and `Wrap` is above the
number of holders, so that an honest count never wraps.

* `FreedButOnce` (`FreedOnce`), from the first alone. The invariant `Lifecycle` says
  that an object's chain holds each of its live members once, and that the
  collector's queue and its hand together hold exactly what is deleted, nothing
  twice; a deletion moves what it deletes from one to the other. It rests on the
  lemmas of `MyreflListProofs` about `push`, `peek` and `remove`.
* `CountsHolders` (`ReferencesCounted`). The invariant `Uses` adds to the above that
  the lists a listing goes through hold what is live, each once, and that a
  listing's place is of its kind. So the place a page leaves behind is neither one
  it has shown nor the one it came from, and every step moves at most one holder
  from one instance to another (`Moves`); `in_use` follows it, or the instance is
  put in `off`. The collector frees what is not in use, so nothing that is held.
* `TypeCorrect`, with `Uses` and the bounds of the collector's pass (`Passes`).
* `ListsAll` (`ListingComplete`). The invariant `Promises` says of each listing
  (`Due`) that what it owes is live and meant, and stands at its place or after it
  in the line it goes along (`Line`); that what it has shown does not, unless its
  place has been deleted; and that a listing that is done owes nothing. New objects
  are put first or last, never between, and a deletion leaves the order of the
  others as it is, which is why a place is enough to go on from.

`ObjectsProofs`, for any finite set of names and any number of lives and calls, from
`NamesAssumption` and `BoundsAssumption`. `Good` says of a database that each field
has its type; that what has not been made yet is as it will be found (`Fresh`); that
an object is of its name's kind or of none (`KindsFit`); that only rules have
inputs (`RulesOnly`); that no three inputs lead around (`NoLoops`); and that no state
contradicts the user (`LastWord`). Every call is a sequence of changes of three
kinds: one that leaves alone all but the chains and lets go of inputs (`Tame`), one
that makes new objects besides (`Extends`), and one that sets the states of some
(`Settled`). Each kind keeps `Good`, whatever chain it goes along, so that nothing
need be known of the chains, which do go astray. The one
step that adds an input does so after the search for the rule among the inputs of
its input, and the reverse, has not found it (`NotFound`): a search that is cut off
counts as one that has.

* `TypeCorrect`, `LoopsAreRefused` (`InputsEnd`) and `UserSaysLast`
  (`UserHasTheLastWord`) are parts of `Good`.
* `CreatedIsKept` (`CreatedStays`) is about the steps from a good database: an object
  whose state a call sets to a forward reference's is the one the call is about.

The last two theorems are about what the wiring comes to as long as the calls are of
the simple kind (`plain`): each rule has one input, and a forward reference that
rules have grows only as it is created. Their invariant is `Wired`: a rule has one
input at most, which is another object than itself and no action, and is not deleted
while it has it (`Neat`); and the chain from the head of each object there is holds
the rules that have it for an input, each once (`Hung`). A chain, which the model
gives as a walk of as many steps as there are objects, is shown to be the least set
that holds its first rule and what is next of each of its rules (`WalkCloses`,
`ChainCloses`, `ChainLeast`); from then on no step is counted. That a rule is on its
chain once (`Once`) is what lets it be cut out (`HeadCut`, `InnerCut`), and that it
has one input is what keeps the cut from touching the chain of another
(`UnlinkHung`). Between the steps of one call the heads are not yet what they will
be: a rule's own head is put back last (`Restored`), which is why the invariant within a
call is `HungBut`, of heads that are promised for one object.

* `ChainsRight` (`ChainsFollowInputs`): every call of the simple kind keeps `Wired`
  (`TestCreateWired` to `RuleCreateWired`).
* `ReadyReaches` (`ReadyReachesAll`): `Visited` is closed under what is not deleted
  (`VisitedCloses`), so by `Wired` it holds all rules of each object in it and their
  actions (`VisitedUsers`); each of them is updated in turn, whatever the order, and
  none is left created (`ReadyWired`). What the test feeds is within that
  (`FedWithin`), before and after: a visit only drops inputs that are deleted.

That `None` is no object and no call is part of `NamesAssumption`.

Several operators fold over a finite set or repeat a step a bounded number of
times. That the function exists which such a definition chooses, and that what
each step keeps is kept by all, is shown for each by a smallest set, or number, for
which it does not (`SmallestSet`, `EverySubset`, `UpTo`): the library's induction
theorems, which take an operator, are not needed for that.

Model-checked only: the liveness properties (`AssignedJobRuns`,
`KilledThreadsDie`, `QueuedIsStarted`, `CandidateResolved`, `FailureActedOn`,
`Collected`), which are beyond the prover. Every other property of a passing run is
stated by a theorem.

## Not modelled

Start and stop of the library (but for the pool's), what the instances of one test
have to do with each other in the scheduler, instances in RCI, remote components, failing allocations, the user's overrides
of periods and types in `Objects`, statistics, the arithmetic of times in seconds
and nanoseconds.
Trace, syslog, RPC threads and most of the CLI format and transport text. The
Solaris port is not built here. The server is an example host that calls the
client API, over vendored libraries. The memory, CPU and file-system tests of
`myrefl_linux.c` read numbers from the machine.
