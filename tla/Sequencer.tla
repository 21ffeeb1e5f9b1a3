------------------------------ MODULE Sequencer ------------------------------
(***************************************************************************)
(* The sequencer (myrefl_sequence.c): from the result of a test, through   *)
(* the rules it feeds and those they feed, to the health of components,    *)
(* root cause identification, and the actions of the rules to blame.       *)
(*                                                                         *)
(* The jobs of the thread pool are taken in order by several workers, each *)
(* of which waits for the DB lock, and gives it up while it runs the       *)
(* function of a test or an action.  What a thread has left to do is its   *)
(* stack: seq_sequencer calls itself, so what a step pushes is done before *)
(* what was there.  All of it is done with the lock held.                  *)
(*                                                                         *)
(* An object has a base instance, and maybe member instances with names.   *)
(* A rule has one action, and a container, as rules that are in use do.    *)
(* What RCI makes of a result is in Rci; here a rule that depends on no    *)
(* other is to blame when it fails, as there, and a doubted one may        *)
(* be blamed whenever it fails.  Statistics and records that are only ever *)
(* displayed are left out, as are results that stop where they came from.  *)
(*                                                                         *)
(* An operator whose name starts with Bug is no part of Next: it is what   *)
(* the definition after it would be with a slip that a property catches.   *)
(***************************************************************************)
EXTENDS Integers, Sequences, FiniteSets, FiniteSetsExt, Functions

CONSTANTS Tests, Rules, Comps,
          Polled,    \* the tests that are polled
          Insts,     \* names of member instances
          Base,      \* stands for the name of a base instance
          None,      \* no object, or no thread
          Workers,   \* the threads of the pool
          App,       \* a thread of the program's own
          Setups,    \* what the program may have built, a sequence
          NewTypes,  \* what the type of a rule may be changed to
          Full,      \* full health, 1000 in the code
          Hour,      \* how often confidence rises to close a gap, 36 in the code
          Byte,      \* how much history is allocated at a time, 8 bits in the code
          Most,      \* bound: failures in a row are counted up to here
          MaxJobs,   \* bound: nothing new happens with so many jobs waiting
          MaxCalls   \* bound: calls that change a type or set a health

Names == Insts \cup {Base}
Objs == Tests \cup Rules
Threads == Workers \cup {App}
Places == Objs \X Names

Operators == {"ON_FAIL", "DISABLE", "EQUAL_TO_N", "NOT_EQUAL_TO_N", "LESS_THAN_N",
              "GREATER_THAN_N", "RANGE_N_TO_M", "N_EVER", "N_IN_ROW", "N_IN_M",
              "OR", "AND"}

(* Left out: N_IN_M with a negative M *)
Types == [op : Operators \ {"N_IN_M"}, n : Int, m : Int]
         \cup [op : {"N_IN_M"}, n : Int, m : Nat]

ASSUME NamesAssumption ==
    /\ Tests \cap Rules = {} /\ Base \notin Insts
    /\ None \notin Rules \cup Comps \cup Threads
    /\ IsFiniteSet(Rules) /\ IsFiniteSet(Comps)

(* first is test->rule, next is next_in_input, home is parent_comp, and    *)
(* watches is the component whose interested_test_objs the test is in;     *)
(* given is what the tests may result in, off what is disabled, doubted    *)
(* the rules that depend on others, and pool the threads of the pool;      *)
(* touched is a bound, the objects that calls are made on; patient is the  *)
(* rule that FailureActedOn is about                                       *)
ASSUME SetupsAssumption ==
    Setups \in Seq([first : [Tests -> Rules \cup {None}],
                    next : [Rules -> Rules \cup {None}],
                    output : [Rules -> Rules \cup {None}],
                    inputs : [Rules -> SUBSET Objs],
                    insts : [Objs -> Seq(Insts)],
                    type : [Rules -> Types],
                    home : [Rules \cup Comps -> Comps \cup {None}],
                    severity : [Rules -> Int],
                    watches : [Tests -> Comps \cup {None}],
                    given : [Tests -> SUBSET ({"PASS", "FAIL", "ABORT", "VALUE"} \X Int)],
                    off : SUBSET Rules, doubted : SUBSET Rules,
                    pool : SUBSET Workers, touched : SUBSET (Rules \cup Comps),
                    patient : Rules \X Names])
ASSUME WatchersAssumption ==
    \A k \in DOMAIN Setups : \A t, u \in Tests :
        Setups[k].watches[t] = Setups[k].watches[u] => t = u \/ Setups[k].watches[t] = None
ASSUME NumbersAssumption ==
    /\ {Full, Hour, Byte, Most} \subseteq Nat \ {0}
    /\ {MaxJobs, MaxCalls} \subseteq Nat
    /\ NewTypes \subseteq Types

VARIABLES
    setup,       \* which of Setups it is
    type,        \* rule->operator, op_n and op_m
    last,        \* instance->last_result
    count,       \* instance->last_result_count of rules, up to 2
    memory,      \* what a counting rule remembers: fail_count and rule_data
    actionRun,   \* the rules whose action_run is set
    cause,       \* the rules whose root_cause is RULE_ROOT_CAUSE
    health,      \* comp->health
    confidence,  \* comp->confidence
    jobs,        \* the queue of the thread pool
    stack,       \* what each thread has left to do
    lock,        \* who holds the DB lock
    due,         \* notification tests on the immediate queue
    seen,        \* history: what a counting rule was told, TRUE for a failure
    acted,       \* history: actions begun since the rule last passed, up to 2
    calls        \* history: the calls made

rules == <<last, count, memory, seen>>
blame == <<actionRun, cause, acted>>
comps == <<health, confidence>>
threads == <<jobs, stack, lock>>
vars == <<setup, type, rules, blame, comps, threads, due, calls>>

S == Setups[setup]
Has(o) == {Base} \cup {S.insts[o][k] : k \in DOMAIN S.insts[o]}
Members(o) == Has(o) \ {Base}
Existing == {x \in Places : x[2] \in Has(x[1])}

(* myrefl_obj_instance: the instance of o of that name, or the base *)
Instance(o, i) == IF i \in Has(o) THEN i ELSE Base

(* What there is to do: an object, one of its instances, and a result *)
Results == {"PASS", "FAIL", "ABORT", "VALUE"} \X Int
Todo(what, o, i, result) == <<what, o, i, result>>
Whats == {"test", "result", "redo", "process", "reprocess", "run", "rerun", "told",
          "health", "rci", "cause", "action"}
Todos == Whats \X (Objs \cup Comps) \X Names \X Results

Init ==
    /\ setup \in DOMAIN Setups
    /\ type = S.type
    /\ last = [x \in Places |-> "PASS"]
    /\ count = [x \in Rules \X Names |-> 1]
    /\ memory = [x \in Rules \X Names |-> [fails |-> 0, bits |-> {}, pos |-> 0, size |-> 0]]
    /\ actionRun = {} /\ cause = {}
    /\ health = [c \in Comps |-> Full]
    /\ confidence = [c \in Comps |-> Full]
    /\ jobs = <<>>
    /\ stack = [w \in Threads |-> <<>>]
    /\ lock = None
    /\ due = {}
    /\ seen = [x \in Rules \X Names |-> <<>>]
    /\ acted = [x \in Rules \X Names |-> 0]
    /\ calls = {}

-----------------------------------------------------------------------------
(* Rules: seq_rule_run *)

Counting(r) == type[r].op \in {"N_IN_ROW", "N_IN_M"}

(* Where in its history an N_IN_M rule is, and what it holds next; the     *)
(* history is as long as M asks for when the rule is first run             *)
Remembered(x, failing) ==
    LET y == memory[x]
        size == IF y.size = 0 THEN (type[x[1]].m \div Byte + 1) * Byte ELSE y.size
    IN  IF y.pos >= size THEN [y EXCEPT !.size = size]
        ELSE [y EXCEPT !.size = size,
                       !.bits = IF failing THEN @ \cup {y.pos} ELSE @ \ {y.pos},
                       !.pos = IF y.pos + 1 >= type[x[1]].m THEN 0 ELSE y.pos + 1]

(* The failures it then remembers *)
BitCount(x, failing) == Cardinality(Remembered(x, failing).bits)

(* The inputs of a gate that count: the instances of the same name that    *)
(* are enabled                                                             *)
Inputs(r, i, result) ==
    {o \in S.inputs[r] \ S.off : last[<<o, Instance(o, i)>>] = result}

BugFails(x, result) == result[1] = "FAIL"

(* Whether the rule x fails with an input like result *)
Fails(x, result) ==
    LET n == type[x[1]].n
        m == type[x[1]].m
        op == type[x[1]].op
        failing == result[1] = "FAIL"
        value == result[1] = "VALUE"
        v == result[2]
    IN  \/ op = "ON_FAIL" /\ failing
        \/ op = "EQUAL_TO_N" /\ value /\ v = n
        \/ op = "NOT_EQUAL_TO_N" /\ value /\ v # n
        \/ op = "LESS_THAN_N" /\ value /\ v < n
        \/ op = "GREATER_THAN_N" /\ value /\ v > n
        \/ op = "RANGE_N_TO_M" /\ value /\ v \notin n..m
        \/ op \in {"N_EVER", "N_IN_ROW"} /\ failing /\ memory[x].fails + 1 >= n
        \/ /\ op = "N_IN_M" /\ ~ memory[x].pos >= Remembered(x, failing).size
           /\ BitCount(x, failing) >= n
        \/ op = "OR" /\ Inputs(x[1], x[2], "FAIL") # {}
        \/ op = "AND" /\ Inputs(x[1], x[2], "PASS") = {}

Ignores(x, result) ==
    \/ type[x[1]].op = "DISABLE"
    \/ type[x[1]].op = "N_IN_M" /\ result[1] \notin {"PASS", "FAIL"}

(* What a rule makes of a result, and what it remembers of it *)
RuleResult(x, result) ==
    IF Ignores(x, result) THEN "ABORT" ELSE IF Fails(x, result) THEN "FAIL" ELSE "PASS"

BugMemory(x, result) ==
    LET op == type[x[1]].op
        failing == result[1] = "FAIL"
        y == memory[x]
        fails == IF y.fails = Most THEN Most ELSE y.fails + 1
    IN  IF Ignores(x, result) THEN y
        ELSE IF op = "N_IN_M" THEN Remembered(x, failing)
        ELSE IF op = "N_EVER" /\ failing
             THEN [y EXCEPT !.fails = IF Fails(x, result) THEN 0 ELSE fails]
        ELSE IF op = "N_IN_ROW" /\ failing THEN [y EXCEPT !.fails = fails]
        ELSE y

Memory(x, result) ==
    LET op == type[x[1]].op
        failing == result[1] = "FAIL"
        y == memory[x]
        fails == IF y.fails = Most THEN Most ELSE y.fails + 1
    IN  IF Ignores(x, result) THEN y
        ELSE IF op = "N_IN_M" THEN Remembered(x, failing)
        ELSE IF op = "N_EVER" /\ failing
             THEN [y EXCEPT !.fails = IF Fails(x, result) THEN 0 ELSE fails]
        ELSE IF op = "N_IN_ROW" THEN [y EXCEPT !.fails = IF failing THEN fails ELSE 0]
        ELSE y

(* Results: seq_stats_update.  An abort or a value is no new last result.  *)
(* The base of a member fails with it, and passes with the last of them.   *)
BasePasses(x) == \A j \in Members(x[1]) \ {x[2]} : last[<<x[1], j>>] # "FAIL"

BugStatsUpdate(x, kind) ==
    LET base == <<x[1], Base>>
        again == {y \in {x, base} : last[y] = kind}
        fresh == {y \in {x, base} : last[y] # kind}
    IN  /\ last' = [y \in Places |-> IF y \in fresh THEN kind ELSE last[y]]
        /\ count' = [y \in Rules \X Names |-> IF y \in again THEN 2
                                      ELSE IF y \in fresh THEN 1 ELSE count[y]]

StatsUpdate(x, kind) ==
    LET base == <<x[1], Base>>
        again == {y \in {x, base} : last[y] = kind}
        fresh == {y \in {x, base} : last[y] # kind /\ (y = x \/ kind = "FAIL" \/ BasePasses(x))}
    IN  IF kind \notin {"PASS", "FAIL"} THEN UNCHANGED <<last, count>>
        ELSE /\ last' = [y \in Places |-> IF y \in fresh THEN kind ELSE last[y]]
             /\ count' = [y \in Rules \X Names |-> IF y \in again THEN 2
                                           ELSE IF y \in fresh THEN 1 ELSE count[y]]

(* The last results a counting rule was told of, as far back as its type   *)
(* looks: M for N_IN_M and N for N_IN_ROW                                  *)
Deep(r) == IF type[r].op = "N_IN_M" THEN type[r].m ELSE type[r].n
Told(x, result) ==
    IF ~ Counting(x[1]) \/ Ignores(x, result) THEN seen[x]
    ELSE LET all == Append(seen[x], result[1] = "FAIL")
         IN  SubSeq(all, IF Len(all) > Deep(x[1]) THEN 2 ELSE 1, Len(all))

-----------------------------------------------------------------------------
(* Threads *)

Top(w) == stack[w][1]
Doing(w, what) == stack[w] # <<>> /\ Top(w)[1] = what

(* A step of the thread w, which does todo before what was left to do, and *)
(* gives the lock up when there is nothing                                 *)
Proceed(w, todo) ==
    LET left == todo \o Tail(stack[w])
    IN  /\ stack' = [stack EXCEPT ![w] = left]
        /\ lock' = IF left = <<>> THEN None ELSE w

(* A worker takes a job; it will have to wait for the lock.  The function  *)
(* of a test that watches a component reads its health without it.         *)
(* Bound: none is taken while the lock is held.                            *)
Take(w) ==
    /\ lock = None /\ stack[w] = <<>> /\ jobs # <<>>
    /\ w \in S.pool
    /\ LET test == Head(jobs)[2] IN
       stack' = [stack EXCEPT ![w] =
           IF Head(jobs)[1] = "test" /\ S.watches[test] # None
           THEN <<Todo("result", test, Base, <<"VALUE", health[S.watches[test]]>>)>>
           ELSE <<Head(jobs)>>]
    /\ jobs' = Tail(jobs)
    /\ UNCHANGED <<setup, type, rules, blame, comps, lock, due, calls>>

(* What tells the rules of a result: the first of them, and with it the    *)
(* others in the chain                                                     *)
Process(what, r, i, result) ==
    IF r = None THEN <<>> ELSE <<Todo(what, r, i, result)>>

(* What the result may be that w has, once it has the lock *)
Gives(w) ==
    IF Doing(w, "test") THEN S.given[Top(w)[2]]
    ELSE IF Doing(w, "result") THEN {Top(w)[4]} ELSE {}

(* SEQ_TEST_RUN, once the function of the test has returned, which it does *)
(* without the lock, or SEQ_TEST_RESULT                                    *)
TestResult(w, result) ==
    /\ lock = None
    /\ result \in Gives(w)
    /\ StatsUpdate(<<Top(w)[2], Top(w)[3]>>, result[1])
    /\ Proceed(w, Process("process", S.first[Top(w)[2]], Top(w)[3], result))
    /\ UNCHANGED <<setup, type, memory, seen, blame, comps, jobs, due, calls>>

(* SEQ_TEST_RESULT_RCI: as if the last result had come in again *)
TestResultRci(w) ==
    /\ lock = None /\ Doing(w, "redo")
    /\ Proceed(w, Process("reprocess", S.first[Top(w)[2]], Top(w)[3], Top(w)[4]))
    /\ UNCHANGED <<setup, type, rules, blame, comps, jobs, due, calls>>

(* The instances of r a result for the instance i goes to: the one of that *)
(* name, or all                                                            *)
Reaches(r, i) ==
    IF Instance(r, i) # Base THEN <<i>> ELSE <<Base>> \o S.insts[r]

Each(what, r, is, result) == [k \in DOMAIN is |-> Todo(what, r, is[k], result)]

BugProcessInput(w) ==
    /\ lock = w /\ (Doing(w, "process") \/ Doing(w, "reprocess"))
    /\ LET r == Top(w)[2]
           result == Top(w)[4]
           todo == IF result[1] = "ABORT" THEN "rci"
                   ELSE IF Doing(w, "process") THEN "run" ELSE "rerun"
       IN  Proceed(w, <<Todo(todo, r, Instance(r, Top(w)[3]), result)>> \o
                      Process(Top(w)[1], S.next[r], Top(w)[3], result))
    /\ UNCHANGED <<setup, type, rules, blame, comps, jobs, due, calls>>

(* SEQ_RULE_PROCESS_INPUT, for one rule of the chain: an abort is only for *)
(* RCI to know of                                                          *)
ProcessInput(w) ==
    /\ lock = w /\ (Doing(w, "process") \/ Doing(w, "reprocess"))
    /\ LET r == Top(w)[2]
           result == Top(w)[4]
           todo == IF result[1] = "ABORT" THEN "rci"
                   ELSE IF Doing(w, "process") THEN "run" ELSE "rerun"
       IN  Proceed(w, Each(todo, r, Reaches(r, Top(w)[3]), result) \o
                      Process(Top(w)[1], S.next[r], Top(w)[3], result))
    /\ UNCHANGED <<setup, type, rules, blame, comps, jobs, due, calls>>

(* seq_rule_result_on_health: what the health of its component changes by, *)
(* if the result of the base of r is new                                   *)
HealthTodo(r, kind) ==
    LET again == count'[<<r, Base>>] > 1
    IN  IF S.home[r] = None \/ (~ again /\ kind \notin {"PASS", "FAIL"}) THEN <<>>
        ELSE <<Todo("health", S.home[r], Base, <<"VALUE", IF again THEN 0 ELSE S.severity[r]>>)>>

(* SEQ_RULE_RUN *)
RuleRun(w) ==
    /\ lock = w /\ Doing(w, "run")
    /\ LET x == <<Top(w)[2], Top(w)[3]>>
           kind == RuleResult(x, Top(w)[4])
       IN  /\ memory' = [memory EXCEPT ![x] = Memory(x, Top(w)[4])]
           /\ seen' = [seen EXCEPT ![x] = Told(x, Top(w)[4])]
           /\ StatsUpdate(x, kind)
           /\ Proceed(w, HealthTodo(x[1], kind) \o <<Todo("told", x[1], x[2], <<kind, 0>>)>>)
    /\ UNCHANGED <<setup, type, blame, comps, jobs, due, calls>>

(* SEQ_RULE_RUN_RCI *)
RuleRunRci(w) ==
    /\ lock = w /\ Doing(w, "rerun")
    /\ LET x == <<Top(w)[2], Top(w)[3]>>
       IN  Proceed(w, <<Todo("told", x[1], x[2], <<last[x], 0>>)>>)
    /\ UNCHANGED <<setup, type, rules, blame, comps, jobs, due, calls>>

BugRuleResultTold(w) ==
    /\ lock = w /\ Doing(w, "told")
    /\ LET x == <<Top(w)[2], Top(w)[3]>>
           result == Top(w)[4]
           out == S.output[x[1]]
       IN  /\ acted' = IF result[1] = "PASS" THEN [acted EXCEPT ![x] = 0] ELSE acted
           /\ Proceed(w, (IF out = None THEN <<>>
                          ELSE Each("process", out, Reaches(out, x[2]), result)) \o
                         <<Todo("rci", x[1], x[2], result)>>)
    /\ UNCHANGED <<setup, type, rules, actionRun, cause, comps, jobs, due, calls>>

(* SEQ_RULE_RESULT: a pass allows for another action, and the result is    *)
(* input to the rule's output before RCI hears of it                       *)
RuleResultTold(w) ==
    /\ lock = w /\ Doing(w, "told")
    /\ LET x == <<Top(w)[2], Top(w)[3]>>
           result == Top(w)[4]
           out == S.output[x[1]]
       IN  /\ actionRun' = IF result[1] = "PASS" THEN actionRun \ {x} ELSE actionRun
           /\ acted' = IF result[1] = "PASS" THEN [acted EXCEPT ![x] = 0] ELSE acted
           /\ Proceed(w, (IF out = None THEN <<>>
                          ELSE Each("process", out, Reaches(out, x[2]), result)) \o
                         <<Todo("rci", x[1], x[2], result)>>)
    /\ UNCHANGED <<setup, type, rules, cause, comps, jobs, due, calls>>

(* myrefl_rci_run, for as much of it as shows here.  The rules blamed are  *)
(* queued for their actions.                                               *)
RciRun(w) ==
    /\ lock = w /\ Doing(w, "rci")
    /\ LET x == <<Top(w)[2], Top(w)[3]>>
           kind == Top(w)[4][1]
           own == {y \in {x} : kind = "FAIL" /\ count[x] = 1 /\ x[1] \notin S.doubted} \ cause
           passed == {y \in {x} : kind = "PASS" /\ count[x] = 1}
           others == {y \in Existing \ cause : y[1] \in S.doubted /\ last[y] = "FAIL"}
           retests == {y \in Existing : y[1] \in Tests \ Polled /\ S.doubted # {}}
       IN  \E more \in {{}} \cup {{y} : y \in others},
              cleared \in SUBSET {y \in cause : y[1] \in S.doubted},
              again \in {{}} \cup {{y} : y \in retests} :
             LET fresh == own \cup more IN
             /\ due' = due \cup again
             /\ cause' = ((cause \ passed) \ cleared) \cup fresh
             /\ \E order \in {q \in [1..Cardinality(fresh) -> fresh] :
                                 \A y \in fresh : \E k \in DOMAIN q : q[k] = y} :
                    jobs' = jobs \o [k \in DOMAIN order |->
                                       Todo("cause", order[k][1], order[k][2], <<"FAIL", 0>>)]
    /\ Proceed(w, <<>>)
    /\ UNCHANGED <<setup, type, rules, actionRun, acted, comps, calls>>

BugRootCause(w) ==
    /\ lock = None /\ Doing(w, "cause")
    /\ LET x == <<Top(w)[2], Top(w)[3]>>
       IN  /\ acted' = [acted EXCEPT ![x] = IF @ = 2 THEN 2 ELSE @ + 1]
           /\ stack' = [stack EXCEPT ![w] = <<Todo("action", x[1], x[2], Top(w)[4])>>]
    /\ UNCHANGED <<setup, type, rules, actionRun, cause, comps, jobs, lock, due, calls>>

(* SEQ_RULE_ROOT_CAUSE: the action is started, unless it has been since    *)
(* the rule last passed.  It runs without the lock.                        *)
RootCause(w) ==
    /\ lock = None /\ Doing(w, "cause")
    /\ LET x == <<Top(w)[2], Top(w)[3]>>
       IN  \/ /\ x \in actionRun
              /\ stack' = [stack EXCEPT ![w] = <<>>]
              /\ UNCHANGED <<actionRun, acted>>
           \/ /\ x \notin actionRun
              /\ actionRun' = actionRun \cup {x}
              /\ acted' = [acted EXCEPT ![x] = IF @ = 2 THEN 2 ELSE @ + 1]
              /\ stack' = [stack EXCEPT ![w] = <<Todo("action", x[1], x[2], Top(w)[4])>>]
    /\ UNCHANGED <<setup, type, rules, cause, comps, jobs, lock, due, calls>>

(* The notification tests that feed a rule, as myrefl_sched_rule_immediate *)
(* finds them by way of its inputs; the polled ones may run at any time    *)
Feeding(x) ==
    LET closed == {P \in SUBSET Existing :
                      /\ x \in P
                      /\ \A y \in P : y[1] \in Rules =>
                            \A o \in S.inputs[y[1]] : <<o, Instance(o, y[2])>> \in P}
    IN  {y \in Existing : y[1] \in Tests \ Polled /\ \A P \in closed : y \in P}

(* The function of an action returns.  If it has passed its rule is tested *)
(* again.                                                                  *)
ActionEnd(w, passed) ==
    /\ lock = None /\ Doing(w, "action")
    /\ due' = IF passed THEN due \cup Feeding(<<Top(w)[2], Top(w)[3]>>) ELSE due
    /\ stack' = [stack EXCEPT ![w] = <<>>]
    /\ UNCHANGED <<setup, type, rules, blame, comps, jobs, lock, calls>>

-----------------------------------------------------------------------------
(* Health *)

(* Health is full but for the failing rules and the health lost by         *)
(* components that are members of c                                        *)
Failing(c) == {r \in Rules \ S.off : S.home[r] = c /\ last[<<r, Base>>] = "FAIL"}
Within(c) == {k \in Comps : S.home[k] = c}
Lost(c) ==
    SumFunctionOnSet(S.severity, Failing(c))
    + SumFunctionOnSet([k \in Comps |-> Full - health[k]], Within(c))

BugConfident(c, h) ==
    LET gap == h - confidence[c]
        step == IF gap \div Hour = 0 THEN 1 ELSE gap \div Hour
    IN  IF gap < 0 THEN (IF h > 0 THEN h ELSE 0)
        ELSE IF gap = 0 THEN h
        ELSE IF confidence[c] + step > Full THEN Full ELSE confidence[c] + step

(* Confidence falls with health, and rises slowly, no higher than that of  *)
(* any component in c                                                      *)
Confident(c, h) ==
    LET gap == h - confidence[c]
        step == IF gap \div Hour = 0 THEN 1 ELSE gap \div Hour
        risen == IF gap = 0 THEN h
                 ELSE Min({confidence[c] + step} \cup
                          {confidence[k] : k \in Within(c)})
    IN  IF gap < 0 THEN (IF h > 0 THEN h ELSE 0) ELSE Min({risen, Full})

BugCompHealth(w) ==
    /\ lock = w /\ Doing(w, "health")
    /\ LET c == Top(w)[2] IN
       /\ health' = [health EXCEPT ![c] = Full - Lost(c)]
       /\ confidence' = [confidence EXCEPT ![c] = Confident(c, Full - Lost(c))]
       /\ Proceed(w, <<>>)
    /\ UNCHANGED <<setup, type, rules, blame, jobs, due, calls>>

(* seq_comp_health: a change is told to the tests that watch c, and the    *)
(* component that c is in is next                                          *)
CompHealth(w) ==
    /\ lock = w /\ Doing(w, "health")
    /\ LET c == Top(w)[2]
           h == Full - Lost(c)
           watching == {t \in Tests : S.watches[t] = c /\ Top(w)[4][2] # 0}
       IN  /\ health' = [health EXCEPT ![c] = h]
           /\ confidence' = [confidence EXCEPT ![c] = Confident(c, h)]
           /\ \E t \in watching \cup {None} :
                 /\ t = None <=> watching = {}
                 /\ jobs' = IF t = None THEN jobs
                            ELSE Append(jobs, Todo("result", t, Base, <<"VALUE", h>>))
           /\ Proceed(w, IF S.home[c] = None THEN <<>>
                         ELSE <<Todo("health", S.home[c], Base, Top(w)[4])>>)
    /\ UNCHANGED <<setup, type, rules, blame, due, calls>>

-----------------------------------------------------------------------------
(* What the program, the scheduler and the user do, each with the lock     *)

(* myrefl_test_notify *)
Notify(t, i, result) ==
    /\ lock = None /\ Len(jobs) < MaxJobs
    /\ t \in Tests \ Polled /\ i \in Has(t) /\ result \in S.given[t]
    /\ jobs' = Append(jobs, Todo("result", t, i, result))
    /\ UNCHANGED <<setup, type, rules, blame, comps, stack, lock, due, calls>>

(* A polled test is in no queue from here until its result is in *)
Waiting(t, i) ==
    \E todo \in {jobs[k] : k \in DOMAIN jobs} \cup
                {Top(w) : w \in {v \in Workers : stack[v] # <<>>}} :
        todo[1] = "test" /\ todo[2] = t /\ todo[3] = i

(* The time of a polled test has come: myrefl_seq_from_test.  One without  *)
(* any rule is left out.                                                   *)
Poll(t, i) ==
    /\ lock = None /\ Len(jobs) < MaxJobs
    /\ t \in Polled /\ S.first[t] # None /\ i \in Has(t) /\ ~ Waiting(t, i)
    /\ jobs' = Append(jobs, Todo("test", t, i, <<"VALUE", 0>>))
    /\ UNCHANGED <<setup, type, rules, blame, comps, stack, lock, due, calls>>

(* A notification test is on the immediate queue:                          *)
(* myrefl_seq_from_test_notify_rci                                         *)
Redo(t, i) ==
    /\ lock = None /\ Len(jobs) < MaxJobs
    /\ <<t, i>> \in due /\ due' = due \ {<<t, i>>}
    /\ jobs' = Append(jobs, Todo("redo", t, i, <<last[<<t, i>>], 0>>))
    /\ UNCHANGED <<setup, type, rules, blame, comps, stack, lock, calls>>

Called(call) ==
    /\ Cardinality(calls) < MaxCalls /\ call \notin calls
    /\ calls' = calls \cup {call}

(* myrefl_rule_set_type, or the user's own setting *)
RuleSetType(r, new) ==
    /\ lock = None /\ r \in S.touched /\ Called(<<"type", r>>)
    /\ type' = [type EXCEPT ![r] = new]
    /\ UNCHANGED <<setup, rules, blame, comps, threads, due>>

(* myrefl_health_set: whatever is asked for, the health of the component   *)
(* is worked out as ever                                                   *)
HealthSet(c, h) ==
    /\ lock = None /\ c \in S.touched /\ Called(<<"health", c>>)
    /\ lock' = App
    /\ stack' = [stack EXCEPT ![App] = <<Todo("health", c, Base, <<"VALUE", h - health[c]>>)>>]
    /\ UNCHANGED <<setup, type, rules, blame, comps, jobs, due>>

-----------------------------------------------------------------------------
Step(w) ==
    \/ TestResultRci(w) \/ ProcessInput(w) \/ RuleRun(w) \/ RuleRunRci(w)
    \/ RuleResultTold(w) \/ RciRun(w) \/ RootCause(w)
    \/ \E result \in Gives(w) : TestResult(w, result)
    \/ \E passed \in BOOLEAN : ActionEnd(w, passed)

Next ==
    \/ \E w \in Workers : Take(w) \/ Step(w)
    \/ \E w \in Threads : CompHealth(w)
    \/ \E t \in Tests, i \in Names : Poll(t, i) \/ Redo(t, i)
    \/ \E t \in Tests, i \in Names : \E result \in S.given[t] : Notify(t, i, result)
    \/ \E r \in Rules, new \in NewTypes : RuleSetType(r, new)
    \/ \E c \in Comps, h \in {0, Full} : HealthSet(c, h)

Spec == Init /\ [][Next]_vars

(* A thread goes on with what it has, however many others want the lock;   *)
(* the functions of tests and actions return                               *)
Fairness ==
    /\ \A w \in Workers : SF_vars(Take(w)) /\ SF_vars(Step(w))
    /\ \A w \in Threads : WF_vars(CompHealth(w))

FairSpec == Spec /\ Fairness

-----------------------------------------------------------------------------
(* Properties *)

(* The type invariant. *)
TypeOK ==
    /\ setup \in DOMAIN Setups
    /\ type \in [Rules -> Types]
    /\ last \in [Places -> {"PASS", "FAIL"}]
    /\ count \in [Rules \X Names -> 1..2]
    /\ memory \in [Rules \X Names -> [fails : 0..Most, bits : SUBSET Nat, pos : Nat, size : Nat]]
    /\ actionRun \subseteq Rules \X Names /\ cause \subseteq Rules \X Names
    /\ health \in [Comps -> Int] /\ confidence \in [Comps -> 0..Full]
    /\ stack \in [Threads -> Seq(Todos)] /\ jobs \in Seq(Todos)
    /\ lock \in Threads \cup {None}
    /\ due \subseteq Tests \X Names
    /\ acted \in [Rules \X Names -> 0..2]

(* A type is what it was set to at first, and the lock is free. *)
TypesKept == \A r \in Rules : <<"type", r>> \notin calls
Free == lock = None

(* The rules whose results are their own: a base sums up its members. *)
Own == {x \in Existing : x[1] \in Rules /\ (x[2] = Base => Members(x[1]) = {})}

(* What a rule can count: at least one failure, of at least one result; N  *)
(* in a row as far as failures in a row are counted here                   *)
Countable(r) ==
    /\ Counting(r) /\ type[r].n > 0 /\ Deep(r) > 0
    /\ type[r].op = "N_IN_ROW" => type[r].n <= Most

(* The failures among some results *)
Failures(s) == {k \in DOMAIN s : s[k]}

(* A rule that counts fails when as many of the last results as its type   *)
(* says were failures, and only then: N in a row, or N of M.               *)
CountingFollowsHistory ==
    TypesKept =>
        \A x \in Own : Countable(x[1]) =>
            (last[x] = "FAIL" <=> Cardinality(Failures(seen[x])) >= type[x[1]].n)

(* The rules that are told of the results of an object, one after another  *)
Chained(r, q) ==
    \A C \in SUBSET Rules : r \in C /\ (\A p \in C : S.next[p] \in C \cup {None}) => q \in C
Feeds(o, q) ==
    LET r == IF o \in Tests THEN S.first[o] ELSE S.output[o]
    IN  r # None /\ Chained(r, q)

(* A gate that is told whenever an input changes: each leads to it, and    *)
(* the base of one, where the gate has a member and the input has not, has *)
(* no other member that the gate has too, to whom its results go instead.  *)
(* That of AND has an input that is enabled.                               *)
ToldOf(x) ==
    /\ \A o \in S.inputs[x[1]] :
          Feeds(o, x[1]) /\ (x[2] \in Has(o) \/ Members(o) \cap Members(x[1]) = {})
    /\ type[x[1]].op = "AND" => S.inputs[x[1]] \ S.off # {}

(* An OR rule fails while any of its inputs fails, and an AND rule unless  *)
(* one of them passes, whichever of them was the last to report.           *)
GatesFollowInputs ==
    TypesKept /\ Free =>
        \A x \in Own : ToldOf(x) =>
            /\ type[x[1]].op = "OR" =>
                 (last[x] = "FAIL" <=> Inputs(x[1], x[2], "FAIL") # {})
            /\ type[x[1]].op = "AND" =>
                 (last[x] = "FAIL" <=> Inputs(x[1], x[2], "PASS") = {})

(* The base of a rule with members fails when one of them does. *)
BaseFollowsMembers ==
    Free => \A r \in Rules : Members(r) # {} =>
        (last[<<r, Base>>] = "FAIL" <=> \E i \in Members(r) : last[<<r, i>>] = "FAIL")

(* Health is that of the rules and components in a component, however deep *)
(* down the last change was.                                               *)
HealthFollowsRules == Free => \A c \in Comps : health[c] = Full - Lost(c)

(* Confidence is never above health, nor, if no severity is positive for   *)
(* health, above that of a member.                                         *)
ConfidenceEarned ==
    \A c \in Comps :
        /\ confidence[c] <= health[c] \/ confidence[c] = 0
        /\ Free /\ (\A r \in Rules : S.severity[r] >= 0) /\ S.home[c] # None =>
             confidence[S.home[c]] <= confidence[c]

(* However often a rule is blamed, its action is begun but once before the *)
(* rule has passed again.                                                  *)
ActedOnce == \A x \in Rules \X Names : acted[x] <= 1

(* When the patient fails, a rule that depends on no other, its action is  *)
(* begun, if it has not been since the rule last passed; or the rule       *)
(* passes before.                                                          *)
FailureActedOn ==
    last[S.patient] = "FAIL" ~> acted[S.patient] > 0 \/ last[S.patient] = "PASS"
=============================================================================
