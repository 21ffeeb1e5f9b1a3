--------------------------------- MODULE Rci ---------------------------------
(***************************************************************************)
(* Root cause identification (myrefl_rci.c): which of the failing rules is *)
(* to blame.  A rule that fails starts a session: every passing rule below *)
(* it is tested again, and is a candidate until its result is in, as is    *)
(* the rule itself.  The deepest failing rule becomes the root cause.      *)
(*                                                                         *)
(* myrefl_rci_run is called with the DB lock held and does all its work    *)
(* before it returns, so the result of a rule is one action, with every    *)
(* traversal it starts.  A test runs without the lock: its start and its   *)
(* result are two actions.                                                 *)
(*                                                                         *)
(* A traversal (rci_map_function) applies a function to every enabled rule *)
(* it reaches.  What the functions used here do to one rule never depends  *)
(* on what they did to another one in the same traversal, so it is the set *)
(* of rules that counts, and the order in which they are met is left out,  *)
(* as are the instances of a rule: each is a rule of its own.              *)
(* Dependencies have no loop here; Depend says when they may.  A rule has  *)
(* one test, which is its own and is enabled at first.  Of                 *)
(* last_result_count the code asks whether it is 1, and whether it is      *)
(* above 3, which is Often here.                                           *)
(*                                                                         *)
(* An operator whose name starts with Bug is no part of Next: it is what   *)
(* the definition after it would be with a slip that a property catches.   *)
(***************************************************************************)
EXTENDS Integers, Sequences, FiniteSets

CONSTANTS Rules,     \* the rules
          Comps,     \* the components some of them are in
          Notified,  \* the rules whose test is a notification, not polled
          Graphs,    \* what may depend on what: a sequence of possibilities
          NoComp,    \* the container of an object that is in none of Comps
          Often,     \* bound: last_result_count is counted up to here
          Touched,   \* bound: the objects that are called for
          MaxCalls   \* bound: calls that enable, disable or delete

Objs == Rules \cup Comps

(* child, top and bottom are child_depend, top_depend, bottom_depend, and  *)
(* inside is parent_comp                                                   *)
ASSUME GraphsAssumption ==
    Graphs \in Seq([child : [Objs -> SUBSET Objs],
                    inside : [Objs -> Comps \cup {NoComp}],
                    top : [Comps -> SUBSET Objs],
                    bottom : [Comps -> SUBSET Objs]])
ASSUME NamesAssumption ==
    /\ Rules \cap Comps = {} /\ NoComp \notin Objs
    /\ Notified \subseteq Rules /\ Touched \subseteq Objs
ASSUME BoundsAssumption == MaxCalls \in Nat /\ Often \in Nat /\ Often > 1

VARIABLES
    graph,    \* which of Graphs it is that the program has built
    state,    \* the state of each object
    last,     \* rule_instance->last_result
    count,    \* rule_instance->last_result_count, up to Often
    rc,       \* rule_instance->root_cause
    rerun,    \* the rules whose test is on the immediate queue
    running,  \* the rules whose test is being run, or its last result handed on
    idle,     \* the rules whose polled test is disabled, and on no queue
    given,    \* history: failures that were dropped after aborts
    calls     \* history: the calls made so far

results == <<last, count>>
tests == <<rerun, running, idle>>
vars == <<graph, state, results, rc, tests, given, calls>>

CallNames == {"enable", "disable", "delete", "enable test", "disable test"}
States == {"enabled", "disabled", "deleted"}
Results == {"PASS", "FAIL"}
RootCauses == {"not", "candidate", "cause"}

Init ==
    /\ graph \in DOMAIN Graphs
    /\ state = [o \in Objs |-> "enabled"]
    /\ last = [r \in Rules |-> "PASS"]
    /\ count = [r \in Rules |-> 1]
    /\ rc = [r \in Rules |-> "not"]
    /\ rerun = {}
    /\ running = {}
    /\ idle = {}
    /\ given = {}
    /\ calls = {}

-----------------------------------------------------------------------------
(* Traversals: rci_map_function, over the graph s, when the objects         *)
(* on are enabled.  It goes no further from any other, a deleted one       *)
(* included.                                                               *)

(* A traversal is at an object as a member, <<o, "in">>, where a component *)
(* stands for what is at its boundary, or on the outside of a component,   *)
(* <<c, "out">>, as a member at that boundary is what it depends for       *)
Places == Objs \X {"in"} \cup Comps \X {"out"}

(* The container through whose boundary, top or bottom, o is left *)
Leaves(s, o, boundary) ==
    IF s.inside[o] \in Comps /\ o \in boundary[s.inside[o]]
    THEN {<<s.inside[o], "out">>} ELSE {}

MapParents(s, on, at) ==
    IF at[1] \notin on THEN {}
    ELSE ((IF at[1] \in Comps /\ at[2] = "in" THEN s.bottom[at[1]]
           ELSE {p \in Objs : at[1] \in s.child[p]}) \X {"in"})
         \cup Leaves(s, at[1], s.top)

MapChildren(s, on, at) ==
    IF at[1] \notin on THEN {}
    ELSE ((IF at[1] \in Comps /\ at[2] = "in" THEN s.top[at[1]]
           ELSE s.child[at[1]]) \X {"in"})
         \cup Leaves(s, at[1], s.bottom)

(* The enabled rules met from r, when next says where each place leads *)
Met(r, on, next) ==
    LET closed == {S \in SUBSET Places :
                      next[<<r, "in">>] \subseteq S /\ \A at \in S : next[at] \subseteq S}
    IN  {x \in Rules \cap on : \A S \in closed : <<x, "in">> \in S}

(* What may be enabled *)
Selections == {Objs \ off : off \in SUBSET Objs}

AboveIn ==
    [g \in DOMAIN Graphs |-> [on \in Selections |->
        LET next == [at \in Places |-> MapParents(Graphs[g], on, at)]
        IN  [r \in Rules |-> Met(r, on, next)]]]

BelowIn ==
    [g \in DOMAIN Graphs |-> [on \in Selections |->
        LET next == [at \in Places |-> MapChildren(Graphs[g], on, at)]
        IN  [r \in Rules |-> Met(r, on, next)]]]

(* As Depend has it, a dependency is known at both its ends, so that what  *)
(* is below a rule has that rule above it; and none depends on itself      *)
ASSUME OrderAssumption ==
    \A g \in DOMAIN Graphs, on \in Selections : \A p, c \in Rules :
        /\ c \in BelowIn[g][on][p] <=> p \in AboveIn[g][on][c]
        /\ p \notin BelowIn[g][on][p]

Enabled == {o \in Objs : state[o] = "enabled"}
Live == {o \in Objs : state[o] # "deleted"}

Above(r) == AboveIn[graph][Enabled][r]
Below(r) == BelowIn[graph][Enabled][r]

-----------------------------------------------------------------------------
(* The functions that are applied, to the results lst and root causes rcs  *)

Failing(S, lst) == {r \in S : lst[r] = "FAIL"}
Candidates(S, rcs) == {r \in S : rcs[r] = "candidate"}

BugVerdict(r, lst, rcs) ==
    IF Failing(Below(r), lst) # {} \/ Candidates(Below(r), rcs) # {}
    THEN "candidate" ELSE "cause"

(* What rci_determine_if_root_cause makes of a failing candidate *)
Verdict(r, lst, rcs) ==
    IF Failing(Below(r), lst) # {} THEN "not"
    ELSE IF Candidates(Below(r), rcs) # {} THEN "candidate"
    ELSE "cause"

(* Those of S, all enabled, that it looks into, and those it blames *)
Judged(S, lst, rcs) == Failing(Candidates(S, rcs), lst)
Blamed(S, lst, rcs) == {r \in Judged(S, lst, rcs) : Verdict(r, lst, rcs) = "cause"}

(* All that rci_propagate_rule_change(FAIL) reaches, from each of S *)
AboveAll(S) == UNION {Above(r) \ {r} : r \in S}

BugCleared(S, rcs) == rcs

(* rci_apply_propagate_rule_change of a failure *)
Cleared(S, rcs) ==
    [r \in Rules |-> IF r \in AboveAll(S) /\ rcs[r] = "cause" THEN "not" ELSE rcs[r]]
DoubtedBy(S, lst) == AboveAll(S) \ Failing(AboveAll(S), lst)

(* rci_determine_if_root_cause of each of S *)
Determined(S, lst, rcs) ==
    Cleared(Blamed(S, lst, rcs),
            [r \in Rules |-> IF r \in Judged(S, lst, rcs)
                             THEN Verdict(r, lst, rcs) ELSE rcs[r]])

BugRevived(S, lst, rcs) == {}

(* rci_apply_propagate_rule_change of a pass *)
Revived(S, lst, rcs) == {r \in Failing(S, lst) : rcs[r] = "not"}

-----------------------------------------------------------------------------
(* myrefl_rci_run *)

(* myrefl_sched_rule_immediate, of each of S: a polled test that is not    *)
(* queued is taken to be running, and is left alone, as is one that is not *)
(* queued because it is disabled                                           *)
Immediate(S) ==
    /\ rerun' = rerun \cup {r \in S : r \in Notified \/ r \notin running' \cup idle}
    /\ UNCHANGED idle

BugHandlePassed(r, lst, change) ==
    LET cleared == [rc EXCEPT ![r] = IF @ = "candidate" THEN "not" ELSE @]
        judged == Determined(Above(r), lst, cleared)
        revived == IF change THEN Revived(Above(r), lst, judged) ELSE {}
    IN  /\ rc' = [x \in Rules |-> IF x \in revived THEN "candidate" ELSE judged[x]]
        /\ Immediate(DoubtedBy(Blamed(Above(r), lst, cleared), lst) \cup revived)

(* rci_handle_passed_rule_status_report *)
HandlePassed(r, lst, change) ==
    LET cleared == [rc EXCEPT ![r] = "not"]
        judged == Determined(Above(r), lst, cleared)
        revived == IF change THEN Revived(Above(r), lst, judged) ELSE {}
    IN  /\ rc' = [x \in Rules |-> IF x \in revived THEN "candidate" ELSE judged[x]]
        /\ Immediate(DoubtedBy(Blamed(Above(r), lst, cleared), lst) \cup revived)

(* The rules below r that rci_schedule_dependent_rules retests: those that *)
(* pass and are no candidates already                                      *)
Suspects(r, lst) == (Below(r) \ Failing(Below(r), lst)) \ Candidates(Below(r), rc)

BugScheduleDependent(r, lst) ==
    /\ rc' = [x \in Rules |->
                IF x \notin Suspects(r, lst) \cup {r} THEN rc[x]
                ELSE IF Failing(Below(x), lst) = {} THEN "candidate" ELSE "not"]
    /\ Immediate({x \in Suspects(r, lst) : Below(x) # {}})

(* rci_schedule_dependent_rules, down to the last rule: with a failing     *)
(* rule below it, no rule can be to blame                                  *)
ScheduleDependent(r, lst) ==
    /\ rc' = [x \in Rules |->
                IF x \notin Suspects(r, lst) \cup {r} THEN rc[x]
                ELSE IF Failing(Below(x), lst) = {} THEN "candidate" ELSE "not"]
    /\ Immediate(Suspects(r, lst))

(* Found to be the root cause: rci_propagate_rule_change of its failure *)
Blame(r, lst) ==
    /\ rc' = Cleared({r}, [rc EXCEPT ![r] = "cause"])
    /\ Immediate(DoubtedBy({r}, lst))

(* rci_handle_failed_rule_status_report *)
HandleFailed(r, lst) ==
    \/ rc[r] = "cause" /\ rc' = rc /\ Immediate({})
    \/ /\ rc[r] = "candidate"
       /\ LET S == {r} \cap Enabled IN
          /\ rc' = Determined(S, lst, rc)
          /\ Immediate(DoubtedBy(Blamed(S, lst, rc), lst))
    \/ rc[r] = "not" /\ Below(r) # {} /\ ScheduleDependent(r, lst)
    \/ rc[r] = "not" /\ Below(r) = {} /\ Blame(r, lst)

(* myrefl_rci_run of a rule that has passed or failed, with last_result    *)
(* and its count as the sequencer has left them                            *)
RciRun(r, lst, cnt) ==
    LET change == cnt[r] = 1
        result == lst[r]
    IN  \/ ~ change /\ rc[r] # "candidate" /\ rc' = rc /\ Immediate({})
        \/ /\ change \/ rc[r] = "candidate"
           /\ \/ result = "PASS" /\ HandlePassed(r, lst, change)
              \/ result = "FAIL" /\ HandleFailed(r, lst)

(* myrefl_rci_run of a rule whose test has aborted *)
RciRunAbort(r) ==
    \/ rc[r] # "candidate" /\ rc' = rc /\ Immediate({}) /\ UNCHANGED given
    \/ /\ rc[r] = "candidate" /\ count[r] < Often
       /\ rc' = rc /\ Immediate({r}) /\ UNCHANGED given
    \/ /\ rc[r] = "candidate" /\ count[r] = Often
       /\ HandlePassed(r, last, TRUE)
       /\ given' = IF last[r] = "FAIL" THEN given \cup {r} ELSE given

-----------------------------------------------------------------------------
(* Tests *)

(* The test of r is run: a polled one as its time has come, or as it is on *)
(* the immediate queue; a notification test only for the latter reason,    *)
(* and all it does is to hand the rule its last result again.              *)
(* Bound: one at a time.                                                   *)
Start(r) ==
    /\ r \in Live /\ r \notin running \cup idle
    /\ r \in Notified => r \in rerun
    /\ rerun' = rerun \ {r} /\ running' = running \cup {r}
    /\ UNCHANGED <<idle, graph, state, results, rc, given, calls>>

(* A polled test ends, and is queued again before its rules are told,      *)
(* unless it is disabled by then; a notification may come in at any time   *)
Ends(r) ==
    /\ r \in Live
    /\ r \in Notified \/ r \in running
    /\ running' = IF r \in Notified THEN running ELSE running \ {r}
    /\ UNCHANGED <<graph, state, calls>>

(* A result for r, which seq_stats_update records before RCI is told *)
Report(r, result) ==
    /\ Ends(r)
    /\ last' = [last EXCEPT ![r] = result]
    /\ count' = [count EXCEPT ![r] =
                    IF last[r] # result THEN 1 ELSE IF @ = Often THEN @ ELSE @ + 1]
    /\ given' = IF last[r] # result THEN given \ {r} ELSE given
    /\ RciRun(r, last', count')

(* An abort is not recorded as a result *)
Abort(r) ==
    /\ Ends(r)
    /\ RciRunAbort(r)
    /\ UNCHANGED results

(* SEQ_TEST_RESULT_RCI: RCI is told the last result again *)
Redo(r) ==
    /\ r \in Notified \cap running \cap Live
    /\ running' = running \ {r}
    /\ RciRun(r, last, count)
    /\ UNCHANGED <<graph, state, results, given, calls>>

-----------------------------------------------------------------------------
(* Calls, none of which RCI hears of *)

Called(call, o) ==
    /\ o \in Touched /\ <<call, o>> \notin calls /\ Cardinality(calls) < MaxCalls
    /\ calls' = calls \cup {<<call, o>>}
    /\ UNCHANGED <<graph, results, rc, given>>

(* A call for a component that does so to what is in it is several here    *)
Disable(o) ==
    /\ state[o] = "enabled" /\ Called("disable", o)
    /\ state' = [state EXCEPT ![o] = "disabled"]
    /\ UNCHANGED tests

Enable(o) ==
    /\ state[o] = "disabled" /\ Called("enable", o)
    /\ state' = [state EXCEPT ![o] = "enabled"]
    /\ UNCHANGED tests

(* myrefl_obj_delete marks the rule as deleted first.  The traversal of    *)
(* myrefl_rci_rule_deleted then ends where it starts, at a rule that is    *)
(* not enabled.                                                            *)
RuleDelete(r) ==
    /\ state[r] # "deleted" /\ Called("delete", r)
    /\ state' = [state EXCEPT ![r] = "deleted"]
    /\ rerun' = rerun \ {r} /\ running' = running \ {r}
    /\ UNCHANGED idle

(* myrefl_api_test_disable_guts: a polled test leaves its queue, and its   *)
(* rule stays enabled.  So it is if the CLI has enabled the test, which    *)
(* then stays enabled itself.  A notification test stays where it is; it   *)
(* may be handed on, but not be notified, which it need never be.          *)
TestDisable(r) ==
    /\ r \in Live \ (Notified \cup idle) /\ Called("disable test", r)
    /\ idle' = idle \cup {r} /\ rerun' = rerun \ {r}
    /\ UNCHANGED <<state, running>>

(* myrefl_api_test_enable_guts.                                            *)
(* Bound: not while the test is still run, so that it runs once at a time. *)
TestEnable(r) ==
    /\ r \in idle \ running /\ Called("enable test", r)
    /\ idle' = idle \ {r}
    /\ UNCHANGED <<state, rerun, running>>

Next ==
    \/ \E r \in Rules : Start(r) \/ Abort(r) \/ Redo(r) \/ RuleDelete(r)
    \/ \E r \in Rules : TestDisable(r) \/ TestEnable(r)
    \/ \E r \in Rules, result \in Results : Report(r, result)
    \/ \E o \in Objs : Disable(o) \/ Enable(o)

Spec == Init /\ [][Next]_vars

(* The scheduler starts every test in the end that stays enabled, every    *)
(* test that has been started ends, and none aborts every time.  Nobody    *)
(* has to notify.                                                          *)
Fairness ==
    \A r \in Rules :
        /\ WF_vars(Start(r))
        /\ WF_vars(Redo(r))
        /\ r \notin Notified => SF_vars(\E result \in Results : Report(r, result))

FairSpec == Spec /\ Fairness

-----------------------------------------------------------------------------
(* Properties *)

(* The type invariant. *)
TypeOK ==
    /\ graph \in DOMAIN Graphs
    /\ state \in [Objs -> States]
    /\ last \in [Rules -> Results]
    /\ count \in [Rules -> 1..Often]
    /\ rc \in [Rules -> RootCauses]
    /\ rerun \subseteq Rules /\ running \subseteq Rules /\ idle \subseteq Rules
    /\ given \subseteq Rules
    /\ calls \subseteq CallNames \X Objs

(* A rule that is blamed is failing: it is cleared with the very result    *)
(* that says it passes, whatever has become of the rules around it.        *)
RootCauseFails == \A r \in Rules : rc[r] = "cause" => last[r] = "FAIL"

(* A candidate that passes is about to be tested again, or is being tested *)
(* now: the rules above it wait for that result, and no other one ends it. *)
(* That is so unless its test has ever been disabled.                      *)
PassingCandidateIsRetested ==
    \A r \in Live \cap Rules :
        rc[r] = "candidate" /\ last[r] = "PASS" =>
            r \in rerun \cup running \/ <<"disable test", r>> \in calls

(* Nobody has disabled or deleted an object of the graph, or a test, so    *)
(* far, nor enabled one again.                                             *)
Untouched == calls = {}
NoneEnabledAgain == \A o \in Objs : <<"enable", o>> \notin calls

(* Of two rules one of which depends on the other, one at most is blamed,  *)
(* unless an object between them was not looked at for a while: the lower  *)
(* one clears the upper one when it is found out.                          *)
OneCausePerPath ==
    NoneEnabledAgain =>
        \A p \in Rules : rc[p] = "cause" => \A c \in Below(p) : rc[c] # "cause"

(* Every failure is accounted for: a rule that fails is to blame, or one   *)
(* below it fails or is yet to be cleared, or it is a candidate that will  *)
(* be heard again; but for rules whose tests kept aborting.                *)
FailureExplained ==
    Untouched =>
        \A r \in Rules \ given :
            last[r] = "FAIL" =>
                \/ rc[r] = "cause"
                \/ Failing(Below(r), last) \cup Candidates(Below(r), rc) # {}
                \/ rc[r] = "candidate" /\ r \in rerun \cup running

(* A candidate whose test is polled is cleared or blamed in the end, unless *)
(* it is disabled or deleted meanwhile, or its test is disabled, or that   *)
(* of a rule below it, which it may have to wait for.                      *)
CandidateResolved ==
    \A r \in Rules \ Notified :
        rc[r] = "candidate" ~>
            \/ rc[r] # "candidate" \/ r \notin Enabled
            \/ ({r} \cup Below(r)) \cap idle # {}
=============================================================================
