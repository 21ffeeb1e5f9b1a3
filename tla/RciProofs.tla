------------------------------ MODULE RciProofs ------------------------------
(* Theorems about Rci, for any rules and components, any graphs of them,   *)
(* and any number of calls.                                                *)
EXTENDS Rci, TLAPS

USE GraphsAssumption, NamesAssumption, BoundsAssumption

-----------------------------------------------------------------------------
(* Traversals *)

(* What is met on the way up or down are enabled rules. *)
LEMMA MetAreRules ==
    ASSUME graph \in DOMAIN Graphs, NEW r \in Rules
    PROVE  Above(r) \subseteq Rules \cap Enabled /\ Below(r) \subseteq Rules \cap Enabled
<1>1. Enabled \in Selections
  <2>1. Enabled = Objs \ (Objs \ Enabled) BY DEF Enabled
  <2>2. QED BY <2>1 DEF Selections
<1>2. AboveIn[graph][Enabled][r] \subseteq Rules \cap Enabled
  BY <1>1 DEF AboveIn, Met
<1>3. BelowIn[graph][Enabled][r] \subseteq Rules \cap Enabled
  BY <1>1 DEF BelowIn, Met
<1>4. QED BY <1>2, <1>3 DEF Above, Below

LEMMA MetAreRulesIn ==
    ASSUME NEW g \in DOMAIN Graphs, NEW on \in Selections, NEW r \in Rules
    PROVE  /\ AboveIn[g][on][r] \subseteq Rules \cap on
           /\ BelowIn[g][on][r] \subseteq Rules \cap on
BY DEF AboveIn, BelowIn, Met

LEMMA AboveAllAreRules ==
    ASSUME graph \in DOMAIN Graphs, NEW S \in SUBSET Rules
    PROVE  AboveAll(S) \subseteq Rules
BY MetAreRules DEF AboveAll

-----------------------------------------------------------------------------
(* What the functions make of one rule *)

LEMMA DeterminedAt ==
    ASSUME graph \in DOMAIN Graphs,
           NEW S \in SUBSET Rules, NEW lst, NEW rcs \in [Rules -> RootCauses],
           NEW x \in Rules
    PROVE  /\ Determined(S, lst, rcs) \in [Rules -> RootCauses]
           /\ Determined(S, lst, rcs)[x] = "cause" =>
                /\ rcs[x] = "cause" \/ x \in Blamed(S, lst, rcs)
                /\ x \notin AboveAll(Blamed(S, lst, rcs))
           /\ Determined(S, lst, rcs)[x] = "candidate" =>
                /\ rcs[x] = "candidate"
                /\ x \in Judged(S, lst, rcs) => Verdict(x, lst, rcs) = "candidate"
<1> DEFINE B == Blamed(S, lst, rcs)
           J == [r \in Rules |-> IF r \in Judged(S, lst, rcs)
                                 THEN Verdict(r, lst, rcs) ELSE rcs[r]]
<1>1. \A r : Verdict(r, lst, rcs) \in RootCauses BY DEF Verdict, RootCauses
<1>2. J \in [Rules -> RootCauses] BY <1>1
<1>3. \A r \in Judged(S, lst, rcs) : r \in Rules /\ rcs[r] = "candidate"
  BY DEF Judged, Failing, Candidates
<1>4. \A r : r \in B <=> r \in Judged(S, lst, rcs) /\ Verdict(r, lst, rcs) = "cause"
  BY DEF Blamed
<1>5. Determined(S, lst, rcs) = [r \in Rules |->
            IF r \in AboveAll(B) /\ J[r] = "cause" THEN "not" ELSE J[r]]
  BY DEF Determined, Cleared
<1>6. J[x] = IF x \in Judged(S, lst, rcs) THEN Verdict(x, lst, rcs) ELSE rcs[x]
  OBVIOUS
<1> HIDE DEF B, J
<1>7. Determined(S, lst, rcs) \in [Rules -> RootCauses]
  BY <1>2, <1>5 DEF RootCauses
<1>8. Determined(S, lst, rcs)[x] = IF x \in AboveAll(B) /\ J[x] = "cause"
                                   THEN "not" ELSE J[x]
  BY <1>5
<1>9. QED BY <1>1, <1>2, <1>3, <1>4, <1>6, <1>7, <1>8 DEF B, RootCauses

LEMMA NotAt ==
    ASSUME NEW S, NEW lst, NEW rcs, NEW x \in Rules, Determined(S, lst, rcs)[x] = "not"
    PROVE  \/ rcs[x] = "not"
           \/ x \in Judged(S, lst, rcs) /\ Verdict(x, lst, rcs) = "not"
           \/ x \in AboveAll(Blamed(S, lst, rcs))
BY DEF Determined, Cleared

LEMMA CandidateAt ==
    ASSUME NEW S, NEW lst, NEW rcs, NEW x \in Rules,
           Determined(S, lst, rcs)[x] = "candidate"
    PROVE  /\ rcs[x] = "candidate"
           /\ x \in Judged(S, lst, rcs) => Verdict(x, lst, rcs) = "candidate"
BY DEF Determined, Cleared, Judged, Failing, Candidates

LEMMA UnjudgedAt ==
    ASSUME NEW S, NEW lst, NEW rcs, NEW x \in Rules,
           x \notin Judged(S, lst, rcs), rcs[x] = "candidate"
    PROVE  Determined(S, lst, rcs)[x] = "candidate"
BY DEF Determined, Cleared

-----------------------------------------------------------------------------
(* Types *)

(* A run of RCI leaves root causes and a set of rules to test again. *)
RunType ==
    rc' \in [Rules -> RootCauses] /\ rerun' \subseteq Rules /\ idle' = idle

LEMMA ImmediateType ==
    ASSUME rerun \subseteq Rules, NEW S \in SUBSET Rules, Immediate(S)
    PROVE  rerun' \subseteq Rules /\ idle' = idle
BY DEF Immediate

LEMMA DoubtedType ==
    ASSUME graph \in DOMAIN Graphs, NEW lst, NEW S \in SUBSET Rules
    PROVE  DoubtedBy(S, lst) \subseteq Rules
BY AboveAllAreRules DEF DoubtedBy

LEMMA BlamedType ==
    ASSUME NEW lst, NEW rcs, NEW S \in SUBSET Rules
    PROVE  Blamed(S, lst, rcs) \subseteq Rules
BY DEF Blamed, Judged, Failing, Candidates

LEMMA PassedType ==
    ASSUME TypeOK, NEW r \in Rules, NEW lst, NEW change, HandlePassed(r, lst, change)
    PROVE  RunType
<1> DEFINE cleared == [rc EXCEPT ![r] = "not"]
           judged == Determined(Above(r), lst, cleared)
           revived == IF change THEN Revived(Above(r), lst, judged) ELSE {}
           doubted == DoubtedBy(Blamed(Above(r), lst, cleared), lst)
<1>1. rc' = [x \in Rules |-> IF x \in revived THEN "candidate" ELSE judged[x]]
      /\ Immediate(doubted \cup revived)
  BY DEF HandlePassed
<1>2. graph \in DOMAIN Graphs /\ rerun \subseteq Rules /\ Above(r) \subseteq Rules
  BY MetAreRules DEF TypeOK
<1>3. cleared \in [Rules -> RootCauses] BY DEF TypeOK, RootCauses
<1>4. revived \subseteq Rules BY <1>2 DEF Revived, Failing
<1>5. doubted \subseteq Rules
  <2> HIDE DEF cleared
  <2>1. Blamed(Above(r), lst, cleared) \subseteq Rules BY <1>2, BlamedType
  <2>2. QED BY <1>2, <2>1, DoubtedType
<1>6. judged \in [Rules -> RootCauses]
  <2> HIDE DEF cleared
  <2>1. QED BY <1>2, <1>3, DeterminedAt
<1> HIDE DEF cleared, judged, revived, doubted
<1>7. QED BY <1>1, <1>2, <1>4, <1>5, <1>6, ImmediateType DEF RunType, RootCauses

LEMMA FailedType ==
    ASSUME TypeOK, NEW r \in Rules, NEW lst, HandleFailed(r, lst)
    PROVE  RunType
<1>1. graph \in DOMAIN Graphs /\ rerun \subseteq Rules /\ Below(r) \subseteq Rules
      /\ rc \in [Rules -> RootCauses]
  BY MetAreRules DEF TypeOK
<1>2. CASE rc[r] = "cause" /\ rc' = rc /\ Immediate({})
  BY <1>1, <1>2, ImmediateType DEF RunType
<1>3. CASE LET S == {r} \cap Enabled IN
            rc' = Determined(S, lst, rc) /\ Immediate(DoubtedBy(Blamed(S, lst, rc), lst))
  <2> DEFINE S == {r} \cap Enabled
  <2>1. S \subseteq Rules OBVIOUS
  <2>2. rc' = Determined(S, lst, rc) /\ Immediate(DoubtedBy(Blamed(S, lst, rc), lst))
    BY <1>3
  <2> HIDE DEF S
  <2>3. rc' \in [Rules -> RootCauses] BY <1>1, <2>1, <2>2, DeterminedAt
  <2>4. DoubtedBy(Blamed(S, lst, rc), lst) \subseteq Rules
    BY <1>1, <2>1, BlamedType, DoubtedType
  <2>5. QED BY <1>1, <2>2, <2>3, <2>4, ImmediateType DEF RunType
<1>4. CASE ScheduleDependent(r, lst)
  <2>1. Suspects(r, lst) \subseteq Rules BY <1>1 DEF Suspects
  <2>2. rc' \in [Rules -> RootCauses] BY <1>1, <1>4 DEF ScheduleDependent, RootCauses
  <2>3. QED BY <1>1, <1>4, <2>1, <2>2, ImmediateType DEF ScheduleDependent, RunType
<1>5. CASE Blame(r, lst)
  <2>1. rc' \in [Rules -> RootCauses] BY <1>1, <1>5 DEF Blame, Cleared, RootCauses
  <2>2. DoubtedBy({r}, lst) \subseteq Rules BY <1>1, DoubtedType
  <2>3. QED BY <1>1, <1>5, <2>1, <2>2, ImmediateType DEF Blame, RunType
<1>6. QED BY <1>2, <1>3, <1>4, <1>5 DEF HandleFailed

LEMMA RciRunType ==
    ASSUME TypeOK, NEW r \in Rules, NEW lst, NEW cnt, RciRun(r, lst, cnt)
    PROVE  RunType
<1>1. CASE rc' = rc /\ Immediate({})
  BY <1>1, ImmediateType DEF TypeOK, RunType
<1>2. CASE \E change : HandlePassed(r, lst, change)
  BY <1>2, PassedType
<1>3. CASE HandleFailed(r, lst)
  BY <1>3, FailedType
<1>4. QED BY <1>1, <1>2, <1>3 DEF RciRun

LEMMA RciRunAbortType ==
    ASSUME TypeOK, NEW r \in Rules, RciRunAbort(r)
    PROVE  RunType /\ given' \subseteq Rules
<1>1. CASE rc' = rc /\ Immediate({}) /\ UNCHANGED given
  BY <1>1, ImmediateType DEF TypeOK, RunType
<1>2. CASE rc' = rc /\ Immediate({r}) /\ UNCHANGED given
  BY <1>2, ImmediateType DEF TypeOK, RunType
<1>3. CASE HandlePassed(r, last, TRUE)
            /\ given' = IF last[r] = "FAIL" THEN given \cup {r} ELSE given
  BY <1>3, PassedType DEF TypeOK
<1>4. QED BY <1>1, <1>2, <1>3 DEF RciRunAbort

(* A call is recorded under its name. *)
LEMMA CalledType ==
    ASSUME TypeOK, NEW call \in CallNames, NEW o \in Objs, Called(call, o)
    PROVE  /\ calls' \subseteq CallNames \X Objs
           /\ UNCHANGED <<graph, last, count, rc, given>>
<1>1. calls \subseteq CallNames \X Objs BY DEF TypeOK
<1>2. <<call, o>> \in CallNames \X Objs OBVIOUS
<1>3. calls' = calls \cup {<<call, o>>} BY DEF Called
<1>4. QED BY <1>1, <1>2, <1>3 DEF Called, results

LEMMA CallNamesAre ==
    /\ "enable" \in CallNames /\ "disable" \in CallNames /\ "delete" \in CallNames
    /\ "enable test" \in CallNames /\ "disable test" \in CallNames
BY DEF CallNames

(* Type correctness: graphs, states, results and root causes stay what the *)
(* type invariant says they are.                                           *)
THEOREM TypeCorrect == Spec => []TypeOK
<1>1. Init => TypeOK
  BY DEF Init, TypeOK, States, Results, RootCauses
<1>2. TypeOK /\ [Next]_vars => TypeOK'
  <2> SUFFICES ASSUME TypeOK, [Next]_vars PROVE TypeOK'
    OBVIOUS
  <2>1. ASSUME NEW r \in Rules, Start(r) PROVE TypeOK'
    BY <2>1 DEF TypeOK, Start, results
  <2>2. ASSUME NEW r \in Rules, Abort(r) PROVE TypeOK'
    <3>1. RunType /\ given' \subseteq Rules BY <2>2, RciRunAbortType DEF Abort
    <3>2. QED BY <2>2, <3>1 DEF TypeOK, Abort, Ends, RunType, results
  <2>3. ASSUME NEW r \in Rules, Redo(r) PROVE TypeOK'
    <3>1. RunType BY <2>3, RciRunType DEF Redo
    <3>2. QED BY <2>3, <3>1 DEF TypeOK, Redo, RunType, results
  <2>4. ASSUME NEW r \in Rules, NEW result \in Results, Report(r, result) PROVE TypeOK'
    <3>1. RunType BY <2>4, RciRunType DEF Report
    <3>2. last' \in [Rules -> Results] BY <2>4 DEF Report, TypeOK
    <3>3. count' \in [Rules -> 1..Often] BY <2>4 DEF Report, TypeOK
    <3>4. QED BY <2>4, <3>1, <3>2, <3>3 DEF TypeOK, Report, Ends, RunType
  <2>5. ASSUME NEW o \in Objs, Disable(o) \/ Enable(o) PROVE TypeOK'
    <3>1. \E call \in CallNames : Called(call, o)
      BY <2>5, CallNamesAre DEF Disable, Enable
    <3>2. /\ calls' \subseteq CallNames \X Objs
          /\ UNCHANGED <<graph, last, count, rc, given>>
      BY <3>1, CalledType
    <3>3. state' \in [Objs -> States] BY <2>5 DEF TypeOK, Disable, Enable, States
    <3>4. QED BY <2>5, <3>2, <3>3 DEF TypeOK, Disable, Enable, tests
  <2>6. ASSUME NEW r \in Rules, RuleDelete(r) PROVE TypeOK'
    <3>1. /\ calls' \subseteq CallNames \X Objs
          /\ UNCHANGED <<graph, last, count, rc, given>>
      BY <2>6, CallNamesAre, CalledType DEF RuleDelete, Objs
    <3>2. state' \in [Objs -> States] BY <2>6 DEF TypeOK, RuleDelete, States, Objs
    <3>3. QED BY <2>6, <3>1, <3>2 DEF TypeOK, RuleDelete
  <2>7. ASSUME NEW r \in Rules, TestDisable(r) \/ TestEnable(r) PROVE TypeOK'
    <3>1. \E call \in CallNames : Called(call, r)
      BY <2>7, CallNamesAre DEF TestDisable, TestEnable
    <3>2. /\ calls' \subseteq CallNames \X Objs
          /\ UNCHANGED <<graph, last, count, rc, given>>
      BY <3>1, CalledType DEF Objs
    <3>3. QED BY <2>7, <3>2 DEF TypeOK, TestDisable, TestEnable
  <2>8. CASE UNCHANGED vars
    BY <2>8 DEF TypeOK, vars, results, tests
  <2>9. QED BY <2>1, <2>2, <2>3, <2>4, <2>5, <2>6, <2>7, <2>8 DEF Next
<1>3. QED BY <1>1, <1>2, PTL DEF Spec

-----------------------------------------------------------------------------
(* What a run of RCI does to one rule *)

Unblamed(r) == [rc EXCEPT ![r] = "not"]

LEMMA BlamedAt ==
    ASSUME NEW S \in SUBSET Rules, NEW lst, NEW rcs, NEW x
    PROVE  /\ x \in Judged(S, lst, rcs) <=>
                x \in S /\ rcs[x] = "candidate" /\ lst[x] = "FAIL"
           /\ x \in Blamed(S, lst, rcs) <=>
                x \in Judged(S, lst, rcs) /\ Verdict(x, lst, rcs) = "cause"
BY DEF Blamed, Judged, Failing, Candidates

LEMMA ImmediateAt ==
    ASSUME NEW S, Immediate(S), NEW x
    PROVE  /\ x \in rerun => x \in rerun'
           /\ x \in S => x \in rerun' \cup running' \cup idle
BY DEF Immediate

LEMMA PassedAt ==
    ASSUME TypeOK, NEW r \in Rules, NEW lst \in [Rules -> Results],
           NEW change \in BOOLEAN, HandlePassed(r, lst, change), NEW x \in Rules
    PROVE  LET B == Blamed(Above(r), lst, Unblamed(r))
               hit == x \in Above(r) /\ x # r /\ lst[x] = "FAIL"
           IN  /\ rc'[x] = "cause" =>
                    /\ (x # r /\ rc[x] = "cause") \/ x \in B
                    /\ x \notin AboveAll(B)
               /\ rc'[x] = "candidate" =>
                    \/ /\ x # r /\ rc[x] = "candidate"
                       /\ hit => Verdict(x, lst, Unblamed(r)) = "candidate"
                    \/ lst[x] = "FAIL" /\ x \in rerun' \cup running' \cup idle
               /\ rc'[x] = "not" =>
                    /\ \/ x = r \/ rc[x] = "not"
                       \/ hit /\ Verdict(x, lst, Unblamed(r)) = "not"
                       \/ x \in AboveAll(B)
                    /\ change => ~ hit
               /\ x # r /\ rc[x] = "candidate" /\ ~ hit => rc'[x] = "candidate"
               /\ x \in rerun => x \in rerun'
<1> DEFINE judged == Determined(Above(r), lst, Unblamed(r))
           B == Blamed(Above(r), lst, Unblamed(r))
           revived == IF change THEN Revived(Above(r), lst, judged) ELSE {}
           doubted == DoubtedBy(B, lst)
<1>1. rc' = [y \in Rules |-> IF y \in revived THEN "candidate" ELSE judged[y]]
      /\ Immediate(doubted \cup revived)
  BY DEF HandlePassed, Unblamed
<1>2. graph \in DOMAIN Graphs /\ Above(r) \subseteq Rules
  BY MetAreRules DEF TypeOK
<1>3. Unblamed(r) \in [Rules -> RootCauses] BY DEF TypeOK, RootCauses, Unblamed
<1>4. Unblamed(r)[x] = IF x = r THEN "not" ELSE rc[x] BY DEF Unblamed, TypeOK
<1>5. x \in revived <=> change /\ x \in Above(r) /\ lst[x] = "FAIL" /\ judged[x] = "not"
  BY DEF Revived, Failing
<1>6. x \in revived => x \in rerun' \cup running' \cup idle BY <1>1, ImmediateAt
<1>7. x \in rerun => x \in rerun' BY <1>1, ImmediateAt
<1>8. rc'[x] = IF x \in revived THEN "candidate" ELSE judged[x] BY <1>1
<1>9. /\ judged[x] \in RootCauses
      /\ judged[x] = "cause" => /\ Unblamed(r)[x] = "cause" \/ x \in B
                                /\ x \notin AboveAll(B)
      /\ judged[x] = "candidate" =>
           /\ Unblamed(r)[x] = "candidate"
           /\ x \in Judged(Above(r), lst, Unblamed(r)) =>
                Verdict(x, lst, Unblamed(r)) = "candidate"
      /\ judged[x] = "not" =>
           \/ Unblamed(r)[x] = "not"
           \/ x \in Judged(Above(r), lst, Unblamed(r)) /\ Verdict(x, lst, Unblamed(r)) = "not"
           \/ x \in AboveAll(B)
      /\ Unblamed(r)[x] = "candidate" /\ x \notin Judged(Above(r), lst, Unblamed(r)) =>
           judged[x] = "candidate"
  <2> DEFINE u == Unblamed(r)
             S == Above(r)
  <2>1. u \in [Rules -> RootCauses] /\ S \subseteq Rules BY <1>2, <1>3
  <2> HIDE DEF u, S
  <2>2. /\ Determined(S, lst, u) \in [Rules -> RootCauses]
        /\ Determined(S, lst, u)[x] = "cause" =>
             /\ u[x] = "cause" \/ x \in Blamed(S, lst, u)
             /\ x \notin AboveAll(Blamed(S, lst, u))
    BY <1>2, <2>1, DeterminedAt
  <2>3. Determined(S, lst, u)[x] = "candidate" =>
             /\ u[x] = "candidate"
             /\ x \in Judged(S, lst, u) => Verdict(x, lst, u) = "candidate"
    BY <1>2, <2>1, DeterminedAt
  <2>4. Determined(S, lst, u)[x] = "not" =>
             \/ u[x] = "not"
             \/ x \in Judged(S, lst, u) /\ Verdict(x, lst, u) = "not"
             \/ x \in AboveAll(Blamed(S, lst, u))
    BY <1>2, <2>1, NotAt
  <2>5. u[x] = "candidate" /\ x \notin Judged(S, lst, u) =>
             Determined(S, lst, u)[x] = "candidate"
    BY UnjudgedAt
  <2>6. QED BY <2>2, <2>3, <2>4, <2>5 DEF u, S, RootCauses
<1>10. x \in Judged(Above(r), lst, Unblamed(r)) <=>
         x \in Above(r) /\ Unblamed(r)[x] = "candidate" /\ lst[x] = "FAIL"
  BY <1>2, BlamedAt
<1> HIDE DEF judged, revived, doubted
<1>11. QED BY <1>4, <1>5, <1>6, <1>7, <1>8, <1>9, <1>10 DEF RootCauses

-----------------------------------------------------------------------------
(* A rule that is blamed fails *)

LEMMA PassedKeepsCauses ==
    ASSUME TypeOK, NEW r \in Rules, NEW lst \in [Rules -> Results],
           NEW change \in BOOLEAN, HandlePassed(r, lst, change),
           \A x \in Rules \ {r} : rc[x] = "cause" => lst[x] = "FAIL"
    PROVE  \A x \in Rules : rc'[x] = "cause" => lst[x] = "FAIL"
<1> SUFFICES ASSUME NEW x \in Rules, rc'[x] = "cause" PROVE lst[x] = "FAIL"
  OBVIOUS
<1>1. (x # r /\ rc[x] = "cause") \/ x \in Blamed(Above(r), lst, Unblamed(r))
  BY PassedAt
<1>2. Above(r) \subseteq Rules BY MetAreRules DEF TypeOK
<1>3. QED BY <1>1, <1>2, BlamedAt

LEMMA FailedKeepsCauses ==
    ASSUME TypeOK, NEW r \in Rules, NEW lst \in [Rules -> Results],
           HandleFailed(r, lst), lst[r] = "FAIL",
           \A x \in Rules \ {r} : rc[x] = "cause" => lst[x] = "FAIL"
    PROVE  \A x \in Rules : rc'[x] = "cause" => lst[x] = "FAIL"
<1> SUFFICES ASSUME NEW x \in Rules, rc'[x] = "cause" PROVE lst[x] = "FAIL"
  OBVIOUS
<1>0. graph \in DOMAIN Graphs /\ rc \in [Rules -> RootCauses] BY DEF TypeOK
<1>1. CASE rc' = rc BY <1>1
<1>2. CASE LET S == {r} \cap Enabled IN rc' = Determined(S, lst, rc)
  <2> DEFINE S == {r} \cap Enabled
  <2>1. S \subseteq Rules /\ rc' = Determined(S, lst, rc) BY <1>2
  <2> HIDE DEF S
  <2>2. rc[x] = "cause" \/ x \in Blamed(S, lst, rc) BY <1>0, <2>1, DeterminedAt
  <2>3. QED BY <2>1, <2>2, BlamedAt
<1>3. CASE ScheduleDependent(r, lst)
  BY <1>3 DEF ScheduleDependent
<1>4. CASE Blame(r, lst)
  BY <1>0, <1>4 DEF Blame, Cleared
<1>5. QED BY <1>1, <1>2, <1>3, <1>4 DEF HandleFailed

(* A rule that has been blamed fails, for as long as it is blamed. *)
THEOREM CauseFails == Spec => []RootCauseFails
<1>1. Init => RootCauseFails BY DEF Init, RootCauseFails
<1>2. TypeOK /\ RootCauseFails /\ [Next]_vars => RootCauseFails'
  <2> SUFFICES ASSUME TypeOK, RootCauseFails, [Next]_vars PROVE RootCauseFails'
    OBVIOUS
  <2>1. ASSUME NEW r \in Rules, Start(r) PROVE RootCauseFails'
    BY <2>1 DEF RootCauseFails, Start, results
  <2>2. ASSUME NEW r \in Rules, Abort(r) PROVE RootCauseFails'
    <3>1. CASE rc' = rc BY <2>2, <3>1 DEF Abort, results, RootCauseFails
    <3>2. CASE HandlePassed(r, last, TRUE)
      <4>1. last \in [Rules -> Results] BY DEF TypeOK
      <4>2. \A x \in Rules : rc'[x] = "cause" => last[x] = "FAIL"
        BY <3>2, <4>1, PassedKeepsCauses DEF RootCauseFails
      <4>3. QED BY <2>2, <4>2 DEF Abort, results, RootCauseFails
    <3>3. QED BY <2>2, <3>1, <3>2 DEF Abort, RciRunAbort
  <2>3. ASSUME NEW r \in Rules, NEW lst \in [Rules -> Results], NEW cnt,
               last' = lst, RciRun(r, lst, cnt), \A x \in Rules \ {r} : lst[x] = last[x],
               rc[r] = "cause" /\ lst[r] = "PASS" => cnt[r] = 1
        PROVE  RootCauseFails'
    <3>1. \A x \in Rules \ {r} : rc[x] = "cause" => lst[x] = "FAIL"
      BY <2>3 DEF RootCauseFails
    <3>2. CASE cnt[r] # 1 /\ rc[r] # "candidate" /\ rc' = rc
      BY <2>3, <3>1, <3>2 DEF RootCauseFails, TypeOK, Results
    <3>3. CASE HandlePassed(r, lst, cnt[r] = 1)
      BY <2>3, <3>1, <3>3, PassedKeepsCauses DEF RootCauseFails
    <3>4. CASE lst[r] = "FAIL" /\ HandleFailed(r, lst)
      BY <2>3, <3>1, <3>4, FailedKeepsCauses DEF RootCauseFails
    <3>5. QED BY <2>3, <3>2, <3>3, <3>4 DEF RciRun
  <2>4. ASSUME NEW r \in Rules, Redo(r) PROVE RootCauseFails'
    <3>1. last \in [Rules -> Results] BY DEF TypeOK
    <3>2. last' = last /\ RciRun(r, last, count) BY <2>4 DEF Redo, results
    <3>3. QED BY <2>3, <3>1, <3>2 DEF RootCauseFails, Results
  <2>5. ASSUME NEW r \in Rules, NEW result \in Results, Report(r, result)
        PROVE  RootCauseFails'
    <3> DEFINE lst == [last EXCEPT ![r] = result]
    <3>1. lst \in [Rules -> Results] /\ last' = lst /\ RciRun(r, lst, count')
      BY <2>5 DEF Report, TypeOK
    <3>2. \A x \in Rules \ {r} : lst[x] = last[x] OBVIOUS
    <3>3. rc[r] = "cause" /\ lst[r] = "PASS" => count'[r] = 1
      BY <2>5 DEF RootCauseFails, Report, TypeOK
    <3> HIDE DEF lst
    <3>4. QED BY <2>3, <3>1, <3>2, <3>3
  <2>6. ASSUME NEW o \in Objs, Disable(o) \/ Enable(o) PROVE RootCauseFails'
    BY <2>6 DEF RootCauseFails, Disable, Enable, Called, results
  <2>7. ASSUME NEW r \in Rules, RuleDelete(r) PROVE RootCauseFails'
    BY <2>7 DEF RootCauseFails, RuleDelete, Called, results
  <2>8. ASSUME NEW r \in Rules, TestDisable(r) \/ TestEnable(r) PROVE RootCauseFails'
    BY <2>8 DEF RootCauseFails, TestDisable, TestEnable, Called, results
  <2>9. CASE UNCHANGED vars
    BY <2>9 DEF RootCauseFails, vars, results
  <2>10. QED BY <2>1, <2>2, <2>4, <2>5, <2>6, <2>7, <2>8, <2>9 DEF Next
<1>3. QED BY <1>1, <1>2, TypeCorrect, PTL DEF Spec

-----------------------------------------------------------------------------
(* A candidate that passes is tested again *)

LEMMA PassedKeepsRetests ==
    ASSUME TypeOK, NEW r \in Rules, NEW lst \in [Rules -> Results],
           NEW change \in BOOLEAN, HandlePassed(r, lst, change), NEW x \in Rules,
           x # r /\ rc[x] = "candidate" => x \in rerun \cup running',
           rc'[x] = "candidate", lst[x] = "PASS"
    PROVE  x \in rerun' \cup running'
<1>1. /\ x # r /\ rc[x] = "candidate"
      /\ x \in rerun => x \in rerun'
  BY PassedAt
<1>2. QED BY <1>1

LEMMA FailedKeepsRetests ==
    ASSUME TypeOK, NEW r \in Rules, NEW lst \in [Rules -> Results],
           HandleFailed(r, lst), lst[r] = "FAIL", NEW x \in Rules,
           x # r /\ rc[x] = "candidate" => x \in rerun \cup running',
           rc'[x] = "candidate", lst[x] = "PASS"
    PROVE  x \in rerun' \cup running' \cup idle
<1>0. /\ graph \in DOMAIN Graphs /\ rc \in [Rules -> RootCauses]
      /\ x # r
  BY DEF TypeOK
<1>1. CASE rc' = rc /\ Immediate({})
  BY <1>0, <1>1, ImmediateAt
<1>2. CASE LET S == {r} \cap Enabled IN
            rc' = Determined(S, lst, rc) /\ Immediate(DoubtedBy(Blamed(S, lst, rc), lst))
  <2> DEFINE S == {r} \cap Enabled
  <2>1. /\ S \subseteq Rules /\ rc' = Determined(S, lst, rc)
        /\ Immediate(DoubtedBy(Blamed(S, lst, rc), lst))
    BY <1>2
  <2> HIDE DEF S
  <2>2. rc[x] = "candidate" BY <1>0, <2>1, DeterminedAt
  <2>3. x \in rerun => x \in rerun' BY <2>1, ImmediateAt
  <2>4. QED BY <1>0, <2>2, <2>3
<1>3. CASE ScheduleDependent(r, lst)
  <2>1. /\ rc'[x] = IF x \notin Suspects(r, lst) \cup {r} THEN rc[x]
                    ELSE IF Failing(Below(x), lst) = {} THEN "candidate" ELSE "not"
        /\ Immediate(Suspects(r, lst))
    BY <1>3 DEF ScheduleDependent
  <2>2. x \in rerun => x \in rerun' BY <2>1, ImmediateAt
  <2>3. x \in Suspects(r, lst) => x \in rerun' \cup running' \cup idle
    BY <2>1, ImmediateAt
  <2>4. QED BY <1>0, <2>1, <2>2, <2>3
<1>4. CASE Blame(r, lst)
  <2>1. rc[x] = "candidate" BY <1>0, <1>4 DEF Blame, Cleared
  <2>2. x \in rerun => x \in rerun' BY <1>4, ImmediateAt DEF Blame
  <2>3. QED BY <1>0, <2>1, <2>2
<1>5. QED BY <1>1, <1>2, <1>3, <1>4 DEF HandleFailed

LEMMA RunKeepsRetests ==
    ASSUME TypeOK, NEW r \in Rules, NEW lst \in [Rules -> Results], NEW cnt,
           RciRun(r, lst, cnt), NEW x \in Rules,
           x # r /\ rc[x] = "candidate" => x \in rerun \cup running',
           rc'[x] = "candidate", lst[x] = "PASS"
    PROVE  x \in rerun' \cup running' \cup idle
<1>1. CASE rc[r] # "candidate" /\ rc' = rc /\ Immediate({})
  BY <1>1, ImmediateAt
<1>2. CASE HandlePassed(r, lst, cnt[r] = 1)
  BY <1>2, PassedKeepsRetests
<1>3. CASE lst[r] = "FAIL" /\ HandleFailed(r, lst)
  BY <1>3, FailedKeepsRetests
<1>4. QED BY <1>1, <1>2, <1>3 DEF RciRun

(* Of a passing candidate whose test has never been disabled *)
Looked(x) ==
    x \in Live /\ rc[x] = "candidate" /\ last[x] = "PASS" =>
        x \in rerun \cup running \/ <<"disable test", x>> \in calls

(* Only tests that have been disabled are idle. *)
RInv ==
    /\ \A x \in Rules : Looked(x)
    /\ \A x \in idle : <<"disable test", x>> \in calls

(* Whatever is reported, aborts, is disabled or deleted: a candidate that  *)
(* passes is on the immediate queue or its test is being run, if its test  *)
(* has never been disabled.                                                *)
THEOREM Retested == Spec => []PassingCandidateIsRetested
<1>1. Init => RInv BY DEF Init, RInv, Looked
<1>2. TypeOK /\ RInv /\ [Next]_vars => RInv'
  <2> SUFFICES ASSUME TypeOK, RInv, [Next]_vars PROVE RInv'
    OBVIOUS
  <2>1. \A x \in idle' : <<"disable test", x>> \in calls'
    <3>1. \A r \in Rules : Start(r) \/ RuleDelete(r) \/ TestEnable(r) =>
                            idle' \subseteq idle /\ calls \subseteq calls'
      BY DEF Start, RuleDelete, TestEnable, Called
    <3>2. ASSUME NEW r \in Rules, Abort(r) \/ Redo(r) PROVE idle' = idle /\ calls' = calls
      <4>1. calls' = calls BY <3>2 DEF Abort, Redo, Ends
      <4>2. idle' = idle
        BY <3>2, RciRunAbortType, RciRunType DEF Abort, Redo, RunType
      <4>3. QED BY <4>1, <4>2
    <3>3. ASSUME NEW r \in Rules, NEW result \in Results, Report(r, result)
          PROVE  idle' = idle /\ calls' = calls
      BY <3>3, RciRunType DEF Report, Ends, RunType
    <3>4. \A o \in Objs : Disable(o) \/ Enable(o) => idle' = idle /\ calls \subseteq calls'
      BY DEF Disable, Enable, Called, tests
    <3>5. \A r \in Rules : TestDisable(r) =>
             idle' = idle \cup {r} /\ calls' = calls \cup {<<"disable test", r>>}
      BY DEF TestDisable, Called
    <3>6. UNCHANGED vars => idle' = idle /\ calls' = calls BY DEF vars, tests
    <3>7. QED BY <3>1, <3>2, <3>3, <3>4, <3>5, <3>6 DEF RInv, Next
  <2> SUFFICES ASSUME NEW x \in Rules, x \in Live', rc'[x] = "candidate", last'[x] = "PASS"
               PROVE  x \in rerun' \cup running' \/ <<"disable test", x>> \in calls'
    BY <2>1 DEF RInv, Looked
  <2> DEFINE Goal == x \in rerun' \cup running' \/ <<"disable test", x>> \in calls'
             off == <<"disable test", x>> \in calls
  <2>0. /\ last \in [Rules -> Results]
        /\ x \in Live /\ rc[x] = "candidate" /\ last[x] = "PASS" =>
             x \in rerun \cup running \/ off
        /\ x \in idle => off
    BY DEF TypeOK, RInv, Looked
  <2>2. ASSUME NEW r \in Rules, Start(r) PROVE Goal
    BY <2>0, <2>2 DEF Start, results, Live
  <2>3. ASSUME NEW r \in Rules, Ends(r)
        PROVE  /\ x \in Live
               /\ x # r /\ x \in running => x \in running'
               /\ calls' = calls
    BY <2>3 DEF Ends, Live
  <2>4. ASSUME NEW r \in Rules, Abort(r) PROVE Goal
    <3>1. last' = last /\ Ends(r) BY <2>4 DEF Abort, results
    <3>2. calls' = calls BY <2>3, <3>1
    <3>3. SUFFICES ASSUME ~ off PROVE x \in rerun' \cup running' \cup idle
      BY <2>0, <3>2
    <3>4. x # r /\ rc[x] = "candidate" => x \in rerun \cup running'
      BY <2>0, <2>3, <3>1, <3>3
    <3>5. CASE rc[r] # "candidate" /\ rc' = rc /\ Immediate({})
      BY <3>4, <3>5, ImmediateAt
    <3>6. CASE rc' = rc /\ Immediate({r})
      BY <3>4, <3>6, ImmediateAt
    <3>7. CASE HandlePassed(r, last, TRUE)
      BY <2>0, <3>1, <3>4, <3>7, PassedKeepsRetests
    <3>8. QED BY <2>4, <3>5, <3>6, <3>7 DEF Abort, RciRunAbort
  <2>5. ASSUME NEW r \in Rules, Redo(r) PROVE Goal
    <3>1. last' = last /\ RciRun(r, last, count) /\ calls' = calls
      BY <2>5 DEF Redo, results
    <3>2. SUFFICES ASSUME ~ off PROVE x \in rerun' \cup running' \cup idle
      BY <2>0, <3>1
    <3>3. x # r /\ rc[x] = "candidate" => x \in rerun \cup running'
      BY <2>0, <2>5, <3>1, <3>2 DEF Redo, Live
    <3>4. QED BY <2>0, <3>1, <3>3, RunKeepsRetests
  <2>6. ASSUME NEW r \in Rules, NEW result \in Results, Report(r, result) PROVE Goal
    <3>1. /\ Ends(r) /\ RciRun(r, last', count') /\ calls' = calls
          /\ last' \in [Rules -> Results] /\ (x # r => last'[x] = last[x])
      BY <2>0, <2>6 DEF Report, Ends
    <3>2. SUFFICES ASSUME ~ off PROVE x \in rerun' \cup running' \cup idle
      BY <2>0, <3>1
    <3>3. x # r /\ rc[x] = "candidate" => x \in rerun \cup running'
      BY <2>0, <2>3, <3>1, <3>2
    <3>4. QED BY <3>1, <3>3, RunKeepsRetests
  <2>7. ASSUME NEW o \in Objs, Disable(o) \/ Enable(o) PROVE Goal
    <3>1. x \in Live BY <2>7 DEF Disable, Enable, Live, TypeOK
    <3>2. QED BY <2>0, <2>7, <3>1 DEF Disable, Enable, Called, results, tests
  <2>8. ASSUME NEW r \in Rules, RuleDelete(r) PROVE Goal
    <3>1. x \in Live /\ x # r BY <2>8 DEF RuleDelete, Live, TypeOK
    <3>2. QED BY <2>0, <2>8, <3>1 DEF RuleDelete, Called, results
  <2>9. ASSUME NEW r \in Rules, TestDisable(r) \/ TestEnable(r) PROVE Goal
    <3>1. x \in Live BY <2>9 DEF TestDisable, TestEnable, Live
    <3>2. QED BY <2>0, <2>9, <3>1 DEF TestDisable, TestEnable, Called, results
  <2>10. CASE UNCHANGED vars
    BY <2>0, <2>10 DEF vars, results, tests, Live
  <2>11. QED BY <2>2, <2>4, <2>5, <2>6, <2>7, <2>8, <2>9, <2>10 DEF Next
<1>3. RInv => PassingCandidateIsRetested
  BY DEF RInv, Looked, PassingCandidateIsRetested
<1>4. QED BY <1>1, <1>2, <1>3, TypeCorrect, PTL DEF Spec

-----------------------------------------------------------------------------
(* One cause to a path *)

(* With less enabled, less is met. *)
LEMMA MetShrinks ==
    ASSUME NEW r \in Rules, NEW on, NEW less \in SUBSET on,
           NEW next, NEW fewer, \A at \in Places : fewer[at] \subseteq next[at]
    PROVE  Met(r, less, fewer) \subseteq Met(r, on, next)
<1> SUFFICES ASSUME NEW x \in Met(r, less, fewer),
                    NEW S \in SUBSET Places, next[<<r, "in">>] \subseteq S,
                    \A at \in S : next[at] \subseteq S
             PROVE  <<x, "in">> \in S
  BY DEF Met
<1>1. <<r, "in">> \in Places BY DEF Places, Objs
<1>2. fewer[<<r, "in">>] \subseteq S /\ \A at \in S : fewer[at] \subseteq S
  BY <1>1
<1>3. QED BY <1>2 DEF Met

LEMMA BelowShrinks ==
    ASSUME NEW g \in DOMAIN Graphs, NEW on \in Selections, NEW less \in Selections,
           less \subseteq on, NEW r \in Rules
    PROVE  BelowIn[g][less][r] \subseteq BelowIn[g][on][r]
<1> DEFINE next(en) == [at \in Places |-> MapChildren(Graphs[g], en, at)]
<1>1. \A at \in Places : next(less)[at] \subseteq next(on)[at]
  BY DEF MapChildren
<1>2. \A en \in Selections : BelowIn[g][en][r] = Met(r, en, next(en))
  BY DEF BelowIn
<1> HIDE DEF next
<1>3. Met(r, less, next(less)) \subseteq Met(r, on, next(on))
  BY <1>1, MetShrinks
<1>4. QED BY <1>2, <1>3

LEMMA EnabledSelected == Enabled \in Selections
<1>1. Enabled = Objs \ (Objs \ Enabled) BY DEF Enabled
<1>2. QED BY <1>1 DEF Selections

(* What is below a rule has that rule above it, and is another one. *)
LEMMA AboveBelow ==
    ASSUME graph \in DOMAIN Graphs, NEW p \in Rules, NEW c \in Rules, c \in Below(p)
    PROVE  p \in Above(c) /\ p # c
BY EnabledSelected, OrderAssumption DEF Above, Below

LEMMA AboveBlamed ==
    ASSUME graph \in DOMAIN Graphs, NEW p \in Rules, NEW c \in Rules, c \in Below(p),
           NEW S, c \in S
    PROVE  p \in AboveAll(S)
BY AboveBelow DEF AboveAll

(* A rule that is found to be the cause has none that fails below it. *)
LEMMA CauseIsDeepest ==
    ASSUME NEW p, NEW c, c \in Below(p), NEW lst, NEW rcs, Verdict(p, lst, rcs) = "cause"
    PROVE  lst[c] # "FAIL"
BY DEF Verdict, Failing

LEMMA PassedKeepsOne ==
    ASSUME TypeOK, NEW r \in Rules, NEW lst \in [Rules -> Results],
           NEW change \in BOOLEAN, HandlePassed(r, lst, change),
           \A x \in Rules \ {r} : rc[x] = "cause" => lst[x] = "FAIL",
           NEW p \in Rules, NEW c \in Rules, c \in Below(p),
           ~ (rc[p] = "cause" /\ rc[c] = "cause")
    PROVE  ~ (rc'[p] = "cause" /\ rc'[c] = "cause")
<1> SUFFICES ASSUME rc'[p] = "cause", rc'[c] = "cause" PROVE FALSE
  OBVIOUS
<1> DEFINE B == Blamed(Above(r), lst, Unblamed(r))
<1>1. /\ (p # r /\ rc[p] = "cause") \/ p \in B
      /\ p \notin AboveAll(B)
  BY PassedAt
<1>2. (c # r /\ rc[c] = "cause") \/ c \in B
  BY PassedAt
<1>3. c \notin B BY <1>1, AboveBlamed DEF TypeOK
<1>4. p \in B /\ lst[c] = "FAIL" BY <1>1, <1>2, <1>3
<1>5. Above(r) \subseteq Rules BY MetAreRules DEF TypeOK
<1>6. Verdict(p, lst, Unblamed(r)) = "cause" BY <1>4, <1>5, BlamedAt
<1>7. QED BY <1>4, <1>6, CauseIsDeepest

LEMMA FailedKeepsOne ==
    ASSUME TypeOK, NEW r \in Rules, NEW lst \in [Rules -> Results],
           HandleFailed(r, lst), lst[r] = "FAIL",
           \A x \in Rules \ {r} : rc[x] = "cause" => lst[x] = "FAIL",
           NEW p \in Rules, NEW c \in Rules, c \in Below(p),
           ~ (rc[p] = "cause" /\ rc[c] = "cause")
    PROVE  ~ (rc'[p] = "cause" /\ rc'[c] = "cause")
<1> SUFFICES ASSUME rc'[p] = "cause", rc'[c] = "cause" PROVE FALSE
  OBVIOUS
<1>0. graph \in DOMAIN Graphs /\ rc \in [Rules -> RootCauses] BY DEF TypeOK
<1>1. CASE rc' = rc BY <1>1
<1>2. CASE LET S == {r} \cap Enabled IN rc' = Determined(S, lst, rc)
  <2> DEFINE S == {r} \cap Enabled
             B == Blamed(S, lst, rc)
  <2>1. S \subseteq Rules /\ rc' = Determined(S, lst, rc) BY <1>2
  <2> HIDE DEF S
  <2>2. /\ rc[p] = "cause" \/ p \in B
        /\ p \notin AboveAll(B)
    BY <1>0, <2>1, DeterminedAt
  <2>3. rc[c] = "cause" \/ c \in B BY <1>0, <2>1, DeterminedAt
  <2>4. c \notin B BY <1>0, <2>2, AboveBlamed
  <2>5. p \in B /\ rc[c] = "cause" BY <2>2, <2>3, <2>4
  <2>6. Verdict(p, lst, rc) = "cause" BY <2>1, <2>5, BlamedAt
  <2>7. lst[c] = "FAIL" BY <2>5
  <2>8. QED BY <2>6, <2>7, CauseIsDeepest
<1>3. CASE ScheduleDependent(r, lst)
  BY <1>3 DEF ScheduleDependent
<1>4. CASE Below(r) = {} /\ Blame(r, lst)
  <2>1. /\ rc[p] = "cause" \/ p = r
        /\ p \notin AboveAll({r})
        /\ rc[c] = "cause" \/ c = r
    BY <1>0, <1>4 DEF Blame, Cleared
  <2>2. c # r BY <1>0, <2>1, AboveBlamed
  <2>3. QED BY <1>4, <2>1, <2>2
<1>5. QED BY <1>1, <1>2, <1>3, <1>4 DEF HandleFailed

LEMMA RunKeepsOne ==
    ASSUME TypeOK, NEW r \in Rules, NEW lst \in [Rules -> Results], NEW cnt,
           RciRun(r, lst, cnt),
           \A x \in Rules \ {r} : rc[x] = "cause" => lst[x] = "FAIL",
           NEW p \in Rules, NEW c \in Rules, c \in Below(p),
           ~ (rc[p] = "cause" /\ rc[c] = "cause")
    PROVE  ~ (rc'[p] = "cause" /\ rc'[c] = "cause")
<1>1. CASE rc' = rc BY <1>1
<1>2. CASE HandlePassed(r, lst, cnt[r] = 1)
  BY <1>2, PassedKeepsOne
<1>3. CASE lst[r] = "FAIL" /\ HandleFailed(r, lst)
  BY <1>3, FailedKeepsOne
<1>4. QED BY <1>1, <1>2, <1>3 DEF RciRun

(* Of two rules one of which is below the other, one at most is blamed,    *)
(* however results come in, as long as nothing is enabled again.           *)
THEOREM OneCause == Spec => []OneCausePerPath
<1>1. Init => OneCausePerPath BY DEF Init, OneCausePerPath
<1>2. TypeOK /\ RootCauseFails /\ OneCausePerPath /\ [Next]_vars => OneCausePerPath'
  <2> SUFFICES ASSUME TypeOK, RootCauseFails, OneCausePerPath, [Next]_vars
               PROVE  OneCausePerPath'
    OBVIOUS
  <2> SUFFICES ASSUME NoneEnabledAgain',
                      NEW p \in Rules, NEW c \in Rules, c \in Below(p)'
               PROVE  ~ (rc'[p] = "cause" /\ rc'[c] = "cause")
    <3>1. graph' \in DOMAIN Graphs
      <4>1. \A r \in Rules : Start(r) \/ Abort(r) \/ Redo(r) \/ RuleDelete(r) => graph' = graph
        BY DEF Start, Abort, Redo, RuleDelete, Ends, Called
      <4>2. \A r \in Rules, result \in Results : Report(r, result) => graph' = graph
        BY DEF Report, Ends
      <4>3. /\ \A o \in Objs : Disable(o) \/ Enable(o) => graph' = graph
            /\ \A r \in Rules : TestDisable(r) \/ TestEnable(r) => graph' = graph
        BY DEF Disable, Enable, TestDisable, TestEnable, Called
      <4>4. UNCHANGED vars => graph' = graph BY DEF vars
      <4>5. graph' = graph BY <4>1, <4>2, <4>3, <4>4 DEF Next
      <4>6. QED BY <4>5 DEF TypeOK
    <3>2. Enabled' \in Selections
      <4>1. Enabled' = Objs \ (Objs \ Enabled') BY DEF Enabled
      <4>2. QED BY <4>1 DEF Selections
    <3>3. \A x \in Rules : Below(x)' \subseteq Rules
      BY <3>1, <3>2, MetAreRulesIn DEF Below
    <3>4. QED BY <3>3 DEF OneCausePerPath
  <2>0. last \in [Rules -> Results] BY DEF TypeOK
  <2>1. NoneEnabledAgain
    BY DEF NoneEnabledAgain, Next, Start, Abort, Redo, RuleDelete, Report, Ends, Disable,
           Enable, TestDisable, TestEnable, Called, vars
  <2>2. \A x \in Rules : rc[x] = "cause" => last[x] = "FAIL"
    BY DEF RootCauseFails
  <2>3. ASSUME UNCHANGED <<graph, state>>
        PROVE  c \in Below(p) /\ ~ (rc[p] = "cause" /\ rc[c] = "cause")
    <3>1. c \in Below(p) BY <2>3 DEF Below, Enabled
    <3>2. QED BY <2>1, <3>1 DEF OneCausePerPath
  <2>4. ASSUME NEW o \in Objs, state' = [state EXCEPT ![o] = "disabled"]
                              \/ state' = [state EXCEPT ![o] = "deleted"],
               graph' = graph, rc' = rc
        PROVE  ~ (rc'[p] = "cause" /\ rc'[c] = "cause")
    <3>1. Enabled' \subseteq Enabled BY <2>4 DEF Enabled, TypeOK
    <3>2. Enabled \in Selections /\ Enabled' \in Selections
      <4>1. Enabled' = Objs \ (Objs \ Enabled') BY DEF Enabled
      <4>2. QED BY <4>1, EnabledSelected DEF Selections
    <3>3. BelowIn[graph][Enabled'][p] \subseteq BelowIn[graph][Enabled][p]
      BY <3>1, <3>2, BelowShrinks DEF TypeOK
    <3>4. c \in Below(p) BY <2>4, <3>3 DEF Below
    <3>5. QED BY <2>1, <2>4, <3>4 DEF OneCausePerPath
  <2>5. ASSUME NEW r \in Rules, Start(r) PROVE ~ (rc'[p] = "cause" /\ rc'[c] = "cause")
    BY <2>3, <2>5 DEF Start
  <2>6. ASSUME NEW r \in Rules, Abort(r) PROVE ~ (rc'[p] = "cause" /\ rc'[c] = "cause")
    <3>1. c \in Below(p) /\ ~ (rc[p] = "cause" /\ rc[c] = "cause")
      BY <2>3, <2>6 DEF Abort, Ends
    <3>2. CASE rc' = rc BY <3>1, <3>2
    <3>3. CASE HandlePassed(r, last, TRUE)
      BY <2>0, <2>2, <3>1, <3>3, PassedKeepsOne
    <3>4. QED BY <2>6, <3>2, <3>3 DEF Abort, RciRunAbort
  <2>7. ASSUME NEW r \in Rules, Redo(r) PROVE ~ (rc'[p] = "cause" /\ rc'[c] = "cause")
    <3>1. c \in Below(p) /\ ~ (rc[p] = "cause" /\ rc[c] = "cause")
      BY <2>3, <2>7 DEF Redo
    <3>2. RciRun(r, last, count) BY <2>7 DEF Redo
    <3>3. QED BY <2>0, <2>2, <3>1, <3>2, RunKeepsOne
  <2>8. ASSUME NEW r \in Rules, NEW result \in Results, Report(r, result)
        PROVE  ~ (rc'[p] = "cause" /\ rc'[c] = "cause")
    <3>1. c \in Below(p) /\ ~ (rc[p] = "cause" /\ rc[c] = "cause")
      BY <2>3, <2>8 DEF Report, Ends
    <3>2. /\ RciRun(r, last', count') /\ last' \in [Rules -> Results]
          /\ \A x \in Rules \ {r} : last'[x] = last[x]
      BY <2>0, <2>8 DEF Report
    <3>3. QED BY <2>2, <3>1, <3>2, RunKeepsOne
  <2>9. ASSUME NEW o \in Objs, Disable(o) PROVE ~ (rc'[p] = "cause" /\ rc'[c] = "cause")
    BY <2>4, <2>9 DEF Disable, Called
  <2>10. ASSUME NEW o \in Objs, Enable(o) PROVE FALSE
    BY <2>10 DEF Enable, Called, NoneEnabledAgain
  <2>11. ASSUME NEW r \in Rules, RuleDelete(r)
         PROVE  ~ (rc'[p] = "cause" /\ rc'[c] = "cause")
    BY <2>4, <2>11 DEF RuleDelete, Called, Objs
  <2>12. ASSUME NEW r \in Rules, TestDisable(r) \/ TestEnable(r)
         PROVE  ~ (rc'[p] = "cause" /\ rc'[c] = "cause")
    BY <2>3, <2>12 DEF TestDisable, TestEnable, Called
  <2>13. CASE UNCHANGED vars
    BY <2>3, <2>13 DEF vars
  <2>14. QED BY <2>5, <2>6, <2>7, <2>8, <2>9, <2>10, <2>11, <2>12, <2>13 DEF Next
<1>3. QED BY <1>1, <1>2, TypeCorrect, CauseFails, PTL DEF Spec

-----------------------------------------------------------------------------
(* Every failure is accounted for *)

(* How the failure of y is accounted for, by the results lst and the root  *)
(* causes rcs, where the rules in queue are about to be heard again.  More *)
(* is said of a rule that is neither the cause nor a candidate than the    *)
(* property asks: one below it fails now, so that the pass of that one     *)
(* makes it a candidate again.                                             *)
Explained(y, lst, rcs, queue) ==
    \/ rcs[y] = "cause"
    \/ rcs[y] = "not" /\ Failing(Below(y), lst) # {}
    \/ /\ rcs[y] = "candidate"
       /\ \/ Failing(Below(y), lst) # {}
          \/ Candidates(Below(y), rcs) # {}
          \/ y \in queue

(* What is met from a rule that is met is met. *)
LEMMA MetFurther ==
    ASSUME NEW r \in Rules, NEW on, NEW next, NEW x \in Met(r, on, next)
    PROVE  Met(x, on, next) \subseteq Met(r, on, next)
<1> SUFFICES ASSUME NEW z \in Met(x, on, next),
                    NEW S \in SUBSET Places, next[<<r, "in">>] \subseteq S,
                    \A at \in S : next[at] \subseteq S
             PROVE  <<z, "in">> \in S
  BY DEF Met
<1>1. <<x, "in">> \in S BY DEF Met
<1>2. next[<<x, "in">>] \subseteq S BY <1>1
<1>3. QED BY <1>2 DEF Met

LEMMA BelowBelow ==
    ASSUME graph \in DOMAIN Graphs, NEW r \in Rules, NEW x \in Below(r)
    PROVE  Below(x) \subseteq Below(r)
<1> DEFINE next == [at \in Places |-> MapChildren(Graphs[graph], Enabled, at)]
<1>1. \A y \in Rules : Below(y) = Met(y, Enabled, next)
  BY EnabledSelected DEF Below, BelowIn
<1> HIDE DEF next
<1>2. x \in Rules BY MetAreRules
<1>3. QED BY <1>1, <1>2, MetFurther

(* What has one that is blamed below it has one that fails below it. *)
LEMMA AboveBlamedFails ==
    ASSUME graph \in DOMAIN Graphs, NEW S \in SUBSET Rules, NEW lst, NEW rcs,
           NEW y \in Rules, y \in AboveAll(Blamed(S, lst, rcs))
    PROVE  Failing(Below(y), lst) # {}
<1>1. PICK b \in Blamed(S, lst, rcs) : y \in Above(b) BY DEF AboveAll
<1>2. b \in Rules /\ lst[b] = "FAIL" BY BlamedAt
<1>3. b \in Below(y)
  BY <1>1, <1>2, EnabledSelected, OrderAssumption DEF Above, Below
<1>4. QED BY <1>2, <1>3 DEF Failing

LEMMA PassedKeepsExplained ==
    ASSUME TypeOK, idle = {}, NEW r \in Rules, NEW lst \in [Rules -> Results], NEW prev,
           NEW change \in BOOLEAN, HandlePassed(r, lst, change),
           \A x \in Rules \ {r} : lst[x] = prev[x], prev[r] = "FAIL" => change,
           NEW y \in Rules, y # r, lst[y] = "FAIL",
           Explained(y, prev, rc, rerun \cup running')
    PROVE  Explained(y, lst, rc', rerun' \cup running')
<1> DEFINE B == Blamed(Above(r), lst, Unblamed(r))
           hit(x) == x \in Above(r) /\ x # r /\ lst[x] = "FAIL"
<1>0. /\ graph \in DOMAIN Graphs /\ Above(r) \subseteq Rules /\ Below(y) \subseteq Rules
      /\ y \in Above(r) <=> r \in Below(y)
  BY MetAreRules, EnabledSelected, OrderAssumption DEF TypeOK, Above, Below
<1>1. rc'[y] \in RootCauses
  BY PassedType DEF RunType
<1>2. y \in AboveAll(B) => Failing(Below(y), lst) # {}
  BY <1>0, AboveBlamedFails
<1>3. ASSUME NEW x \in Below(y), x # r, prev[x] = "FAIL"
      PROVE  Failing(Below(y), lst) # {}
  BY <1>0, <1>3 DEF Failing
<1>4. ASSUME NEW x \in Below(y), x # r, rc[x] = "candidate"
      PROVE  Failing(Below(y), lst) # {} \/ Candidates(Below(y), rc') # {}
  <2>1. CASE hit(x) BY <2>1 DEF Failing
  <2>2. CASE ~ hit(x)
    <3>0. x \in Rules BY <1>0, <1>4
    <3>1. rc'[x] = "candidate" BY <1>4, <2>2, <3>0, PassedAt
    <3>2. QED BY <3>1 DEF Candidates
  <2>3. QED BY <2>1, <2>2
<1>5. CASE rc'[y] = "cause" BY <1>5 DEF Explained
<1>6. CASE rc'[y] = "not"
  <2>1. /\ \/ rc[y] = "not"
           \/ hit(y) /\ Verdict(y, lst, Unblamed(r)) = "not"
           \/ y \in AboveAll(B)
        /\ change => ~ hit(y)
    BY <1>6, PassedAt
  <2>2. ASSUME rc[y] = "not" PROVE Failing(Below(y), lst) # {}
    <3>1. PICK x \in Below(y) : prev[x] = "FAIL" BY <2>2 DEF Explained, Failing
    <3>2. x # r BY <1>0, <2>1, <3>1
    <3>3. QED BY <1>3, <3>1, <3>2
  <2>3. Verdict(y, lst, Unblamed(r)) = "not" => Failing(Below(y), lst) # {}
    BY DEF Verdict
  <2>4. QED BY <1>2, <1>6, <2>1, <2>2, <2>3 DEF Explained
<1>7. CASE rc'[y] = "candidate"
  <2>1. \/ /\ rc[y] = "candidate"
           /\ hit(y) => Verdict(y, lst, Unblamed(r)) = "candidate"
        \/ y \in rerun' \cup running'
    <3>1. rc'[y] = "candidate" =>
            \/ /\ rc[y] = "candidate"
               /\ hit(y) => Verdict(y, lst, Unblamed(r)) = "candidate"
            \/ y \in rerun' \cup running' \cup idle
      BY PassedAt
    <3>2. QED BY <1>7, <3>1
  <2>2. CASE y \in rerun' \cup running' BY <1>7, <2>2 DEF Explained
  <2>3. CASE hit(y) /\ Verdict(y, lst, Unblamed(r)) = "candidate"
    <3>1. PICK x \in Below(y) : Unblamed(r)[x] = "candidate"
      BY <2>3 DEF Verdict, Candidates
    <3>2. x # r /\ rc[x] = "candidate" BY <1>0, <3>1 DEF Unblamed, TypeOK
    <3>3. QED BY <1>4, <1>7, <3>2 DEF Explained
  <2>4. CASE rc[y] = "candidate" /\ ~ hit(y)
    <3>1. r \notin Below(y) BY <1>0, <2>4
    <3>2. \/ \E x \in Below(y) : prev[x] = "FAIL"
          \/ \E x \in Below(y) : rc[x] = "candidate"
          \/ y \in rerun \cup running'
      BY <2>4 DEF Explained, Failing, Candidates
    <3>3. y \in rerun => y \in rerun' BY PassedAt
    <3>4. QED BY <1>3, <1>4, <1>7, <3>1, <3>2, <3>3 DEF Explained
  <2>5. QED BY <2>1, <2>2, <2>3, <2>4
<1>8. QED BY <1>1, <1>5, <1>6, <1>7 DEF RootCauses

LEMMA FailedKeepsExplained ==
    ASSUME TypeOK, NEW r \in Rules, r \in Enabled,
           NEW lst \in [Rules -> Results], NEW prev,
           HandleFailed(r, lst), lst[r] = "FAIL",
           \A x \in Rules \ {r} : lst[x] = prev[x],
           NEW y \in Rules, lst[y] = "FAIL",
           y # r => Explained(y, prev, rc, rerun \cup running')
    PROVE  Explained(y, lst, rc', rerun' \cup running')
<1>0. /\ graph \in DOMAIN Graphs /\ rc \in [Rules -> RootCauses]
      /\ Below(y) \subseteq Rules /\ Below(r) \subseteq Rules
  BY MetAreRules DEF TypeOK
<1>1. rc'[y] \in RootCauses /\ \A x : x \in rerun => x \in rerun'
  <2>1. rc'[y] \in RootCauses BY FailedType DEF RunType
  <2>2. \E S : Immediate(S) BY DEF HandleFailed, ScheduleDependent, Blame
  <2>3. QED BY <2>1, <2>2, ImmediateAt
(* The failure of r is one more. *)
<1>2. ASSUME NEW x \in Below(y), prev[x] = "FAIL" \/ x = r
      PROVE  Failing(Below(y), lst) # {}
  BY <1>0, <1>2 DEF Failing
<1>3. /\ y # r /\ rc[y] = "not" => Failing(Below(y), lst) # {}
      /\ y # r /\ rc[y] = "candidate" =>
           \/ Failing(Below(y), lst) # {}
           \/ \E x \in Below(y) : x # r /\ rc[x] = "candidate"
           \/ y \in rerun' \cup running'
  <2>1. y # r /\ rc[y] = "not" => \E x \in Below(y) : prev[x] = "FAIL"
    BY DEF Explained, Failing
  <2>2. y # r /\ rc[y] = "candidate" =>
           \/ \E x \in Below(y) : prev[x] = "FAIL"
           \/ \E x \in Below(y) : rc[x] = "candidate"
           \/ y \in rerun \cup running'
    BY DEF Explained, Failing, Candidates
  <2>3. QED BY <1>1, <1>2, <2>1, <2>2
(* All that is left to show of most cases *)
<1>4. ASSUME \A x \in Below(y) : x # r /\ rc[x] = "candidate" => rc'[x] = "candidate",
             y # r, rc'[y] = rc[y]
      PROVE  Explained(y, lst, rc', rerun' \cup running')
  BY <1>0, <1>3, <1>4 DEF Explained, Candidates, RootCauses
<1>5. CASE rc[r] = "cause" /\ rc' = rc
  <2>1. CASE y = r BY <1>5, <2>1 DEF Explained
  <2>2. CASE y # r BY <1>4, <1>5, <2>2
  <2>3. QED BY <2>1, <2>2
<1>6. CASE /\ rc[r] = "candidate"
           /\ LET S == {r} \cap Enabled IN rc' = Determined(S, lst, rc)
  <2> DEFINE S == {r} \cap Enabled
             B == Blamed(S, lst, rc)
  <2>1. S = {r} /\ S \subseteq Rules /\ rc' = Determined(S, lst, rc) BY <1>6
  <2> HIDE DEF S
  <2>2. \A x : x \in Judged(S, lst, rc) <=> x = r BY <1>6, <2>1, BlamedAt
  <2>3. ASSUME NEW x \in Rules, x # r, rc[x] = "candidate" PROVE rc'[x] = "candidate"
    <3>1. x \notin Judged(S, lst, rc) BY <2>2, <2>3
    <3>2. Determined(S, lst, rc)[x] = "candidate" BY <2>3, <3>1, UnjudgedAt
    <3>3. QED BY <2>1, <3>2
  <2>4. y \in AboveAll(B) => Failing(Below(y), lst) # {}
    BY <1>0, <2>1, AboveBlamedFails
  <2>5. CASE rc'[y] = "cause" BY <2>5 DEF Explained
  <2>6. CASE rc'[y] = "not"
    <3>1. \/ rc[y] = "not"
          \/ y \in Judged(S, lst, rc) /\ Verdict(y, lst, rc) = "not"
          \/ y \in AboveAll(B)
      BY <2>1, <2>6, NotAt
    <3>2. Verdict(y, lst, rc) = "not" => Failing(Below(y), lst) # {} BY DEF Verdict
    <3>3. rc[y] = "not" => y # r BY <1>6
    <3>4. QED BY <1>3, <2>4, <2>6, <3>1, <3>2, <3>3 DEF Explained
  <2>7. CASE rc'[y] = "candidate"
    <3>1. /\ rc[y] = "candidate"
          /\ y \in Judged(S, lst, rc) => Verdict(y, lst, rc) = "candidate"
      BY <2>1, <2>7, CandidateAt
    <3>2. CASE y # r BY <1>0, <1>4, <2>3, <2>7, <3>1, <3>2
    <3>3. CASE y = r
      <4>1. Verdict(y, lst, rc) = "candidate" BY <2>2, <3>1, <3>3
      <4>2. PICK x \in Below(y) : rc[x] = "candidate"
        BY <4>1 DEF Verdict, Candidates
      <4>3. x # r BY <1>0, <3>3, AboveBelow
      <4>4. rc'[x] = "candidate" BY <1>0, <2>3, <4>2, <4>3
      <4>5. QED BY <2>7, <4>4 DEF Explained, Candidates
    <3>4. QED BY <3>2, <3>3
  <2>8. QED BY <1>1, <2>5, <2>6, <2>7 DEF RootCauses
<1>7. CASE rc[r] = "not" /\ Below(r) # {} /\ ScheduleDependent(r, lst)
  <2>1. \A x \in Rules : rc'[x] = IF x \notin Suspects(r, lst) \cup {r} THEN rc[x]
                                  ELSE IF Failing(Below(x), lst) = {} THEN "candidate" ELSE "not"
    BY <1>7 DEF ScheduleDependent
  <2>2. \A x : x \in Suspects(r, lst) <=>
                 x \in Below(r) /\ lst[x] # "FAIL" /\ rc[x] # "candidate"
    BY DEF Suspects, Failing, Candidates
  <2>3. CASE y # r
    <3>1. rc'[y] = rc[y] BY <2>1, <2>2, <2>3
    <3>2. \A x \in Below(y) : x # r /\ rc[x] = "candidate" => rc'[x] = "candidate"
      BY <1>0, <2>1, <2>2
    <3>3. QED BY <1>4, <2>3, <3>1, <3>2
  <2>4. CASE y = r /\ Failing(Below(r), lst) # {}
    <3>1. rc'[y] = "not" BY <2>1, <2>4
    <3>2. QED BY <2>4, <3>1 DEF Explained
  <2>5. CASE y = r /\ Failing(Below(r), lst) = {}
    <3>1. rc'[y] = "candidate" BY <2>1, <2>5
    <3>2. PICK x \in Below(r) : TRUE BY <1>7
    <3>3. lst[x] # "FAIL" /\ x # r BY <1>0, <2>5, <3>2, AboveBelow DEF Failing
    <3>4. Failing(Below(x), lst) = {}
      <4>1. Below(x) \subseteq Below(r) BY <1>0, BelowBelow
      <4>2. QED BY <2>5, <4>1 DEF Failing
    <3>5. rc'[x] = "candidate" BY <1>0, <2>1, <2>2, <3>3, <3>4
    <3>6. QED BY <2>5, <3>1, <3>5 DEF Explained, Candidates
  <2>6. QED BY <2>3, <2>4, <2>5
<1>8. CASE rc[r] = "not" /\ Blame(r, lst)
  <2>1. \A x \in Rules : rc'[x] = IF x \in AboveAll({r}) /\ (x = r \/ rc[x] = "cause") THEN "not"
                                  ELSE IF x = r THEN "cause" ELSE rc[x]
    BY <1>0, <1>8 DEF Blame, Cleared
  <2>2. \A x : x \in AboveAll({r}) <=> x \in Above(r) /\ x # r BY DEF AboveAll
  <2>3. CASE y = r BY <2>1, <2>2, <2>3 DEF Explained
  <2>4. CASE y # r /\ y \in AboveAll({r}) /\ rc[y] = "cause"
    <3>1. r \in Below(y)
      BY <1>0, <2>2, <2>4, EnabledSelected, OrderAssumption DEF Above, Below
    <3>2. Failing(Below(y), lst) # {} BY <1>2, <3>1
    <3>3. rc'[y] = "not" BY <2>1, <2>4
    <3>4. QED BY <3>2, <3>3 DEF Explained
  <2>5. CASE y # r /\ ~ (y \in AboveAll({r}) /\ rc[y] = "cause")
    <3>1. rc'[y] = rc[y] BY <2>1, <2>5
    <3>2. \A x \in Below(y) : x # r /\ rc[x] = "candidate" => rc'[x] = "candidate"
      BY <1>0, <2>1
    <3>3. QED BY <1>4, <2>5, <3>1, <3>2
  <2>6. QED BY <2>3, <2>4, <2>5
<1>9. QED BY <1>5, <1>6, <1>7, <1>8 DEF HandleFailed

LEMMA RunKeepsExplained ==
    ASSUME TypeOK, idle = {}, NEW r \in Rules, r \in Enabled,
           NEW lst \in [Rules -> Results], NEW prev, NEW cnt,
           RciRun(r, lst, cnt),
           \A x \in Rules \ {r} : lst[x] = prev[x], cnt[r] # 1 => lst[r] = prev[r],
           \A x \in running : x # r => x \in running',
           NEW y \in Rules, lst[y] = "FAIL",
           prev[y] = "FAIL" => Explained(y, prev, rc, rerun \cup running)
    PROVE  Explained(y, lst, rc', rerun' \cup running')
<1>0. y # r => Explained(y, prev, rc, rerun \cup running')
  BY DEF Explained
<1>1. CASE cnt[r] # 1 /\ rc[r] # "candidate" /\ rc' = rc /\ Immediate({})
  <2>1. \A x \in Rules : lst[x] = prev[x] BY <1>1
  <2>2. Below(y) \subseteq Rules BY MetAreRules DEF TypeOK
  <2>3. \A x : x \in rerun => x \in rerun' BY <1>1, ImmediateAt
  <2>4. Failing(Below(y), lst) = Failing(Below(y), prev) BY <2>1, <2>2 DEF Failing
  <2>5. Explained(y, prev, rc, rerun \cup running) BY <2>1
  <2>6. QED BY <1>1, <2>3, <2>4, <2>5 DEF Explained
<1>2. CASE lst[r] = "PASS" /\ HandlePassed(r, lst, cnt[r] = 1)
  <2>1. y # r /\ (prev[r] = "FAIL" => cnt[r] = 1) BY <1>2
  <2>2. QED BY <1>0, <1>2, <2>1, PassedKeepsExplained
<1>3. CASE lst[r] = "FAIL" /\ HandleFailed(r, lst)
  BY <1>0, <1>3, FailedKeepsExplained
<1>4. QED BY <1>1, <1>2, <1>3 DEF RciRun

AllExplained ==
    Untouched =>
        /\ idle = {} /\ \A o \in Objs : state[o] = "enabled"
        /\ \A y \in Rules \ given :
              last[y] = "FAIL" => Explained(y, last, rc, rerun \cup running)

(* Before anything is disabled or deleted, a rule that fails is to blame,  *)
(* or has one below it that fails or is yet to be cleared, or is a         *)
(* candidate that is tested again; but for rules whose tests kept aborting *)
THEOREM Accounted == Spec => []FailureExplained
<1>1. Init => AllExplained BY DEF Init, AllExplained
<1>2. TypeOK /\ AllExplained /\ [Next]_vars => AllExplained'
  <2> SUFFICES ASSUME TypeOK, AllExplained, [Next]_vars
               PROVE  AllExplained'
    OBVIOUS
  <2> SUFFICES ASSUME calls' = {}
               PROVE  AllExplained'
    BY DEF AllExplained, Untouched
  <2>1. \A o \in Objs : ~ Disable(o) /\ ~ Enable(o) BY DEF Disable, Enable, Called
  <2>2. \A r \in Rules : ~ RuleDelete(r) /\ ~ TestDisable(r) /\ ~ TestEnable(r)
    BY DEF RuleDelete, TestDisable, TestEnable, Called
  <2>3. graph' = graph /\ state' = state /\ calls' = calls
    <3>1. \A r \in Rules : Start(r) \/ Abort(r) \/ Redo(r) => UNCHANGED <<graph, state, calls>>
      BY DEF Start, Abort, Redo, Ends
    <3>2. \A r \in Rules, result \in Results :
             Report(r, result) => UNCHANGED <<graph, state, calls>>
      BY DEF Report, Ends
    <3>3. UNCHANGED vars => UNCHANGED <<graph, state, calls>> BY DEF vars
    <3>4. QED BY <2>1, <2>2, <3>1, <3>2, <3>3 DEF Next
  <2>4. idle' = idle
    <3>1. \A r \in Rules : Start(r) \/ Abort(r) \/ Redo(r) => idle' = idle
      BY RciRunAbortType, RciRunType DEF Start, Abort, Redo, RunType
    <3>2. \A r \in Rules, result \in Results : Report(r, result) => idle' = idle
      BY RciRunType DEF Report, RunType
    <3>3. UNCHANGED vars => idle' = idle BY DEF vars, tests
    <3>4. QED BY <2>1, <2>2, <3>1, <3>2, <3>3 DEF Next
  <2>5. idle = {} BY <2>3 DEF AllExplained, Untouched
  <2>6. /\ \A o \in Objs : state[o] = "enabled"
        /\ \A y \in Rules \ given :
              last[y] = "FAIL" => Explained(y, last, rc, rerun \cup running)
    BY <2>3 DEF AllExplained, Untouched
  <2>7. Rules \subseteq Enabled BY <2>6 DEF Enabled, Objs
  <2>8. last \in [Rules -> Results] BY DEF TypeOK
  <2> SUFFICES ASSUME NEW y \in Rules, y \notin given', last'[y] = "FAIL"
               PROVE  Explained(y, last', rc', rerun' \cup running')
    <3>1. \A y \in Rules : Below(y)' = Below(y) BY <2>3 DEF Below, Enabled
    <3>2. QED
      BY <2>3, <2>6, <2>4, <2>5, <3>1 DEF AllExplained, Explained, Failing, Candidates
  <2>9. ASSUME rc' = rc, last' = last, given' = given,
               rerun \cup running \subseteq rerun' \cup running'
        PROVE  Explained(y, last', rc', rerun' \cup running')
    <3>1. Explained(y, last, rc, rerun \cup running) BY <2>6, <2>9
    <3>2. QED BY <2>9, <3>1 DEF Explained
  <2>10. ASSUME NEW r \in Rules, Start(r)
        PROVE  Explained(y, last', rc', rerun' \cup running')
    BY <2>9, <2>10 DEF Start, results
  <2>11. ASSUME NEW r \in Rules, Abort(r)
        PROVE  Explained(y, last', rc', rerun' \cup running')
    <3>1. last' = last /\ \A x \in running : x # r => x \in running'
      BY <2>11 DEF Abort, Ends, results
    <3>2. CASE rc[r] # "candidate" /\ rc' = rc /\ Immediate({}) /\ given' = given
      <4>1. Explained(y, last, rc, rerun \cup running) BY <2>6, <3>1, <3>2
      <4>2. \A x : x \in rerun => x \in rerun' BY <3>2, ImmediateAt
      <4>3. QED BY <3>1, <3>2, <4>1, <4>2 DEF Explained
    <3>3. CASE rc' = rc /\ Immediate({r}) /\ given' = given
      <4>1. \A x : x \in rerun => x \in rerun' BY <3>3, ImmediateAt
      <4>2. r \in rerun' \cup running' BY <2>5, <3>3, ImmediateAt
      <4>3. QED BY <2>9, <3>1, <3>3, <4>1, <4>2
    <3>4. CASE /\ HandlePassed(r, last, TRUE)
               /\ given' = IF last[r] = "FAIL" THEN given \cup {r} ELSE given
      <4>1. y # r /\ y \notin given BY <3>1, <3>4
      <4>2. Explained(y, last, rc, rerun \cup running') BY <2>6, <3>1, <4>1 DEF Explained
      <4>3. QED BY <2>5, <2>8, <3>1, <3>4, <4>1, <4>2, PassedKeepsExplained
    <3>5. QED BY <2>11, <3>2, <3>3, <3>4 DEF Abort, RciRunAbort
  <2>12. ASSUME NEW r \in Rules, Redo(r)
         PROVE  Explained(y, last', rc', rerun' \cup running')
    <3>1. /\ last' = last /\ given' = given /\ RciRun(r, last, count)
          /\ \A x \in running : x # r => x \in running'
      BY <2>12 DEF Redo, results
    <3>2. QED BY <2>5, <2>6, <2>7, <2>8, <3>1, RunKeepsExplained
  <2>13. ASSUME NEW r \in Rules, NEW result \in Results, Report(r, result)
         PROVE  Explained(y, last', rc', rerun' \cup running')
    <3>1. /\ RciRun(r, last', count') /\ last' = [last EXCEPT ![r] = result]
          /\ given' = IF last[r] # result THEN given \ {r} ELSE given
          /\ \A x \in running : x # r => x \in running'
      BY <2>13 DEF Report, Ends
    <3>2. last' \in [Rules -> Results] /\ \A x \in Rules \ {r} : last'[x] = last[x]
      BY <2>8, <3>1
    <3>3. count'[r] # 1 => last'[r] = last[r]
      BY <2>8, <2>13, <3>1 DEF Report, TypeOK
    <3>4. last[y] = "FAIL" => Explained(y, last, rc, rerun \cup running)
      BY <2>6, <2>8, <3>1
    <3>5. QED BY <2>5, <2>7, <3>1, <3>2, <3>3, <3>4, RunKeepsExplained
  <2>14. CASE UNCHANGED vars BY <2>9, <2>14 DEF vars, results, tests
  <2>15. QED BY <2>1, <2>2, <2>10, <2>11, <2>12, <2>13, <2>14 DEF Next
<1>3. AllExplained => FailureExplained
  BY DEF AllExplained, FailureExplained, Explained
<1>4. QED BY <1>1, <1>2, <1>3, TypeCorrect, PTL DEF Spec
=============================================================================
