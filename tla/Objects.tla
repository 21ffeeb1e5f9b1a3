------------------------------- MODULE Objects -------------------------------
(***************************************************************************)
(* How the program wires its tests, rules and actions together, and what   *)
(* state each of them is in (myrefl_api.c and myrefl_obj.c).               *)
(*                                                                         *)
(* A rule keeps the list of its inputs, which are tests or other rules;    *)
(* an input points to the first of its rules, and a rule to the next one   *)
(* in its only next_in_input, whichever input that is for.  An object may  *)
(* be an input before it is created, and then is of no type: a forward     *)
(* reference.  Every call is made with the DB lock held, so it is one      *)
(* step, a function of the database d.                                     *)
(*                                                                         *)
(* A name is used for one type of object only, as an action or as an input *)
(* but not as both.  The periods and types that the user can set, which    *)
(* keep a forward reference from being deleted, are left out, and so are   *)
(* containers and dependencies (Depend) and instances (Sequencer).         *)
(*                                                                         *)
(* An operator whose name starts with Bug is no part of Next: it is what   *)
(* the definition after it would be with a slip that a property catches.   *)
(***************************************************************************)
EXTENDS Integers, Sequences, FiniteSets, MyreflList

CONSTANTS Tests, Rules, Actions,   \* names
          Configured,  \* bound: the names that the state is set of
          Lives,       \* bound: how often an object of one name is made
          Depth,       \* how many rules may be chained, 25 in the code
          MaxCalls,    \* bound: how many calls the program makes
          None         \* no object

Names == Tests \cup Rules \cup Actions
Objs == Names \X (1..Lives)
Kind(n) == IF n \in Tests THEN "TEST" ELSE IF n \in Rules THEN "RULE" ELSE "ACTION"

ASSUME NamesAssumption ==
    /\ Tests \cap Rules = {} /\ (Tests \cup Rules) \cap Actions = {}
    /\ Configured \subseteq Names /\ IsFiniteSet(Names)
    /\ None \notin Objs \cup ({"create", "delete", "ready"} \X Names)
ASSUME BoundsAssumption == {Lives, Depth, MaxCalls} \subseteq Nat \ {0}

VARIABLES db,     \* the object database
          made,   \* history: the objects that the program has created
          plain,  \* history: whether all calls were of the simple kind; see Odd
          last,   \* history: what the latest call was, if a property asks
          calls   \* history: how many calls there were

vars == <<db, made, plain, last, calls>>

(* lives says which object of its name is the latest.  head is test->rule  *)
(* or rule->output, ref is ref_rule, dflt is default_state and cli         *)
(* cli_state; acts are the action_list of a rule and, the other way, the   *)
(* rule_list of an action.                                                 *)
Empty ==
    [lives |-> [n \in Names |-> 0],
     kind |-> [o \in Objs |-> "NONE"],
     state |-> [o \in Objs |-> "INITIALIZED"],
     dflt |-> [o \in Objs |-> "INITIALIZED"],
     cli |-> [o \in Objs |-> "INITIALIZED"],
     inputs |-> [o \in Objs |-> <<>>],
     head |-> [o \in Objs |-> None],
     ref |-> [o \in Objs |-> None],
     next |-> [o \in Objs |-> None],
     acts |-> {}]

Init == db = Empty /\ made = {} /\ plain = TRUE /\ last = None /\ calls = 0

Obj(d, n) == <<n, d.lives[n]>>
Alive(d, o) == o[2] \in 1..d.lives[o[1]] /\ d.state[o] # "DELETED"
Known(d, n) == Alive(d, Obj(d, n))
Is(d, n, kind) == Known(d, n) /\ d.kind[Obj(d, n)] = kind

(* myrefl_api_get_or_create, where the kind NONE asks for any: a new       *)
(* object, a forward reference grown into what it is, or what there was    *)
BugGetOrCreate(d, n, kind) ==
    LET o == Obj(d, n)
        new == <<n, d.lives[n] + 1>>
    IN  IF ~ Known(d, n)
        THEN [d EXCEPT !.lives[n] = @ + 1, !.kind[new] = kind]
        ELSE [d EXCEPT !.kind[o] = IF kind = "NONE" THEN @ ELSE kind, !.state[o] = "INITIALIZED",
                       !.dflt[o] = "INITIALIZED", !.cli[o] = "INITIALIZED"]

GetOrCreate(d, n, kind) ==
    LET o == Obj(d, n)
        new == <<n, d.lives[n] + 1>>
    IN  IF ~ Known(d, n)
        THEN [d EXCEPT !.lives[n] = @ + 1, !.kind[new] = kind]
        ELSE IF d.kind[o] = "NONE"
        THEN [d EXCEPT !.kind[o] = kind, !.state[o] = "INITIALIZED",
                       !.dflt[o] = "INITIALIZED", !.cli[o] = "INITIALIZED"]
        ELSE d

(* get_head_output_rule *)
HeadOf(d, o) == IF d.kind[o] = "NONE" THEN d.ref[o] ELSE d.head[o]
SetHead(d, o, r) ==
    IF d.kind[o] = "NONE" THEN [d EXCEPT !.ref[o] = r] ELSE [d EXCEPT !.head[o] = r]

(* The rules from r on, by next_in_input *)
Chain(d, r) ==
    LET upto[k \in 0..Cardinality(Objs)] ==
            IF k = 0 THEN {r}
            ELSE LET before == upto[k - 1]
                 IN  before \cup {d.next[x] : x \in before \ {None}}
    IN  upto[Cardinality(Objs)] \ {None}

(* rule_input_search: whether target is among the inputs of o, theirs, and *)
(* so on.  Too deep is as good as found.                                   *)
InputSearch(d, o, target) ==
    LET found[k \in 0..Depth] ==
            IF k = 0 THEN Objs
            ELSE {x \in Objs : d.kind[x] = "RULE" /\ \E j \in DOMAIN d.inputs[x] :
                                  d.inputs[x][j] \in {target} \cup found[k - 1]}
    IN  o \in found[Depth]

(* The part of myrefl_obj_validate that mends: an input that does not lead *)
(* to the rule r is taken off                                              *)
Validate(d, r) ==
    IF d.kind[r] # "RULE" THEN d
    ELSE LET kept(l, i) == IF r \in Chain(d, HeadOf(d, i)) THEN l ELSE ListRemove(l, i)
         IN  [d EXCEPT !.inputs[r] = FoldLeft(kept, @, @)]

(* What a visit to o leads to *)
Leads(d, o) ==
    ({d.head[o]} \cup (IF d.kind[o] = "RULE" THEN {d.next[o]} ELSE {})
                 \cup {p[2] : p \in {q \in d.acts : q[1] = o}}) \ {None}

(* All that visits from o reach, by way of what is not deleted *)
Visited(d, o) ==
    LET upto[k \in 0..Cardinality(Objs)] ==
            IF k = 0 THEN {o} \cap {x \in Objs : Alive(d, x)}
            ELSE LET before == upto[k - 1]
                 IN  before \cup UNION {{x \in Leads(d, y) : Alive(d, x)} : y \in before}
    IN  upto[Cardinality(Objs)]

(* A walk along the rules ends: none leads back to itself *)
WalksEnd(d) ==
    \A o \in Objs : Alive(d, o) => \A x \in Leads(d, o) : o \notin Visited(d, x)

-----------------------------------------------------------------------------
(* The calls *)

(* One input i of the rule r: r leaves the chain of its rules *)
Leave(d, r, i) ==
    LET chain == Chain(d, HeadOf(d, i)) IN
    IF HeadOf(d, i) = r THEN SetHead(d, i, d.next[r])
    ELSE [d EXCEPT !.next = [x \in Objs |-> IF x \in chain /\ @[x] = r
                                            THEN d.next[r] ELSE @[x]]]

(* r becomes the first rule of its input i *)
Link(d, r, i) ==
    LET linked == [d EXCEPT !.inputs[r] = ListAdd(@, i), !.next[r] = HeadOf(d, i)]
    IN  SetHead(linked, i, r)

(* As a rule is deleted it leaves the chains of its inputs.  As the first  *)
(* rule of one of them it forgets what is next.                            *)
BugDeleteLeave(d, r, i) ==
    IF HeadOf(d, i) = r
    THEN [SetHead(d, i, None) EXCEPT !.next[r] = None]
    ELSE Leave(d, r, i)

DeleteLeave(d, r, i) ==
    IF HeadOf(d, i) = r
    THEN [SetHead(d, i, d.next[r]) EXCEPT !.next[r] = None]
    ELSE Leave(d, r, i)

Without(d, o) ==
    [d EXCEPT !.inputs = [x \in Objs |-> IF x \in Chain(d, HeadOf(d, o))
                                         THEN ListRemove(@[x], o) ELSE @[x]],
              !.head[o] = None, !.ref[o] = IF d.kind[o] = "NONE" THEN None ELSE @]

(* myrefl_obj_delete and unlink_obj_instance.  The rules that the rule has *)
(* for output keep it as an input: what is looked for in their inputs is   *)
(* not what is in them.                                                    *)
Delete(d, o) ==
    LET alone == IF d.kind[o] # "RULE" THEN Without(d, o)
                 ELSE [FoldLeft(LAMBDA e, i : DeleteLeave(e, o, i), d, d.inputs[o])
                           EXCEPT !.inputs[o] = <<>>, !.head[o] = None]
    IN  [alone EXCEPT !.state[o] = "DELETED",
                      !.acts = {p \in @ : p[1] # o /\ p[2] # o}]

(* myrefl_test_create_polled, ..._notification and ..._comp_health *)
TestCreate(d, n) ==
    LET e == GetOrCreate(d, n, "TEST")
        o == Obj(e, n)
    IN  [e EXCEPT !.head[o] = IF e.ref[o] # None THEN e.ref[o] ELSE @,
                  !.state[o] = "CREATED"]

(* myrefl_action_create *)
ActionCreate(d, n) ==
    LET e == GetOrCreate(d, n, "ACTION") IN [e EXCEPT !.state[Obj(e, n)] = "CREATED"]

(* myrefl_rule_create: the rule r with the one input i, and the action a   *)
(* added to those it has.  Nothing comes of it if the input is one already *)
(* and the rule is deleted if that would close a loop.                     *)
RuleCreated(d, r, i) == GetOrCreate(GetOrCreate(d, r, "RULE"), i, "NONE")

RuleCreate(d, n, i, a) ==
    LET e == RuleCreated(d, n, i)
        r == Obj(e, n)
        in == Obj(e, i)
        left == FoldLeft(LAMBDA x, j : Leave(x, r, j), e, e.inputs[r])
        f == GetOrCreate([left EXCEPT !.inputs[r] = <<>>], a, "ACTION")
        g == Link([f EXCEPT !.acts = @ \cup {<<r, Obj(f, a)>>}], r, in)
    IN  IF InputSearch(e, r, in) THEN e
        ELSE IF InputSearch(e, in, r) THEN Delete(e, r)
        ELSE [g EXCEPT !.head[r] = IF g.ref[r] # None THEN g.ref[r] ELSE @,
                       !.state[r] = "CREATED"]

(* myrefl_rule_add_input, of a rule that there is *)
BugRuleAddInput(d, n, i) ==
    LET e == GetOrCreate(d, i, "NONE")
        r == Obj(e, n)
        in == Obj(e, i)
    IN  IF InputSearch(e, r, in) THEN e ELSE Link(e, r, in)

RuleAddInput(d, n, i) ==
    LET e == GetOrCreate(d, i, "NONE")
        r == Obj(e, n)
        in == Obj(e, i)
    IN  IF InputSearch(e, r, in) \/ InputSearch(e, in, r) THEN e ELSE Link(e, r, in)

(* myrefl_rule_add_action *)
RuleAddAction(d, n, a) ==
    LET e == GetOrCreate(GetOrCreate(d, n, "RULE"), a, "ACTION")
    IN  [e EXCEPT !.acts = @ \cup {<<Obj(e, n), Obj(e, a)>>}]

(* myrefl_rule_delete and its like; a rule that there is none of is made   *)
(* first, of no type, and stays                                            *)
Deleted(d, n) ==
    LET e == IF n \in Rules THEN GetOrCreate(d, n, "NONE") ELSE d
    IN  IF Is(e, n, Kind(n)) THEN Delete(e, Obj(e, n)) ELSE e

(* myrefl_rule_set_type and its like: what is not there yet is made *)
Configure(d, n) == GetOrCreate(d, n, Kind(n))

(* The enable and disable calls, from the user (cli) or the program: one   *)
(* that was created goes to the new state, unless the user says otherwise  *)
Ready(d, o) == d.state[o] \in {"CREATED", "ENABLED", "DISABLED"}

BugSetState(d, n, byCli, new) ==
    LET e == GetOrCreate(d, n, Kind(n))
        o == Obj(e, n)
        told == IF byCli THEN [e EXCEPT !.cli[o] = new] ELSE [e EXCEPT !.dflt[o] = new]
    IN  IF Ready(told, o) THEN [told EXCEPT !.state[o] = new] ELSE told

SetState(d, n, byCli, new) ==
    LET e == GetOrCreate(d, n, Kind(n))
        o == Obj(e, n)
        told == IF byCli THEN [e EXCEPT !.cli[o] = new] ELSE [e EXCEPT !.dflt[o] = new]
    IN  IF Ready(told, o) /\ told.cli[o] \in {new, "INITIALIZED"}
        THEN [told EXCEPT !.state[o] = new] ELSE told

(* The default calls: the user's word is forgotten, and with it a forward  *)
(* reference                                                               *)
Default(d, n) ==
    LET o == Obj(d, n) IN
    IF ~ Is(d, n, Kind(n)) THEN d
    ELSE IF d.state[o] = "INITIALIZED" THEN Delete(d, o)
    ELSE [d EXCEPT !.cli[o] = "INITIALIZED",
                   !.state[o] = IF @ = "CREATED" THEN @ ELSE d.dflt[o]]

(* myrefl_obj_chain_update_state, for one of the objects it visits *)
BugUpdated(d, o) ==
    IF d.cli[o] # "INITIALIZED" THEN [d EXCEPT !.state[o] = d.cli[o]]
    ELSE IF d.dflt[o] # "INITIALIZED" THEN [d EXCEPT !.state[o] = d.dflt[o]]
    ELSE [d EXCEPT !.state[o] = "ENABLED", !.dflt[o] = d.state[o]]

Updated(d, o) ==
    IF d.cli[o] # "INITIALIZED" THEN [d EXCEPT !.state[o] = d.cli[o]]
    ELSE IF d.state[o] = "INITIALIZED" THEN d
    ELSE IF d.dflt[o] # "INITIALIZED" THEN [d EXCEPT !.state[o] = d.dflt[o]]
    ELSE [d EXCEPT !.state[o] = "ENABLED", !.dflt[o] = "ENABLED"]

(* myrefl_test_chain_ready, where nobody has touched the component *)
BugChainReady(d, n) ==
    LET o == Obj(d, n)
        visited == {o} \cup Chain(d, d.head[o])
    IN  IF ~ (Is(d, n, "TEST") /\ Ready(d, o)) THEN d
        ELSE FoldSet(LAMBDA x, e : Updated(Validate(e, x), x), d, visited)

ChainReady(d, n) ==
    LET o == Obj(d, n) IN
    IF ~ (Is(d, n, "TEST") /\ Ready(d, o)) THEN d
    ELSE FoldSet(LAMBDA x, e : Updated(Validate(e, x), x), d, Visited(d, o))

-----------------------------------------------------------------------------
(* What is not of the simple kind: a rule with itself or a second input; a *)
(* forward reference that anything but its creation makes into what it is; *)
(* and an object created again that was once a forward reference           *)
Grows(d, n) == Is(d, n, "NONE") /\ d.ref[Obj(d, n)] # None
Again(d, n) == Is(d, n, Kind(n)) /\ d.ref[Obj(d, n)] # None

(* Bound: nothing more is done once a walk does not end, which is when the *)
(* next one hangs or runs out of stack                                     *)
Call(new, creates, odd, what) ==
    /\ calls < MaxCalls /\ calls' = calls + 1
    /\ WalksEnd(db)
    /\ \A n \in Names : new.lives[n] <= Lives
    /\ db' = new
    /\ made' = made \cup {o \in {Obj(new, n) : n \in creates} : new.state[o] = "CREATED"}
    /\ plain' = (plain /\ ~ odd) /\ last' = what

Fits(d, ns) == \A n \in ns : Known(d, n) \/ d.lives[n] < Lives

CallTestCreate(n) ==
    Fits(db, {n}) /\ Call(TestCreate(db, n), {n}, Again(db, n), None)
CallActionCreate(n) ==
    Fits(db, {n}) /\ Call(ActionCreate(db, n), {n}, FALSE, None)
CallRuleCreate(n, i, a) ==
    /\ Fits(db, {n, i, a})
    /\ Call(RuleCreate(db, n, i, a), {n}, n = i \/ Again(db, n), <<"create", n>>)
CallRuleAddInput(n, i) ==
    /\ Is(db, n, "RULE") /\ Fits(db, {i})
    /\ Call(RuleAddInput(db, n, i), {}, n = i \/ db.inputs[Obj(db, n)] # <<>>, None)
CallRuleAddAction(n, a) ==
    Fits(db, {n, a}) /\ Call(RuleAddAction(db, n, a), {}, Grows(db, n), None)
CallDelete(n) ==
    Fits(db, {n}) /\ Call(Deleted(db, n), {}, FALSE, <<"delete", n>>)
CallConfigure(n) ==
    Fits(db, {n}) /\ Call(Configure(db, n), {}, Grows(db, n), None)
CallSetState(n, byCli, new) ==
    Fits(db, {n}) /\ Call(SetState(db, n, byCli, new), {}, Grows(db, n), None)
CallDefault(n) == Call(Default(db, n), {}, FALSE, None)
CallChainReady(n) ==
    Known(db, n) /\ Call(ChainReady(db, n), {}, FALSE, <<"ready", n>>)

Next ==
    \/ \E n \in Tests : CallTestCreate(n) \/ CallChainReady(n)
    \/ \E n \in Actions : CallActionCreate(n)
    \/ \E n \in Rules, i \in Tests \cup Rules, a \in Actions : CallRuleCreate(n, i, a)
    \/ \E n \in Rules, i \in Tests \cup Rules : CallRuleAddInput(n, i)
    \/ \E n \in Rules, a \in Actions : CallRuleAddAction(n, a)
    \/ \E n \in Names : CallDelete(n)
    \/ \E n \in Configured :
        \/ CallConfigure(n) \/ CallDefault(n)
        \/ \E byCli \in BOOLEAN, new \in {"ENABLED", "DISABLED"} : CallSetState(n, byCli, new)

Spec == Init /\ [][Next]_vars

-----------------------------------------------------------------------------
(* Properties *)

Living == {o \in Objs : Alive(db, o)}

(* The type invariant. *)
States == {"INITIALIZED", "CREATED", "ENABLED", "DISABLED", "DELETED"}
TypeOK ==
    /\ db.lives \in [Names -> 0..Lives]
    /\ db.kind \in [Objs -> {"NONE", "TEST", "RULE", "ACTION"}]
    /\ db.state \in [Objs -> States]
    /\ {db.dflt, db.cli} \subseteq [Objs -> {"INITIALIZED", "ENABLED", "DISABLED"}]
    /\ \A o \in Objs : db.inputs[o] \in Seq(Objs)
    /\ {db.head, db.ref, db.next} \subseteq [Objs -> Objs \cup {None}]
    /\ db.acts \subseteq Objs \X Objs
    /\ made \subseteq Objs /\ plain \in BOOLEAN
    /\ last \in {None} \cup ({"create", "delete", "ready"} \X Names) /\ calls \in 0..MaxCalls

(* As long as the calls are of the simple kind, the rules that an input    *)
(* leads to are those that have it for an input, and none of them is       *)
(* deleted.                                                                *)
ChainsFollowInputs ==
    plain => \A o \in Living :
        Chain(db, HeadOf(db, o)) = {r \in Living : ListFind(db.inputs[r], o)}

(* However rules are wired, none is an input of an input of itself. *)
InputsEnd ==
    \A r, i \in Living :
        r # i /\ ListFind(db.inputs[r], i) => ~ \E j \in Living :
            ListFind(db.inputs[i], j) /\ (j = r \/ ListFind(db.inputs[j], r))

(* An object is in the state that the user has said it is to be in. *)
UserHasTheLastWord ==
    \A o \in Living :
        db.state[o] \in {"ENABLED", "DISABLED"} => db.cli[o] \in {db.state[o], "INITIALIZED"}

(* As long as the calls are of the simple kind, once a test is made ready  *)
(* no rule that it feeds, directly or by way of others, and no action of   *)
(* theirs is left created and not ready.                                   *)
FedBy(o) == {r \in Objs : ListFind(db.inputs[r], o) \/ <<o, r>> \in db.acts}
Fed(t) ==
    LET upto[k \in 0..Cardinality(Rules) + 1] ==
            IF k = 0 THEN {t}
            ELSE upto[k - 1] \cup UNION {FedBy(o) \cap Living : o \in upto[k - 1]}
    IN  upto[Cardinality(Rules) + 1]

ReadyReachesAll ==
    \A n \in Tests :
        plain /\ last = <<"ready", n>> /\ Ready(db, Obj(db, n)) =>
            \A o \in Fed(Obj(db, n)) : db.state[o] # "CREATED"

(* What the program has created and made ready is not taken for a forward  *)
(* reference that nobody has created, and goes only as it is deleted.      *)
CreatedStays ==
    [][\A o \in made \cap Living :
          db.state[o] # "INITIALIZED" /\ db.dflt[o] # "INITIALIZED" =>
              \/ Ready(db', o)
              \/ last' \in {<<"delete", o[1]>>, <<"create", o[1]>>}]_vars

(* A rule that an input leads to has that input: "we process the           *)
(* next_in_input rule as well since it is dependent on the same input as   *)
(* this" (myrefl_obj.h).                                                   *)
NextDependsOnSameInput ==
    \A o \in Living : \A r \in Chain(db, HeadOf(db, o)) \cap Living : ListFind(db.inputs[r], o)
=============================================================================
