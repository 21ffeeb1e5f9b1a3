------------------------------- MODULE Depend -------------------------------
(***************************************************************************)
(* The two structures that root cause identification walks: which rules    *)
(* and components depend on which (myrefl_depend_create of myrefl_rci.c),  *)
(* and which component contains which, with the members each component     *)
(* shows at its top and at its bottom (myrefl_comp_contains of             *)
(* myrefl_api.c and the object database).                                  *)
(*                                                                         *)
(* Every call runs under the DB lock, so it is one action.  What it does   *)
(* to results, states and inputs is left to other modules: a rule is       *)
(* created with a test for its input, and tests are left out.  A dependency *)
(* that would close a loop is to be refused; to save a search, objects are *)
(* put into domains, and the tree is searched only if the domain of the    *)
(* child is known to reach the domain of the parent.                       *)
(*                                                                         *)
(* An object is named by its name.  Left out: an object that can no longer *)
(* be found by its name, as its component is gone or contains itself, and  *)
(* whose name is used again, for another object (Nameable); the System     *)
(* component as a member of another one; the limit on nesting.             *)
(*                                                                         *)
(* An operator whose name starts with Bug is no part of Next: it is what   *)
(* the definition after it would be with a slip that a property catches.   *)
(***************************************************************************)
EXTENDS Integers, FiniteSets, MyreflList

CONSTANTS Rules,      \* the names of rules
          Comps,      \* the names of components, but for
          System,     \* the component of every object without another
          MaxDomains, \* bound: loop domains
          MaxCalls    \* bound: calls

Containers == Comps \cup {System}
Objs == Rules \cup Containers
Domains == 1..MaxDomains

(* The parent_comp of an object that has none, and of one whose component  *)
(* has been deleted                                                        *)
NoComp == "no component"
Gone == "deleted"

(* Where a walk goes that follows a null pointer *)
Fault == "fault"

ASSUME NamesAssumption ==
    /\ Rules \cap Containers = {} /\ System \notin Comps
    /\ {NoComp, Gone, Fault} \cap Objs = {}
    /\ IsFiniteSet(Comps)
ASSUME BoundsAssumption == MaxDomains \in Nat /\ MaxCalls \in Nat

VARIABLES
    type,      \* obj->type; "absent" if there is no such object
    inside,    \* obj->parent_comp
    comps,     \* comp->comps, the list that obj->next_in_comp chains
    children,  \* obj->child_depend
    parents,   \* obj->parent_depend
    top,       \* comp->top_depend
    bottom,    \* comp->bottom_depend
    domain,    \* obj->domain; 0: none
    domains,   \* how many there are, next_domain - 1
    reachable, \* domain->reachable
    alive,     \* the program has not followed a null pointer
    calls      \* the calls made so far

members == <<inside, comps, top, bottom>>
links == <<children, parents>>
loops == <<domain, domains, reachable>>
vars == <<type, members, links, loops, alive, calls>>

Types == {"absent", "none", "rule", "comp"}
Typed == {"rule", "comp"}

(* The type a name is created with *)
TypeOf(o) == IF o \in Rules THEN "rule" ELSE "comp"

Init ==
    /\ type = [o \in Objs |-> IF o = System THEN "comp" ELSE "absent"]
    /\ inside = [o \in Objs |-> NoComp]
    /\ comps = [c \in Containers |-> <<>>]
    /\ children = [o \in Objs |-> {}]
    /\ parents = [o \in Objs |-> {}]
    /\ top = [c \in Containers |-> {}]
    /\ bottom = [c \in Containers |-> {}]
    /\ domain = [o \in Objs |-> 0]
    /\ domains = 0
    /\ reachable = [d \in Domains |-> {}]
    /\ alive = TRUE
    /\ calls = 0

-----------------------------------------------------------------------------
(* Walks *)

(* What of the domain of next can be reached from o, o included, by next *)
Reach(o, next) ==
    LET closed == {S \in SUBSET DOMAIN next : o \in S /\ \A s \in S : next[s] \subseteq S}
    IN  {x \in DOMAIN next : \A S \in closed : x \in S}

(* is_obj_in_tree, of the dependencies below tree *)
IsObjInTree(target, tree) == target \in Reach(tree, children)

Members == [c \in Objs |-> {o \in Objs : inside[o] = c}]

(* The objects that myrefl_obj_get_by_name finds, walking from System *)
Found == Reach(System, Members)

Nameable == {o \in Objs : type[o] = "absent"} \cup Found

(* The component after c on the list it is on, obj->next_in_comp.  lists   *)
(* says what is on the list of each component, where what each is in.      *)
Peer(c, lists) ==
    UNION {{lists[m][i] : i \in {j \in 2..Len(lists[m]) : lists[m][j - 1] = c}}
             : m \in Containers}

(* comp_get_next_contained, a set of one component or none: the first in   *)
(* c, else the one after it, else the one after the component c is in,     *)
(* which is not looked for any further up, and may not be there            *)
NextContained(first, c, lists, where) ==
    IF lists[c] # <<>> THEN {Head(lists[c])}
    ELSE IF c = first THEN {}
    ELSE IF Peer(c, lists) # {} THEN Peer(c, lists)
    ELSE IF where[c] = first THEN {}
    ELSE IF Peer(where[c], lists) # {} THEN Peer(where[c], lists)
    ELSE {Fault}

(* What myrefl_comp_get_first_contained and myrefl_comp_get_next_contained *)
(* return, one after the other, for the components in c                    *)
Walk(c, lists, where) ==
    LET next == [x \in Comps \cup {Fault} |->
                    IF x = Fault THEN {} ELSE NextContained(c, x, lists, where)]
    IN  UNION {Reach(x, next) : x \in NextContained(c, c, lists, where)}

-----------------------------------------------------------------------------
(* Creation *)

Call(S) ==
    /\ alive
    /\ calls < MaxCalls /\ calls' = calls + 1
    /\ S \subseteq Nameable

(* The types after myrefl_api_get_or_create of every object of S, with any *)
(* type: one that is absent is a forward reference, in System              *)
Referenced(S) == [o \in Objs |-> IF o \in S /\ type[o] = "absent" THEN "none" ELSE type[o]]
Housed(S) == [o \in Objs |-> IF o \in S /\ type[o] = "absent" THEN System ELSE inside[o]]

BugChained(o, where) ==   \* stays on the list of forward references
    IF o \in Comps /\ type[o] = "absent"
    THEN [comps EXCEPT ![where[o]] = <<o>> \o @] ELSE comps

(* The lists of components once o, a component or to become one, is first  *)
(* in the component it is in                                               *)
Chained(o, where) ==
    IF o \in Comps /\ type[o] # "comp"
    THEN [comps EXCEPT ![where[o]] = <<o>> \o @] ELSE comps

(* myrefl_rule_create, myrefl_comp_create: a new object is at the top and  *)
(* at the bottom of System; a forward reference that is given its type is  *)
(* put back where it was, but on neither list                              *)
Create(o) ==
    /\ Call({o})
    /\ type' = [type EXCEPT ![o] = TypeOf(o)]
    /\ inside' = Housed({o})
    /\ comps' = Chained(o, inside')
    /\ LET new == IF type[o] = "absent" THEN {o} ELSE {}
       IN  /\ top' = [top EXCEPT ![System] = @ \cup new]
           /\ bottom' = [bottom EXCEPT ![System] = @ \cup new]
    /\ UNCHANGED <<links, loops, alive>>

-----------------------------------------------------------------------------
(* Dependencies *)

BugIsLoop(p, c) ==   \* no search within one domain
    /\ domain[p] # 0 /\ domain[c] # 0 /\ domain[p] # domain[c]
    /\ domain[p] \in reachable[domain[c]]
    /\ IsObjInTree(p, c)

(* Whether a dependency of p on c is found to close a loop: the tree below *)
(* c is searched for p when both are in one domain, or when the domain of  *)
(* c is known to reach that of p                                           *)
IsLoop(p, c) ==
    /\ domain[p] # 0 /\ domain[c] # 0
    /\ domain[p] = domain[c] \/ domain[p] \in reachable[domain[c]]
    /\ IsObjInTree(p, c)

(* p and c get the domain of the other, or a new one *)
JoinDomain(p, c) ==
    IF domain[p] = 0 /\ domain[c] = 0
    THEN /\ domains < MaxDomains
         /\ domains' = domains + 1
         /\ domain' = [domain EXCEPT ![p] = domains', ![c] = domains']
         /\ reachable' = [reachable EXCEPT ![domains'] = {}]
    ELSE /\ domain' = [domain EXCEPT ![p] = IF @ = 0 THEN domain[c] ELSE @,
                                     ![c] = IF @ = 0 THEN domain[p] ELSE @]
         /\ UNCHANGED <<domains, reachable>>

(* The domain of p, and those known to reach it, are recorded to reach that *)
(* of c.  The list of domains has the newest first; when the search finds a *)
(* loop the walk ends at the domain of c, and the domain of p, if passed by *)
(* then, no longer reaches it.                                              *)
RecordReachable(p, c) ==
    /\ reachable' =
          [d \in Domains |->
             IF IsLoop(p, c) /\ (d <= domain[c] \/ d = domain[p])
             THEN IF d = domain[p] /\ d > domain[c]
                  THEN reachable[d] \ {domain[c]} ELSE reachable[d]
             ELSE IF d = domain[p] \/ (d # domain[c] /\ domain[p] \in reachable[d])
                  THEN reachable[d] \cup {domain[c]} ELSE reachable[d]]
    /\ UNCHANGED <<domain, domains>>

UpdateDomains(p, c) ==
    \/ /\ domain[p] = 0 \/ domain[c] = 0
       /\ JoinDomain(p, c)
    \/ /\ domain[p] # 0 /\ domain[p] = domain[c]
       /\ UNCHANGED loops
    \/ /\ domain[p] # 0 /\ domain[c] # 0 /\ domain[p] # domain[c]
       /\ RecordReachable(p, c)

(* myrefl_depend_create: p depends on c *)
DependCreate(p, c) ==
    /\ Call({p, c})
    /\ type' = Referenced({p, c})
    /\ inside' = Housed({p, c})
    /\ UNCHANGED <<comps, alive>>
    /\ IF p = c \/ c \in children[p]
       THEN UNCHANGED <<links, loops, top, bottom>>
       ELSE /\ UpdateDomains(p, c)
            /\ IF IsLoop(p, c)
               THEN UNCHANGED <<links, top, bottom>>
               ELSE /\ children' = [children EXCEPT ![p] = @ \cup {c}]
                    /\ parents' = [parents EXCEPT ![c] = @ \cup {p}]
                    /\ LET within == {inside'[p]} \cap {inside'[c]}
                       IN  /\ top' = [m \in Containers |->
                                        IF m \in within THEN top[m] \ {c} ELSE top[m]]
                           /\ bottom' = [m \in Containers |->
                                        IF m \in within THEN bottom[m] \ {p} ELSE bottom[m]]

-----------------------------------------------------------------------------
(* Components *)

(* Whether o is at the top (bottom) of c depends on the objects of c that  *)
(* depend on o (that o depends on); where says what is in which component. *)
AtTop(c, o, where) == \A p \in parents[o] : where[p] # c
AtBottom(c, o, where) == \A p \in children[o] : where[p] # c

(* The lists of every component when o leaves the one it is in, if it      *)
(* leaves any, and is put on the list of c, if it is to be                 *)
BugMoved(lists, from, c, o, listed) ==   \* o stays on the list it was on
    [m \in Containers |-> lists[m] \cup (IF m = c /\ listed THEN {o} ELSE {})]

Moved(lists, from, c, o, listed) ==
    [m \in Containers |-> (IF m = from THEN lists[m] \ {o} ELSE lists[m])
                          \cup (IF m = c /\ listed THEN {o} ELSE {})]

(* myrefl_comp_contains, myrefl_api_comp_contains: o leaves the component  *)
(* it is in for c, unless the walk through o finds c, or faults.  A new    *)
(* component starts in System.                                             *)
CompContains(c, o) ==
    LET housed == Housed({c, o})
        new == IF type[c] = "absent" THEN {c} ELSE {}
        chained == Chained(c, housed)
        walk == IF type'[o] = "comp" THEN Walk(o, chained, housed) ELSE {}
        listed == type'[o] \in Typed
    IN  /\ Call({c, o})
        /\ o # System
        /\ type' = [Referenced({c, o}) EXCEPT ![c] = "comp"]
        /\ alive' = (c \in walk \/ Fault \notin walk)
        /\ IF c \in walk \/ ~ alive'
           THEN comps' = chained /\ UNCHANGED <<inside, top, bottom>>
           ELSE /\ inside' = [housed EXCEPT ![o] = c]
                /\ comps' = IF type'[o] # "comp" THEN chained
                            ELSE LET left == [chained EXCEPT ![housed[o]] = ListRemove(@, o)]
                                 IN  [left EXCEPT ![c] = <<o>> \o @]
                /\ top' = Moved([top EXCEPT ![System] = @ \cup new], housed[o], c, o,
                                listed /\ AtTop(c, o, inside'))
                /\ bottom' = Moved([bottom EXCEPT ![System] = @ \cup new], housed[o], c, o,
                                   listed /\ AtBottom(c, o, inside'))
        /\ UNCHANGED <<links, loops>>

-----------------------------------------------------------------------------
(* Deletion *)

BugUnlinked(related, o) ==   \* the objects at the other end keep o
    [related EXCEPT ![o] = {}]

(* A dependency list of every object without any of o, and without o *)
Unlinked(related, o) ==
    [x \in Objs |-> IF x = o THEN {} ELSE related[x] \ {o}]

(* myrefl_obj_delete and unlink_obj_instance: o leaves its component and   *)
(* the dependencies.  Members of a component go to System, one after the   *)
(* other, though not its components; nth is their order.  Domains are left *)
(* as they are.                                                            *)
Delete(o) ==
    /\ type' = [type EXCEPT ![o] = "absent"]
    /\ children' = Unlinked(children, o)
    /\ parents' = Unlinked(parents, o)
    /\ domain' = [domain EXCEPT ![o] = 0]
    /\ UNCHANGED <<domains, reachable, alive>>
    /\ comps' = [m \in Containers |-> IF m = o THEN <<>> ELSE ListRemove(comps[m], o)]
    /\ LET moving == {x \in Members[o] : type[x] # "comp"}
           kept(lists) == [m \in Containers |-> IF m = o THEN {} ELSE lists[m] \ {o}]
       IN  \E nth \in [moving -> 1..Cardinality(moving)] :
             LET there(p, x) == inside'[p] = System /\ (p \in moving => nth[p] < nth[x])
                 shown(related) == {x \in moving : type[x] \in Typed /\
                                        \A p \in related[x] : ~ there(p, x)}
             IN  /\ \A x, y \in moving : nth[x] = nth[y] => x = y
                 /\ inside' = [x \in Objs |->
                                 IF x = o THEN NoComp
                                 ELSE IF x \in moving THEN System
                                 ELSE IF inside[x] = o THEN Gone ELSE inside[x]]
                 /\ top' = [kept(top) EXCEPT ![System] = @ \cup shown(parents')]
                 /\ bottom' = [kept(bottom) EXCEPT ![System] = @ \cup shown(children')]

(* myrefl_comp_delete, if there is such a component *)
CompDelete(c) == Call({c}) /\ type[c] = "comp" /\ Delete(c)

(* myrefl_rule_delete, which creates the object when it looks for it *)
RuleDelete(r) ==
    /\ Call({r})
    /\ IF type[r] = "rule" THEN Delete(r)
       ELSE /\ type' = Referenced({r}) /\ inside' = Housed({r})
            /\ UNCHANGED <<comps, top, bottom, links, loops, alive>>

-----------------------------------------------------------------------------
Next ==
    \/ \E o \in Rules \cup Comps : Create(o)
    \/ \E p, c \in Objs : DependCreate(p, c)
    \/ \E c \in Comps, o \in Objs : CompContains(c, o)
    \/ \E o \in Objs : CompContains(System, o)
    \/ \E c \in Comps : CompDelete(c)
    \/ \E r \in Rules : RuleDelete(r)

Spec == Init /\ [][Next]_vars

-----------------------------------------------------------------------------
(* Properties *)

(* The type invariant. *)
TypeOK ==
    /\ type \in [Objs -> Types]
    /\ \A o \in Objs : type[o] \in Typed => type[o] = TypeOf(o)
    /\ inside \in [Objs -> Containers \cup {NoComp, Gone}]
    /\ children \in [Objs -> SUBSET Objs] /\ parents \in [Objs -> SUBSET Objs]
    /\ top \in [Containers -> SUBSET Objs] /\ bottom \in [Containers -> SUBSET Objs]
    /\ domain \in [Objs -> 0..domains]
    /\ domains \in 0..MaxDomains
    /\ reachable \in [Domains -> SUBSET Domains]
    /\ comps \in [Containers -> Seq(Comps)]
    /\ alive \in BOOLEAN
    /\ calls \in 0..MaxCalls

(* No dependency leads around, within a set of objects: each has a last one *)
NoLoopAmong(objs) ==
    \A S \in SUBSET objs : S # {} => \E o \in S : children[o] \cap S = {}

(* The two ends of a dependency agree, and none is an object that has been *)
(* deleted: root cause identification follows the ends in both directions  *)
(* and would reach freed memory.                                           *)
LinksMirrored ==
    /\ \A p, c \in Objs : c \in children[p] <=> p \in parents[c]
    /\ \A p, c \in Objs : c \in children[p] =>
          type[p] # "absent" /\ type[c] # "absent"

(* A component shows, at its top and its bottom, members of its own, which *)
(* exist, whatever is moved, deleted and created again: root cause         *)
(* identification goes on with them when it comes to the component.        *)
BoundaryOfMembers ==
    \A c \in Containers : \A o \in top[c] \cup bottom[c] :
        inside[o] = c /\ type[o] \in Typed

(* The objects of one loop domain do not depend on each other in a loop:   *)
(* what the search within a domain achieves.                               *)
LoopsCrossDomains == \A d \in Domains : NoLoopAmong({o \in Objs : domain[o] = d})

(* myrefl_client.h: a dependency that would close a loop is ignored.       *)
NoLoop == NoLoopAmong(Objs)

(* No component is, through others, in itself, unless it was put there      *)
(* directly: what the walk before each move is for.                        *)
ContainmentEnds ==
    \A S \in SUBSET Comps : S # {} => \E c \in S : inside[c] \notin S \ {c}

=============================================================================
