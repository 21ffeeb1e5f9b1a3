------------------------------ MODULE Garbage ------------------------------
(***************************************************************************)
(* How the memory of objects and instances is given back: what deletes     *)
(* them (myrefl_obj.c 1110-1420, 2022-2058), the count in_use of those who *)
(* still hold them -- the sequencer's jobs and the listings of the CLI --  *)
(* and the garbage collector, which frees what is deleted and not in use,  *)
(* and takes listings that were left alone for CLI_DAY_SEC.                *)
(*                                                                         *)
(* Object o is its base instance <<o, 0>> and the member instances         *)
(* <<o, 1>>, <<o, 2>>...; each is one allocation, and is made once.  The   *)
(* objects of a type are in one component, and are the inputs (tests) or   *)
(* actions of one rule and the dependents of one object; those three are   *)
(* never deleted.                                                          *)
(*                                                                         *)
(* A page of a listing is two steps: it finds its handle, looks at the     *)
(* instance there and marks the handle busy with no lock on the database,  *)
(* and takes the lock for the rest.  The collector pops an instance with   *)
(* no lock either.                                                         *)
(*                                                                         *)
(* fault is set by a read through a null pointer or of freed memory: what  *)
(* comes after is not modelled.  An operator whose name starts with Bug is *)
(* no part of Next: it is what the definition after it would be with a     *)
(* slip that a property catches.                                           *)
(***************************************************************************)
EXTENDS Integers, FiniteSets, SequencesExt, MyreflList

CONSTANTS Tests, Actions,   \* the objects, by type
          Members,          \* bound: the member instances
          Later,            \* those instances that do not exist at first
          Jobs,             \* bound: jobs of the sequencer at a time
          Handles,          \* bound: listings of the CLI at a time
          Kinds,            \* the kinds of listing
          Mtu,              \* elements of a page
          Floor,            \* GARBAGE_QUEUE_FLOOR
          Wrap,             \* in_use is an unsigned int: 2^32
          MaxCalls,         \* bound: calls of the API, the CLI and rules
          None

Objs == Tests \cup Actions
Type(o) == IF o \in Tests THEN Tests ELSE Actions
Base(o) == <<o, 0>>
Instances == {Base(o) : o \in Objs} \cup Members

(* Those that keep the place in handle->instance, and look whether it is   *)
(* deleted before they let go of it; the others keep it in last_obj        *)
Checked == {"single", "instances", "all"}
(* Those that search for their place in a list: of a rule's inputs or      *)
(* actions, of what is connected to it, of an object's parents or children *)
Searched == {"triggers", "connected", "parents", "children"}

ASSUME TypesAssumption ==
    /\ Tests \cap Actions = {} /\ None \notin Instances
    /\ Members \subseteq Objs \X (Nat \ {0})
    /\ IsFiniteSet(Objs) /\ IsFiniteSet(Members)
ASSUME KindsAssumption == Kinds \subseteq Checked \cup Searched \cup {"members"}
ASSUME LaterAssumption ==
    /\ Later \subseteq Instances
    /\ \A x \in Instances : Base(x[1]) \in Later => x \in Later
ASSUME BoundsAssumption ==
    /\ MaxCalls \in Nat
    /\ {Mtu, Floor, Wrap} \subseteq Nat \ {0}
    /\ IsFiniteSet(Jobs) /\ IsFiniteSet(Handles)
    /\ Wrap > Cardinality(Jobs) + Cardinality(Handles)

VARIABLES
    state,    \* "none", "live", "deleted" or "freed"
    chain,    \* obj->i.next: the member instances of each object
    order,    \* next_in_comp: the objects of the component, by type
    inUse,    \* instance->in_use
    freeme,   \* the queue of deleted instances
    hand,     \* the instance the collector has popped
    budget,   \* what it may still process in this pass
    gpc,      \* where garbage_collector_main is
    job,      \* what each job of the sequencer does, and on which instance
    handle,   \* handles_in_use
    off,      \* history: those a listing has put the count off for
    fault,
    calls

database == <<state, chain, order>>
collector == <<hand, budget, gpc>>
vars == <<database, inUse, freeme, collector, job, handle, off, fault, calls>>

-----------------------------------------------------------------------------
(* Handles and the places they keep *)

NoJob == [at |-> "none", on |-> None]
NoHandle == [kind |-> "none", type |-> {}, cur |-> None,
             busy |-> FALSE, stale |-> FALSE, owed |-> {}, shown |-> {}]

(* Who holds x *)
Holders(x) ==
    Cardinality({j \in Jobs : job[j].on = x})
      + Cardinality({h \in Handles : handle[h].cur = x})

(* The objects of a type, the last one linked first *)
Linked(type) == [k \in DOMAIN order[type] |-> Base(order[type][k])]

(* What a listing goes through: the lists of a rule and of dependents are   *)
(* filled at their tail, the others at their head                          *)
Line(hd) ==
    CASE hd.kind = "single" -> IF state[hd.cur] = "live" THEN <<hd.cur>> ELSE <<>>
      [] hd.kind = "instances" -> chain[hd.cur[1]]
      [] hd.kind \in Searched -> Reverse(Linked(hd.type))
      [] OTHER -> Linked(hd.type)

(* It stands on an instance that is deleted, and has no links any more *)
Astray(hd) == hd.cur /= None /\ state[hd.cur] /= "live"

(* What is still to be shown: the place itself if last_obj is never looked *)
(* at, nothing if it has no next, everything once more if the component    *)
(* after none is the first                                                 *)
Rest(hd) ==
    LET line == Line(hd)
    IN  IF ~Astray(hd)
        THEN IF hd.cur = None THEN line
             ELSE SubSeq(line, CHOOSE k \in DOMAIN line : line[k] = hd.cur, Len(line))
        ELSE IF hd.kind = "all" THEN line
             ELSE IF hd.kind = "members" THEN <<hd.cur>> ELSE <<>>

(* in_use++, in_use--, and in_use-- if it is not zero *)
Pinned(n) == (n + 1) % Wrap

BugDropped(n) == n - 1   \* a signed in_use

Dropped(n) == (n - 1) % Wrap
Unpinned(n) == IF n > 0 THEN n - 1 ELSE 0

-----------------------------------------------------------------------------
(* The API *)

Call == ~fault /\ calls < MaxCalls /\ calls' = calls + 1

(* myrefl_..._create *)
Create(o) ==
    /\ state[Base(o)] = "none"
    /\ Call
    /\ state' = [state EXCEPT ![Base(o)] = "live"]
    /\ order' = [order EXCEPT ![Type(o)] = <<o>> \o @]
    /\ UNCHANGED <<chain, inUse, freeme, collector, job, handle, off, fault>>

(* myrefl_instance_create *)
InstanceCreate(x) ==
    /\ state[x] = "none" /\ x \in Members /\ state[Base(x[1])] = "live"
    /\ Call
    /\ state' = [state EXCEPT ![x] = "live"]
    /\ chain' = [chain EXCEPT ![x[1]] = <<x>> \o @]
    /\ UNCHANGED <<order, inUse, freeme, collector, job, handle, off, fault>>

(* What no listing can be asked to show any more *)
Forget(gone) ==
    handle' = [h \in Handles |-> [handle[h] EXCEPT !.owed = @ \ gone]]

(* myrefl_obj_delete: the members, and the object itself after them *)
Delete(o) ==
    LET gone == chain[o] \o <<Base(o)>>
    IN  /\ state[Base(o)] = "live"
        /\ Call
        /\ state' = [x \in Instances |-> IF x \in Range(gone) THEN "deleted" ELSE state[x]]
        /\ chain' = [chain EXCEPT ![o] = <<>>]
        /\ order' = [order EXCEPT ![Type(o)] = ListRemove(@, o)]
        /\ freeme' = freeme \o gone
        /\ Forget(Range(gone))
        /\ UNCHANGED <<inUse, collector, job, off, fault>>

(* myrefl_obj_instance_delete *)
BugInstanceDelete(x) ==
    /\ state[x] = "live" /\ x \in Members
    /\ Call
    /\ state' = [state EXCEPT ![x] = "deleted"]
    /\ freeme' = ListPush(freeme, x)
    /\ Forget({x})
    /\ UNCHANGED <<chain, order, inUse, collector, job, off, fault>>

InstanceDelete(x) ==
    /\ state[x] = "live" /\ x \in Members
    /\ Call
    /\ state' = [state EXCEPT ![x] = "deleted"]
    /\ chain' = [chain EXCEPT ![x[1]] = ListRemove(@, x)]
    /\ freeme' = ListPush(freeme, x)
    /\ Forget({x})
    /\ UNCHANGED <<order, inUse, collector, job, off, fault>>

-----------------------------------------------------------------------------
(* The sequencer *)

Held(x) == inUse' = [inUse EXCEPT ![x] = Pinned(@)]
Free(x) == inUse' = [inUse EXCEPT ![x] = Dropped(@)]

(* myrefl_seq_from_...: a test is to run, or a result is known *)
Request(j, x) ==
    /\ job[j] = NoJob /\ state[x] = "live"
    /\ Call
    /\ Held(x)
    /\ job' = [job EXCEPT ![j] = [at |-> "queued", on |-> x]]
    /\ UNCHANGED <<database, freeme, collector, handle, off, fault>>

(* seq_action_run, for a rule *)
ActionRun(j, x) ==
    /\ job[j] = NoJob /\ state[x] = "live" /\ x[1] \in Actions
    /\ Call
    /\ Held(x)
    /\ job' = [job EXCEPT ![j] = [at |-> "running", on |-> x]]
    /\ UNCHANGED <<database, freeme, collector, handle, off, fault>>

(* seq_thread_fn: nothing more is done for a deleted instance *)
BugTake(j) ==
    LET x == job[j].on
    IN  /\ ~fault /\ job[j].at = "queued"
        /\ \/ /\ inUse' = IF state[x] = "deleted" THEN inUse
                          ELSE [inUse EXCEPT ![x] = Dropped(@)]
              /\ job' = [job EXCEPT ![j] = NoJob]
           \/ /\ state[x] = "live" /\ x[1] \in Tests
              /\ inUse' = [inUse EXCEPT ![x] = Pinned(Dropped(@))]
              /\ job' = [job EXCEPT ![j].at = "running"]
        /\ fault' = (state[x] = "freed")
        /\ UNCHANGED <<database, freeme, collector, handle, off, calls>>

Take(j) ==
    LET x == job[j].on
    IN  /\ ~fault /\ job[j].at = "queued"
        /\ \/ /\ Free(x)
              /\ job' = [job EXCEPT ![j] = NoJob]
           \/ /\ state[x] = "live" /\ x[1] \in Tests   \* myrefl_seq_test_run
              /\ inUse' = [inUse EXCEPT ![x] = Pinned(Dropped(@))]
              /\ job' = [job EXCEPT ![j].at = "running"]
        /\ fault' = (state[x] = "freed")
        /\ UNCHANGED <<database, freeme, collector, handle, off, calls>>

(* The client's function is back: an action's statistics and trace read    *)
(* the object before anyone looks whether it is still there                *)
End(j) ==
    LET x == job[j].on
    IN  /\ ~fault /\ job[j].at = "running"
        /\ Free(x)
        /\ job' = [job EXCEPT ![j] = NoJob]
        /\ fault' = \/ state[x] = "freed"
                    \/ x[1] \in Actions /\ state[Base(x[1])] = "freed"
        /\ UNCHANGED <<database, freeme, collector, handle, off, calls>>

-----------------------------------------------------------------------------
(* The listings of the CLI *)

(* myrefl_cli_local_get_info_handle.  The handles are alike: one that is    *)
(* not in use is as good as another.                                       *)
Open(h, kind, hd) ==
    /\ handle[h].kind \in {"none", "done"}
    /\ h = CHOOSE g \in Handles : handle[g].kind \in {"none", "done"}
    /\ Call
    /\ handle' = [handle EXCEPT ![h] =
                    [NoHandle EXCEPT !.kind = kind, !.type = hd.type, !.cur = hd.cur,
                                     !.owed = IF kind = "instances" /\ hd.cur = None THEN {}
                                              ELSE Range(Line(hd))]]
    /\ UNCHANGED <<database, freeme, collector, job, fault>>

(* ... with a name: one object, or its instances.  The object is held, and *)
(* is let go again for the first instance, if there is one                 *)
OpenNamed(h, o) ==
    /\ state[Base(o)] = "live"
    /\ \/ /\ "single" \in Kinds
          /\ Open(h, "single", [kind |-> "single", type |-> {o}, cur |-> Base(o)])
          /\ Held(Base(o)) /\ UNCHANGED off
       \/ /\ "instances" \in Kinds /\ chain[o] /= <<>>
          /\ Open(h, "instances",
                  [kind |-> "instances", type |-> {o}, cur |-> Head(chain[o])])
          /\ inUse' = [inUse EXCEPT ![Base(o)] = Unpinned(Pinned(@)),
                                    ![Head(chain[o])] = Pinned(@)]
          /\ UNCHANGED off
       \/ /\ "instances" \in Kinds /\ chain[o] = <<>>
          /\ Open(h, "instances", [kind |-> "instances", type |-> {o}, cur |-> None])
          /\ Held(Base(o)) /\ off' = off \cup {Base(o)}

(* ... and without: all objects of a type, those of a component, a rule's  *)
(* or an object's.  The last three have no place before their first page   *)
OpenAll(h, kind, type) ==
    LET first == IF kind = "all" THEN Head(Linked(type)) ELSE None
    IN  /\ kind = "all" => Linked(type) /= <<>>
        /\ Open(h, kind, [kind |-> kind, type |-> type, cur |-> first])
        /\ inUse' = IF first = None THEN inUse ELSE [inUse EXCEPT ![first] = Pinned(@)]
        /\ UNCHANGED off

(* A page is asked for: a handle with no instance, or a deleted one, gives *)
(* none                                                                    *)
Begin(h) ==
    LET hd == handle[h]
    IN  /\ ~fault /\ hd.kind \notin {"none", "done"} /\ ~hd.busy
        /\ hd.kind \in Checked => hd.cur /= None /\ ~(state[hd.cur] = "deleted")
        /\ handle' = [handle EXCEPT ![h].busy = TRUE, ![h].stale = FALSE]
        /\ fault' = (hd.cur /= None /\ state[hd.cur] = "freed")
        /\ UNCHANGED <<database, inUse, freeme, collector, job, off, calls>>

(* in_use of an instance that was shown and left *)
Left(hd, x) ==
    LET pinned == IF x = hd.cur THEN inUse[x] ELSE Pinned(inUse[x])
    IN  Unpinned(IF hd.kind = "children" THEN Dropped(pinned) ELSE pinned)

(* The place after n elements *)
BugPlace(rest, n) == rest[n]

Place(rest, n) == rest[n + 1]

(* The page under the lock.  A search for a deleted object runs off the    *)
(* end of the list                                                         *)
Page(h, kind) ==
    LET hd == handle[h]
        rest == Rest(hd)
        last == Len(rest) <= Mtu
        shown == Range(IF last THEN rest ELSE SubSeq(rest, 1, Mtu))
        next == IF last THEN None ELSE Place(rest, Mtu)
        left == hd.owed \ shown
    IN  /\ ~fault /\ hd.kind = kind /\ hd.busy
        /\ fault' = \/ hd.cur /= None /\ state[hd.cur] = "freed"
                    \/ hd.kind \in Searched /\ Astray(hd) /\ Line(hd) /= <<>>
        /\ inUse' = [x \in Instances |->
                       CASE x \in shown -> Left(hd, x)
                         [] x = next -> Pinned(inUse[x])
                         [] x = hd.cur /\ x \notin shown /\ hd.kind \notin Checked ->
                              Unpinned(inUse[x])
                         [] OTHER -> inUse[x]]
        /\ off' = off \cup (IF hd.kind = "children" THEN shown ELSE {})
                      \cup (IF hd.kind \in Checked /\ Astray(hd) THEN {hd.cur} ELSE {})
        /\ handle' = [handle EXCEPT ![h] =
                        IF last
                        THEN [NoHandle EXCEPT !.kind = "done",
                                              !.owed = IF Astray(hd) THEN {} ELSE left]
                        ELSE [hd EXCEPT !.busy = FALSE, !.cur = next, !.owed = left,
                                        !.shown = IF Astray(hd) THEN {}
                                                  ELSE @ \cup shown]]
        /\ UNCHANGED <<database, freeme, collector, job, calls>>

GetSingleInfo(h) == Page(h, "single")
GetInstanceInfo(h) == Page(h, "instances")
GetInfo(h) == Page(h, "all")
GetStrucsInComp(h) == Page(h, "members")
GetRuleActionsOrInputs(h) == Page(h, "triggers")
GetConnectedInstances(h) == Page(h, "connected")
GetParentDepend(h) == Page(h, "parents")
GetChildDepend(h) == Page(h, "children")

GetPage(h) ==
    \/ GetSingleInfo(h) \/ GetInstanceInfo(h) \/ GetInfo(h) \/ GetStrucsInComp(h)
    \/ GetRuleActionsOrInputs(h) \/ GetConnectedInstances(h)
    \/ GetParentDepend(h) \/ GetChildDepend(h)

(* CLI_DAY_SEC pass and the user does not come back *)
Age(h) ==
    /\ ~fault /\ handle[h].kind \notin {"none", "done"}
    /\ ~handle[h].busy /\ ~handle[h].stale
    /\ handle' = [handle EXCEPT ![h].stale = TRUE]
    /\ UNCHANGED <<database, inUse, freeme, collector, job, off, fault, calls>>

-----------------------------------------------------------------------------
(* The garbage collector *)

(* garbage_collector_timer_expired *)
Wake ==
    /\ ~fault /\ gpc = "idle"
    /\ gpc' = "pop"
    /\ budget' = IF Len(freeme) \div 3 < Floor THEN Floor ELSE Len(freeme) \div 3
    /\ UNCHANGED <<database, inUse, freeme, hand, job, handle, off, fault, calls>>

(* process_freeme_queue: pop *)
Pop ==
    /\ ~fault /\ gpc = "pop"
    /\ IF freeme = <<>>
       THEN gpc' = "handles" /\ UNCHANGED <<freeme, hand>>
       ELSE /\ hand' = ListPeek(freeme, None) /\ freeme' = ListRest(freeme)
            /\ gpc' = "free"
    /\ UNCHANGED <<database, inUse, budget, job, handle, off, fault, calls>>

(* ... and under the lock, free it or put it back *)
BugProcess ==
    /\ ~fault /\ gpc = "free"
    /\ state' = [state EXCEPT ![hand] = "freed"]
    /\ hand' = None
    /\ budget' = budget - 1
    /\ gpc' = IF budget = 1 THEN "handles" ELSE "pop"
    /\ UNCHANGED <<chain, order, inUse, freeme, job, handle, off, fault, calls>>

Process ==
    /\ ~fault /\ gpc = "free"
    /\ IF inUse[hand] > 0
       THEN freeme' = ListPush(freeme, hand) /\ UNCHANGED state
       ELSE state' = [state EXCEPT ![hand] = "freed"] /\ UNCHANGED freeme
    /\ hand' = None
    /\ budget' = budget - 1
    /\ gpc' = IF budget = 1 THEN "handles" ELSE "pop"
    /\ UNCHANGED <<chain, order, inUse, job, handle, off, fault, calls>>

(* myrefl_cli_local_handle_free, for listings with these places: a place   *)
(* is in use by nobody then, unless it is deleted: it stays in use         *)
HandleFree(places) ==
    LET valid == {x \in places : state[x] = "live"}
    IN  /\ inUse' = [x \in Instances |-> IF x \in valid THEN 0 ELSE inUse[x]]
        /\ off' = off \cup (places \ {x \in valid : Holders(x) = 1})

(* myrefl_cli_local_handle_free_garbage *)
HandleFreeGarbage ==
    LET old == {h \in Handles : handle[h].stale}
        places == {handle[h].cur : h \in old} \ {None}
    IN  /\ ~fault /\ gpc = "handles"
        /\ gpc' = "idle"
        /\ handle' = [h \in Handles |-> IF h \in old THEN NoHandle ELSE handle[h]]
        /\ HandleFree(places)
        /\ fault' = (\E x \in places : state[x] = "freed")
        /\ UNCHANGED <<database, freeme, hand, budget, job, calls>>

-----------------------------------------------------------------------------
Init ==
    /\ state = [x \in Instances |-> IF x \in Later THEN "none" ELSE "live"]
    /\ chain = [o \in Objs |-> SetToSeq({x \in Members \ Later : x[1] = o})]
    /\ order = [type \in {Tests, Actions} |-> SetToSeq({o \in type : Base(o) \notin Later})]
    /\ inUse = [x \in Instances |-> 0]
    /\ freeme = <<>> /\ hand = None /\ budget = 0 /\ gpc = "idle"
    /\ job = [j \in Jobs |-> NoJob]
    /\ handle = [h \in Handles |-> NoHandle]
    /\ off = {} /\ fault = FALSE /\ calls = 0

Collecting == Wake \/ Pop \/ Process \/ HandleFreeGarbage

Next ==
    \/ \E o \in Objs : Create(o) \/ Delete(o)
    \/ \E x \in Instances : InstanceCreate(x) \/ InstanceDelete(x)
    \/ \E j \in Jobs, x \in Instances : Request(j, x) \/ ActionRun(j, x)
    \/ \E j \in Jobs : Take(j) \/ End(j)
    \/ \E h \in Handles, o \in Objs : OpenNamed(h, o)
    \/ \E h \in Handles, kind \in Kinds \ {"single", "instances"},
          type \in {Tests, Actions} : OpenAll(h, kind, type)
    \/ \E h \in Handles : Begin(h) \/ GetPage(h) \/ Age(h)
    \/ Collecting

Spec == Init /\ [][Next]_vars

(* The timer goes off, every job gets a thread and the client's functions  *)
(* return, a page that is begun ends, and a user who does not come back    *)
(* has been away for CLI_DAY_SEC some time                                 *)
FairSpec ==
    /\ Spec
    /\ WF_vars(Collecting)
    /\ \A j \in Jobs : WF_vars(Take(j) \/ End(j))
    /\ \A h \in Handles : WF_vars(GetPage(h)) /\ WF_vars(Age(h))

-----------------------------------------------------------------------------
(* Properties *)

Places == Instances \cup {None}

TypeOK ==
    /\ state \in [Instances -> {"none", "live", "deleted", "freed"}]
    /\ chain \in [Objs -> Seq(Instances)]
    /\ order \in [{Tests, Actions} -> Seq(Objs)]
    /\ inUse \in [Instances -> 0 .. Wrap - 1]
    /\ freeme \in Seq(Instances) /\ hand \in Places
    /\ budget \in Nat /\ gpc \in {"idle", "pop", "free", "handles"}
    /\ job \in [Jobs -> [at : {"none", "queued", "running"}, on : Places]]
    /\ handle \in [Handles -> [kind : Kinds \cup {"none", "done"}, type : SUBSET Objs,
                               cur : Places, busy : BOOLEAN, stale : BOOLEAN,
                               owed : SUBSET Instances, shown : SUBSET Instances]]
    /\ off \subseteq Instances /\ fault \in BOOLEAN /\ calls \in 0 .. MaxCalls

(* in_use is the number of jobs and listings that hold an instance, over   *)
(* deletion, listings that move on and pages cut short, and an instance is *)
(* not freed while it is not zero.  The listings of a component's children *)
(* and those that end on a deleted instance, find no instances or are      *)
(* taken while others hold the same object put it off.                     *)
ReferencesCounted ==
    \A x \in Instances \ off :
        /\ inUse[x] = Holders(x)
        /\ Holders(x) > 0 => state[x] /= "freed"

(* What is deleted is once on the collector's queue or in its hand, and    *)
(* nothing else is: nothing is freed twice, forgotten, or freed alive.     *)
FreedOnce ==
    \A x \in Instances :
        Cardinality({k \in DOMAIN freeme : freeme[k] = x}) + (IF hand = x THEN 1 ELSE 0)
          = IF state[x] = "deleted" THEN 1 ELSE 0

(* A listing that does not stand on a deleted instance will show all that  *)
(* was there when it was opened and still is, and nothing twice, whatever  *)
(* is created and deleted between its pages.                               *)
ListingComplete ==
    \A h \in Handles :
        LET hd == handle[h]
        IN  /\ hd.kind = "done" => hd.owed = {}
            /\ hd.kind \notin {"none", "done"} /\ ~fault /\ hd.cur /= None /\ ~Astray(hd) =>
                 hd.owed \subseteq Range(Rest(hd)) /\ hd.shown \cap Range(Rest(hd)) = {}

(* What is deleted is freed some time, unless a listing has put its count  *)
(* off: then nobody ever sets it to zero.  There are so many instances,    *)
(* each deleted once: when all have had their time none is left.           *)
Collected ==
    <>[](fault \/ \A x \in Instances : state[x] = "deleted" => x \in off)

(* "Free the object once we are 100% sure that noone is referencing it"    *)
(* (myrefl_obj.c:1409): a member instance refers to its object, and        *)
(* in_use of the object does not count the jobs of its members.            *)
FreedIsNotReferenced ==
    \A j \in Jobs :
        job[j].on /= None => state[Base(job[j].on[1])] /= "freed"

=============================================================================
