---------------------------- MODULE GarbageProofs ----------------------------
(***************************************************************************)
(* Theorems about Garbage, for any objects, jobs, listings and number of   *)
(* calls: what is deleted is on its way to be freed, once; in_use counts   *)
(* who holds an instance; the types; and what the pages of a listing show. *)
(***************************************************************************)
EXTENDS Garbage, MyreflListProofs, FiniteSetTheorems

(* No element is on both lists *)
Apart(l, m) == \A e : ~ (ListFind(l, e) /\ ListFind(m, e))

LEMMA ConcatFacts ==
    ASSUME NEW S, NEW l \in Seq(S), NEW m \in Seq(S)
    PROVE  /\ l \o m \in Seq(S)
           /\ \A e : ListFind(l \o m, e) <=> ListFind(l, e) \/ ListFind(m, e)
<1> DEFINE c == l \o m
<1>1. /\ c \in Seq(S) /\ Len(c) = Len(l) + Len(m)
      /\ Len(l) \in Nat /\ Len(m) \in Nat
      /\ \A k \in 1..Len(l) + Len(m) : c[k] = IF k <= Len(l) THEN l[k] ELSE m[k - Len(l)]
  BY ConcatProperties, LenProperties
<1> HIDE DEF c
<1>2. ASSUME NEW e, ListFind(c, e) PROVE ListFind(l, e) \/ ListFind(m, e)
  <2>1. PICK k \in 1..Len(c) : c[k] = e BY <1>2 DEF ListFind
  <2>2. CASE k <= Len(l) BY <1>1, <2>1, <2>2 DEF ListFind
  <2>3. CASE ~ k <= Len(l)
    <3>1. k - Len(l) \in 1..Len(m) /\ m[k - Len(l)] = e BY <1>1, <2>1, <2>3
    <3>2. QED BY <3>1 DEF ListFind
  <2>4. QED BY <2>2, <2>3
<1>3. ASSUME NEW e, ListFind(l, e) PROVE ListFind(c, e)
  <2>1. PICK k \in 1..Len(l) : l[k] = e BY <1>3 DEF ListFind
  <2>2. k \in 1..Len(c) /\ c[k] = e BY <1>1, <2>1
  <2>3. QED BY <2>2 DEF ListFind
<1>4. ASSUME NEW e, ListFind(m, e) PROVE ListFind(c, e)
  <2>1. PICK k \in 1..Len(m) : m[k] = e BY <1>4 DEF ListFind
  <2>2. /\ k + Len(l) \in 1..Len(l) + Len(m)
        /\ ~ k + Len(l) <= Len(l) /\ (k + Len(l)) - Len(l) = k
    BY <1>1
  <2>3. c[k + Len(l)] = e BY <1>1, <2>1, <2>2
  <2>4. QED BY <1>1, <2>2, <2>3 DEF ListFind
<1>5. QED BY <1>1, <1>2, <1>3, <1>4 DEF c

LEMMA ConcatNoDuplicates ==
    ASSUME NEW S, NEW l \in Seq(S), NEW m \in Seq(S),
           NoDuplicates(l), NoDuplicates(m), Apart(l, m)
    PROVE  NoDuplicates(l \o m)
<1> DEFINE c == l \o m
<1>1. /\ Len(c) = Len(l) + Len(m) /\ Len(l) \in Nat /\ Len(m) \in Nat
      /\ \A k \in 1..Len(l) + Len(m) : c[k] = IF k <= Len(l) THEN l[k] ELSE m[k - Len(l)]
  BY ConcatProperties, LenProperties
<1> HIDE DEF c
<1> SUFFICES ASSUME NEW i \in 1..Len(c), NEW j \in 1..Len(c), c[i] = c[j]
             PROVE  i = j
  BY DEF NoDuplicates, c
<1>2. CASE i <= Len(l) /\ j <= Len(l)
  BY <1>1, <1>2 DEF NoDuplicates
<1>3. CASE ~ i <= Len(l) /\ ~ j <= Len(l)
  <2>1. /\ i - Len(l) \in 1..Len(m) /\ j - Len(l) \in 1..Len(m)
        /\ m[i - Len(l)] = m[j - Len(l)]
    BY <1>1, <1>3
  <2>2. i - Len(l) = j - Len(l) BY <2>1 DEF NoDuplicates
  <2>3. QED BY <1>1, <2>2
<1>4. ASSUME NEW a \in 1..Len(c), NEW b \in 1..Len(c), a <= Len(l), ~ b <= Len(l)
      PROVE  c[a] # c[b]
  <2>1. a \in 1..Len(l) /\ c[a] = l[a] BY <1>1, <1>4
  <2>2. b - Len(l) \in 1..Len(m) /\ c[b] = m[b - Len(l)] BY <1>1, <1>4
  <2>3. ListFind(l, c[a]) /\ ListFind(m, c[b]) BY <2>1, <2>2 DEF ListFind
  <2>4. QED BY <2>3 DEF Apart
<1>5. QED BY <1>2, <1>3, <1>4

LEMMA SingleFacts ==
    ASSUME NEW S, NEW d \in S
    PROVE  /\ <<d>> \in Seq(S) /\ NoDuplicates(<<d>>)
           /\ \A e : ListFind(<<d>>, e) <=> e = d
BY DEF ListFind, NoDuplicates

LEMMA EmptyFacts ==
    ASSUME NEW S
    PROVE  <<>> \in Seq(S) /\ NoDuplicates(<<>>) /\ \A e : ~ ListFind(<<>>, e)
BY DEF ListFind, NoDuplicates

(* A finite set made a sequence: all its elements, each once. *)
LEMMA SetToSeqFacts ==
    ASSUME NEW T, IsFiniteSet(T)
    PROVE  /\ SetToSeq(T) \in Seq(T) /\ NoDuplicates(SetToSeq(T))
           /\ \A e : ListFind(SetToSeq(T), e) <=> e \in T
<1> DEFINE n == Cardinality(T)
           f == SetToSeq(T)
<1>1. n \in Nat /\ ExistsBijection(1..n, T) BY FS_CardinalityType
<1>2. \E g \in [1..n -> T] : IsInjective(g)
  BY <1>1 DEF ExistsBijection, Bijection, Injection, IsInjective
<1>3. f \in [1..n -> T] /\ IsInjective(f) BY <1>2 DEF SetToSeq
<1>4. Cardinality(1..n) = n BY <1>1, FS_Interval
<1>5. f \in Surjection(1..n, T)
  <2>1. f \in Injection(1..n, T) BY <1>3 DEF Injection, IsInjective
  <2>2. Cardinality(1..n) = Cardinality(T) BY <1>4
  <2>3. QED BY <2>1, <2>2, FS_Injection
<1> HIDE DEF f, n
<1>6. f \in Seq(T) /\ Len(f) = n BY <1>1, <1>3
<1>7. NoDuplicates(f) BY <1>3, <1>6 DEF NoDuplicates, IsInjective
<1>8. \A e : ListFind(f, e) => e \in T BY <1>3, <1>6 DEF ListFind
<1>9. \A e \in T : ListFind(f, e) BY <1>5, <1>6 DEF ListFind, Surjection
<1>10. QED BY <1>6, <1>7, <1>8, <1>9 DEF f

-----------------------------------------------------------------------------
(* The members of an object are on its chain at most once, and what is     *)
(* there is not deleted.                                                   *)
ChainsLive ==
    \A o \in Objs :
        /\ chain[o] \in Seq(Instances) /\ NoDuplicates(chain[o])
        /\ \A x : ListFind(chain[o], x) => x \in Members /\ x[1] = o /\ state[x] = "live"

(* The queue holds nothing twice, nor what the collector has in hand,      *)
(* which it has only between its two steps; together they are all that is  *)
(* deleted                                                                 *)
QueueHoldsDeleted ==
    /\ freeme \in Seq(Instances) /\ NoDuplicates(freeme)
    /\ hand \in Instances \cup {None} /\ ~ ListFind(freeme, hand)
    /\ hand = None <=> gpc /= "free"
    /\ \A x \in Instances : state[x] = "deleted" <=> ListFind(freeme, x) \/ hand = x

Lifecycle ==
    /\ state \in [Instances -> {"none", "live", "deleted", "freed"}]
    /\ chain = [o \in Objs |-> chain[o]]
    /\ ChainsLive
    /\ QueueHoldsDeleted

lifecycle == <<state, chain, freeme, hand, gpc>>

(* Instances are what they are, and None is none of them. *)
LEMMA InstancesFacts ==
    /\ None \notin Instances
    /\ Members \subseteq Instances
    /\ \A o \in Objs : Base(o) \in Instances /\ Base(o) \notin Members
BY TypesAssumption DEF Instances, Base

LEMMA LifecycleStarts == Init => Lifecycle
<1> SUFFICES ASSUME Init PROVE Lifecycle
  OBVIOUS
<1>1. state \in [Instances -> {"none", "live", "deleted", "freed"}] BY DEF Init
<1>2. chain = [o \in Objs |-> chain[o]] BY DEF Init
<1>3. ASSUME NEW o \in Objs
      PROVE  /\ chain[o] \in Seq(Instances) /\ NoDuplicates(chain[o])
             /\ \A x : ListFind(chain[o], x) => x \in Members /\ x[1] = o /\ state[x] = "live"
  <2> DEFINE T == {x \in Members \ Later : x[1] = o}
  <2>1. IsFiniteSet(T)
    <3>1. T \in SUBSET Members OBVIOUS
    <3>2. QED BY <3>1, FS_Subset, TypesAssumption
  <2>2. chain[o] = SetToSeq(T) BY DEF Init
  <2>3. \A x \in T : x \in Instances /\ state[x] = "live"
    BY InstancesFacts DEF Init
  <2> HIDE DEF T
  <2>4. /\ chain[o] \in Seq(T) /\ NoDuplicates(chain[o])
        /\ \A x : ListFind(chain[o], x) => x \in T
    BY <2>1, <2>2, SetToSeqFacts
  <2>5. chain[o] \in Seq(Instances) BY <2>3, <2>4
  <2>6. QED BY <2>3, <2>4, <2>5 DEF T
<1>4. QueueHoldsDeleted
  <2>1. freeme = <<>> /\ hand = None /\ gpc = "idle" BY DEF Init
  <2>2. freeme \in Seq(Instances) /\ NoDuplicates(freeme) /\ \A e : ~ ListFind(freeme, e)
    BY <2>1, EmptyFacts
  <2>3. \A x \in Instances : state[x] /= "deleted" /\ hand /= x
    BY <2>1, InstancesFacts DEF Init
  <2>4. QED BY <2>1, <2>2, <2>3 DEF QueueHoldsDeleted
<1>5. QED BY <1>1, <1>2, <1>3, <1>4 DEF Lifecycle, ChainsLive

(* A new instance is on no list. *)
LEMMA CreateKeeps ==
    ASSUME Lifecycle, NEW o \in Objs, Create(o)
    PROVE  Lifecycle'
<1>1. /\ state' = [state EXCEPT ![Base(o)] = "live"] /\ state[Base(o)] = "none"
      /\ UNCHANGED <<chain, freeme, hand, gpc>>
  BY DEF Create, collector
<1>2. state' \in [Instances -> {"none", "live", "deleted", "freed"}]
  BY <1>1, InstancesFacts DEF Lifecycle
<1>3. \A x \in Instances : state'[x] = "deleted" <=> state[x] = "deleted"
  BY <1>1, InstancesFacts DEF Lifecycle
<1>4. \A x \in Instances : state[x] = "live" => state'[x] = "live"
  BY <1>1, InstancesFacts DEF Lifecycle
<1>5. ChainsLive' BY <1>1, <1>4, InstancesFacts DEF Lifecycle, ChainsLive
<1>6. QueueHoldsDeleted' BY <1>1, <1>3 DEF Lifecycle, QueueHoldsDeleted
<1>7. QED BY <1>1, <1>2, <1>5, <1>6 DEF Lifecycle

LEMMA InstanceCreateKeeps ==
    ASSUME Lifecycle, NEW x \in Instances, InstanceCreate(x)
    PROVE  Lifecycle'
<1> DEFINE o == x[1]
<1>1. /\ state' = [state EXCEPT ![x] = "live"] /\ state[x] = "none" /\ x \in Members
      /\ chain' = [chain EXCEPT ![o] = <<x>> \o chain[o]]
      /\ UNCHANGED <<freeme, hand, gpc>>
  BY DEF InstanceCreate, collector
<1>2. o \in Objs BY <1>1, TypesAssumption
<1> HIDE DEF o
<1>3. state' \in [Instances -> {"none", "live", "deleted", "freed"}]
  BY <1>1 DEF Lifecycle
<1>4. \A y \in Instances : /\ state'[y] = "deleted" <=> state[y] = "deleted"
                           /\ state[y] = "live" => state'[y] = "live"
  BY <1>1 DEF Lifecycle
<1>5. chain' = [p \in Objs |-> IF p = o THEN <<x>> \o chain[o] ELSE chain[p]]
  BY <1>1, <1>2 DEF Lifecycle
<1>6. ASSUME NEW p \in Objs
      PROVE  /\ chain'[p] \in Seq(Instances) /\ NoDuplicates(chain'[p])
             /\ \A y : ListFind(chain'[p], y) => y \in Members /\ y[1] = p /\ state'[y] = "live"
  <2>1. /\ chain[p] \in Seq(Instances) /\ NoDuplicates(chain[p])
        /\ \A y : ListFind(chain[p], y) => /\ y \in Members /\ y[1] = p
                                           /\ state[y] = "live" /\ state'[y] = "live"
    BY <1>4, InstancesFacts DEF Lifecycle, ChainsLive
  <2>2. CASE p # o BY <1>5, <2>1, <2>2
  <2>3. CASE p = o
    <3>1. chain'[p] = <<x>> \o chain[p] BY <1>5, <2>3
    <3>2. /\ <<x>> \in Seq(Instances) /\ NoDuplicates(<<x>>)
          /\ \A y : ListFind(<<x>>, y) <=> y = x
      BY SingleFacts
    <3>3. Apart(<<x>>, chain[p]) BY <1>1, <2>1, <3>2 DEF Apart
    <3>4. /\ chain'[p] \in Seq(Instances) /\ NoDuplicates(chain'[p])
          /\ \A y : ListFind(chain'[p], y) <=> y = x \/ ListFind(chain[p], y)
      <4> DEFINE l == <<x>>
                 m == chain[p]
      <4>1. l \in Seq(Instances) /\ NoDuplicates(l) /\ \A y : ListFind(l, y) <=> y = x
        BY <3>2
      <4>2. m \in Seq(Instances) /\ NoDuplicates(m) /\ Apart(l, m) BY <2>1, <3>3
      <4>3. chain'[p] = l \o m BY <3>1
      <4> HIDE DEF l, m
      <4>4. /\ l \o m \in Seq(Instances) /\ NoDuplicates(l \o m)
            /\ \A y : ListFind(l \o m, y) <=> ListFind(l, y) \/ ListFind(m, y)
        BY <4>1, <4>2, ConcatFacts, ConcatNoDuplicates
      <4>5. QED BY <4>1, <4>3, <4>4 DEF m
    <3>5. state'[x] = "live" BY <1>1 DEF Lifecycle
    <3>6. x[1] = p BY <2>3 DEF o
    <3>7. QED BY <1>1, <2>1, <3>4, <3>5, <3>6
  <2>4. QED BY <2>2, <2>3
<1>7. QueueHoldsDeleted' BY <1>1, <1>4 DEF Lifecycle, QueueHoldsDeleted
<1>8. QED BY <1>3, <1>5, <1>6, <1>7 DEF Lifecycle, ChainsLive

(* All that is on a list is what is in its range. *)
LEMMA RangeFacts ==
    ASSUME NEW S, NEW l \in Seq(S), NEW e
    PROVE  e \in Range(l) <=> ListFind(l, e)
<1>1. DOMAIN l = 1..Len(l) BY LenProperties
<1>2. QED BY <1>1 DEF Range, ListFind

(* What is deleted was live: it goes on the queue, once, and off the       *)
(* chains.                                                                 *)
LEMMA DeletedKeeps ==
    ASSUME Lifecycle, NEW gone \in Seq(Instances), NoDuplicates(gone),
           \A x : ListFind(gone, x) => state[x] = "live",
           state' = [x \in Instances |-> IF ListFind(gone, x) THEN "deleted" ELSE state[x]],
           freeme' = freeme \o gone, UNCHANGED <<hand, gpc>>
    PROVE  /\ state' \in [Instances -> {"none", "live", "deleted", "freed"}]
           /\ QueueHoldsDeleted'
<1>1. state' \in [Instances -> {"none", "live", "deleted", "freed"}]
  BY DEF Lifecycle
<1>2. freeme \in Seq(Instances) /\ NoDuplicates(freeme)
  BY DEF Lifecycle, QueueHoldsDeleted
<1>3. \A x : ListFind(gone, x) => x \in Instances BY DEF ListFind
<1>4. \A x : ListFind(gone, x) => ~ ListFind(freeme, x) /\ hand /= x
  BY <1>3 DEF Lifecycle, QueueHoldsDeleted
<1>5. Apart(freeme, gone) BY <1>4 DEF Apart
<1>6. /\ freeme' \in Seq(Instances) /\ NoDuplicates(freeme')
      /\ \A x : ListFind(freeme', x) <=> ListFind(freeme, x) \/ ListFind(gone, x)
  BY <1>2, <1>5, ConcatFacts, ConcatNoDuplicates
<1>7. hand' \in Instances \cup {None} /\ ~ ListFind(freeme', hand')
  BY <1>4, <1>6 DEF Lifecycle, QueueHoldsDeleted
<1>8. ASSUME NEW x \in Instances
      PROVE  state'[x] = "deleted" <=> ListFind(freeme', x) \/ hand' = x
  BY <1>6 DEF Lifecycle, QueueHoldsDeleted
<1>9. hand' = None <=> gpc' /= "free" BY DEF Lifecycle, QueueHoldsDeleted
<1>10. QED BY <1>1, <1>6, <1>7, <1>8, <1>9 DEF QueueHoldsDeleted

LEMMA DeleteKeeps ==
    ASSUME Lifecycle, NEW o \in Objs, Delete(o)
    PROVE  Lifecycle'
<1> DEFINE gone == chain[o] \o <<Base(o)>>
<1>1. /\ state' = [x \in Instances |-> IF x \in Range(gone) THEN "deleted" ELSE state[x]]
      /\ chain' = [chain EXCEPT ![o] = <<>>]
      /\ freeme' = freeme \o gone
      /\ UNCHANGED <<hand, gpc>> /\ state[Base(o)] = "live"
  BY DEF Delete, collector
<1>2. /\ chain[o] \in Seq(Instances) /\ NoDuplicates(chain[o])
      /\ \A x : ListFind(chain[o], x) => x \in Members /\ x[1] = o /\ state[x] = "live"
  BY DEF Lifecycle, ChainsLive
<1>3. /\ gone \in Seq(Instances) /\ NoDuplicates(gone)
      /\ \A x : ListFind(gone, x) <=> ListFind(chain[o], x) \/ x = Base(o)
  <2> DEFINE m == <<Base(o)>>
  <2>1. /\ m \in Seq(Instances) /\ NoDuplicates(m) /\ \A e : ListFind(m, e) <=> e = Base(o)
    BY InstancesFacts, SingleFacts
  <2> HIDE DEF m
  <2>2. Apart(chain[o], m) BY <1>2, <2>1, InstancesFacts DEF Apart
  <2>3. /\ chain[o] \o m \in Seq(Instances) /\ NoDuplicates(chain[o] \o m)
        /\ \A x : ListFind(chain[o] \o m, x) <=> ListFind(chain[o], x) \/ ListFind(m, x)
    BY <1>2, <2>1, <2>2, ConcatFacts, ConcatNoDuplicates
  <2>4. QED BY <2>1, <2>3 DEF m
<1> HIDE DEF gone
<1>4. \A x : ListFind(gone, x) => state[x] = "live" BY <1>1, <1>2, <1>3
<1>5. state' = [x \in Instances |-> IF ListFind(gone, x) THEN "deleted" ELSE state[x]]
  <2>1. \A x \in Instances : x \in Range(gone) <=> ListFind(gone, x)
    BY <1>3, RangeFacts
  <2>2. QED BY <1>1, <2>1
<1>6. /\ state' \in [Instances -> {"none", "live", "deleted", "freed"}]
      /\ QueueHoldsDeleted'
  BY <1>1, <1>3, <1>4, <1>5, DeletedKeeps
<1>7. chain' = [p \in Objs |-> IF p = o THEN <<>> ELSE chain[p]]
  BY <1>1 DEF Lifecycle
<1>8. ASSUME NEW p \in Objs
      PROVE  /\ chain'[p] \in Seq(Instances) /\ NoDuplicates(chain'[p])
             /\ \A x : ListFind(chain'[p], x) => x \in Members /\ x[1] = p /\ state'[x] = "live"
  <2>1. CASE p = o BY <1>7, <2>1, EmptyFacts
  <2>2. CASE p # o
    <3>1. chain'[p] = chain[p] BY <1>7, <2>2
    <3>2. ASSUME NEW x, ListFind(chain[p], x)
          PROVE  x \in Members /\ x[1] = p /\ state'[x] = "live"
      <4>1. x \in Members /\ x[1] = p /\ state[x] = "live"
        BY <3>2 DEF Lifecycle, ChainsLive
      <4>2. x \in Instances /\ x # Base(o) BY <4>1, InstancesFacts
      <4>3. ~ ListFind(gone, x) BY <1>2, <1>3, <2>2, <4>1, <4>2
      <4>4. QED BY <1>5, <4>1, <4>2, <4>3
    <3>3. QED BY <3>1, <3>2 DEF Lifecycle, ChainsLive
  <2>3. QED BY <2>1, <2>2
<1>9. QED BY <1>6, <1>7, <1>8 DEF Lifecycle, ChainsLive

LEMMA InstanceDeleteKeeps ==
    ASSUME Lifecycle, NEW x \in Instances, InstanceDelete(x)
    PROVE  Lifecycle'
<1> DEFINE o == x[1]
           gone == <<x>>
<1>1. /\ state' = [state EXCEPT ![x] = "deleted"] /\ state[x] = "live" /\ x \in Members
      /\ chain' = [chain EXCEPT ![o] = ListRemove(chain[o], x)]
      /\ freeme' = Append(freeme, x)
      /\ UNCHANGED <<hand, gpc>>
  BY DEF InstanceDelete, collector, ListPush
<1>2. o \in Objs BY <1>1, TypesAssumption
<1>3. gone \in Seq(Instances) /\ NoDuplicates(gone) /\ \A y : ListFind(gone, y) <=> y = x
  BY SingleFacts
<1>4. freeme' = freeme \o gone
  BY <1>1, AppendIsConcat DEF Lifecycle, QueueHoldsDeleted
<1> HIDE DEF o, gone
<1>5. state' = [y \in Instances |-> IF ListFind(gone, y) THEN "deleted" ELSE state[y]]
  BY <1>1, <1>3 DEF Lifecycle
<1>6. /\ state' \in [Instances -> {"none", "live", "deleted", "freed"}]
      /\ QueueHoldsDeleted'
  BY <1>1, <1>3, <1>4, <1>5, DeletedKeeps
<1>7. chain' = [p \in Objs |-> IF p = o THEN ListRemove(chain[o], x) ELSE chain[p]]
  BY <1>1, <1>2 DEF Lifecycle
<1>8. ASSUME NEW p \in Objs
      PROVE  /\ chain'[p] \in Seq(Instances) /\ NoDuplicates(chain'[p])
             /\ \A y : ListFind(chain'[p], y) => y \in Members /\ y[1] = p /\ state'[y] = "live"
  <2>1. /\ chain[p] \in Seq(Instances) /\ NoDuplicates(chain[p])
        /\ \A y : ListFind(chain[p], y) => y \in Members /\ y[1] = p /\ state[y] = "live"
    BY DEF Lifecycle, ChainsLive
  <2>2. /\ chain'[p] \in Seq(Instances) /\ NoDuplicates(chain'[p])
        /\ \A y : ListFind(chain'[p], y) => ListFind(chain[p], y) /\ y # x
    <3>1. CASE p = o
      <4>1. chain'[p] = ListRemove(chain[p], x) BY <1>7, <3>1
      <4>2. QED BY <2>1, <4>1, RemoveType, RemoveFind, RemoveNoDuplicates
    <3>2. CASE p # o
      <4>1. chain'[p] = chain[p] BY <1>7, <3>2
      <4>2. x[1] # p BY <3>2 DEF o
      <4>3. QED BY <2>1, <4>1, <4>2
    <3>3. QED BY <3>1, <3>2
  <2>3. \A y \in Instances : y # x => state'[y] = state[y] BY <1>3, <1>5
  <2>4. QED BY <2>1, <2>2, <2>3, InstancesFacts
<1>9. QED BY <1>6, <1>7, <1>8 DEF Lifecycle, ChainsLive

(* The collector takes the first on the queue in hand. *)
LEMMA PopKeeps ==
    ASSUME Lifecycle, Pop
    PROVE  Lifecycle'
<1>0. UNCHANGED <<state, chain>> /\ gpc = "pop" BY DEF Pop, database
<1>1. CASE freeme = <<>>
  <2>1. UNCHANGED <<freeme, hand>> /\ gpc' = "handles" BY <1>1 DEF Pop
  <2>2. QED BY <1>0, <2>1 DEF Lifecycle, ChainsLive, QueueHoldsDeleted
<1>2. CASE freeme /= <<>>
  <2>1. hand' = Head(freeme) /\ freeme' = ListRest(freeme) /\ gpc' = "free"
    BY <1>2 DEF Pop, ListPeek
  <2>2. freeme \in Seq(Instances) /\ NoDuplicates(freeme) /\ hand = None
    BY <1>0 DEF Lifecycle, QueueHoldsDeleted
  <2>3. freeme' \in Seq(Instances) /\ NoDuplicates(freeme') /\ hand' \in Instances
    BY <1>2, <2>1, <2>2, RestFacts, RestNoDuplicates
  <2>4. ~ ListFind(freeme', hand') BY <1>2, <2>1, <2>2, RestNoDuplicates
  <2>5. \A x : ListFind(freeme, x) <=> ListFind(freeme', x) \/ hand' = x
    BY <1>2, <2>1, <2>2, RestFind
  <2>6. ASSUME NEW x \in Instances
        PROVE  state'[x] = "deleted" <=> ListFind(freeme', x) \/ hand' = x
    BY <1>0, <2>2, <2>5, InstancesFacts DEF Lifecycle, QueueHoldsDeleted
  <2>7. hand' /= None BY <2>3, InstancesFacts
  <2>8. QueueHoldsDeleted' BY <2>1, <2>3, <2>4, <2>6, <2>7 DEF QueueHoldsDeleted
  <2>9. QED BY <1>0, <2>8 DEF Lifecycle, ChainsLive
<1>3. QED BY <1>1, <1>2

(* ... and frees it or puts it back. *)
LEMMA ProcessKeeps ==
    ASSUME Lifecycle, Process
    PROVE  Lifecycle'
<1>1. /\ chain' = chain /\ gpc = "free" /\ hand' = None /\ gpc' /= "free"
      /\ hand \in Instances /\ ~ ListFind(freeme, hand)
      /\ freeme \in Seq(Instances) /\ NoDuplicates(freeme)
      /\ \A x \in Instances : state[x] = "deleted" <=> ListFind(freeme, x) \/ hand = x
  BY DEF Process, Lifecycle, QueueHoldsDeleted
<1>2. ~ ListFind(freeme, None) BY <1>1, InstancesFacts DEF ListFind
<1>3. CASE freeme' = ListPush(freeme, hand) /\ UNCHANGED state
  <2>1. /\ freeme' \in Seq(Instances) /\ NoDuplicates(freeme')
        /\ \A x : ListFind(freeme', x) <=> ListFind(freeme, x) \/ x = hand
    BY <1>1, <1>3, PushFacts, PushFind, PushNoDuplicates
  <2>2. ~ ListFind(freeme', None) BY <1>1, <1>2, <2>1, InstancesFacts
  <2>3. QueueHoldsDeleted' BY <1>1, <1>3, <2>1, <2>2, InstancesFacts DEF QueueHoldsDeleted
  <2>4. QED BY <1>1, <1>3, <2>3 DEF Lifecycle, ChainsLive
<1>4. CASE state' = [state EXCEPT ![hand] = "freed"] /\ UNCHANGED freeme
  <2>1. /\ state' \in [Instances -> {"none", "live", "deleted", "freed"}]
        /\ \A x \in Instances : state'[x] = IF x = hand THEN "freed" ELSE state[x]
    BY <1>1, <1>4 DEF Lifecycle
  <2>2. QueueHoldsDeleted'
    BY <1>1, <1>2, <1>4, <2>1, InstancesFacts DEF QueueHoldsDeleted
  <2>3. \A x \in Instances : state[x] = "live" => state'[x] = "live"
    BY <1>1, <2>1
  <2>4. ChainsLive' BY <1>1, <2>3, InstancesFacts DEF Lifecycle, ChainsLive
  <2>5. QED BY <1>1, <2>1, <2>2, <2>4 DEF Lifecycle
<1>5. QED BY <1>3, <1>4 DEF Process

(* Nothing else deletes, links or unlinks an instance. *)
LEMMA OthersKeep ==
    ASSUME Lifecycle, UNCHANGED lifecycle
    PROVE  Lifecycle'
BY DEF Lifecycle, ChainsLive, QueueHoldsDeleted, lifecycle

LEMMA StepsKeep ==
    ASSUME Lifecycle, [Next]_vars
    PROVE  Lifecycle'
<1>1. ASSUME NEW o \in Objs, Create(o) \/ Delete(o) PROVE Lifecycle'
  BY <1>1, CreateKeeps, DeleteKeeps
<1>2. ASSUME NEW x \in Instances, InstanceCreate(x) \/ InstanceDelete(x)
      PROVE  Lifecycle'
  BY <1>2, InstanceCreateKeeps, InstanceDeleteKeeps
<1>3. ASSUME NEW j \in Jobs, NEW x \in Instances, Request(j, x) \/ ActionRun(j, x)
      PROVE  Lifecycle'
  BY <1>3, OthersKeep DEF Request, ActionRun, database, collector, lifecycle
<1>4. ASSUME NEW j \in Jobs, Take(j) \/ End(j) PROVE Lifecycle'
  BY <1>4, OthersKeep DEF Take, End, database, collector, lifecycle
<1>5. ASSUME NEW h \in Handles, NEW o \in Objs, OpenNamed(h, o) PROVE Lifecycle'
  BY <1>5, OthersKeep DEF OpenNamed, Open, database, collector, lifecycle
<1>6. ASSUME NEW h \in Handles, NEW kind, NEW type, OpenAll(h, kind, type)
      PROVE  Lifecycle'
  BY <1>6, OthersKeep DEF OpenAll, Open, database, collector, lifecycle
<1>7. ASSUME NEW h \in Handles, Begin(h) \/ GetPage(h) \/ Age(h) PROVE Lifecycle'
  <2>1. ASSUME NEW kind, Page(h, kind) PROVE Lifecycle'
    BY <2>1, OthersKeep DEF Page, database, collector, lifecycle
  <2>2. GetPage(h) => Lifecycle'
    BY <2>1 DEF GetPage, GetSingleInfo, GetInstanceInfo, GetInfo, GetStrucsInComp,
                GetRuleActionsOrInputs, GetConnectedInstances, GetParentDepend,
                GetChildDepend
  <2>3. Begin(h) \/ Age(h) => UNCHANGED lifecycle
    BY DEF Begin, Age, database, collector, lifecycle
  <2>4. QED BY <1>7, <2>2, <2>3, OthersKeep
<1>8. ASSUME Wake PROVE Lifecycle'
  BY <1>8 DEF Wake, Lifecycle, ChainsLive, QueueHoldsDeleted, database
<1>9. ASSUME HandleFreeGarbage PROVE Lifecycle'
  BY <1>9 DEF HandleFreeGarbage, Lifecycle, ChainsLive, QueueHoldsDeleted, database
<1>10. CASE UNCHANGED vars
  BY <1>10, OthersKeep DEF vars, database, collector, lifecycle
<1>11. QED
  BY <1>1, <1>2, <1>3, <1>4, <1>5, <1>6, <1>7, <1>8, <1>9, <1>10, PopKeeps, ProcessKeeps
     DEF Next, Collecting

(* On a list with nothing twice an element has one place or none. *)
LEMMA PlacesOf ==
    ASSUME NEW S, NEW l \in Seq(S), NoDuplicates(l), NEW e
    PROVE  Cardinality({k \in DOMAIN l : l[k] = e}) = IF ListFind(l, e) THEN 1 ELSE 0
<1>0. DOMAIN l = 1..Len(l) BY LenProperties
<1>1. CASE ListFind(l, e)
  <2>1. PICK p \in 1..Len(l) : l[p] = e BY <1>1 DEF ListFind
  <2>2. {k \in DOMAIN l : l[k] = e} = {p} BY <1>0, <2>1 DEF NoDuplicates
  <2>3. QED BY <1>1, <2>2, FS_Singleton
<1>2. CASE ~ ListFind(l, e)
  <2>1. {k \in DOMAIN l : l[k] = e} = {} BY <1>0, <1>2 DEF ListFind
  <2>2. QED BY <1>2, <2>1, FS_EmptySet
<1>3. QED BY <1>1, <1>2

(* What is deleted is once on the collector's queue or in its hand, and    *)
(* nothing else is, whoever deletes, lists and collects at the same time.  *)
THEOREM FreedButOnce == Spec => []FreedOnce
<1>1. Init => Lifecycle BY LifecycleStarts
<1>2. Lifecycle /\ [Next]_vars => Lifecycle' BY StepsKeep
<1>3. Lifecycle => FreedOnce
  <2> SUFFICES ASSUME Lifecycle, NEW x \in Instances
               PROVE  Cardinality({k \in DOMAIN freeme : freeme[k] = x})
                        + (IF hand = x THEN 1 ELSE 0)
                        = IF state[x] = "deleted" THEN 1 ELSE 0
    BY DEF FreedOnce
  <2>1. Cardinality({k \in DOMAIN freeme : freeme[k] = x})
          = IF ListFind(freeme, x) THEN 1 ELSE 0
    BY PlacesOf DEF Lifecycle, QueueHoldsDeleted
  <2>2. QED BY <2>1 DEF Lifecycle, QueueHoldsDeleted
<1>4. QED BY <1>1, <1>2, <1>3, PTL DEF Spec

-----------------------------------------------------------------------------
(* What is on the lists that a listing goes through *)

Types == {Tests, Actions}

Ordered ==
    /\ order \in [Types -> Seq(Objs)]
    /\ \A type \in Types :
          /\ NoDuplicates(order[type])
          /\ \A o : ListFind(order[type], o) <=> o \in type /\ state[Base(o)] = "live"

Chained == \A x \in Members : state[x] = "live" => ListFind(chain[x[1]], x)

Lists == Lifecycle /\ Ordered /\ Chained

lists == <<lifecycle, order>>

LEMMA TypeFacts ==
    /\ \A o \in Objs : Type(o) \in Types
    /\ \A type \in Types : \A o \in type : o \in Objs /\ type = Type(o)
BY TypesAssumption DEF Types, Type, Objs

LEMMA ListsStart == Init => Lists
<1> SUFFICES ASSUME Init PROVE Lists
  OBVIOUS
<1>1. Lifecycle BY LifecycleStarts
<1>2. \A x \in Instances : state[x] = "live" <=> x \notin Later BY DEF Init
<1>3. ASSUME NEW type \in Types
      PROVE  /\ order[type] \in Seq(Objs) /\ NoDuplicates(order[type])
             /\ \A o : ListFind(order[type], o) <=> o \in type /\ state[Base(o)] = "live"
  <2> DEFINE T == {o \in type : Base(o) \notin Later}
  <2>1. T \in SUBSET Objs BY TypeFacts
  <2>2. IsFiniteSet(T) BY <2>1, FS_Subset, TypesAssumption
  <2>3. order[type] = SetToSeq(T) BY DEF Init, Types
  <2>4. \A o : o \in T <=> o \in type /\ state[Base(o)] = "live"
    BY <1>2, TypeFacts, InstancesFacts
  <2> HIDE DEF T
  <2>5. /\ order[type] \in Seq(T) /\ NoDuplicates(order[type])
        /\ \A o : ListFind(order[type], o) <=> o \in T
    BY <2>2, <2>3, SetToSeqFacts
  <2>6. order[type] \in Seq(Objs) BY <2>1, <2>5
  <2>7. QED BY <2>4, <2>5, <2>6
<1>4. Ordered
  <2>1. order = [type \in Types |-> order[type]] BY DEF Init, Types
  <2>2. QED BY <1>3, <2>1 DEF Ordered
<1>5. ASSUME NEW x \in Members, state[x] = "live"
      PROVE  ListFind(chain[x[1]], x)
  <2> DEFINE o == x[1]
             T == {y \in Members \ Later : y[1] = o}
  <2>1. o \in Objs /\ x \in T BY <1>2, <1>5, InstancesFacts, TypesAssumption
  <2>2. IsFiniteSet(T)
    <3>1. T \in SUBSET Members OBVIOUS
    <3>2. QED BY <3>1, FS_Subset, TypesAssumption
  <2>3. chain[o] = SetToSeq(T) BY <2>1 DEF Init
  <2> HIDE DEF T
  <2>4. QED BY <2>1, <2>2, <2>3, SetToSeqFacts
<1>6. QED BY <1>1, <1>4, <1>5 DEF Lists, Chained

(* An object is linked where it is created. *)
LEMMA CreateKeepsLists ==
    ASSUME Lists, NEW o \in Objs, Create(o)
    PROVE  Lists'
<1>1. /\ state' = [state EXCEPT ![Base(o)] = "live"] /\ state[Base(o)] = "none"
      /\ order' = [order EXCEPT ![Type(o)] = <<o>> \o order[Type(o)]]
      /\ chain' = chain
  BY DEF Create
<1>2. Lifecycle' BY CreateKeeps DEF Lists
<1>3. /\ \A x \in Instances : x # Base(o) => state'[x] = state[x]
      /\ state'[Base(o)] = "live"
  BY <1>1, InstancesFacts DEF Lists, Lifecycle
<1>4. \A p : Base(p) = Base(o) => p = o BY DEF Base
<1>5. ASSUME NEW type \in Types
      PROVE  /\ order'[type] \in Seq(Objs) /\ NoDuplicates(order'[type])
             /\ \A p : ListFind(order'[type], p) <=> p \in type /\ state'[Base(p)] = "live"
  <2>1. /\ order[type] \in Seq(Objs) /\ NoDuplicates(order[type])
        /\ \A p : ListFind(order[type], p) <=> p \in type /\ state[Base(p)] = "live"
    BY DEF Lists, Ordered
  <2>2. CASE type = Type(o)
    <3> DEFINE l == <<o>>
               m == order[type]
    <3>1. order'[type] = l \o m BY <1>1, <2>2 DEF Lists, Ordered
    <3>2. l \in Seq(Objs) /\ NoDuplicates(l) /\ \A p : ListFind(l, p) <=> p = o
      BY SingleFacts
    <3>3. Apart(l, m) BY <1>1, <2>1, <3>2 DEF Apart
    <3>4. m \in Seq(Objs) /\ NoDuplicates(m) BY <2>1
    <3> HIDE DEF l, m
    <3>5. /\ l \o m \in Seq(Objs) /\ NoDuplicates(l \o m)
          /\ \A p : ListFind(l \o m, p) <=> ListFind(l, p) \/ ListFind(m, p)
      BY <3>2, <3>3, <3>4, ConcatFacts, ConcatNoDuplicates
    <3>6. o \in type BY <2>2, TypesAssumption DEF Type, Types, Objs
    <3>7. ASSUME NEW p
          PROVE  ListFind(order'[type], p) <=> p \in type /\ state'[Base(p)] = "live"
      <4>1. ListFind(order'[type], p) <=> p = o \/ (p \in type /\ state[Base(p)] = "live")
        BY <2>1, <3>1, <3>2, <3>5 DEF m
      <4>2. p \in type => Base(p) \in Instances BY InstancesFacts, TypeFacts
      <4>3. QED BY <1>3, <1>4, <3>6, <4>1, <4>2
    <3>8. QED BY <3>1, <3>5, <3>7
  <2>3. CASE type # Type(o)
    <3>1. order'[type] = order[type] BY <1>1, <2>3 DEF Lists, Ordered
    <3>2. \A p \in type : Base(p) \in Instances /\ p # o
      BY <2>3, InstancesFacts, TypeFacts
    <3>3. QED BY <1>3, <1>4, <2>1, <3>1, <3>2
  <2>4. QED BY <2>2, <2>3
<1>6. Ordered'
  <2>1. order' = [type \in Types |-> order'[type]] BY <1>1 DEF Lists, Ordered
  <2>2. QED BY <1>5, <2>1 DEF Ordered
<1>7. Chained' BY <1>1, <1>3, InstancesFacts DEF Lists, Chained
<1>8. QED BY <1>2, <1>6, <1>7 DEF Lists

LEMMA InstanceCreateKeepsLists ==
    ASSUME Lists, NEW x \in Instances, InstanceCreate(x)
    PROVE  Lists'
<1> DEFINE o == x[1]
<1>1. /\ state' = [state EXCEPT ![x] = "live"] /\ x \in Members
      /\ chain' = [chain EXCEPT ![o] = <<x>> \o chain[o]]
      /\ order' = order
  BY DEF InstanceCreate
<1>2. o \in Objs BY <1>1, TypesAssumption
<1> HIDE DEF o
<1>3. Lifecycle' BY InstanceCreateKeeps DEF Lists
<1>4. \A y \in Instances : state'[y] = IF y = x THEN "live" ELSE state[y]
  BY <1>1 DEF Lists, Lifecycle
<1>5. Ordered'
  <2>1. \A type \in Types : \A p \in type : state'[Base(p)] = state[Base(p)]
    BY <1>1, <1>4, InstancesFacts, TypeFacts
  <2>2. QED BY <1>1, <2>1 DEF Lists, Ordered
<1>6. ASSUME NEW y \in Members, state'[y] = "live"
      PROVE  ListFind(chain'[y[1]], y)
  <2>1. y = x \/ ListFind(chain[y[1]], y) BY <1>4, <1>6, InstancesFacts DEF Lists, Chained
  <2>2. CASE y[1] = o
    <3> DEFINE l == <<x>>
               m == chain[o]
    <3>1. chain'[y[1]] = l \o m BY <1>1, <1>2, <2>2 DEF Lists, Lifecycle
    <3>2. l \in Seq(Instances) /\ \A p : ListFind(l, p) <=> p = x BY SingleFacts
    <3>3. m \in Seq(Instances) BY <1>2 DEF Lists, Lifecycle, ChainsLive
    <3>4. ListFind(l, y) \/ ListFind(m, y) BY <2>1, <2>2, <3>2
    <3> HIDE DEF l, m
    <3>5. QED BY <3>1, <3>2, <3>3, <3>4, ConcatFacts
  <2>3. CASE y[1] # o
    <3>1. chain'[y[1]] = chain[y[1]]
      BY <1>1, <2>3, TypesAssumption DEF Lists, Lifecycle
    <3>2. QED BY <2>1, <2>3, <3>1 DEF o
  <2>4. QED BY <2>2, <2>3
<1>7. QED BY <1>3, <1>5, <1>6 DEF Lists, Chained

(* An object is unlinked where it is deleted, with its members. *)
LEMMA DeleteKeepsLists ==
    ASSUME Lists, NEW o \in Objs, Delete(o)
    PROVE  Lists'
<1> DEFINE gone == chain[o] \o <<Base(o)>>
<1>1. /\ state' = [x \in Instances |-> IF x \in Range(gone) THEN "deleted" ELSE state[x]]
      /\ chain' = [chain EXCEPT ![o] = <<>>]
      /\ order' = [order EXCEPT ![Type(o)] = ListRemove(order[Type(o)], o)]
  BY DEF Delete
<1>2. \A x \in Instances :
         x \in Range(gone) <=> ListFind(chain[o], x) \/ x = Base(o)
  <2> DEFINE m == <<Base(o)>>
  <2>1. m \in Seq(Instances) /\ \A e : ListFind(m, e) <=> e = Base(o)
    BY InstancesFacts, SingleFacts
  <2>2. chain[o] \in Seq(Instances) BY DEF Lists, Lifecycle, ChainsLive
  <2> HIDE DEF m
  <2>3. chain[o] \o m \in Seq(Instances) BY <2>1, <2>2, ConcatFacts
  <2>4. \A x \in Instances : x \in Range(chain[o] \o m) <=> ListFind(chain[o] \o m, x)
    BY <2>3, RangeFacts
  <2>5. QED BY <2>1, <2>2, <2>4, ConcatFacts DEF m
<1> HIDE DEF gone
<1>3. Lifecycle' BY DeleteKeeps DEF Lists
<1>4. \A x : ListFind(chain[o], x) => x \in Members /\ x[1] = o
  BY DEF Lists, Lifecycle, ChainsLive
<1>5. \A p \in Objs : state'[Base(p)] = IF p = o THEN "deleted" ELSE state[Base(p)]
  <2>1. \A p : Base(p) = Base(o) => p = o BY DEF Base
  <2>2. \A p \in Objs : ~ ListFind(chain[o], Base(p)) BY <1>4, InstancesFacts
  <2>3. QED BY <1>1, <1>2, <2>1, <2>2, InstancesFacts
<1>6. ASSUME NEW type \in Types
      PROVE  /\ order'[type] \in Seq(Objs) /\ NoDuplicates(order'[type])
             /\ \A p : ListFind(order'[type], p) <=> p \in type /\ state'[Base(p)] = "live"
  <2>1. /\ order[type] \in Seq(Objs) /\ NoDuplicates(order[type])
        /\ \A p : ListFind(order[type], p) <=> p \in type /\ state[Base(p)] = "live"
    BY DEF Lists, Ordered
  <2>2. \A p : ListFind(order[type], p) /\ p # o <=> p \in type /\ state'[Base(p)] = "live"
    BY <1>5, <2>1, TypeFacts
  <2>3. CASE type = Type(o)
    <3>1. order'[type] = ListRemove(order[type], o)
      BY <1>1, <2>3 DEF Lists, Ordered
    <3>2. order'[type] \in Seq(Objs) /\ NoDuplicates(order'[type])
      BY <2>1, <3>1, RemoveType, RemoveNoDuplicates
    <3>3. \A p : ListFind(order'[type], p) <=> ListFind(order[type], p) /\ p # o
      BY <2>1, <3>1, RemoveFind
    <3>4. QED BY <2>2, <3>2, <3>3
  <2>4. CASE type # Type(o)
    <3>1. order'[type] = order[type] BY <1>1, <2>4 DEF Lists, Ordered
    <3>2. \A p \in type : p # o BY <2>4, TypeFacts
    <3>3. QED BY <2>1, <2>2, <3>1, <3>2
  <2>5. QED BY <2>3, <2>4
<1>7. Ordered'
  <2>1. order' = [type \in Types |-> order'[type]] BY <1>1 DEF Lists, Ordered
  <2>2. QED BY <1>6, <2>1 DEF Ordered
<1>8. ASSUME NEW y \in Members, state'[y] = "live"
      PROVE  ListFind(chain'[y[1]], y)
  <2>1. ~ ListFind(chain[o], y) /\ state[y] = "live"
    BY <1>1, <1>2, <1>8, InstancesFacts
  <2>2. ListFind(chain[y[1]], y) BY <2>1 DEF Lists, Chained
  <2>3. y[1] # o BY <2>1, <2>2
  <2>4. chain'[y[1]] = chain[y[1]] BY <1>1, <2>3, TypesAssumption DEF Lists, Lifecycle
  <2>5. QED BY <2>2, <2>4
<1>9. QED BY <1>3, <1>7, <1>8 DEF Lists, Chained

LEMMA InstanceDeleteKeepsLists ==
    ASSUME Lists, NEW x \in Instances, InstanceDelete(x)
    PROVE  Lists'
<1> DEFINE o == x[1]
<1>1. /\ state' = [state EXCEPT ![x] = "deleted"] /\ x \in Members
      /\ chain' = [chain EXCEPT ![o] = ListRemove(chain[o], x)]
      /\ order' = order
  BY DEF InstanceDelete
<1>2. o \in Objs BY <1>1, TypesAssumption
<1> HIDE DEF o
<1>3. Lifecycle' BY InstanceDeleteKeeps DEF Lists
<1>4. \A y \in Instances : state'[y] = IF y = x THEN "deleted" ELSE state[y]
  BY <1>1 DEF Lists, Lifecycle
<1>5. Ordered'
  <2>1. \A type \in Types : \A p \in type : state'[Base(p)] = state[Base(p)]
    BY <1>1, <1>4, InstancesFacts, TypeFacts
  <2>2. QED BY <1>1, <2>1 DEF Lists, Ordered
<1>6. ASSUME NEW y \in Members, state'[y] = "live"
      PROVE  ListFind(chain'[y[1]], y)
  <2>1. y # x /\ ListFind(chain[y[1]], y)
    BY <1>4, <1>6, InstancesFacts DEF Lists, Chained
  <2>2. CASE y[1] = o
    <3>1. chain'[y[1]] = ListRemove(chain[o], x)
      BY <1>1, <1>2, <2>2 DEF Lists, Lifecycle
    <3>2. chain[o] \in Seq(Instances) /\ NoDuplicates(chain[o])
      BY <1>2 DEF Lists, Lifecycle, ChainsLive
    <3>3. QED BY <2>1, <2>2, <3>1, <3>2, RemoveFind
  <2>3. CASE y[1] # o
    <3>1. chain'[y[1]] = chain[y[1]]
      BY <1>1, <2>3, TypesAssumption DEF Lists, Lifecycle
    <3>2. QED BY <2>1, <3>1
  <2>4. QED BY <2>2, <2>3
<1>7. QED BY <1>3, <1>5, <1>6 DEF Lists, Chained

(* Being freed takes nothing off a list. *)
LEMMA ProcessKeepsLists ==
    ASSUME Lists, Process
    PROVE  Lists'
<1>1. Lifecycle' BY ProcessKeeps DEF Lists
<1>2. UNCHANGED <<chain, order>> BY DEF Process
<1>3. \A x \in Instances : state'[x] = "live" <=> state[x] = "live"
  <2>1. hand \in Instances /\ state[hand] = "deleted"
    BY InstancesFacts DEF Process, Lists, Lifecycle, QueueHoldsDeleted
  <2>2. state' = state \/ state' = [state EXCEPT ![hand] = "freed"] BY DEF Process
  <2>3. QED BY <2>1, <2>2 DEF Lists, Lifecycle
<1>4. Ordered'
  <2>1. \A type \in Types : \A p \in type : Base(p) \in Instances
    BY InstancesFacts, TypeFacts
  <2>2. \A type \in Types : \A p :
           ListFind(order[type], p) <=> p \in type /\ state'[Base(p)] = "live"
    BY <1>3, <2>1 DEF Lists, Ordered
  <2>3. QED BY <1>2, <2>2 DEF Lists, Ordered
<1>5. Chained' BY <1>2, <1>3, InstancesFacts DEF Lists, Chained
<1>6. QED BY <1>1, <1>4, <1>5 DEF Lists

LEMMA OthersKeepLists ==
    ASSUME Lists, Lifecycle', UNCHANGED database
    PROVE  Lists'
BY DEF Lists, Ordered, Chained, database

-----------------------------------------------------------------------------
(* What a listing goes through *)

Listing ==
    [kind : Kinds \cup {"none", "done"}, type : SUBSET Objs, cur : Places,
     busy : BOOLEAN, stale : BOOLEAN, owed : SUBSET Instances, shown : SUBSET Instances]

(* The place of a listing is of a kind with what it lists. *)
Stands(hd) ==
    /\ hd.kind \in Kinds /\ hd.cur \in Places
    /\ hd.kind = "single" => hd.cur # None
    /\ hd.kind = "instances" => hd.cur \in Members
    /\ hd.kind \notin {"single", "instances"} =>
         /\ hd.type \in Types
         /\ hd.cur # None => \E o \in hd.type : hd.cur = Base(o)

OfKind(hd, x) ==
    /\ hd.kind = "instances" => x \in Members
    /\ hd.kind \notin {"single", "instances"} => \E o \in hd.type : x = Base(o)

LEMMA ReverseFacts ==
    ASSUME NEW S, NEW l \in Seq(S)
    PROVE  /\ Reverse(l) \in Seq(S)
           /\ NoDuplicates(l) => NoDuplicates(Reverse(l))
           /\ \A e : ListFind(Reverse(l), e) <=> ListFind(l, e)
<1> DEFINE r == Reverse(l)
           n == Len(l)
<1>1. n \in Nat /\ \A k \in 1..n : l[k] \in S /\ n - k + 1 \in 1..n /\ n - (n - k + 1) + 1 = k
  OBVIOUS
<1>2. r = [k \in 1..n |-> l[n - k + 1]] BY DEF Reverse
<1> HIDE DEF r
<1>3. r \in Seq(S) /\ Len(r) = n /\ \A k \in 1..n : r[k] = l[n - k + 1]
  BY <1>1, <1>2
<1>4. ASSUME NoDuplicates(l) PROVE NoDuplicates(r)
  <2> SUFFICES ASSUME NEW i \in 1..n, NEW j \in 1..n, r[i] = r[j] PROVE i = j
    BY <1>3 DEF NoDuplicates
  <2>0. l[n - i + 1] = l[n - j + 1] BY <1>3
  <2>1. n - i + 1 = n - j + 1 BY <1>1, <1>4, <2>0 DEF NoDuplicates
  <2>2. QED BY <1>1, <2>1
<1>5. ASSUME NEW e, ListFind(r, e) PROVE ListFind(l, e)
  BY <1>1, <1>3, <1>5 DEF ListFind
<1>6. ASSUME NEW e, ListFind(l, e) PROVE ListFind(r, e)
  <2>1. PICK k \in 1..n : l[k] = e BY <1>6 DEF ListFind
  <2>2. n - k + 1 \in 1..n /\ r[n - k + 1] = e BY <1>1, <1>3, <2>1
  <2>3. QED BY <1>3, <2>2 DEF ListFind
<1>7. QED BY <1>3, <1>4, <1>5, <1>6 DEF r

LEMMA LinkedFacts ==
    ASSUME Lists, NEW type \in Types
    PROVE  /\ Linked(type) \in Seq(Instances) /\ NoDuplicates(Linked(type))
           /\ \A x : ListFind(Linked(type), x) =>
                        x \in Instances /\ state[x] = "live"
           /\ \A o \in type : ListFind(Linked(type), Base(o)) <=> state[Base(o)] = "live"
           /\ \A x : ListFind(Linked(type), x) => \E o \in type : x = Base(o)
<1> DEFINE l == order[type]
           m == Linked(type)
           n == Len(l)
<1>1. /\ l \in Seq(Objs) /\ NoDuplicates(l)
      /\ \A o : ListFind(l, o) <=> o \in type /\ state[Base(o)] = "live"
  BY DEF Lists, Ordered
<1>2. n \in Nat /\ DOMAIN l = 1..n /\ \A k \in 1..n : l[k] \in Objs BY <1>1
<1>3. m = [k \in 1..n |-> Base(l[k])] BY <1>2 DEF Linked
<1> HIDE DEF m, l
<1>4. \A k \in 1..n : Base(l[k]) \in Instances BY <1>2, InstancesFacts
<1>5. m \in Seq(Instances) /\ Len(m) = n /\ \A k \in 1..n : m[k] = Base(l[k])
  BY <1>2, <1>3, <1>4
<1>6. NoDuplicates(m)
  <2> SUFFICES ASSUME NEW i \in 1..n, NEW j \in 1..n, m[i] = m[j] PROVE i = j
    BY <1>5 DEF NoDuplicates
  <2>1. l[i] = l[j] BY <1>5 DEF Base
  <2>2. QED BY <1>1, <2>1 DEF NoDuplicates
<1>7. ASSUME NEW x, ListFind(m, x)
      PROVE  x \in Instances /\ state[x] = "live" /\ \E o \in type : x = Base(o)
  <2>1. PICK k \in 1..n : m[k] = x BY <1>5, <1>7 DEF ListFind
  <2>2. ListFind(l, l[k]) BY DEF ListFind
  <2>3. QED BY <1>1, <1>4, <1>5, <2>1, <2>2
<1>8. ASSUME NEW o \in type, state[Base(o)] = "live" PROVE ListFind(m, Base(o))
  <2>1. PICK k \in 1..n : l[k] = o BY <1>1, <1>8 DEF ListFind
  <2>2. QED BY <1>5, <2>1 DEF ListFind
<1>9. QED BY <1>5, <1>6, <1>7, <1>8 DEF m

(* A listing goes through live instances, each once, and its own place,    *)
(* if that is live, is one of them.                                        *)
LEMMA LineFacts ==
    ASSUME Lists, NEW hd, Stands(hd)
    PROVE  /\ Line(hd) \in Seq(Instances) /\ NoDuplicates(Line(hd))
           /\ \A x : ListFind(Line(hd), x) => x \in Instances /\ state[x] = "live"
           /\ hd.cur # None /\ ~ Astray(hd) => ListFind(Line(hd), hd.cur)
           /\ \A x : ListFind(Line(hd), x) => OfKind(hd, x)
<1>1. CASE hd.kind = "single"
  <2>0. \A x : OfKind(hd, x) BY <1>1 DEF OfKind
  <2>1. hd.cur \in Instances BY <1>1 DEF Stands, Places
  <2>2. CASE state[hd.cur] = "live"
    <3>1. Line(hd) = <<hd.cur>> BY <1>1, <2>2 DEF Line, Searched
    <3>2. QED BY <2>0, <2>1, <2>2, <3>1, SingleFacts
  <2>3. CASE state[hd.cur] # "live"
    <3>1. Line(hd) = <<>> BY <1>1, <2>3 DEF Line, Searched
    <3>2. Astray(hd) BY <1>1, <2>3 DEF Astray, Stands
    <3>3. QED BY <2>0, <3>1, <3>2, EmptyFacts
  <2>4. QED BY <2>2, <2>3
<1>2. CASE hd.kind = "instances"
  <2>1. hd.cur \in Members /\ hd.cur[1] \in Objs
    BY <1>2, TypesAssumption DEF Stands
  <2>2. Line(hd) = chain[hd.cur[1]] BY <1>2 DEF Line, Searched
  <2>3. ~ Astray(hd) => state[hd.cur] = "live"
    BY <2>1, InstancesFacts DEF Astray
  <2>4. QED
    BY <1>2, <2>1, <2>2, <2>3, InstancesFacts
       DEF Lists, Lifecycle, ChainsLive, Chained, OfKind
<1>3. CASE hd.kind \notin {"single", "instances"}
  <2>1. /\ hd.type \in Types
        /\ hd.cur # None => \E o \in hd.type : hd.cur = Base(o)
    BY <1>3 DEF Stands
  <2>2. Line(hd) = Linked(hd.type) \/ Line(hd) = Reverse(Linked(hd.type))
    BY <1>3 DEF Line
  <2>3. /\ Linked(hd.type) \in Seq(Instances) /\ NoDuplicates(Linked(hd.type))
        /\ \A x : ListFind(Linked(hd.type), x) => x \in Instances /\ state[x] = "live"
        /\ hd.cur # None /\ ~ Astray(hd) => ListFind(Linked(hd.type), hd.cur)
        /\ \A x : ListFind(Linked(hd.type), x) => \E o \in hd.type : x = Base(o)
    BY <2>1, LinkedFacts DEF Astray
  <2>4. QED BY <1>3, <2>2, <2>3, ReverseFacts DEF OfKind
<1>4. QED BY <1>1, <1>2, <1>3

(* The end of a list from place k on *)
LEMMA SuffixFacts ==
    ASSUME NEW S, NEW l \in Seq(S), NoDuplicates(l), NEW k \in 1..Len(l)
    PROVE  LET s == SubSeq(l, k, Len(l))
           IN  /\ s \in Seq(S) /\ NoDuplicates(s)
               /\ Len(s) >= 1 /\ Len(s) = Len(l) - k + 1 /\ s[1] = l[k]
               /\ \A i \in 1..Len(l) - k + 1 : s[i] = l[k + i - 1]
               /\ \A e : ListFind(s, e) => ListFind(l, e)
<1> DEFINE s == SubSeq(l, k, Len(l))
           n == Len(l) - k + 1
<1>1. n \in Nat \ {0} /\ Len(l) \in Nat /\ \A i \in 1..n : k + i - 1 \in 1..Len(l)
  OBVIOUS
<1>2. /\ s \in Seq(S) /\ Len(s) = n /\ \A i \in 1..n : s[i] = l[k + i - 1]
  <2>1. \A i \in k..Len(l) : l[i] \in S OBVIOUS
  <2>2. QED BY <1>1, <2>1, SubSeqProperties
<1> HIDE DEF s
<1>3. NoDuplicates(s)
  <2> SUFFICES ASSUME NEW i \in 1..n, NEW j \in 1..n, s[i] = s[j] PROVE i = j
    BY <1>2 DEF NoDuplicates
  <2>1. k + i - 1 = k + j - 1 BY <1>1, <1>2 DEF NoDuplicates
  <2>2. QED BY <1>1, <2>1
<1>4. \A e : ListFind(s, e) => ListFind(l, e) BY <1>1, <1>2 DEF ListFind
<1>5. s[1] = l[k] BY <1>1, <1>2
<1>6. QED BY <1>1, <1>2, <1>3, <1>4, <1>5 DEF s

LEMMA RestOfLine ==
    ASSUME Lists, NEW hd, Stands(hd)
    PROVE  /\ Rest(hd) \in Seq(Instances) /\ NoDuplicates(Rest(hd))
           /\ hd.cur # None /\ ~ Astray(hd) => Len(Rest(hd)) >= 1 /\ Rest(hd)[1] = hd.cur
           /\ Astray(hd) => \/ hd.kind = "all"
                            \/ hd.kind = "members" /\ Rest(hd) = <<hd.cur>>
                            \/ Rest(hd) = <<>>
           /\ \A x : ListFind(Rest(hd), x) => state[x] = "live" \/ x = hd.cur
           /\ hd.kind = "all" => \A x : ListFind(Rest(hd), x) => state[x] = "live"
           /\ \A x : ListFind(Rest(hd), x) => OfKind(hd, x)
<1> DEFINE l == Line(hd)
           at == CHOOSE k \in DOMAIN l : l[k] = hd.cur
<1>1. /\ l \in Seq(Instances) /\ NoDuplicates(l)
      /\ \A x : ListFind(l, x) => x \in Instances /\ state[x] = "live"
      /\ hd.cur # None /\ ~ Astray(hd) => ListFind(l, hd.cur)
      /\ \A x : ListFind(l, x) => OfKind(hd, x)
  BY LineFacts
<1>2. CASE hd.cur = None
  <2>1. ~ Astray(hd) BY <1>2 DEF Astray
  <2>2. Rest(hd) = l BY <1>2, <2>1 DEF Rest
  <2>3. QED BY <1>1, <1>2, <2>1, <2>2
<1>3. CASE hd.cur # None /\ ~ Astray(hd)
  <2>1. Rest(hd) = SubSeq(l, at, Len(l)) BY <1>3 DEF Rest
  <2>2. at \in 1..Len(l) /\ l[at] = hd.cur
    <3>1. DOMAIN l = 1..Len(l) BY <1>1, LenProperties
    <3>2. \E k \in DOMAIN l : l[k] = hd.cur BY <1>1, <1>3, <3>1 DEF ListFind
    <3>3. QED BY <3>1, <3>2
  <2> HIDE DEF l, at
  <2>3. QED BY <1>1, <1>3, <2>1, <2>2, SuffixFacts
<1>4. CASE Astray(hd)
  <2>1. hd.cur \in Instances BY <1>4 DEF Astray, Stands, Places
  <2>0. OfKind(hd, hd.cur) BY <1>4 DEF Astray, Stands, OfKind
  <2>2. CASE hd.kind = "all"
    <3>1. Rest(hd) = l BY <1>4, <2>2 DEF Rest
    <3>2. QED BY <1>1, <1>4, <2>2, <3>1
  <2>3. CASE hd.kind = "members"
    <3>1. Rest(hd) = <<hd.cur>> BY <1>4, <2>3 DEF Rest
    <3>2. QED BY <1>4, <2>0, <2>1, <2>3, <3>1, SingleFacts
  <2>4. CASE hd.kind \notin {"all", "members"}
    <3>1. Rest(hd) = <<>> BY <1>4, <2>4 DEF Rest
    <3>2. QED BY <1>4, <2>4, <3>1, EmptyFacts
  <2>5. QED BY <2>2, <2>3, <2>4
<1>5. QED BY <1>2, <1>3, <1>4

-----------------------------------------------------------------------------
(* A page, and the place after it *)

PageShown(hd) ==
    Range(IF Len(Rest(hd)) <= Mtu THEN Rest(hd) ELSE SubSeq(Rest(hd), 1, Mtu))
PageNext(hd) == IF Len(Rest(hd)) <= Mtu THEN None ELSE Place(Rest(hd), Mtu)

(* The next place is live, is not on the page and is not the place before. *)
LEMMA PageFacts ==
    ASSUME Lists, NEW hd, Stands(hd)
    PROVE  /\ PageShown(hd) \subseteq Instances
           /\ PageNext(hd) # None =>
                /\ PageNext(hd) \in Instances /\ state[PageNext(hd)] = "live"
                /\ PageNext(hd) \notin PageShown(hd) /\ PageNext(hd) # hd.cur
                /\ OfKind(hd, PageNext(hd))
           /\ hd.cur # None /\ hd.cur \notin PageShown(hd) => Astray(hd)
<1> DEFINE l == Rest(hd)
           n == PageNext(hd)
           s == PageShown(hd)
<1>1. /\ l \in Seq(Instances) /\ NoDuplicates(l)
      /\ hd.cur # None /\ ~ Astray(hd) => Len(l) >= 1 /\ l[1] = hd.cur
      /\ Astray(hd) => hd.kind = "all" \/ (hd.kind = "members" /\ l = <<hd.cur>>) \/ l = <<>>
      /\ \A x : ListFind(l, x) => state[x] = "live" \/ x = hd.cur
      /\ hd.kind = "all" => \A x : ListFind(l, x) => state[x] = "live"
      /\ \A x : ListFind(l, x) => OfKind(hd, x)
  BY RestOfLine
<1>2. Mtu \in Nat \ {0} BY BoundsAssumption
<1>3. Len(l) \in Nat /\ DOMAIN l = 1..Len(l) BY <1>1, LenProperties
<1>4. CASE Len(l) <= Mtu
  <2>1. n = None /\ s = Range(l) BY <1>4 DEF PageShown, PageNext
  <2>2. s \subseteq Instances BY <1>1, <1>3, <2>1 DEF Range
  <2>3. hd.cur # None /\ ~ Astray(hd) => hd.cur \in s
    BY <1>1, <1>3, <2>1 DEF Range
  <2>4. QED BY <2>1, <2>2, <2>3
<1>5. CASE ~ Len(l) <= Mtu
  <2> DEFINE p == SubSeq(l, 1, Mtu)
  <2>1. n = l[Mtu + 1] /\ s = Range(p) BY <1>5 DEF PageShown, PageNext, Place
  <2>2. Mtu + 1 \in 1..Len(l) /\ 1..Mtu \subseteq 1..Len(l) /\ 1 \in 1..Mtu
    BY <1>2, <1>3, <1>5
  <2>3. p \in Seq(Instances) /\ Len(p) = Mtu /\ \A k \in 1..Mtu : p[k] = l[k]
    <3>1. \A k \in 1..Mtu : l[k] \in Instances BY <1>1, <2>2
    <3>2. \A k \in 1..Mtu : 1 + k - 1 = k BY <1>2
    <3>3. 1 \in Int /\ Mtu \in Int /\ 1 <= Mtu /\ Mtu - 1 + 1 = Mtu BY <1>2
    <3>4. QED BY <3>1, <3>2, <3>3, SubSeqProperties
  <2>4. DOMAIN p = 1..Mtu BY <2>3, LenProperties
  <2> HIDE DEF p, l, n, s
  <2>5. \A x : x \in s <=> \E k \in 1..Mtu : l[k] = x BY <2>1, <2>3, <2>4 DEF Range
  <2>6. s \subseteq Instances BY <1>1, <2>2, <2>5
  <2>7. n \in Instances /\ ListFind(l, n) BY <1>1, <2>1, <2>2 DEF ListFind
  <2>8. n \notin s
    <3>1. \A k \in 1..Mtu : k # Mtu + 1 BY <1>2
    <3>2. QED BY <1>1, <2>1, <2>2, <2>5, <3>1 DEF NoDuplicates
  <2>9. hd.cur # None /\ ~ Astray(hd) => hd.cur \in s BY <1>1, <2>2, <2>5
  <2>10. Astray(hd) => hd.kind = "all" /\ state[hd.cur] # "live"
    <3>1. Len(l) # 0 /\ Len(l) # 1 BY <1>2, <1>3, <1>5
    <3>2. l # <<>> /\ \A x : l # <<x>> BY <3>1
    <3>3. QED BY <1>1, <3>2 DEF Astray
  <2>11. state[n] = "live" /\ n # hd.cur
    <3>1. CASE Astray(hd) BY <1>1, <2>7, <2>10, <3>1
    <3>2. CASE ~ Astray(hd)
      <4>1. n # hd.cur
        <5>1. hd.cur = None => n # hd.cur BY <2>7, InstancesFacts
        <5>2. QED BY <2>8, <2>9, <3>2, <5>1
      <4>2. QED BY <1>1, <2>7, <4>1
    <3>3. QED BY <3>1, <3>2
  <2>12. OfKind(hd, n) BY <1>1, <2>7
  <2>13. QED BY <2>6, <2>7, <2>8, <2>9, <2>11, <2>12 DEF l, n, s
<1>6. QED BY <1>4, <1>5

-----------------------------------------------------------------------------
(* Who holds an instance *)

Settled(hd) ==
    \/ hd.kind \in {"none", "done"} /\ hd.cur = None
    \/ Stands(hd)
    \/ hd.kind = "instances" /\ hd.cur = None /\ ~ hd.busy

Uses ==
    /\ Lists
    /\ job \in [Jobs -> [at : {"none", "queued", "running"}, on : Places]]
    /\ handle \in [Handles -> Listing]
    /\ \A h \in Handles : Settled(handle[h])
    /\ inUse \in [Instances -> 0 .. Wrap - 1] /\ off \subseteq Instances
    /\ ReferencesCounted

HoldingJobs(x) == {j \in Jobs : job[j].on = x}
HoldingHandles(x) == {h \in Handles : handle[h].cur = x}

LEMMA HoldersType ==
    /\ Cardinality(Jobs) \in Nat /\ Cardinality(Handles) \in Nat
    /\ \A x : /\ IsFiniteSet(HoldingJobs(x)) /\ IsFiniteSet(HoldingHandles(x))
              /\ Cardinality(HoldingJobs(x)) \in Nat
              /\ Cardinality(HoldingHandles(x)) \in Nat
              /\ Cardinality(HoldingJobs(x)) <= Cardinality(Jobs)
              /\ Cardinality(HoldingHandles(x)) <= Cardinality(Handles)
              /\ Holders(x) = Cardinality(HoldingJobs(x)) + Cardinality(HoldingHandles(x))
<1>1. IsFiniteSet(Jobs) /\ IsFiniteSet(Handles) BY BoundsAssumption
<1>2. ASSUME NEW x
      PROVE  /\ IsFiniteSet(HoldingJobs(x)) /\ IsFiniteSet(HoldingHandles(x))
             /\ Cardinality(HoldingJobs(x)) <= Cardinality(Jobs)
             /\ Cardinality(HoldingHandles(x)) <= Cardinality(Handles)
  <2>1. HoldingJobs(x) \in SUBSET Jobs /\ HoldingHandles(x) \in SUBSET Handles
    BY DEF HoldingJobs, HoldingHandles
  <2>2. QED BY <1>1, <2>1, FS_Subset
<1>3. \A x : Holders(x) = Cardinality(HoldingJobs(x)) + Cardinality(HoldingHandles(x))
  BY DEF Holders, HoldingJobs, HoldingHandles
<1>4. QED BY <1>1, <1>2, <1>3, FS_CardinalityType

(* Two sets that differ in i at most *)
LEMMA OneMoves ==
    ASSUME NEW A, NEW B, NEW i, IsFiniteSet(A), IsFiniteSet(B), A \ {i} = B \ {i}
    PROVE  Cardinality(B) = Cardinality(A) + (IF i \in B THEN 1 ELSE 0)
                                           - (IF i \in A THEN 1 ELSE 0)
<1>1. Cardinality(A) \in Nat /\ Cardinality(B) \in Nat BY FS_CardinalityType
<1>2. /\ Cardinality(A \ {i}) = IF i \in A THEN Cardinality(A) - 1 ELSE Cardinality(A)
      /\ Cardinality(B \ {i}) = IF i \in B THEN Cardinality(B) - 1 ELSE Cardinality(B)
  BY FS_RemoveElement
<1>3. Cardinality(A \ {i}) = Cardinality(B \ {i}) OBVIOUS
<1>4. QED BY <1>1, <1>2, <1>3

LEMMA Nonempty ==
    ASSUME NEW A, NEW i \in A, IsFiniteSet(A)
    PROVE  Cardinality(A) >= 1
<1>1. Cardinality(A) \in Nat /\ Cardinality(A) # 0 BY FS_EmptySet, FS_CardinalityType
<1>2. QED BY <1>1

LEMMA Smaller ==
    ASSUME NEW A, NEW S, IsFiniteSet(S), A \subseteq S, NEW i \in S, i \notin A
    PROVE  Cardinality(A) + 1 <= Cardinality(S)
<1>1. A \in SUBSET (S \ {i}) /\ IsFiniteSet(S \ {i}) BY FS_RemoveElement
<1>2. Cardinality(S \ {i}) = Cardinality(S) - 1 BY FS_RemoveElement
<1>3. Cardinality(A) <= Cardinality(S \ {i}) /\ IsFiniteSet(A) BY <1>1, FS_Subset
<1>4. Cardinality(A) \in Nat /\ Cardinality(S) \in Nat BY <1>3, FS_CardinalityType
<1>5. QED BY <1>2, <1>3, <1>4

(* What it takes to count in step with the holders when one of them lets   *)
(* go of one instance and takes another                                    *)
Moves(from, to) ==
    \A x : /\ Holders(x) \in 0 .. Wrap - 1
           /\ x # from => Holders(x) + 1 < Wrap
           /\ x = from => Holders(x) >= 1
           /\ Holders(x)' = Holders(x) + (IF x = to THEN 1 ELSE 0)
                                       - (IF x = from THEN 1 ELSE 0)

LEMMA JobMoves ==
    ASSUME NEW j \in Jobs,
           \A i \in Jobs : i # j => job'[i].on = job[i].on,
           \A h \in Handles : handle'[h].cur = handle[h].cur
    PROVE  Moves(job[j].on, job'[j].on)
<1> SUFFICES ASSUME NEW x
             PROVE  /\ Holders(x) \in 0 .. Wrap - 1
                    /\ x # job[j].on => Holders(x) + 1 < Wrap
                    /\ x = job[j].on => Holders(x) >= 1
                    /\ Holders(x)' = Holders(x) + (IF x = job'[j].on THEN 1 ELSE 0)
                                                - (IF x = job[j].on THEN 1 ELSE 0)
  BY DEF Moves
<1> DEFINE A == HoldingJobs(x)
           H == HoldingHandles(x)
           B == HoldingJobs(x)'
<1>1. A \ {j} = B \ {j} BY DEF HoldingJobs
<1>2. HoldingHandles(x)' = H BY DEF HoldingHandles
<1>3. /\ j \in A <=> x = job[j].on
      /\ j \in B <=> x = job'[j].on
  BY DEF HoldingJobs
<1>4. A \subseteq Jobs /\ B \subseteq Jobs /\ IsFiniteSet(Jobs)
  BY BoundsAssumption DEF HoldingJobs
<1>5. /\ Cardinality(Jobs) \in Nat /\ Cardinality(Handles) \in Nat
      /\ Cardinality(A) \in Nat /\ Cardinality(H) \in Nat
      /\ Cardinality(A) <= Cardinality(Jobs) /\ Cardinality(H) <= Cardinality(Handles)
      /\ Holders(x) = Cardinality(A) + Cardinality(H)
      /\ IsFiniteSet(A)
  BY HoldersType
<1>6. Holders(x)' = Cardinality(B) + Cardinality(H)
  BY <1>2 DEF Holders, HoldingJobs, HoldingHandles
<1>7. IsFiniteSet(B)
  <2>1. B \in SUBSET Jobs BY <1>4
  <2>2. QED BY <1>4, <2>1, FS_Subset
<1> HIDE DEF A, B, H
<1>8. Cardinality(B) = Cardinality(A) + (IF j \in B THEN 1 ELSE 0) - (IF j \in A THEN 1 ELSE 0)
  BY <1>1, <1>5, <1>7, OneMoves
<1>9. j \in A => Cardinality(A) >= 1 BY <1>5, Nonempty
<1>10. j \notin A => Cardinality(A) + 1 <= Cardinality(Jobs) BY <1>4, Smaller
<1>11. Wrap \in Nat /\ Wrap > Cardinality(Jobs) + Cardinality(Handles)
  BY BoundsAssumption
<1>12. QED BY <1>3, <1>5, <1>6, <1>8, <1>9, <1>10, <1>11

LEMMA HandleMoves ==
    ASSUME NEW h \in Handles,
           \A g \in Handles : g # h => handle'[g].cur = handle[g].cur,
           \A j \in Jobs : job'[j].on = job[j].on
    PROVE  Moves(handle[h].cur, handle'[h].cur)
<1> SUFFICES ASSUME NEW x
             PROVE  /\ Holders(x) \in 0 .. Wrap - 1
                    /\ x # handle[h].cur => Holders(x) + 1 < Wrap
                    /\ x = handle[h].cur => Holders(x) >= 1
                    /\ Holders(x)' = Holders(x) + (IF x = handle'[h].cur THEN 1 ELSE 0)
                                                - (IF x = handle[h].cur THEN 1 ELSE 0)
  BY DEF Moves
<1> DEFINE A == HoldingHandles(x)
           J == HoldingJobs(x)
           B == HoldingHandles(x)'
<1>1. A \ {h} = B \ {h} BY DEF HoldingHandles
<1>2. HoldingJobs(x)' = J BY DEF HoldingJobs
<1>3. /\ h \in A <=> x = handle[h].cur
      /\ h \in B <=> x = handle'[h].cur
  BY DEF HoldingHandles
<1>4. A \subseteq Handles /\ B \subseteq Handles /\ IsFiniteSet(Handles)
  BY BoundsAssumption DEF HoldingHandles
<1>5. /\ Cardinality(Jobs) \in Nat /\ Cardinality(Handles) \in Nat
      /\ Cardinality(A) \in Nat /\ Cardinality(J) \in Nat
      /\ Cardinality(A) <= Cardinality(Handles) /\ Cardinality(J) <= Cardinality(Jobs)
      /\ Holders(x) = Cardinality(J) + Cardinality(A)
      /\ IsFiniteSet(A)
  BY HoldersType
<1>6. Holders(x)' = Cardinality(J) + Cardinality(B)
  BY <1>2 DEF Holders, HoldingJobs, HoldingHandles
<1>7. IsFiniteSet(B)
  <2>1. B \in SUBSET Handles BY <1>4
  <2>2. QED BY <1>4, <2>1, FS_Subset
<1> HIDE DEF A, B, J
<1>8. Cardinality(B) = Cardinality(A) + (IF h \in B THEN 1 ELSE 0) - (IF h \in A THEN 1 ELSE 0)
  BY <1>1, <1>5, <1>7, OneMoves
<1>9. h \in A => Cardinality(A) >= 1 BY <1>5, Nonempty
<1>10. h \notin A => Cardinality(A) + 1 <= Cardinality(Handles) BY <1>4, Smaller
<1>11. Wrap \in Nat /\ Wrap > Cardinality(Jobs) + Cardinality(Handles)
  BY BoundsAssumption
<1>12. QED BY <1>3, <1>5, <1>6, <1>8, <1>9, <1>10, <1>11

LEMMA SameHolders ==
    ASSUME \A j \in Jobs : job'[j].on = job[j].on,
           \A h \in Handles : handle'[h].cur = handle[h].cur
    PROVE  \A x : Holders(x)' = Holders(x)
<1>1. \A x : HoldingJobs(x)' = HoldingJobs(x) /\ HoldingHandles(x)' = HoldingHandles(x)
  BY DEF HoldingJobs, HoldingHandles
<1>2. QED BY <1>1 DEF Holders, HoldingJobs, HoldingHandles

(* The count follows, and what is taken anew is live. *)
LEMMA CountFollows ==
    ASSUME Uses, NEW from, NEW to, Moves(from, to), state' = state,
           to \in Instances => state[to] # "freed" \/ to = from,
           off \subseteq off',
           \A x \in Instances \ off' :
               inUse'[x] = inUse[x] + (IF x = to THEN 1 ELSE 0)
                                    - (IF x = from THEN 1 ELSE 0)
    PROVE  ReferencesCounted'
<1> SUFFICES ASSUME NEW x \in Instances \ off'
             PROVE  inUse'[x] = Holders(x)' /\ (Holders(x)' > 0 => state'[x] # "freed")
  BY DEF ReferencesCounted
<1>1. inUse[x] = Holders(x) /\ (Holders(x) > 0 => state[x] # "freed")
  BY DEF Uses, ReferencesCounted
<1>2. Holders(x) \in 0 .. Wrap - 1 /\ Wrap \in Nat BY BoundsAssumption DEF Moves
<1>3. QED BY <1>1, <1>2 DEF Moves

(* in_use++ and in_use-- on an unsigned integer *)
LEMMA CountOps ==
    ASSUME NEW n \in 0 .. Wrap - 1
    PROVE  /\ Pinned(n) \in 0 .. Wrap - 1 /\ Dropped(n) \in 0 .. Wrap - 1
           /\ Unpinned(n) \in 0 .. Wrap - 1
           /\ n + 1 < Wrap => Pinned(n) = n + 1 /\ Unpinned(Pinned(n)) = n
           /\ n >= 1 => Dropped(n) = n - 1 /\ Unpinned(n) = n - 1
                        /\ Pinned(Dropped(n)) = n
<1>1. Wrap \in Nat \ {0} BY BoundsAssumption
<1>2. \A m \in Int : m % Wrap \in 0 .. Wrap - 1 BY <1>1
<1>3. \A m \in 0 .. Wrap - 1 : m % Wrap = m BY <1>1
<1>4. Pinned(n) \in 0 .. Wrap - 1 /\ Dropped(n) \in 0 .. Wrap - 1
  BY <1>1, <1>2 DEF Pinned, Dropped
<1>5. Unpinned(n) \in 0 .. Wrap - 1 BY <1>1 DEF Unpinned
<1>6. ASSUME n + 1 < Wrap PROVE Pinned(n) = n + 1 /\ Unpinned(Pinned(n)) = n
  <2>1. Pinned(n) = n + 1 BY <1>1, <1>3, <1>6 DEF Pinned
  <2>2. QED BY <1>1, <2>1 DEF Unpinned
<1>7. ASSUME n >= 1
      PROVE  Dropped(n) = n - 1 /\ Unpinned(n) = n - 1 /\ Pinned(Dropped(n)) = n
  <2>1. Dropped(n) = n - 1 BY <1>1, <1>3, <1>7 DEF Dropped
  <2>2. Pinned(n - 1) = n BY <1>1, <1>3, <1>7 DEF Pinned
  <2>3. QED BY <1>1, <1>7, <2>1, <2>2 DEF Unpinned
<1>8. QED BY <1>4, <1>5, <1>6, <1>7

-----------------------------------------------------------------------------
(* Every step keeps the count *)

LEMMA UsesStart == Init => Uses
<1> SUFFICES ASSUME Init PROVE Uses
  OBVIOUS
<1>1. Lists BY ListsStart
<1>2. job \in [Jobs -> [at : {"none", "queued", "running"}, on : Places]]
  BY DEF Init, NoJob, Places
<1>3. handle \in [Handles -> Listing] BY DEF Init, NoHandle, Listing, Places
<1>4. \A h \in Handles : Settled(handle[h]) BY DEF Init, NoHandle, Settled
<1>5. inUse \in [Instances -> 0 .. Wrap - 1] /\ off \subseteq Instances
  BY BoundsAssumption DEF Init
<1>6. ASSUME NEW x \in Instances PROVE Holders(x) = 0 /\ inUse[x] = 0
  <2>1. HoldingJobs(x) = {} /\ HoldingHandles(x) = {}
    BY InstancesFacts DEF Init, NoJob, NoHandle, HoldingJobs, HoldingHandles
  <2>2. Cardinality(HoldingJobs(x)) = 0 /\ Cardinality(HoldingHandles(x)) = 0
    BY <2>1, FS_EmptySet
  <2>3. QED BY <2>2, HoldersType DEF Init
<1>7. ReferencesCounted BY <1>6 DEF ReferencesCounted
<1>8. QED BY <1>1, <1>2, <1>3, <1>4, <1>5, <1>7 DEF Uses

(* A job is taken up, goes on, or is done. *)
LEMMA JobKeeps ==
    ASSUME Uses, NEW j \in Jobs, UNCHANGED <<database, freeme, collector, handle, off>>,
           NEW at \in {"none", "queued", "running"}, NEW to \in Places,
           job' = [job EXCEPT ![j] = [at |-> at, on |-> to]],
           to \in Instances => state[to] # "freed" \/ to = job[j].on,
           inUse' \in [Instances -> 0 .. Wrap - 1],
           ASSUME NEW x \in Instances, inUse[x] \in 0 .. Wrap - 1,
                  x # job[j].on => inUse[x] + 1 < Wrap,
                  x = job[j].on => inUse[x] >= 1
           PROVE  inUse'[x] = inUse[x] + (IF x = to THEN 1 ELSE 0)
                                       - (IF x = job[j].on THEN 1 ELSE 0)
    PROVE  Uses'
<1>1. Lifecycle' BY OthersKeep DEF Uses, Lists, lifecycle, database, collector
<1>2. Lists' BY <1>1, OthersKeepLists DEF Uses
<1>3. /\ job' \in [Jobs -> [at : {"none", "queued", "running"}, on : Places]]
      /\ job'[j].on = to
      /\ \A i \in Jobs : i # j => job'[i].on = job[i].on
  BY DEF Uses
<1>4. handle' = handle /\ off' = off OBVIOUS
<1>5. Moves(job[j].on, to) BY <1>3, <1>4, JobMoves
<1>6. \A x \in Instances \ off : inUse[x] = Holders(x) BY DEF Uses, ReferencesCounted
<1>7. \A x \in Instances \ off' :
         inUse'[x] = inUse[x] + (IF x = to THEN 1 ELSE 0)
                              - (IF x = job[j].on THEN 1 ELSE 0)
  <2> SUFFICES ASSUME NEW x \in Instances \ off
               PROVE  inUse'[x] = inUse[x] + (IF x = to THEN 1 ELSE 0)
                                           - (IF x = job[j].on THEN 1 ELSE 0)
    BY <1>4
  <2>1. /\ inUse[x] \in 0 .. Wrap - 1
        /\ x # job[j].on => inUse[x] + 1 < Wrap
        /\ x = job[j].on => inUse[x] >= 1
    BY <1>5, <1>6 DEF Moves
  <2>2. QED BY <2>1
<1>8. state' = state BY DEF database
<1>9. ReferencesCounted' BY <1>4, <1>5, <1>7, <1>8, CountFollows
<1>10. QED BY <1>2, <1>3, <1>4, <1>9 DEF Uses, Settled, Stands

LEMMA RequestKeeps ==
    ASSUME Uses, NEW j \in Jobs, NEW x \in Instances, Request(j, x) \/ ActionRun(j, x)
    PROVE  Uses'
<1>1. /\ UNCHANGED <<database, freeme, collector, handle, off>>
      /\ inUse' = [inUse EXCEPT ![x] = Pinned(inUse[x])]
      /\ job[j] = NoJob /\ state[x] = "live"
      /\ \E at \in {"queued", "running"} : job' = [job EXCEPT ![j] = [at |-> at, on |-> x]]
  BY DEF Request, ActionRun, Held
<1>2. job[j].on = None /\ x # None BY <1>1, InstancesFacts DEF NoJob
<1>3. \A y \in Instances : inUse'[y] = IF y = x THEN Pinned(inUse[x]) ELSE inUse[y]
  BY <1>1 DEF Uses
<1>4. inUse' \in [Instances -> 0 .. Wrap - 1] BY <1>1, CountOps DEF Uses
<1>5. ASSUME NEW y \in Instances, inUse[y] \in 0 .. Wrap - 1,
             y # job[j].on => inUse[y] + 1 < Wrap
      PROVE  inUse'[y] = inUse[y] + (IF y = x THEN 1 ELSE 0)
                                  - (IF y = job[j].on THEN 1 ELSE 0)
  <2>1. y # None BY InstancesFacts
  <2>2. Pinned(inUse[y]) = inUse[y] + 1 BY <1>2, <1>5, <2>1, CountOps
  <2>3. QED BY <1>2, <1>3, <1>5, <2>1, <2>2
<1>6. x \in Places BY DEF Places
<1>7. PICK at \in {"queued", "running"} : job' = [job EXCEPT ![j] = [at |-> at, on |-> x]]
  BY <1>1
<1>8. state[x] # "freed" /\ at \in {"none", "queued", "running"} BY <1>1
<1>9. UNCHANGED <<database, freeme, collector, handle, off>> BY <1>1
<1>10. QED BY <1>4, <1>5, <1>6, <1>7, <1>8, <1>9, JobKeeps

LEMMA TakeKeeps ==
    ASSUME Uses, NEW j \in Jobs, Take(j) \/ End(j)
    PROVE  Uses'
<1> DEFINE x == job[j].on
<1>1. UNCHANGED <<database, freeme, collector, handle, off>> BY DEF Take, End
<1>2. x \in Places BY DEF Uses
<1>3. None \in Places BY DEF Places
<1>4. CASE inUse' = [inUse EXCEPT ![x] = Dropped(inUse[x])] /\ job' = [job EXCEPT ![j] = NoJob]
  <2>1. job' = [job EXCEPT ![j] = [at |-> "none", on |-> None]] BY <1>4 DEF NoJob
  <2>2. \A y \in Instances : inUse'[y] = IF y = x THEN Dropped(inUse[y]) ELSE inUse[y]
    BY <1>4 DEF Uses
  <2>3. inUse' \in [Instances -> 0 .. Wrap - 1] BY <1>4, <2>2, CountOps DEF Uses
  <2>4. ASSUME NEW y \in Instances, inUse[y] \in 0 .. Wrap - 1,
               y = x => inUse[y] >= 1
        PROVE  inUse'[y] = inUse[y] + (IF y = None THEN 1 ELSE 0) - (IF y = x THEN 1 ELSE 0)
    BY <2>2, <2>4, InstancesFacts, CountOps
  <2> HIDE DEF x
  <2>5. None \notin Instances BY InstancesFacts
  <2>6. QED BY <1>1, <1>3, <2>1, <2>3, <2>4, <2>5, JobKeeps DEF x
<1>5. CASE /\ inUse' = [inUse EXCEPT ![x] = Pinned(Dropped(inUse[x]))]
           /\ job' = [job EXCEPT ![j].at = "running"]
  <2>1. job' = [job EXCEPT ![j] = [at |-> "running", on |-> x]]
    <3>1. job[j] \in [at : {"none", "queued", "running"}, on : Places] BY DEF Uses
    <3>2. [job[j] EXCEPT !.at = "running"] = [at |-> "running", on |-> x] BY <3>1
    <3>3. job' = [job EXCEPT ![j] = [job[j] EXCEPT !.at = "running"]] BY <1>5
    <3>4. QED BY <3>2, <3>3
  <2>2. \A y \in Instances : inUse'[y] = IF y = x THEN Pinned(Dropped(inUse[y])) ELSE inUse[y]
    BY <1>5 DEF Uses
  <2>3. inUse' \in [Instances -> 0 .. Wrap - 1]
    BY <1>5, <2>2, CountOps DEF Uses
  <2>4. ASSUME NEW y \in Instances, inUse[y] \in 0 .. Wrap - 1,
               y = x => inUse[y] >= 1
        PROVE  inUse'[y] = inUse[y] + (IF y = x THEN 1 ELSE 0) - (IF y = x THEN 1 ELSE 0)
    BY <2>2, <2>4, CountOps
  <2>5. QED BY <1>1, <1>2, <2>1, <2>3, <2>4, JobKeeps
<1>6. QED BY <1>4, <1>5 DEF Take, End, Free

(* Neither deletion nor the collector touches who holds what, and the      *)
(* collector frees only what nobody holds.                                 *)
LEMMA DatabaseKeeps ==
    ASSUME Uses, Lists', UNCHANGED <<job, inUse, off>>,
           handle' \in [Handles -> Listing],
           \A h \in Handles : /\ handle'[h].kind = handle[h].kind
                              /\ handle'[h].type = handle[h].type
                              /\ handle'[h].cur = handle[h].cur
                              /\ handle'[h].busy = handle[h].busy,
           \A x \in Instances : state'[x] = "freed" => state[x] = "freed" \/ ~ inUse[x] > 0
    PROVE  Uses'
<1>1. \A x : Holders(x)' = Holders(x) BY SameHolders
<1>2. ASSUME NEW x \in Instances \ off
      PROVE  inUse'[x] = Holders(x)' /\ (Holders(x)' > 0 => state'[x] # "freed")
  BY <1>1 DEF Uses, ReferencesCounted
<1>3. ReferencesCounted' BY <1>2 DEF ReferencesCounted
<1>4. \A h \in Handles : Settled(handle[h])' BY DEF Uses, Settled, Stands
<1>5. QED BY <1>3, <1>4 DEF Uses

LEMMA ForgetKeeps ==
    ASSUME Uses, NEW gone, Forget(gone)
    PROVE  /\ handle' \in [Handles -> Listing]
           /\ \A h \in Handles : /\ handle'[h].kind = handle[h].kind
                                 /\ handle'[h].type = handle[h].type
                                 /\ handle'[h].cur = handle[h].cur
                                 /\ handle'[h].busy = handle[h].busy
<1>1. \A h \in Handles : handle[h] \in Listing BY DEF Uses
<1>2. \A h \in Handles : [handle[h] EXCEPT !.owed = @ \ gone] \in Listing
  BY <1>1 DEF Listing
<1>3. QED BY <1>1, <1>2 DEF Forget, Listing

LEMMA CreateKeepsUses ==
    ASSUME Uses, NEW o \in Objs, Create(o)
    PROVE  Uses'
<1>1. UNCHANGED <<job, inUse, off, handle>> /\ state' = [state EXCEPT ![Base(o)] = "live"]
  BY DEF Create
<1>2. Lists' BY CreateKeepsLists DEF Uses
<1>3. \A x \in Instances : state'[x] = "freed" => state[x] = "freed"
  BY <1>1 DEF Uses, Lists, Lifecycle
<1>4. QED BY <1>1, <1>2, <1>3, DatabaseKeeps DEF Uses

LEMMA InstanceCreateKeepsUses ==
    ASSUME Uses, NEW x \in Instances, InstanceCreate(x)
    PROVE  Uses'
<1>1. UNCHANGED <<job, inUse, off, handle>> /\ state' = [state EXCEPT ![x] = "live"]
  BY DEF InstanceCreate
<1>2. Lists' BY InstanceCreateKeepsLists DEF Uses
<1>3. \A y \in Instances : state'[y] = "freed" => state[y] = "freed"
  BY <1>1 DEF Uses, Lists, Lifecycle
<1>4. QED BY <1>1, <1>2, <1>3, DatabaseKeeps DEF Uses

LEMMA DeleteKeepsUses ==
    ASSUME Uses, NEW o \in Objs, Delete(o)
    PROVE  Uses'
<1> DEFINE gone == chain[o] \o <<Base(o)>>
<1>1. /\ UNCHANGED <<job, inUse, off>> /\ Forget(Range(gone))
      /\ state' = [x \in Instances |-> IF x \in Range(gone) THEN "deleted" ELSE state[x]]
  BY DEF Delete
<1> HIDE DEF gone
<1>2. Lists' BY DeleteKeepsLists DEF Uses
<1>3. \A y \in Instances : state'[y] = "freed" => state[y] = "freed" BY <1>1
<1>4. QED BY <1>1, <1>2, <1>3, ForgetKeeps, DatabaseKeeps

LEMMA InstanceDeleteKeepsUses ==
    ASSUME Uses, NEW x \in Instances, InstanceDelete(x)
    PROVE  Uses'
<1>1. /\ UNCHANGED <<job, inUse, off>> /\ Forget({x})
      /\ state' = [state EXCEPT ![x] = "deleted"]
  BY DEF InstanceDelete
<1>2. Lists' BY InstanceDeleteKeepsLists DEF Uses
<1>3. \A y \in Instances : state'[y] = "freed" => state[y] = "freed"
  BY <1>1 DEF Uses, Lists, Lifecycle
<1>4. QED BY <1>1, <1>2, <1>3, ForgetKeeps, DatabaseKeeps

LEMMA ProcessKeepsUses ==
    ASSUME Uses, Process
    PROVE  Uses'
<1>1. UNCHANGED <<job, inUse, off, handle>> BY DEF Process
<1>2. state' = state \/ (~ inUse[hand] > 0 /\ state' = [state EXCEPT ![hand] = "freed"])
  BY DEF Process
<1>3. Lists' BY ProcessKeepsLists DEF Uses
<1>4. \A x \in Instances : state'[x] = "freed" => state[x] = "freed" \/ ~ inUse[x] > 0
  BY <1>2 DEF Uses, Lists, Lifecycle
<1>5. QED BY <1>1, <1>3, <1>4, DatabaseKeeps DEF Uses

(* A listing is opened, moves on or is over. *)
LEMMA HandleKeeps ==
    ASSUME Uses, NEW h \in Handles, UNCHANGED <<database, freeme, collector, job>>,
           NEW hd \in Listing, Settled(hd), handle' = [handle EXCEPT ![h] = hd],
           hd.cur \in Instances => state[hd.cur] # "freed" \/ hd.cur = handle[h].cur,
           inUse' \in [Instances -> 0 .. Wrap - 1],
           off \subseteq off', off' \subseteq Instances,
           ASSUME NEW x \in Instances \ off', inUse[x] \in 0 .. Wrap - 1,
                  x # handle[h].cur => inUse[x] + 1 < Wrap,
                  x = handle[h].cur => inUse[x] >= 1
           PROVE  inUse'[x] = inUse[x] + (IF x = hd.cur THEN 1 ELSE 0)
                                       - (IF x = handle[h].cur THEN 1 ELSE 0)
    PROVE  Uses'
<1> DEFINE from == handle[h].cur
<1>1. Lifecycle' BY OthersKeep DEF Uses, Lists, lifecycle, database, collector
<1>2. Lists' BY <1>1, OthersKeepLists DEF Uses
<1>3. /\ handle' \in [Handles -> Listing] /\ handle'[h] = hd
      /\ \A g \in Handles : g # h => handle'[g] = handle[g]
  BY DEF Uses
<1>4. job' = job OBVIOUS
<1>5. Moves(from, hd.cur) BY <1>3, <1>4, HandleMoves
<1>6. \A x \in Instances \ off : inUse[x] = Holders(x) BY DEF Uses, ReferencesCounted
<1> HIDE DEF from
<1>7. \A x \in Instances \ off' :
         inUse'[x] = inUse[x] + (IF x = hd.cur THEN 1 ELSE 0) - (IF x = from THEN 1 ELSE 0)
  <2> SUFFICES ASSUME NEW x \in Instances \ off'
               PROVE  inUse'[x] = inUse[x] + (IF x = hd.cur THEN 1 ELSE 0)
                                           - (IF x = from THEN 1 ELSE 0)
    OBVIOUS
  <2>1. /\ inUse[x] \in 0 .. Wrap - 1
        /\ x # from => inUse[x] + 1 < Wrap
        /\ x = from => inUse[x] >= 1
    BY <1>5, <1>6 DEF Moves
  <2>2. QED BY <2>1 DEF from
<1>8. state' = state BY DEF database
<1>9. ReferencesCounted'
  <2>1. hd.cur \in Instances => state[hd.cur] # "freed" \/ hd.cur = from BY DEF from
  <2>2. QED BY <1>5, <1>7, <1>8, <2>1, CountFollows
<1>10. \A g \in Handles : Settled(handle[g])'
  <2>1. \A g \in Handles : Settled(handle'[g]) BY <1>3 DEF Uses
  <2>2. QED BY <2>1 DEF Settled, Stands
<1>11. QED BY <1>2, <1>3, <1>4, <1>9, <1>10 DEF Uses

(* A handle whose first page has not been asked for *)
Opened(kind, type, cur, owed) ==
    [NoHandle EXCEPT !.kind = kind, !.type = type, !.cur = cur, !.owed = owed]

OpenedAs(hd, kind, type, cur) ==
    hd \in Listing /\ hd.kind = kind /\ hd.type = type /\ hd.cur = cur /\ hd.busy = FALSE

LEMMA OpenedFacts ==
    ASSUME NEW kind \in Kinds, NEW type \in SUBSET Objs, NEW cur \in Places,
           NEW owed \in SUBSET Instances
    PROVE  OpenedAs(Opened(kind, type, cur, owed), kind, type, cur)
<1>1. NoHandle \in Listing /\ NoHandle.busy = FALSE BY DEF NoHandle, Listing, Places
<1> HIDE DEF NoHandle
<1>2. QED BY <1>1 DEF Listing, Opened, OpenedAs

LEMMA KindFacts == "none" \notin Kinds /\ "done" \notin Kinds
BY KindsAssumption DEF Checked, Searched

(* A handle that is free holds nothing. *)
LEMMA FreeHandle ==
    ASSUME Uses, NEW h \in Handles, handle[h].kind \in {"none", "done"}
    PROVE  handle[h].cur = None
BY KindFacts DEF Uses, Settled, Stands

LEMMA OpenKeeps ==
    ASSUME Uses, NEW h \in Handles, NEW kind \in Kinds, NEW type \in SUBSET Objs,
           NEW cur \in Places,
           Open(h, kind, [kind |-> kind, type |-> type, cur |-> cur]),
           \/ Stands([kind |-> kind, type |-> type, cur |-> cur])
           \/ kind = "instances" /\ cur = None,
           cur \in Instances => state[cur] = "live",
           inUse' \in [Instances -> 0 .. Wrap - 1],
           off \subseteq off', off' \subseteq Instances,
           \A x \in Instances \ off' :
               inUse[x] \in 0 .. Wrap - 1 /\ inUse[x] + 1 < Wrap
                 => inUse'[x] = inUse[x] + (IF x = cur THEN 1 ELSE 0)
    PROVE  Uses'
<1> DEFINE arg == [kind |-> kind, type |-> type, cur |-> cur]
           owed == IF kind = "instances" /\ cur = None THEN {} ELSE Range(Line(arg))
           hd == Opened(kind, type, cur, owed)
<1>1. /\ handle[h].kind \in {"none", "done"}
      /\ UNCHANGED <<database, freeme, collector, job>>
      /\ handle' = [handle EXCEPT ![h] = hd]
  BY DEF Open, Opened
<1>2. owed \subseteq Instances
  <2>1. CASE kind = "instances" /\ cur = None BY <2>1
  <2>2. CASE ~ (kind = "instances" /\ cur = None)
    <3>1. Stands(arg) BY <2>2
    <3> HIDE DEF arg
    <3>2. Line(arg) \in Seq(Instances) BY <3>1, LineFacts DEF Uses
    <3>3. Range(Line(arg)) \subseteq Instances
      <4>1. DOMAIN Line(arg) = 1..Len(Line(arg)) BY <3>2, LenProperties
      <4>2. QED BY <3>2, <4>1 DEF Range
    <3>4. QED BY <2>2, <3>3
  <2>3. QED BY <2>1, <2>2
<1> HIDE DEF owed
<1>3. OpenedAs(hd, kind, type, cur) BY <1>2, OpenedFacts
<1> HIDE DEF hd
<1>4. hd \in Listing BY <1>3 DEF OpenedAs
<1>5. Settled(hd) BY <1>3 DEF Settled, Stands, OpenedAs
<1>6. handle[h].cur = None /\ hd.cur = cur BY <1>1, <1>3, FreeHandle DEF OpenedAs
<1>7. ASSUME NEW x \in Instances \ off', inUse[x] \in 0 .. Wrap - 1,
             x # handle[h].cur => inUse[x] + 1 < Wrap
      PROVE  inUse'[x] = inUse[x] + (IF x = hd.cur THEN 1 ELSE 0)
                                  - (IF x = handle[h].cur THEN 1 ELSE 0)
  <2>1. x # None BY InstancesFacts
  <2>2. inUse[x] + 1 < Wrap BY <1>6, <1>7, <2>1
  <2>3. inUse'[x] = inUse[x] + (IF x = cur THEN 1 ELSE 0) BY <1>7, <2>2
  <2>4. QED BY <1>6, <1>7, <2>1, <2>3
<1>8. hd.cur \in Instances => state[hd.cur] # "freed" BY <1>6
<1>9. QED BY <1>1, <1>4, <1>5, <1>7, <1>8, HandleKeeps

LEMMA OpenNamedKeeps ==
    ASSUME Uses, NEW h \in Handles, NEW o \in Objs, OpenNamed(h, o)
    PROVE  Uses'
<1> DEFINE b == Base(o)
<1>0. b \in Instances /\ state[b] = "live" /\ {o} \in SUBSET Objs
  BY InstancesFacts DEF OpenNamed
<1>1. inUse \in [Instances -> 0 .. Wrap - 1] /\ off \subseteq Instances BY DEF Uses
<1>2. CASE /\ "single" \in Kinds
           /\ Open(h, "single", [kind |-> "single", type |-> {o}, cur |-> b])
           /\ Held(b) /\ UNCHANGED off
  <2> HIDE DEF b
  <2>1. inUse' = [inUse EXCEPT ![b] = Pinned(inUse[b])] BY <1>2 DEF Held
  <2>2. inUse' \in [Instances -> 0 .. Wrap - 1] BY <1>0, <1>1, <2>1, CountOps
  <2>3. ASSUME NEW x \in Instances, inUse[x] \in 0 .. Wrap - 1, inUse[x] + 1 < Wrap
        PROVE  inUse'[x] = inUse[x] + (IF x = b THEN 1 ELSE 0)
    BY <1>1, <2>1, <2>3, CountOps
  <2>4. Stands([kind |-> "single", type |-> {o}, cur |-> b])
    BY <1>0, <1>2, InstancesFacts DEF Stands, Places
  <2>5. b \in Places BY <1>0 DEF Places
  <2>6. QED BY <1>0, <1>1, <1>2, <2>2, <2>3, <2>4, <2>5, OpenKeeps
<1>3. CASE /\ "instances" \in Kinds /\ chain[o] /= <<>>
           /\ Open(h, "instances",
                   [kind |-> "instances", type |-> {o}, cur |-> Head(chain[o])])
           /\ inUse' = [inUse EXCEPT ![b] = Unpinned(Pinned(@)),
                                     ![Head(chain[o])] = Pinned(@)]
           /\ UNCHANGED off
  <2> DEFINE first == Head(chain[o])
  <2>1. chain[o] \in Seq(Instances) BY DEF Uses, Lists, Lifecycle, ChainsLive
  <2>2. first = chain[o][1] /\ 1 \in 1..Len(chain[o]) BY <1>3, <2>1, RestFacts
  <2>3. first \in Members /\ state[first] = "live"
    BY <2>2 DEF Uses, Lists, Lifecycle, ChainsLive, ListFind
  <2>4. first \in Instances /\ first # b BY <2>3, InstancesFacts
  <2> HIDE DEF b, first
  <2>5. inUse' = [x \in Instances |-> IF x = b THEN Unpinned(Pinned(inUse[x]))
                                      ELSE IF x = first THEN Pinned(inUse[x]) ELSE inUse[x]]
    BY <1>0, <1>1, <1>3, <2>4 DEF first
  <2>6. inUse' \in [Instances -> 0 .. Wrap - 1] BY <1>1, <2>5, CountOps
  <2>7. ASSUME NEW x \in Instances, inUse[x] \in 0 .. Wrap - 1, inUse[x] + 1 < Wrap
        PROVE  inUse'[x] = inUse[x] + (IF x = first THEN 1 ELSE 0)
    BY <2>4, <2>5, <2>7, CountOps
  <2>8. Stands([kind |-> "instances", type |-> {o}, cur |-> first])
    BY <1>3, <2>3, <2>4, InstancesFacts DEF Stands, Places
  <2>9. first \in Places BY <2>4 DEF Places
  <2>10. Open(h, "instances", [kind |-> "instances", type |-> {o}, cur |-> first])
    BY <1>3 DEF first
  <2>11. QED BY <1>0, <1>1, <1>3, <2>3, <2>6, <2>7, <2>8, <2>9, <2>10, OpenKeeps
<1>4. CASE /\ "instances" \in Kinds
           /\ Open(h, "instances", [kind |-> "instances", type |-> {o}, cur |-> None])
           /\ Held(b) /\ off' = off \cup {b}
  <2> HIDE DEF b
  <2>1. inUse' = [inUse EXCEPT ![b] = Pinned(inUse[b])] BY <1>4 DEF Held
  <2>2. inUse' \in [Instances -> 0 .. Wrap - 1] BY <1>0, <1>1, <2>1, CountOps
  <2>3. ASSUME NEW x \in Instances \ off', inUse[x] \in 0 .. Wrap - 1
        PROVE  inUse'[x] = inUse[x] + (IF x = None THEN 1 ELSE 0)
    BY <1>1, <1>4, <2>1, <2>3, InstancesFacts
  <2>4. None \in Places /\ None \notin Instances BY InstancesFacts DEF Places
  <2>5. off' \subseteq Instances BY <1>0, <1>1, <1>4
  <2>6. QED BY <1>0, <1>4, <2>2, <2>3, <2>4, <2>5, OpenKeeps
<1>5. QED BY <1>2, <1>3, <1>4 DEF OpenNamed

LEMMA OpenAllKeeps ==
    ASSUME Uses, NEW h \in Handles, NEW kind \in Kinds \ {"single", "instances"},
           NEW type \in Types, OpenAll(h, kind, type)
    PROVE  Uses'
<1> DEFINE first == IF kind = "all" THEN Head(Linked(type)) ELSE None
<1>1. /\ kind = "all" => Linked(type) /= <<>>
      /\ Open(h, kind, [kind |-> kind, type |-> type, cur |-> first])
      /\ inUse' = IF first = None THEN inUse
                  ELSE [inUse EXCEPT ![first] = Pinned(inUse[first])]
      /\ off' = off
  BY DEF OpenAll
<1>2. inUse \in [Instances -> 0 .. Wrap - 1] /\ off \subseteq Instances BY DEF Uses
<1>3. first # None => /\ first \in Instances /\ state[first] = "live"
                      /\ \E o \in type : first = Base(o)
  <2> SUFFICES ASSUME kind = "all"
               PROVE  /\ first \in Instances /\ state[first] = "live"
                      /\ \E o \in type : first = Base(o)
    OBVIOUS
  <2> DEFINE l == Linked(type)
  <2>1. /\ l \in Seq(Instances)
        /\ \A x : ListFind(l, x) => x \in Instances /\ state[x] = "live"
        /\ \A x : ListFind(l, x) => \E o \in type : x = Base(o)
    BY LinkedFacts DEF Uses
  <2>2. l # <<>> /\ first = Head(l) BY <1>1
  <2> HIDE DEF l, first
  <2>3. ListFind(l, first)
    <3>1. first = l[1] /\ 1 \in 1..Len(l) BY <2>1, <2>2, RestFacts
    <3>2. QED BY <3>1 DEF ListFind
  <2>4. QED BY <2>1, <2>3
<1> HIDE DEF first
<1>4. inUse' \in [Instances -> 0 .. Wrap - 1] BY <1>1, <1>2, <1>3, CountOps
<1>5. ASSUME NEW x \in Instances, inUse[x] \in 0 .. Wrap - 1, inUse[x] + 1 < Wrap
      PROVE  inUse'[x] = inUse[x] + (IF x = first THEN 1 ELSE 0)
  <2>1. x # None BY InstancesFacts
  <2>2. CASE first = None BY <1>1, <1>5, <2>1, <2>2
  <2>3. CASE first # None
    <3>1. inUse' = [inUse EXCEPT ![first] = Pinned(inUse[first])] BY <1>1, <2>3
    <3>2. Pinned(inUse[x]) = inUse[x] + 1 BY <1>5, CountOps
    <3>3. QED BY <1>2, <1>3, <1>5, <2>3, <3>1, <3>2
  <2>4. QED BY <2>2, <2>3
<1>6. first \in Places BY <1>3 DEF Places
<1>7. Stands([kind |-> kind, type |-> type, cur |-> first])
  BY <1>3, <1>6 DEF Stands
<1>8. type \in SUBSET Objs BY TypeFacts
<1>9. QED BY <1>1, <1>2, <1>3, <1>4, <1>5, <1>6, <1>7, <1>8, InstancesFacts, OpenKeeps

LEMMA BeginKeeps ==
    ASSUME Uses, NEW h \in Handles, Begin(h) \/ Age(h)
    PROVE  Uses'
<1> DEFINE was == handle[h]
<1>1. was \in Listing /\ Settled(was) BY DEF Uses
<1>2. UNCHANGED <<database, freeme, collector, job, inUse, off>> BY DEF Begin, Age
<1>3. inUse \in [Instances -> 0 .. Wrap - 1] /\ off \subseteq Instances BY DEF Uses
<1>4. \E hd \in Listing : /\ handle' = [handle EXCEPT ![h] = hd]
                          /\ hd.cur = was.cur /\ Settled(hd)
  <2>1. CASE Begin(h)
    <3> DEFINE hd == [was EXCEPT !.busy = TRUE, !.stale = FALSE]
    <3>1. handle' = [handle EXCEPT ![h] = hd] BY <2>1 DEF Begin, Uses
    <3>2. /\ was.kind \notin {"none", "done"}
          /\ was.kind \in Checked => was.cur /= None
      BY <2>1 DEF Begin
    <3>3. Stands(was) BY <1>1, <3>2 DEF Settled, Checked
    <3> HIDE DEF was
    <3>4. hd \in Listing /\ hd.kind = was.kind /\ hd.type = was.type /\ hd.cur = was.cur
      BY <1>1 DEF Listing
    <3> HIDE DEF hd
    <3>5. Stands(hd) BY <3>3, <3>4 DEF Stands
    <3>6. QED BY <3>1, <3>4, <3>5 DEF Settled
  <2>2. CASE Age(h)
    <3> DEFINE hd == [was EXCEPT !.stale = TRUE]
    <3>1. handle' = [handle EXCEPT ![h] = hd] BY <2>2 DEF Age, Uses
    <3> HIDE DEF was
    <3>2. /\ hd \in Listing /\ hd.kind = was.kind /\ hd.type = was.type
          /\ hd.cur = was.cur /\ hd.busy = was.busy
      BY <1>1 DEF Listing
    <3> HIDE DEF hd
    <3>3. Settled(hd) BY <1>1, <3>2 DEF Settled, Stands
    <3>4. QED BY <3>1, <3>2, <3>3
  <2>3. QED BY <2>1, <2>2
<1>5. PICK hd \in Listing : /\ handle' = [handle EXCEPT ![h] = hd]
                            /\ hd.cur = was.cur /\ Settled(hd)
  BY <1>4
<1>6. ASSUME NEW x \in Instances, inUse[x] \in 0 .. Wrap - 1
      PROVE  inUse'[x] = inUse[x] + (IF x = hd.cur THEN 1 ELSE 0)
                                  - (IF x = handle[h].cur THEN 1 ELSE 0)
  BY <1>2, <1>5, <1>6
<1>7. QED BY <1>2, <1>3, <1>5, <1>6, HandleKeeps

(* What a page makes of in_use, for what it shows, what comes next and the  *)
(* place it leaves                                                         *)
LEMMA PageCounts ==
    ASSUME Uses, NEW h \in Handles, NEW kind, Page(h, kind), Stands(handle[h])
    PROVE  LET hd == handle[h]
               next == PageNext(hd)
           IN  /\ inUse' \in [Instances -> 0 .. Wrap - 1]
               /\ off \subseteq off' /\ off' \subseteq Instances
               /\ \A x \in Instances \ off' :
                     /\ inUse[x] \in 0 .. Wrap - 1
                     /\ x # hd.cur => inUse[x] + 1 < Wrap
                     /\ x = hd.cur => inUse[x] >= 1
                     => inUse'[x] = inUse[x] + (IF x = next THEN 1 ELSE 0)
                                             - (IF x = hd.cur THEN 1 ELSE 0)
<1> DEFINE hd == handle[h]
           next == PageNext(hd)
           shown == PageShown(hd)
<1>1. /\ inUse' = [x \in Instances |->
                     CASE x \in shown -> Left(hd, x)
                       [] x = next -> Pinned(inUse[x])
                       [] x = hd.cur /\ x \notin shown /\ hd.kind \notin Checked ->
                            Unpinned(inUse[x])
                       [] OTHER -> inUse[x]]
      /\ off' = off \cup (IF hd.kind = "children" THEN shown ELSE {})
                    \cup (IF hd.kind \in Checked /\ Astray(hd) THEN {hd.cur} ELSE {})
  BY DEF Page, PageShown, PageNext
<1>2. /\ shown \subseteq Instances
      /\ next # None => next \notin shown /\ next # hd.cur
      /\ hd.cur # None /\ hd.cur \notin shown => Astray(hd)
  BY PageFacts DEF Uses
<1>3. /\ inUse \in [Instances -> 0 .. Wrap - 1] /\ off \subseteq Instances
      /\ None \notin Instances
  BY InstancesFacts DEF Uses
<1>4. Astray(hd) => hd.cur \in Instances BY DEF Astray, Stands, Places
<1> HIDE DEF hd, next, shown
<1>5. ASSUME NEW x \in Instances
      PROVE  /\ x \in shown => inUse'[x] = Left(hd, x)
             /\ x \notin shown /\ x = next => inUse'[x] = Pinned(inUse[x])
             /\ x \notin shown /\ x # next /\ x = hd.cur /\ hd.kind \notin Checked =>
                  inUse'[x] = Unpinned(inUse[x])
             /\ x \notin shown /\ x # next /\ ~ (x = hd.cur /\ hd.kind \notin Checked) =>
                  inUse'[x] = inUse[x]
  <2>1. x = next => x \notin shown /\ x # hd.cur BY <1>2, <1>3
  <2>2. QED BY <1>1, <2>1
<1>6. \A x \in Instances : Left(hd, x) \in 0 .. Wrap - 1
  <2> SUFFICES ASSUME NEW x \in Instances PROVE Left(hd, x) \in 0 .. Wrap - 1
    OBVIOUS
  <2> DEFINE p == IF x = hd.cur THEN inUse[x] ELSE Pinned(inUse[x])
             q == IF hd.kind = "children" THEN Dropped(p) ELSE p
  <2>1. p \in 0 .. Wrap - 1 BY <1>3, CountOps
  <2> HIDE DEF p
  <2>2. q \in 0 .. Wrap - 1 BY <2>1, CountOps
  <2> HIDE DEF q
  <2>3. Unpinned(q) \in 0 .. Wrap - 1 BY <2>2, CountOps
  <2>4. QED BY <2>3 DEF p, q, Left
<1>7. inUse' \in [Instances -> 0 .. Wrap - 1]
  <2>1. \A x \in Instances : inUse'[x] \in 0 .. Wrap - 1
    BY <1>3, <1>5, <1>6, CountOps
  <2>2. inUse' = [x \in Instances |-> inUse'[x]] BY <1>1
  <2>3. QED BY <2>1, <2>2
<1>8. off \subseteq off' /\ off' \subseteq Instances BY <1>1, <1>2, <1>3, <1>4
<1>9. ASSUME NEW x \in Instances \ off',
             inUse[x] \in 0 .. Wrap - 1,
             x # hd.cur => inUse[x] + 1 < Wrap,
             x = hd.cur => inUse[x] >= 1
      PROVE  inUse'[x] = inUse[x] + (IF x = next THEN 1 ELSE 0)
                                  - (IF x = hd.cur THEN 1 ELSE 0)
  <2>1. CASE x \in shown
    <3>1. hd.kind # "children" BY <1>1, <1>9, <2>1
    <3>2. inUse'[x] = Unpinned(IF x = hd.cur THEN inUse[x] ELSE Pinned(inUse[x]))
      BY <1>5, <2>1, <3>1 DEF Left
    <3>3. x # next BY <1>2, <1>3, <2>1
    <3>4. CASE x = hd.cur
      <4>1. inUse'[x] = inUse[x] - 1 BY <1>9, <3>2, <3>4, CountOps
      <4>2. QED BY <1>9, <3>3, <3>4, <4>1
    <3>5. CASE x # hd.cur
      <4>1. inUse'[x] = inUse[x] BY <1>9, <3>2, <3>5, CountOps
      <4>2. QED BY <1>9, <3>3, <3>5, <4>1
    <3>6. QED BY <3>4, <3>5
  <2>2. CASE x \notin shown /\ x = next
    <3>1. x # hd.cur BY <1>2, <1>3, <2>2
    <3>2. inUse'[x] = inUse[x] + 1 BY <1>5, <1>9, <2>2, <3>1, CountOps
    <3>3. QED BY <1>9, <2>2, <3>1, <3>2
  <2>3. CASE x \notin shown /\ x # next /\ x = hd.cur
    <3>1. Astray(hd) BY <1>2, <1>3, <2>3
    <3>2. hd.kind \notin Checked BY <1>1, <1>9, <2>3, <3>1
    <3>3. inUse'[x] = inUse[x] - 1 BY <1>5, <1>9, <2>3, <3>2, CountOps
    <3>4. QED BY <1>9, <2>3, <3>3
  <2>4. CASE x \notin shown /\ x # next /\ x # hd.cur
    <3>1. inUse'[x] = inUse[x] BY <1>5, <2>4
    <3>2. QED BY <1>9, <2>4, <3>1
  <2>5. QED BY <2>1, <2>2, <2>3, <2>4
<1>10. QED BY <1>7, <1>8, <1>9 DEF hd, next

(* What a page leaves of its listing *)
Ended(owed) == [NoHandle EXCEPT !.kind = "done", !.owed = owed]
Advanced(hd, next, owed, shown) ==
    [hd EXCEPT !.busy = FALSE, !.cur = next, !.owed = owed, !.shown = shown]

EndedAs(hd) == hd \in Listing /\ hd.kind = "done" /\ hd.cur = None
AdvancedAs(new, hd, next) ==
    new \in Listing /\ new.kind = hd.kind /\ new.type = hd.type /\ new.cur = next

LEMMA EndedFacts ==
    ASSUME NEW owed \in SUBSET Instances
    PROVE  EndedAs(Ended(owed))
<1>1. NoHandle \in Listing /\ NoHandle.cur = None BY DEF NoHandle, Listing, Places
<1> HIDE DEF NoHandle
<1>2. QED BY <1>1 DEF Listing, Ended, EndedAs

LEMMA AdvancedFacts ==
    ASSUME NEW hd \in Listing, NEW next \in Places,
           NEW owed \in SUBSET Instances, NEW shown \in SUBSET Instances
    PROVE  AdvancedAs(Advanced(hd, next, owed, shown), hd, next)
BY DEF Listing, Advanced, AdvancedAs

LEMMA PageKeeps ==
    ASSUME Uses, NEW h \in Handles, NEW kind \in Checked \cup Searched \cup {"members"},
           Page(h, kind)
    PROVE  Uses'
<1> DEFINE hd == handle[h]
           next == PageNext(hd)
           shown == PageShown(hd)
           left == hd.owed \ shown
           seen == IF Astray(hd) THEN {} ELSE hd.shown \cup shown
           new == IF Len(Rest(hd)) <= Mtu THEN Ended(IF Astray(hd) THEN {} ELSE left)
                  ELSE Advanced(hd, next, left, seen)
<1>1. /\ hd.kind = kind /\ hd.busy
      /\ UNCHANGED <<database, freeme, collector, job>>
      /\ handle' = [handle EXCEPT ![h] = new]
  BY DEF Page, PageShown, PageNext, Ended, Advanced
<1>2. hd \in Listing /\ Settled(hd) BY DEF Uses
<1>3. Stands(hd) BY <1>1, <1>2 DEF Settled, Checked, Searched
<1>4. /\ inUse' \in [Instances -> 0 .. Wrap - 1]
      /\ off \subseteq off' /\ off' \subseteq Instances
      /\ \A x \in Instances \ off' :
            /\ inUse[x] \in 0 .. Wrap - 1
            /\ x # hd.cur => inUse[x] + 1 < Wrap
            /\ x = hd.cur => inUse[x] >= 1
            => inUse'[x] = inUse[x] + (IF x = next THEN 1 ELSE 0)
                                    - (IF x = hd.cur THEN 1 ELSE 0)
  BY <1>3, PageCounts
<1>5. /\ shown \subseteq Instances
      /\ next # None => next \in Instances /\ state[next] = "live" /\ OfKind(hd, next)
      /\ Len(Rest(hd)) <= Mtu => next = None
  BY <1>3, PageFacts DEF Uses, PageNext
<1>6. ~ Len(Rest(hd)) <= Mtu => next # None
  <2> SUFFICES ASSUME ~ Len(Rest(hd)) <= Mtu PROVE next # None
    OBVIOUS
  <2> DEFINE l == Rest(hd)
  <2>1. l \in Seq(Instances) BY <1>3, RestOfLine DEF Uses
  <2>2. next = l[Mtu + 1] BY DEF PageNext, Place
  <2>3. Mtu \in Nat BY BoundsAssumption
  <2> HIDE DEF l
  <2>4. Len(l) \in Nat /\ ~ Len(l) <= Mtu BY <2>1 DEF l
  <2>5. l[Mtu + 1] \in Instances BY <2>1, <2>3, <2>4
  <2>6. QED BY <2>2, <2>5, InstancesFacts
<1>7. hd.owed \subseteq Instances /\ hd.shown \subseteq Instances /\ next \in Places
  BY <1>2, <1>5 DEF Listing, Places
<1>8. left \in SUBSET Instances /\ seen \in SUBSET Instances BY <1>5, <1>7
<1> HIDE DEF left, seen, shown, next, hd
<1>9. new \in Listing /\ Settled(new) /\ new.cur = next
  <2>1. CASE Len(Rest(hd)) <= Mtu
    <3>1. new = Ended(IF Astray(hd) THEN {} ELSE left) BY <2>1
    <3>2. EndedAs(new)
      <4>1. (IF Astray(hd) THEN {} ELSE left) \in SUBSET Instances BY <1>8
      <4>2. QED BY <3>1, <4>1, EndedFacts
    <3> HIDE DEF new
    <3>3. QED BY <1>5, <2>1, <3>2 DEF EndedAs, Settled
  <2>2. CASE ~ Len(Rest(hd)) <= Mtu
    <3>1. new = Advanced(hd, next, left, seen) BY <2>2
    <3>2. AdvancedAs(new, hd, next) BY <1>2, <1>7, <1>8, <3>1, AdvancedFacts
    <3> HIDE DEF new
    <3>3. Stands(new) BY <1>3, <1>5, <1>6, <1>7, <2>2, <3>2 DEF AdvancedAs, Stands, OfKind
    <3>4. QED BY <3>2, <3>3 DEF AdvancedAs, Settled
  <2>3. QED BY <2>1, <2>2
<1> HIDE DEF new
<1>10. new.cur \in Instances => state[new.cur] # "freed"
  BY <1>5, <1>9, InstancesFacts
<1>11. ASSUME NEW x \in Instances \ off', inUse[x] \in 0 .. Wrap - 1,
              x # handle[h].cur => inUse[x] + 1 < Wrap,
              x = handle[h].cur => inUse[x] >= 1
       PROVE  inUse'[x] = inUse[x] + (IF x = new.cur THEN 1 ELSE 0)
                                   - (IF x = handle[h].cur THEN 1 ELSE 0)
  BY <1>4, <1>9, <1>11 DEF hd
<1>12. QED BY <1>1, <1>4, <1>9, <1>10, <1>11, HandleKeeps

(* The collector takes the listings that were left alone. *)
LEMMA HandleFreeGarbageKeeps ==
    ASSUME Uses, HandleFreeGarbage
    PROVE  Uses'
<1> DEFINE old == {h \in Handles : handle[h].stale}
           places == {handle[h].cur : h \in old} \ {None}
           valid == {x \in places : state[x] = "live"}
<1>1. /\ handle' = [h \in Handles |-> IF h \in old THEN NoHandle ELSE handle[h]]
      /\ inUse' = [x \in Instances |-> IF x \in valid THEN 0 ELSE inUse[x]]
      /\ off' = off \cup (places \ {x \in valid : Holders(x) = 1})
      /\ UNCHANGED <<database, job>> /\ UNCHANGED <<state, chain, freeme, hand>>
      /\ gpc = "handles" /\ gpc' = "idle"
  BY DEF HandleFreeGarbage, HandleFree, database
<1>2. Lifecycle' BY <1>1 DEF Uses, Lists, Lifecycle, ChainsLive, QueueHoldsDeleted
<1>3. Lists' BY <1>1, <1>2, OthersKeepLists DEF Uses
<1>4. inUse \in [Instances -> 0 .. Wrap - 1] /\ handle \in [Handles -> Listing]
      /\ off \subseteq Instances
  BY DEF Uses
<1>5. inUse' \in [Instances -> 0 .. Wrap - 1]
  <2>1. 0 \in 0 .. Wrap - 1 BY BoundsAssumption
  <2>2. QED BY <1>1, <1>4, <2>1
<1>6. places \subseteq Instances BY <1>4 DEF Listing, Places
<1>7. NoHandle \in Listing /\ Settled(NoHandle) /\ NoHandle.cur = None
  BY DEF NoHandle, Listing, Settled, Places
<1>8. handle' \in [Handles -> Listing] /\ \A h \in Handles : Settled(handle'[h])
  BY <1>1, <1>4, <1>7 DEF Uses
<1>9. \A h \in Handles : handle'[h].cur = IF h \in old THEN None ELSE handle[h].cur
  BY <1>1, <1>7
<1>10. ASSUME NEW x \in Instances \ off'
       PROVE  inUse'[x] = Holders(x)' /\ (Holders(x)' > 0 => state'[x] # "freed")
  <2>1. x # None /\ inUse[x] = Holders(x) /\ (Holders(x) > 0 => state[x] # "freed")
    BY <1>1, <1>10, InstancesFacts DEF Uses, ReferencesCounted
  <2>2. HoldingJobs(x)' = HoldingJobs(x) BY <1>1 DEF HoldingJobs
  <2>3. HoldingHandles(x)' = {h \in Handles : h \notin old /\ handle[h].cur = x}
    BY <1>9, <2>1 DEF HoldingHandles
  <2>4. Holders(x)' = Cardinality(HoldingJobs(x)') + Cardinality(HoldingHandles(x)')
    BY DEF Holders, HoldingJobs, HoldingHandles
  <2>5. CASE x \in places
    <3>1. x \in valid /\ Holders(x) = 1 BY <1>1, <1>10, <2>5
    <3>2. PICK h \in old : handle[h].cur = x BY <2>5
    <3>3. h \in HoldingHandles(x) BY <3>2 DEF HoldingHandles
    <3> DEFINE J == HoldingJobs(x)
               H == HoldingHandles(x)
    <3>4. /\ IsFiniteSet(J) /\ IsFiniteSet(H)
          /\ Cardinality(J) \in Nat /\ Cardinality(H) \in Nat
          /\ Cardinality(J) + Cardinality(H) = 1
      BY <3>1, HoldersType
    <3> HIDE DEF J, H
    <3>5. Cardinality(H) >= 1 BY <3>3, <3>4, Nonempty DEF H
    <3>6. Cardinality(H) = 1 /\ Cardinality(J) = 0 BY <3>4, <3>5
    <3>7. J = {} /\ \E e : H = {e} BY <3>4, <3>6, FS_EmptySet, FS_Singleton
    <3>8. H = {h} BY <3>3, <3>7 DEF H
    <3>9. HoldingHandles(x)' = {}
      <4>1. \A g \in HoldingHandles(x)' : g \in H /\ g \notin old
        BY <2>3 DEF H, HoldingHandles
      <4>2. QED BY <3>2, <3>8, <4>1
    <3>10. HoldingJobs(x)' = {} BY <2>2, <3>7 DEF J
    <3>11. Holders(x)' = 0 BY <2>4, <3>9, <3>10, FS_EmptySet
    <3>12. inUse'[x] = 0 BY <1>1, <3>1
    <3>13. QED BY <3>11, <3>12
  <2>6. CASE x \notin places
    <3>1. \A h \in old : handle[h].cur # x BY <2>1, <2>6
    <3>2. HoldingHandles(x)' = HoldingHandles(x)
      BY <2>3, <3>1 DEF HoldingHandles
    <3>3. Holders(x)' = Holders(x) BY <2>2, <2>4, <3>2, HoldersType
    <3>4. inUse'[x] = inUse[x] BY <1>1, <2>6
    <3>5. QED BY <1>1, <2>1, <3>3, <3>4
  <2>7. QED BY <2>5, <2>6
<1>11. ReferencesCounted' BY <1>10 DEF ReferencesCounted
<1>12. \A h \in Handles : Settled(handle[h])' BY <1>8 DEF Settled, Stands
<1>13. off' \subseteq Instances BY <1>1, <1>4, <1>6
<1>14. QED BY <1>1, <1>3, <1>5, <1>8, <1>11, <1>12, <1>13 DEF Uses

(* Whatever leaves those who hold and what is there alone *)
LEMMA IdleKeepsUses ==
    ASSUME Uses, Lifecycle', UNCHANGED <<database, job, handle, inUse, off>>
    PROVE  Uses'
<1>1. Lists' BY OthersKeepLists DEF Uses
<1>2. state' = state BY DEF database
<1>3. QED BY <1>1, <1>2, DatabaseKeeps DEF Uses

LEMMA StepsKeepUses ==
    ASSUME Uses, [Next]_vars
    PROVE  Uses'
<1>1. ASSUME NEW o \in Objs, Create(o) \/ Delete(o) PROVE Uses'
  BY <1>1, CreateKeepsUses, DeleteKeepsUses
<1>2. ASSUME NEW x \in Instances, InstanceCreate(x) \/ InstanceDelete(x) PROVE Uses'
  BY <1>2, InstanceCreateKeepsUses, InstanceDeleteKeepsUses
<1>3. ASSUME NEW j \in Jobs, NEW x \in Instances, Request(j, x) \/ ActionRun(j, x)
      PROVE  Uses'
  BY <1>3, RequestKeeps
<1>4. ASSUME NEW j \in Jobs, Take(j) \/ End(j) PROVE Uses'
  BY <1>4, TakeKeeps
<1>5. ASSUME NEW h \in Handles, NEW o \in Objs, OpenNamed(h, o) PROVE Uses'
  BY <1>5, OpenNamedKeeps
<1>6. ASSUME NEW h \in Handles, NEW kind \in Kinds \ {"single", "instances"},
             NEW type \in {Tests, Actions}, OpenAll(h, kind, type)
      PROVE  Uses'
  BY <1>6, OpenAllKeeps DEF Types
<1>7. ASSUME NEW h \in Handles, Begin(h) \/ Age(h) PROVE Uses'
  BY <1>7, BeginKeeps
<1>8. ASSUME NEW h \in Handles, GetPage(h) PROVE Uses'
  <2>1. \E kind \in Checked \cup Searched \cup {"members"} : Page(h, kind)
    BY <1>8 DEF GetPage, GetSingleInfo, GetInstanceInfo, GetInfo, GetStrucsInComp,
                GetRuleActionsOrInputs, GetConnectedInstances, GetParentDepend,
                GetChildDepend, Checked, Searched
  <2>2. QED BY <2>1, PageKeeps
<1>9. ASSUME Wake \/ Pop PROVE Uses'
  <2>1. UNCHANGED <<database, job, handle, inUse, off>> BY <1>9 DEF Wake, Pop
  <2>2. Lifecycle' BY <1>9, StepsKeep DEF Uses, Lists, Next, Collecting
  <2>3. QED BY <2>1, <2>2, IdleKeepsUses
<1>10. CASE UNCHANGED vars
  <2>1. Lifecycle' BY <1>10, StepsKeep DEF Uses, Lists
  <2>2. QED BY <1>10, <2>1, IdleKeepsUses DEF vars
<1>11. QED
  BY <1>1, <1>2, <1>3, <1>4, <1>5, <1>6, <1>7, <1>8, <1>9, <1>10,
     ProcessKeepsUses, HandleFreeGarbageKeeps
     DEF Next, Collecting

(* Through deletions, pages, jobs and passes of the collector, in_use of   *)
(* an instance is the number of those who hold it, but for those whose     *)
(* count a listing has put off, and nothing is freed that is held.         *)
THEOREM CountsHolders == Spec => []ReferencesCounted
<1>1. Init => Uses BY UsesStart
<1>2. Uses /\ [Next]_vars => Uses' BY StepsKeepUses
<1>3. Uses => ReferencesCounted BY DEF Uses
<1>4. QED BY <1>1, <1>2, <1>3, PTL DEF Spec

-----------------------------------------------------------------------------
(* Types: what else there is is a pass of the collector, which has         *)
(* something left to do until it is over, and the bound on calls           *)

Passes ==
    /\ budget \in Nat /\ gpc \in {"idle", "pop", "free", "handles"}
    /\ gpc \in {"pop", "free"} => budget >= 1
    /\ fault \in BOOLEAN /\ calls \in 0 .. MaxCalls

LEMMA CallKeeps ==
    ASSUME Passes, Call, UNCHANGED <<budget, gpc, fault>>
    PROVE  Passes'
<1>1. calls' \in 0 .. MaxCalls BY BoundsAssumption DEF Passes, Call
<1>2. QED BY <1>1 DEF Passes

LEMMA StepsKeepPasses ==
    ASSUME Uses, Passes, [Next]_vars
    PROVE  Passes'
<1>1. ASSUME NEW o \in Objs, Create(o) \/ Delete(o) PROVE Passes'
  BY <1>1, CallKeeps DEF Create, Delete, collector
<1>2. ASSUME NEW x \in Instances, InstanceCreate(x) \/ InstanceDelete(x) PROVE Passes'
  BY <1>2, CallKeeps DEF InstanceCreate, InstanceDelete, collector
<1>3. ASSUME NEW j \in Jobs, NEW x \in Instances, Request(j, x) \/ ActionRun(j, x)
      PROVE  Passes'
  BY <1>3, CallKeeps DEF Request, ActionRun, collector
<1>4. ASSUME NEW j \in Jobs, Take(j) \/ End(j) PROVE Passes'
  <2>1. UNCHANGED <<budget, gpc, calls>> /\ fault' \in BOOLEAN
    BY <1>4 DEF Take, End, collector
  <2>2. QED BY <2>1 DEF Passes
<1>5. ASSUME NEW h \in Handles, NEW kind, NEW hd, Open(h, kind, hd) PROVE Passes'
  BY <1>5, CallKeeps DEF Open, collector
<1>6. ASSUME NEW h \in Handles, NEW o \in Objs, OpenNamed(h, o) PROVE Passes'
  BY <1>5, <1>6 DEF OpenNamed
<1>7. ASSUME NEW h \in Handles, NEW kind, NEW type, OpenAll(h, kind, type) PROVE Passes'
  BY <1>5, <1>7 DEF OpenAll
<1>8. ASSUME NEW h \in Handles, Begin(h) \/ GetPage(h) \/ Age(h) PROVE Passes'
  <2>1. ASSUME NEW kind, Page(h, kind)
        PROVE  UNCHANGED <<budget, gpc, calls>> /\ fault' \in BOOLEAN
    BY <2>1 DEF Page, collector
  <2>2. Begin(h) => UNCHANGED <<budget, gpc, calls>> /\ fault' \in BOOLEAN
    BY DEF Begin, collector
  <2>3. Age(h) => UNCHANGED <<budget, gpc, calls, fault>> BY DEF Age, collector
  <2>4. GetPage(h) => UNCHANGED <<budget, gpc, calls>> /\ fault' \in BOOLEAN
    BY <2>1 DEF GetPage, GetSingleInfo, GetInstanceInfo, GetInfo, GetStrucsInComp,
                GetRuleActionsOrInputs, GetConnectedInstances, GetParentDepend,
                GetChildDepend
  <2>5. QED BY <1>8, <2>2, <2>3, <2>4 DEF Passes
<1>9. ASSUME Wake PROVE Passes'
  <2>1. Len(freeme) \in Nat BY DEF Uses, Lists, Lifecycle, QueueHoldsDeleted
  <2>2. Len(freeme) \div 3 \in Nat BY <2>1
  <2>3. Floor \in Nat \ {0} BY BoundsAssumption
  <2>4. budget' \in Nat /\ budget' >= 1 BY <1>9, <2>2, <2>3 DEF Wake
  <2>5. gpc' = "pop" /\ UNCHANGED <<fault, calls>> BY <1>9 DEF Wake
  <2>6. QED BY <2>4, <2>5 DEF Passes
<1>10. ASSUME Pop PROVE Passes' BY <1>10 DEF Pop, Passes
<1>11. ASSUME Process PROVE Passes'
  <2>1. /\ budget' = budget - 1 /\ gpc = "free"
        /\ gpc' = IF budget = 1 THEN "handles" ELSE "pop"
        /\ UNCHANGED <<fault, calls>>
    BY <1>11 DEF Process
  <2>2. budget \in Nat /\ budget >= 1 BY <2>1 DEF Passes
  <2>3. budget' \in Nat /\ (budget # 1 => budget' >= 1) BY <2>1, <2>2
  <2>4. QED BY <2>1, <2>3 DEF Passes
<1>12. ASSUME HandleFreeGarbage PROVE Passes'
  <2>1. gpc' = "idle" /\ UNCHANGED <<budget, calls>> /\ fault' \in BOOLEAN
    BY <1>12 DEF HandleFreeGarbage
  <2>2. QED BY <2>1 DEF Passes
<1>13. CASE UNCHANGED vars BY <1>13 DEF vars, collector, Passes
<1>14. QED
  BY <1>1, <1>2, <1>3, <1>4, <1>6, <1>7, <1>8, <1>9, <1>10, <1>11, <1>12, <1>13
     DEF Next, Collecting

(* Type correctness: objects, the collector, jobs and listings stay what   *)
(* the type invariant says they are.                                       *)
THEOREM TypeCorrect == Spec => []TypeOK
<1>1. Init => Uses /\ Passes
  <2> SUFFICES ASSUME Init PROVE Passes
    BY UsesStart
  <2>1. budget = 0 /\ gpc = "idle" /\ fault = FALSE /\ calls = 0 BY DEF Init
  <2>2. 0 \in 0 .. MaxCalls BY BoundsAssumption
  <2>3. QED BY <2>1, <2>2 DEF Passes
<1>2. Uses /\ Passes /\ [Next]_vars => Uses' /\ Passes'
  BY StepsKeepUses, StepsKeepPasses
<1>3. Uses /\ Passes => TypeOK
  <2> SUFFICES ASSUME Uses, Passes PROVE TypeOK
    OBVIOUS
  <2>1. state \in [Instances -> {"none", "live", "deleted", "freed"}]
    BY DEF Uses, Lists, Lifecycle
  <2>2. chain \in [Objs -> Seq(Instances)] BY DEF Uses, Lists, Lifecycle, ChainsLive
  <2>3. order \in [{Tests, Actions} -> Seq(Objs)] BY DEF Uses, Lists, Ordered, Types
  <2>4. freeme \in Seq(Instances) /\ hand \in Places
    BY DEF Uses, Lists, Lifecycle, QueueHoldsDeleted, Places
  <2>5. /\ inUse \in [Instances -> 0 .. Wrap - 1] /\ off \subseteq Instances
        /\ job \in [Jobs -> [at : {"none", "queued", "running"}, on : Places]]
        /\ handle \in [Handles -> Listing]
    BY DEF Uses
  <2>6. QED BY <2>1, <2>2, <2>3, <2>4, <2>5 DEF TypeOK, Passes, Listing
<1>4. QED BY <1>1, <1>2, <1>3, PTL DEF Spec

-----------------------------------------------------------------------------
(* Order in the lists *)

(* In a list without duplicates, x is at the place of c or after it *)
Follows(l, c, x) ==
    \E i, j \in 1..Len(l) : i <= j /\ l[i] = c /\ l[j] = x

LEMMA FollowsFirst ==
    ASSUME NEW S, NEW e \in S, NEW l \in Seq(S), NEW c, NEW x, c # e, x # e
    PROVE  Follows(<<e>> \o l, c, x) <=> Follows(l, c, x)
<1> DEFINE m == <<e>> \o l
           n == Len(l)
<1>1. n \in Nat /\ Len(m) = n + 1 /\ m[1] = e /\ \A k \in 1..n : m[k + 1] = l[k]
  <2> DEFINE s == <<e>>
  <2>1. s \in Seq(S) /\ Len(s) = 1 /\ s[1] = e OBVIOUS
  <2> HIDE DEF s
  <2>2. /\ Len(s \o l) = 1 + n /\ n \in Nat
        /\ \A k \in 1..1 + n : (s \o l)[k] = IF k <= 1 THEN s[k] ELSE l[k - 1]
    <3>1. /\ Len(s \o l) = Len(s) + Len(l) /\ Len(l) \in Nat
          /\ \A k \in 1..Len(s) + Len(l) :
                (s \o l)[k] = IF k <= Len(s) THEN s[k] ELSE l[k - Len(s)]
      BY <2>1, ConcatProperties, LenProperties
    <3>2. QED BY <2>1, <3>1
  <2>3. \A k \in 1..n : k + 1 \in 1..1 + n /\ ~ k + 1 <= 1 /\ (k + 1) - 1 = k BY <2>2
  <2>4. QED BY <2>1, <2>2, <2>3 DEF s
<1> HIDE DEF m, n
<1>2. ASSUME Follows(m, c, x) PROVE Follows(l, c, x)
  <2>1. PICK i, j \in 1..n + 1 : i <= j /\ m[i] = c /\ m[j] = x
    BY <1>1, <1>2 DEF Follows
  <2>2. /\ i - 1 \in 1..n /\ j - 1 \in 1..n /\ i - 1 <= j - 1
        /\ (i - 1) + 1 = i /\ (j - 1) + 1 = j
    BY <1>1, <2>1
  <2>3. l[i - 1] = c /\ l[j - 1] = x BY <1>1, <2>1, <2>2
  <2>4. QED BY <2>2, <2>3 DEF Follows, n
<1>3. ASSUME Follows(l, c, x) PROVE Follows(m, c, x)
  <2>1. PICK i, j \in 1..n : i <= j /\ l[i] = c /\ l[j] = x
    BY <1>3 DEF Follows, n
  <2>2. i + 1 \in 1..n + 1 /\ j + 1 \in 1..n + 1 /\ i + 1 <= j + 1
    BY <1>1, <2>1
  <2>3. m[i + 1] = c /\ m[j + 1] = x BY <1>1, <2>1
  <2>4. QED BY <1>1, <2>2, <2>3 DEF Follows
<1>4. QED BY <1>2, <1>3 DEF m

LEMMA FollowsRemove ==
    ASSUME NEW S, NEW l \in Seq(S), NEW d, NoDuplicates(l), NEW c, NEW x, c # d, x # d
    PROVE  Follows(ListRemove(l, d), c, x) <=> Follows(l, c, x)
<1> DEFINE m == ListRemove(l, d)
           n == Len(l)
<1>1. CASE ~ ListFind(l, d) BY <1>1, RemoveFacts
<1>2. CASE ListFind(l, d)
  <2>1. PICK p \in 1..n : l[p] = d BY <1>2 DEF ListFind
  <2>2. /\ n \in Nat \ {0} /\ Len(m) = n - 1
        /\ \A k \in 1..n - 1 : m[k] = IF p <= k THEN l[k + 1] ELSE l[k]
    BY <2>1, RemoveTheOne
  <2> DEFINE up(k) == IF p <= k THEN k + 1 ELSE k
             down(k) == IF p <= k THEN k - 1 ELSE k
  <2>3. \A k \in 1..n - 1 : up(k) \in 1..n /\ m[k] = l[up(k)] BY <2>2
  <2>4. \A i, j \in 1..n - 1 : i <= j => up(i) <= up(j) BY <2>1, <2>2
  <2>5. \A k \in 1..n : k # p => down(k) \in 1..n - 1 /\ up(down(k)) = k BY <2>1, <2>2
  <2>6. \A i, j \in 1..n : i # p /\ j # p /\ i <= j => down(i) <= down(j)
    BY <2>1, <2>2
  <2> HIDE DEF up, down, m, n
  <2>7. ASSUME Follows(m, c, x) PROVE Follows(l, c, x)
    <3>1. PICK i, j \in 1..n - 1 : i <= j /\ m[i] = c /\ m[j] = x
      BY <2>2, <2>7 DEF Follows
    <3>2. /\ up(i) \in 1..n /\ up(j) \in 1..n /\ up(i) <= up(j)
          /\ l[up(i)] = c /\ l[up(j)] = x
      BY <2>3, <2>4, <3>1
    <3>3. QED BY <3>2 DEF Follows, n
  <2>8. ASSUME Follows(l, c, x) PROVE Follows(m, c, x)
    <3>1. PICK i, j \in 1..n : i <= j /\ l[i] = c /\ l[j] = x
      BY <2>8 DEF Follows, n
    <3>2. i # p /\ j # p BY <2>1, <3>1
    <3>3. down(i) \in 1..n - 1 /\ down(j) \in 1..n - 1 /\ down(i) <= down(j)
      BY <2>5, <2>6, <3>1, <3>2
    <3>4. m[down(i)] = c /\ m[down(j)] = x BY <2>3, <2>5, <3>1, <3>2, <3>3
    <3>5. QED BY <2>2, <3>3, <3>4 DEF Follows
  <2>9. QED BY <2>7, <2>8 DEF m
<1>3. QED BY <1>1, <1>2

LEMMA FollowsReverse ==
    ASSUME NEW S, NEW l \in Seq(S), NEW c, NEW x
    PROVE  Follows(Reverse(l), c, x) <=> Follows(l, x, c)
<1> DEFINE r == Reverse(l)
           n == Len(l)
           at(k) == n - k + 1
<1>1. n \in Nat /\ \A k \in 1..n : l[k] \in S /\ at(k) \in 1..n /\ at(at(k)) = k
  OBVIOUS
<1>2. r = [k \in 1..n |-> l[at(k)]] BY DEF Reverse
<1> HIDE DEF r
<1>3. r \in Seq(S) /\ Len(r) = n /\ \A k \in 1..n : r[k] = l[at(k)]
  BY <1>1, <1>2
<1>4. \A i, j \in 1..n : i <= j => at(j) <= at(i) BY <1>1
<1> HIDE DEF n, at
<1>5. ASSUME Follows(r, c, x) PROVE Follows(l, x, c)
  <2>1. PICK i, j \in 1..n : i <= j /\ r[i] = c /\ r[j] = x
    BY <1>3, <1>5 DEF Follows
  <2>2. /\ at(i) \in 1..n /\ at(j) \in 1..n /\ at(j) <= at(i)
        /\ l[at(j)] = x /\ l[at(i)] = c
    BY <1>1, <1>3, <1>4, <2>1
  <2>3. QED BY <2>2 DEF Follows, n
<1>6. ASSUME Follows(l, x, c) PROVE Follows(r, c, x)
  <2>1. PICK i, j \in 1..n : i <= j /\ l[i] = x /\ l[j] = c
    BY <1>6 DEF Follows, n
  <2>2. /\ at(i) \in 1..n /\ at(j) \in 1..n /\ at(j) <= at(i)
        /\ r[at(j)] = c /\ r[at(i)] = x
    BY <1>1, <1>3, <1>4, <2>1
  <2>3. QED BY <1>3, <2>2 DEF Follows
<1>7. QED BY <1>5, <1>6 DEF r

BasesOf(l) == [k \in DOMAIN l |-> Base(l[k])]

LEMMA FollowsBases ==
    ASSUME NEW S, NEW l \in Seq(S)
    PROVE  /\ BasesOf(l) \in Seq(S \X {0})
           /\ \A o, p : Follows(BasesOf(l), Base(o), Base(p)) <=> Follows(l, o, p)
           /\ \A c, x : Follows(BasesOf(l), c, x) =>
                           \E o, p \in S : c = Base(o) /\ x = Base(p) /\ ListFind(l, p)
<1> DEFINE n == Len(l)
           m == BasesOf(l)
<1>1. n \in Nat /\ DOMAIN l = 1..n /\ \A k \in 1..n : l[k] \in S OBVIOUS
<1>2. m = [k \in 1..n |-> Base(l[k])] BY <1>1 DEF BasesOf
<1>3. m \in Seq(S \X {0}) /\ Len(m) = n /\ \A k \in 1..n : m[k] = Base(l[k])
  BY <1>1, <1>2 DEF Base
<1> HIDE DEF m
<1>4. \A o, p : Base(o) = Base(p) <=> o = p BY DEF Base
<1>5. \A o, p : Follows(m, Base(o), Base(p)) <=> Follows(l, o, p)
  BY <1>1, <1>3, <1>4 DEF Follows
<1>6. ASSUME NEW c, NEW x, Follows(m, c, x)
      PROVE  \E o, p \in S : c = Base(o) /\ x = Base(p) /\ ListFind(l, p)
  <2>1. PICK i, j \in 1..n : i <= j /\ m[i] = c /\ m[j] = x BY <1>3, <1>6 DEF Follows
  <2>2. l[i] \in S /\ l[j] \in S /\ ListFind(l, l[j]) BY <1>1 DEF ListFind
  <2>3. QED BY <1>3, <2>1, <2>2
<1>7. QED BY <1>3, <1>5, <1>6 DEF m

LEMMA SingleFollows ==
    ASSUME NEW d
    PROVE  \A c, x : Follows(<<d>>, c, x) <=> c = d /\ x = d
<1>1. Len(<<d>>) = 1 /\ <<d>>[1] = d /\ 1..1 = {1} OBVIOUS
<1>2. QED BY <1>1 DEF Follows
-----------------------------------------------------------------------------
(* What the database does to the lists when gone is deleted and new made *)

Changes(gone, new) ==
    /\ \A x \in Instances :
          /\ x \in gone => state'[x] # "live"
          /\ x \in new => state[x] = "none"
          /\ x \notin gone \cup new => (state'[x] = "live" <=> state[x] = "live")
          /\ state'[x] = "none" => state[x] = "none"
    /\ \A o \in Objs : \A c, x \in Instances \ (gone \cup new) :
          Follows(chain'[o], c, x) <=> Follows(chain[o], c, x)
    /\ \A type \in Types : \A o, p \in Objs :
          {Base(o), Base(p)} \cap (gone \cup new) = {} =>
             (Follows(order'[type], o, p) <=> Follows(order[type], o, p))

LEMMA CreateChanges ==
    ASSUME Lists, NEW o \in Objs, Create(o)
    PROVE  Changes({}, {Base(o)})
<1>1. /\ state' = [state EXCEPT ![Base(o)] = "live"] /\ state[Base(o)] = "none"
      /\ order' = [order EXCEPT ![Type(o)] = <<o>> \o order[Type(o)]]
      /\ chain' = chain
  BY DEF Create
<1>2. /\ \A x \in Instances : x # Base(o) => state'[x] = state[x]
      /\ state'[Base(o)] = "live"
  BY <1>1, InstancesFacts DEF Lists, Lifecycle
<1>3. ASSUME NEW type \in Types, NEW p \in Objs, NEW q \in Objs, p # o, q # o
      PROVE  Follows(order'[type], p, q) <=> Follows(order[type], p, q)
  <2>1. order[type] \in Seq(Objs) BY DEF Lists, Ordered
  <2>2. order'[type] = order[type] \/ order'[type] = <<o>> \o order[type]
    BY <1>1 DEF Lists, Ordered
  <2>3. Follows(<<o>> \o order[type], p, q) <=> Follows(order[type], p, q)
    BY <1>3, <2>1, FollowsFirst
  <2>4. QED BY <2>2, <2>3
<1>4. QED BY <1>1, <1>2, <1>3 DEF Changes

LEMMA InstanceCreateChanges ==
    ASSUME Lists, NEW x \in Instances, InstanceCreate(x)
    PROVE  Changes({}, {x})
<1>1. /\ state' = [state EXCEPT ![x] = "live"] /\ state[x] = "none" /\ x \in Members
      /\ chain' = [chain EXCEPT ![x[1]] = <<x>> \o chain[x[1]]]
      /\ order' = order
  BY DEF InstanceCreate
<1>2. \A y \in Instances : state'[y] = IF y = x THEN "live" ELSE state[y]
  BY <1>1 DEF Lists, Lifecycle
<1>3. ASSUME NEW o \in Objs, NEW c \in Instances \ {x}, NEW y \in Instances \ {x}
      PROVE  Follows(chain'[o], c, y) <=> Follows(chain[o], c, y)
  <2>1. chain[o] \in Seq(Instances) BY DEF Lists, Lifecycle, ChainsLive
  <2>2. chain'[o] = chain[o] \/ chain'[o] = <<x>> \o chain[o]
    BY <1>1 DEF Lists, Lifecycle
  <2>3. Follows(<<x>> \o chain[o], c, y) <=> Follows(chain[o], c, y)
    BY <1>3, <2>1, FollowsFirst
  <2>4. QED BY <2>2, <2>3
<1>4. QED BY <1>1, <1>2, <1>3 DEF Changes

LEMMA DeleteChanges ==
    ASSUME Lists, NEW o \in Objs, Delete(o)
    PROVE  Changes(Range(chain[o] \o <<Base(o)>>), {})
<1> DEFINE gone == Range(chain[o] \o <<Base(o)>>)
<1>1. /\ state' = [x \in Instances |-> IF x \in gone THEN "deleted" ELSE state[x]]
      /\ chain' = [chain EXCEPT ![o] = <<>>]
      /\ order' = [order EXCEPT ![Type(o)] = ListRemove(order[Type(o)], o)]
  BY DEF Delete
<1>2. \A x \in Instances : x \in gone <=> ListFind(chain[o], x) \/ x = Base(o)
  <2> DEFINE m == <<Base(o)>>
  <2>1. m \in Seq(Instances) /\ \A e : ListFind(m, e) <=> e = Base(o)
    BY InstancesFacts, SingleFacts
  <2>2. chain[o] \in Seq(Instances) BY DEF Lists, Lifecycle, ChainsLive
  <2> HIDE DEF m
  <2>3. chain[o] \o m \in Seq(Instances) BY <2>1, <2>2, ConcatFacts
  <2>4. \A x \in Instances : x \in Range(chain[o] \o m) <=> ListFind(chain[o] \o m, x)
    BY <2>3, RangeFacts
  <2>5. QED BY <2>1, <2>2, <2>4, ConcatFacts DEF m
<1> HIDE DEF gone
<1>3. ASSUME NEW p \in Objs, NEW c \in Instances \ gone, NEW x \in Instances \ gone
      PROVE  Follows(chain'[p], c, x) <=> Follows(chain[p], c, x)
  <2>1. CASE p = o
    <3>1. ~ ListFind(chain[o], c) BY <1>2
    <3>2. ~ Follows(chain[o], c, x) BY <3>1 DEF Follows, ListFind
    <3>3. chain'[p] = <<>> BY <1>1, <2>1 DEF Lists, Lifecycle
    <3>4. ~ Follows(<<>>, c, x) BY DEF Follows
    <3>5. QED BY <2>1, <3>2, <3>3, <3>4
  <2>2. CASE p # o
    BY <1>1, <2>2 DEF Lists, Lifecycle
  <2>3. QED BY <2>1, <2>2
<1>4. ASSUME NEW type \in Types, NEW p \in Objs, NEW q \in Objs, p # o, q # o
      PROVE  Follows(order'[type], p, q) <=> Follows(order[type], p, q)
  <2>1. order[type] \in Seq(Objs) /\ NoDuplicates(order[type]) BY DEF Lists, Ordered
  <2>2. order'[type] = order[type] \/ order'[type] = ListRemove(order[type], o)
    BY <1>1 DEF Lists, Ordered
  <2>3. QED BY <1>4, <2>1, <2>2, FollowsRemove
<1>5. Base(o) \in gone BY <1>2, InstancesFacts
<1>6. Changes(gone, {})
  <2>1. \A p, q \in Objs : {Base(p), Base(q)} \cap gone = {} => p # o /\ q # o
    BY <1>5
  <2>2. QED BY <1>1, <1>3, <1>4, <2>1 DEF Changes
<1>7. QED BY <1>6 DEF gone

LEMMA InstanceDeleteChanges ==
    ASSUME Lists, NEW x \in Instances, InstanceDelete(x)
    PROVE  Changes({x}, {})
<1>1. /\ state' = [state EXCEPT ![x] = "deleted"]
      /\ chain' = [chain EXCEPT ![x[1]] = ListRemove(chain[x[1]], x)]
      /\ order' = order
  BY DEF InstanceDelete
<1>2. \A y \in Instances : state'[y] = IF y = x THEN "deleted" ELSE state[y]
  BY <1>1 DEF Lists, Lifecycle
<1>3. ASSUME NEW o \in Objs, NEW c \in Instances \ {x}, NEW y \in Instances \ {x}
      PROVE  Follows(chain'[o], c, y) <=> Follows(chain[o], c, y)
  <2>1. chain[o] \in Seq(Instances) /\ NoDuplicates(chain[o])
    BY DEF Lists, Lifecycle, ChainsLive
  <2>2. chain'[o] = chain[o] \/ chain'[o] = ListRemove(chain[o], x)
    BY <1>1 DEF Lists, Lifecycle
  <2>3. QED BY <1>3, <2>1, <2>2, FollowsRemove
<1>4. QED BY <1>1, <1>2, <1>3 DEF Changes

LEMMA ProcessChanges ==
    ASSUME Lists, Process
    PROVE  Changes({}, {})
<1>1. /\ state' = state \/ state' = [state EXCEPT ![hand] = "freed"]
      /\ chain' = chain /\ order' = order /\ gpc = "free"
  BY DEF Process
<1>2. hand \in Instances /\ state[hand] = "deleted"
  BY <1>1 DEF Lists, Lifecycle, QueueHoldsDeleted
<1>3. \A y \in Instances : state'[y] = state[y] \/ (y = hand /\ state'[y] = "freed")
  BY <1>1, <1>2 DEF Lists, Lifecycle
<1>4. QED BY <1>1, <1>2, <1>3 DEF Changes

LEMMA SameChanges ==
    ASSUME UNCHANGED database
    PROVE  Changes({}, {})
BY DEF Changes, database
-----------------------------------------------------------------------------
(* What a listing has to show, and has shown *)

(* x is one of those the listing is for *)
Meant(hd, x) ==
    /\ hd.kind = "single" => x = hd.cur
    /\ hd.kind = "instances" => x \in Members /\ x[1] = hd.cur[1]
    /\ hd.kind \notin {"single", "instances"} => \E o \in hd.type : x = Base(o)

Due(hd) ==
    /\ hd.kind = "done" => hd.owed = {}
    /\ \A x \in hd.shown : state[x] # "none"
    /\ hd.cur # None => state[hd.cur] # "none"
    /\ Stands(hd) =>
         /\ \A x \in hd.owed : state[x] = "live" /\ Meant(hd, x)
         /\ hd.cur = None => hd.shown = {}
         /\ hd.cur # None /\ ~ Astray(hd) =>
              /\ \A x \in hd.owed : Follows(Line(hd), hd.cur, x)
              /\ \A x \in hd.shown : ~ Follows(Line(hd), hd.cur, x)

Promises == \A h \in Handles : Due(handle[h])

(* What is meant and is there is in the line, and nothing else is. *)
LEMMA MeantIsListed ==
    ASSUME Lists, NEW hd, Stands(hd), NEW x
    PROVE  ListFind(Line(hd), x) <=> x \in Instances /\ state[x] = "live" /\ Meant(hd, x)
<1>1. ListFind(Line(hd), x) => x \in Instances /\ state[x] = "live" BY LineFacts
<1>2. CASE hd.kind = "single"
  <2>1. Line(hd) = IF state[hd.cur] = "live" THEN <<hd.cur>> ELSE <<>>
    BY <1>2 DEF Line, Searched
  <2>2. ListFind(<<hd.cur>>, x) <=> x = hd.cur BY DEF ListFind
  <2>3. ~ ListFind(<<>>, x) BY DEF ListFind
  <2>4. Meant(hd, x) <=> x = hd.cur BY <1>2 DEF Meant
  <2>5. QED BY <1>1, <1>2, <2>1, <2>2, <2>3, <2>4
<1>3. CASE hd.kind = "instances"
  <2>1. hd.cur \in Members /\ hd.cur[1] \in Objs
    BY <1>3, TypesAssumption DEF Stands
  <2>2. Line(hd) = chain[hd.cur[1]] BY <1>3 DEF Line, Searched
  <2>3. Meant(hd, x) <=> x \in Members /\ x[1] = hd.cur[1] BY <1>3 DEF Meant
  <2>4. QED
    BY <1>1, <2>1, <2>2, <2>3 DEF Lists, Lifecycle, ChainsLive, Chained
<1>4. CASE hd.kind \notin {"single", "instances"}
  <2>1. hd.type \in Types BY <1>4 DEF Stands
  <2>2. Line(hd) = Linked(hd.type) \/ Line(hd) = Reverse(Linked(hd.type))
    BY <1>4 DEF Line
  <2>3. Linked(hd.type) \in Seq(Instances) BY <2>1, LinkedFacts
  <2>4. ListFind(Line(hd), x) <=> ListFind(Linked(hd.type), x)
    BY <2>2, <2>3, ReverseFacts
  <2>5. Meant(hd, x) <=> \E o \in hd.type : x = Base(o) BY <1>4 DEF Meant
  <2>6. QED BY <1>1, <2>1, <2>4, <2>5, LinkedFacts
<1>5. QED BY <1>2, <1>3, <1>4

(* The line of objects of a type, and the line of a chain, keep the order  *)
(* of what stays.                                                          *)
LEMMA LineKept ==
    ASSUME Lists, Lists', NEW gone, NEW new, Changes(gone, new),
           NEW hd, Stands(hd), hd.cur # None, state[hd.cur] # "none",
           state'[hd.cur] = "live"
    PROVE  /\ \A x : Meant(hd, x) /\ state[x] = "live" /\ x \in Instances \ gone
                       /\ Follows(Line(hd), hd.cur, x) => Follows(Line(hd)', hd.cur, x)
           /\ \A x \in Instances : state[x] # "none" /\ Follows(Line(hd)', hd.cur, x)
                                     => Follows(Line(hd), hd.cur, x)
<1> DEFINE c == hd.cur
<1>0. c \in Instances /\ c \notin gone \cup new /\ state[c] = "live"
  BY DEF Stands, Places, Changes
<1>1. CASE hd.kind = "single"
  <2>1. Line(hd) = <<c>> /\ Line(hd)' = <<c>>
    BY <1>0, <1>1 DEF Line, Searched
  <2>2. QED BY <2>1
<1>2. CASE hd.kind = "instances"
  <2>1. c \in Members /\ c[1] \in Objs BY <1>2, TypesAssumption DEF Stands
  <2>2. Line(hd) = chain[c[1]] /\ Line(hd)' = chain'[c[1]]
    BY <1>2 DEF Line, Searched
  <2>3. \A x \in Instances \ (gone \cup new) :
           Follows(chain'[c[1]], c, x) <=> Follows(chain[c[1]], c, x)
    BY <1>0, <2>1 DEF Changes
  <2>4. \A x : Follows(chain'[c[1]], c, x) => state'[x] = "live"
    BY <2>1 DEF Lists, Lifecycle, ChainsLive, Follows, ListFind
  <2>5. \A x \in Instances : state[x] # "none" /\ Follows(chain'[c[1]], c, x)
                               => x \notin gone \cup new
    BY <2>4 DEF Changes
  <2>6. \A x \in Instances \ gone : state[x] = "live" => x \notin gone \cup new
    BY DEF Changes
  <2>7. QED BY <2>2, <2>3, <2>5, <2>6
<1>3. CASE hd.kind \notin {"single", "instances"}
  <2> DEFINE l == order[hd.type]
             m == order'[hd.type]
             back == hd.kind \in Searched
  <2>1. hd.type \in Types /\ \E o \in hd.type : c = Base(o) BY <1>3 DEF Stands
  <2>2. PICK o \in hd.type : c = Base(o) BY <2>1
  <2>3. hd.type \subseteq Objs /\ o \in Objs BY <2>1, <2>2, TypeFacts
  <2>4. l \in Seq(Objs) /\ m \in Seq(Objs)
    BY <2>1 DEF Lists, Ordered
  <2>5. \A p : ListFind(m, p) => state'[Base(p)] = "live"
    BY <2>1 DEF Lists, Ordered
  <2>6. \A p \in Objs : {Base(o), Base(p)} \cap (gone \cup new) = {} =>
           /\ Follows(m, o, p) <=> Follows(l, o, p)
           /\ Follows(m, p, o) <=> Follows(l, p, o)
    <3>1. \A p : {Base(p), Base(o)} = {Base(o), Base(p)} OBVIOUS
    <3>2. QED BY <2>1, <2>3, <3>1 DEF Changes
  <2>7. /\ Linked(hd.type) = BasesOf(l) /\ Linked(hd.type)' = BasesOf(m)
    BY DEF Linked, BasesOf
  <2>8. /\ Line(hd) = IF back THEN Reverse(BasesOf(l)) ELSE BasesOf(l)
        /\ Line(hd)' = IF back THEN Reverse(BasesOf(m)) ELSE BasesOf(m)
    BY <1>3, <2>7 DEF Line
  <2> HIDE DEF l, m, back
  <2>9. BasesOf(l) \in Seq(Objs \X {0}) /\ BasesOf(m) \in Seq(Objs \X {0})
    BY <2>4, FollowsBases
  <2>10. \A x : /\ Follows(Line(hd), c, x) <=>
                     IF back THEN Follows(BasesOf(l), x, c) ELSE Follows(BasesOf(l), c, x)
                /\ Follows(Line(hd)', c, x) <=>
                     IF back THEN Follows(BasesOf(m), x, c) ELSE Follows(BasesOf(m), c, x)
    BY <2>8, <2>9, FollowsReverse
  <2>11. \A p \in Objs :
            /\ Follows(Line(hd), c, Base(p)) <=>
                 IF back THEN Follows(l, p, o) ELSE Follows(l, o, p)
            /\ Follows(Line(hd)', c, Base(p)) <=>
                 IF back THEN Follows(m, p, o) ELSE Follows(m, o, p)
    <3>1. \A p \in Objs : /\ Follows(BasesOf(l), c, Base(p)) <=> Follows(l, o, p)
                          /\ Follows(BasesOf(l), Base(p), c) <=> Follows(l, p, o)
      BY <2>2, <2>4, FollowsBases
    <3>2. \A p \in Objs : /\ Follows(BasesOf(m), c, Base(p)) <=> Follows(m, o, p)
                          /\ Follows(BasesOf(m), Base(p), c) <=> Follows(m, p, o)
      BY <2>2, <2>4, FollowsBases
    <3>3. QED BY <2>10, <3>1, <3>2
  <2>12. ASSUME NEW x, Meant(hd, x), state[x] = "live", x \in Instances \ gone,
                Follows(Line(hd), c, x)
         PROVE  Follows(Line(hd)', c, x)
    <3>1. PICK p \in hd.type : x = Base(p) BY <1>3, <2>12 DEF Meant
    <3>2. {Base(o), Base(p)} \cap (gone \cup new) = {}
      BY <1>0, <2>2, <2>12, <3>1 DEF Changes
    <3>3. QED BY <2>3, <2>6, <2>11, <2>12, <3>1, <3>2
  <2>13. ASSUME NEW x \in Instances, state[x] # "none", Follows(Line(hd)', c, x)
         PROVE  Follows(Line(hd), c, x)
    <3>1. \E p \in Objs : x = Base(p) /\ ListFind(m, p)
      <4>1. Follows(BasesOf(m), c, x) \/ Follows(BasesOf(m), x, c) BY <2>10, <2>13
      <4>2. CASE Follows(BasesOf(m), c, x)
        BY <2>4, <4>2, FollowsBases
      <4>3. CASE Follows(BasesOf(m), x, c)
        <5>0. \E p, q \in Objs : x = Base(p) /\ c = Base(q) /\ ListFind(m, q)
          <6>1. \A a, b : Follows(BasesOf(m), a, b) =>
                   \E p, q \in Objs : a = Base(p) /\ b = Base(q) /\ ListFind(m, q)
            BY <2>4, FollowsBases
          <6> HIDE DEF c
          <6>2. QED BY <4>3, <6>1
        <5>1. PICK p, q \in Objs : x = Base(p) /\ c = Base(q) BY <5>0
        <5>2. Follows(m, p, q) BY <2>4, <4>3, <5>1, FollowsBases
        <5>3. ListFind(m, p) BY <5>2 DEF Follows, ListFind
        <5>4. QED BY <5>1, <5>3
      <4>4. QED BY <4>1, <4>2, <4>3
    <3>2. PICK p \in Objs : x = Base(p) /\ ListFind(m, p) BY <3>1
    <3>3. state'[x] = "live" BY <2>5, <3>2
    <3>4. {Base(o), Base(p)} \cap (gone \cup new) = {}
      BY <1>0, <2>2, <2>13, <3>2, <3>3 DEF Changes
    <3>5. QED BY <2>6, <2>11, <2>13, <3>2, <3>4
  <2>14. QED BY <2>12, <2>13
<1>4. QED BY <1>1, <1>2, <1>3

(* A listing that is left alone while the database changes, and the line   *)
(* of the listing with it, keeps its promise.                              *)
LEMMA ChangesKeepDue ==
    ASSUME Lists, Lists', NEW gone, NEW new, Changes(gone, new),
           NEW hd \in Listing, Due(hd),
           NEW n \in Listing, n.kind = hd.kind, n.type = hd.type, n.cur = hd.cur,
           n.shown = hd.shown, n.owed = hd.owed \ gone
    PROVE  Due(n)'
<1>1. Stands(n) => Stands(hd) BY DEF Stands
<1>2. hd.shown \subseteq Instances /\ hd.owed \subseteq Instances /\ hd.cur \in Places
  BY DEF Listing
<1>3. (n.kind = "done" => n.owed = {}) BY DEF Due
<1>4. /\ \A x \in n.shown : state'[x] # "none"
      /\ n.cur # None => state'[n.cur] # "none"
  BY <1>2 DEF Due, Changes, Places
<1>5. ASSUME Stands(n)
      PROVE  /\ \A x \in n.owed : state'[x] = "live" /\ Meant(n, x)
             /\ n.cur = None => n.shown = {}
             /\ n.cur # None /\ ~ Astray(n)' =>
                  /\ \A x \in n.owed : Follows(Line(n)', n.cur, x)
                  /\ \A x \in n.shown : ~ Follows(Line(n)', n.cur, x)
  <2>1. Stands(hd) BY <1>1, <1>5
  <2>2. \A x \in hd.owed : state[x] = "live" /\ Meant(hd, x) BY <2>1 DEF Due
  <2>3. \A x : Meant(n, x) <=> Meant(hd, x) BY DEF Meant
  <2>4. \A x \in n.owed : state'[x] = "live" /\ Meant(n, x)
    BY <1>2, <2>2, <2>3 DEF Changes
  <2>5. n.cur = None => n.shown = {} BY <2>1 DEF Due
  <2>6. ASSUME n.cur # None, ~ Astray(n)'
        PROVE  /\ \A x \in n.owed : Follows(Line(n)', n.cur, x)
               /\ \A x \in n.shown : ~ Follows(Line(n)', n.cur, x)
    <3>1. state'[hd.cur] = "live" /\ hd.cur # None /\ state[hd.cur] # "none"
      BY <2>6 DEF Astray, Due
    <3>2. state[hd.cur] = "live" BY <1>2, <3>1 DEF Places, Changes
    <3>3. ~ Astray(hd) BY <3>2 DEF Astray
    <3>4. /\ \A x \in hd.owed : Follows(Line(hd), hd.cur, x)
          /\ \A x \in hd.shown : ~ Follows(Line(hd), hd.cur, x)
      BY <2>1, <3>1, <3>3 DEF Due
    <3>5. /\ \A x : Meant(hd, x) /\ state[x] = "live" /\ x \in Instances \ gone
                      /\ Follows(Line(hd), hd.cur, x) => Follows(Line(hd)', hd.cur, x)
          /\ \A x \in Instances : state[x] # "none" /\ Follows(Line(hd)', hd.cur, x)
                                    => Follows(Line(hd), hd.cur, x)
      BY <2>1, <3>1, LineKept
    <3>6. Line(n)' = Line(hd)' BY DEF Line, Linked
    <3>7. \A x \in hd.shown : state[x] # "none" BY DEF Due
    <3>8. QED BY <1>2, <2>2, <3>4, <3>5, <3>6, <3>7
  <2>7. QED BY <2>4, <2>5, <2>6
<1>6. QED BY <1>3, <1>4, <1>5 DEF Due

LEMMA PromisesStart == Init => Promises
<1> SUFFICES ASSUME Init, NEW h \in Handles PROVE Due(handle[h])
  BY DEF Promises
<1>1. handle[h] = NoHandle BY DEF Init
<1>2. NoHandle.kind = "none" /\ NoHandle.cur = None /\ NoHandle.shown = {} BY DEF NoHandle
<1>3. ~ Stands(NoHandle) BY <1>2, KindFacts DEF Stands
<1>4. QED BY <1>1, <1>2, <1>3 DEF Due

LEMMA PromisesFollow ==
    ASSUME \A h \in Handles : \E n : n = handle'[h] /\ Due(n)'
    PROVE  Promises'
<1> SUFFICES ASSUME NEW h \in Handles PROVE Due(handle[h])'
  BY DEF Promises
<1>1. PICK n : n = handle'[h] /\ Due(n)' OBVIOUS
<1>2. QED BY <1>1 DEF Due, Line, Linked, Astray, Stands, Meant

(* Objects and instances come and go between the pages. *)
LEMMA DatabaseKeepsPromises ==
    ASSUME Uses, Uses', Promises, NEW gone, NEW new, Changes(gone, new),
           Forget(gone)
    PROVE  Promises'
<1> SUFFICES ASSUME NEW h \in Handles PROVE \E n : n = handle'[h] /\ Due(n)'
  BY PromisesFollow
<1> DEFINE hd == handle[h]
           n == handle'[h]
<1>1. hd \in Listing /\ n \in Listing BY DEF Uses
<1>2. n = [hd EXCEPT !.owed = hd.owed \ gone] BY DEF Forget
<1>3. /\ n.kind = hd.kind /\ n.type = hd.type /\ n.cur = hd.cur
      /\ n.shown = hd.shown /\ n.owed = hd.owed \ gone
  BY <1>1, <1>2 DEF Listing
<1>4. Due(hd) BY DEF Promises
<1>5. Lists /\ Lists' BY DEF Uses
<1> HIDE DEF hd, n
<1>6. PICK m \in Listing : m = n BY <1>1
<1>7. PICK d \in Listing : d = hd BY <1>1
<1>8. Due(d) BY <1>4, <1>7 DEF Due, Line, Linked, Astray, Stands, Meant
<1>9. Due(m)' BY <1>3, <1>5, <1>6, <1>7, <1>8, ChangesKeepDue
<1>10. QED BY <1>6, <1>9 DEF n

(* Nothing changes but the listing at h, which becomes hd. *)
LEMMA HandlePromise ==
    ASSUME Uses, Promises, UNCHANGED database, NEW h \in Handles, NEW hd, Due(hd),
           handle' = [handle EXCEPT ![h] = hd]
    PROVE  Promises'
<1>1. ASSUME NEW n, Due(n) PROVE Due(n)'
  BY <1>1 DEF Due, Line, Linked, Astray, database
<1>2. ASSUME NEW g \in Handles PROVE \E n : n = handle'[g] /\ Due(n)'
  <2>1. CASE g = h
    <3>1. handle'[g] = hd BY <2>1 DEF Uses
    <3>2. QED BY <1>1, <3>1
  <2>2. CASE g # h
    <3>1. handle'[g] = handle[g] BY <2>2 DEF Uses
    <3>2. PICK n : n = handle[g] OBVIOUS
    <3>3. Due(n) BY <3>2 DEF Promises, Due, Line, Linked, Astray, Stands, Meant
    <3>4. QED BY <1>1, <3>1, <3>2, <3>3
  <2>3. QED BY <2>1, <2>2
<1>3. QED BY <1>2, PromisesFollow

LEMMA BeginKeepsPromises ==
    ASSUME Uses, Promises, NEW h \in Handles, Begin(h) \/ Age(h)
    PROVE  Promises'
<1> DEFINE was == handle[h]
<1>1. was \in Listing /\ Due(was) BY DEF Uses, Promises
<1>2. UNCHANGED database BY DEF Begin, Age
<1>3. \E hd : /\ handle' = [handle EXCEPT ![h] = hd]
              /\ hd.kind = was.kind /\ hd.type = was.type /\ hd.cur = was.cur
              /\ hd.owed = was.owed /\ hd.shown = was.shown
  <2>1. CASE Begin(h)
    <3> DEFINE hd == [was EXCEPT !.busy = TRUE, !.stale = FALSE]
    <3>1. handle' = [handle EXCEPT ![h] = hd] BY <2>1 DEF Begin, Uses
    <3> HIDE DEF was
    <3>2. /\ hd.kind = was.kind /\ hd.type = was.type /\ hd.cur = was.cur
          /\ hd.owed = was.owed /\ hd.shown = was.shown
      BY <1>1 DEF Listing
    <3>3. QED BY <3>1, <3>2
  <2>2. CASE Age(h)
    <3> DEFINE hd == [was EXCEPT !.stale = TRUE]
    <3>1. handle' = [handle EXCEPT ![h] = hd] BY <2>2 DEF Age, Uses
    <3> HIDE DEF was
    <3>2. /\ hd.kind = was.kind /\ hd.type = was.type /\ hd.cur = was.cur
          /\ hd.owed = was.owed /\ hd.shown = was.shown
      BY <1>1 DEF Listing
    <3>3. QED BY <3>1, <3>2
  <2>3. QED BY <2>1, <2>2
<1>4. PICK hd : /\ handle' = [handle EXCEPT ![h] = hd]
                /\ hd.kind = was.kind /\ hd.type = was.type /\ hd.cur = was.cur
                /\ hd.owed = was.owed /\ hd.shown = was.shown
  BY <1>3
<1>5. Due(hd)
  <2> HIDE DEF was
  <2>1. Line(hd) = Line(was) BY <1>4 DEF Line
  <2>2. (Astray(hd) <=> Astray(was)) /\ (Stands(hd) <=> Stands(was))
    BY <1>4 DEF Astray, Stands
  <2>3. \A x : Meant(hd, x) <=> Meant(was, x) BY <1>4 DEF Meant
  <2>4. QED BY <1>1, <1>4, <2>1, <2>2, <2>3 DEF Due
<1>6. QED BY <1>2, <1>4, <1>5, HandlePromise

LEMMA OpenedDue ==
    ASSUME Lists, NEW kind \in Kinds, NEW type \in SUBSET Objs, NEW cur \in Places,
           NEW arg, arg = [kind |-> kind, type |-> type, cur |-> cur],
           NEW hd, hd = Opened(kind, type, cur,
                               IF kind = "instances" /\ cur = None THEN {}
                               ELSE Range(Line(arg))),
           cur # None => /\ state[cur] = "live" /\ Line(arg) # <<>>
                         /\ Head(Line(arg)) = cur
    PROVE  Due(hd)
<1> DEFINE owed == IF kind = "instances" /\ cur = None THEN {} ELSE Range(Line(arg))
<1>1. /\ hd.kind = kind /\ hd.type = type /\ hd.cur = cur /\ hd.owed = owed
      /\ hd.shown = {}
  BY DEF Opened, NoHandle
<1>2. kind # "done" BY KindFacts
<1> SUFFICES ASSUME Stands(hd)
             PROVE  /\ \A x \in hd.owed : state[x] = "live" /\ Meant(hd, x)
                    /\ hd.cur # None => \A x \in hd.owed : Follows(Line(hd), hd.cur, x)
  BY <1>1, <1>2 DEF Due
<1>3. Line(hd) = Line(arg)
  <2>1. arg.kind = hd.kind /\ arg.type = hd.type /\ arg.cur = hd.cur BY <1>1
  <2>2. QED BY <2>1 DEF Line
<1>4. Line(hd) \in Seq(Instances) BY LineFacts
<1>5. owed = Range(Line(hd))
  <2>1. ~ (kind = "instances" /\ cur = None)
    BY <1>1, InstancesFacts DEF Stands
  <2>2. QED BY <1>3, <2>1
<1>6. \A x \in hd.owed : ListFind(Line(hd), x)
  <2> DEFINE l == Line(hd)
  <2> HIDE DEF l
  <2>1. DOMAIN l = 1..Len(l) BY <1>4, LenProperties DEF l
  <2>2. hd.owed = Range(l) BY <1>1, <1>5 DEF l
  <2>3. \A x \in hd.owed : ListFind(l, x) BY <2>1, <2>2 DEF Range, ListFind
  <2>4. QED BY <2>3 DEF l
<1>7. ASSUME cur # None, NEW x \in hd.owed PROVE Follows(Line(hd), cur, x)
  <2>1. Line(hd)[1] = cur /\ 1 \in 1..Len(Line(hd))
    BY <1>3, <1>4, <1>7, RestFacts
  <2>2. PICK k \in 1..Len(Line(hd)) : Line(hd)[k] = x BY <1>6, <1>7 DEF ListFind
  <2>3. 1 <= k BY <2>2
  <2>4. QED BY <2>1, <2>2, <2>3 DEF Follows
<1>8. QED BY <1>1, <1>6, <1>7, MeantIsListed

LEMMA OpenPromises ==
    ASSUME Uses, Promises, NEW h \in Handles, NEW kind \in Kinds,
           NEW type \in SUBSET Objs, NEW cur \in Places,
           Open(h, kind, [kind |-> kind, type |-> type, cur |-> cur]),
           cur # None =>
              LET line == Line([kind |-> kind, type |-> type, cur |-> cur])
              IN  state[cur] = "live" /\ line # <<>> /\ Head(line) = cur
    PROVE  Promises'
<1> DEFINE arg == [kind |-> kind, type |-> type, cur |-> cur]
           owed == IF kind = "instances" /\ cur = None THEN {} ELSE Range(Line(arg))
           hd == Opened(kind, type, cur, owed)
<1>1. UNCHANGED database /\ handle' = [handle EXCEPT ![h] = hd]
  BY DEF Open, Opened
<1>2. Due(hd) BY OpenedDue DEF Uses
<1>3. QED BY <1>1, <1>2, HandlePromise

LEMMA OpenNamedKeepsPromises ==
    ASSUME Uses, Promises, NEW h \in Handles, NEW o \in Objs, OpenNamed(h, o)
    PROVE  Promises'
<1> DEFINE b == Base(o)
<1>0. b \in Instances /\ state[b] = "live" /\ {o} \in SUBSET Objs /\ b \in Places
  BY InstancesFacts DEF OpenNamed, Places
<1>1. CASE /\ "single" \in Kinds
           /\ Open(h, "single", [kind |-> "single", type |-> {o}, cur |-> b])
  <2>1. Line([kind |-> "single", type |-> {o}, cur |-> b]) = <<b>>
    BY <1>0 DEF Line, Searched
  <2> HIDE DEF b
  <2>2. <<b>> # <<>> /\ Head(<<b>>) = b OBVIOUS
  <2>3. QED BY <1>0, <1>1, <2>1, <2>2, OpenPromises
<1>2. CASE /\ "instances" \in Kinds /\ chain[o] /= <<>>
           /\ Open(h, "instances",
                   [kind |-> "instances", type |-> {o}, cur |-> Head(chain[o])])
  <2> DEFINE first == Head(chain[o])
  <2>1. chain[o] \in Seq(Instances) BY DEF Uses, Lists, Lifecycle, ChainsLive
  <2>2. first = chain[o][1] /\ 1 \in 1..Len(chain[o]) BY <1>2, <2>1, RestFacts
  <2>3. first \in Members /\ state[first] = "live" /\ first[1] = o
    <3> HIDE DEF first
    <3>1. ListFind(chain[o], first) BY <2>2 DEF ListFind
    <3>2. QED BY <3>1 DEF Uses, Lists, Lifecycle, ChainsLive
  <2> HIDE DEF first
  <2>4. Line([kind |-> "instances", type |-> {o}, cur |-> first]) = chain[o]
    BY <2>3 DEF Line, Searched
  <2>5. first \in Places BY <2>3, InstancesFacts DEF Places
  <2>6. Open(h, "instances", [kind |-> "instances", type |-> {o}, cur |-> first])
    BY <1>2 DEF first
  <2>7. first = Head(chain[o]) BY DEF first
  <2>8. QED BY <1>0, <1>2, <2>3, <2>4, <2>5, <2>6, <2>7, OpenPromises
<1>3. CASE /\ "instances" \in Kinds
           /\ Open(h, "instances", [kind |-> "instances", type |-> {o}, cur |-> None])
  <2>1. None \in Places BY DEF Places
  <2>2. QED BY <1>0, <1>3, <2>1, OpenPromises
<1>4. QED BY <1>1, <1>2, <1>3 DEF OpenNamed

LEMMA OpenAllKeepsPromises ==
    ASSUME Uses, Promises, NEW h \in Handles, NEW kind \in Kinds \ {"single", "instances"},
           NEW type \in Types, OpenAll(h, kind, type)
    PROVE  Promises'
<1> DEFINE first == IF kind = "all" THEN Head(Linked(type)) ELSE None
<1>1. /\ kind = "all" => Linked(type) /= <<>>
      /\ Open(h, kind, [kind |-> kind, type |-> type, cur |-> first])
  BY DEF OpenAll
<1>2. type \in SUBSET Objs BY TypeFacts
<1>3. CASE kind = "all"
  <2> DEFINE l == Linked(type)
  <2>1. l \in Seq(Instances) /\ \A x : ListFind(l, x) => x \in Instances /\ state[x] = "live"
    BY LinkedFacts DEF Uses
  <2>2. l # <<>> /\ first = Head(l) BY <1>1, <1>3
  <2>3. Line([kind |-> kind, type |-> type, cur |-> first]) = l
    BY <1>3 DEF Line, Searched
  <2> HIDE DEF l, first
  <2>4. first \in Instances /\ state[first] = "live"
    <3>1. first = l[1] /\ 1 \in 1..Len(l) BY <2>1, <2>2, RestFacts
    <3>2. ListFind(l, first) BY <3>1 DEF ListFind
    <3>3. QED BY <2>1, <3>2
  <2>5. first \in Places BY <2>4 DEF Places
  <2>6. QED BY <1>1, <1>2, <2>2, <2>3, <2>4, <2>5, OpenPromises
<1>4. CASE kind # "all"
  <2>1. first = None /\ None \in Places BY <1>4 DEF Places
  <2>2. QED BY <1>1, <1>2, <2>1, OpenPromises
<1>5. QED BY <1>3, <1>4

-----------------------------------------------------------------------------
(* A page *)

(* The rest of a line starts where the listing stands, or at its head. *)
LEMMA RestStarts ==
    ASSUME Lists, NEW hd, Stands(hd), ~ Astray(hd) \/ hd.kind = "all",
           Line(hd) # <<>>
    PROVE  \E at \in 1..Len(Line(hd)) :
              /\ Rest(hd) = SubSeq(Line(hd), at, Len(Line(hd)))
              /\ hd.cur # None /\ ~ Astray(hd) => Line(hd)[at] = hd.cur
              /\ hd.cur = None \/ Astray(hd) => at = 1
<1> DEFINE l == Line(hd)
<1>1. l \in Seq(Instances) /\ (hd.cur # None /\ ~ Astray(hd) => ListFind(l, hd.cur))
  BY LineFacts
<1>2. Len(l) \in Nat \ {0} /\ DOMAIN l = 1..Len(l) BY <1>1, RestFacts, LenProperties
<1>3. CASE hd.cur # None /\ ~ Astray(hd)
  <2> DEFINE at == CHOOSE k \in DOMAIN l : l[k] = hd.cur
  <2>1. Rest(hd) = SubSeq(l, at, Len(l)) BY <1>3 DEF Rest
  <2>2. \E k \in DOMAIN l : l[k] = hd.cur BY <1>1, <1>2, <1>3 DEF ListFind
  <2>3. at \in 1..Len(l) /\ l[at] = hd.cur BY <1>2, <2>2
  <2> HIDE DEF l, at
  <2>4. QED BY <1>3, <2>1, <2>3 DEF l
<1>4. CASE hd.cur = None \/ Astray(hd)
  <2>1. Rest(hd) = l BY <1>4 DEF Rest, Astray
  <2> HIDE DEF l
  <2>2. SubSeq(l, 1, Len(l)) = l
    <3>1. \A i \in 1..Len(l) : l[i] \in Instances BY <1>1
    <3>2. /\ SubSeq(l, 1, Len(l)) \in Seq(Instances)
          /\ Len(SubSeq(l, 1, Len(l))) = Len(l)
          /\ \A i \in 1..Len(l) : SubSeq(l, 1, Len(l))[i] = l[i]
      <4>1. /\ 1 \in Int /\ Len(l) \in Int /\ 1 <= Len(l) /\ Len(l) - 1 + 1 = Len(l)
            /\ \A i \in 1..Len(l) : 1 + i - 1 = i
        BY <1>2
      <4>2. QED BY <3>1, <4>1, SubSeqProperties
    <3>3. QED BY <1>1, <3>2, SeqEqual
  <2>3. 1 \in 1..Len(l) BY <1>2
  <2>4. QED BY <1>4, <2>1, <2>2, <2>3 DEF l
<1>5. QED BY <1>3, <1>4

(* A page that does not end the listing shows Mtu elements of the line,    *)
(* and the next one will start with the element after them.                *)
LEMMA PagePlaces ==
    ASSUME Lists, NEW hd, Stands(hd), ~ Len(Rest(hd)) <= Mtu
    PROVE  \E at \in 1..Len(Line(hd)) :
              /\ at + Mtu \in 1..Len(Line(hd))
              /\ PageNext(hd) = Line(hd)[at + Mtu]
              /\ \A x : x \in PageShown(hd) <=>
                           \E k \in at..at + Mtu - 1 : Line(hd)[k] = x
              /\ hd.cur # None /\ ~ Astray(hd) => Line(hd)[at] = hd.cur
              /\ hd.cur = None \/ Astray(hd) => at = 1
<1> DEFINE l == Line(hd)
           r == Rest(hd)
           s == PageShown(hd)
           n == PageNext(hd)
<1>1. Mtu \in Nat \ {0} BY BoundsAssumption
<1>2. /\ l \in Seq(Instances) /\ NoDuplicates(l)
      /\ r \in Seq(Instances)
      /\ Astray(hd) => \/ hd.kind = "all"
                       \/ hd.kind = "members" /\ r = <<hd.cur>>
                       \/ r = <<>>
  BY LineFacts, RestOfLine
<1>3. Len(r) \in Nat /\ ~ Len(r) <= Mtu /\ DOMAIN r = 1..Len(r) BY <1>2, LenProperties
<1>4. ~ Astray(hd) \/ hd.kind = "all"
  <2> HIDE DEF r
  <2>1. Len(r) # 0 /\ Len(r) # 1 BY <1>1, <1>3
  <2>2. r # <<>> /\ \A x : r # <<x>> BY <2>1
  <2>3. QED BY <1>2, <2>2
<1>5. l # <<>>
  <2>1. CASE l = <<>>
    <3>1. ~ (hd.cur # None /\ ~ Astray(hd)) BY <2>1, LineFacts DEF ListFind
    <3>2. r = l BY <1>4, <3>1 DEF Rest, Astray
    <3>3. QED BY <1>1, <1>3, <2>1, <3>2
  <2>2. QED BY <2>1
<1>6. PICK at \in 1..Len(l) :
         /\ r = SubSeq(l, at, Len(l))
         /\ hd.cur # None /\ ~ Astray(hd) => l[at] = hd.cur
         /\ hd.cur = None \/ Astray(hd) => at = 1
  BY <1>4, <1>5, RestStarts
<1>7. n = r[Mtu + 1] /\ s = Range(SubSeq(r, 1, Mtu))
  BY <1>3 DEF PageShown, PageNext, Place
<1> HIDE DEF l, r, s, n
<1>8. /\ Len(r) = Len(l) - at + 1
      /\ \A i \in 1..Len(l) - at + 1 : r[i] = l[at + i - 1]
  <2> DEFINE t == SubSeq(l, at, Len(l))
  <2>1. t = r BY <1>6
  <2>2. Len(t) = Len(l) - at + 1 BY <1>2, <1>6, SuffixFacts
  <2>3. \A i \in 1..Len(l) - at + 1 : t[i] = l[at + i - 1] BY <1>2, <1>6, SuffixFacts
  <2> HIDE DEF t
  <2>4. QED BY <2>1, <2>2, <2>3
<1>9. Len(l) \in Nat BY <1>2
<1>10. at + Mtu \in 1..Len(l) /\ n = l[at + Mtu]
  <2>1. Mtu + 1 \in 1..Len(l) - at + 1 /\ at + (Mtu + 1) - 1 = at + Mtu
    BY <1>1, <1>3, <1>8, <1>9
  <2>2. QED BY <1>1, <1>7, <1>8, <1>9, <2>1
<1>11. \A x : x \in s <=> \E k \in 1..Mtu : r[k] = x
  <2> DEFINE p == SubSeq(r, 1, Mtu)
  <2>1. p \in Seq(Instances) /\ Len(p) = Mtu /\ \A k \in 1..Mtu : p[k] = r[k]
    <3>1. \A k \in 1..Mtu : r[k] \in Instances BY <1>1, <1>2, <1>3
    <3>2. \A k \in 1..Mtu : 1 + k - 1 = k BY <1>1
    <3>3. 1 \in Int /\ Mtu \in Int /\ 1 <= Mtu /\ Mtu - 1 + 1 = Mtu BY <1>1
    <3>4. QED BY <3>1, <3>2, <3>3, SubSeqProperties
  <2>2. DOMAIN p = 1..Mtu BY <2>1, LenProperties
  <2>3. s = Range(p) BY <1>7
  <2> HIDE DEF p
  <2>4. QED BY <2>1, <2>2, <2>3 DEF Range
<1>12. \A x : x \in s <=> \E k \in at..at + Mtu - 1 : l[k] = x
  <2>1. \A i \in 1..Mtu : at + i - 1 \in at..at + Mtu - 1 /\ r[i] = l[at + i - 1]
    BY <1>1, <1>3, <1>8, <1>9
  <2>2. \A k \in at..at + Mtu - 1 : k - at + 1 \in 1..Mtu /\ r[k - at + 1] = l[k]
    <3>1. \A k \in at..at + Mtu - 1 : k - at + 1 \in 1..Mtu /\ at + (k - at + 1) - 1 = k
      BY <1>1
    <3>2. QED BY <2>1, <3>1
  <2>3. QED BY <1>11, <2>1, <2>2
<1>13. QED BY <1>6, <1>10, <1>12 DEF l, s, n

(* What is still owed is shown by the last page. *)
LEMMA LastPage ==
    ASSUME Lists, NEW hd, Stands(hd), Due(hd), Len(Rest(hd)) <= Mtu, ~ Astray(hd)
    PROVE  hd.owed \subseteq PageShown(hd)
<1> SUFFICES ASSUME NEW x \in hd.owed PROVE x \in PageShown(hd)
  OBVIOUS
<1> DEFINE l == Line(hd)
           r == Rest(hd)
<1>1. PageShown(hd) = Range(r) BY DEF PageShown
<1>2. /\ l \in Seq(Instances) /\ NoDuplicates(l) /\ r \in Seq(Instances)
  BY LineFacts, RestOfLine
<1>3. hd.cur # None => Follows(l, hd.cur, x) BY DEF Due
<1>4. CASE hd.cur = None
  <2>1. r = l BY <1>4 DEF Rest
  <2>2. state[x] = "live" /\ Meant(hd, x) BY DEF Due
  <2>3. x \in Instances
    BY <2>2, InstancesFacts, TypeFacts DEF Stands, Meant, Places
  <2>4. ListFind(l, x) BY <2>2, <2>3, MeantIsListed
  <2> HIDE DEF l, r
  <2>5. DOMAIN r = 1..Len(r) BY <1>2, LenProperties
  <2>6. QED BY <1>1, <2>1, <2>4, <2>5 DEF ListFind, Range
<1>5. CASE hd.cur # None
  <2>1. l # <<>> BY <1>3, <1>5 DEF Follows
  <2>2. PICK at \in 1..Len(l) : r = SubSeq(l, at, Len(l)) /\ l[at] = hd.cur
    BY <1>5, <2>1, RestStarts
  <2> HIDE DEF l, r
  <2>3. PICK i, j \in 1..Len(l) : i <= j /\ l[i] = hd.cur /\ l[j] = x
    BY <1>3, <1>5 DEF Follows
  <2>4. i = at BY <1>2, <2>2, <2>3 DEF NoDuplicates
  <2>5. /\ Len(r) = Len(l) - at + 1
        /\ \A k \in 1..Len(l) - at + 1 : r[k] = l[at + k - 1]
    BY <1>2, <2>2, SuffixFacts
  <2>6. j - at + 1 \in 1..Len(l) - at + 1 /\ at + (j - at + 1) - 1 = j
    <3> DEFINE n == Len(l)
    <3>1. n \in Nat BY <1>2
    <3> HIDE DEF n
    <3>2. at \in 1..n /\ j \in 1..n /\ at <= j BY <2>3, <2>4 DEF n
    <3>3. j - at + 1 \in 1..n - at + 1 /\ at + (j - at + 1) - 1 = j BY <3>1, <3>2
    <3>4. QED BY <3>3 DEF n
  <2>7. DOMAIN r = 1..Len(r) BY <1>2, LenProperties
  <2>8. QED BY <1>1, <2>3, <2>5, <2>6, <2>7 DEF Range
<1>6. QED BY <1>4, <1>5

LEMMA AdvancedDue ==
    ASSUME Lists, NEW hd \in Listing, Stands(hd), Due(hd), ~ Len(Rest(hd)) <= Mtu,
           NEW n, n = Advanced(hd, PageNext(hd), hd.owed \ PageShown(hd),
                               IF Astray(hd) THEN {} ELSE hd.shown \cup PageShown(hd))
    PROVE  Due(n)
<1> DEFINE l == Line(hd)
           next == PageNext(hd)
           page == PageShown(hd)
<1>1. /\ n.kind = hd.kind /\ n.type = hd.type /\ n.cur = next
      /\ n.owed = hd.owed \ page
      /\ n.shown = IF Astray(hd) THEN {} ELSE hd.shown \cup page
  BY DEF Listing, Advanced
<1>2. PICK at \in 1..Len(l) :
         /\ at + Mtu \in 1..Len(l)
         /\ next = l[at + Mtu]
         /\ \A x : x \in page <=> \E k \in at..at + Mtu - 1 : l[k] = x
         /\ hd.cur # None /\ ~ Astray(hd) => l[at] = hd.cur
         /\ hd.cur = None \/ Astray(hd) => at = 1
  BY PagePlaces
<1>3. /\ l \in Seq(Instances) /\ NoDuplicates(l)
      /\ \A x : ListFind(l, x) => x \in Instances /\ state[x] = "live"
  BY LineFacts
<1>4. Mtu \in Nat \ {0} BY BoundsAssumption
<1>5. next \in Instances /\ state[next] = "live" /\ next # None /\ Meant(hd, next)
  <2>1. ListFind(l, next) BY <1>2 DEF ListFind
  <2>2. QED BY <2>1, InstancesFacts, MeantIsListed
<1>6. \A x \in page : state[x] = "live"
  <2>1. at..at + Mtu - 1 \subseteq 1..Len(l) BY <1>2, <1>4
  <2>2. \A x \in page : ListFind(l, x) BY <1>2, <2>1 DEF ListFind
  <2>3. QED BY <1>3, <2>2
<1>7. hd.kind # "done" BY KindFacts DEF Stands
<1>8. hd.kind # "single"
  <2> HIDE DEF next, page
  <2> SUFFICES ASSUME hd.kind = "single" PROVE FALSE
    OBVIOUS
  <2>1. l = <<hd.cur>> \/ l = <<>> BY DEF Line, Searched
  <2> HIDE DEF l
  <2>2. Len(<<hd.cur>>) = 1 /\ Len(<<>>) = 0 OBVIOUS
  <2>3. Len(l) = 1 \/ Len(l) = 0 BY <2>1, <2>2
  <2>4. 1 <= at /\ at + Mtu <= Len(l) /\ at \in Nat /\ Len(l) \in Nat BY <1>2, <1>3
  <2>5. \A m \in Nat : m >= at + Mtu => m # 0 /\ m # 1 BY <1>4, <2>4
  <2>6. Len(l) # 0 /\ Len(l) # 1 BY <2>4, <2>5
  <2>7. QED BY <2>3, <2>6
<1>9. Line(n) = l
  <2>1. hd.kind = "instances" => next[1] = hd.cur[1]
    BY <1>5 DEF Meant
  <2>2. QED BY <1>1, <1>8, <2>1 DEF Line
<1>10. \A x : Meant(hd, x) /\ Stands(n) => Meant(n, x)
  <2>1. hd.kind = "instances" => next[1] = hd.cur[1]
    BY <1>5 DEF Meant
  <2>2. QED BY <1>1, <1>8, <2>1 DEF Meant
<1>11. \A x \in hd.owed : state[x] = "live" /\ Meant(hd, x) BY DEF Due
<1>12. hd.cur # None /\ ~ Astray(hd) =>
         /\ \A x \in hd.owed : Follows(l, hd.cur, x)
         /\ \A x \in hd.shown : ~ Follows(l, hd.cur, x)
  BY DEF Due
<1>13. hd.cur = None => hd.shown = {} BY DEF Due
<1>14. ASSUME NEW x \in hd.owed \ page PROVE Follows(l, next, x)
  <2>1. PICK j \in 1..Len(l) : j >= at /\ l[j] = x
    <3>1. CASE hd.cur # None /\ ~ Astray(hd)
      <4>1. PICK i, j \in 1..Len(l) : i <= j /\ l[i] = hd.cur /\ l[j] = x
        BY <1>12, <1>14, <3>1 DEF Follows
      <4>2. i = at BY <1>2, <1>3, <3>1, <4>1 DEF NoDuplicates
      <4>3. QED BY <4>1, <4>2
    <3>2. CASE ~ (hd.cur # None /\ ~ Astray(hd))
      <4>1. x \in Instances
        BY <1>11, <1>14 DEF Listing
      <4>2. ListFind(l, x) BY <1>11, <1>14, <4>1, MeantIsListed
      <4>3. at = 1 BY <1>2, <3>2
      <4>4. QED BY <4>2, <4>3 DEF ListFind
    <3>3. QED BY <3>1, <3>2
  <2> HIDE DEF l, next, page
  <2>2. ~ (j \in at..at + Mtu - 1) BY <1>2, <1>14, <2>1
  <2>3. at + Mtu <= j BY <1>2, <1>3, <1>4, <2>1, <2>2
  <2>4. QED BY <1>2, <2>1, <2>3 DEF Follows
<1>15. ASSUME NEW x \in n.shown, Follows(l, next, x) PROVE FALSE
  <2>0. ~ Astray(hd) /\ x \in hd.shown \cup page BY <1>1, <1>15
  <2> HIDE DEF l, next, page
  <2>1. PICK i, j \in 1..Len(l) : i <= j /\ l[i] = next /\ l[j] = x
    BY <1>15 DEF Follows
  <2>2. i = at + Mtu BY <1>2, <1>3, <2>1 DEF NoDuplicates
  <2>3. CASE x \in page
    <3>1. PICK k \in at..at + Mtu - 1 : l[k] = x BY <1>2, <2>3
    <3>2. k \in 1..Len(l) /\ k < at + Mtu BY <1>2, <1>4, <3>1
    <3>3. k = j BY <1>3, <2>1, <3>1, <3>2 DEF NoDuplicates
    <3>4. QED BY <1>3, <1>4, <2>1, <2>2, <3>2, <3>3
  <2>4. CASE x \in hd.shown
    <3>1. hd.cur # None BY <1>13, <2>4
    <3>2. l[at] = hd.cur BY <1>2, <2>0, <3>1
    <3>3. at <= j BY <1>2, <1>4, <2>1, <2>2
    <3>4. Follows(l, hd.cur, x) BY <1>2, <2>1, <3>2, <3>3 DEF Follows
    <3>5. QED BY <1>12, <2>0, <2>4, <3>1, <3>4
  <2>5. QED BY <2>0, <2>3, <2>4
<1>16. \A x \in n.shown : state[x] # "none"
  BY <1>1, <1>6 DEF Due
<1> HIDE DEF l, next, page
<1>17. QED BY <1>1, <1>5, <1>7, <1>9, <1>10, <1>11, <1>14, <1>15, <1>16 DEF Due

LEMMA PageKeepsPromises ==
    ASSUME Uses, Promises, NEW h \in Handles,
           NEW kind \in Checked \cup Searched \cup {"members"}, Page(h, kind)
    PROVE  Promises'
<1> DEFINE hd == handle[h]
           left == hd.owed \ PageShown(hd)
           seen == IF Astray(hd) THEN {} ELSE hd.shown \cup PageShown(hd)
           last == Ended(IF Astray(hd) THEN {} ELSE left)
           moved == Advanced(hd, PageNext(hd), left, seen)
<1>1. /\ hd.kind = kind /\ hd.busy /\ UNCHANGED database
      /\ handle' = [handle EXCEPT ![h] = IF Len(Rest(hd)) <= Mtu THEN last ELSE moved]
  BY DEF Page, PageShown, PageNext, Ended, Advanced
<1>2. hd \in Listing /\ Settled(hd) /\ Due(hd) BY DEF Uses, Promises
<1>3. Stands(hd) BY <1>1, <1>2 DEF Settled, Checked, Searched
<1>4. Lists BY DEF Uses
<1> HIDE DEF hd
<1>5. CASE Len(Rest(hd)) <= Mtu
  <2>1. /\ last.kind = "done" /\ last.cur = None /\ last.shown = {}
        /\ last.owed = IF Astray(hd) THEN {} ELSE left
    BY DEF Ended, NoHandle
  <2>2. ~ Astray(hd) => left = {} BY <1>2, <1>3, <1>4, <1>5, LastPage
  <2>3. handle' = [handle EXCEPT ![h] = last] BY <1>1, <1>5
  <2> HIDE DEF last
  <2>4. ~ Stands(last) BY <2>1, KindFacts DEF Stands
  <2>5. Due(last) BY <2>1, <2>2, <2>4 DEF Due
  <2>6. QED BY <1>1, <2>3, <2>5, HandlePromise
<1>6. CASE ~ Len(Rest(hd)) <= Mtu
  <2>1. Due(moved) BY <1>2, <1>3, <1>4, <1>6, AdvancedDue
  <2>2. handle' = [handle EXCEPT ![h] = moved] BY <1>1, <1>6
  <2> HIDE DEF moved
  <2>3. QED BY <1>1, <2>1, <2>2, HandlePromise
<1>7. QED BY <1>5, <1>6

LEMMA HandleFreeGarbageKeepsPromises ==
    ASSUME Uses, Promises, HandleFreeGarbage
    PROVE  Promises'
<1>1. UNCHANGED database BY DEF HandleFreeGarbage
<1>2. \A h \in Handles : handle'[h] = NoHandle \/ handle'[h] = handle[h]
  BY DEF HandleFreeGarbage
<1>3. ASSUME NEW h \in Handles PROVE \E n : n = handle'[h] /\ Due(n)'
  <2>1. PICK n : n = handle'[h] OBVIOUS
  <2>2. Due(n)
    <3>1. CASE n = NoHandle
      <4>1. n.kind = "none" /\ n.cur = None /\ n.shown = {} BY <3>1 DEF NoHandle
      <4>2. ~ Stands(n) BY <4>1, KindFacts DEF Stands
      <4>3. QED BY <4>1, <4>2 DEF Due
    <3>2. CASE n = handle[h]
      BY <3>2 DEF Promises, Due, Line, Linked, Astray, Stands, Meant
    <3>3. QED BY <1>2, <2>1, <3>1, <3>2
  <2>3. Due(n)' BY <1>1, <2>2 DEF Due, Line, Linked, Astray, database
  <2>4. QED BY <2>1, <2>3
<1>4. QED BY <1>3, PromisesFollow

(* Whatever leaves the listings and the database alone *)
LEMMA IdleKeepsPromises ==
    ASSUME Promises, UNCHANGED <<database, handle>>
    PROVE  Promises'
BY DEF Promises, Due, Line, Linked, Astray, database

LEMMA ForgetNothing ==
    ASSUME Uses, UNCHANGED handle
    PROVE  Forget({})
<1>1. \A h \in Handles : handle[h] \in Listing BY DEF Uses
<1>2. \A h \in Handles : [handle[h] EXCEPT !.owed = @ \ {}] = handle[h]
  BY <1>1 DEF Listing
<1>3. handle = [h \in Handles |-> handle[h]] BY DEF Uses
<1>4. QED BY <1>2, <1>3 DEF Forget

LEMMA StepsKeepPromises ==
    ASSUME Uses, Uses', Promises, [Next]_vars
    PROVE  Promises'
<1>0. Lists BY DEF Uses
<1>1. ASSUME NEW o \in Objs, Create(o) PROVE Promises'
  <2>1. Changes({}, {Base(o)}) BY <1>0, <1>1, CreateChanges
  <2>2. UNCHANGED handle BY <1>1 DEF Create
  <2>3. Forget({}) BY <2>2, ForgetNothing
  <2>4. QED BY <2>1, <2>3, DatabaseKeepsPromises
<1>2. ASSUME NEW x \in Instances, InstanceCreate(x) PROVE Promises'
  <2>1. Changes({}, {x}) BY <1>0, <1>2, InstanceCreateChanges
  <2>2. UNCHANGED handle BY <1>2 DEF InstanceCreate
  <2>3. Forget({}) BY <2>2, ForgetNothing
  <2>4. QED BY <2>1, <2>3, DatabaseKeepsPromises
<1>3. ASSUME NEW o \in Objs, Delete(o) PROVE Promises'
  <2>1. Changes(Range(chain[o] \o <<Base(o)>>), {}) BY <1>0, <1>3, DeleteChanges
  <2>2. Forget(Range(chain[o] \o <<Base(o)>>)) BY <1>3 DEF Delete
  <2>3. QED BY <2>1, <2>2, DatabaseKeepsPromises
<1>4. ASSUME NEW x \in Instances, InstanceDelete(x) PROVE Promises'
  <2>1. Changes({x}, {}) BY <1>0, <1>4, InstanceDeleteChanges
  <2>2. Forget({x}) BY <1>4 DEF InstanceDelete
  <2>3. QED BY <2>1, <2>2, DatabaseKeepsPromises
<1>5. ASSUME Process PROVE Promises'
  <2>1. Changes({}, {}) BY <1>0, <1>5, ProcessChanges
  <2>2. UNCHANGED handle BY <1>5 DEF Process
  <2>3. Forget({}) BY <2>2, ForgetNothing
  <2>4. QED BY <2>1, <2>3, DatabaseKeepsPromises
<1>6. ASSUME NEW j \in Jobs, NEW x \in Instances, Request(j, x) \/ ActionRun(j, x)
      PROVE  Promises'
  BY <1>6, IdleKeepsPromises DEF Request, ActionRun
<1>7. ASSUME NEW j \in Jobs, Take(j) \/ End(j) PROVE Promises'
  BY <1>7, IdleKeepsPromises DEF Take, End
<1>8. ASSUME Wake \/ Pop PROVE Promises'
  BY <1>8, IdleKeepsPromises DEF Wake, Pop
<1>9. ASSUME NEW h \in Handles, NEW o \in Objs, OpenNamed(h, o) PROVE Promises'
  BY <1>9, OpenNamedKeepsPromises
<1>10. ASSUME NEW h \in Handles, NEW kind \in Kinds \ {"single", "instances"},
              NEW type \in {Tests, Actions}, OpenAll(h, kind, type)
       PROVE  Promises'
  BY <1>10, OpenAllKeepsPromises DEF Types
<1>11. ASSUME NEW h \in Handles, Begin(h) \/ Age(h) PROVE Promises'
  BY <1>11, BeginKeepsPromises
<1>12. ASSUME NEW h \in Handles, GetPage(h) PROVE Promises'
  <2>1. \E kind \in Checked \cup Searched \cup {"members"} : Page(h, kind)
    BY <1>12 DEF GetPage, GetSingleInfo, GetInstanceInfo, GetInfo, GetStrucsInComp,
                 GetRuleActionsOrInputs, GetConnectedInstances, GetParentDepend,
                 GetChildDepend, Checked, Searched
  <2>2. QED BY <2>1, PageKeepsPromises
<1>13. CASE UNCHANGED vars BY <1>13, IdleKeepsPromises DEF vars
<1>14. QED
  BY <1>1, <1>2, <1>3, <1>4, <1>5, <1>6, <1>7, <1>8, <1>9, <1>10, <1>11, <1>12,
     <1>13, HandleFreeGarbageKeepsPromises
     DEF Next, Collecting

(* What is created and deleted between its pages does not make a listing   *)
(* leave out what was there all the time, or show anything twice, unless   *)
(* it stands on a deleted instance.                                        *)
THEOREM ListsAll == Spec => []ListingComplete
<1>1. Init => Uses /\ Promises BY UsesStart, PromisesStart
<1>2. Uses /\ Promises /\ [Next]_vars => Uses' /\ Promises'
  BY StepsKeepUses, StepsKeepPromises
<1>3. Uses /\ Promises => ListingComplete
  <2> SUFFICES ASSUME Uses, Promises, NEW h \in Handles
               PROVE  LET hd == handle[h]
                      IN  /\ hd.kind = "done" => hd.owed = {}
                          /\ hd.kind \notin {"none", "done"} /\ hd.cur /= None /\ ~ Astray(hd)
                               => /\ hd.owed \subseteq Range(Rest(hd))
                                  /\ hd.shown \cap Range(Rest(hd)) = {}
    BY DEF ListingComplete
  <2> DEFINE hd == handle[h]
             l == Line(hd)
             r == Rest(hd)
  <2>1. hd \in Listing /\ Settled(hd) /\ Due(hd) /\ Lists BY DEF Uses, Promises
  <2> HIDE DEF hd
  <2>2. SUFFICES ASSUME hd.kind \notin {"none", "done"}, hd.cur # None, ~ Astray(hd)
                 PROVE  /\ hd.owed \subseteq Range(r)
                        /\ hd.shown \cap Range(r) = {}
    BY <2>1 DEF Due, hd
  <2>3. Stands(hd) BY <2>1, <2>2 DEF Settled
  <2>4. /\ l \in Seq(Instances) /\ NoDuplicates(l) /\ ListFind(l, hd.cur)
        /\ r \in Seq(Instances)
    BY <2>1, <2>2, <2>3, LineFacts, RestOfLine
  <2>5. l # <<>> BY <2>4 DEF ListFind
  <2>6. PICK at \in 1..Len(l) : r = SubSeq(l, at, Len(l)) /\ l[at] = hd.cur
    BY <2>1, <2>2, <2>3, <2>5, RestStarts
  <2>7. /\ \A x \in hd.owed : Follows(l, hd.cur, x)
        /\ \A x \in hd.shown : ~ Follows(l, hd.cur, x)
    BY <2>1, <2>2, <2>3 DEF Due
  <2> HIDE DEF l, r
  <2>8. /\ Len(r) = Len(l) - at + 1
        /\ \A k \in 1..Len(l) - at + 1 : r[k] = l[at + k - 1]
    BY <2>4, <2>6, SuffixFacts
  <2>9. DOMAIN r = 1..Len(r) BY <2>4, LenProperties
  <2>10. ASSUME NEW x, Follows(l, hd.cur, x) PROVE x \in Range(r)
    <3>1. PICK i, j \in 1..Len(l) : i <= j /\ l[i] = hd.cur /\ l[j] = x
      BY <2>10 DEF Follows
    <3>2. i = at BY <2>4, <2>6, <3>1 DEF NoDuplicates
    <3>3. j - at + 1 \in 1..Len(l) - at + 1 /\ at + (j - at + 1) - 1 = j
      BY <2>4, <3>1, <3>2
    <3>4. QED BY <2>8, <2>9, <3>1, <3>3 DEF Range
  <2>11. ASSUME NEW x, x \in Range(r) PROVE Follows(l, hd.cur, x)
    <3>1. PICK k \in 1..Len(l) - at + 1 : l[at + k - 1] = x
      BY <2>8, <2>9, <2>11 DEF Range
    <3>2. at + k - 1 \in 1..Len(l) /\ at <= at + k - 1 BY <2>4, <2>6, <3>1
    <3>3. QED BY <2>6, <3>1, <3>2 DEF Follows
  <2>12. QED BY <2>7, <2>10, <2>11
<1>4. QED BY <1>1, <1>2, <1>3, PTL DEF Spec

=============================================================================
