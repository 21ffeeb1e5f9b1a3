---------------------------- MODULE ObjectsProofs ----------------------------
(***************************************************************************)
(* Theorems about Objects, for any finite set of names, any depth of the   *)
(* search and any number of calls: the types; no rule is an input of an    *)
(* input of itself; what the user says of an object's state goes before    *)
(* what the program says; what the program has created stays; and, as long *)
(* as the calls are of the simple kind, the chain of each object holds the *)
(* rules that have it for an input, and a test that is made ready reaches  *)
(* all that it feeds.                                                      *)
(*                                                                         *)
(* The invariant is Good, of the database, and the history: what is made.  *)
(* Every call is a few changes one after the other, and each change is one *)
(* of three kinds: it touches only pointers and shortens lists of inputs   *)
(* (Tame), it finds or makes an object (Extends), or it sets the state of  *)
(* one object (StateSettled); and one input is linked at a time, after a   *)
(* search that did not find it (LinkGood).  The folds over the inputs of a *)
(* rule and over what a chain visits are handled first, for any function.  *)
(*                                                                         *)
(* Of the simple calls there is a second invariant, Wired: the chain from  *)
(* the head of each object is what has it for an input, each rule once     *)
(* (Hung), and a rule has one input at most (Neat).  A chain is the least  *)
(* set that holds its head and what is next of all that it holds           *)
(* (ChainCloses, ChainLeast), so no walk need be counted; and while a call *)
(* works on one rule, Hung is kept with the heads it is about to restore   *)
(* (HungBut).                                                              *)
(***************************************************************************)
EXTENDS Objects, MyreflListProofs, FiniteSetTheorems, WellFoundedInduction

-----------------------------------------------------------------------------
(* What a fold comes to: a fact that every step of it keeps.  The smallest *)
(* part of the set for which it fails is not empty, and one element less   *)
(* is smaller still.                                                       *)

LEMMA SmallestSet ==
    ASSUME NEW D, IsFiniteSet(D), NEW B, B \subseteq SUBSET D, B # {}
    PROVE  \E s \in B : \A t \in B : t \subseteq s => t = s
<1>1. IsWellFoundedOn(StrictSubsetOrdering(D), FiniteSubsetsOf(D))
  BY FS_StrictSubsetOrderingWellFounded
<1>2. B \subseteq FiniteSubsetsOf(D) BY FS_FiniteSubsetsOfFinite
<1>3. PICK s \in B : \A t \in B : ~ (<<t, s>> \in StrictSubsetOrdering(D))
  BY <1>1, <1>2, WFMin
<1>4. QED BY <1>3 DEF StrictSubsetOrdering

LEMMA EverySubset ==
    ASSUME NEW D, IsFiniteSet(D), NEW G, {} \in G,
           \A s \in SUBSET D : s # {} => \E x \in s : s \ {x} \in G => s \in G
    PROVE  SUBSET D \subseteq G
<1> DEFINE B == {s \in SUBSET D : s \notin G}
<1> SUFFICES ASSUME B # {} PROVE FALSE
  OBVIOUS
<1>1. PICK s \in B : \A t \in B : t \subseteq s => t = s
  <2>1. B \subseteq SUBSET D OBVIOUS
  <2> HIDE DEF B
  <2>2. QED BY <2>1, SmallestSet
<1>2. PICK x \in s : s \ {x} \in G => s \in G BY <1>1
<1>3. s \ {x} \in G BY <1>1, <1>2
<1>4. QED BY <1>1, <1>2, <1>3

(* g folds F over the subsets of D, which takes away what pick picks *)
Folds(g, D, base, F, pick) ==
    g = [s \in SUBSET D |-> IF s = {} THEN base ELSE F[pick[s]][g[s \ {pick[s]}]]]
FoldOf(D, base, F, pick) == CHOOSE g : Folds(g, D, base, F, pick)

FoldStep(s, base, F, pick, v) == IF s = {} THEN base ELSE F[pick[s]][v[s \ {pick[s]}]]

LEMMA FoldParts ==
    ASSUME NEW g, NEW D, NEW base, NEW F, NEW pick, Folds(g, D, base, F, pick),
           NEW s \in SUBSET D
    PROVE  g[s] = FoldStep(s, base, F, pick, g)
BY DEF Folds, FoldStep

LEMMA FoldsAgree ==
    ASSUME NEW D, IsFiniteSet(D), NEW E, NEW base, NEW F, NEW pick,
           \A s \in SUBSET D : s # {} => pick[s] \in s,
           NEW g, NEW h, Folds(g, D, base, F, pick), Folds(h, E, base, F, pick),
           E \subseteq D, NEW s \in SUBSET E
    PROVE  g[s] = h[s]
<1> DEFINE G == {t \in SUBSET E : g[t] = h[t]}
<1>1. {} \in G
  <2>1. g[{}] = FoldStep({}, base, F, pick, g) /\ h[{}] = FoldStep({}, base, F, pick, h)
    BY FoldParts
  <2>2. QED BY <2>1 DEF FoldStep
<1>2. ASSUME NEW t \in SUBSET E, t # {}, t \ {pick[t]} \in G PROVE t \in G
  <2>1. g[t] = FoldStep(t, base, F, pick, g) /\ h[t] = FoldStep(t, base, F, pick, h)
    BY FoldParts
  <2>2. QED BY <1>2, <2>1 DEF FoldStep
<1>3. \A t \in SUBSET E : t # {} => \E x \in t : t \ {x} \in G => t \in G
  BY <1>2
<1>4. IsFiniteSet(E) BY FS_Subset
<1> HIDE DEF G
<1>5. SUBSET E \subseteq G BY <1>1, <1>3, <1>4, EverySubset
<1>6. QED BY <1>5 DEF G

LEMMA FoldExists ==
    ASSUME NEW T, IsFiniteSet(T), NEW base, NEW F, NEW pick,
           \A s \in SUBSET T : s # {} => pick[s] \in s
    PROVE  Folds(FoldOf(T, base, F, pick), T, base, F, pick)
<1> DEFINE is(D) == Folds(FoldOf(D, base, F, pick), D, base, F, pick)
           B == {D \in SUBSET T : ~ is(D)}
<1> SUFFICES ASSUME B # {} PROVE FALSE
  OBVIOUS
<1>1. PICK D \in B : \A u \in B : u \subseteq D => u = D
  <2>1. B \subseteq SUBSET T OBVIOUS
  <2> HIDE DEF B
  <2>2. QED BY <2>1, SmallestSet
<1>2. \A u \in SUBSET D : u # D => is(u) BY <1>1
<1> DEFINE less(s) == s \ {pick[s]}
           value(s) == FoldOf(less(s), base, F, pick)[less(s)]
           g == [s \in SUBSET D |-> IF s = {} THEN base ELSE F[pick[s]][value(s)]]
<1>3. ASSUME NEW s \in SUBSET D, s # {}
      PROVE  g[less(s)] = value(s)
  <2> DEFINE u == less(s)
             f == FoldOf(u, base, F, pick)
  <2>1. u \in SUBSET D /\ u # D /\ less(u) \in SUBSET u BY <1>1, <1>3
  <2>2. Folds(f, u, base, F, pick) BY <1>2, <2>1
  <2>3. f[u] = FoldStep(u, base, F, pick, f) BY <2>2, FoldParts
  <2>4. CASE u = {} BY <2>1, <2>3, <2>4 DEF FoldStep
  <2>5. CASE u # {}
    <3>1. less(u) # D /\ less(u) \in SUBSET D BY <1>1, <2>1, <2>5
    <3>2. Folds(FoldOf(less(u), base, F, pick), less(u), base, F, pick) BY <1>2, <3>1
    <3>3. IsFiniteSet(u) BY <1>1, <2>1, FS_Subset
    <3>4. \A t \in SUBSET u : t # {} => pick[t] \in t BY <1>1, <2>1
    <3>5. f[less(u)] = FoldOf(less(u), base, F, pick)[less(u)]
      <4> HIDE DEF f
      <4>1. less(u) \in SUBSET less(u) OBVIOUS
      <4>2. QED BY <2>1, <2>2, <3>2, <3>3, <3>4, <4>1, FoldsAgree
    <3>6. g[u] = F[pick[u]][value(u)] BY <2>1, <2>5
    <3>7. QED BY <2>3, <2>5, <3>5, <3>6 DEF FoldStep
  <2>6. QED BY <2>4, <2>5
<1>4. Folds(g, D, base, F, pick)
  <2> DEFINE step(s) == IF s = {} THEN base ELSE F[pick[s]][g[less(s)]]
  <2>1. \A s \in SUBSET D : g[s] = step(s)
    <3> SUFFICES ASSUME NEW s \in SUBSET D PROVE g[s] = step(s)
      OBVIOUS
    <3>1. CASE s = {} BY <3>1
    <3>2. CASE s # {}
      <4>1. g[s] = F[pick[s]][value(s)] BY <3>2
      <4>2. g[less(s)] = value(s) BY <1>3, <3>2
      <4>3. step(s) = F[pick[s]][g[less(s)]] BY <3>2
      <4> HIDE DEF g, value, step, less
      <4>4. QED BY <4>1, <4>2, <4>3
    <3>3. QED BY <3>1, <3>2
  <2>2. g = [s \in SUBSET D |-> step(s)]
    <3> HIDE DEF step
    <3>1. QED BY <2>1
  <2> HIDE DEF g
  <2>3. QED BY <2>2 DEF Folds
<1>5. is(D)
  <2> HIDE DEF g
  <2>1. \E h : Folds(h, D, base, F, pick) BY <1>4
  <2>2. QED BY <2>1 DEF FoldOf
<1>6. QED BY <1>1, <1>5

(* As long as it starts in V and no step of it leads out of V *)
LEMMA FoldStays ==
    ASSUME NEW T, IsFiniteSet(T), NEW V, NEW base \in V, NEW F \in [T -> [V -> V]],
           NEW pick, \A s \in SUBSET T : s # {} => pick[s] \in s,
           NEW g, Folds(g, T, base, F, pick)
    PROVE  \A s \in SUBSET T : g[s] \in V
<1> DEFINE G == {s \in SUBSET T : g[s] \in V}
<1>1. {} \in G
  <2>1. g[{}] = FoldStep({}, base, F, pick, g) BY FoldParts
  <2>2. QED BY <2>1 DEF FoldStep
<1>2. ASSUME NEW s \in SUBSET T, s # {}, s \ {pick[s]} \in G PROVE s \in G
  <2>0. g[s] = FoldStep(s, base, F, pick, g) BY FoldParts
  <2>1. g[s] = F[pick[s]][g[s \ {pick[s]}]] BY <1>2, <2>0 DEF FoldStep
  <2>2. F[pick[s]] \in [V -> V] /\ g[s \ {pick[s]}] \in V BY <1>2
  <2>3. QED BY <2>1, <2>2
<1>3. \A s \in SUBSET T : s # {} => \E x \in s : s \ {x} \in G => s \in G
  BY <1>2
<1> HIDE DEF G
<1>4. SUBSET T \subseteq G BY <1>1, <1>3, EverySubset
<1>5. QED BY <1>4 DEF G

FoldsIn(T, V, base, F, pick) == \E g \in [SUBSET T -> V] : Folds(g, T, base, F, pick)

LEMMA Folded ==
    ASSUME NEW T, IsFiniteSet(T), NEW V, NEW base \in V, NEW F, F \in [T -> [V -> V]],
           NEW pick, \A s \in SUBSET T : s # {} => pick[s] \in s
    PROVE  FoldsIn(T, V, base, F, pick)
<1> DEFINE g == FoldOf(T, base, F, pick)
<1>1. Folds(g, T, base, F, pick)
  <2> HIDE DEF g
  <2>1. Folds(FoldOf(T, base, F, pick), T, base, F, pick) BY FoldExists
  <2>2. QED BY <2>1 DEF g
<1> HIDE DEF g
<1>2. \A s \in SUBSET T : g[s] \in V BY <1>1, FoldStays
<1>3. g = [s \in SUBSET T |-> g[s]] BY <1>1 DEF Folds
<1>4. g \in [SUBSET T -> V] BY <1>2, <1>3
<1>5. QED BY <1>1, <1>4 DEF FoldsIn

LEMMA MaxIn ==
    ASSUME NEW n \in Nat, NEW s \in SUBSET (1..n), s # {}
    PROVE  Max(s) \in s /\ \A x \in s : Max(s) >= x
<1> DEFINE D == 1..n
           G == {t \in SUBSET D : t = {} \/ \E m \in t : \A x \in t : m >= x}
<1>1. {} \in G OBVIOUS
<1>2. ASSUME NEW t \in SUBSET D, t # {}, NEW y \in t, t \ {y} \in G PROVE t \in G
  <2>1. CASE t \ {y} = {}
    <3>1. \A x \in t : y >= x BY <2>1
    <3>2. QED BY <1>2, <3>1
  <2>2. CASE t \ {y} # {}
    <3>1. PICK m \in t \ {y} : \A x \in t \ {y} : m >= x BY <1>2, <2>2
    <3>2. CASE m >= y
      <4>1. \A x \in t : m >= x BY <3>1, <3>2
      <4>2. QED BY <1>2, <3>1, <4>1
    <3>3. CASE ~ (m >= y)
      <4>1. \A x \in t : y >= x BY <1>2, <3>1, <3>3
      <4>2. QED BY <1>2, <4>1
    <3>4. QED BY <3>2, <3>3
  <2>3. QED BY <2>1, <2>2
<1>3. \A t \in SUBSET D : t # {} => \E x \in t : t \ {x} \in G => t \in G
  BY <1>2
<1>4. IsFiniteSet(D) BY FS_Interval
<1> HIDE DEF G
<1>5. s \in G
  <2> HIDE DEF D
  <2>1. SUBSET D \subseteq G BY <1>1, <1>3, <1>4, EverySubset
  <2>2. QED BY <2>1 DEF D
<1>6. PICK m \in s : \A x \in s : m >= x BY <1>5 DEF G
<1>7. QED BY <1>6 DEF Max

-----------------------------------------------------------------------------
(* What is true of the database between any two calls *)

Words == {"INITIALIZED", "ENABLED", "DISABLED"}
DBs ==
    [lives : [Names -> 0..Lives],
     kind : [Objs -> {"NONE", "TEST", "RULE", "ACTION"}],
     state : [Objs -> States],
     dflt : [Objs -> Words], cli : [Objs -> Words],
     inputs : [Objs -> Seq(Objs)],
     head : [Objs -> Objs \cup {None}],
     ref : [Objs -> Objs \cup {None}],
     next : [Objs -> Objs \cup {None}],
     acts : SUBSET (Objs \X Objs)]

(* What has not been made yet is as it will be found when it is *)
Fresh(d) ==
    \A o \in Objs : d.lives[o[1]] < o[2] => d.state[o] = "INITIALIZED" /\ d.kind[o] = "NONE"
KindsFit(d) == \A o \in Objs : d.kind[o] \in {"NONE", Kind(o[1])}

Edge(d, r, i) == ListFind(d.inputs[r], i)
RulesOnly(d) == \A r, i \in Objs : Edge(d, r, i) => d.kind[r] = "RULE"
NoLoops(d) ==
    \A r, i, j \in Objs :
        r # i /\ Edge(d, r, i) /\ Edge(d, i, j) => j # r /\ ~ Edge(d, j, r)
LastWord(d) ==
    \A o \in Objs :
        d.state[o] \in {"ENABLED", "DISABLED"} => d.cli[o] \in {d.state[o], "INITIALIZED"}

Good(d) == d \in DBs /\ Fresh(d) /\ KindsFit(d) /\ RulesOnly(d) /\ NoLoops(d) /\ LastWord(d)

(* From d to e no object changes but for what it points to, and no list of *)
(* inputs gets longer                                                      *)
Tame(d, e) ==
    /\ e \in DBs
    /\ e.lives = d.lives /\ e.kind = d.kind /\ e.state = d.state
    /\ e.dflt = d.dflt /\ e.cli = d.cli
    /\ \A r, i \in Objs : Edge(e, r, i) => Edge(d, r, i)

LEMMA TameGood ==
    ASSUME NEW d, NEW e, Good(d), Tame(d, e)
    PROVE  Good(e)
<1>1. Fresh(e) /\ KindsFit(e) /\ LastWord(e) BY DEF Good, Tame, Fresh, KindsFit, LastWord
<1>2. RulesOnly(e) BY DEF Good, Tame, RulesOnly
<1>3. NoLoops(e) BY DEF Good, Tame, NoLoops
<1>4. QED BY <1>1, <1>2, <1>3 DEF Good, Tame

LEMMA TameTwice ==
    ASSUME NEW d, NEW e, NEW f, Tame(d, e), Tame(e, f)
    PROVE  Tame(d, f)
BY DEF Tame

(* A change of pointers only *)
LEMMA TamePointers ==
    ASSUME NEW d \in DBs, NEW e \in DBs,
           e.lives = d.lives, e.kind = d.kind, e.state = d.state,
           e.dflt = d.dflt, e.cli = d.cli, e.inputs = d.inputs
    PROVE  Tame(d, e)
BY DEF Tame, Edge

LEMMA SetHeadTame ==
    ASSUME NEW d \in DBs, NEW o \in Objs, NEW r \in Objs \cup {None}
    PROVE  Tame(d, SetHead(d, o, r))
<1> DEFINE e == SetHead(d, o, r)
<1>1. e \in DBs BY DEF SetHead, DBs
<1>2. /\ e.lives = d.lives /\ e.kind = d.kind /\ e.state = d.state
      /\ e.dflt = d.dflt /\ e.cli = d.cli /\ e.inputs = d.inputs
  BY DEF SetHead, DBs
<1> HIDE DEF e
<1>3. QED BY <1>1, <1>2, TamePointers DEF e

LEMMA HeadOfType ==
    ASSUME NEW d \in DBs, NEW o \in Objs
    PROVE  HeadOf(d, o) \in Objs \cup {None}
BY DEF HeadOf, DBs

LEMMA LeaveTame ==
    ASSUME NEW d \in DBs, NEW r \in Objs, NEW i \in Objs
    PROVE  Tame(d, Leave(d, r, i))
<1>1. d.next[r] \in Objs \cup {None} BY DEF DBs
<1>2. CASE HeadOf(d, i) = r
  BY <1>1, <1>2, SetHeadTame DEF Leave
<1>3. CASE HeadOf(d, i) # r
  <2> DEFINE chain == Chain(d, HeadOf(d, i))
             next == [x \in Objs |-> IF x \in chain /\ d.next[x] = r THEN d.next[r] ELSE d.next[x]]
             e == [d EXCEPT !.next = next]
  <2>1. Leave(d, r, i) = e BY <1>3 DEF Leave
  <2>2. next \in [Objs -> Objs \cup {None}] BY <1>1 DEF DBs
  <2> HIDE DEF next
  <2>3. e \in DBs BY <2>2 DEF DBs
  <2>4. QED BY <2>1, <2>3, TamePointers DEF DBs
<1>4. QED BY <1>2, <1>3

LEMMA DeleteLeaveTame ==
    ASSUME NEW d \in DBs, NEW r \in Objs, NEW i \in Objs
    PROVE  Tame(d, DeleteLeave(d, r, i))
<1>1. d.next[r] \in Objs \cup {None} BY DEF DBs
<1>2. CASE HeadOf(d, i) = r
  <2> DEFINE e == SetHead(d, i, d.next[r])
             f == [e EXCEPT !.next[r] = None]
  <2>1. Tame(d, e) BY <1>1, SetHeadTame
  <2>2. e \in DBs BY <2>1 DEF Tame
  <2>3. DeleteLeave(d, r, i) = f BY <1>2 DEF DeleteLeave
  <2> HIDE DEF e
  <2>4. f \in DBs BY <2>2 DEF DBs
  <2>5. /\ f.lives = e.lives /\ f.kind = e.kind /\ f.state = e.state
        /\ f.dflt = e.dflt /\ f.cli = e.cli /\ f.inputs = e.inputs
    BY <2>2 DEF DBs
  <2> HIDE DEF f
  <2>7. Tame(e, f) BY <2>2, <2>4, <2>5, TamePointers
  <2>6. QED BY <2>1, <2>3, <2>7, TameTwice
<1>3. CASE HeadOf(d, i) # r
  BY <1>3, LeaveTame DEF DeleteLeave
<1>4. QED BY <1>2, <1>3

LEMMA TameSelf ==
    ASSUME NEW d \in DBs
    PROVE  Tame(d, d)
BY DEF Tame

(* Lists *)

LEMMA RemoveShrinks ==
    ASSUME NEW S, NEW l \in Seq(S), NEW x, NEW y, ListFind(ListRemove(l, x), y)
    PROVE  ListFind(l, y)
<1>1. CASE ~ ListFind(l, x) BY <1>1, RemoveFacts
<1>2. CASE ListFind(l, x)
  <2>1. /\ Len(l) \in Nat \ {0}
        /\ Len(ListRemove(l, x)) = Len(l) - 1
        /\ \A k \in 1..Len(l) - 1 : ListRemove(l, x)[k] \in {l[k], l[k + 1]}
    BY <1>2, RemoveFacts
  <2>2. PICK k \in 1..Len(l) - 1 : ListRemove(l, x)[k] = y BY <2>1 DEF ListFind
  <2>3. k \in 1..Len(l) /\ k + 1 \in 1..Len(l) BY <2>1, <2>2
  <2>4. QED BY <2>1, <2>2, <2>3 DEF ListFind
<1>3. QED BY <1>1, <1>2

LEMMA AddFacts ==
    ASSUME NEW S, NEW l \in Seq(S), NEW x \in S
    PROVE  /\ ListAdd(l, x) \in Seq(S)
           /\ \A y : ListFind(ListAdd(l, x), y) => ListFind(l, y) \/ y = x
<1>1. CASE ListFind(l, x) BY <1>1 DEF ListAdd, ListInsert
<1>2. CASE ~ ListFind(l, x)
  <2>1. 0 \in 0..Len(l) OBVIOUS
  <2>2. ListInsert(l, 0, x) \in Seq(S) BY <1>2, <2>1, InsertFacts
  <2>3. ASSUME NEW y, ListFind(ListInsert(l, 0, x), y) PROVE ListFind(l, y) \/ y = x
    BY <1>2, <2>1, <2>3, InsertFind
  <2>4. QED BY <2>2, <2>3 DEF ListAdd
<1>3. QED BY <1>1, <1>2

-----------------------------------------------------------------------------
(* Folds over a list take the last of its places first *)

LEMMA OneByOne ==
    ASSUME NEW n \in Nat, NEW V, NEW it, it[{}] \in V,
           \A s \in SUBSET (1..n) : s # {} /\ it[s \ {Max(s)}] \in V => it[s] \in V
    PROVE  it[1..n] \in V
<1> DEFINE T == 1..n
           G == {s \in SUBSET T : it[s] \in V}
<1>1. IsFiniteSet(T) BY FS_Interval
<1>2. {} \in G OBVIOUS
<1>3. \A s \in SUBSET T : s # {} => \E x \in s : s \ {x} \in G => s \in G
  BY MaxIn
<1>4. SUBSET T \subseteq G
  <2> HIDE DEF G, T
  <2>1. QED BY <1>1, <1>2, <1>3, EverySubset
<1>5. QED BY <1>4

(* it takes n things one by one, the k-th of them by F[k] *)
TakesOneByOne(it, n, base, F) ==
    \A s \in SUBSET (1..n) :
        it[s] = IF s = {} THEN base ELSE F[Max(s)][it[s \ {Max(s)}]]
OneByOneIn(n, V, base, F) == \E it \in [SUBSET (1..n) -> V] : TakesOneByOne(it, n, base, F)

LEMMA OneByOneIs ==
    ASSUME NEW n \in Nat, NEW V, NEW base \in V, NEW F, F \in [1..n -> [V -> V]]
    PROVE  OneByOneIn(n, V, base, F)
<1> DEFINE T == 1..n
           pick == [s \in SUBSET T |-> Max(s)]
<1>1. IsFiniteSet(T) BY FS_Interval
<1>2. \A s \in SUBSET T : s # {} => pick[s] \in s BY MaxIn
<1>3. PICK g \in [SUBSET T -> V] : Folds(g, T, base, F, pick)
  <2>1. F \in [T -> [V -> V]] OBVIOUS
  <2> HIDE DEF pick, T
  <2>2. FoldsIn(T, V, base, F, pick) BY <1>1, <1>2, <2>1, Folded
  <2>3. QED BY <2>2 DEF FoldsIn
<1>4. \A s \in SUBSET T :
         g[s] = IF s = {} THEN base ELSE F[Max(s)][g[s \ {Max(s)}]]
  <2> SUFFICES ASSUME NEW s \in SUBSET T
               PROVE  g[s] = IF s = {} THEN base ELSE F[Max(s)][g[s \ {Max(s)}]]
    OBVIOUS
  <2>1. g[s] = FoldStep(s, base, F, pick, g)
    <3> HIDE DEF pick, T
    <3>1. QED BY <1>3, FoldParts
  <2>2. pick[s] = Max(s) OBVIOUS
  <2> HIDE DEF pick
  <2>3. QED BY <2>1, <2>2 DEF FoldStep
<1> HIDE DEF pick
<1>5. QED BY <1>3, <1>4 DEF OneByOneIn, TakesOneByOne

-----------------------------------------------------------------------------
(* A rule leaves the chains of all of its inputs *)

(* it leaves the inputs of l, one by one *)
LeavesBy(it, d, r, l) ==
    /\ FoldLeft(LAMBDA x, j : Leave(x, r, j), d, l) = it[1..Len(l)]
    /\ \A s \in SUBSET (1..Len(l)) :
          it[s] = IF s = {} THEN d ELSE Leave(it[s \ {Max(s)}], r, l[Max(s)])

LEMMA LeaveSteps ==
    ASSUME NEW d \in DBs, NEW r \in Objs, NEW l \in Seq(Objs)
    PROVE  \E it : LeavesBy(it, d, r, l)
<1> DEFINE n == Len(l)
           F == [k \in 1..n |-> [e \in DBs |-> Leave(e, r, l[k])]]
           Follows(it) ==
               it = [s \in SUBSET (1..n) |->
                        IF s = {} THEN d ELSE Leave(it[s \ {Max(s)}], r, l[Max(s)])]
           it == CHOOSE it : Follows(it)
<1>1. n \in Nat /\ DOMAIN l = 1..n OBVIOUS
<1>2. \A k \in 1..n, e \in DBs : Leave(e, r, l[k]) \in DBs
  <2> SUFFICES ASSUME NEW k \in 1..n, NEW e \in DBs PROVE Leave(e, r, l[k]) \in DBs
    OBVIOUS
  <2>1. l[k] \in Objs OBVIOUS
  <2>2. QED BY <2>1, LeaveTame DEF Tame
<1>3. PICK g \in [SUBSET (1..n) -> DBs] : TakesOneByOne(g, n, d, F)
  <2>1. F \in [1..n -> [DBs -> DBs]] BY <1>2
  <2> HIDE DEF n, F
  <2>2. OneByOneIn(n, DBs, d, F) BY <1>1, <2>1, OneByOneIs
  <2>3. QED BY <2>2 DEF OneByOneIn
<1>4. \A s \in SUBSET (1..n) :
         s # {} => Max(s) \in 1..n /\ s \ {Max(s)} \in SUBSET (1..n)
  BY <1>1, MaxIn
<1>5. Follows(g)
  <2>1. \A s \in SUBSET (1..n) :
           s # {} => F[Max(s)][g[s \ {Max(s)}]] = Leave(g[s \ {Max(s)}], r, l[Max(s)])
    BY <1>3, <1>4
  <2>2. \A s \in SUBSET (1..n) :
           g[s] = IF s = {} THEN d ELSE Leave(g[s \ {Max(s)}], r, l[Max(s)])
    BY <1>3, <2>1 DEF TakesOneByOne
  <2>3. g = [s \in SUBSET (1..n) |-> g[s]] BY <1>3
  <2> HIDE DEF F, n
  <2>4. QED BY <2>2, <2>3
<1>6. Follows(it)
  <2> HIDE DEF Follows
  <2>1. QED BY <1>5
<1>7. FoldLeft(LAMBDA x, j : Leave(x, r, j), d, l) = it[1..n]
  BY <1>1 DEF FoldLeft, MapThenFoldSet
<1> HIDE DEF it
<1>8. \A s \in SUBSET (1..n) :
         it[s] = IF s = {} THEN d ELSE Leave(it[s \ {Max(s)}], r, l[Max(s)])
  BY <1>6
<1>9. QED BY <1>7, <1>8 DEF LeavesBy

LEMMA LeaveAll ==
    ASSUME NEW d \in DBs, NEW r \in Objs, NEW l \in Seq(Objs)
    PROVE  Tame(d, FoldLeft(LAMBDA x, j : Leave(x, r, j), d, l))
<1> DEFINE n == Len(l)
           V == {e \in DBs : Tame(d, e)}
<1>1. PICK it : LeavesBy(it, d, r, l) BY LeaveSteps
<1>2. n \in Nat /\ d \in V BY TameSelf
<1>3. \A s \in SUBSET (1..n) :
         it[s] = IF s = {} THEN d ELSE Leave(it[s \ {Max(s)}], r, l[Max(s)])
  BY <1>1 DEF LeavesBy
<1>4. it[{}] \in V BY <1>2, <1>3
<1>5. ASSUME NEW s \in SUBSET (1..n), s # {}, it[s \ {Max(s)}] \in V
      PROVE  it[s] \in V
  <2> DEFINE e == it[s \ {Max(s)}]
             j == l[Max(s)]
  <2>1. it[s] = Leave(e, r, j) BY <1>3, <1>5
  <2>2. Max(s) \in 1..n BY <1>2, <1>5, MaxIn
  <2>3. e \in DBs /\ Tame(d, e) /\ j \in Objs BY <1>5, <2>2
  <2> HIDE DEF e, j
  <2>4. Tame(e, Leave(e, r, j)) BY <2>3, LeaveTame
  <2>5. QED BY <2>1, <2>3, <2>4, TameTwice DEF Tame
<1> HIDE DEF V, n
<1>6. it[1..n] \in V BY <1>2, <1>4, <1>5, OneByOne
<1>7. QED BY <1>1, <1>6 DEF LeavesBy, V, n

(* it leaves the inputs of l, one by one, as r is deleted *)
DeleteLeavesBy(it, d, r, l) ==
    /\ FoldLeft(LAMBDA e, i : DeleteLeave(e, r, i), d, l) = it[1..Len(l)]
    /\ \A s \in SUBSET (1..Len(l)) :
          it[s] = IF s = {} THEN d ELSE DeleteLeave(it[s \ {Max(s)}], r, l[Max(s)])

LEMMA DeleteLeaveSteps ==
    ASSUME NEW d \in DBs, NEW r \in Objs, NEW l \in Seq(Objs)
    PROVE  \E it : DeleteLeavesBy(it, d, r, l)
<1> DEFINE n == Len(l)
           F == [k \in 1..n |-> [e \in DBs |-> DeleteLeave(e, r, l[k])]]
           Follows(it) ==
               it = [s \in SUBSET (1..n) |->
                        IF s = {} THEN d ELSE DeleteLeave(it[s \ {Max(s)}], r, l[Max(s)])]
           it == CHOOSE it : Follows(it)
<1>1. n \in Nat /\ DOMAIN l = 1..n OBVIOUS
<1>2. \A k \in 1..n, e \in DBs : DeleteLeave(e, r, l[k]) \in DBs
  <2> SUFFICES ASSUME NEW k \in 1..n, NEW e \in DBs PROVE DeleteLeave(e, r, l[k]) \in DBs
    OBVIOUS
  <2>1. l[k] \in Objs OBVIOUS
  <2>2. QED BY <2>1, DeleteLeaveTame DEF Tame
<1>3. PICK g \in [SUBSET (1..n) -> DBs] : TakesOneByOne(g, n, d, F)
  <2>1. F \in [1..n -> [DBs -> DBs]] BY <1>2
  <2> HIDE DEF n, F
  <2>2. OneByOneIn(n, DBs, d, F) BY <1>1, <2>1, OneByOneIs
  <2>3. QED BY <2>2 DEF OneByOneIn
<1>4. \A s \in SUBSET (1..n) :
         s # {} => Max(s) \in 1..n /\ s \ {Max(s)} \in SUBSET (1..n)
  BY <1>1, MaxIn
<1>5. Follows(g)
  <2>1. \A s \in SUBSET (1..n) :
           s # {} => F[Max(s)][g[s \ {Max(s)}]] = DeleteLeave(g[s \ {Max(s)}], r, l[Max(s)])
    BY <1>3, <1>4
  <2>2. \A s \in SUBSET (1..n) :
           g[s] = IF s = {} THEN d ELSE DeleteLeave(g[s \ {Max(s)}], r, l[Max(s)])
    BY <1>3, <2>1 DEF TakesOneByOne
  <2>3. g = [s \in SUBSET (1..n) |-> g[s]] BY <1>3
  <2> HIDE DEF F, n
  <2>4. QED BY <2>2, <2>3
<1>6. Follows(it)
  <2> HIDE DEF Follows
  <2>1. QED BY <1>5
<1>7. FoldLeft(LAMBDA e, i : DeleteLeave(e, r, i), d, l) = it[1..n]
  BY <1>1 DEF FoldLeft, MapThenFoldSet
<1> HIDE DEF it
<1>8. \A s \in SUBSET (1..n) :
         it[s] = IF s = {} THEN d ELSE DeleteLeave(it[s \ {Max(s)}], r, l[Max(s)])
  BY <1>6
<1>9. QED BY <1>7, <1>8 DEF DeleteLeavesBy

LEMMA DeleteLeaveAll ==
    ASSUME NEW d \in DBs, NEW r \in Objs, NEW l \in Seq(Objs)
    PROVE  Tame(d, FoldLeft(LAMBDA e, i : DeleteLeave(e, r, i), d, l))
<1> DEFINE n == Len(l)
           V == {e \in DBs : Tame(d, e)}
<1>1. PICK it : DeleteLeavesBy(it, d, r, l) BY DeleteLeaveSteps
<1>2. n \in Nat /\ d \in V BY TameSelf
<1>3. \A s \in SUBSET (1..n) :
         it[s] = IF s = {} THEN d ELSE DeleteLeave(it[s \ {Max(s)}], r, l[Max(s)])
  BY <1>1 DEF DeleteLeavesBy
<1>4. it[{}] \in V BY <1>2, <1>3
<1>5. ASSUME NEW s \in SUBSET (1..n), s # {}, it[s \ {Max(s)}] \in V
      PROVE  it[s] \in V
  <2> DEFINE e == it[s \ {Max(s)}]
             j == l[Max(s)]
  <2>1. it[s] = DeleteLeave(e, r, j) BY <1>3, <1>5
  <2>2. Max(s) \in 1..n BY <1>2, <1>5, MaxIn
  <2>3. e \in DBs /\ Tame(d, e) /\ j \in Objs BY <1>5, <2>2
  <2> HIDE DEF e, j
  <2>4. Tame(e, DeleteLeave(e, r, j)) BY <2>3, DeleteLeaveTame
  <2>5. QED BY <2>1, <2>3, <2>4, TameTwice DEF Tame
<1> HIDE DEF V, n
<1>6. it[1..n] \in V BY <1>2, <1>4, <1>5, OneByOne
<1>7. QED BY <1>1, <1>6 DEF DeleteLeavesBy, V, n

(* it takes off what does not lead to r, one by one *)
Kept(d, r, m, i) == IF r \in Chain(d, HeadOf(d, i)) THEN m ELSE ListRemove(m, i)
KeepsBy(it, d, r, l) ==
    /\ d.kind[r] = "RULE" => Validate(d, r) = [d EXCEPT !.inputs[r] = it[1..Len(l)]]
    /\ \A s \in SUBSET (1..Len(l)) :
          it[s] = IF s = {} THEN l ELSE Kept(d, r, it[s \ {Max(s)}], l[Max(s)])

LEMMA ValidateSteps ==
    ASSUME NEW d \in DBs, NEW r \in Objs
    PROVE  \E it : KeepsBy(it, d, r, d.inputs[r])
<1> DEFINE l == d.inputs[r]
           n == Len(l)
           V == Seq(Objs)
           F == [k \in 1..n |-> [m \in V |-> Kept(d, r, m, l[k])]]
           kept(m, i) == IF r \in Chain(d, HeadOf(d, i)) THEN m ELSE ListRemove(m, i)
           Follows(it) ==
               it = [s \in SUBSET (1..n) |->
                        IF s = {} THEN l ELSE kept(it[s \ {Max(s)}], l[Max(s)])]
           it == CHOOSE it : Follows(it)
<1>1. l \in V /\ n \in Nat /\ DOMAIN l = 1..n BY DEF DBs
<1>2. \A k \in 1..n, m \in V : Kept(d, r, m, l[k]) \in V BY RemoveType DEF Kept
<1>3. PICK g \in [SUBSET (1..n) -> V] : TakesOneByOne(g, n, l, F)
  <2>1. F \in [1..n -> [V -> V]] BY <1>2
  <2> HIDE DEF l, n, V, F
  <2>2. OneByOneIn(n, V, l, F) BY <1>1, <2>1, OneByOneIs
  <2>3. QED BY <2>2 DEF OneByOneIn
<1>4. \A s \in SUBSET (1..n) :
         s # {} => Max(s) \in 1..n /\ s \ {Max(s)} \in SUBSET (1..n)
  BY <1>1, MaxIn
<1>5. Follows(g)
  <2>1. \A s \in SUBSET (1..n) :
           s # {} => F[Max(s)][g[s \ {Max(s)}]] = Kept(d, r, g[s \ {Max(s)}], l[Max(s)])
    BY <1>3, <1>4
  <2>2. \A m, i : Kept(d, r, m, i) = kept(m, i) BY DEF Kept
  <2>3. \A s \in SUBSET (1..n) :
           g[s] = IF s = {} THEN l ELSE Kept(d, r, g[s \ {Max(s)}], l[Max(s)])
    BY <1>3, <2>1 DEF TakesOneByOne
  <2>4. g = [s \in SUBSET (1..n) |-> g[s]] BY <1>3
  <2> HIDE DEF F, n, l, kept, V
  <2>5. QED BY <2>2, <2>3, <2>4
<1>6. Follows(it)
  <2> HIDE DEF Follows
  <2>1. QED BY <1>5
<1>7. d.kind[r] = "RULE" => Validate(d, r) = [d EXCEPT !.inputs[r] = it[1..n]]
  BY <1>1 DEF Validate, FoldLeft, MapThenFoldSet
<1> HIDE DEF it
<1>8. \A s \in SUBSET (1..n) :
         it[s] = IF s = {} THEN l ELSE Kept(d, r, it[s \ {Max(s)}], l[Max(s)])
  BY <1>6 DEF Kept
<1>9. QED BY <1>7, <1>8 DEF KeepsBy

LEMMA ValidateTame ==
    ASSUME NEW d \in DBs, NEW r \in Objs
    PROVE  Tame(d, Validate(d, r))
<1> DEFINE l == d.inputs[r]
           n == Len(l)
           V == {m \in Seq(Objs) : \A x \in Objs : ListFind(m, x) => ListFind(l, x)}
<1>1. l \in Seq(Objs) /\ n \in Nat /\ l \in V BY DEF DBs
<1>2. PICK it : KeepsBy(it, d, r, l) BY ValidateSteps
<1>3. \A s \in SUBSET (1..n) :
         it[s] = IF s = {} THEN l ELSE Kept(d, r, it[s \ {Max(s)}], l[Max(s)])
  BY <1>2 DEF KeepsBy
<1>4. it[{}] \in V BY <1>1, <1>3
<1>5. \A m \in V : \A i : Kept(d, r, m, i) \in V
  <2> SUFFICES ASSUME NEW m \in V, NEW i PROVE Kept(d, r, m, i) \in V
    OBVIOUS
  <2>1. ListRemove(m, i) \in Seq(Objs) BY RemoveType
  <2>2. \A x \in Objs : ListFind(ListRemove(m, i), x) => ListFind(m, x) BY RemoveShrinks
  <2>3. QED BY <2>1, <2>2 DEF Kept
<1>6. ASSUME NEW s \in SUBSET (1..n), s # {}, it[s \ {Max(s)}] \in V
      PROVE  it[s] \in V
  <2> HIDE DEF V, n, l
  <2>1. QED BY <1>3, <1>5, <1>6
<1>7. it[1..n] \in V
  <2> HIDE DEF V, n, l
  <2>1. QED BY <1>1, <1>4, <1>6, OneByOne
<1>8. CASE d.kind[r] # "RULE" BY <1>8, TameSelf DEF Validate
<1>9. CASE d.kind[r] = "RULE"
  <2> DEFINE m == it[1..n]
             e == [d EXCEPT !.inputs[r] = m]
  <2>1. m \in Seq(Objs) /\ \A x \in Objs : ListFind(m, x) => ListFind(l, x) BY <1>7
  <2>2. Validate(d, r) = e BY <1>2, <1>9 DEF KeepsBy
  <2> HIDE DEF m, V, n
  <2>3. e \in DBs BY <2>1 DEF DBs
  <2>4. /\ e.lives = d.lives /\ e.kind = d.kind /\ e.state = d.state
        /\ e.dflt = d.dflt /\ e.cli = d.cli
        /\ e.inputs = [d.inputs EXCEPT ![r] = m]
    BY DEF DBs
  <2>5. d.inputs \in [Objs -> Seq(Objs)] BY DEF DBs
  <2> HIDE DEF e
  <2>6. \A x, y \in Objs : Edge(e, x, y) => Edge(d, x, y)
    BY <2>1, <2>4, <2>5 DEF Edge
  <2>7. QED BY <2>2, <2>3, <2>4, <2>6 DEF Tame
<1>10. QED BY <1>8, <1>9

-----------------------------------------------------------------------------
(* Walks from object to object *)

LEMMA UpTo ==
    ASSUME NEW n \in Nat, NEW V, NEW u, u[0] \in V,
           \A k \in 1..n : u[k - 1] \in V => u[k] \in V
    PROVE  u[n] \in V
<1> DEFINE T == 1..n
           G == {s \in SUBSET T : \A k \in 0..n : s = 1..k => u[k] \in V}
<1>1. IsFiniteSet(T) BY FS_Interval
<1>2. {} \in G
  <2>1. \A k \in 0..n : {} = 1..k => k = 0
    <3> SUFFICES ASSUME NEW k \in 0..n, k # 0 PROVE 1 \in 1..k
      OBVIOUS
    <3>1. QED OBVIOUS
  <2>2. QED BY <2>1
<1>3. ASSUME NEW s \in SUBSET T, s # {}, s \ {Max(s)} \in G PROVE s \in G
  <2> SUFFICES ASSUME NEW k \in 0..n, s = 1..k PROVE u[k] \in V
    OBVIOUS
  <2>1. k \in 1..n BY <1>3
  <2>2. Max(s) \in s /\ \A x \in s : Max(s) >= x BY <1>3, MaxIn
  <2>3. Max(s) = k BY <2>1, <2>2
  <2>4. s \ {Max(s)} = 1..(k - 1) BY <2>1, <2>3
  <2>5. k - 1 \in 0..n BY <2>1
  <2>6. u[k - 1] \in V BY <1>3, <2>4, <2>5
  <2>7. QED BY <2>1, <2>6
<1>4. \A s \in SUBSET T : s # {} => \E x \in s : s \ {x} \in G => s \in G
  BY <1>3, MaxIn
<1>5. SUBSET T \subseteq G
  <2> HIDE DEF G, T
  <2>1. QED BY <1>1, <1>2, <1>4, EverySubset
<1>6. 1..n \in G BY <1>5
<1>7. QED BY <1>6

(* There is a function u that F takes from base to n, step by step *)
StepByStep(u, n, base, F) == \A k \in 0..n : u[k] = IF k = 0 THEN base ELSE F[u[k - 1]]
StepByStepIn(n, V, base, F) == \E u \in [0..n -> V] : StepByStep(u, n, base, F)

LEMMA StepByStepIs ==
    ASSUME NEW n \in Nat, NEW V, NEW base \in V, NEW F, F \in [V -> V]
    PROVE  StepByStepIn(n, V, base, F)
<1> DEFINE Fs == [k \in 1..n |-> F]
<1>1. PICK g \in [SUBSET (1..n) -> V] : TakesOneByOne(g, n, base, Fs)
  <2>1. Fs \in [1..n -> [V -> V]] OBVIOUS
  <2> HIDE DEF Fs
  <2>2. OneByOneIn(n, V, base, Fs) BY <2>1, OneByOneIs
  <2>3. QED BY <2>2 DEF OneByOneIn
<1> DEFINE u == [k \in 0..n |-> g[1..k]]
<1>2. \A k \in 0..n : 1..k \in SUBSET (1..n) OBVIOUS
<1>3. u \in [0..n -> V] BY <1>1, <1>2
<1>4. ASSUME NEW k \in 0..n PROVE u[k] = IF k = 0 THEN base ELSE F[u[k - 1]]
  <2>1. g[1..k] = IF 1..k = {} THEN base ELSE Fs[Max(1..k)][g[(1..k) \ {Max(1..k)}]]
    BY <1>1, <1>2 DEF TakesOneByOne
  <2>2. CASE k = 0 BY <2>1, <2>2
  <2>3. CASE k # 0
    <3>1. 1..k # {} /\ k \in 1..n
      <4>1. 1 \in 1..k BY <2>3
      <4>2. QED BY <2>3, <4>1
    <3>2. Max(1..k) \in 1..k /\ \A x \in 1..k : Max(1..k) >= x BY <1>2, <3>1, MaxIn
    <3>3. Max(1..k) = k BY <3>1, <3>2
    <3>4. (1..k) \ {k} = 1..(k - 1) BY <3>1
    <3>5. Fs[k] = F BY <3>1
    <3>6. u[k - 1] = g[1..(k - 1)] BY <3>1
    <3>7. QED BY <2>1, <2>3, <3>1, <3>3, <3>4, <3>5, <3>6
  <2>4. QED BY <2>2, <2>3
<1> HIDE DEF u
<1>5. QED BY <1>3, <1>4 DEF StepByStepIn, StepByStep

LEMMA ObjsFinite == IsFiniteSet(Objs) /\ Cardinality(Objs) \in Nat
<1>1. IsFiniteSet(1..Lives) BY BoundsAssumption, FS_Interval
<1>2. IsFiniteSet(Objs) BY <1>1, NamesAssumption, FS_Product DEF Objs
<1>3. QED BY <1>2, FS_CardinalityType

(* What visits to all in b add to it *)
Visits(d) ==
    [b \in SUBSET Objs |-> b \cup UNION {{x \in Leads(d, y) : Alive(d, x)} : y \in b}]

(* What is visited from o is what the walk u comes to *)
WalksVisited(u, d, o) ==
    /\ StepByStep(u, Cardinality(Objs), {o} \cap {x \in Objs : Alive(d, x)}, Visits(d))
    /\ Visited(d, o) = u[Cardinality(Objs)]

LEMMA LeadsType ==
    ASSUME NEW d \in DBs, NEW b \in SUBSET Objs
    PROVE  UNION {{x \in Leads(d, y) : Alive(d, x)} : y \in b} \subseteq {x \in Objs : Alive(d, x)}
BY DEF Leads, DBs

LEMMA VisitWalk ==
    ASSUME NEW d \in DBs, NEW o \in Objs
    PROVE  \E u : WalksVisited(u, d, o)
<1> DEFINE n == Cardinality(Objs)
           V == SUBSET Objs
           base == {o} \cap {x \in Objs : Alive(d, x)}
           more(b) == b \cup UNION {{x \in Leads(d, y) : Alive(d, x)} : y \in b}
           F == Visits(d)
           Follows(u) == u = [k \in 0..n |-> IF k = 0 THEN base ELSE more(u[k - 1])]
           u == CHOOSE u : Follows(u)
<1>1. n \in Nat BY ObjsFinite
<1>2. base \in V OBVIOUS
<1>3. \A b \in V : more(b) \in V
  <2>1. \A b \in V : UNION {{x \in Leads(d, y) : Alive(d, x)} : y \in b} \subseteq Objs
    BY LeadsType
  <2>2. QED BY <2>1
<1>4. F \in [V -> V] /\ \A b \in V : F[b] = more(b) BY <1>3 DEF Visits
<1>5. PICK g \in [0..n -> V] : StepByStep(g, n, base, F)
  <2> HIDE DEF n, V, base, F
  <2>1. StepByStepIn(n, V, base, F) BY <1>1, <1>2, <1>4, StepByStepIs
  <2>2. QED BY <2>1 DEF StepByStepIn
<1>6. Follows(g)
  <2>1. \A k \in 0..n : k # 0 => g[k - 1] \in V BY <1>1, <1>5
  <2> HIDE DEF F, V, n, base, more
  <2>2. \A k \in 0..n : k # 0 => F[g[k - 1]] = more(g[k - 1]) BY <1>4, <2>1
  <2>3. \A k \in 0..n : g[k] = IF k = 0 THEN base ELSE more(g[k - 1])
    BY <1>5, <2>2 DEF StepByStep
  <2>4. g = [k \in 0..n |-> g[k]] BY <1>5
  <2>5. QED BY <2>3, <2>4
<1>7. Follows(u)
  <2> HIDE DEF Follows
  <2>1. QED BY <1>6
<1>8. Visited(d, o) = u[n] BY DEF Visited
<1> HIDE DEF u
<1>9. StepByStep(u, n, base, F)
  <2>1. \A k \in 0..n : u[k] = IF k = 0 THEN base ELSE more(u[k - 1])
    <3> HIDE DEF n, base, more
    <3>1. QED BY <1>7
  <2>2. u[0] = base
    <3> HIDE DEF base, more
    <3>1. QED BY <1>1, <2>1
  <2>3. \A k \in 1..n : u[k] = more(u[k - 1])
    <3> HIDE DEF base, more, n
    <3>1. \A k \in 1..n : k \in 0..n /\ k # 0 BY <1>1
    <3>2. QED BY <2>1, <3>1
  <2> HIDE DEF more, F, base, V, n
  <2>4. ASSUME NEW m \in 0..n PROVE u[m] \in V
    <3>1. m \in Nat /\ \A j \in 1..m : j \in 1..n BY <1>1
    <3>2. u[0] \in V BY <1>2, <2>2
    <3>3. \A j \in 1..m : u[j - 1] \in V => u[j] \in V BY <1>3, <2>3, <3>1
    <3>4. QED BY <3>1, <3>2, <3>3, UpTo
  <2>5. ASSUME NEW k \in 1..n PROVE u[k] = F[u[k - 1]]
    <3>1. k - 1 \in 0..n BY <1>1
    <3>2. u[k - 1] \in V BY <2>4, <3>1
    <3>3. QED BY <1>4, <2>3, <3>2
  <2>6. \A k \in 0..n : k # 0 => k \in 1..n BY <1>1
  <2>7. QED BY <2>2, <2>5, <2>6 DEF StepByStep
<1>10. QED BY <1>8, <1>9 DEF WalksVisited

LEMMA VisitedAlive ==
    ASSUME NEW d \in DBs, NEW o \in Objs
    PROVE  Visited(d, o) \subseteq {x \in Objs : Alive(d, x)}
<1> DEFINE n == Cardinality(Objs)
           V == SUBSET {x \in Objs : Alive(d, x)}
           base == {o} \cap {x \in Objs : Alive(d, x)}
           F == Visits(d)
<1>1. PICK u : WalksVisited(u, d, o) BY VisitWalk
<1>2. StepByStep(u, n, base, F) /\ Visited(d, o) = u[n] BY <1>1 DEF WalksVisited
<1>3. n \in Nat /\ base \in V BY ObjsFinite
<1>4. ASSUME NEW b \in V PROVE F[b] \in V
  <2>1. b \in SUBSET Objs OBVIOUS
  <2>2. UNION {{x \in Leads(d, y) : Alive(d, x)} : y \in b} \subseteq {x \in Objs : Alive(d, x)}
    BY <2>1, LeadsType
  <2>3. QED BY <2>1, <2>2 DEF Visits
<1> HIDE DEF n, V, base, F
<1>5. u[0] \in V BY <1>2, <1>3 DEF StepByStep
<1>6. ASSUME NEW k \in 1..n, u[k - 1] \in V PROVE u[k] \in V
  <2>1. k \in 0..n /\ k # 0 BY <1>3
  <2>2. u[k] = F[u[k - 1]] BY <1>2, <2>1 DEF StepByStep
  <2>3. QED BY <1>4, <1>6, <2>2
<1>7. u[n] \in V BY <1>3, <1>5, <1>6, UpTo
<1>8. QED BY <1>2, <1>7 DEF V

(* The rules that have the target or one of b for an input *)
Seekers(d, target, b) ==
    {x \in Objs : d.kind[x] = "RULE" /\ \E j \in DOMAIN d.inputs[x] :
                      d.inputs[x][j] \in {target} \cup b}

(* The search is what the walk u comes to *)
Searches(u, d, target) ==
    /\ \A k \in 0..Depth : u[k] \in SUBSET Objs
    /\ u[0] = Objs
    /\ \A k \in 0..Depth : k # 0 => u[k] = Seekers(d, target, u[k - 1])
    /\ \A o : InputSearch(d, o, target) <=> o \in u[Depth]

LEMMA SearchSteps ==
    ASSUME NEW d \in DBs, NEW target \in Objs
    PROVE  \E u : Searches(u, d, target)
<1> DEFINE n == Depth
           V == SUBSET Objs
           more(b) == {x \in Objs : d.kind[x] = "RULE" /\ \E j \in DOMAIN d.inputs[x] :
                                       d.inputs[x][j] \in {target} \cup b}
           F == [b \in V |-> more(b)]
           Follows(u) == u = [k \in 0..n |-> IF k = 0 THEN Objs ELSE more(u[k - 1])]
           u == CHOOSE u : Follows(u)
<1>1. n \in Nat /\ n # 0 BY BoundsAssumption
<1>2. Objs \in V /\ \A b \in V : more(b) \in V OBVIOUS
<1>3. PICK g \in [0..n -> V] : StepByStep(g, n, Objs, F)
  <2>1. F \in [V -> V] OBVIOUS
  <2> HIDE DEF n, V, F
  <2>2. StepByStepIn(n, V, Objs, F) BY <1>1, <1>2, <2>1, StepByStepIs
  <2>3. QED BY <2>2 DEF StepByStepIn
<1>4. Follows(g)
  <2>1. \A k \in 0..n : k # 0 => g[k - 1] \in V BY <1>1, <1>3
  <2>2. \A k \in 0..n : k # 0 => F[g[k - 1]] = more(g[k - 1]) BY <2>1
  <2> HIDE DEF F, V, n, more
  <2>3. \A k \in 0..n : g[k] = IF k = 0 THEN Objs ELSE more(g[k - 1])
    BY <1>3, <2>2 DEF StepByStep
  <2>4. g = [k \in 0..n |-> g[k]] BY <1>3
  <2>5. QED BY <2>3, <2>4
<1>5. Follows(u)
  <2> HIDE DEF Follows
  <2>1. QED BY <1>4
<1>6. \A o : InputSearch(d, o, target) <=> o \in u[n] BY DEF InputSearch
<1> HIDE DEF u
<1>7. \A k \in 0..n : u[k] = IF k = 0 THEN Objs ELSE more(u[k - 1])
  <2> HIDE DEF n, more
  <2>1. QED BY <1>5
<1>8. u[0] = Objs /\ \A k \in 0..n : k # 0 => u[k] = more(u[k - 1])
  <2> HIDE DEF more
  <2>1. QED BY <1>1, <1>7
<1>9. \A k \in 0..n : u[k] \in V
  <2>1. \A b : more(b) \in V OBVIOUS
  <2> HIDE DEF more
  <2>2. QED BY <1>2, <1>7, <2>1
<1>10. \A b : more(b) = Seekers(d, target, b) BY DEF Seekers
<1> HIDE DEF more
<1>11. QED BY <1>6, <1>8, <1>9, <1>10 DEF Searches

LEMMA NotFound ==
    ASSUME NEW d \in DBs, RulesOnly(d), NEW o \in Objs, NEW target \in Objs,
           ~ InputSearch(d, o, target)
    PROVE  ~ Edge(d, o, target) /\ \A j \in Objs : Edge(d, o, j) => ~ Edge(d, j, target)
<1> DEFINE n == Depth
           more(b) == Seekers(d, target, b)
<1>1. n \in Nat /\ n # 0 BY BoundsAssumption
<1>2. PICK u : Searches(u, d, target) BY SearchSteps
<1>3. o \notin u[n] BY <1>2 DEF Searches
<1>4. n \in 0..n /\ n - 1 \in 0..n BY <1>1
<1>5. u[n] = more(u[n - 1]) /\ u[n - 1] \in SUBSET Objs BY <1>1, <1>2, <1>4 DEF Searches
<1>6. \A x, y \in Objs, b \in SUBSET Objs :
         Edge(d, x, y) /\ y \in {target} \cup b => x \in more(b)
  <2> SUFFICES ASSUME NEW x \in Objs, NEW y \in Objs, NEW b \in SUBSET Objs,
                      Edge(d, x, y), y \in {target} \cup b
               PROVE  x \in more(b)
    OBVIOUS
  <2>1. d.kind[x] = "RULE" BY DEF RulesOnly
  <2>2. d.inputs[x] \in Seq(Objs) BY DEF DBs
  <2>3. QED BY <2>1, <2>2 DEF Edge, ListFind, Seekers
<1>7. \A j \in Objs : Edge(d, j, target) => j \in u[n - 1]
  <2>1. CASE n = 1
    <3>1. u[0] = Objs BY <1>2 DEF Searches
    <3>2. QED BY <2>1, <3>1
  <2>2. CASE n # 1
    <3> DEFINE k == n - 1
    <3>1. k \in 0..n /\ k # 0 /\ k - 1 \in 0..n BY <1>1, <2>2
    <3> HIDE DEF k, n
    <3>2. u[k] = Seekers(d, target, u[k - 1]) /\ u[k - 1] \in SUBSET Objs
      BY <1>2, <3>1 DEF Searches, n
    <3>3. u[k] = more(u[k - 1]) BY <3>2
    <3> HIDE DEF more
    <3>4. QED BY <1>6, <3>2, <3>3 DEF k
  <2>3. QED BY <2>1, <2>2
<1> HIDE DEF more, n
<1>8. ~ Edge(d, o, target) BY <1>3, <1>5, <1>6
<1>9. \A j \in Objs : Edge(d, o, j) => ~ Edge(d, j, target) BY <1>3, <1>5, <1>6, <1>7
<1>10. QED BY <1>8, <1>9

LEMMA FoundHasInput ==
    ASSUME NEW d \in DBs, NEW o \in Objs, NEW target \in Objs, InputSearch(d, o, target)
    PROVE  d.inputs[o] # <<>>
<1> DEFINE n == Depth
<1>1. n \in 0..n /\ n # 0 BY BoundsAssumption
<1>2. PICK u : Searches(u, d, target) BY SearchSteps
<1>3. o \in u[n] BY <1>2 DEF Searches
<1>4. u[n] = Seekers(d, target, u[n - 1]) BY <1>1, <1>2 DEF Searches
<1>5. DOMAIN d.inputs[o] # {} BY <1>3, <1>4 DEF Seekers
<1>6. QED BY <1>5

-----------------------------------------------------------------------------
(* One object at a time *)

LEMMA ObjIn ==
    ASSUME NEW d \in DBs, NEW n \in Names, d.lives[n] # 0
    PROVE  Obj(d, n) \in Objs
BY BoundsAssumption DEF Obj, Objs, DBs

LEMMA KnownObj ==
    ASSUME NEW d \in DBs, NEW n \in Names, Known(d, n)
    PROVE  Obj(d, n) \in Objs
<1>1. d.lives[n] # 0 BY DEF Known, Alive, Obj, DBs
<1>2. QED BY <1>1, ObjIn

(* A new state of one object, which may be told what to be as well *)
LEMMA StateChange ==
    ASSUME NEW d, Good(d), NEW o \in Objs, o[2] <= d.lives[o[1]],
           NEW s \in States, NEW c \in Words,
           s \in {"ENABLED", "DISABLED"} => c \in {s, "INITIALIZED"},
           NEW e \in DBs,
           e.lives = d.lives, e.kind = d.kind, e.inputs = d.inputs,
           e.state = [d.state EXCEPT ![o] = s],
           e.cli = [d.cli EXCEPT ![o] = c]
    PROVE  Good(e)
<1>1. /\ d.state \in [Objs -> States] /\ d.cli \in [Objs -> Words]
      /\ d.lives \in [Names -> 0..Lives]
  BY DEF Good, DBs
<1>2. Fresh(e)
  <2> SUFFICES ASSUME NEW x \in Objs, e.lives[x[1]] < x[2]
               PROVE  e.state[x] = "INITIALIZED" /\ e.kind[x] = "NONE"
    BY DEF Fresh
  <2>1. x # o
    <3>1. d.lives[o[1]] \in Nat /\ o[2] \in Nat BY <1>1, BoundsAssumption DEF Objs
    <3>2. QED BY <3>1
  <2>2. QED BY <1>1, <2>1 DEF Good, Fresh
<1>3. LastWord(e) BY <1>1 DEF Good, LastWord
<1>4. KindsFit(e) /\ RulesOnly(e) /\ NoLoops(e)
  BY DEF Good, KindsFit, RulesOnly, NoLoops, Edge
<1>5. QED BY <1>2, <1>3, <1>4 DEF Good

(* What a rule forgets as it goes *)
LEMMA DeletedRuleTame ==
    ASSUME NEW d \in DBs, NEW o \in Objs
    PROVE  Tame(d, [FoldLeft(LAMBDA e, i : DeleteLeave(e, o, i), d, d.inputs[o])
                        EXCEPT !.inputs[o] = <<>>, !.head[o] = None])
<1> DEFINE e == FoldLeft(LAMBDA x, j : DeleteLeave(x, o, j), d, d.inputs[o])
           f == [e EXCEPT !.inputs[o] = <<>>, !.head[o] = None]
<1>1. d.inputs[o] \in Seq(Objs) BY DEF DBs
<1>2. Tame(d, e) BY <1>1, DeleteLeaveAll
<1>3. f = [FoldLeft(LAMBDA x, j : DeleteLeave(x, o, j), d, d.inputs[o])
               EXCEPT !.inputs[o] = <<>>, !.head[o] = None]
  OBVIOUS
<1> HIDE DEF e
<1>4. e \in DBs BY <1>2 DEF Tame
<1>5. <<>> \in Seq(Objs) /\ \A x : ~ ListFind(<<>>, x) BY DEF ListFind
<1>6. f \in DBs BY <1>4, <1>5 DEF DBs
<1>7. /\ f.lives = e.lives /\ f.kind = e.kind /\ f.state = e.state
      /\ f.dflt = e.dflt /\ f.cli = e.cli
      /\ f.inputs = [e.inputs EXCEPT ![o] = <<>>]
  BY <1>4 DEF DBs
<1>8. e.inputs \in [Objs -> Seq(Objs)] BY <1>4 DEF DBs
<1> HIDE DEF f
<1>9. \A x, y \in Objs : Edge(f, x, y) => Edge(e, x, y)
  BY <1>5, <1>7, <1>8 DEF Edge
<1>10. Tame(e, f) BY <1>6, <1>7, <1>9 DEF Tame
<1>11. QED BY <1>2, <1>3, <1>10, TameTwice

LEMMA WithoutTame ==
    ASSUME NEW d \in DBs, NEW o \in Objs
    PROVE  Tame(d, Without(d, o))
<1> DEFINE chain == Chain(d, HeadOf(d, o))
           ins == [x \in Objs |-> IF x \in chain THEN ListRemove(d.inputs[x], o) ELSE d.inputs[x]]
           e == Without(d, o)
<1>1. d.inputs \in [Objs -> Seq(Objs)] BY DEF DBs
<1>2. \A x \in Objs : ins[x] \in Seq(Objs) BY <1>1, RemoveType
<1>3. \A x, y \in Objs : ListFind(ins[x], y) => ListFind(d.inputs[x], y)
  BY <1>1, RemoveShrinks
<1>4. ins \in [Objs -> Seq(Objs)] BY <1>2
<1> HIDE DEF ins, chain
<1>5. e = [d EXCEPT !.inputs = ins, !.head[o] = None,
                    !.ref[o] = IF d.kind[o] = "NONE" THEN None ELSE @]
  BY DEF Without, ins, chain
<1> HIDE DEF e
<1>6. /\ e \in DBs /\ e.lives = d.lives /\ e.kind = d.kind /\ e.state = d.state
      /\ e.dflt = d.dflt /\ e.cli = d.cli /\ e.inputs = ins
  BY <1>4, <1>5 DEF DBs
<1>7. QED BY <1>3, <1>6 DEF Tame, Edge, e

LEMMA DeleteFacts ==
    ASSUME NEW d, Good(d), NEW o \in Objs, o[2] <= d.lives[o[1]]
    PROVE  /\ Good(Delete(d, o))
           /\ Delete(d, o).lives = d.lives /\ Delete(d, o).kind = d.kind
           /\ Delete(d, o).dflt = d.dflt
           /\ Delete(d, o).state = [d.state EXCEPT ![o] = "DELETED"]
<1> DEFINE alone == IF d.kind[o] # "RULE" THEN Without(d, o)
                    ELSE [FoldLeft(LAMBDA e, i : DeleteLeave(e, o, i), d, d.inputs[o])
                              EXCEPT !.inputs[o] = <<>>, !.head[o] = None]
           e == [alone EXCEPT !.state[o] = "DELETED",
                              !.acts = {p \in @ : p[1] # o /\ p[2] # o}]
<1>1. d \in DBs BY DEF Good
<1>2. Tame(d, alone)
  <2>1. CASE d.kind[o] # "RULE" BY <1>1, <2>1, WithoutTame
  <2>2. CASE d.kind[o] = "RULE" BY <1>1, <2>2, DeletedRuleTame
  <2>3. QED BY <2>1, <2>2
<1>3. Delete(d, o) = e BY DEF Delete
<1> HIDE DEF alone
<1>4. Good(alone) /\ alone \in DBs BY <1>2, TameGood DEF Tame
<1>5. e \in DBs BY <1>4 DEF DBs, States
<1>6. /\ e.lives = alone.lives /\ e.kind = alone.kind /\ e.inputs = alone.inputs
      /\ e.state = [alone.state EXCEPT ![o] = "DELETED"] /\ e.dflt = alone.dflt
      /\ e.cli = alone.cli
  BY <1>4 DEF DBs
<1>7. alone.cli[o] \in Words /\ alone.cli = [alone.cli EXCEPT ![o] = alone.cli[o]]
  BY <1>4 DEF DBs
<1> HIDE DEF e
<1>8. Good(e)
  <2>1. "DELETED" \in States BY DEF States
  <2>2. o[2] <= alone.lives[o[1]] BY <1>2 DEF Tame
  <2>3. e.cli = [alone.cli EXCEPT ![o] = alone.cli[o]] BY <1>6, <1>7
  <2>4. QED BY <1>4, <1>5, <1>6, <1>7, <2>1, <2>2, <2>3, StateChange
<1>9. QED BY <1>2, <1>3, <1>6, <1>8 DEF Tame

-----------------------------------------------------------------------------
(* What gets or creates an object *)

Room(d, n) == Known(d, n) \/ d.lives[n] < Lives

(* From d to e nothing changes of the objects that are of a type *)
Extends(d, e) ==
    /\ Good(e)
    /\ \A o \in Objs : d.kind[o] # "NONE" => /\ e.kind[o] = d.kind[o]
                                             /\ e.state[o] = d.state[o]
                                             /\ e.dflt[o] = d.dflt[o]
    /\ \A n \in Names : Known(d, n) => Known(e, n) /\ Obj(e, n) = Obj(d, n)
    /\ \A n \in Names : Room(d, n) => Room(e, n)
    /\ \A r, i \in Objs : Edge(e, r, i) => Edge(d, r, i)

LEMMA ExtendsTwice ==
    ASSUME NEW d, NEW e, NEW f, Extends(d, e), Extends(e, f)
    PROVE  Extends(d, f)
BY DEF Extends

LEMMA TameExtends ==
    ASSUME NEW d, NEW e, Good(d), Tame(d, e)
    PROVE  Extends(d, e)
<1>1. Good(e) BY TameGood
<1>2. \A n \in Names : (Known(d, n) <=> Known(e, n)) /\ Obj(e, n) = Obj(d, n)
  BY DEF Tame, Known, Alive, Obj
<1>3. QED BY <1>1, <1>2 DEF Extends, Room, Tame

LEMMA GetOrCreateFacts ==
    ASSUME NEW d, Good(d), NEW n \in Names, NEW kind \in {"NONE", Kind(n)}, Room(d, n)
    PROVE  LET e == GetOrCreate(d, n, kind) IN
              /\ Extends(d, e)
              /\ Known(e, n) /\ Obj(e, n) \in Objs
              /\ kind # "NONE" => e.kind[Obj(e, n)] = kind
<1> DEFINE e == GetOrCreate(d, n, kind)
           new == <<n, d.lives[n] + 1>>
           o == Obj(d, n)
<1>1. /\ d \in DBs /\ d.lives \in [Names -> 0..Lives] /\ d.lives[n] \in Nat /\ Lives \in Nat
      /\ d.kind \in [Objs -> {"NONE", "TEST", "RULE", "ACTION"}]
      /\ d.state \in [Objs -> States] /\ d.dflt \in [Objs -> Words] /\ d.cli \in [Objs -> Words]
  BY BoundsAssumption DEF Good, DBs
<1>2. kind \in {"NONE", "TEST", "RULE", "ACTION"} BY DEF Kind
<1>3. CASE ~ Known(d, n)
  <2>1. d.lives[n] + 1 \in 1..Lives /\ new \in Objs BY <1>1, <1>3 DEF Room, Objs
  <2>2. e = [d EXCEPT !.lives[n] = d.lives[n] + 1, !.kind[new] = kind]
    BY <1>3 DEF GetOrCreate
  <2> DEFINE lives == [d.lives EXCEPT ![n] = d.lives[n] + 1]
             kinds == [d.kind EXCEPT ![new] = kind]
  <2>0. lives \in [Names -> 0..Lives] /\ kinds \in [Objs -> {"NONE", "TEST", "RULE", "ACTION"}]
    BY <1>1, <1>2, <2>1
  <2>3. /\ e \in DBs /\ e.lives = [d.lives EXCEPT ![n] = d.lives[n] + 1]
        /\ e.kind = [d.kind EXCEPT ![new] = kind] /\ e.state = d.state
        /\ e.dflt = d.dflt /\ e.cli = d.cli /\ e.inputs = d.inputs
    <3> HIDE DEF lives, kinds, new, e
    <3>1. e = [d EXCEPT !.lives = lives, !.kind = kinds]
      BY <1>1, <2>2 DEF lives, kinds, DBs
    <3>2. /\ e \in DBs /\ e.lives = lives /\ e.kind = kinds
          /\ e.state = d.state
          /\ e.dflt = d.dflt /\ e.cli = d.cli /\ e.inputs = d.inputs
      BY <1>1, <2>0, <3>1 DEF DBs
    <3>3. QED BY <3>2 DEF lives, kinds
  <2> HIDE DEF new, e
  <2>4. new[1] = n /\ new[2] = d.lives[n] + 1 BY DEF new
  <2>5. d.kind[new] = "NONE" /\ d.state[new] = "INITIALIZED"
    BY <1>1, <2>1, <2>4 DEF Good, Fresh
  <2>6. Fresh(e)
    <3> SUFFICES ASSUME NEW x \in Objs, e.lives[x[1]] < x[2]
                 PROVE  e.state[x] = "INITIALIZED" /\ e.kind[x] = "NONE"
      BY DEF Fresh
    <3>1. x[1] \in Names /\ x[2] \in Nat BY BoundsAssumption DEF Objs
    <3>2. d.lives[x[1]] < x[2] /\ x # new BY <1>1, <2>3, <2>4, <3>1
    <3>3. QED BY <1>1, <2>3, <3>2 DEF Good, Fresh
  <2>7. KindsFit(e) BY <1>1, <2>3, <2>4 DEF Good, KindsFit
  <2>8. RulesOnly(e) BY <1>1, <2>3, <2>5 DEF Good, RulesOnly, Edge
  <2>9. NoLoops(e) BY <2>3 DEF Good, NoLoops, Edge
  <2>10. LastWord(e) BY <2>3 DEF Good, LastWord
  <2>11. Obj(e, n) = new BY <1>1, <2>3 DEF Obj, new
  <2>12. Known(e, n) BY <1>1, <2>1, <2>3, <2>4, <2>5, <2>11 DEF Known, Alive
  <2>13. \A m \in Names \ {n} : Obj(e, m) = Obj(d, m) /\ e.lives[m] = d.lives[m]
    BY <1>1, <2>3 DEF Obj
  <2>14. \A m \in Names \ {n} : (Known(d, m) <=> Known(e, m)) /\ (Room(d, m) <=> Room(e, m))
    BY <2>3, <2>13 DEF Known, Alive, Obj, Room
  <2>15. Extends(d, e)
    <3>1. Good(e) BY <2>3, <2>6, <2>7, <2>8, <2>9, <2>10 DEF Good
    <3>2. \A x \in Objs : d.kind[x] # "NONE" => e.kind[x] = d.kind[x]
      BY <1>1, <2>3, <2>5
    <3>3. QED BY <1>3, <2>3, <2>12, <2>13, <2>14, <3>1, <3>2 DEF Extends, Room, Edge
  <2>16. kind # "NONE" => e.kind[Obj(e, n)] = kind BY <1>1, <2>1, <2>3, <2>11
  <2>17. QED BY <2>1, <2>11, <2>12, <2>15, <2>16 DEF e
<1>4. CASE Known(d, n) /\ d.kind[o] = "NONE"
  <2>1. o \in Objs BY <1>1, <1>4, KnownObj
  <2>2. e = [d EXCEPT !.kind[o] = kind, !.state[o] = "INITIALIZED",
                      !.dflt[o] = "INITIALIZED", !.cli[o] = "INITIALIZED"]
    BY <1>4 DEF GetOrCreate
  <2>3. o[1] = n /\ o[2] = d.lives[n] BY DEF Obj
  <2> HIDE DEF o, e
  <2>4. /\ e \in DBs /\ e.lives = d.lives /\ e.inputs = d.inputs
        /\ e.kind = [d.kind EXCEPT ![o] = kind]
        /\ e.state = [d.state EXCEPT ![o] = "INITIALIZED"]
        /\ e.dflt = [d.dflt EXCEPT ![o] = "INITIALIZED"]
        /\ e.cli = [d.cli EXCEPT ![o] = "INITIALIZED"]
    BY <1>1, <1>2, <2>1, <2>2 DEF DBs, States, Words
  <2>5. Fresh(e)
    <3> SUFFICES ASSUME NEW x \in Objs, e.lives[x[1]] < x[2]
                 PROVE  e.state[x] = "INITIALIZED" /\ e.kind[x] = "NONE"
      BY DEF Fresh
    <3>1. x # o BY <1>1, <2>3, <2>4
    <3>2. QED BY <1>1, <2>4, <3>1 DEF Good, Fresh
  <2>6. KindsFit(e) BY <1>1, <2>3, <2>4 DEF Good, KindsFit
  <2>7. RulesOnly(e) BY <1>1, <1>4, <2>4 DEF Good, RulesOnly, Edge, o
  <2>8. NoLoops(e) BY <2>4 DEF Good, NoLoops, Edge
  <2>9. LastWord(e) BY <1>1, <2>4 DEF Good, LastWord
  <2>10. \A m \in Names : Obj(e, m) = Obj(d, m) BY <2>4 DEF Obj
  <2>11. \A x \in Objs : Alive(d, x) => Alive(e, x) BY <1>1, <2>4 DEF Alive
  <2>12. \A m \in Names : Known(d, m) => Known(e, m)
    BY <1>1, <2>10, <2>11, KnownObj DEF Known
  <2>13. Extends(d, e)
    <3>1. Good(e) BY <2>4, <2>5, <2>6, <2>7, <2>8, <2>9 DEF Good
    <3>2. \A x \in Objs : d.kind[x] # "NONE" =>
             e.kind[x] = d.kind[x] /\ e.state[x] = d.state[x] /\ e.dflt[x] = d.dflt[x]
      BY <1>1, <1>4, <2>4 DEF o
    <3>3. QED BY <2>4, <2>10, <2>12, <3>1, <3>2 DEF Extends, Room, Edge
  <2>14. Obj(e, n) = o BY <2>10 DEF o
  <2>15. e.kind[o] = kind BY <1>1, <2>1, <2>4
  <2>16. QED BY <1>4, <2>1, <2>12, <2>13, <2>14, <2>15 DEF e
<1>5. CASE Known(d, n) /\ d.kind[o] # "NONE"
  <2>1. e = d BY <1>5 DEF GetOrCreate
  <2>2. o \in Objs /\ o[1] = n BY <1>1, <1>5, KnownObj DEF Obj
  <2>3. d.kind[o] = Kind(n) BY <1>5, <2>2 DEF Good, KindsFit
  <2>4. Extends(d, d) BY DEF Extends
  <2>5. QED BY <1>5, <2>1, <2>2, <2>3, <2>4
<1>6. QED BY <1>3, <1>4, <1>5

-----------------------------------------------------------------------------
(* What the calls come to *)

(* From d to e every object that is of a type stays so, and what is ready  *)
(* stays ready unless its name is one of ns or the program has not said    *)
(* what state it wants of it                                               *)
Settled(d, e, ns) ==
    /\ Good(e)
    /\ \A o \in Objs : d.kind[o] # "NONE" =>
          /\ e.kind[o] # "NONE"
          /\ o[1] \notin ns /\ Ready(d, o) /\ d.dflt[o] # "INITIALIZED" => Ready(e, o)

LEMMA ExtendsSettled ==
    ASSUME NEW d, NEW e, NEW f, NEW ns, Extends(d, e), Settled(e, f, ns)
    PROVE  Settled(d, f, ns)
BY DEF Extends, Settled, Ready

LEMMA SettledSelf ==
    ASSUME NEW d, Good(d), NEW ns
    PROVE  Settled(d, d, ns)
BY DEF Settled

(* From d to e the object o gets the state s, and c for the user's word *)
GetsState(d, e, o, s, c) ==
    /\ e \in DBs /\ e.lives = d.lives /\ e.kind = d.kind /\ e.inputs = d.inputs
    /\ e.state = [d.state EXCEPT ![o] = s] /\ e.cli = [d.cli EXCEPT ![o] = c]

(* What it may get, if no object but those of ns is to be taken back *)
MayGet(d, o, s, c, ns) ==
    /\ o \in Objs /\ o[2] <= d.lives[o[1]] /\ s \in States /\ c \in Words
    /\ s \in {"ENABLED", "DISABLED"} => c \in {s, "INITIALIZED"}
    /\ \/ s \in {"CREATED", "ENABLED", "DISABLED"} \/ o[1] \in ns
       \/ ~ Ready(d, o) \/ d.dflt[o] = "INITIALIZED"

(* A new state for one object *)
LEMMA StateSettled ==
    ASSUME NEW d, Good(d), NEW e, NEW o, NEW s, NEW c, NEW ns,
           GetsState(d, e, o, s, c), MayGet(d, o, s, c, ns)
    PROVE  Settled(d, e, ns)
<1>1. o \in Objs /\ s \in States /\ c \in Words /\ e \in DBs BY DEF MayGet, GetsState
<1>2. Good(e) BY <1>1, StateChange DEF MayGet, GetsState
<1>3. d.state \in [Objs -> States] BY DEF Good, DBs
<1>4. QED BY <1>2, <1>3 DEF Settled, Ready, MayGet, GetsState

LEMMA DeleteSettled ==
    ASSUME NEW d, Good(d), NEW o \in Objs, o[2] <= d.lives[o[1]], NEW ns,
           o[1] \in ns \/ ~ Ready(d, o)
    PROVE  Settled(d, Delete(d, o), ns)
<1>1. d.state \in [Objs -> States] BY DEF Good, DBs
<1> DEFINE e == Delete(d, o)
<1>2. Good(e) /\ e.kind = d.kind /\ e.state = [d.state EXCEPT ![o] = "DELETED"]
  BY DeleteFacts
<1> HIDE DEF e
<1>3. Settled(d, e, ns) BY <1>1, <1>2 DEF Settled, Ready
<1>4. QED BY <1>3 DEF e

LEMMA LinkGood ==
    ASSUME NEW d, Good(d), NEW r \in Objs, NEW i \in Objs, d.kind[r] = "RULE",
           ~ Edge(d, i, r), \A j \in Objs : Edge(d, i, j) => ~ Edge(d, j, r)
    PROVE  LET e == Link(d, r, i) IN
              /\ Good(e) /\ e.lives = d.lives /\ e.kind = d.kind
              /\ e.state = d.state /\ e.dflt = d.dflt /\ e.cli = d.cli
<1> DEFINE l == ListAdd(d.inputs[r], i)
           h == HeadOf(d, i)
           e == [d EXCEPT !.inputs[r] = l, !.next[r] = h]
           f == SetHead(e, i, r)
<1>1. d \in DBs /\ d.inputs \in [Objs -> Seq(Objs)] /\ h \in Objs \cup {None}
  BY HeadOfType DEF Good, DBs
<1>2. l \in Seq(Objs) /\ \A y : ListFind(l, y) => ListFind(d.inputs[r], y) \/ y = i
  <2> DEFINE was == d.inputs[r]
  <2>1. was \in Seq(Objs) BY <1>1
  <2> HIDE DEF was
  <2>2. /\ ListAdd(was, i) \in Seq(Objs)
        /\ \A y : ListFind(ListAdd(was, i), y) => ListFind(was, y) \/ y = i
    BY <2>1, AddFacts
  <2>3. QED BY <2>2 DEF was
<1>3. Link(d, r, i) = f BY DEF Link
<1> HIDE DEF l, h
<1>4. /\ e \in DBs /\ e.lives = d.lives /\ e.kind = d.kind
      /\ e.state = d.state /\ e.dflt = d.dflt /\ e.cli = d.cli
      /\ e.inputs = [d.inputs EXCEPT ![r] = l]
  BY <1>1, <1>2 DEF DBs
<1> HIDE DEF e
<1>5. \A x, y \in Objs : Edge(e, x, y) => Edge(d, x, y) \/ (x = r /\ y = i)
  BY <1>1, <1>2, <1>4 DEF Edge
<1>6. Good(e)
  <2>1. Fresh(e) /\ KindsFit(e) /\ LastWord(e) BY <1>4 DEF Good, Fresh, KindsFit, LastWord
  <2>2. RulesOnly(e) BY <1>4, <1>5 DEF Good, RulesOnly
  <2>3. NoLoops(e)
    <3> SUFFICES ASSUME NEW x \in Objs, NEW y \in Objs, NEW z \in Objs,
                        x # y, Edge(e, x, y), Edge(e, y, z), z = x \/ Edge(e, z, x)
                 PROVE  FALSE
      BY DEF NoLoops
    <3>1. \A u, v, w \in Objs :
             u # v /\ Edge(d, u, v) /\ Edge(d, v, w) => w # u /\ ~ Edge(d, w, u)
      BY DEF Good, NoLoops
    <3>2. \/ Edge(d, x, y) \/ (x = r /\ y = i)
      BY <1>5
    <3>3. \/ Edge(d, y, z) \/ (y = r /\ z = i)
      BY <1>5
    <3>4. z = x \/ Edge(d, z, x) \/ (z = r /\ x = i)
      BY <1>5
    <3>5. QED BY <3>1, <3>2, <3>3, <3>4
  <2>4. QED BY <1>4, <2>1, <2>2, <2>3 DEF Good
<1>7. Tame(e, f) BY <1>4, SetHeadTame
<1>8. Good(f) BY <1>6, <1>7, TameGood
<1> HIDE DEF f
<1>9. QED BY <1>3, <1>4, <1>7, <1>8 DEF Tame

LEMMA UpdatedFacts ==
    ASSUME NEW d, Good(d), NEW o \in Objs, o[2] <= d.lives[o[1]]
    PROVE  LET e == Updated(d, o) IN
              /\ Good(e) /\ e.lives = d.lives /\ e.kind = d.kind
              /\ \A x \in Objs : Ready(d, x) => Ready(e, x)
<1> DEFINE e == Updated(d, o)
<1>1. /\ d \in DBs /\ d.state \in [Objs -> States] /\ d.cli \in [Objs -> Words]
      /\ d.dflt \in [Objs -> Words]
  BY DEF Good, DBs
<1>2. ASSUME NEW s \in Words \ {"INITIALIZED"}, NEW w \in [Objs -> Words],
             e = [d EXCEPT !.state[o] = s, !.dflt = w], d.cli[o] \in {s, "INITIALIZED"}
      PROVE  /\ Good(e) /\ e.lives = d.lives /\ e.kind = d.kind
             /\ \A x \in Objs : Ready(d, x) => Ready(e, x)
  <2>1. s \in States /\ s \in {"ENABLED", "DISABLED"} BY DEF States, Words
  <2> HIDE DEF e
  <2>2. /\ e \in DBs /\ e.lives = d.lives /\ e.kind = d.kind /\ e.inputs = d.inputs
        /\ e.state = [d.state EXCEPT ![o] = s] /\ e.cli = d.cli
    BY <1>1, <1>2, <2>1 DEF DBs
  <2>3. e.cli = [d.cli EXCEPT ![o] = d.cli[o]] /\ d.cli[o] \in Words BY <1>1, <2>2
  <2>4. Good(e)
    <3>1. s \in {"ENABLED", "DISABLED"} => d.cli[o] \in {s, "INITIALIZED"} BY <1>2
    <3>2. QED BY <2>1, <2>2, <2>3, <3>1, StateChange
  <2>5. \A x \in Objs : Ready(d, x) => Ready(e, x) BY <1>1, <2>1, <2>2 DEF Ready
  <2>6. QED BY <2>2, <2>4, <2>5
<1>3. CASE d.cli[o] # "INITIALIZED"
  <2>1. e = [d EXCEPT !.state[o] = d.cli[o]] BY <1>3 DEF Updated
  <2>2. e = [d EXCEPT !.state[o] = d.cli[o], !.dflt = d.dflt]
    <3> HIDE DEF e
    <3>1. QED BY <1>1, <2>1 DEF DBs
  <2>3. d.cli[o] \in Words \ {"INITIALIZED"} BY <1>1, <1>3
  <2> HIDE DEF e
  <2>4. QED BY <1>1, <1>2, <2>2, <2>3 DEF e
<1>4. CASE d.cli[o] = "INITIALIZED" /\ d.state[o] = "INITIALIZED"
  BY <1>4 DEF Updated
<1>5. CASE /\ d.cli[o] = "INITIALIZED" /\ d.state[o] # "INITIALIZED"
           /\ d.dflt[o] # "INITIALIZED"
  <2>1. e = [d EXCEPT !.state[o] = d.dflt[o]] BY <1>5 DEF Updated
  <2>2. e = [d EXCEPT !.state[o] = d.dflt[o], !.dflt = d.dflt]
    <3> HIDE DEF e
    <3>1. QED BY <1>1, <2>1 DEF DBs
  <2>3. d.dflt[o] \in Words \ {"INITIALIZED"} BY <1>1, <1>5
  <2> HIDE DEF e
  <2>4. QED BY <1>1, <1>2, <1>5, <2>2, <2>3 DEF e
<1>6. CASE /\ d.cli[o] = "INITIALIZED" /\ d.state[o] # "INITIALIZED"
           /\ d.dflt[o] = "INITIALIZED"
  <2> DEFINE w == [d.dflt EXCEPT ![o] = "ENABLED"]
  <2>1. e = [d EXCEPT !.state[o] = "ENABLED", !.dflt[o] = "ENABLED"] BY <1>6 DEF Updated
  <2>2. e = [d EXCEPT !.state[o] = "ENABLED", !.dflt = w]
    <3> HIDE DEF e
    <3>1. QED BY <1>1, <2>1 DEF DBs
  <2>3. "ENABLED" \in Words \ {"INITIALIZED"} /\ w \in [Objs -> Words] BY <1>1 DEF Words
  <2> HIDE DEF e, w
  <2>4. QED BY <1>2, <1>6, <2>2, <2>3 DEF e
<1>7. QED BY <1>3, <1>4, <1>5, <1>6

Picked(s) == CHOOSE x \in s : TRUE

(* it stays in V as what is in S is added one by one, in some order *)
AddsWithin(it, S, V) ==
    /\ it[{}] \in V
    /\ \A s \in SUBSET S : s # {} /\ it[s \ {Picked(s)}] \in V => it[s] \in V

LEMMA AnyOrder ==
    ASSUME NEW S, IsFiniteSet(S), NEW V, NEW it, AddsWithin(it, S, V)
    PROVE  it[S] \in V
<1> DEFINE G == {s \in SUBSET S : it[s] \in V}
<1>1. {} \in G BY DEF AddsWithin
<1>2. \A s \in SUBSET S : s # {} => \E x \in s : s \ {x} \in G => s \in G
  <2> SUFFICES ASSUME NEW s \in SUBSET S, s # {}
               PROVE  \E x \in s : s \ {x} \in G => s \in G
    OBVIOUS
  <2>1. Picked(s) \in s BY DEF Picked
  <2>2. s \ {Picked(s)} \in G => s \in G BY DEF AddsWithin
  <2>3. QED BY <2>1, <2>2
<1>3. SUBSET S \subseteq G
  <2> HIDE DEF G
  <2>1. QED BY <1>1, <1>2, EverySubset
<1>4. QED BY <1>3

(* it visits S, one by one in some order *)
ReadiesBy(it, d, S) ==
    \A s \in SUBSET S :
        it[s] = IF s = {} THEN d
                ELSE Updated(Validate(it[s \ {Picked(s)}], Picked(s)), Picked(s))
Readies(it, d, n) ==
    ReadiesBy(it, d, Visited(d, Obj(d, n))) /\ ChainReady(d, n) = it[Visited(d, Obj(d, n))]

(* From d to e what is ready stays so, and no object is made *)
KeepsReady(d, e) ==
    /\ Good(e) /\ e.lives = d.lives /\ e.kind = d.kind
    /\ \A x \in Objs : Ready(d, x) => Ready(e, x)

LEMMA VisitKeeps ==
    ASSUME NEW d \in DBs, NEW x \in Objs, x[2] <= d.lives[x[1]], NEW e, KeepsReady(d, e)
    PROVE  KeepsReady(d, Updated(Validate(e, x), x))
<1> DEFINE f == Validate(e, x)
           g == Updated(f, x)
<1>1. Tame(e, f) BY ValidateTame DEF Good, KeepsReady
<1>2. Good(f) BY <1>1, TameGood DEF KeepsReady
<1> HIDE DEF f
<1>3. x[2] <= f.lives[x[1]] BY <1>1 DEF Tame, KeepsReady
<1>4. /\ Good(g) /\ g.lives = f.lives /\ g.kind = f.kind
      /\ \A y \in Objs : Ready(f, y) => Ready(g, y)
  BY <1>2, <1>3, UpdatedFacts
<1> HIDE DEF g
<1>5. \A y \in Objs : Ready(e, y) => Ready(f, y) BY <1>1 DEF Tame, Ready
<1>6. KeepsReady(d, g) BY <1>1, <1>4, <1>5 DEF Tame, KeepsReady
<1>7. QED BY <1>6 DEF g, f

(* What a test that is ready visits *)
LEMMA VisitedFits ==
    ASSUME NEW d, Good(d), NEW n \in Names, Is(d, n, "TEST")
    PROVE  LET S == Visited(d, Obj(d, n)) IN
              /\ IsFiniteSet(S) /\ S \subseteq Objs
              /\ \A x \in S : Alive(d, x) /\ x[2] <= d.lives[x[1]]
<1> DEFINE o == Obj(d, n)
           S == Visited(d, o)
<1>1. d \in DBs /\ o \in Objs BY KnownObj DEF Good, Is
<1>2. S \subseteq {x \in Objs : Alive(d, x)} BY <1>1, VisitedAlive
<1> HIDE DEF S
<1>3. S \subseteq Objs /\ IsFiniteSet(S) BY <1>2, ObjsFinite, FS_Subset
<1>4. \A x \in S : x \in Objs /\ Alive(d, x) /\ x[2] <= d.lives[x[1]]
  BY <1>1, <1>2, BoundsAssumption DEF Alive, DBs, Objs
<1>5. QED BY <1>3, <1>4 DEF S, o

LEMMA ReadySteps ==
    ASSUME NEW d, Good(d), NEW n \in Names, Is(d, n, "TEST"), Ready(d, Obj(d, n))
    PROVE  \E it : Readies(it, d, n)
<1> DEFINE S == Visited(d, Obj(d, n))
           V == {e \in DBs : KeepsReady(d, e)}
           step(x, e) == Updated(Validate(e, x), x)
           F == [x \in S |-> [e \in V |-> step(x, e)]]
           pick == [s \in SUBSET S |-> Picked(s)]
           Follows(it) ==
               it = [s \in SUBSET S |->
                        IF s = {} THEN d
                        ELSE step(CHOOSE x \in s : TRUE, it[s \ {CHOOSE x \in s : TRUE}])]
           it == CHOOSE it : Follows(it)
<1>1. IsFiniteSet(S) /\ S \subseteq Objs /\ \A x \in S : x[2] <= d.lives[x[1]]
  BY VisitedFits
<1>2. ChainReady(d, n) = FoldSet(LAMBDA x, e : Updated(Validate(e, x), x), d, S)
  BY DEF ChainReady
<1> HIDE DEF S
<1>3. d \in V /\ d \in DBs BY DEF KeepsReady, Good
<1>4. \A x \in S, e \in V : step(x, e) \in V
  <2> SUFFICES ASSUME NEW x \in S, NEW e \in V PROVE step(x, e) \in V
    OBVIOUS
  <2>1. Good(e) /\ KeepsReady(d, e) BY DEF KeepsReady
  <2>2. x \in Objs /\ x[2] <= d.lives[x[1]] BY <1>1
  <2>3. KeepsReady(d, step(x, e)) BY <1>3, <2>1, <2>2, VisitKeeps
  <2> HIDE DEF step
  <2>4. QED BY <2>3 DEF KeepsReady, Good
<1>5. F \in [S -> [V -> V]] BY <1>4
<1>6. \A s \in SUBSET S : s # {} => pick[s] \in s BY DEF Picked
<1>7. PICK g \in [SUBSET S -> V] : Folds(g, S, d, F, pick)
  <2> HIDE DEF V, F, pick
  <2>1. FoldsIn(S, V, d, F, pick) BY <1>1, <1>3, <1>5, <1>6, Folded
  <2>2. QED BY <2>1 DEF FoldsIn
<1>8. Follows(g)
  <2>1. \A s \in SUBSET S : s # {} => F[pick[s]][g[s \ {pick[s]}]] = step(pick[s], g[s \ {pick[s]}])
    <3>1. \A s \in SUBSET S : s # {} => pick[s] \in S /\ g[s \ {pick[s]}] \in V
      BY <1>6, <1>7
    <3> HIDE DEF V, pick, step
    <3>2. QED BY <3>1
  <2>2. \A s \in SUBSET S : pick[s] = CHOOSE x \in s : TRUE BY DEF Picked
  <2> HIDE DEF F, pick, V, step
  <2>3. g = [s \in SUBSET S |-> IF s = {} THEN d ELSE F[pick[s]][g[s \ {pick[s]}]]]
    BY <1>7 DEF Folds
  <2>4. \A s \in SUBSET S :
           g[s] = IF s = {} THEN d ELSE step(CHOOSE x \in s : TRUE, g[s \ {CHOOSE x \in s : TRUE}])
    <3>1. \A s \in SUBSET S :
             g[s] = IF s = {} THEN d ELSE step(pick[s], g[s \ {pick[s]}])
      BY <2>1, <2>3
    <3>2. QED BY <2>2, <3>1
  <2>5. DOMAIN g = SUBSET S BY <2>3
  <2>6. QED BY <2>3, <2>4, <2>5
<1>9. Follows(it)
  <2> HIDE DEF Follows
  <2>1. QED BY <1>8
<1>10. ChainReady(d, n) = it[S]
  BY <1>2 DEF FoldSet, MapThenFoldSet
<1> HIDE DEF it
<1>11. ReadiesBy(it, d, S) BY <1>9 DEF ReadiesBy, Picked
<1>12. QED BY <1>10, <1>11 DEF Readies, S

LEMMA ChainReadySettled ==
    ASSUME NEW d, Good(d), NEW n \in Names
    PROVE  Settled(d, ChainReady(d, n), {})
<1> DEFINE o == Obj(d, n)
           S == Visited(d, o)
           V == {e \in DBs : KeepsReady(d, e)}
<1>1. CASE ~ (Is(d, n, "TEST") /\ Ready(d, o))
  <2>1. ChainReady(d, n) = d BY <1>1 DEF ChainReady
  <2>2. QED BY <2>1, SettledSelf
<1>2. CASE Is(d, n, "TEST") /\ Ready(d, o)
  <2>1. IsFiniteSet(S) /\ S \subseteq Objs /\ \A x \in S : x[2] <= d.lives[x[1]]
    BY <1>2, VisitedFits
  <2>2. PICK it : Readies(it, d, n) BY <1>2, ReadySteps
  <2>3. ReadiesBy(it, d, S) /\ ChainReady(d, n) = it[S] BY <2>2 DEF Readies
  <2> HIDE DEF S, o
  <2>4. d \in V /\ d \in DBs BY DEF KeepsReady, Good
  <2>5. it[{}] \in V
    <3>1. it[{}] = d BY <2>3 DEF ReadiesBy
    <3>2. QED BY <2>4, <3>1
  <2>7. \A s \in SUBSET S : s # {} /\ it[s \ {Picked(s)}] \in V => it[s] \in V
    <3> SUFFICES ASSUME NEW s \in SUBSET S, s # {}, it[s \ {Picked(s)}] \in V
                 PROVE  it[s] \in V
      OBVIOUS
    <3> DEFINE x == Picked(s)
               e == it[s \ {x}]
    <3>1. x \in s BY DEF Picked
    <3>2. it[s] = Updated(Validate(e, x), x) BY <2>3 DEF ReadiesBy
    <3>3. x \in Objs /\ x[2] <= d.lives[x[1]] BY <2>1, <3>1
    <3>4. KeepsReady(d, e) OBVIOUS
    <3> HIDE DEF x, e
    <3>5. KeepsReady(d, it[s]) BY <2>4, <3>2, <3>3, <3>4, VisitKeeps DEF KeepsReady
    <3>6. QED BY <3>5 DEF KeepsReady, Good
  <2>8. it[S] \in V
    <3> HIDE DEF V
    <3>1. AddsWithin(it, S, V) BY <2>5, <2>7 DEF AddsWithin
    <3>2. QED BY <2>1, <3>1, AnyOrder
  <2>9. Settled(d, it[S], {}) BY <2>8 DEF Settled, KeepsReady
  <2>10. QED BY <2>3, <2>9
<1>3. QED BY <1>1, <1>2

-----------------------------------------------------------------------------
(* Each call *)

(* What the program has created is of a type *)
Fine(e, n) ==
    Obj(e, n) \in Objs /\ e.kind[Obj(e, n)] # "NONE"

LEMMA InObjs ==
    ASSUME NEW d \in DBs, NEW o \in Objs, NEW n \in Names, o = Obj(d, n)
    PROVE  o[1] = n /\ o[2] <= d.lives[o[1]]
BY DEF Obj, DBs

LEMMA TestCreateFacts ==
    ASSUME NEW d, Good(d), NEW n \in Tests, Room(d, n)
    PROVE  Settled(d, TestCreate(d, n), {}) /\ Fine(TestCreate(d, n), n)
<1> DEFINE e == GetOrCreate(d, n, "TEST")
           o == Obj(e, n)
           h == IF e.ref[o] # None THEN e.ref[o] ELSE e.head[o]
           f == [e EXCEPT !.head[o] = h, !.state[o] = "CREATED"]
<1>1. n \in Names /\ Kind(n) = "TEST" BY DEF Names, Kind
<1>2. Extends(d, e) /\ o \in Objs /\ e.kind[o] = "TEST" BY <1>1, GetOrCreateFacts
<1>3. TestCreate(d, n) = f BY DEF TestCreate
<1> HIDE DEF e
<1>4. Good(e) /\ e \in DBs BY <1>2 DEF Extends, Good
<1>5. h \in Objs \cup {None} BY <1>2, <1>4 DEF DBs
<1> HIDE DEF h
<1>6. o[2] <= e.lives[o[1]] BY <1>1, <1>2, <1>4, InObjs
<1> HIDE DEF o
<1>7. /\ f \in DBs /\ f.lives = e.lives /\ f.kind = e.kind /\ f.inputs = e.inputs
      /\ f.state = [e.state EXCEPT ![o] = "CREATED"] /\ f.cli = e.cli
  BY <1>2, <1>4, <1>5 DEF DBs, States
<1>8. e.cli[o] \in Words /\ f.cli = [e.cli EXCEPT ![o] = e.cli[o]]
  BY <1>2, <1>4, <1>7 DEF DBs
<1> HIDE DEF f
<1>9. "CREATED" \in States /\ ~ ("CREATED" \in {"ENABLED", "DISABLED"}) BY DEF States
<1>10. Settled(e, f, {})
  <2>1. GetsState(e, f, o, "CREATED", e.cli[o]) BY <1>7, <1>8 DEF GetsState
  <2>2. MayGet(e, o, "CREATED", e.cli[o], {}) BY <1>2, <1>6, <1>8, <1>9 DEF MayGet
  <2>3. QED BY <1>4, <2>1, <2>2, StateSettled
<1>11. Settled(d, f, {}) BY <1>2, <1>10, ExtendsSettled
<1>12. Obj(f, n) = o BY <1>7 DEF Obj, o
<1>13. QED BY <1>2, <1>3, <1>7, <1>11, <1>12 DEF Fine

LEMMA ActionCreateFacts ==
    ASSUME NEW d, Good(d), NEW n \in Actions, Room(d, n)
    PROVE  Settled(d, ActionCreate(d, n), {}) /\ Fine(ActionCreate(d, n), n)
<1> DEFINE e == GetOrCreate(d, n, "ACTION")
           o == Obj(e, n)
           f == [e EXCEPT !.state[o] = "CREATED"]
<1>1. n \in Names /\ Kind(n) = "ACTION" BY NamesAssumption DEF Names, Kind
<1>2. Extends(d, e) /\ o \in Objs /\ e.kind[o] = "ACTION" BY <1>1, GetOrCreateFacts
<1>3. ActionCreate(d, n) = f BY DEF ActionCreate
<1> HIDE DEF e
<1>4. Good(e) /\ e \in DBs BY <1>2 DEF Extends, Good
<1>6. o[2] <= e.lives[o[1]] BY <1>1, <1>2, <1>4, InObjs
<1> HIDE DEF o
<1>7. /\ f \in DBs /\ f.lives = e.lives /\ f.kind = e.kind /\ f.inputs = e.inputs
      /\ f.state = [e.state EXCEPT ![o] = "CREATED"] /\ f.cli = e.cli
  BY <1>2, <1>4 DEF DBs, States
<1>8. e.cli[o] \in Words /\ f.cli = [e.cli EXCEPT ![o] = e.cli[o]]
  BY <1>2, <1>4, <1>7 DEF DBs
<1> HIDE DEF f
<1>9. "CREATED" \in States /\ ~ ("CREATED" \in {"ENABLED", "DISABLED"}) BY DEF States
<1>10. Settled(e, f, {})
  <2>1. GetsState(e, f, o, "CREATED", e.cli[o]) BY <1>7, <1>8 DEF GetsState
  <2>2. MayGet(e, o, "CREATED", e.cli[o], {}) BY <1>2, <1>6, <1>8, <1>9 DEF MayGet
  <2>3. QED BY <1>4, <2>1, <2>2, StateSettled
<1>11. Settled(d, f, {}) BY <1>2, <1>10, ExtendsSettled
<1>12. Obj(f, n) = o BY <1>7 DEF Obj, o
<1>13. QED BY <1>2, <1>3, <1>7, <1>11, <1>12 DEF Fine

(* Actions are noted and nothing else is *)
LEMMA ActsTame ==
    ASSUME NEW d \in DBs, NEW r \in Objs, NEW a \in Objs
    PROVE  Tame(d, [d EXCEPT !.acts = @ \cup {<<r, a>>}])
<1> DEFINE more == d.acts \cup {<<r, a>>}
           e == [d EXCEPT !.acts = more]
<1>0. more \in SUBSET (Objs \X Objs) BY DEF DBs
<1> HIDE DEF more
<1>1. /\ e \in DBs /\ e.lives = d.lives /\ e.kind = d.kind /\ e.state = d.state
      /\ e.dflt = d.dflt /\ e.cli = d.cli /\ e.inputs = d.inputs
  BY <1>0 DEF DBs
<1> HIDE DEF e
<1>2. Tame(d, e) BY <1>1, TamePointers
<1>3. QED BY <1>2 DEF e, more

(* The rule and its input, as they are found or made *)
LEMMA RuleCreatedFacts ==
    ASSUME NEW d, Good(d), NEW n \in Rules, NEW i \in Tests \cup Rules, Room(d, n), Room(d, i)
    PROVE  LET e == RuleCreated(d, n, i) IN
              /\ Extends(d, e) /\ Known(e, n) /\ Known(e, i)
              /\ Obj(e, n) \in Objs /\ Obj(e, i) \in Objs
              /\ e.kind[Obj(e, n)] = "RULE"
<1> DEFINE x == GetOrCreate(d, n, "RULE")
           e == GetOrCreate(x, i, "NONE")
<1>1. n \in Names /\ i \in Names /\ Kind(n) = "RULE" BY NamesAssumption DEF Names, Kind
<1>2. Extends(d, x) /\ Known(x, n) /\ Obj(x, n) \in Objs /\ x.kind[Obj(x, n)] = "RULE"
  BY <1>1, GetOrCreateFacts
<1>3. RuleCreated(d, n, i) = e BY DEF RuleCreated
<1> HIDE DEF x
<1>4. Good(x) /\ Room(x, i) BY <1>1, <1>2 DEF Extends
<1>5. Extends(x, e) /\ Known(e, i) /\ Obj(e, i) \in Objs BY <1>1, <1>4, GetOrCreateFacts
<1> HIDE DEF e
<1>6. Known(e, n) /\ Obj(e, n) = Obj(x, n) BY <1>1, <1>2, <1>5 DEF Extends
<1>7. e.kind[Obj(e, n)] = "RULE" BY <1>2, <1>5, <1>6 DEF Extends
<1>8. Extends(d, e) BY <1>2, <1>5, ExtendsTwice
<1>9. QED BY <1>2, <1>3, <1>5, <1>6, <1>7, <1>8

(* What a rule that is created again forgets *)
LEMMA RuleLeftTame ==
    ASSUME NEW d \in DBs, NEW r \in Objs
    PROVE  Tame(d, [FoldLeft(LAMBDA x, j : Leave(x, r, j), d, d.inputs[r])
                        EXCEPT !.inputs[r] = <<>>])
<1> DEFINE e == FoldLeft(LAMBDA x, j : Leave(x, r, j), d, d.inputs[r])
           f == [e EXCEPT !.inputs[r] = <<>>]
<1>1. d.inputs[r] \in Seq(Objs) BY DEF DBs
<1>2. Tame(d, e) BY <1>1, LeaveAll
<1>3. f = [FoldLeft(LAMBDA x, j : Leave(x, r, j), d, d.inputs[r])
               EXCEPT !.inputs[r] = <<>>]
  OBVIOUS
<1> HIDE DEF e
<1>4. e \in DBs BY <1>2 DEF Tame
<1>5. <<>> \in Seq(Objs) /\ \A x : ~ ListFind(<<>>, x) BY DEF ListFind
<1>6. f \in DBs BY <1>4, <1>5 DEF DBs
<1>7. /\ f.lives = e.lives /\ f.kind = e.kind /\ f.state = e.state
      /\ f.dflt = e.dflt /\ f.cli = e.cli
      /\ f.inputs = [e.inputs EXCEPT ![r] = <<>>]
  BY <1>4 DEF DBs
<1>8. e.inputs \in [Objs -> Seq(Objs)] BY <1>4 DEF DBs
<1> HIDE DEF f
<1>9. \A x, y \in Objs : Edge(f, x, y) => Edge(e, x, y)
  BY <1>5, <1>7, <1>8 DEF Edge
<1>10. Tame(e, f) BY <1>6, <1>7, <1>9 DEF Tame
<1>11. QED BY <1>2, <1>3, <1>10, TameTwice

LEMMA RuleCreateFacts ==
    ASSUME NEW d, Good(d), NEW n \in Rules, NEW i \in Tests \cup Rules, NEW a \in Actions,
           Room(d, n), Room(d, i), Room(d, a)
    PROVE  Settled(d, RuleCreate(d, n, i, a), {n}) /\ Fine(RuleCreate(d, n, i, a), n)
<1> DEFINE e == RuleCreated(d, n, i)
           r == Obj(e, n)
           in == Obj(e, i)
           left == [FoldLeft(LAMBDA x, j : Leave(x, r, j), e, e.inputs[r])
                        EXCEPT !.inputs[r] = <<>>]
           f == GetOrCreate(left, a, "ACTION")
           b == [f EXCEPT !.acts = @ \cup {<<r, Obj(f, a)>>}]
           g == Link(b, r, in)
           h == IF g.ref[r] # None THEN g.ref[r] ELSE g.head[r]
           done == [g EXCEPT !.head[r] = h, !.state[r] = "CREATED"]
<1>0. RuleCreate(d, n, i, a) =
         IF InputSearch(e, r, in) THEN e
         ELSE IF InputSearch(e, in, r) THEN Delete(e, r)
         ELSE done
  BY DEF RuleCreate
<1>1. /\ n \in Names /\ i \in Names /\ a \in Names /\ Kind(a) = "ACTION"
  BY NamesAssumption DEF Names, Kind
<1>2. /\ Extends(d, e) /\ Known(e, n) /\ Known(e, i) /\ r \in Objs /\ in \in Objs
      /\ e.kind[r] = "RULE"
  BY RuleCreatedFacts
<1> HIDE DEF e
<1>3. Good(e) /\ e \in DBs /\ RulesOnly(e) BY <1>2 DEF Extends, Good
<1>4. r[1] = n /\ r[2] <= e.lives[r[1]] BY <1>1, <1>2, <1>3, InObjs
<1>5. CASE InputSearch(e, r, in)
  <2>1. Settled(e, e, {n}) BY <1>3, SettledSelf
  <2>2. Settled(d, e, {n}) BY <1>2, <2>1, ExtendsSettled
  <2>3. QED BY <1>0, <1>2, <1>5, <2>2 DEF Fine
<1>6. CASE ~ InputSearch(e, r, in) /\ InputSearch(e, in, r)
  <2> DEFINE x == Delete(e, r)
  <2>1. Settled(e, x, {n})
    <3>1. r[1] \in {n} BY <1>4
    <3> HIDE DEF r
    <3>2. QED BY <1>2, <1>3, <1>4, <3>1, DeleteSettled
  <2>2. Settled(d, x, {n}) BY <1>2, <2>1, ExtendsSettled
  <2>3. x.kind = e.kind /\ x.lives = e.lives
    <3> HIDE DEF r
    <3>1. QED BY <1>2, <1>3, <1>4, DeleteFacts
  <2> HIDE DEF x
  <2>4. Obj(x, n) = r BY <2>3 DEF Obj
  <2>5. QED BY <1>0, <1>2, <1>6, <2>2, <2>3, <2>4 DEF Fine, x
<1>7. CASE ~ InputSearch(e, r, in) /\ ~ InputSearch(e, in, r)
  <2>1. ~ Edge(e, in, r) /\ \A j \in Objs : Edge(e, in, j) => ~ Edge(e, j, r)
    <3> HIDE DEF r, in
    <3>1. QED BY <1>2, <1>3, <1>7, NotFound
  <2>2. Tame(e, left)
    <3> DEFINE q == r
    <3>1. r \in Objs BY <1>2
    <3> HIDE DEF r
    <3>2. QED BY <1>3, <3>1, RuleLeftTame
  <2> HIDE DEF left
  <2>3. Extends(e, left) BY <1>3, <2>2, TameExtends
  <2>4. Extends(d, left) BY <1>2, <2>3, ExtendsTwice
  <2>5. Good(left) /\ Room(left, a) BY <1>1, <2>4 DEF Extends
  <2>6. Extends(left, f) /\ Obj(f, a) \in Objs BY <1>1, <2>5, GetOrCreateFacts
  <2> HIDE DEF f
  <2>7. Good(f) /\ f \in DBs BY <2>6 DEF Extends, Good
  <2>8. Tame(f, b)
    <3> HIDE DEF r
    <3>1. QED BY <1>2, <2>6, <2>7, ActsTame
  <2> HIDE DEF b
  <2>9. Extends(f, b) BY <2>7, <2>8, TameExtends
  <2>10. Extends(e, b) /\ Extends(d, b)
    <3>1. Extends(e, f) BY <2>3, <2>6, ExtendsTwice
    <3>2. Extends(e, b) BY <2>9, <3>1, ExtendsTwice
    <3>3. QED BY <1>2, <3>2, ExtendsTwice
  <2>11. Obj(b, n) = r BY <1>1, <1>2, <2>10 DEF Extends
  <2> HIDE DEF r, in
  <2>12. Good(b) /\ b.kind[r] = "RULE" BY <1>2, <2>10 DEF Extends
  <2>13. ~ Edge(b, in, r) /\ \A j \in Objs : Edge(b, in, j) => ~ Edge(b, j, r)
    BY <1>2, <2>1, <2>10 DEF Extends
  <2>14. /\ Good(g) /\ g.lives = b.lives /\ g.kind = b.kind /\ g.state = b.state
         /\ g.dflt = b.dflt /\ g.cli = b.cli
    BY <1>2, <2>12, <2>13, LinkGood
  <2> HIDE DEF g
  <2>15. g \in DBs BY <2>14 DEF Good
  <2>16. h \in Objs \cup {None} BY <1>2, <2>15 DEF DBs
  <2> HIDE DEF h
  <2>17. /\ done \in DBs /\ done.lives = g.lives /\ done.kind = g.kind
         /\ done.inputs = g.inputs
         /\ done.state = [g.state EXCEPT ![r] = "CREATED"] /\ done.cli = g.cli
    BY <1>2, <2>15, <2>16 DEF DBs, States
  <2>18. g.cli[r] \in Words /\ done.cli = [g.cli EXCEPT ![r] = g.cli[r]]
    BY <1>2, <2>15, <2>17 DEF DBs
  <2>19. r[2] <= g.lives[r[1]]
    <3>1. b \in DBs BY <2>12 DEF Good
    <3>2. QED BY <1>1, <1>2, <2>11, <2>14, <3>1, InObjs
  <2> HIDE DEF done
  <2>20. "CREATED" \in States /\ ~ ("CREATED" \in {"ENABLED", "DISABLED"}) BY DEF States
  <2>21. Settled(g, done, {n})
    <3>1. GetsState(g, done, r, "CREATED", g.cli[r]) BY <2>17, <2>18 DEF GetsState
    <3>2. MayGet(g, r, "CREATED", g.cli[r], {n}) BY <1>2, <2>18, <2>19, <2>20 DEF MayGet
    <3>3. QED BY <2>14, <3>1, <3>2, StateSettled
  <2>22. Settled(b, done, {n}) BY <2>14, <2>21 DEF Settled, Ready
  <2>23. Settled(d, done, {n}) BY <2>10, <2>22, ExtendsSettled
  <2>24. Obj(done, n) = r BY <2>11, <2>14, <2>17 DEF Obj
  <2>25. QED BY <1>0, <1>2, <1>7, <2>12, <2>14, <2>17, <2>23, <2>24 DEF Fine
<1>8. QED BY <1>5, <1>6, <1>7

LEMMA RuleAddInputFacts ==
    ASSUME NEW d, Good(d), NEW n \in Rules, NEW i \in Tests \cup Rules,
           Is(d, n, "RULE"), Room(d, i)
    PROVE  Settled(d, RuleAddInput(d, n, i), {})
<1> DEFINE e == GetOrCreate(d, i, "NONE")
           r == Obj(e, n)
           in == Obj(e, i)
           g == Link(e, r, in)
<1>0. RuleAddInput(d, n, i) =
         IF InputSearch(e, r, in) \/ InputSearch(e, in, r) THEN e ELSE g
  BY DEF RuleAddInput
<1>1. n \in Names /\ i \in Names BY DEF Names
<1>2. Extends(d, e) /\ in \in Objs BY <1>1, GetOrCreateFacts
<1> HIDE DEF e
<1>3. Good(e) /\ e \in DBs /\ RulesOnly(e) BY <1>2 DEF Extends, Good
<1>4. r = Obj(d, n) /\ r \in Objs /\ e.kind[r] = "RULE"
  <2>1. Known(d, n) /\ d.kind[Obj(d, n)] = "RULE" BY DEF Is
  <2>2. Obj(e, n) = Obj(d, n) BY <1>1, <1>2, <2>1 DEF Extends
  <2>3. Obj(d, n) \in Objs BY <1>1, <2>1, KnownObj DEF Good
  <2>4. QED BY <1>2, <2>1, <2>2, <2>3 DEF Extends
<1> HIDE DEF r, in
<1>5. CASE InputSearch(e, r, in) \/ InputSearch(e, in, r)
  BY <1>0, <1>2, <1>3, <1>5, SettledSelf, ExtendsSettled
<1>6. CASE ~ (InputSearch(e, r, in) \/ InputSearch(e, in, r))
  <2>1. ~ Edge(e, in, r) /\ \A j \in Objs : Edge(e, in, j) => ~ Edge(e, j, r)
    BY <1>2, <1>3, <1>4, <1>6, NotFound
  <2>2. Good(g) /\ g.kind = e.kind /\ g.state = e.state
    BY <1>2, <1>3, <1>4, <2>1, LinkGood
  <2> HIDE DEF g
  <2>3. Settled(e, g, {}) BY <2>2 DEF Settled, Ready
  <2>4. QED BY <1>0, <1>2, <1>6, <2>3, ExtendsSettled
<1>7. QED BY <1>5, <1>6

LEMMA RuleAddActionFacts ==
    ASSUME NEW d, Good(d), NEW n \in Rules, NEW a \in Actions, Room(d, n), Room(d, a)
    PROVE  Settled(d, RuleAddAction(d, n, a), {})
<1> DEFINE x == GetOrCreate(d, n, "RULE")
           e == GetOrCreate(x, a, "ACTION")
           f == [e EXCEPT !.acts = @ \cup {<<Obj(e, n), Obj(e, a)>>}]
<1>0. RuleAddAction(d, n, a) = f BY DEF RuleAddAction
<1>1. n \in Names /\ a \in Names /\ Kind(n) = "RULE" /\ Kind(a) = "ACTION"
  BY NamesAssumption DEF Names, Kind
<1>2. Extends(d, x) /\ Known(x, n) /\ Obj(x, n) \in Objs BY <1>1, GetOrCreateFacts
<1> HIDE DEF x
<1>3. Good(x) /\ Room(x, a) BY <1>1, <1>2 DEF Extends
<1>4. Extends(x, e) /\ Obj(e, a) \in Objs BY <1>1, <1>3, GetOrCreateFacts
<1> HIDE DEF e
<1>5. Obj(e, n) \in Objs BY <1>1, <1>2, <1>4 DEF Extends
<1>6. Good(e) /\ e \in DBs BY <1>4 DEF Extends, Good
<1>7. Tame(e, f) BY <1>4, <1>5, <1>6, ActsTame
<1> HIDE DEF f
<1>8. Good(f) /\ f.kind = e.kind /\ f.state = e.state BY <1>6, <1>7, TameGood DEF Tame
<1>9. Settled(e, f, {}) BY <1>8 DEF Settled, Ready
<1>10. QED BY <1>0, <1>2, <1>4, <1>9, ExtendsSettled

LEMMA DeletedFacts ==
    ASSUME NEW d, Good(d), NEW n \in Names, Room(d, n)
    PROVE  Settled(d, Deleted(d, n), {n})
<1> DEFINE e == IF n \in Rules THEN GetOrCreate(d, n, "NONE") ELSE d
           o == Obj(e, n)
<1>1. Extends(d, e)
  <2>1. CASE n \in Rules BY <2>1, GetOrCreateFacts
  <2>2. CASE n \notin Rules BY <2>2 DEF Extends
  <2>3. QED BY <2>1, <2>2
<1>2. Deleted(d, n) = IF Is(e, n, Kind(n)) THEN Delete(e, o) ELSE e BY DEF Deleted
<1> HIDE DEF e
<1>3. Good(e) /\ e \in DBs BY <1>1 DEF Extends, Good
<1>4. CASE ~ Is(e, n, Kind(n)) BY <1>1, <1>2, <1>3, <1>4, SettledSelf, ExtendsSettled
<1>5. CASE Is(e, n, Kind(n))
  <2>1. o \in Objs BY <1>3, <1>5, KnownObj DEF Is
  <2>2. o[1] = n /\ o[2] <= e.lives[o[1]] BY <1>3, <2>1, InObjs
  <2> HIDE DEF o
  <2>3. o[1] \in {n} BY <2>2
  <2>4. Settled(e, Delete(e, o), {n}) BY <1>3, <2>1, <2>2, <2>3, DeleteSettled
  <2>5. QED BY <1>1, <1>2, <1>5, <2>4, ExtendsSettled
<1>6. QED BY <1>4, <1>5

LEMMA ConfigureFacts ==
    ASSUME NEW d, Good(d), NEW n \in Names, Room(d, n)
    PROVE  Settled(d, Configure(d, n), {})
<1> DEFINE e == GetOrCreate(d, n, Kind(n))
<1>1. Extends(d, e) BY GetOrCreateFacts
<1> HIDE DEF e
<1>2. Good(e) BY <1>1 DEF Extends
<1>3. Settled(d, e, {}) BY <1>1, <1>2, SettledSelf, ExtendsSettled
<1>4. QED BY <1>3 DEF Configure, e

LEMMA SetStateFacts ==
    ASSUME NEW d, Good(d), NEW n \in Names, Room(d, n), NEW byCli \in BOOLEAN,
           NEW new \in {"ENABLED", "DISABLED"}
    PROVE  Settled(d, SetState(d, n, byCli, new), {})
<1> DEFINE e == GetOrCreate(d, n, Kind(n))
           o == Obj(e, n)
           told == IF byCli THEN [e EXCEPT !.cli[o] = new] ELSE [e EXCEPT !.dflt[o] = new]
           goes == Ready(told, o) /\ told.cli[o] \in {new, "INITIALIZED"}
           f == IF goes THEN [told EXCEPT !.state[o] = new] ELSE told
<1>0. SetState(d, n, byCli, new) = f BY DEF SetState
<1>1. Extends(d, e) /\ o \in Objs BY GetOrCreateFacts
<1> HIDE DEF e
<1>2. Good(e) /\ e \in DBs BY <1>1 DEF Extends, Good
<1>3. o[2] <= e.lives[o[1]] BY <1>1, <1>2, InObjs
<1> HIDE DEF o
<1> DEFINE s == IF goes THEN new ELSE e.state[o]
           c == IF byCli THEN new ELSE e.cli[o]
<1>4. new \in Words /\ new \in States BY DEF Words, States
<1>5. /\ told \in DBs /\ told.lives = e.lives /\ told.kind = e.kind
      /\ told.inputs = e.inputs /\ told.state = e.state
      /\ told.cli = [e.cli EXCEPT ![o] = c]
  <2>1. CASE byCli BY <1>1, <1>2, <1>4, <2>1 DEF DBs
  <2>2. CASE ~ byCli BY <1>1, <1>2, <1>4, <2>2 DEF DBs
  <2>3. QED BY <2>1, <2>2
<1>6. /\ e.state \in [Objs -> States] /\ e.cli \in [Objs -> Words]
      /\ c \in Words /\ s \in States
  BY <1>1, <1>2, <1>4 DEF DBs
<1>7. Ready(told, o) <=> Ready(e, o)
  <2> HIDE DEF told
  <2>1. QED BY <1>5 DEF Ready
<1>8. told.cli[o] = c
  <2> HIDE DEF told, c
  <2>1. QED BY <1>1, <1>5, <1>6
<1>9. s \in {"ENABLED", "DISABLED"} => c \in {s, "INITIALIZED"}
  <2>1. CASE goes
    <3> HIDE DEF c, told
    <3>1. QED BY <1>8, <2>1
  <2>2. CASE ~ goes /\ byCli
    <3>1. c = new BY <2>2
    <3> HIDE DEF told, c
    <3>2. ~ Ready(told, o) BY <1>8, <2>2, <3>1
    <3>3. QED BY <1>7, <2>2, <3>2 DEF Ready
  <2>3. CASE ~ goes /\ ~ byCli
    <3>1. s = e.state[o] /\ c = e.cli[o] BY <2>3
    <3>2. QED BY <1>1, <1>2, <3>1 DEF Good, LastWord
  <2>4. QED BY <2>1, <2>2, <2>3
<1>10. s \in {"CREATED", "ENABLED", "DISABLED"} \/ ~ Ready(e, o)
  BY DEF Ready
<1>11. /\ f \in DBs /\ f.lives = e.lives /\ f.kind = e.kind /\ f.inputs = e.inputs
       /\ f.state = [e.state EXCEPT ![o] = s] /\ f.cli = [e.cli EXCEPT ![o] = c]
  <2> HIDE DEF told, c
  <2>1. CASE goes
    <3> HIDE DEF goes
    <3>1. QED BY <1>1, <1>4, <1>5, <1>6, <2>1 DEF DBs
  <2>2. CASE ~ goes
    <3> HIDE DEF goes
    <3>1. QED BY <1>1, <1>5, <1>6, <2>2
  <2>3. QED BY <2>1, <2>2
<1> HIDE DEF f, s, c, told, goes
<1>12. Settled(e, f, {})
  <2>1. o \in Objs /\ Good(e) BY <1>1, <1>2
  <2>2. s \in States /\ c \in Words BY <1>6
  <2>3. \/ s \in {"CREATED", "ENABLED", "DISABLED"} \/ o[1] \in {}
        \/ ~ Ready(e, o) \/ e.dflt[o] = "INITIALIZED"
    BY <1>10
  <2>4. GetsState(e, f, o, s, c) BY <1>11 DEF GetsState
  <2>5. MayGet(e, o, s, c, {}) BY <1>3, <1>9, <2>1, <2>2, <2>3 DEF MayGet
  <2>6. QED BY <2>1, <2>4, <2>5, StateSettled
<1>13. QED BY <1>0, <1>1, <1>12, ExtendsSettled

LEMMA DefaultFacts ==
    ASSUME NEW d, Good(d), NEW n \in Names
    PROVE  Settled(d, Default(d, n), {})
<1> DEFINE o == Obj(d, n)
           s == IF d.state[o] = "CREATED" THEN "CREATED" ELSE d.dflt[o]
           f == [d EXCEPT !.cli[o] = "INITIALIZED", !.state[o] = s]
<1>0. Default(d, n) = IF ~ Is(d, n, Kind(n)) THEN d
                      ELSE IF d.state[o] = "INITIALIZED" THEN Delete(d, o) ELSE f
  <2>1. [d EXCEPT !.cli[o] = "INITIALIZED",
                  !.state[o] = IF @ = "CREATED" THEN @ ELSE d.dflt[o]] = f
    OBVIOUS
  <2>2. QED BY <2>1 DEF Default
<1>1. CASE ~ Is(d, n, Kind(n)) BY <1>0, <1>1, SettledSelf
<1>2. CASE Is(d, n, Kind(n))
  <2>1. d \in DBs /\ o \in Objs BY <1>2, KnownObj DEF Good, Is
  <2>2. o[2] <= d.lives[o[1]] BY <2>1, InObjs
  <2> HIDE DEF o
  <2>3. CASE d.state[o] = "INITIALIZED"
    <3>1. ~ Ready(d, o) BY <2>3 DEF Ready
    <3>2. QED BY <1>0, <1>2, <2>1, <2>2, <2>3, <3>1, DeleteSettled
  <2>4. CASE d.state[o] # "INITIALIZED"
    <3>1. d.dflt[o] \in Words /\ d.cli \in [Objs -> Words] BY <2>1 DEF DBs
    <3>2. s \in States /\ "INITIALIZED" \in Words BY <3>1 DEF States, Words
    <3>3. s \in {"CREATED", "ENABLED", "DISABLED"} \/ d.dflt[o] = "INITIALIZED"
      BY <3>1 DEF Words
    <3> HIDE DEF s
    <3>4. /\ f \in DBs /\ f.lives = d.lives /\ f.kind = d.kind /\ f.inputs = d.inputs
          /\ f.state = [d.state EXCEPT ![o] = s]
          /\ f.cli = [d.cli EXCEPT ![o] = "INITIALIZED"]
      BY <2>1, <3>2 DEF DBs
    <3> HIDE DEF f
    <3>5. GetsState(d, f, o, s, "INITIALIZED") BY <3>4 DEF GetsState
    <3>6. MayGet(d, o, s, "INITIALIZED", {}) BY <2>1, <2>2, <3>2, <3>3 DEF MayGet
    <3>7. Settled(d, f, {}) BY <3>5, <3>6, StateSettled
    <3>8. QED BY <1>0, <1>2, <2>4, <3>7
  <2>5. QED BY <2>3, <2>4
<1>3. QED BY <1>1, <1>2

-----------------------------------------------------------------------------
(* A walk that takes as many steps as there are objects has come to all    *)
(* that there is to come to                                                *)

LEMMA StrictlyMore ==
    ASSUME NEW T, IsFiniteSet(T), NEW b \in SUBSET T, NEW c \in SUBSET T, b \subseteq c, b # c
    PROVE  /\ Cardinality(b) \in Nat /\ Cardinality(c) \in Nat
           /\ Cardinality(c) >= Cardinality(b) + 1
<1>1. IsFiniteSet(c) /\ IsFiniteSet(b) BY FS_Subset
<1>2. Cardinality(b) \in Nat /\ Cardinality(c) \in Nat BY <1>1, FS_CardinalityType
<1>3. b \in SUBSET c OBVIOUS
<1>4. Cardinality(b) <= Cardinality(c) /\ Cardinality(c) # Cardinality(b)
  BY <1>1, <1>3, FS_Subset
<1>5. QED BY <1>2, <1>4

AddsTo(T, F) == F \in [SUBSET T -> SUBSET T] /\ \A b \in SUBSET T : b \subseteq F[b]

LEMMA WalkCloses ==
    ASSUME NEW T, IsFiniteSet(T), NEW N \in Nat, NEW c \in Nat, NEW base \in SUBSET T,
           Cardinality(base) >= c, Cardinality(T) <= N + c,
           NEW F, AddsTo(T, F), NEW u, StepByStep(u, N, base, F)
    PROVE  F[u[N]] = u[N]
<1> DEFINE V == {p \in (0..N) \X SUBSET T :
                    F[p[2]] = p[2] \/ Cardinality(p[2]) >= p[1] + c}
           w == [k \in 0..N |-> <<k, u[k]>>]
<1>1. w[0] \in V
  <2>1. u[0] = base BY DEF StepByStep
  <2>2. w[0] = <<0, base>> BY <2>1
  <2>3. Cardinality(base) >= 0 + c OBVIOUS
  <2>4. QED BY <2>2, <2>3
<1>2. ASSUME NEW k \in 1..N, w[k - 1] \in V PROVE w[k] \in V
  <2> DEFINE b == u[k - 1]
  <2>1. k \in 0..N /\ k - 1 \in 0..N /\ k # 0 OBVIOUS
  <2>2. w[k - 1] = <<k - 1, b>> /\ w[k] = <<k, u[k]>> BY <2>1
  <2>3. u[k] = F[b] BY <2>1 DEF StepByStep
  <2>4. b \in SUBSET T /\ (F[b] = b \/ Cardinality(b) >= k - 1 + c) BY <1>2, <2>2
  <2>5. F[b] \in SUBSET T /\ b \subseteq F[b] BY <2>4 DEF AddsTo
  <2>6. F[u[k]] = u[k] \/ Cardinality(u[k]) >= k + c
    <3>1. CASE F[b] = b BY <2>3, <3>1
    <3>2. CASE F[b] # b
      <4> HIDE DEF b
      <4>1. /\ Cardinality(b) \in Nat /\ Cardinality(F[b]) \in Nat
            /\ Cardinality(F[b]) >= Cardinality(b) + 1
        BY <2>4, <2>5, <3>2, StrictlyMore
      <4>2. QED BY <2>3, <2>4, <3>2, <4>1
    <3>3. QED BY <3>1, <3>2
  <2> HIDE DEF b
  <2>7. QED BY <2>1, <2>2, <2>3, <2>5, <2>6
<1>3. w[N] \in V
  <2> HIDE DEF V, w
  <2>1. QED BY <1>1, <1>2, UpTo
<1>4. /\ u[N] \in SUBSET T
      /\ F[u[N]] = u[N] \/ Cardinality(u[N]) >= N + c
  <2>1. w[N] = <<N, u[N]>> OBVIOUS
  <2> HIDE DEF w
  <2>2. QED BY <1>3, <2>1
<1>5. CASE Cardinality(u[N]) >= N + c
  <2> DEFINE x == u[N]
  <2>1. Cardinality(x) \in Nat /\ Cardinality(T) \in Nat /\ Cardinality(x) <= Cardinality(T)
        /\ (Cardinality(T) = Cardinality(x) => T = x)
    BY <1>4, FS_Subset, FS_CardinalityType
  <2> HIDE DEF x
  <2>2. Cardinality(T) = Cardinality(x) BY <1>5, <2>1 DEF x
  <2>3. x = T BY <2>1, <2>2
  <2>4. T \in SUBSET T OBVIOUS
  <2>5. F[T] \in SUBSET T /\ T \subseteq F[T] BY <2>4 DEF AddsTo
  <2>6. F[x] = x BY <2>3, <2>5
  <2>7. QED BY <2>6 DEF x
<1>6. CASE F[u[N]] = u[N] BY <1>6
<1> HIDE DEF V, w
<1>7. QED BY <1>4, <1>5, <1>6

-----------------------------------------------------------------------------
(* Chains *)

(* What is next of a rule *)
Onward(d) == [b \in SUBSET (Objs \cup {None}) |-> b \cup {d.next[x] : x \in b \ {None}}]

(* The chain from r is what the walk u comes to *)
WalksChain(u, d, r) ==
    /\ StepByStep(u, Cardinality(Objs), {r}, Onward(d))
    /\ Chain(d, r) = u[Cardinality(Objs)] \ {None}

LEMMA ChainWalk ==
    ASSUME NEW d \in DBs, NEW r \in Objs \cup {None}
    PROVE  \E u : WalksChain(u, d, r)
<1> DEFINE n == Cardinality(Objs)
           V == SUBSET (Objs \cup {None})
           base == {r}
           more(b) == b \cup {d.next[x] : x \in b \ {None}}
           F == Onward(d)
           Follows(u) == u = [k \in 0..n |-> IF k = 0 THEN base ELSE more(u[k - 1])]
           u == CHOOSE u : Follows(u)
<1>1. n \in Nat BY ObjsFinite
<1>2. base \in V OBVIOUS
<1>3. \A b \in V : more(b) \in V BY DEF DBs
<1>4. F \in [V -> V] /\ \A b \in V : F[b] = more(b) BY <1>3 DEF Onward
<1>5. PICK g \in [0..n -> V] : StepByStep(g, n, base, F)
  <2> HIDE DEF n, V, base, F
  <2>2. StepByStepIn(n, V, base, F) BY <1>1, <1>2, <1>4, StepByStepIs
  <2>3. QED BY <2>2 DEF StepByStepIn
<1>6. Follows(g)
  <2>1. \A k \in 0..n : k # 0 => g[k - 1] \in V BY <1>1, <1>5
  <2> HIDE DEF F, V, n, base, more
  <2>2. \A k \in 0..n : k # 0 => F[g[k - 1]] = more(g[k - 1]) BY <1>4, <2>1
  <2>3. \A k \in 0..n : g[k] = IF k = 0 THEN base ELSE more(g[k - 1])
    BY <1>5, <2>2 DEF StepByStep
  <2>4. g = [k \in 0..n |-> g[k]] BY <1>5
  <2>5. QED BY <2>3, <2>4
<1>7. Follows(u)
  <2> HIDE DEF Follows
  <2>1. QED BY <1>6
<1>8. Chain(d, r) = u[n] \ {None} BY DEF Chain
<1> HIDE DEF u
<1>9. StepByStep(u, n, base, F)
  <2>1. \A k \in 0..n : u[k] = IF k = 0 THEN base ELSE more(u[k - 1])
    <3> HIDE DEF n, base, more
    <3>1. QED BY <1>7
  <2>2. u[0] = base
    <3> HIDE DEF base, more
    <3>1. QED BY <1>1, <2>1
  <2>3. \A k \in 1..n : u[k] = more(u[k - 1])
    <3> HIDE DEF base, more, n
    <3>1. \A k \in 1..n : k \in 0..n /\ k # 0 BY <1>1
    <3>2. QED BY <2>1, <3>1
  <2> HIDE DEF more, F, base, V, n
  <2>4. ASSUME NEW m \in 0..n PROVE u[m] \in V
    <3>1. m \in Nat /\ \A j \in 1..m : j \in 1..n BY <1>1
    <3>2. u[0] \in V BY <1>2, <2>2
    <3>3. \A j \in 1..m : u[j - 1] \in V => u[j] \in V BY <1>3, <2>3, <3>1
    <3>4. QED BY <3>1, <3>2, <3>3, UpTo
  <2>5. ASSUME NEW k \in 1..n PROVE u[k] = F[u[k - 1]]
    <3>1. k - 1 \in 0..n BY <1>1
    <3>2. u[k - 1] \in V BY <2>4, <3>1
    <3>3. QED BY <1>4, <2>3, <3>2
  <2>6. \A k \in 0..n : k # 0 => k \in 1..n BY <1>1
  <2>7. QED BY <2>2, <2>5, <2>6 DEF StepByStep
<1>10. QED BY <1>8, <1>9 DEF WalksChain

LEMMA OnwardAdds ==
    ASSUME NEW d \in DBs
    PROVE  AddsTo(Objs \cup {None}, Onward(d))
<1> DEFINE T == Objs \cup {None}
<1>1. \A b \in SUBSET T : b \cup {d.next[x] : x \in b \ {None}} \in SUBSET T BY DEF DBs
<1>2. QED BY <1>1 DEF AddsTo, Onward

(* A chain holds its rule, and what is next of all that it holds *)
LEMMA ChainCloses ==
    ASSUME NEW d \in DBs, NEW r \in Objs \cup {None}
    PROVE  /\ Chain(d, r) \subseteq Objs
           /\ r \in Objs => r \in Chain(d, r)
           /\ \A x \in Chain(d, r) : d.next[x] \in Chain(d, r) \cup {None}
<1> DEFINE T == Objs \cup {None}
           n == Cardinality(Objs)
           F == Onward(d)
           base == {r}
<1>0. PICK u : WalksChain(u, d, r) BY ChainWalk
<1>1. n \in Nat /\ IsFiniteSet(Objs) BY ObjsFinite
<1>2. IsFiniteSet(T) /\ Cardinality(T) = n + 1 BY <1>1, NamesAssumption, FS_AddElement
<1>3. Cardinality(base) = 1 BY FS_Singleton
<1>4. base \in SUBSET T OBVIOUS
<1>5. AddsTo(T, F) BY OnwardAdds
<1>6. StepByStep(u, n, base, F) BY <1>0 DEF WalksChain
<1> HIDE DEF T, n, F, base
<1>7. F[u[n]] = u[n]
  <2>1. 1 \in Nat /\ Cardinality(base) >= 1 /\ Cardinality(T) <= n + 1 BY <1>1, <1>2, <1>3
  <2>2. QED BY <1>1, <1>2, <1>4, <1>5, <1>6, <2>1, WalkCloses
<1>8. u[n] \in {s \in SUBSET T : base \subseteq s}
  <2> DEFINE V == {s \in SUBSET T : base \subseteq s}
  <2>1. u[0] \in V BY <1>1, <1>4, <1>6 DEF StepByStep
  <2>2. ASSUME NEW k \in 1..n, u[k - 1] \in V PROVE u[k] \in V
    <3>1. k \in 0..n /\ k # 0 BY <1>1
    <3>2. u[k] = F[u[k - 1]] BY <1>6, <3>1 DEF StepByStep
    <3>3. QED BY <1>5, <2>2, <3>2 DEF AddsTo
  <2> HIDE DEF V
  <2>3. u[n] \in V BY <1>1, <2>1, <2>2, UpTo
  <2>4. QED BY <2>3 DEF V
<1>9. Chain(d, r) = u[n] \ {None} BY <1>0 DEF WalksChain, n
<1> DEFINE S == u[n]
<1>10. S \in SUBSET T /\ r \in S BY <1>8 DEF base
<1>11. F[S] = S /\ Chain(d, r) = S \ {None} BY <1>7, <1>9
<1> HIDE DEF S
<1>12. S = S \cup {d.next[x] : x \in S \ {None}} BY <1>10, <1>11 DEF F, T, Onward
<1>13. QED BY <1>10, <1>11, <1>12, NamesAssumption DEF T

(* Closed(d, C): what is next of all that is in C is in C *)
Closed(d, C) == \A x \in C : d.next[x] \in C \cup {None}

(* A chain is the least set that holds its rule and is closed *)
LEMMA ChainLeast ==
    ASSUME NEW d \in DBs, NEW r, NEW C \in SUBSET Objs, r \in C \cup {None}, Closed(d, C)
    PROVE  Chain(d, r) \subseteq C
<1> DEFINE n == Cardinality(Objs)
           V == SUBSET (C \cup {None})
           F == Onward(d)
<1>1. n \in Nat BY ObjsFinite
<1>2. PICK u : WalksChain(u, d, r) BY ChainWalk
<1>3. StepByStep(u, n, {r}, F) /\ Chain(d, r) = u[n] \ {None} BY <1>2 DEF WalksChain
<1>4. \A b \in V : F[b] \in V BY DEF Closed, Onward
<1> HIDE DEF n, F
<1>5. u[0] \in V BY <1>1, <1>3 DEF StepByStep
<1>6. ASSUME NEW k \in 1..n, u[k - 1] \in V PROVE u[k] \in V
  <2>1. k \in 0..n /\ k # 0 BY <1>1
  <2>2. u[k] = F[u[k - 1]] BY <1>3, <2>1 DEF StepByStep
  <2> HIDE DEF V
  <2>3. QED BY <1>4, <1>6, <2>2
<1> HIDE DEF V
<1>7. u[n] \in V BY <1>1, <1>5, <1>6, UpTo
<1>8. QED BY <1>3, <1>7 DEF V

LEMMA ChainOfNone ==
    ASSUME NEW d \in DBs
    PROVE  Chain(d, None) = {}
<1> DEFINE C == {}
<1>1. C \in SUBSET Objs /\ None \in C \cup {None} /\ Closed(d, C) BY DEF Closed
<1> HIDE DEF C
<1>2. Chain(d, None) \subseteq C BY <1>1, ChainLeast
<1>3. QED BY <1>2 DEF C

(* A chain is its own while what is next of what is in it is the same *)
LEMMA ChainSame ==
    ASSUME NEW d \in DBs, NEW e \in DBs, NEW r \in Objs \cup {None},
           \A x \in Chain(d, r) : e.next[x] = d.next[x]
    PROVE  Chain(e, r) = Chain(d, r)
<1> DEFINE C == Chain(d, r)
           D == Chain(e, r)
<1>1. C \in SUBSET Objs /\ r \in C \cup {None} /\ Closed(d, C) BY ChainCloses DEF Closed
<1>2. D \in SUBSET Objs /\ r \in D \cup {None} /\ Closed(e, D) BY ChainCloses DEF Closed
<1>3. Closed(e, C) BY <1>1 DEF Closed
<1>4. D \subseteq C
  <2> HIDE DEF C
  <2>1. QED BY <1>1, <1>3, ChainLeast
<1>5. Closed(d, D) BY <1>2, <1>4 DEF Closed
<1>6. C \subseteq D
  <2> HIDE DEF D
  <2>1. QED BY <1>2, <1>5, ChainLeast
<1>7. QED BY <1>4, <1>6

(* A chain is its first rule and the chain from what is next *)
LEMMA ChainParts ==
    ASSUME NEW d \in DBs, NEW r \in Objs
    PROVE  Chain(d, r) = {r} \cup Chain(d, d.next[r])
<1> DEFINE q == d.next[r]
           C == Chain(d, r)
           D == {r} \cup Chain(d, q)
<1>1. q \in Objs \cup {None} BY DEF DBs
<1>2. C \in SUBSET Objs /\ r \in C /\ q \in C \cup {None} /\ Closed(d, C)
  BY ChainCloses DEF Closed
<1> HIDE DEF q
<1>3. D \in SUBSET Objs /\ q \in D \cup {None} /\ r \in D
  BY <1>1, ChainCloses
<1>4. Closed(d, D) BY <1>1, <1>3, ChainCloses DEF Closed, q
<1>5. Chain(d, q) \subseteq C
  <2> HIDE DEF C
  <2>1. QED BY <1>2, ChainLeast
<1>6. C \subseteq D
  <2> HIDE DEF D
  <2>1. r \in D \cup {None} BY <1>3
  <2>2. QED BY <1>3, <1>4, <2>1, ChainLeast
<1>7. QED BY <1>2, <1>5, <1>6 DEF q

-----------------------------------------------------------------------------
(* The rules of one input *)

Users(d, i) == {r \in Objs : Edge(d, r, i)}

(* No rule is twice in the chain from h *)
Once(d, h) == \A x \in Chain(d, h) : x \notin Chain(d, d.next[x])

(* The rules of i are those of the chain from h *)
Strung(d, h, i) == Chain(d, h) = Users(d, i) /\ Once(d, h)

LEMMA ChainWithin ==
    ASSUME NEW d \in DBs, NEW h \in Objs \cup {None}, NEW x \in Chain(d, h)
    PROVE  x \in Objs /\ d.next[x] \in Objs \cup {None} /\ Chain(d, d.next[x]) \subseteq Chain(d, h)
<1> DEFINE C == Chain(d, h)
           q == d.next[x]
<1>1. C \in SUBSET Objs /\ Closed(d, C) /\ q \in C \cup {None} BY ChainCloses DEF Closed
<1>2. x \in Objs /\ q \in Objs \cup {None} BY <1>1
<1> HIDE DEF C, q
<1>3. Chain(d, q) \subseteq C BY <1>1, ChainLeast
<1>4. QED BY <1>2, <1>3 DEF C, q

LEMMA OnceSame ==
    ASSUME NEW d \in DBs, NEW e \in DBs, NEW h \in Objs \cup {None}, Once(d, h),
           \A x \in Chain(d, h) : e.next[x] = d.next[x]
    PROVE  Chain(e, h) = Chain(d, h) /\ Once(e, h)
<1>1. Chain(e, h) = Chain(d, h) BY ChainSame
<1>2. ASSUME NEW x \in Chain(d, h) PROVE x \notin Chain(e, e.next[x])
  <2> DEFINE q == d.next[x]
  <2>1. q \in Objs \cup {None} /\ Chain(d, q) \subseteq Chain(d, h) BY ChainWithin
  <2>2. x \notin Chain(d, q) /\ e.next[x] = q BY DEF Once
  <2> HIDE DEF q
  <2>3. \A y \in Chain(d, q) : e.next[y] = d.next[y] BY <2>1
  <2>4. Chain(e, q) = Chain(d, q) BY <2>1, <2>3, ChainSame
  <2>5. QED BY <2>2, <2>4
<1>3. QED BY <1>1, <1>2 DEF Once

(* From d to e the rule o is taken out of the chain from h *)
CutsHead(d, e, o) == \A x \in Chain(d, d.next[o]) : e.next[x] = d.next[x]
CutsInner(d, e, h, o) ==
    \A x \in Chain(d, h) \ {o} :
        e.next[x] = IF d.next[x] = o THEN d.next[o] ELSE d.next[x]

LEMMA HeadCut ==
    ASSUME NEW d \in DBs, NEW e \in DBs, NEW o \in Objs, Once(d, o), CutsHead(d, e, o)
    PROVE  Chain(e, d.next[o]) = Chain(d, o) \ {o} /\ Once(e, d.next[o])
<1> DEFINE q == d.next[o]
<1>1. q \in Objs \cup {None} BY DEF DBs
<1>2. Chain(d, o) = {o} \cup Chain(d, q) BY ChainParts
<1>3. o \notin Chain(d, q) BY <1>2 DEF Once
<1>4. Once(d, q) BY <1>2 DEF Once
<1>5. \A x \in Chain(d, q) : e.next[x] = d.next[x] BY DEF CutsHead
<1> HIDE DEF q
<1>6. Chain(e, q) = Chain(d, q) /\ Once(e, q) BY <1>1, <1>4, <1>5, OnceSame
<1>7. QED BY <1>2, <1>3, <1>6 DEF q

LEMMA InnerCut ==
    ASSUME NEW d \in DBs, NEW e \in DBs, NEW h \in Objs \cup {None}, Once(d, h),
           NEW o \in Chain(d, h), h # o, CutsInner(d, e, h, o)
    PROVE  Chain(e, h) = Chain(d, h) \ {o} /\ Once(e, h)
<1> DEFINE C == Chain(d, h)
           p == d.next[o]
           D == Chain(e, h)
<1>1. C \in SUBSET Objs /\ h \in C \cup {None} /\ Closed(d, C) BY ChainCloses DEF Closed
<1>2. o \in Objs /\ p \in Objs \cup {None} /\ p \in C \cup {None} BY <1>1 DEF Closed
<1>3. p # o
  <2>1. o \notin Chain(d, p) BY DEF Once
  <2>2. p \in Objs => p \in Chain(d, p) BY <1>2, ChainCloses
  <2>3. QED BY <1>2, <2>1, <2>2
<1>4. \A x \in C \ {o} : e.next[x] = IF d.next[x] = o THEN p ELSE d.next[x]
  BY DEF CutsInner
(* What is closed is closed without o *)
<1>5. ASSUME NEW S \in SUBSET C, Closed(d, S) PROVE Closed(e, S \ {o})
  <2> SUFFICES ASSUME NEW x \in S \ {o} PROVE e.next[x] \in (S \ {o}) \cup {None}
    BY DEF Closed
  <2>1. x \in C \ {o} /\ d.next[x] \in S \cup {None} BY <1>5 DEF Closed
  <2>2. e.next[x] = IF d.next[x] = o THEN p ELSE d.next[x] BY <1>4, <2>1
  <2>3. CASE d.next[x] = o
    <3>1. o \in S BY <1>2, <2>1, <2>3, NamesAssumption
    <3>2. p \in S \cup {None} BY <1>5, <3>1 DEF Closed
    <3>3. QED BY <1>3, <2>2, <2>3, <3>2
  <2>4. CASE d.next[x] # o BY <2>1, <2>2, <2>4
  <2>5. QED BY <2>3, <2>4
<1>6. D \subseteq C \ {o}
  <2>1. Closed(e, C \ {o}) BY <1>1, <1>5
  <2> DEFINE S == C \ {o}
  <2>2. S \in SUBSET Objs /\ h \in S \cup {None} /\ Closed(e, S) BY <1>1, <2>1
  <2> HIDE DEF S, C
  <2>3. D \subseteq S BY <2>2, ChainLeast
  <2>4. QED BY <2>3 DEF S
<1>7. D \in SUBSET Objs /\ h \in D \cup {None} /\ Closed(e, D) BY ChainCloses DEF Closed
<1> HIDE DEF C, D, p
<1>8. C \subseteq D \cup {o}
  <2>1. CASE \E x \in D : d.next[x] = o
    <3> DEFINE S == D \cup {o}
    <3>1. p \in D \cup {None}
      <4>1. PICK x \in D : d.next[x] = o BY <2>1
      <4>2. e.next[x] = p BY <1>4, <1>6, <4>1
      <4>3. QED BY <1>7, <4>2 DEF Closed
    <3>2. Closed(d, S)
      <4> SUFFICES ASSUME NEW x \in S PROVE d.next[x] \in S \cup {None}
        BY DEF Closed
      <4>1. CASE x = o BY <3>1, <4>1 DEF p
      <4>2. CASE x # o
        <5>1. x \in D /\ x \in C \ {o} BY <1>6, <4>2
        <5>2. e.next[x] \in D \cup {None} BY <1>7, <5>1 DEF Closed
        <5>3. QED BY <1>4, <5>1, <5>2
      <4>3. QED BY <4>1, <4>2
    <3>3. S \in SUBSET Objs /\ h \in S \cup {None} BY <1>2, <1>7
    <3> HIDE DEF S
    <3>4. C \subseteq S BY <3>2, <3>3, ChainLeast DEF C
    <3>5. QED BY <3>4 DEF S
  <2>2. CASE ~ \E x \in D : d.next[x] = o
    <3>1. Closed(d, D) BY <1>4, <1>6, <1>7, <2>2 DEF Closed
    <3>2. C \subseteq D BY <1>7, <3>1, ChainLeast DEF C
    <3>3. QED BY <3>2
  <2>3. QED BY <2>1, <2>2
<1>9. D = C \ {o} BY <1>6, <1>8
<1>10. ASSUME NEW x \in C \ {o} PROVE x \notin Chain(e, e.next[x])
  <2> DEFINE q == d.next[x]
             Q == Chain(d, q)
             S == Q \ {o}
             g == e.next[x]
  <2>1. q \in Objs \cup {None} /\ q \in C \cup {None} BY <1>1 DEF Closed
  <2>2. Q \subseteq C BY ChainWithin DEF C
  <2>3. x \notin Q BY DEF Once, C
  <2>4. Closed(d, Q) BY <2>1, ChainCloses DEF Closed
  <2>5. q \in Objs => q \in Q BY <2>1, ChainCloses
  <2> HIDE DEF Q, q
  <2>6. Closed(e, S) BY <1>5, <2>2, <2>4
  <2>7. g \in S \cup {None}
    <3>1. CASE q = o
      <4>1. g = p /\ o \in Q BY <1>2, <1>4, <2>5, <3>1 DEF q
      <4>2. p \in Q \cup {None} BY <2>4, <4>1 DEF Closed, p
      <4>3. QED BY <1>3, <4>1, <4>2
    <3>2. CASE q # o
      <4>1. g = q BY <1>4, <3>2 DEF q
      <4>2. QED BY <2>1, <2>5, <3>2, <4>1
    <3>3. QED BY <3>1, <3>2
  <2>8. S \in SUBSET Objs BY <1>1, <2>2
  <2> HIDE DEF S, g
  <2>9. Chain(e, g) \subseteq S BY <2>6, <2>7, <2>8, ChainLeast
  <2>10. QED BY <2>3, <2>9 DEF S, g
<1>11. QED BY <1>9, <1>10 DEF Once, C, D

(* A rule before the chain from h *)
LEMMA ChainAdd ==
    ASSUME NEW d \in DBs, NEW e \in DBs, NEW h \in Objs \cup {None}, Once(d, h),
           NEW r \in Objs, r \notin Chain(d, h), e.next = [d.next EXCEPT ![r] = h]
    PROVE  Chain(e, r) = {r} \cup Chain(d, h) /\ Once(e, r)
<1>1. d.next \in [Objs -> Objs \cup {None}] /\ Chain(d, h) \subseteq Objs
  BY ChainCloses DEF DBs
<1>2. e.next[r] = h /\ \A x \in Chain(d, h) : e.next[x] = d.next[x] BY <1>1
<1>3. Chain(e, h) = Chain(d, h) /\ Once(e, h) BY <1>2, OnceSame
<1>4. Chain(e, r) = {r} \cup Chain(e, h) BY <1>2, ChainParts
<1>5. QED BY <1>2, <1>3, <1>4 DEF Once

LEMMA StrungSame ==
    ASSUME NEW d \in DBs, NEW e \in DBs, NEW h \in Objs \cup {None}, NEW i, Strung(d, h, i),
           Users(e, i) = Users(d, i), \A x \in Users(d, i) : e.next[x] = d.next[x]
    PROVE  Strung(e, h, i)
<1>1. Chain(d, h) = Users(d, i) /\ Once(d, h) BY DEF Strung
<1>2. \A x \in Chain(d, h) : e.next[x] = d.next[x] BY <1>1
<1>3. Chain(e, h) = Chain(d, h) /\ Once(e, h) BY <1>1, <1>2, OnceSame
<1>4. QED BY <1>1, <1>3 DEF Strung

(* Each input i has its rules on the chain from hd[i] *)
Hung(d, hd) ==
    /\ hd \in [Objs -> Objs \cup {None}]
    /\ \A i \in Objs : Alive(d, i) => Strung(d, hd[i], i)
    /\ \A i \in Objs : ~ Alive(d, i) => hd[i] = None

LEMMA HungSame ==
    ASSUME NEW d \in DBs, NEW e \in DBs, NEW hd, Hung(d, hd),
           \A i \in Objs : Alive(e, i) <=> Alive(d, i),
           \A i \in Objs : Alive(d, i) => Users(e, i) = Users(d, i),
           e.next = d.next
    PROVE  Hung(e, hd)
<1> SUFFICES ASSUME NEW i \in Objs, Alive(e, i) PROVE Strung(e, hd[i], i)
  BY DEF Hung
<1>1. Alive(d, i) /\ hd[i] \in Objs \cup {None} /\ Strung(d, hd[i], i) BY DEF Hung
<1>2. Users(e, i) = Users(d, i) BY <1>1
<1>3. QED BY <1>1, <1>2, StrungSame

(* As long as the calls are of the simple kind: a rule has one input at    *)
(* most, another object than itself and no action, and is not deleted as   *)
(* long as it has it; a forward reference is as it was made; and what a    *)
(* rule has for actions are actions                                        *)
OneInput(d) == \A r \in Objs : Len(d.inputs[r]) <= 1
EdgesFit(d) ==
    \A r, i \in Objs : Edge(d, r, i) =>
        r # i /\ Alive(d, r) /\ i[2] <= d.lives[i[1]] /\ i[1] \notin Actions
Blank(d) ==
    \A o \in Objs : d.kind[o] = "NONE" =>
        d.head[o] = None /\ d.state[o] = "INITIALIZED" /\ d.cli[o] = "INITIALIZED"
ActsFit(d) == \A p \in d.acts : p[2][1] \in Actions
Neat(d) == OneInput(d) /\ EdgesFit(d) /\ Blank(d) /\ ActsFit(d)

Heads(d) == [o \in Objs |-> HeadOf(d, o)]
Wired(d) == Neat(d) /\ Hung(d, Heads(d))

LEMMA ShortLists ==
    ASSUME NEW l \in Seq(Objs), Len(l) <= 1
    PROVE  /\ l = <<>> \/ Len(l) = 1
           /\ l = <<>> => \A x : ~ ListFind(l, x)
           /\ Len(l) = 1 => l[1] \in Objs /\ \A x : ListFind(l, x) <=> x = l[1]
<1>1. Len(l) \in Nat /\ (Len(l) = 0 => l = <<>>) OBVIOUS
<1>2. l = <<>> \/ Len(l) = 1
  <2> DEFINE k == Len(l)
  <2>0. k \in Nat /\ k <= 1 BY <1>1
  <2> HIDE DEF k
  <2>3. k = 0 \/ k = 1 BY <2>0
  <2>1. Len(l) = 0 \/ Len(l) = 1 BY <2>3 DEF k
  <2>2. QED BY <1>1, <2>1
<1>3. l = <<>> => \A x : ~ ListFind(l, x) BY DEF ListFind
<1>4. ASSUME Len(l) = 1 PROVE l[1] \in Objs /\ \A x : ListFind(l, x) <=> x = l[1]
  <2>1. 1..Len(l) = {1} BY <1>4
  <2>2. QED BY <1>4, <2>1 DEF ListFind
<1>5. QED BY <1>2, <1>3, <1>4

LEMMA OneEdge ==
    ASSUME NEW d \in DBs, OneInput(d), NEW r \in Objs, NEW i \in Objs, NEW j \in Objs,
           Edge(d, r, i), Edge(d, r, j)
    PROVE  i = j
<1> DEFINE l == d.inputs[r]
<1>1. l \in Seq(Objs) /\ Len(l) <= 1 BY DEF DBs, OneInput
<1>2. ListFind(l, i) /\ ListFind(l, j) BY DEF Edge
<1> HIDE DEF l
<1>3. QED BY <1>1, <1>2, ShortLists

-----------------------------------------------------------------------------
(* A rule leaves the chain of its one input *)

(* From e to f the rule r leaves the chain of j, its inputs aside; what is *)
(* next of r itself may be anything then                                   *)
LeavesOne(e, f, r, j) ==
    /\ Tame(e, f) /\ f.inputs = e.inputs /\ f.acts = e.acts
    /\ \A x \in Objs \ {j} : f.head[x] = e.head[x] /\ f.ref[x] = e.ref[x]
    /\ e.kind[j] = "NONE" => f.head[j] = e.head[j]
    /\ HeadOf(e, j) = r => /\ HeadOf(f, j) = e.next[r]
                           /\ \A x \in Objs \ {r} : f.next[x] = e.next[x]
    /\ HeadOf(e, j) # r =>
          /\ HeadOf(f, j) = HeadOf(e, j)
          /\ \A x \in Objs \ {r} :
                f.next[x] = IF x \in Chain(e, HeadOf(e, j)) /\ e.next[x] = r
                            THEN e.next[r] ELSE e.next[x]

(* From d to e the object o is led to h *)
LedTo(d, e, o, h) ==
    /\ e \in DBs /\ Tame(d, e) /\ HeadOf(e, o) = h
    /\ e.next = d.next /\ e.inputs = d.inputs /\ e.acts = d.acts
    /\ \A x \in Objs \ {o} : e.head[x] = d.head[x] /\ e.ref[x] = d.ref[x]
    /\ d.kind[o] = "NONE" => e.head[o] = d.head[o]

LEMMA SetHeadLeads ==
    ASSUME NEW d \in DBs, NEW o \in Objs, NEW h \in Objs \cup {None}
    PROVE  LedTo(d, SetHead(d, o, h), o, h)
<1> DEFINE e == SetHead(d, o, h)
<1>1. Tame(d, e) /\ e \in DBs BY SetHeadTame DEF Tame
<1>2. CASE d.kind[o] = "NONE"
  <2>1. e = [d EXCEPT !.ref[o] = h] BY <1>2 DEF SetHead
  <2> HIDE DEF e
  <2>2. /\ e.next = d.next /\ e.inputs = d.inputs /\ e.acts = d.acts /\ e.head = d.head
        /\ e.kind = d.kind /\ e.ref = [d.ref EXCEPT ![o] = h]
    BY <2>1 DEF DBs
  <2>3. d.ref \in [Objs -> Objs \cup {None}] BY DEF DBs
  <2>4. QED BY <1>1, <1>2, <2>2, <2>3 DEF HeadOf, e, LedTo
<1>3. CASE d.kind[o] # "NONE"
  <2>1. e = [d EXCEPT !.head[o] = h] BY <1>3 DEF SetHead
  <2> HIDE DEF e
  <2>2. /\ e.next = d.next /\ e.inputs = d.inputs /\ e.acts = d.acts /\ e.ref = d.ref
        /\ e.kind = d.kind /\ e.head = [d.head EXCEPT ![o] = h]
    BY <2>1 DEF DBs
  <2>3. d.head \in [Objs -> Objs \cup {None}] BY DEF DBs
  <2>4. QED BY <1>1, <1>3, <2>2, <2>3 DEF HeadOf, e, LedTo
<1>4. QED BY <1>2, <1>3

LEMMA LeaveIs ==
    ASSUME NEW d \in DBs, NEW r \in Objs, NEW j \in Objs
    PROVE  LeavesOne(d, Leave(d, r, j), r, j)
<1> DEFINE f == Leave(d, r, j)
           q == d.next[r]
<1>1. Tame(d, f) BY LeaveTame
<1>2. q \in Objs \cup {None} BY DEF DBs
<1>3. CASE HeadOf(d, j) = r
  <2>1. f = SetHead(d, j, q) BY <1>3 DEF Leave
  <2> HIDE DEF q, f
  <2>2. /\ HeadOf(f, j) = q
        /\ f.next = d.next /\ f.inputs = d.inputs /\ f.acts = d.acts
        /\ \A x \in Objs \ {j} : f.head[x] = d.head[x] /\ f.ref[x] = d.ref[x]
        /\ d.kind[j] = "NONE" => f.head[j] = d.head[j]
    <3>1. LedTo(d, f, j, q) BY <1>2, <2>1, SetHeadLeads
    <3>2. QED BY <3>1 DEF LedTo
  <2>3. QED BY <1>1, <1>3, <2>2 DEF LeavesOne, f, q
<1>4. CASE HeadOf(d, j) # r
  <2> DEFINE chain == Chain(d, HeadOf(d, j))
             next == [x \in Objs |-> IF x \in chain /\ d.next[x] = r THEN q ELSE d.next[x]]
  <2>1. f = [d EXCEPT !.next = next] BY <1>4 DEF Leave
  <2> HIDE DEF f, next
  <2>2. /\ f.inputs = d.inputs /\ f.acts = d.acts /\ f.head = d.head /\ f.ref = d.ref
        /\ f.kind = d.kind /\ f.next = next
    BY <2>1 DEF DBs
  <2>3. HeadOf(f, j) = HeadOf(d, j) BY <2>2 DEF HeadOf
  <2>4. \A x \in Objs \ {r} : f.next[x] = IF x \in chain /\ d.next[x] = r THEN q ELSE d.next[x]
    BY <2>2 DEF next
  <2> HIDE DEF q, chain
  <2>5. QED BY <1>1, <1>4, <2>2, <2>3, <2>4 DEF LeavesOne, f, q, chain
<1>5. QED BY <1>3, <1>4

LEMMA DeleteLeaveIs ==
    ASSUME NEW d \in DBs, NEW r \in Objs, NEW j \in Objs
    PROVE  LeavesOne(d, DeleteLeave(d, r, j), r, j)
<1> DEFINE f == DeleteLeave(d, r, j)
           q == d.next[r]
<1>1. Tame(d, f) BY DeleteLeaveTame
<1>2. q \in Objs \cup {None} BY DEF DBs
<1>3. CASE HeadOf(d, j) = r
  <2> DEFINE e == SetHead(d, j, q)
  <2>1. f = [e EXCEPT !.next[r] = None] BY <1>3 DEF DeleteLeave
  <2> HIDE DEF q, f
  <2>2. /\ e \in DBs /\ HeadOf(e, j) = q
        /\ e.next = d.next /\ e.inputs = d.inputs /\ e.acts = d.acts
        /\ \A x \in Objs \ {j} : e.head[x] = d.head[x] /\ e.ref[x] = d.ref[x]
        /\ d.kind[j] = "NONE" => e.head[j] = d.head[j]
    <3>1. LedTo(d, e, j, q) BY <1>2, SetHeadLeads
    <3>2. QED BY <3>1 DEF LedTo
  <2> HIDE DEF e
  <2>3. /\ f.inputs = e.inputs /\ f.acts = e.acts /\ f.head = e.head /\ f.ref = e.ref
        /\ f.kind = e.kind /\ f.next = [e.next EXCEPT ![r] = None]
    BY <2>1, <2>2 DEF DBs
  <2>4. HeadOf(f, j) = q BY <2>2, <2>3 DEF HeadOf
  <2>5. \A x \in Objs \ {r} : f.next[x] = d.next[x] BY <2>2, <2>3 DEF DBs
  <2>6. QED BY <1>1, <1>3, <2>2, <2>3, <2>4, <2>5 DEF LeavesOne, f, q
<1>4. CASE HeadOf(d, j) # r
  <2>1. f = Leave(d, r, j) BY <1>4 DEF DeleteLeave
  <2>2. QED BY <2>1, LeaveIs
<1>5. QED BY <1>3, <1>4

(* As Hung, and hd is what the heads are but for that of r *)
HungBut(d, hd, r) == Hung(d, hd) /\ \A x \in Objs \ {r} : hd[x] = HeadOf(d, x)

(* It was so of e, and still is of g, with the same head h for r *)
HungStill(g, r, h) == \E hd : HungBut(g, hd, r) /\ hd[r] = h

(* From f to g the rule r loses its inputs *)
Forgets(f, g, r) ==
    /\ g \in DBs /\ g.inputs = [f.inputs EXCEPT ![r] = <<>>]
    /\ g.lives = f.lives /\ g.kind = f.kind /\ g.state = f.state /\ g.cli = f.cli
    /\ g.next = f.next /\ g.acts = f.acts
    /\ \A x \in Objs \ {r} : g.head[x] = f.head[x] /\ g.ref[x] = f.ref[x]

LEMMA ForgetsNeat ==
    ASSUME NEW e, Good(e), Neat(e), NEW r \in Objs, NEW j \in Objs, e.kind[r] # "NONE",
           NEW f, LeavesOne(e, f, r, j), NEW g, Forgets(f, g, r)
    PROVE  /\ Neat(g)
           /\ \A x, i \in Objs : Edge(g, x, i) <=> x # r /\ Edge(e, x, i)
           /\ \A x \in Objs : Alive(g, x) <=> Alive(e, x)
<1>1. /\ e \in DBs /\ f \in DBs /\ g \in DBs /\ Tame(e, f)
      /\ e.inputs \in [Objs -> Seq(Objs)] /\ g.inputs = [e.inputs EXCEPT ![r] = <<>>]
      /\ g.lives = e.lives /\ g.kind = e.kind /\ g.state = e.state /\ g.cli = e.cli
      /\ g.acts = e.acts
  BY DEF Good, LeavesOne, Tame, Forgets, DBs
<1>2. \A x, i \in Objs : Edge(g, x, i) <=> x # r /\ Edge(e, x, i)
  <2>1. \A x \in Objs : g.inputs[x] = IF x = r THEN <<>> ELSE e.inputs[x] BY <1>1
  <2>2. \A i : ~ ListFind(<<>>, i) BY DEF ListFind
  <2>3. QED BY <2>1, <2>2 DEF Edge
<1>3. \A x \in Objs : Alive(g, x) <=> Alive(e, x) BY <1>1 DEF Alive
<1>4. OneInput(g) BY <1>1 DEF Neat, OneInput
<1>5. EdgesFit(g) BY <1>1, <1>2, <1>3 DEF Neat, EdgesFit
<1>6. Blank(g)
  <2> SUFFICES ASSUME NEW x \in Objs, g.kind[x] = "NONE"
               PROVE  g.head[x] = None /\ g.state[x] = "INITIALIZED" /\ g.cli[x] = "INITIALIZED"
    BY DEF Blank
  <2>1. x # r /\ e.kind[x] = "NONE" BY <1>1
  <2>2. g.head[x] = e.head[x] BY <2>1 DEF Forgets, LeavesOne
  <2>3. QED BY <1>1, <2>1, <2>2 DEF Neat, Blank
<1>7. ActsFit(g) BY <1>1 DEF Neat, ActsFit
<1>8. QED BY <1>2, <1>3, <1>4, <1>5, <1>6, <1>7 DEF Neat

LEMMA UnlinkHung ==
    ASSUME NEW e, Good(e), Neat(e), NEW r \in Objs, NEW hd, HungBut(e, hd, r),
           NEW j \in Objs, Edge(e, r, j), e.kind[r] # "NONE",
           NEW f, LeavesOne(e, f, r, j), NEW g, Forgets(f, g, r)
    PROVE  HungStill(g, r, hd[r])
<1> DEFINE h == HeadOf(e, j)
           p == HeadOf(f, j)
           hds == [hd EXCEPT ![j] = p]
<1>1. /\ e \in DBs /\ f \in DBs /\ g \in DBs /\ g.kind = e.kind /\ g.next = f.next
      /\ f.kind = e.kind
  BY DEF Good, LeavesOne, Tame, Forgets
<1>2. r # j BY DEF Neat, EdgesFit
<1>3. /\ \A x, i \in Objs : Edge(g, x, i) <=> x # r /\ Edge(e, x, i)
      /\ \A x \in Objs : Alive(g, x) <=> Alive(e, x)
  BY ForgetsNeat
<1>4. Hung(e, hd) /\ hd \in [Objs -> Objs \cup {None}] /\ hd[j] = h
  BY <1>2 DEF HungBut, Hung
<1>5. h \in Objs \cup {None} /\ p \in Objs \cup {None} BY <1>1, HeadOfType
<1>6. \A x \in Objs : x # r /\ x # j => HeadOf(g, x) = HeadOf(e, x)
  BY <1>1 DEF HeadOf, Forgets, LeavesOne
<1>7. HeadOf(g, j) = p BY <1>1, <1>2 DEF HeadOf, Forgets
<1>8. h = r => p = e.next[r] /\ \A x \in Objs \ {r} : g.next[x] = e.next[x]
  BY <1>1 DEF LeavesOne
<1>9. h # r =>
         /\ p = h
         /\ \A x \in Objs \ {r} :
               g.next[x] = IF x \in Chain(e, h) /\ e.next[x] = r THEN e.next[r] ELSE e.next[x]
  BY <1>1 DEF LeavesOne
<1>10. r \in Users(e, j) BY DEF Users
<1> HIDE DEF h, p
<1>11. hds \in [Objs -> Objs \cup {None}] BY <1>4, <1>5
<1>12. ASSUME NEW i \in Objs, i # j, Alive(g, i) PROVE Strung(g, hds[i], i)
  <2>1. Alive(e, i) /\ hds[i] = hd[i] BY <1>3, <1>4, <1>12
  <2>2. hd[i] \in Objs \cup {None} /\ Strung(e, hd[i], i) BY <1>4, <2>1 DEF Hung
  <2>3. \A x \in Users(e, i) : x \in Objs /\ Edge(e, x, i) BY DEF Users
  <2>4. r \notin Users(e, i) BY <1>1, <1>12, <2>3, OneEdge DEF Neat
  <2>5. Users(g, i) = Users(e, i) BY <1>3, <2>3, <2>4 DEF Users
  <2>6. ASSUME NEW x \in Users(e, i), h # r PROVE x \notin Chain(e, h)
    <3>1. CASE Alive(e, j)
      <4>1. Strung(e, hd[j], j) BY <1>4, <3>1 DEF Hung
      <4>2. Chain(e, h) = Users(e, j) BY <1>4, <4>1 DEF Strung
      <4>3. x \notin Users(e, j) BY <1>1, <1>12, <2>3, OneEdge DEF Neat, Users
      <4>4. QED BY <4>2, <4>3
    <3>2. CASE ~ Alive(e, j)
      <4>1. h = None BY <1>4, <3>2 DEF Hung
      <4>2. QED BY <1>1, <4>1, ChainOfNone
    <3>3. QED BY <3>1, <3>2
  <2>7. \A x \in Users(e, i) : g.next[x] = e.next[x] BY <1>8, <1>9, <2>3, <2>4, <2>6
  <2>8. QED BY <1>1, <2>1, <2>2, <2>5, <2>7, StrungSame
<1>13. ASSUME Alive(g, j) PROVE Strung(g, p, j)
  <2>1. Strung(e, h, j) BY <1>3, <1>4, <1>13 DEF Hung
  <2>2. Chain(e, h) = Users(e, j) /\ Once(e, h) BY <2>1 DEF Strung
  <2>3. Users(g, j) = Users(e, j) \ {r} BY <1>3 DEF Users
  <2>4. Chain(g, p) = Chain(e, h) \ {r} /\ Once(g, p)
    <3>1. CASE h = r
      <4>1. Chain(e, r) = {r} \cup Chain(e, e.next[r]) BY <1>1, ChainParts
      <4>2. r \notin Chain(e, e.next[r]) BY <2>2, <3>1, <4>1 DEF Once
      <4>3. Chain(e, r) \subseteq Objs BY <1>1, ChainCloses
      <4>4. CutsHead(e, g, r) BY <1>8, <3>1, <4>1, <4>2, <4>3 DEF CutsHead
      <4>5. Once(e, r) BY <2>2, <3>1
      <4>6. Chain(g, e.next[r]) = Chain(e, r) \ {r} /\ Once(g, e.next[r])
        BY <1>1, <4>4, <4>5, HeadCut
      <4>7. QED BY <1>8, <3>1, <4>6
    <3>2. CASE h # r
      <4>1. Chain(e, h) \subseteq Objs BY <1>1, <1>5, ChainCloses
      <4>2. CutsInner(e, g, h, r) BY <1>9, <3>2, <4>1 DEF CutsInner
      <4>3. r \in Chain(e, h) BY <1>10, <2>2
      <4>4. Chain(g, h) = Chain(e, h) \ {r} /\ Once(g, h)
        BY <1>1, <1>5, <2>2, <3>2, <4>2, <4>3, InnerCut
      <4>5. QED BY <1>9, <3>2, <4>4
    <3>3. QED BY <3>1, <3>2
  <2>5. QED BY <2>2, <2>3, <2>4 DEF Strung
<1>14. ASSUME ~ Alive(g, j) PROVE p = None
  <2>1. h = None BY <1>3, <1>4, <1>14 DEF Hung
  <2>2. QED BY <1>9, <2>1, NamesAssumption
<1>15. Hung(g, hds)
  <2>1. hds[j] = p /\ \A i \in Objs : i # j => hds[i] = hd[i] BY <1>4
  <2>2. \A i \in Objs : ~ Alive(g, i) => hds[i] = None BY <1>3, <1>4, <1>14, <2>1 DEF Hung
  <2>3. \A i \in Objs : Alive(g, i) => Strung(g, hds[i], i) BY <1>12, <1>13, <2>1
  <2> HIDE DEF hds
  <2>4. QED BY <1>11, <2>2, <2>3 DEF Hung
<1>16. \A x \in Objs \ {r} : hds[x] = HeadOf(g, x)
  <2>1. hds[j] = p /\ \A i \in Objs : i # j => hds[i] = hd[i] BY <1>4
  <2>2. QED BY <1>6, <1>7, <2>1 DEF HungBut
<1>17. hds[r] = hd[r] BY <1>2, <1>4
<1> HIDE DEF hds
<1>18. QED BY <1>15, <1>16, <1>17 DEF HungBut, HungStill

(* From e to g the rule r has left its input, and h is still its head *)
HasLeft(e, g, r, h) ==
    /\ Neat(g) /\ HungStill(g, r, h) /\ g.inputs[r] = <<>>
    /\ g \in DBs /\ \A x \in Objs : Alive(g, x) <=> Alive(e, x)

LEMMA ForgetsNothing ==
    ASSUME NEW e, Good(e), Neat(e), NEW r \in Objs, NEW hd, HungBut(e, hd, r),
           e.kind[r] # "NONE", e.inputs[r] = <<>>, NEW g, Forgets(e, g, r)
    PROVE  HasLeft(e, g, r, hd[r])
<1>1. /\ e \in DBs /\ g \in DBs /\ e.inputs \in [Objs -> Seq(Objs)]
      /\ g.inputs = e.inputs /\ g.lives = e.lives /\ g.kind = e.kind
      /\ g.state = e.state /\ g.cli = e.cli /\ g.next = e.next /\ g.acts = e.acts
  <2>1. e \in DBs /\ e.inputs \in [Objs -> Seq(Objs)] BY DEF Good, DBs
  <2>2. [e.inputs EXCEPT ![r] = <<>>] = e.inputs BY <2>1
  <2>3. QED BY <2>1, <2>2 DEF Forgets
<1>2. \A x, i \in Objs : Edge(g, x, i) <=> Edge(e, x, i) BY <1>1 DEF Edge
<1>3. \A x \in Objs : Alive(g, x) <=> Alive(e, x) BY <1>1 DEF Alive
<1>4. OneInput(g) /\ EdgesFit(g) BY <1>1, <1>2, <1>3 DEF Neat, OneInput, EdgesFit
<1>5. Blank(g)
  <2> SUFFICES ASSUME NEW x \in Objs, g.kind[x] = "NONE"
               PROVE  g.head[x] = None /\ g.state[x] = "INITIALIZED" /\ g.cli[x] = "INITIALIZED"
    BY DEF Blank
  <2>1. x # r /\ e.kind[x] = "NONE" BY <1>1
  <2>2. g.head[x] = e.head[x] BY <2>1 DEF Forgets
  <2>3. QED BY <1>1, <2>1, <2>2 DEF Neat, Blank
<1>6. ActsFit(g) BY <1>1 DEF Neat, ActsFit
<1>7. Hung(g, hd)
  <2>1. \A i \in Objs : Users(g, i) = Users(e, i) BY <1>2 DEF Users
  <2>2. QED BY <1>1, <1>3, <2>1, HungSame DEF HungBut
<1>8. \A x \in Objs \ {r} : hd[x] = HeadOf(g, x)
  BY <1>1 DEF HungBut, HeadOf, Forgets
<1>9. HungStill(g, r, hd[r]) BY <1>7, <1>8 DEF HungStill, HungBut
<1>10. QED BY <1>1, <1>3, <1>4, <1>5, <1>6, <1>9 DEF HasLeft, Neat

LEMMA ForgetsOne ==
    ASSUME NEW e, Good(e), Neat(e), NEW r \in Objs, NEW hd, HungBut(e, hd, r),
           NEW j \in Objs, Edge(e, r, j), e.kind[r] # "NONE",
           NEW f, LeavesOne(e, f, r, j), NEW g, Forgets(f, g, r)
    PROVE  HasLeft(e, g, r, hd[r])
<1>1. /\ Neat(g) /\ \A x \in Objs : Alive(g, x) <=> Alive(e, x)
  BY ForgetsNeat
<1>2. HungStill(g, r, hd[r]) BY UnlinkHung
<1>3. f \in DBs /\ g \in DBs /\ g.inputs = [f.inputs EXCEPT ![r] = <<>>]
  BY DEF LeavesOne, Tame, Forgets
<1>4. g.inputs[r] = <<>> BY <1>3 DEF DBs
<1>5. QED BY <1>1, <1>2, <1>3, <1>4 DEF HasLeft

(* Of one or no input *)
AllLeave(d, r, l) == FoldLeft(LAMBDA x, j : Leave(x, r, j), d, l)
AllDeleteLeave(d, r, l) == FoldLeft(LAMBDA e, i : DeleteLeave(e, r, i), d, l)

LEMMA LeaveShort ==
    ASSUME NEW d \in DBs, NEW r \in Objs, NEW l \in Seq(Objs), NEW f,
           f = AllLeave(d, r, l)
    PROVE  (l = <<>> => f = d) /\ (Len(l) = 1 => f = Leave(d, r, l[1]))
<1>1. PICK it : LeavesBy(it, d, r, l) BY LeaveSteps
<1>0. f = it[1..Len(l)] BY <1>1 DEF LeavesBy, AllLeave
<1>2. it[{}] = d BY <1>1 DEF LeavesBy
<1>3. ASSUME l = <<>> PROVE f = d
  <2>1. 1..Len(l) = {} BY <1>3
  <2>2. QED BY <1>0, <1>2, <2>1
<1>4. ASSUME Len(l) = 1 PROVE f = Leave(d, r, l[1])
  <2>1. 1..Len(l) = {1} /\ 1 \in Nat BY <1>4
  <2>2. Max({1}) = 1
    <3> DEFINE s == {1}
    <3>1. s \in SUBSET (1..1) /\ s # {} OBVIOUS
    <3> HIDE DEF s
    <3>2. Max(s) \in s BY <2>1, <3>1, MaxIn
    <3>3. QED BY <3>2 DEF s
  <2>3. {1} \ {1} = {} /\ {1} # {} OBVIOUS
  <2>4. it[{1}] = Leave(it[{1} \ {Max({1})}], r, l[Max({1})])
    BY <1>1, <2>1, <2>3 DEF LeavesBy
  <2>5. it[{1}] = Leave(d, r, l[1]) BY <1>2, <2>2, <2>3, <2>4
  <2>6. QED BY <1>0, <2>1, <2>5
<1>5. QED BY <1>3, <1>4

LEMMA DeleteLeaveShort ==
    ASSUME NEW d \in DBs, NEW r \in Objs, NEW l \in Seq(Objs), NEW f,
           f = AllDeleteLeave(d, r, l)
    PROVE  (l = <<>> => f = d) /\ (Len(l) = 1 => f = DeleteLeave(d, r, l[1]))
<1>1. PICK it : DeleteLeavesBy(it, d, r, l) BY DeleteLeaveSteps
<1>0. f = it[1..Len(l)] BY <1>1 DEF DeleteLeavesBy, AllDeleteLeave
<1>2. it[{}] = d BY <1>1 DEF DeleteLeavesBy
<1>3. ASSUME l = <<>> PROVE f = d
  <2>1. 1..Len(l) = {} BY <1>3
  <2>2. QED BY <1>0, <1>2, <2>1
<1>4. ASSUME Len(l) = 1 PROVE f = DeleteLeave(d, r, l[1])
  <2>1. 1..Len(l) = {1} /\ 1 \in Nat BY <1>4
  <2>2. Max({1}) = 1
    <3> DEFINE s == {1}
    <3>1. s \in SUBSET (1..1) /\ s # {} OBVIOUS
    <3> HIDE DEF s
    <3>2. Max(s) \in s BY <2>1, <3>1, MaxIn
    <3>3. QED BY <3>2 DEF s
  <2>3. {1} \ {1} = {} /\ {1} # {} OBVIOUS
  <2>4. it[{1}] = DeleteLeave(it[{1} \ {Max({1})}], r, l[Max({1})])
    BY <1>1, <2>1, <2>3 DEF DeleteLeavesBy
  <2>5. it[{1}] = DeleteLeave(d, r, l[1]) BY <1>2, <2>2, <2>3, <2>4
  <2>6. QED BY <1>0, <2>1, <2>5
<1>5. QED BY <1>3, <1>4

(* The rule r has left all its inputs *)
Unlinked(d, r) == [AllLeave(d, r, d.inputs[r]) EXCEPT !.inputs[r] = <<>>]

LEMMA RuleLeaves ==
    ASSUME NEW e, Good(e), Neat(e), NEW r \in Objs, NEW hd, HungBut(e, hd, r),
           e.kind[r] # "NONE", NEW g, g = Unlinked(e, r)
    PROVE  /\ HasLeft(e, g, r, hd[r])
           /\ g.head[r] = e.head[r] /\ g.ref[r] = e.ref[r] /\ g.acts = e.acts
<1> DEFINE f == AllLeave(e, r, e.inputs[r])
           l == e.inputs[r]
           g0 == [f EXCEPT !.inputs[r] = <<>>]
<1>1. e \in DBs /\ l \in Seq(Objs) /\ Len(l) <= 1 BY DEF Good, DBs, Neat, OneInput
<1>2. Tame(e, f) BY <1>1, LeaveAll DEF AllLeave
<1>3. g = g0 BY DEF Unlinked
<1>4. (l = <<>> => f = e) /\ (Len(l) = 1 => f = Leave(e, r, l[1]))
  <2>1. f = AllLeave(e, r, l) OBVIOUS
  <2> HIDE DEF f, l
  <2>2. QED BY <1>1, <2>1, LeaveShort
<1> HIDE DEF f
<1>5. f \in DBs /\ <<>> \in Seq(Objs) BY <1>2 DEF Tame
<1>6. Forgets(f, g0, r) /\ g0.head = f.head /\ g0.ref = f.ref
  BY <1>5 DEF Forgets, DBs
<1> HIDE DEF g0
<1>7. CASE l = <<>>
  <2>1. HasLeft(e, g0, r, hd[r]) BY <1>4, <1>6, <1>7, ForgetsNothing
  <2>2. f = e BY <1>4, <1>7
  <2>3. g0.acts = f.acts BY <1>6 DEF Forgets
  <2>4. g0.head[r] = e.head[r] /\ g0.ref[r] = e.ref[r] /\ g0.acts = e.acts
    BY <1>6, <2>2, <2>3
  <2>5. QED BY <1>3, <2>1, <2>4
<1>8. CASE Len(l) = 1
  <2> DEFINE j == l[1]
  <2>1. j \in Objs /\ Edge(e, r, j) BY <1>1, <1>8, ShortLists DEF Edge
  <2>2. f = Leave(e, r, j) BY <1>4, <1>8
  <2> HIDE DEF j
  <2>3. LeavesOne(e, f, r, j) BY <1>1, <2>1, <2>2, LeaveIs
  <2>4. HasLeft(e, g0, r, hd[r]) BY <1>6, <2>1, <2>3, ForgetsOne
  <2>5. r # j BY <2>1 DEF Neat, EdgesFit
  <2>6. f.head[r] = e.head[r] /\ f.ref[r] = e.ref[r] /\ f.acts = e.acts
    BY <2>3, <2>5 DEF LeavesOne
  <2>7. g0.acts = f.acts BY <1>6 DEF Forgets
  <2>8. g0.head[r] = e.head[r] /\ g0.ref[r] = e.ref[r] /\ g0.acts = e.acts
    BY <1>6, <2>6, <2>7
  <2>9. QED BY <1>3, <2>4, <2>8
<1>9. QED
  <2>1. l = <<>> \/ Len(l) = 1 BY <1>1, ShortLists
  <2>2. QED BY <1>7, <1>8, <2>1

(* A rule that is deleted *)
(* The rule r has left all its inputs, and leads to none *)
Detached(d, r) ==
    [AllDeleteLeave(d, r, d.inputs[r]) EXCEPT !.inputs[r] = <<>>, !.head[r] = None]

LEMMA RuleGoes ==
    ASSUME NEW e, Good(e), Neat(e), NEW r \in Objs, NEW hd, HungBut(e, hd, r),
           e.kind[r] # "NONE", NEW g, g = Detached(e, r)
    PROVE  HasLeft(e, g, r, hd[r]) /\ g.head[r] = None /\ g.kind = e.kind /\ g.acts = e.acts
<1> DEFINE f == AllDeleteLeave(e, r, e.inputs[r])
           l == e.inputs[r]
           g0 == [f EXCEPT !.inputs[r] = <<>>, !.head[r] = None]
<1>1. e \in DBs /\ l \in Seq(Objs) /\ Len(l) <= 1 BY DEF Good, DBs, Neat, OneInput
<1>2. Tame(e, f) BY <1>1, DeleteLeaveAll DEF AllDeleteLeave
<1>3. g = g0 BY DEF Detached
<1>4. (l = <<>> => f = e) /\ (Len(l) = 1 => f = DeleteLeave(e, r, l[1]))
  <2>1. f = AllDeleteLeave(e, r, l) OBVIOUS
  <2> HIDE DEF f, l
  <2>2. QED BY <1>1, <2>1, DeleteLeaveShort
<1> HIDE DEF f
<1>5. f \in DBs /\ <<>> \in Seq(Objs) BY <1>2 DEF Tame
<1>6. Forgets(f, g0, r) /\ g0.head[r] = None /\ g0.kind = e.kind /\ g0.acts = f.acts
  BY <1>2, <1>5 DEF Forgets, DBs, Tame
<1> HIDE DEF g0
<1>7. CASE l = <<>>
  <2>1. HasLeft(e, g0, r, hd[r]) BY <1>4, <1>6, <1>7, ForgetsNothing
  <2>2. QED BY <1>3, <1>4, <1>6, <1>7, <2>1
<1>8. CASE Len(l) = 1
  <2> DEFINE j == l[1]
  <2>1. j \in Objs /\ Edge(e, r, j) BY <1>1, <1>8, ShortLists DEF Edge
  <2>2. f = DeleteLeave(e, r, j) BY <1>4, <1>8
  <2> HIDE DEF j
  <2>3. LeavesOne(e, f, r, j) BY <1>1, <2>1, <2>2, DeleteLeaveIs
  <2>4. HasLeft(e, g0, r, hd[r]) BY <1>6, <2>1, <2>3, ForgetsOne
  <2>5. QED BY <1>3, <1>6, <2>3, <2>4 DEF LeavesOne
<1>9. QED
  <2>1. l = <<>> \/ Len(l) = 1 BY <1>1, ShortLists
  <2>2. QED BY <1>7, <1>8, <2>1

-----------------------------------------------------------------------------
(* An object goes *)

LEMMA ShortRemove ==
    ASSUME NEW l \in Seq(Objs), Len(l) <= 1, NEW x
    PROVE  /\ Len(ListRemove(l, x)) <= 1
           /\ \A y : ListFind(ListRemove(l, x), y) <=> ListFind(l, y) /\ y # x
<1>1. CASE ~ ListFind(l, x)
  <2>1. ListRemove(l, x) = l BY <1>1, RemoveFacts
  <2>2. QED BY <1>1, <2>1
<1>2. CASE ListFind(l, x)
  <2> DEFINE m == ListRemove(l, x)
  <2>1. Len(l) \in Nat \ {0} /\ Len(m) = Len(l) - 1 BY <1>2, RemoveFacts
  <2>2. Len(l) = 1 BY <2>1
  <2>3. Len(m) = 0 BY <2>1, <2>2
  <2>4. \A y : ListFind(l, y) <=> y = l[1] BY <2>2, ShortLists
  <2> HIDE DEF m
  <2>5. \A y : ~ ListFind(m, y) BY <2>3 DEF ListFind
  <2>6. Len(m) <= 1 /\ \A y : ListFind(m, y) <=> ListFind(l, y) /\ y # x
    BY <1>2, <2>3, <2>4, <2>5
  <2>7. QED BY <2>6 DEF m
<1>3. QED BY <1>1, <1>2

(* As HungBut, and o may lead where it will *)
HungAside(d, hd, o) ==
    /\ hd \in [Objs -> Objs \cup {None}]
    /\ \A i \in Objs \ {o} :
          /\ Alive(d, i) => Strung(d, hd[i], i)
          /\ ~ Alive(d, i) => hd[i] = None
          /\ hd[i] = HeadOf(d, i)

Dies(g, o) == [g EXCEPT !.state[o] = "DELETED", !.acts = {p \in @ : p[1] # o /\ p[2] # o}]

LEMMA DiesWired ==
    ASSUME NEW g \in DBs, Neat(g), NEW o \in Objs, NEW hd, HungAside(g, hd, o),
           g.kind[o] # "NONE", g.head[o] = None, \A i \in Objs : ~ Edge(g, o, i)
    PROVE  Wired(Dies(g, o))
<1> DEFINE x == Dies(g, o)
           hds == [hd EXCEPT ![o] = None]
           left == {p \in g.acts : p[1] # o /\ p[2] # o}
<1>1. /\ x \in DBs /\ x.lives = g.lives /\ x.kind = g.kind /\ x.inputs = g.inputs
      /\ x.head = g.head /\ x.ref = g.ref /\ x.next = g.next /\ x.cli = g.cli
      /\ x.state = [g.state EXCEPT ![o] = "DELETED"] /\ x.acts = left
  <2>1. left \in SUBSET (Objs \X Objs) BY DEF DBs
  <2>2. x = [g EXCEPT !.state[o] = "DELETED", !.acts = left] BY DEF Dies
  <2> HIDE DEF left, x
  <2>3. QED BY <2>1, <2>2 DEF DBs, States
<1>2. left \subseteq g.acts OBVIOUS
<1> HIDE DEF x, left
<1>3. g.state \in [Objs -> States] BY DEF DBs
<1>4. \A i \in Objs : Alive(x, i) <=> i # o /\ Alive(g, i) BY <1>1, <1>3 DEF Alive
<1>5. \A r, i \in Objs : Edge(x, r, i) <=> Edge(g, r, i) BY <1>1 DEF Edge
<1>6. Neat(x)
  <2>1. OneInput(x) BY <1>1 DEF Neat, OneInput
  <2>2. EdgesFit(x) BY <1>1, <1>4, <1>5 DEF Neat, EdgesFit
  <2>3. Blank(x) BY <1>1, <1>3 DEF Neat, Blank
  <2>4. ActsFit(x) BY <1>1, <1>2 DEF Neat, ActsFit
  <2>5. QED BY <2>1, <2>2, <2>3, <2>4 DEF Neat
<1>7. hd \in [Objs -> Objs \cup {None}] BY DEF HungAside
<1>8. Hung(x, hds)
  <2>1. hds \in [Objs -> Objs \cup {None}] /\ hds[o] = None /\ \A i \in Objs \ {o} : hds[i] = hd[i]
    BY <1>7
  <2> HIDE DEF hds
  <2>2. ASSUME NEW i \in Objs, Alive(x, i) PROVE Strung(x, hds[i], i)
    <3>1. i # o /\ Alive(g, i) BY <1>4, <2>2
    <3>2. hds[i] = hd[i] /\ hd[i] \in Objs \cup {None} /\ Strung(g, hd[i], i)
      BY <1>7, <2>1, <3>1 DEF HungAside
    <3>3. Users(x, i) = Users(g, i) BY <1>5 DEF Users
    <3>4. QED BY <1>1, <3>2, <3>3, StrungSame
  <2>3. \A i \in Objs : ~ Alive(x, i) => hds[i] = None BY <1>4, <2>1 DEF HungAside
  <2>4. QED BY <2>1, <2>2, <2>3 DEF Hung
<1>9. hds = Heads(x)
  <2>1. HeadOf(x, o) = None BY <1>1 DEF HeadOf
  <2>2. \A i \in Objs \ {o} : HeadOf(x, i) = hd[i] BY <1>1 DEF HeadOf, HungAside
  <2>3. \A i \in Objs : hds[i] = HeadOf(x, i) BY <1>7, <2>1, <2>2
  <2>4. hds = [i \in Objs |-> hds[i]] BY <1>7
  <2> HIDE DEF hds
  <2>5. QED BY <2>3, <2>4 DEF Heads
<1>10. QED BY <1>6, <1>8, <1>9 DEF Wired, x

LEMMA WithoutAside ==
    ASSUME NEW e, Good(e), Neat(e), NEW o \in Objs, NEW hd, HungAside(e, hd, o),
           e.kind[o] # "NONE"
    PROVE  LET g == Without(e, o) IN
              /\ g \in DBs /\ Neat(g) /\ HungAside(g, hd, o)
              /\ g.kind = e.kind /\ g.head[o] = None
              /\ \A r, i \in Objs : Edge(g, r, i) => Edge(e, r, i)
<1> DEFINE g == Without(e, o)
           chain == Chain(e, HeadOf(e, o))
           ins == [x \in Objs |-> IF x \in chain THEN ListRemove(e.inputs[x], o) ELSE e.inputs[x]]
<1>1. e \in DBs /\ Tame(e, g) BY WithoutTame DEF Good
<1>2. g \in DBs BY <1>1 DEF Tame
<1>3. e.inputs \in [Objs -> Seq(Objs)] /\ \A x \in Objs : Len(e.inputs[x]) <= 1
  BY <1>1 DEF DBs, Neat, OneInput
<1>4. \A x \in Objs : /\ Len(ins[x]) <= 1
                      /\ \A i : i # o => (ListFind(ins[x], i) <=> ListFind(e.inputs[x], i))
  BY <1>3, ShortRemove
<1>5. g = [e EXCEPT !.inputs = ins, !.head[o] = None] 
  <2>1. g = [e EXCEPT !.inputs = ins, !.head[o] = None,
                      !.ref[o] = IF e.kind[o] = "NONE" THEN None ELSE @]
    BY DEF Without
  <2>2. [e.ref EXCEPT ![o] = IF e.kind[o] = "NONE" THEN None ELSE @] = e.ref BY <1>1 DEF DBs
  <2> HIDE DEF g, ins
  <2>3. QED BY <1>1, <2>1, <2>2 DEF DBs
<1> HIDE DEF ins, g
<1>6. /\ g.kind = e.kind /\ g.state = e.state /\ g.cli = e.cli /\ g.lives = e.lives
      /\ g.inputs = ins /\ g.head = [e.head EXCEPT ![o] = None] /\ g.ref = e.ref
      /\ g.next = e.next /\ g.acts = e.acts
  BY <1>1, <1>5 DEF DBs
<1>7. \A x, i \in Objs : i # o => (Edge(g, x, i) <=> Edge(e, x, i)) BY <1>4, <1>6 DEF Edge
<1>8. \A i \in Objs : Alive(g, i) <=> Alive(e, i) BY <1>6 DEF Alive
<1>9. \A r, i \in Objs : Edge(g, r, i) => Edge(e, r, i) BY <1>1 DEF Tame
<1>10. e.head \in [Objs -> Objs \cup {None}] BY <1>1 DEF DBs
<1>11. Neat(g)
  <2>1. OneInput(g) BY <1>4, <1>6 DEF OneInput
  <2>2. EdgesFit(g) BY <1>6, <1>8, <1>9 DEF Neat, EdgesFit
  <2>3. Blank(g) BY <1>6, <1>10 DEF Neat, Blank
  <2>4. ActsFit(g) BY <1>6 DEF Neat, ActsFit
  <2>5. QED BY <2>1, <2>2, <2>3, <2>4 DEF Neat
<1>12. HungAside(g, hd, o)
  <2>1. \A i \in Objs \ {o} : HeadOf(g, i) = HeadOf(e, i) BY <1>6, <1>10 DEF HeadOf
  <2>2. ASSUME NEW i \in Objs \ {o}, Alive(g, i) PROVE Strung(g, hd[i], i)
    <3>1. Strung(e, hd[i], i) /\ hd[i] \in Objs \cup {None} BY <1>8, <2>2 DEF HungAside
    <3>2. Users(g, i) = Users(e, i) BY <1>7 DEF Users
    <3>3. QED BY <1>1, <1>2, <1>6, <3>1, <3>2, StrungSame
  <2>3. QED BY <1>8, <2>1, <2>2 DEF HungAside
<1>13. g.head[o] = None BY <1>6, <1>10
<1>14. QED BY <1>2, <1>6, <1>9, <1>11, <1>12, <1>13 DEF g

LEMMA DeleteWired ==
    ASSUME NEW e, Good(e), Neat(e), NEW o \in Objs, NEW hd, HungBut(e, hd, o),
           e.kind[o] # "NONE"
    PROVE  Wired(Delete(e, o))
<1>1. HungAside(e, hd, o) BY DEF HungBut, Hung, HungAside
<1>2. e \in DBs BY DEF Good
<1>3. CASE e.kind[o] # "RULE"
  <2> DEFINE g == Without(e, o)
  <2>1. Delete(e, o) = Dies(g, o) BY <1>3 DEF Delete, Dies
  <2>2. /\ g \in DBs /\ Neat(g) /\ HungAside(g, hd, o)
        /\ g.kind = e.kind /\ g.head[o] = None
        /\ \A r, i \in Objs : Edge(g, r, i) => Edge(e, r, i)
    BY <1>1, WithoutAside
  <2> HIDE DEF g
  <2>3. \A i \in Objs : ~ Edge(g, o, i) BY <1>3, <2>2 DEF Good, RulesOnly
  <2>4. QED BY <2>1, <2>2, <2>3, DiesWired
<1>4. CASE e.kind[o] = "RULE"
  <2> DEFINE g == Detached(e, o)
  <2>1. Delete(e, o) = Dies(g, o) BY <1>4 DEF Delete, Dies, Detached, AllDeleteLeave
  <2>2. g = Detached(e, o) OBVIOUS
  <2> HIDE DEF g
  <2>3. HasLeft(e, g, o, hd[o]) /\ g.head[o] = None /\ g.kind = e.kind BY <2>2, RuleGoes
  <2>4. /\ g \in DBs /\ Neat(g) /\ g.inputs[o] = <<>> /\ HungStill(g, o, hd[o])
    BY <2>3 DEF HasLeft
  <2>5. PICK hds : HungBut(g, hds, o) BY <2>4 DEF HungStill
  <2>6. HungAside(g, hds, o) BY <2>5 DEF HungBut, Hung, HungAside
  <2>7. \A i \in Objs : ~ Edge(g, o, i) BY <2>4 DEF Edge, ListFind
  <2>8. QED BY <2>1, <2>3, <2>4, <2>6, <2>7, DiesWired
<1>5. QED BY <1>3, <1>4

-----------------------------------------------------------------------------
(* What is found or made *)

(* From d to e the object o is found, or made as the given kind *)
Gets(d, e, o, kind) ==
    /\ d \in DBs /\ e \in DBs /\ o \in Objs /\ Alive(e, o)
    /\ e.inputs = d.inputs /\ e.head = d.head /\ e.ref = d.ref /\ e.next = d.next
    /\ e.acts = d.acts
    /\ \A x \in Objs \ {o} : /\ e.kind[x] = d.kind[x] /\ e.state[x] = d.state[x]
                             /\ e.cli[x] = d.cli[x] /\ Alive(e, x) = Alive(d, x)
    /\ \A x \in Objs : x[2] <= d.lives[x[1]] => x[2] <= e.lives[x[1]]
    /\ d.kind[o] # "NONE" => e = d
    /\ d.kind[o] = "NONE" => e.kind[o] = kind /\ e.state[o] = "INITIALIZED"
    /\ e.cli[o] \in {d.cli[o], "INITIALIZED"}
    /\ ~ Alive(d, o) => d.kind[o] = "NONE" /\ ~ (o[2] <= d.lives[o[1]])

LEMMA GetsIt ==
    ASSUME NEW d, Good(d), NEW n \in Names, NEW kind \in {"NONE", Kind(n)}, Room(d, n)
    PROVE  LET e == GetOrCreate(d, n, kind) IN Gets(d, e, Obj(e, n), kind)
<1> DEFINE e == GetOrCreate(d, n, kind)
           new == <<n, d.lives[n] + 1>>
           o == Obj(d, n)
<1>1. /\ d \in DBs /\ d.lives \in [Names -> 0..Lives] /\ d.lives[n] \in Nat /\ Lives \in Nat
      /\ d.kind \in [Objs -> {"NONE", "TEST", "RULE", "ACTION"}]
      /\ d.state \in [Objs -> States] /\ d.dflt \in [Objs -> Words] /\ d.cli \in [Objs -> Words]
  BY BoundsAssumption DEF Good, DBs
<1>2. Extends(d, e) /\ Known(e, n) /\ Obj(e, n) \in Objs BY GetOrCreateFacts
<1>3. e \in DBs /\ Alive(e, Obj(e, n)) BY <1>2 DEF Extends, Good, Known
<1>4. CASE ~ Known(d, n)
  <2>1. d.lives[n] + 1 \in 1..Lives /\ new \in Objs BY <1>1, <1>4 DEF Room, Objs
  <2>2. e = [d EXCEPT !.lives[n] = d.lives[n] + 1, !.kind[new] = kind]
    BY <1>4 DEF GetOrCreate
  <2>3. new[1] = n /\ new[2] = d.lives[n] + 1 OBVIOUS
  <2> HIDE DEF new, e
  <2>4. /\ e.lives = [d.lives EXCEPT ![n] = d.lives[n] + 1]
        /\ e.kind = [d.kind EXCEPT ![new] = kind] /\ e.state = d.state
        /\ e.cli = d.cli /\ e.inputs = d.inputs /\ e.head = d.head /\ e.ref = d.ref
        /\ e.next = d.next /\ e.acts = d.acts
    BY <1>1, <2>2 DEF DBs
  <2>5. d.kind[new] = "NONE" /\ d.state[new] = "INITIALIZED"
    BY <1>1, <2>1, <2>3 DEF Good, Fresh
  <2>6. Obj(e, n) = new BY <1>1, <2>4 DEF Obj, new
  <2>7. ASSUME NEW x \in Objs \ {new}
        PROVE  e.kind[x] = d.kind[x] /\ e.state[x] = d.state[x] /\ e.cli[x] = d.cli[x]
    BY <1>1, <2>4
  <2>8. ASSUME NEW x \in Objs \ {new} PROVE Alive(e, x) = Alive(d, x)
    <3>1. x[1] \in Names /\ x[2] \in 1..Lives /\ x = <<x[1], x[2]>> BY DEF Objs
    <3>2. CASE x[1] # n BY <1>1, <2>4, <3>1, <3>2 DEF Alive
    <3>3. CASE x[1] = n
      <4>1. x[2] # d.lives[n] + 1 BY <3>1, <3>3 DEF new
      <4>2. e.lives[x[1]] = d.lives[n] + 1 /\ d.lives[x[1]] = d.lives[n] BY <1>1, <2>4, <3>3
      <4>3. x[2] \in 1..e.lives[x[1]] <=> x[2] \in 1..d.lives[x[1]] BY <1>1, <3>1, <4>1, <4>2
      <4>4. QED BY <2>4, <4>3 DEF Alive
    <3>4. QED BY <3>2, <3>3
  <2>9. ASSUME NEW x \in Objs, x[2] <= d.lives[x[1]] PROVE x[2] <= e.lives[x[1]]
    <3>1. x[1] \in Names /\ x[2] \in Nat BY <1>1 DEF Objs
    <3>2. d.lives[x[1]] \in Nat BY <1>1, <3>1
    <3>3. e.lives[x[1]] \in {d.lives[x[1]], d.lives[x[1]] + 1} BY <1>1, <2>4, <3>1
    <3>4. QED BY <2>9, <3>1, <3>2, <3>3
  <2>10. e.kind[new] = kind /\ e.state[new] = "INITIALIZED" /\ e.cli[new] = d.cli[new]
    BY <1>1, <2>1, <2>4, <2>5
  <2>11. ~ (new[2] <= d.lives[new[1]]) BY <1>1, <2>3
  <2>12. Gets(d, e, new, kind)
    BY <1>1, <1>3, <2>1, <2>4, <2>5, <2>6, <2>7, <2>8, <2>9, <2>10, <2>11 DEF Gets
  <2>13. QED BY <2>6, <2>12 DEF e
<1>5. CASE Known(d, n) /\ d.kind[o] = "NONE"
  <2>1. o \in Objs /\ Alive(d, o) BY <1>1, <1>5, KnownObj DEF Known
  <2>2. e = [d EXCEPT !.kind[o] = kind, !.state[o] = "INITIALIZED",
                      !.dflt[o] = "INITIALIZED", !.cli[o] = "INITIALIZED"]
    BY <1>5 DEF GetOrCreate
  <2> HIDE DEF o, e
  <2>3. /\ e.lives = d.lives /\ e.inputs = d.inputs /\ e.head = d.head /\ e.ref = d.ref
        /\ e.next = d.next /\ e.acts = d.acts
        /\ e.kind = [d.kind EXCEPT ![o] = kind]
        /\ e.state = [d.state EXCEPT ![o] = "INITIALIZED"]
        /\ e.cli = [d.cli EXCEPT ![o] = "INITIALIZED"]
    BY <1>1, <2>2 DEF DBs
  <2>4. Obj(e, n) = o BY <2>3 DEF Obj, o
  <2>5. \A x \in Objs \ {o} :
           /\ e.kind[x] = d.kind[x] /\ e.state[x] = d.state[x] /\ e.cli[x] = d.cli[x]
    BY <1>1, <2>3
  <2>6. \A x \in Objs \ {o} : Alive(e, x) = Alive(d, x) BY <2>3, <2>5 DEF Alive
  <2>7. e.kind[o] = kind /\ e.state[o] = "INITIALIZED" /\ e.cli[o] = "INITIALIZED"
    BY <1>1, <2>1, <2>3
  <2>8. d.kind[o] = "NONE" BY <1>5 DEF o
  <2>9. Gets(d, e, o, kind) BY <1>1, <1>3, <2>1, <2>3, <2>4, <2>5, <2>6, <2>7, <2>8 DEF Gets
  <2>10. QED BY <2>4, <2>9 DEF e
<1>6. CASE Known(d, n) /\ d.kind[o] # "NONE"
  <2>1. e = d BY <1>6 DEF GetOrCreate
  <2>2. o \in Objs /\ Alive(d, o) BY <1>1, <1>6, KnownObj DEF Known
  <2> HIDE DEF o, e
  <2>3. d.kind[o] # "NONE" BY <1>6 DEF o
  <2>4. Gets(d, d, o, kind) BY <1>1, <2>2, <2>3 DEF Gets
  <2>5. QED BY <2>1, <2>4 DEF e, o
<1>7. QED BY <1>4, <1>5, <1>6

LEMMA GetsHung ==
    ASSUME NEW d, NEW e, NEW o, NEW kind, Gets(d, e, o, kind), Neat(d), NEW hd, Hung(d, hd)
    PROVE  Neat(e) /\ Hung(e, hd)
<1>1. d \in DBs /\ e \in DBs /\ o \in Objs /\ e.inputs = d.inputs BY DEF Gets
<1>2. \A r, i \in Objs : Edge(e, r, i) <=> Edge(d, r, i) BY <1>1 DEF Edge
<1>3. \A x \in Objs : Alive(d, x) => Alive(e, x) BY DEF Gets
<1>4. OneInput(e) BY <1>1 DEF Neat, OneInput
<1>5. EdgesFit(e) BY <1>1, <1>2, <1>3 DEF Neat, EdgesFit, Gets
<1>6. Blank(e)
  <2> SUFFICES ASSUME NEW x \in Objs, e.kind[x] = "NONE"
               PROVE  e.head[x] = None /\ e.state[x] = "INITIALIZED" /\ e.cli[x] = "INITIALIZED"
    BY DEF Blank
  <2>1. CASE x # o BY <2>1 DEF Neat, Blank, Gets
  <2>2. CASE x = o
    <3>1. d.kind[o] = "NONE" BY <2>2 DEF Gets
    <3>2. e.head[o] = None /\ e.cli[o] = "INITIALIZED" BY <1>1, <3>1 DEF Neat, Blank, Gets
    <3>3. QED BY <2>2, <3>1, <3>2 DEF Gets
  <2>3. QED BY <2>1, <2>2
<1>7. ActsFit(e) BY DEF Neat, ActsFit, Gets
<1>8. ASSUME NEW i \in Objs, Alive(e, i) PROVE Strung(e, hd[i], i)
  <2>1. Users(e, i) = Users(d, i) BY <1>2 DEF Users
  <2>2. CASE Alive(d, i)
    <3>1. hd[i] \in Objs \cup {None} /\ Strung(d, hd[i], i) BY <2>2 DEF Hung
    <3>2. QED BY <1>1, <2>1, <3>1, StrungSame DEF Gets
  <2>3. CASE ~ Alive(d, i)
    <3>1. i = o /\ ~ (i[2] <= d.lives[i[1]]) BY <1>8, <2>3 DEF Gets
    <3>2. Users(e, i) = {} BY <2>1, <3>1 DEF Users, Neat, EdgesFit
    <3>3. hd[i] = None BY <2>3 DEF Hung
    <3>4. Chain(e, None) = {} BY <1>1, ChainOfNone
    <3>5. QED BY <3>2, <3>3, <3>4 DEF Strung, Once
  <2>4. QED BY <2>2, <2>3
<1>9. \A i \in Objs : ~ Alive(e, i) => hd[i] = None BY <1>3 DEF Hung
<1>10. hd \in [Objs -> Objs \cup {None}] BY DEF Hung
<1>11. QED BY <1>4, <1>5, <1>6, <1>7, <1>8, <1>9, <1>10 DEF Neat, Hung

LEMMA GetsBut ==
    ASSUME NEW d, NEW e, NEW o, NEW kind, Gets(d, e, o, kind), Neat(d), NEW r \in Objs,
           NEW hd, HungBut(d, hd, r), kind = "NONE" \/ o = r \/ hd[o] = None
    PROVE  Neat(e) /\ HungBut(e, hd, r)
<1>1. Neat(e) /\ Hung(e, hd) BY GetsHung DEF HungBut
<1>2. ASSUME NEW x \in Objs \ {r} PROVE hd[x] = HeadOf(e, x)
  <2>1. hd[x] = HeadOf(d, x) BY DEF HungBut
  <2>2. e.head = d.head /\ e.ref = d.ref BY DEF Gets
  <2>3. CASE e.kind[x] = d.kind[x] BY <2>1, <2>2, <2>3 DEF HeadOf
  <2>4. CASE e.kind[x] # d.kind[x]
    <3>1. x = o /\ d.kind[o] = "NONE" /\ e.kind[o] = kind BY <2>4 DEF Gets
    <3>2. hd[o] = None /\ e.kind[o] # "NONE" BY <2>4, <3>1
    <3>3. d.head[o] = None BY <3>1 DEF Neat, Blank
    <3>4. QED BY <2>2, <3>1, <3>2, <3>3 DEF HeadOf
  <2>5. QED BY <2>3, <2>4
<1>3. QED BY <1>1, <1>2 DEF HungBut

LEMMA WiredBut ==
    ASSUME NEW d, Wired(d), NEW r
    PROVE  Neat(d) /\ HungBut(d, Heads(d), r)
BY DEF Wired, HungBut, Heads

LEMMA ButWired ==
    ASSUME NEW d, Neat(d), NEW r, NEW hd, HungBut(d, hd, r), hd[r] = HeadOf(d, r)
    PROVE  Wired(d)
<1>1. hd \in [Objs -> Objs \cup {None}] BY DEF HungBut, Hung
<1>2. \A x \in Objs : hd[x] = HeadOf(d, x) BY DEF HungBut
<1>3. hd = Heads(d) BY <1>1, <1>2 DEF Heads
<1>4. QED BY <1>3 DEF Wired, HungBut

(* Only a forward reference that rules have must grow with care *)
LEMMA GetWired ==
    ASSUME NEW d, Good(d), Wired(d), NEW n \in Names, NEW kind \in {"NONE", Kind(n)},
           Room(d, n), kind = "NONE" \/ ~ Grows(d, n)
    PROVE  Wired(GetOrCreate(d, n, kind))
<1> DEFINE e == GetOrCreate(d, n, kind)
           o == Obj(e, n)
           hd == Heads(d)
<1>1. Gets(d, e, o, kind) BY GetsIt
<1>2. Neat(d) /\ HungBut(d, hd, o) BY WiredBut
<1>3. Known(d, n) => o = Obj(d, n)
  <2>1. Extends(d, e) BY GetOrCreateFacts
  <2> HIDE DEF e
  <2>2. QED BY <2>1 DEF Extends, o
<1>4. kind = "NONE" \/ ~ Known(d, n) \/ d.kind[o] # "NONE" \/ d.ref[o] = None
  BY <1>3 DEF Grows, Is
<1>5. ~ Known(d, n) => ~ Alive(d, o)
  <2> SUFFICES ASSUME ~ Known(d, n) PROVE ~ Alive(d, o)
    OBVIOUS
  <2>1. e = [d EXCEPT !.lives[n] = d.lives[n] + 1, !.kind[<<n, d.lives[n] + 1>>] = kind]
    BY DEF GetOrCreate
  <2>2. d \in DBs BY <1>1 DEF Gets
  <2> HIDE DEF e
  <2>3. e.lives[n] = d.lives[n] + 1 BY <2>1, <2>2 DEF DBs
  <2>4. o[1] = n /\ o[2] = d.lives[n] + 1 BY <2>3 DEF Obj
  <2>5. d.lives[n] \in Nat BY <2>2, BoundsAssumption DEF DBs
  <2> HIDE DEF o
  <2>6. QED BY <2>4, <2>5 DEF Alive
<1> HIDE DEF e, o
<1>6. o \in Objs /\ d \in DBs BY <1>1 DEF Gets
<1>7. Neat(e) /\ HungBut(e, hd, o)
  <2> HIDE DEF hd
  <2>1. QED BY <1>1, <1>2, <1>6, GetsBut
<1>8. HeadOf(d, o) = HeadOf(e, o)
  <2>1. e.head = d.head /\ e.ref = d.ref BY <1>1 DEF Gets
  <2>2. CASE d.kind[o] # "NONE" BY <1>1, <2>2 DEF Gets
  <2>3. CASE d.kind[o] = "NONE"
    <3>1. e.kind[o] = kind /\ d.head[o] = None BY <1>1, <1>2, <1>6, <2>3 DEF Gets, Neat, Blank
    <3>2. CASE kind = "NONE" BY <2>1, <2>3, <3>1, <3>2 DEF HeadOf
    <3>3. CASE d.ref[o] = None BY <2>1, <2>3, <3>1, <3>3 DEF HeadOf
    <3>4. CASE ~ Known(d, n)
      <4>1. HeadOf(d, o) = None BY <1>5, <1>6, <3>4 DEF Wired, Hung, Heads
      <4>2. d.ref[o] = None BY <2>3, <4>1 DEF HeadOf
      <4>3. QED BY <3>3, <4>2
    <3>5. QED BY <1>4, <2>3, <3>2, <3>3, <3>4
  <2>4. QED BY <2>2, <2>3
<1>9. hd[o] = HeadOf(e, o) BY <1>6, <1>8 DEF Heads
<1> HIDE DEF hd
<1>10. Wired(e) BY <1>7, <1>9, ButWired
<1>11. QED BY <1>10 DEF e

-----------------------------------------------------------------------------
(* A rule that has no input gets one *)

LEMMA AddOne ==
    ASSUME NEW l, l = <<>>, NEW i \in Objs
    PROVE  /\ ListAdd(l, i) \in Seq(Objs) /\ Len(ListAdd(l, i)) <= 1
           /\ \A y : ListFind(ListAdd(l, i), y) <=> y = i
<1>1. l \in Seq(Objs) /\ Len(l) = 0 /\ 0 \in 0..Len(l) OBVIOUS
<1>2. \A y : ~ ListFind(l, y) BY <1>1 DEF ListFind
<1>3. ListAdd(l, i) = ListInsert(l, 0, i) BY DEF ListAdd
<1>4. ListInsert(l, 0, i) \in Seq(Objs) /\ Len(ListInsert(l, 0, i)) = Len(l) + 1
  <2>1. ListInsert(l, 0, i) = InsertAt(l, 0 + 1, i) BY <1>2 DEF ListInsert
  <2>2. InsertAt(l, 0 + 1, i) = SubSeq(l, 1, (0 + 1) - 1) \o <<i>> \o SubSeq(l, 0 + 1, Len(l))
    BY DEF InsertAt
  <2>3. SubSeq(l, 1, (0 + 1) - 1) = <<>> /\ SubSeq(l, 0 + 1, Len(l)) = <<>> BY <1>1
  <2>4. <<>> \o <<i>> \o <<>> = <<i>> OBVIOUS
  <2>5. ListInsert(l, 0, i) = <<i>> BY <2>1, <2>2, <2>3, <2>4
  <2>6. <<i>> \in Seq(Objs) /\ Len(<<i>>) = Len(l) + 1 BY <1>1
  <2>7. QED BY <2>5, <2>6
<1>5. ASSUME NEW y PROVE ListFind(ListInsert(l, 0, i), y) <=> y = i
  BY <1>1, <1>2, InsertFind
<1>6. Len(ListInsert(l, 0, i)) <= 1
  <2> DEFINE k == Len(ListInsert(l, 0, i))
  <2>1. k = 0 + 1 BY <1>1, <1>4
  <2> HIDE DEF k
  <2>2. k <= 1 BY <2>1
  <2>3. QED BY <2>2 DEF k
<1>7. QED BY <1>3, <1>4, <1>5, <1>6

(* As HungBut(g, hd, s), but that i is led to r *)
HungLinked(g, hd, i, r, s) == HungBut(g, [hd EXCEPT ![i] = r], s)

(* From b to g the rule r gets the input i, and what leads to r itself is  *)
(* as it was                                                               *)
Links(b, g, r, i) ==
    /\ g \in DBs /\ g.kind = b.kind /\ g.state = b.state /\ g.lives = b.lives
    /\ g.acts = b.acts /\ g.head[r] = b.head[r] /\ g.ref[r] = b.ref[r]

LEMMA LinkHung ==
    ASSUME NEW b \in DBs, Neat(b), NEW r \in Objs, NEW i \in Objs, r # i,
           NEW s \in Objs, s # i, NEW hd, HungBut(b, hd, s),
           b.inputs[r] = <<>>, Alive(b, r), Alive(b, i), i[1] \notin Actions
    PROVE  LET g == Link(b, r, i) IN
              Neat(g) /\ Links(b, g, r, i) /\ HungLinked(g, hd, i, r, s)
<1> DEFINE was == b.inputs[r]
           l == ListAdd(was, i)
           h == HeadOf(b, i)
           e == [b EXCEPT !.inputs[r] = l, !.next[r] = h]
           g == SetHead(e, i, r)
           hds == [hd EXCEPT ![i] = r]
<1>1. /\ b.inputs \in [Objs -> Seq(Objs)] /\ b.next \in [Objs -> Objs \cup {None}]
      /\ h \in Objs \cup {None} /\ hd \in [Objs -> Objs \cup {None}]
  BY HeadOfType DEF DBs, HungBut, Hung
<1>2. l \in Seq(Objs) /\ Len(l) <= 1 /\ \A y : ListFind(l, y) <=> y = i
  <2>1. was = <<>> OBVIOUS
  <2> HIDE DEF was
  <2>2. QED BY <2>1, AddOne
<1>3. Link(b, r, i) = g BY DEF Link
<1>4. hd[i] = h BY DEF HungBut
<1> HIDE DEF l, h
<1>5. /\ e \in DBs /\ e.lives = b.lives /\ e.kind = b.kind /\ e.state = b.state
      /\ e.cli = b.cli /\ e.acts = b.acts /\ e.head = b.head /\ e.ref = b.ref
      /\ e.inputs = [b.inputs EXCEPT ![r] = l] /\ e.next = [b.next EXCEPT ![r] = h]
  BY <1>1, <1>2 DEF DBs
<1>50. g = SetHead(e, i, r) /\ r \in Objs \cup {None} OBVIOUS
<1> HIDE DEF e, g
<1>6. /\ g \in DBs /\ Tame(e, g) /\ HeadOf(g, i) = r
      /\ g.next = e.next /\ g.inputs = e.inputs /\ g.acts = e.acts
      /\ \A x \in Objs \ {i} : g.head[x] = e.head[x] /\ g.ref[x] = e.ref[x]
      /\ e.kind[i] = "NONE" => g.head[i] = e.head[i]
  <2>1. e \in DBs /\ g = SetHead(e, i, r) /\ r \in Objs \cup {None} BY <1>5, <1>50
  <2>2. LedTo(e, g, i, r) BY <2>1, SetHeadLeads
  <2>3. QED BY <2>2 DEF LedTo
<1>7. /\ g.lives = b.lives /\ g.kind = b.kind /\ g.state = b.state /\ g.cli = b.cli
      /\ g.acts = b.acts
      /\ g.inputs = [b.inputs EXCEPT ![r] = l] /\ g.next = [b.next EXCEPT ![r] = h]
  BY <1>5, <1>6 DEF Tame
<1>8. \A x \in Objs \ {i} : g.head[x] = b.head[x] /\ g.ref[x] = b.ref[x]
  BY <1>5, <1>6
<1>9. Links(b, g, r, i) BY <1>6, <1>7, <1>8 DEF Links
<1>10. \A y : ~ Edge(b, r, y) BY DEF Edge, ListFind
<1>11. \A x, y \in Objs : Edge(g, x, y) <=> Edge(b, x, y) \/ (x = r /\ y = i)
  <2>1. \A x \in Objs : g.inputs[x] = IF x = r THEN l ELSE b.inputs[x] BY <1>1, <1>7
  <2>2. \A y : ListFind(g.inputs[r], y) <=> y = i BY <1>2, <2>1
  <2>3. QED BY <1>10, <2>1, <2>2 DEF Edge
<1>12. \A x \in Objs : Alive(g, x) <=> Alive(b, x) BY <1>7 DEF Alive
<1>13. Neat(g)
  <2>1. OneInput(g) BY <1>1, <1>2, <1>7 DEF Neat, OneInput
  <2>2. EdgesFit(g)
    <3>1. i[2] <= b.lives[i[1]] BY BoundsAssumption DEF Alive, DBs, Objs
    <3>2. QED BY <1>7, <1>11, <1>12, <3>1 DEF Neat, EdgesFit
  <2>3. Blank(g)
    <3> SUFFICES ASSUME NEW x \in Objs, g.kind[x] = "NONE"
                 PROVE  g.head[x] = None /\ g.state[x] = "INITIALIZED" /\ g.cli[x] = "INITIALIZED"
      BY DEF Blank
    <3>1. b.kind[x] = "NONE" BY <1>7
    <3>2. g.head[x] = b.head[x] BY <1>5, <1>6, <1>8, <3>1
    <3>3. QED BY <1>7, <3>1, <3>2 DEF Neat, Blank
  <2>4. ActsFit(g) BY <1>7 DEF Neat, ActsFit
  <2>5. QED BY <2>1, <2>2, <2>3, <2>4 DEF Neat
<1>14. ASSUME NEW x \in Objs, x # i, Alive(g, x) PROVE Strung(g, hds[x], x)
  <2>1. Alive(b, x) /\ hds[x] = hd[x] BY <1>1, <1>12, <1>14
  <2>2. hd[x] \in Objs \cup {None} /\ Strung(b, hd[x], x) BY <2>1 DEF HungBut, Hung
  <2>3. Users(g, x) = Users(b, x) /\ r \notin Users(b, x) BY <1>10, <1>11, <1>14 DEF Users
  <2>4. \A y \in Users(b, x) : g.next[y] = b.next[y] BY <1>1, <1>7, <2>3 DEF Users
  <2>5. QED BY <1>6, <2>1, <2>2, <2>3, <2>4, StrungSame
<1>15. Strung(g, r, i)
  <2>1. Strung(b, h, i) BY <1>4 DEF HungBut, Hung
  <2>2. Chain(b, h) = Users(b, i) /\ Once(b, h) BY <2>1 DEF Strung
  <2>3. Users(g, i) = {r} \cup Users(b, i) /\ r \notin Users(b, i) BY <1>10, <1>11 DEF Users
  <2>4. Chain(g, r) = {r} \cup Chain(b, h) /\ Once(g, r)
    <3>1. r \notin Chain(b, h) BY <2>2, <2>3
    <3>2. g.next = [b.next EXCEPT ![r] = h] BY <1>7
    <3>3. Once(b, h) /\ h \in Objs \cup {None} /\ g \in DBs BY <1>1, <1>6, <2>2
    <3>4. QED BY <3>1, <3>2, <3>3, ChainAdd
  <2>5. QED BY <2>2, <2>3, <2>4 DEF Strung
<1>16. hds \in [Objs -> Objs \cup {None}] /\ hds[i] = r /\ \A x \in Objs : x # i => hds[x] = hd[x]
  BY <1>1
<1>17. HungBut(g, hds, s)
  <2> HIDE DEF hds
  <2>1. \A x \in Objs : Alive(g, x) => Strung(g, hds[x], x) BY <1>14, <1>15, <1>16
  <2>2. \A x \in Objs : ~ Alive(g, x) => hds[x] = None
    BY <1>12, <1>16 DEF HungBut, Hung
  <2>3. Hung(g, hds) BY <1>16, <2>1, <2>2 DEF Hung
  <2>4. ASSUME NEW x \in Objs \ {s} PROVE hds[x] = HeadOf(g, x)
    <3>1. CASE x = i BY <1>6, <1>16, <3>1
    <3>2. CASE x # i
      <4>1. HeadOf(g, x) = HeadOf(b, x) BY <1>7, <1>8, <3>2 DEF HeadOf
      <4>2. QED BY <1>16, <3>2, <4>1 DEF HungBut
    <3>3. QED BY <3>1, <3>2
  <2>5. QED BY <2>3, <2>4 DEF HungBut
<1>18. HungLinked(g, hd, i, r, s) BY <1>17 DEF HungLinked
<1>19. QED BY <1>3, <1>9, <1>13, <1>18 DEF g

-----------------------------------------------------------------------------
(* What changes no wiring *)

(* From d to e only states and actions change, and what s leads to *)
AlikeBut(d, e, s) ==
    /\ d \in DBs /\ e \in DBs
    /\ e.kind = d.kind /\ e.lives = d.lives /\ e.inputs = d.inputs /\ e.next = d.next
    /\ \A x \in Objs \ {s} : e.head[x] = d.head[x] /\ e.ref[x] = d.ref[x]
    /\ \A x \in Objs : Alive(e, x) <=> Alive(d, x)
    /\ \A x \in Objs : d.kind[x] = "NONE" =>
          x # s /\ e.state[x] = d.state[x] /\ e.cli[x] = d.cli[x]
    /\ \A p \in e.acts : p \in d.acts \/ p[2][1] \in Actions

LEMMA AlikeHung ==
    ASSUME NEW d, NEW e, NEW s, AlikeBut(d, e, s), Neat(d), NEW hd, HungBut(d, hd, s)
    PROVE  Neat(e) /\ HungBut(e, hd, s)
<1>1. /\ d \in DBs /\ e \in DBs
      /\ e.kind = d.kind /\ e.lives = d.lives /\ e.inputs = d.inputs /\ e.next = d.next
      /\ \A x \in Objs : Alive(e, x) <=> Alive(d, x)
  BY DEF AlikeBut
<1>2. \A r, i \in Objs : Edge(e, r, i) <=> Edge(d, r, i) BY <1>1 DEF Edge
<1>3. OneInput(e) BY <1>1 DEF Neat, OneInput
<1>4. EdgesFit(e) BY <1>1, <1>2 DEF Neat, EdgesFit
<1>5. Blank(e) BY <1>1 DEF Neat, Blank, AlikeBut
<1>6. ActsFit(e) BY DEF Neat, ActsFit, AlikeBut
<1>7. Hung(e, hd)
  <2>1. \A i \in Objs : Users(e, i) = Users(d, i) BY <1>2 DEF Users
  <2>2. QED BY <1>1, <2>1, HungSame DEF HungBut
<1>8. \A x \in Objs \ {s} : hd[x] = HeadOf(e, x)
  BY <1>1 DEF HungBut, HeadOf, AlikeBut
<1>9. QED BY <1>3, <1>4, <1>5, <1>6, <1>7, <1>8 DEF Neat, HungBut

LEMMA AlikeWired ==
    ASSUME NEW d, NEW e, NEW s \in Objs, AlikeBut(d, e, s), Wired(d),
           e.head[s] = d.head[s], e.ref[s] = d.ref[s]
    PROVE  Wired(e)
<1> DEFINE hd == Heads(d)
<1>1. Neat(d) /\ HungBut(d, hd, s) BY WiredBut
<1>2. hd[s] = HeadOf(e, s) BY DEF Heads, HeadOf, AlikeBut
<1> HIDE DEF hd
<1>3. Neat(e) /\ HungBut(e, hd, s) BY <1>1, AlikeHung
<1>4. QED BY <1>2, <1>3, ButWired

(* A new state of one object that is of a type *)
LEMMA StateAlike ==
    ASSUME NEW d \in DBs, NEW e, NEW o \in Objs, d.kind[o] # "NONE",
           NEW s \in States, NEW c, GetsState(d, e, o, s, c),
           s # "DELETED", d.state[o] # "DELETED",
           e.next = d.next, e.acts = d.acts,
           \A x \in Objs \ {o} : e.head[x] = d.head[x] /\ e.ref[x] = d.ref[x]
    PROVE  AlikeBut(d, e, o)
<1>1. /\ d \in DBs /\ e \in DBs
      /\ e.kind = d.kind /\ e.lives = d.lives /\ e.inputs = d.inputs
      /\ e.state = [d.state EXCEPT ![o] = s] /\ e.cli = [d.cli EXCEPT ![o] = c]
  BY DEF GetsState
<1>2. d.state \in [Objs -> States] /\ d.cli \in [Objs -> Words] BY <1>1 DEF DBs
<1>3. \A x \in Objs : Alive(e, x) <=> Alive(d, x)
  <2>1. \A x \in Objs : e.state[x] # "DELETED" <=> d.state[x] # "DELETED" BY <1>1, <1>2
  <2>2. QED BY <1>1, <2>1 DEF Alive
<1>4. \A x \in Objs : d.kind[x] = "NONE" =>
         x # o /\ e.state[x] = d.state[x] /\ e.cli[x] = d.cli[x]
  BY <1>1, <1>2
<1>5. QED BY <1>1, <1>3, <1>4 DEF AlikeBut

-----------------------------------------------------------------------------
(* A test is made ready *)

(* From d to e no object changes but for its state, and no list of inputs  *)
(* gets longer                                                             *)
StateOnly(d, e) ==
    /\ e \in DBs
    /\ e.kind = d.kind /\ e.lives = d.lives /\ e.head = d.head /\ e.ref = d.ref
    /\ e.next = d.next /\ e.acts = d.acts
    /\ \A x \in Objs : Alive(e, x) <=> Alive(d, x)
    /\ \A r, i \in Objs : Edge(e, r, i) => Edge(d, r, i)

(* From d to e the list of r becomes m, which is without the dead only *)
LEMMA DropsTheDead ==
    ASSUME NEW d, Wired(d), d \in DBs, NEW r \in Objs, NEW m \in Seq(Objs), Len(m) <= 1,
           \A x \in Objs : ListFind(m, x) => Edge(d, r, x),
           \A x \in Objs : Edge(d, r, x) /\ Alive(d, x) => ListFind(m, x),
           NEW e, e = [d EXCEPT !.inputs[r] = m]
    PROVE  Wired(e) /\ StateOnly(d, e) /\ e.state = d.state
<1>1. d.inputs \in [Objs -> Seq(Objs)] BY DEF DBs
<1>2. /\ e \in DBs /\ e.lives = d.lives /\ e.kind = d.kind /\ e.state = d.state
      /\ e.cli = d.cli /\ e.head = d.head /\ e.ref = d.ref /\ e.next = d.next
      /\ e.acts = d.acts /\ e.inputs = [d.inputs EXCEPT ![r] = m]
  BY DEF DBs
<1>3. \A x \in Objs : e.inputs[x] = IF x = r THEN m ELSE d.inputs[x] BY <1>1, <1>2
<1>4. \A x, i \in Objs : Edge(e, x, i) => Edge(d, x, i) BY <1>3 DEF Edge
<1>5. \A x, i \in Objs : Alive(d, i) => (Edge(e, x, i) <=> Edge(d, x, i)) BY <1>3 DEF Edge
<1>6. \A x \in Objs : Alive(e, x) <=> Alive(d, x) BY <1>2 DEF Alive
<1>7. Neat(e)
  <2>1. OneInput(e) BY <1>3 DEF Wired, Neat, OneInput
  <2>2. EdgesFit(e) BY <1>2, <1>4, <1>6 DEF Wired, Neat, EdgesFit
  <2>3. Blank(e) BY <1>2 DEF Wired, Neat, Blank
  <2>4. ActsFit(e) BY <1>2 DEF Wired, Neat, ActsFit
  <2>5. QED BY <2>1, <2>2, <2>3, <2>4 DEF Neat
<1>8. \A i \in Objs : Alive(d, i) => Users(e, i) = Users(d, i) BY <1>5 DEF Users
<1>9. Hung(e, Heads(d)) BY <1>2, <1>6, <1>8, HungSame DEF Wired
<1>10. Heads(e) = Heads(d) BY <1>2 DEF Heads, HeadOf
<1>11. Wired(e) BY <1>7, <1>9, <1>10 DEF Wired
<1>12. QED BY <1>2, <1>4, <1>6, <1>11 DEF StateOnly

LEMMA SelfStateOnly ==
    ASSUME NEW d \in DBs
    PROVE  StateOnly(d, d)
BY DEF StateOnly

LEMMA StateOnlyTwice ==
    ASSUME NEW d, NEW e, NEW f, StateOnly(d, e), StateOnly(e, f)
    PROVE  StateOnly(d, f)
BY DEF StateOnly

LEMMA ValidateWired ==
    ASSUME NEW d \in DBs, Wired(d), NEW r \in Objs
    PROVE  LET e == Validate(d, r) IN Wired(e) /\ StateOnly(d, e) /\ e.state = d.state
<1> DEFINE l == d.inputs[r]
           n == Len(l)
           V == {m \in Seq(Objs) :
                    /\ Len(m) <= 1
                    /\ \A x \in Objs : ListFind(m, x) => ListFind(l, x)
                    /\ \A x \in Objs : ListFind(l, x) /\ Alive(d, x) => ListFind(m, x)}
           e == Validate(d, r)
<1>1. l \in Seq(Objs) /\ n \in Nat /\ l \in V BY DEF DBs, Wired, Neat, OneInput
<1>2. PICK it : KeepsBy(it, d, r, l) BY ValidateSteps
<1>3. \A s \in SUBSET (1..n) :
         it[s] = IF s = {} THEN l ELSE Kept(d, r, it[s \ {Max(s)}], l[Max(s)])
  BY <1>2 DEF KeepsBy
<1>4. it[{}] \in V
  <2>1. it[{}] = l BY <1>3
  <2> HIDE DEF V
  <2>2. QED BY <1>1, <2>1
<1>5. ASSUME NEW m \in V, NEW k \in 1..n PROVE Kept(d, r, m, l[k]) \in V
  <2> DEFINE i == l[k]
             c == ListRemove(m, i)
  <2>1. i \in Objs /\ ListFind(l, i) BY <1>1 DEF ListFind
  <2>2. m \in Seq(Objs) /\ Len(m) <= 1 OBVIOUS
  <2> HIDE DEF i
  <2>3. CASE r \in Chain(d, HeadOf(d, i))
    <3>1. Kept(d, r, m, i) = m BY <2>3 DEF Kept
    <3> HIDE DEF V
    <3>2. QED BY <3>1 DEF i
  <2>4. CASE r \notin Chain(d, HeadOf(d, i))
    <3>1. Kept(d, r, m, i) = c BY <2>4 DEF Kept
    <3>2. ~ Alive(d, i)
      <4> SUFFICES ASSUME Alive(d, i) PROVE FALSE
        OBVIOUS
      <4>1. Strung(d, Heads(d)[i], i) BY <2>1 DEF Wired, Hung
      <4>2. Heads(d)[i] = HeadOf(d, i) BY <2>1 DEF Heads
      <4>3. r \in Users(d, i) BY <2>1 DEF Users, Edge
      <4>4. QED BY <2>4, <4>1, <4>2, <4>3 DEF Strung
    <3>3. c \in Seq(Objs) BY <2>2, RemoveType
    <3>4. Len(c) <= 1 /\ \A y : ListFind(c, y) <=> ListFind(m, y) /\ y # i
      BY <2>2, ShortRemove
    <3> HIDE DEF c
    <3>5. c \in V BY <3>2, <3>3, <3>4
    <3> HIDE DEF V
    <3>6. QED BY <3>1, <3>5 DEF i
  <2>5. QED BY <2>3, <2>4
<1>6. ASSUME NEW s \in SUBSET (1..n), s # {}, it[s \ {Max(s)}] \in V
      PROVE  it[s] \in V
  <2>1. Max(s) \in 1..n BY <1>1, <1>6, MaxIn
  <2> HIDE DEF V, n, l
  <2>2. it[s] = Kept(d, r, it[s \ {Max(s)}], l[Max(s)]) BY <1>3, <1>6
  <2>3. QED BY <1>5, <1>6, <2>1, <2>2
<1>7. it[1..n] \in V
  <2> HIDE DEF V, n, l
  <2>1. QED BY <1>1, <1>4, <1>6, OneByOne
<1>8. CASE d.kind[r] # "RULE"
  <2>1. e = d BY <1>8 DEF Validate
  <2> HIDE DEF e
  <2>2. Wired(e) /\ StateOnly(d, e) /\ e.state = d.state BY <2>1, SelfStateOnly
  <2>3. QED BY <2>2 DEF e
<1>9. CASE d.kind[r] = "RULE"
  <2> DEFINE m == it[1..n]
  <2>1. /\ m \in Seq(Objs) /\ Len(m) <= 1
        /\ \A x \in Objs : ListFind(m, x) => Edge(d, r, x)
        /\ \A x \in Objs : Edge(d, r, x) /\ Alive(d, x) => ListFind(m, x)
    BY <1>7 DEF Edge
  <2>2. e = [d EXCEPT !.inputs[r] = m] BY <1>2, <1>9 DEF KeepsBy
  <2> HIDE DEF m, e
  <2>3. Wired(e) /\ StateOnly(d, e) /\ e.state = d.state BY <2>1, <2>2, DropsTheDead
  <2>4. QED BY <2>3 DEF e
<1>10. QED BY <1>8, <1>9

(* What is visited is not left created *)
LEMMA UpdatedWired ==
    ASSUME NEW d, Good(d), Wired(d), NEW o \in Objs, Alive(d, o)
    PROVE  LET e == Updated(d, o) IN
              /\ Wired(e) /\ StateOnly(d, e) /\ e.state[o] # "CREATED"
              /\ \A x \in Objs : x # o => e.state[x] = d.state[x]
<1> DEFINE e == Updated(d, o)
<1>1. /\ d \in DBs /\ d.state \in [Objs -> States] /\ d.cli \in [Objs -> Words]
      /\ d.dflt \in [Objs -> Words] /\ d.state[o] # "DELETED"
  BY DEF Good, DBs, Alive
<1>2. ASSUME NEW s \in Words \ {"INITIALIZED"}, NEW w \in [Objs -> Words],
             e = [d EXCEPT !.state[o] = s, !.dflt = w], d.kind[o] # "NONE"
      PROVE  /\ Wired(e) /\ StateOnly(d, e) /\ e.state[o] # "CREATED"
             /\ \A x \in Objs : x # o => e.state[x] = d.state[x]
  <2>1. s \in States /\ s # "CREATED" /\ s # "DELETED" BY DEF States, Words
  <2> HIDE DEF e
  <2>2. /\ e \in DBs /\ e.lives = d.lives /\ e.kind = d.kind /\ e.inputs = d.inputs
        /\ e.state = [d.state EXCEPT ![o] = s] /\ e.cli = d.cli
        /\ e.head = d.head /\ e.ref = d.ref /\ e.next = d.next /\ e.acts = d.acts
    BY <1>1, <1>2, <2>1 DEF DBs
  <2>3. e.cli = [d.cli EXCEPT ![o] = d.cli[o]] BY <1>1, <2>2
  <2>4. GetsState(d, e, o, s, d.cli[o]) BY <2>2, <2>3 DEF GetsState
  <2>5. AlikeBut(d, e, o) BY <1>1, <1>2, <2>1, <2>2, <2>4, StateAlike
  <2>6. Wired(e) BY <2>2, <2>5, AlikeWired
  <2>7. \A x, y \in Objs : Edge(e, x, y) => Edge(d, x, y) BY <2>2 DEF Edge
  <2>8. StateOnly(d, e) BY <2>2, <2>5, <2>7 DEF AlikeBut, StateOnly
  <2>9. e.state[o] = s /\ \A x \in Objs : x # o => e.state[x] = d.state[x] BY <1>1, <2>2
  <2>10. QED BY <2>1, <2>6, <2>8, <2>9
<1>3. d.kind[o] = "NONE" => d.cli[o] = "INITIALIZED" /\ d.state[o] = "INITIALIZED"
  BY DEF Wired, Neat, Blank
<1>4. CASE d.cli[o] # "INITIALIZED"
  <2>1. e = [d EXCEPT !.state[o] = d.cli[o]] BY <1>4 DEF Updated
  <2> HIDE DEF e
  <2>2. e = [d EXCEPT !.state[o] = d.cli[o], !.dflt = d.dflt] BY <1>1, <2>1 DEF DBs
  <2>3. d.cli[o] \in Words \ {"INITIALIZED"} BY <1>1, <1>4
  <2>4. /\ Wired(e) /\ StateOnly(d, e) /\ e.state[o] # "CREATED"
        /\ \A x \in Objs : x # o => e.state[x] = d.state[x]
    BY <1>1, <1>2, <1>3, <1>4, <2>2, <2>3
  <2>5. QED BY <2>4 DEF e
<1>5. CASE d.cli[o] = "INITIALIZED" /\ d.state[o] = "INITIALIZED"
  <2>1. e = d BY <1>5 DEF Updated
  <2> HIDE DEF e
  <2>2. /\ Wired(e) /\ StateOnly(d, e) /\ e.state[o] # "CREATED"
        /\ \A x \in Objs : x # o => e.state[x] = d.state[x]
    BY <1>1, <1>5, <2>1, SelfStateOnly
  <2>3. QED BY <2>2 DEF e
<1>6. CASE /\ d.cli[o] = "INITIALIZED" /\ d.state[o] # "INITIALIZED"
           /\ d.dflt[o] # "INITIALIZED"
  <2>1. e = [d EXCEPT !.state[o] = d.dflt[o]] BY <1>6 DEF Updated
  <2> HIDE DEF e
  <2>2. e = [d EXCEPT !.state[o] = d.dflt[o], !.dflt = d.dflt] BY <1>1, <2>1 DEF DBs
  <2>3. d.dflt[o] \in Words \ {"INITIALIZED"} BY <1>1, <1>6
  <2>4. /\ Wired(e) /\ StateOnly(d, e) /\ e.state[o] # "CREATED"
        /\ \A x \in Objs : x # o => e.state[x] = d.state[x]
    BY <1>1, <1>2, <1>3, <1>6, <2>2, <2>3
  <2>5. QED BY <2>4 DEF e
<1>7. CASE /\ d.cli[o] = "INITIALIZED" /\ d.state[o] # "INITIALIZED"
           /\ d.dflt[o] = "INITIALIZED"
  <2> DEFINE w == [d.dflt EXCEPT ![o] = "ENABLED"]
  <2>1. e = [d EXCEPT !.state[o] = "ENABLED", !.dflt[o] = "ENABLED"] BY <1>7 DEF Updated
  <2> HIDE DEF e
  <2>2. e = [d EXCEPT !.state[o] = "ENABLED", !.dflt = w] BY <1>1, <2>1 DEF DBs
  <2>3. "ENABLED" \in Words \ {"INITIALIZED"} /\ w \in [Objs -> Words] BY <1>1 DEF Words
  <2> HIDE DEF w
  <2>4. /\ Wired(e) /\ StateOnly(d, e) /\ e.state[o] # "CREATED"
        /\ \A x \in Objs : x # o => e.state[x] = d.state[x]
    BY <1>2, <1>3, <1>7, <2>2, <2>3
  <2>5. QED BY <2>4 DEF e
<1>8. QED BY <1>4, <1>5, <1>6, <1>7

LEMMA VisitWired ==
    ASSUME NEW d \in DBs, NEW x \in Objs, Alive(d, x), x[2] <= d.lives[x[1]],
           NEW e, Good(e), Wired(e), StateOnly(d, e)
    PROVE  LET g == Updated(Validate(e, x), x) IN
              /\ Good(g) /\ Wired(g) /\ StateOnly(d, g) /\ g.state[x] # "CREATED"
              /\ \A y \in Objs : y # x => g.state[y] = e.state[y]
<1> DEFINE f == Validate(e, x)
           g == Updated(f, x)
<1>1. e \in DBs /\ Tame(e, f) BY ValidateTame DEF Good
<1>2. Good(f) BY <1>1, TameGood
<1>3. Wired(f) /\ StateOnly(e, f) /\ f.state = e.state BY <1>1, ValidateWired
<1> HIDE DEF f
<1>4. StateOnly(d, f) BY <1>3, StateOnlyTwice
<1>5. Alive(f, x) /\ x[2] <= f.lives[x[1]] BY <1>4 DEF StateOnly
<1>6. Good(g) BY <1>2, <1>5, UpdatedFacts
<1>7. /\ Wired(g) /\ StateOnly(f, g) /\ g.state[x] # "CREATED"
      /\ \A y \in Objs : y # x => g.state[y] = f.state[y]
  BY <1>2, <1>3, <1>5, UpdatedWired
<1> HIDE DEF g
<1>8. StateOnly(d, g) BY <1>4, <1>7, StateOnlyTwice
<1>9. QED BY <1>3, <1>6, <1>7, <1>8 DEF g, f

LEMMA ReadyWired ==
    ASSUME NEW d, Good(d), Wired(d), NEW n \in Names, Is(d, n, "TEST"), Ready(d, Obj(d, n)),
           NEW e, e = ChainReady(d, n)
    PROVE  /\ Wired(e) /\ StateOnly(d, e)
           /\ \A x \in Visited(d, Obj(d, n)) : e.state[x] # "CREATED"
<1> DEFINE S == Visited(d, Obj(d, n))
           V == {p \in (SUBSET S) \X DBs :
                    /\ Good(p[2]) /\ Wired(p[2]) /\ StateOnly(d, p[2])
                    /\ \A x \in p[1] : p[2].state[x] # "CREATED"}
<1>1. /\ IsFiniteSet(S) /\ S \subseteq Objs
      /\ \A x \in S : Alive(d, x) /\ x[2] <= d.lives[x[1]]
  BY VisitedFits
<1>2. PICK it : Readies(it, d, n) BY ReadySteps
<1>3. ReadiesBy(it, d, S) /\ e = it[S] BY <1>2 DEF Readies
<1> HIDE DEF S
<1> DEFINE w == [s \in SUBSET S |-> <<s, it[s]>>]
<1>4. d \in DBs BY DEF Good
<1>5. w[{}] \in V
  <2>1. it[{}] = d BY <1>3 DEF ReadiesBy
  <2>2. w[{}] = <<{}, d>> BY <2>1
  <2>3. StateOnly(d, d) BY <1>4, SelfStateOnly
  <2>4. QED BY <1>4, <2>2, <2>3
<1>7. ASSUME NEW s \in SUBSET S, s # {}, w[s \ {Picked(s)}] \in V PROVE w[s] \in V
  <2> DEFINE x == Picked(s)
             t == s \ {x}
             f == it[t]
             g == it[s]
  <2>1. x \in s /\ t \in SUBSET S BY <1>7 DEF Picked
  <2>2. g = Updated(Validate(f, x), x) BY <1>3, <1>7 DEF ReadiesBy
  <2>3. w[t] = <<t, f>> /\ w[s] = <<s, g>> BY <2>1
  <2>4. s = t \cup {x} /\ x \in Objs /\ Alive(d, x) /\ x[2] <= d.lives[x[1]] BY <1>1, <2>1
  <2> HIDE DEF t, f, g, w
  <2>5. <<t, f>> \in V BY <1>7, <2>3 DEF t
  <2> HIDE DEF x
  <2>6. /\ Good(f) /\ Wired(f) /\ StateOnly(d, f) /\ \A y \in t : f.state[y] # "CREATED"
    BY <2>5
  <2>7. /\ Good(g) /\ Wired(g) /\ StateOnly(d, g) /\ g.state[x] # "CREATED"
        /\ \A y \in Objs : y # x => g.state[y] = f.state[y]
    BY <1>4, <2>2, <2>4, <2>6, VisitWired
  <2>8. \A y \in s : g.state[y] # "CREATED" BY <1>1, <2>4, <2>6, <2>7
  <2>9. g \in DBs BY <2>7 DEF Good
  <2>10. QED BY <2>3, <2>7, <2>8, <2>9
<1>8. w[S] \in V
  <2> HIDE DEF V, w
  <2>1. AddsWithin(w, S, V) BY <1>5, <1>7 DEF AddsWithin
  <2>2. QED BY <1>1, <2>1, AnyOrder
<1>9. w[S] = <<S, e>> BY <1>3
<1> HIDE DEF w
<1>10. Wired(e) /\ StateOnly(d, e) /\ \A x \in S : e.state[x] # "CREATED" BY <1>8, <1>9
<1>11. QED BY <1>10 DEF S

LEMMA ChainReadyWired ==
    ASSUME NEW d, Good(d), Wired(d), NEW n \in Names
    PROVE  Wired(ChainReady(d, n))
<1>1. CASE ~ (Is(d, n, "TEST") /\ Ready(d, Obj(d, n)))
  BY <1>1 DEF ChainReady
<1>2. CASE Is(d, n, "TEST") /\ Ready(d, Obj(d, n))
  BY <1>2, ReadyWired
<1>3. QED BY <1>1, <1>2

-----------------------------------------------------------------------------
(* Each call keeps the wiring, as long as it is of the simple kind *)

(* No rule leads from an action *)
LEMMA ActionUnled ==
    ASSUME NEW d \in DBs, Neat(d), NEW hd, Hung(d, hd), NEW o \in Objs, o[1] \in Actions
    PROVE  hd[o] = None
<1> DEFINE h == hd[o]
<1>1. h \in Objs \cup {None} BY DEF Hung
<1>2. CASE ~ Alive(d, o) BY <1>2 DEF Hung
<1>3. CASE Alive(d, o)
  <2>1. Strung(d, h, o) BY <1>3 DEF Hung
  <2>2. Users(d, o) = {} BY DEF Users, Neat, EdgesFit
  <2>3. Chain(d, h) = {} BY <2>1, <2>2 DEF Strung
  <2> HIDE DEF h
  <2>4. h \notin Objs BY <2>3, ChainCloses
  <2>5. QED BY <1>1, <2>4 DEF h
<1>4. QED BY <1>2, <1>3

LEMMA ActionsDontGrow ==
    ASSUME NEW d, Good(d), Wired(d), NEW a \in Actions
    PROVE  ~ Grows(d, a)
<1> SUFFICES ASSUME Grows(d, a) PROVE FALSE
  OBVIOUS
<1> DEFINE o == Obj(d, a)
<1>1. Known(d, a) /\ d.kind[o] = "NONE" /\ d.ref[o] # None BY DEF Grows, Is
<1>2. d \in DBs /\ a \in Names BY DEF Good, Names
<1>3. o \in Objs /\ o[1] = a BY <1>1, <1>2, KnownObj, InObjs
<1> HIDE DEF o
<1>4. Heads(d)[o] = None BY <1>2, <1>3, ActionUnled DEF Wired
<1>5. QED BY <1>1, <1>3, <1>4 DEF Heads, HeadOf

(* The object is found or made, and its head is what it will be restored   *)
(* from                                                                    *)
RestoredHead(e, o) == IF e.ref[o] # None THEN e.ref[o] ELSE e.head[o]

LEMMA GrownHead ==
    ASSUME NEW d, Good(d), Wired(d), NEW n \in Tests \cup Rules, Room(d, n), ~ Again(d, n),
           NEW e, e = GetOrCreate(d, n, Kind(n)), NEW o, o = Obj(e, n)
    PROVE  /\ Good(e) /\ o \in Objs /\ o[1] = n /\ Alive(e, o) /\ e.kind[o] = Kind(n)
           /\ Neat(e) /\ HungBut(e, Heads(d), o)
           /\ Heads(d)[o] = RestoredHead(e, o)
           /\ d.kind[o] # "NONE" => e = d
           /\ d.kind[o] = "NONE" => e.inputs[o] = <<>>
<1> DEFINE hd == Heads(d)
           k == Kind(n)
<1>1. n \in Names /\ k # "NONE" /\ k \in {"NONE", k} BY DEF Names, Kind
<1>2. Gets(d, e, o, k) BY <1>1, GetsIt
<1>3. Extends(d, e) /\ Known(e, n) /\ o \in Objs /\ e.kind[o] = k BY <1>1, GetOrCreateFacts
<1>4. Good(e) /\ e \in DBs /\ d \in DBs BY <1>3 DEF Extends, Good
<1>5. o[1] = n BY <1>1, <1>3, <1>4, InObjs
<1>6. Alive(e, o) BY <1>3 DEF Known
<1>7. Neat(d) /\ HungBut(d, hd, o) BY WiredBut
<1>8. hd[o] = HeadOf(d, o) BY <1>3 DEF Heads
<1> HIDE DEF hd, k
<1>9. Neat(e) /\ HungBut(e, hd, o) BY <1>2, <1>3, <1>7, GetsBut
<1>10. e.ref = d.ref /\ e.head = d.head /\ e.inputs = d.inputs BY <1>2 DEF Gets
<1>11. hd[o] = RestoredHead(e, o)
  <2>1. CASE d.kind[o] = "NONE"
    <3>1. d.head[o] = None BY <1>3, <1>7, <2>1 DEF Neat, Blank
    <3>2. QED BY <1>8, <1>10, <2>1, <3>1 DEF HeadOf, RestoredHead
  <2>2. CASE d.kind[o] # "NONE"
    <3>1. e = d BY <1>2, <2>2 DEF Gets
    <3>2. d.ref[o] = None BY <1>3, <3>1 DEF Again, Is, k
    <3>3. QED BY <1>8, <1>10, <2>2, <3>2 DEF HeadOf, RestoredHead
  <2>3. QED BY <2>1, <2>2
<1>12. d.kind[o] = "NONE" => e.inputs[o] = <<>>
  <2> SUFFICES ASSUME d.kind[o] = "NONE" PROVE d.inputs[o] = <<>>
    BY <1>10
  <2> DEFINE l == d.inputs[o]
  <2>1. l \in Seq(Objs) /\ Len(l) <= 1 BY <1>3, <1>4, <1>7 DEF DBs, Neat, OneInput
  <2>2. \A x \in Objs : ~ ListFind(l, x) BY <1>3 DEF Good, RulesOnly, Edge
  <2> HIDE DEF l
  <2>3. l = <<>> BY <2>1, <2>2, ShortLists
  <2>4. QED BY <2>3 DEF l
<1>13. QED BY <1>2, <1>3, <1>4, <1>5, <1>6, <1>9, <1>11, <1>12 DEF Gets, hd, k

(* What an object is restored to, as it is created *)
Restored(e, o) == [e EXCEPT !.head[o] = RestoredHead(e, o), !.state[o] = "CREATED"]

LEMMA RestoredWired ==
    ASSUME NEW e \in DBs, Neat(e), NEW o \in Objs, Alive(e, o), e.kind[o] # "NONE",
           NEW hd, HungBut(e, hd, o), hd[o] = RestoredHead(e, o)
    PROVE  Wired(Restored(e, o))
<1> DEFINE h == RestoredHead(e, o)
           f == Restored(e, o)
<1>1. /\ e.head \in [Objs -> Objs \cup {None}] /\ e.cli \in [Objs -> Words]
      /\ e.state \in [Objs -> States] /\ e.state[o] # "DELETED"
  BY DEF DBs, Alive
<1>2. h \in Objs \cup {None} BY DEF DBs, RestoredHead
<1>3. f = [e EXCEPT !.head[o] = h, !.state[o] = "CREATED"] BY DEF Restored
<1> HIDE DEF h, f
<1>4. /\ f \in DBs /\ f.lives = e.lives /\ f.kind = e.kind /\ f.inputs = e.inputs
      /\ f.state = [e.state EXCEPT ![o] = "CREATED"] /\ f.cli = e.cli
      /\ f.head = [e.head EXCEPT ![o] = h] /\ f.ref = e.ref /\ f.next = e.next
      /\ f.acts = e.acts
  BY <1>1, <1>2, <1>3 DEF DBs, States
<1>5. f.cli = [e.cli EXCEPT ![o] = e.cli[o]] BY <1>1, <1>4
<1>6. GetsState(e, f, o, "CREATED", e.cli[o]) BY <1>4, <1>5 DEF GetsState
<1>7. \A x \in Objs \ {o} : f.head[x] = e.head[x] /\ f.ref[x] = e.ref[x] BY <1>1, <1>4
<1>8. "CREATED" \in States /\ "CREATED" # "DELETED" BY DEF States
<1>9. AlikeBut(e, f, o) BY <1>1, <1>4, <1>6, <1>7, <1>8, StateAlike
<1>10. Neat(f) /\ HungBut(f, hd, o) BY <1>9, AlikeHung
<1>11. hd[o] = HeadOf(f, o) BY <1>1, <1>4 DEF HeadOf, h
<1>12. Wired(f) BY <1>10, <1>11, ButWired
<1>13. QED BY <1>12 DEF f

LEMMA TestCreateWired ==
    ASSUME NEW d, Good(d), Wired(d), NEW n \in Tests, Room(d, n), ~ Again(d, n)
    PROVE  Wired(TestCreate(d, n))
<1> DEFINE e == GetOrCreate(d, n, "TEST")
           o == Obj(e, n)
           hd == Heads(d)
<1>1. Kind(n) = "TEST" /\ n \in Tests \cup Rules BY DEF Kind
<1>2. TestCreate(d, n) = Restored(e, o) BY DEF TestCreate, Restored, RestoredHead
<1>3. e = GetOrCreate(d, n, Kind(n)) BY <1>1
<1> HIDE DEF e, hd
<1>4. o = Obj(e, n) OBVIOUS
<1> HIDE DEF o
<1>5. /\ Good(e) /\ o \in Objs /\ Alive(e, o) /\ e.kind[o] = Kind(n)
      /\ Neat(e) /\ HungBut(e, hd, o) /\ hd[o] = RestoredHead(e, o)
  BY <1>1, <1>3, <1>4, GrownHead DEF hd
<1>6. e \in DBs /\ e.kind[o] # "NONE" BY <1>1, <1>5 DEF Good
<1>7. QED BY <1>2, <1>5, <1>6, RestoredWired

LEMMA ActionCreateWired ==
    ASSUME NEW d, Good(d), Wired(d), NEW n \in Actions, Room(d, n)
    PROVE  Wired(ActionCreate(d, n))
<1> DEFINE e == GetOrCreate(d, n, "ACTION")
           o == Obj(e, n)
           f == [e EXCEPT !.state[o] = "CREATED"]
<1>1. n \in Names /\ Kind(n) = "ACTION" BY NamesAssumption DEF Names, Kind
<1>2. Extends(d, e) /\ Known(e, n) /\ o \in Objs /\ e.kind[o] = "ACTION" BY <1>1, GetOrCreateFacts
<1>3. ~ Grows(d, n) BY ActionsDontGrow
<1>4. Wired(e) BY <1>1, <1>3, GetWired
<1>5. ActionCreate(d, n) = f BY DEF ActionCreate
<1> HIDE DEF e
<1>6. e \in DBs /\ Alive(e, o) BY <1>2 DEF Extends, Good, Known
<1> HIDE DEF o
<1>7. /\ f \in DBs /\ f.lives = e.lives /\ f.kind = e.kind /\ f.inputs = e.inputs
      /\ f.state = [e.state EXCEPT ![o] = "CREATED"] /\ f.cli = e.cli
      /\ f.head = e.head /\ f.ref = e.ref /\ f.next = e.next /\ f.acts = e.acts
  BY <1>2, <1>6 DEF DBs, States
<1> HIDE DEF f
<1>8. f.cli = [e.cli EXCEPT ![o] = e.cli[o]] BY <1>2, <1>6, <1>7 DEF DBs
<1>9. GetsState(e, f, o, "CREATED", e.cli[o]) BY <1>7, <1>8 DEF GetsState
<1>10. "CREATED" \in States /\ "CREATED" # "DELETED" /\ e.state[o] # "DELETED"
  BY <1>6 DEF States, Alive
<1>11. AlikeBut(e, f, o) BY <1>2, <1>6, <1>7, <1>9, <1>10, StateAlike
<1>12. Wired(f) BY <1>2, <1>4, <1>7, <1>11, AlikeWired
<1>13. QED BY <1>5, <1>12

LEMMA ConfigureWired ==
    ASSUME NEW d, Good(d), Wired(d), NEW n \in Names, Room(d, n), ~ Grows(d, n)
    PROVE  Wired(Configure(d, n))
BY GetWired DEF Configure

LEMMA DeletedWired ==
    ASSUME NEW d, Good(d), Wired(d), NEW n \in Names, Room(d, n)
    PROVE  Wired(Deleted(d, n))
<1> DEFINE e == IF n \in Rules THEN GetOrCreate(d, n, "NONE") ELSE d
           o == Obj(e, n)
           hd == Heads(e)
<1>1. Good(e) /\ Wired(e)
  <2>1. CASE n \in Rules
    <3> DEFINE none == "NONE"
               x == GetOrCreate(d, n, none)
    <3>1. none \in {"NONE", Kind(n)} /\ none = "NONE" /\ e = x BY <2>1
    <3> HIDE DEF none, e
    <3>2. Extends(d, x) BY <3>1, GetOrCreateFacts
    <3>3. Wired(x) BY <3>1, GetWired
    <3>4. QED BY <3>1, <3>2, <3>3 DEF Extends
  <2>2. CASE n \notin Rules BY <2>2
  <2>3. QED BY <2>1, <2>2
<1>2. Deleted(d, n) = IF Is(e, n, Kind(n)) THEN Delete(e, o) ELSE e BY DEF Deleted
<1> HIDE DEF e
<1>3. CASE ~ Is(e, n, Kind(n)) BY <1>1, <1>2, <1>3
<1>4. CASE Is(e, n, Kind(n))
  <2>1. o \in Objs BY <1>1, <1>4, KnownObj DEF Is, Good
  <2>2. e.kind[o] # "NONE" BY <1>4 DEF Is, Kind
  <2>3. Neat(e) /\ HungBut(e, hd, o) BY <1>1, WiredBut
  <2> HIDE DEF o, hd
  <2>4. Wired(Delete(e, o)) BY <1>1, <2>1, <2>2, <2>3, DeleteWired
  <2>5. QED BY <1>2, <1>4, <2>4
<1>5. QED BY <1>3, <1>4

LEMMA SetStateWired ==
    ASSUME NEW d, Good(d), Wired(d), NEW n \in Names, Room(d, n), ~ Grows(d, n),
           NEW byCli \in BOOLEAN, NEW new \in {"ENABLED", "DISABLED"}
    PROVE  Wired(SetState(d, n, byCli, new))
<1> DEFINE e == GetOrCreate(d, n, Kind(n))
           o == Obj(e, n)
           told == IF byCli THEN [e EXCEPT !.cli[o] = new] ELSE [e EXCEPT !.dflt[o] = new]
           goes == Ready(told, o) /\ told.cli[o] \in {new, "INITIALIZED"}
           f == IF goes THEN [told EXCEPT !.state[o] = new] ELSE told
           s == IF goes THEN new ELSE e.state[o]
           c == IF byCli THEN new ELSE e.cli[o]
<1>0. SetState(d, n, byCli, new) = f BY DEF SetState
<1>1. Extends(d, e) /\ o \in Objs /\ Known(e, n) /\ e.kind[o] # "NONE"
  BY GetOrCreateFacts DEF Kind
<1>2. Wired(e) BY GetWired
<1> HIDE DEF e
<1>3. e \in DBs /\ e.state[o] # "DELETED" BY <1>1 DEF Extends, Good, Known, Alive
<1> HIDE DEF o
<1>4. new \in Words /\ new \in States /\ new # "DELETED" BY DEF Words, States
<1>5. /\ told \in DBs /\ told.lives = e.lives /\ told.kind = e.kind
      /\ told.inputs = e.inputs /\ told.state = e.state
      /\ told.cli = [e.cli EXCEPT ![o] = c]
      /\ told.head = e.head /\ told.ref = e.ref /\ told.next = e.next /\ told.acts = e.acts
  <2>1. CASE byCli BY <1>1, <1>3, <1>4, <2>1 DEF DBs
  <2>2. CASE ~ byCli BY <1>1, <1>3, <1>4, <2>2 DEF DBs
  <2>3. QED BY <2>1, <2>2
<1>6. e.state \in [Objs -> States] /\ s \in States /\ s # "DELETED"
  BY <1>1, <1>3, <1>4 DEF DBs
<1>7. /\ f \in DBs /\ f.lives = e.lives /\ f.kind = e.kind /\ f.inputs = e.inputs
      /\ f.state = [e.state EXCEPT ![o] = s] /\ f.cli = [e.cli EXCEPT ![o] = c]
      /\ f.head = e.head /\ f.ref = e.ref /\ f.next = e.next /\ f.acts = e.acts
  <2> HIDE DEF told, c
  <2>1. CASE goes
    <3> HIDE DEF goes
    <3>1. QED BY <1>1, <1>4, <1>5, <1>6, <2>1 DEF DBs
  <2>2. CASE ~ goes
    <3> HIDE DEF goes
    <3>1. QED BY <1>1, <1>5, <1>6, <2>2
  <2>3. QED BY <2>1, <2>2
<1> HIDE DEF f, s, c, told, goes
<1>8. GetsState(e, f, o, s, c) BY <1>7 DEF GetsState
<1>9. AlikeBut(e, f, o) BY <1>1, <1>3, <1>6, <1>7, <1>8, StateAlike
<1>10. Wired(f) BY <1>1, <1>2, <1>7, <1>9, AlikeWired
<1>11. QED BY <1>0, <1>10

LEMMA DefaultWired ==
    ASSUME NEW d, Good(d), Wired(d), NEW n \in Names
    PROVE  Wired(Default(d, n))
<1> DEFINE o == Obj(d, n)
           s == IF d.state[o] = "CREATED" THEN "CREATED" ELSE d.dflt[o]
           f == [d EXCEPT !.cli[o] = "INITIALIZED", !.state[o] = s]
           hd == Heads(d)
<1>0. Default(d, n) = IF ~ Is(d, n, Kind(n)) THEN d
                      ELSE IF d.state[o] = "INITIALIZED" THEN Delete(d, o) ELSE f
  <2>1. [d EXCEPT !.cli[o] = "INITIALIZED",
                  !.state[o] = IF @ = "CREATED" THEN @ ELSE d.dflt[o]] = f
    OBVIOUS
  <2>2. QED BY <2>1 DEF Default
<1>1. CASE ~ Is(d, n, Kind(n)) BY <1>0, <1>1
<1>2. CASE Is(d, n, Kind(n))
  <2>1. /\ d \in DBs /\ o \in Objs /\ d.kind[o] # "NONE" /\ d.state[o] # "DELETED"
    BY <1>2, KnownObj DEF Good, Is, Kind, Known, Alive
  <2>2. Neat(d) /\ HungBut(d, hd, o) BY WiredBut
  <2> HIDE DEF o, hd
  <2>3. CASE d.state[o] = "INITIALIZED"
    <3>1. Wired(Delete(d, o)) BY <2>1, <2>2, DeleteWired
    <3>2. QED BY <1>0, <1>2, <2>3, <3>1
  <2>4. CASE d.state[o] # "INITIALIZED"
    <3>1. d.dflt[o] \in Words /\ d.cli \in [Objs -> Words] BY <2>1 DEF DBs
    <3>2. s \in States /\ s # "DELETED" /\ "INITIALIZED" \in Words BY <3>1 DEF States, Words
    <3> HIDE DEF s
    <3>3. /\ f \in DBs /\ f.lives = d.lives /\ f.kind = d.kind /\ f.inputs = d.inputs
          /\ f.state = [d.state EXCEPT ![o] = s]
          /\ f.cli = [d.cli EXCEPT ![o] = "INITIALIZED"]
          /\ f.head = d.head /\ f.ref = d.ref /\ f.next = d.next /\ f.acts = d.acts
      BY <2>1, <3>2 DEF DBs
    <3> HIDE DEF f
    <3>4. GetsState(d, f, o, s, "INITIALIZED") BY <3>3 DEF GetsState
    <3>5. AlikeBut(d, f, o) BY <2>1, <3>2, <3>3, <3>4, StateAlike
    <3>6. Wired(f) BY <2>1, <3>3, <3>5, AlikeWired
    <3>7. QED BY <1>0, <1>2, <2>4, <3>6
  <2>5. QED BY <2>3, <2>4
<1>3. QED BY <1>1, <1>2

(* The rule r gets an action *)
LEMMA ActsAlike ==
    ASSUME NEW d \in DBs, NEW r \in Objs, NEW a \in Objs, a[1] \in Actions, d.kind[r] # "NONE",
           NEW e, e = [d EXCEPT !.acts = @ \cup {<<r, a>>}]
    PROVE  AlikeBut(d, e, r) /\ e.head = d.head /\ e.ref = d.ref /\ e.inputs = d.inputs
<1> DEFINE more == d.acts \cup {<<r, a>>}
<1>1. more \in SUBSET (Objs \X Objs) /\ \A p \in more : p \in d.acts \/ p[2][1] \in Actions
  BY DEF DBs
<1>2. e = [d EXCEPT !.acts = more] OBVIOUS
<1> HIDE DEF more
<1>3. /\ e \in DBs /\ e.lives = d.lives /\ e.kind = d.kind /\ e.state = d.state
      /\ e.cli = d.cli /\ e.inputs = d.inputs /\ e.head = d.head /\ e.ref = d.ref
      /\ e.next = d.next /\ e.acts = more
  BY <1>1, <1>2 DEF DBs
<1>4. \A x \in Objs : Alive(e, x) <=> Alive(d, x) BY <1>3 DEF Alive
<1>5. QED BY <1>1, <1>3, <1>4 DEF AlikeBut

LEMMA RuleAddActionWired ==
    ASSUME NEW d, Good(d), Wired(d), NEW n \in Rules, NEW a \in Actions,
           Room(d, n), Room(d, a), ~ Grows(d, n)
    PROVE  Wired(RuleAddAction(d, n, a))
<1> DEFINE x == GetOrCreate(d, n, "RULE")
           e == GetOrCreate(x, a, "ACTION")
           r == Obj(e, n)
           t == Obj(e, a)
           f == [e EXCEPT !.acts = @ \cup {<<r, t>>}]
<1>0. RuleAddAction(d, n, a) = f BY DEF RuleAddAction
<1>1. n \in Names /\ a \in Names /\ Kind(n) = "RULE" /\ Kind(a) = "ACTION"
  BY NamesAssumption DEF Names, Kind
<1>2. /\ Extends(d, x) /\ Known(x, n) /\ Obj(x, n) \in Objs /\ x.kind[Obj(x, n)] = "RULE"
      /\ Wired(x)
  BY <1>1, GetOrCreateFacts, GetWired
<1> HIDE DEF x
<1>3. Good(x) /\ Room(x, a) BY <1>1, <1>2 DEF Extends
<1>4. Extends(x, e) /\ t \in Objs BY <1>1, <1>3, GetOrCreateFacts
<1>5. Wired(e)
  <2>1. ~ Grows(x, a) BY <1>2, <1>3, ActionsDontGrow
  <2>2. QED BY <1>1, <1>2, <1>3, <2>1, GetWired
<1> HIDE DEF e
<1>6. r \in Objs /\ e.kind[r] = "RULE" /\ e \in DBs
  BY <1>1, <1>2, <1>4 DEF Extends, Good
<1>7. t[1] = a BY DEF Obj
<1>8. f = [e EXCEPT !.acts = @ \cup {<<r, t>>}] OBVIOUS
<1> HIDE DEF r, t, f
<1>9. AlikeBut(e, f, r) /\ f.head = e.head /\ f.ref = e.ref
  BY <1>4, <1>6, <1>7, <1>8, ActsAlike
<1>10. Wired(f) BY <1>5, <1>6, <1>9, AlikeWired
<1>11. QED BY <1>0, <1>10

LEMMA RuleAddInputWired ==
    ASSUME NEW d, Good(d), Wired(d), NEW n \in Rules, NEW i \in Tests \cup Rules,
           Is(d, n, "RULE"), Room(d, i), n # i, d.inputs[Obj(d, n)] = <<>>
    PROVE  Wired(RuleAddInput(d, n, i))
<1> DEFINE none == "NONE"
           e == GetOrCreate(d, i, none)
           r == Obj(e, n)
           in == Obj(e, i)
           g == Link(e, r, in)
           hd == Heads(e)
<1>0. RuleAddInput(d, n, i) =
         IF InputSearch(e, r, in) \/ InputSearch(e, in, r) THEN e ELSE g
  BY DEF RuleAddInput
<1>1. n \in Names /\ i \in Names /\ i \notin Actions BY NamesAssumption DEF Names
<1>2. none \in {"NONE", Kind(i)} /\ none = "NONE" OBVIOUS
<1> HIDE DEF none
<1>3. Extends(d, e) /\ Known(e, i) /\ in \in Objs BY <1>1, <1>2, GetOrCreateFacts
<1>4. Wired(e) BY <1>1, <1>2, GetWired
<1>5. e.inputs = d.inputs
  <2>1. Gets(d, e, in, none) BY <1>1, <1>2, GetsIt
  <2> HIDE DEF e, in
  <2>2. QED BY <2>1 DEF Gets
<1> HIDE DEF e
<1>6. Good(e) /\ e \in DBs BY <1>3 DEF Extends, Good
<1>7. Known(d, n) /\ r = Obj(d, n) /\ Known(e, n)
  <2>1. Known(d, n) BY DEF Is
  <2>2. QED BY <1>1, <1>3, <2>1 DEF Extends
<1>8. r \in Objs /\ Alive(e, r) /\ e.inputs[r] = <<>>
  BY <1>1, <1>5, <1>7, KnownObj DEF Good, Known
<1>9. Alive(e, in) /\ in[1] = i /\ r[1] = n BY <1>3 DEF Known, Obj
<1>10. Neat(e) /\ HungBut(e, hd, r) /\ hd[r] = HeadOf(e, r) BY <1>4, <1>8, WiredBut DEF Heads
<1> DEFINE hds == [hd EXCEPT ![in] = r]
<1>11. g = Link(e, r, in) OBVIOUS
<1> HIDE DEF r, in, g, hd
<1>12. r # in /\ in[1] \notin Actions BY <1>1, <1>9
<1>13. Neat(g) /\ Links(e, g, r, in) /\ HungLinked(g, hd, in, r, r)
  BY <1>3, <1>6, <1>8, <1>9, <1>10, <1>11, <1>12, LinkHung
<1>14. HungBut(g, hds, r) BY <1>13 DEF HungLinked
<1>15. hd \in [Objs -> Objs \cup {None}] BY <1>10 DEF HungBut, Hung
<1>16. hds[r] = HeadOf(g, r) BY <1>10, <1>12, <1>13, <1>15 DEF Links, HeadOf
<1> HIDE DEF hds
<1>17. Wired(g) BY <1>13, <1>14, <1>16, ButWired
<1>18. QED BY <1>0, <1>4, <1>17

(* The rule n and its input i, as RuleCreate finds or makes them in e *)
RuleFound(d, e, r, in, n, i) ==
    /\ Good(e) /\ e \in DBs /\ r \in Objs /\ in \in Objs /\ r[1] = n /\ in[1] = i
    /\ Alive(e, r) /\ Alive(e, in) /\ e.kind[r] = "RULE"
    /\ Neat(e) /\ HungBut(e, Heads(d), r) /\ Heads(d)[r] = RestoredHead(e, r)
    /\ e.inputs[r] # <<>> => Heads(d)[r] = HeadOf(e, r)

LEMMA RuleFinds ==
    ASSUME NEW d, Good(d), Wired(d), NEW n \in Rules, NEW i \in Tests \cup Rules,
           Room(d, n), Room(d, i), ~ Again(d, n),
           NEW e, e = RuleCreated(d, n, i), NEW r, r = Obj(e, n), NEW in, in = Obj(e, i)
    PROVE  RuleFound(d, e, r, in, n, i)
<1> DEFINE none == "NONE"
           x == GetOrCreate(d, n, "RULE")
           o == Obj(x, n)
           hd == Heads(d)
<1>1. n \in Names /\ i \in Names /\ Kind(n) = "RULE" /\ n \in Tests \cup Rules
  BY NamesAssumption DEF Names, Kind
<1>2. none \in {"NONE", Kind(i)} /\ none = "NONE" OBVIOUS
<1>3. e = GetOrCreate(x, i, none) BY DEF RuleCreated
<1>4. x = GetOrCreate(d, n, Kind(n)) BY <1>1
<1>5. Extends(d, x) /\ Known(x, n) BY <1>1, GetOrCreateFacts
<1> HIDE DEF x, none
<1>6. o = Obj(x, n) OBVIOUS
<1> HIDE DEF o, hd
<1>7. /\ Good(x) /\ o \in Objs /\ o[1] = n /\ Alive(x, o) /\ x.kind[o] = "RULE"
      /\ Neat(x) /\ HungBut(x, hd, o) /\ hd[o] = RestoredHead(x, o)
      /\ d.kind[o] # "NONE" => x = d
      /\ d.kind[o] = "NONE" => x.inputs[o] = <<>>
  BY <1>1, <1>4, <1>6, GrownHead DEF hd
<1>8. Room(x, i) BY <1>1, <1>5 DEF Extends
<1>9. Extends(x, e) /\ Known(e, i) /\ in \in Objs BY <1>1, <1>2, <1>3, <1>7, <1>8, GetOrCreateFacts
<1>10. Gets(x, e, in, none) BY <1>1, <1>2, <1>3, <1>7, <1>8, GetsIt
<1>11. Good(e) /\ e \in DBs BY <1>9 DEF Extends, Good
<1>12. r = o /\ Known(e, n) BY <1>1, <1>5, <1>9 DEF Extends, o
<1>13. Alive(e, r) /\ Alive(e, in) /\ e.kind[r] = "RULE"
  BY <1>7, <1>9, <1>12 DEF Extends, Known
<1>14. Neat(e) /\ HungBut(e, hd, r) BY <1>2, <1>7, <1>10, <1>12, GetsBut
<1>15. e.head = x.head /\ e.ref = x.ref /\ e.inputs = x.inputs BY <1>10 DEF Gets
<1>16. hd[r] = RestoredHead(e, r) BY <1>7, <1>12, <1>15 DEF RestoredHead
<1>17. e.inputs[r] # <<>> => hd[r] = HeadOf(e, r)
  <2> SUFFICES ASSUME e.inputs[r] # <<>> PROVE hd[r] = HeadOf(e, r)
    OBVIOUS
  <2>1. x = d BY <1>7, <1>12, <1>15
  <2>2. hd[r] = HeadOf(x, r) BY <1>7, <1>12, <2>1 DEF hd, Heads
  <2>3. QED BY <1>7, <1>12, <1>13, <1>15, <2>2 DEF HeadOf
<1>18. in[1] = i BY <1>1, <1>9, <1>11, InObjs
<1>19. QED BY <1>7, <1>9, <1>11, <1>12, <1>13, <1>14, <1>16, <1>17, <1>18 DEF RuleFound, hd

(* The rule leaves its input, and gets its action and its new input *)
LEMMA RuleRewired ==
    ASSUME NEW d, NEW e, NEW r, NEW in, NEW n \in Rules, NEW i \in Tests \cup Rules, n # i,
           RuleFound(d, e, r, in, n, i), NEW a \in Actions, Room(e, a),
           NEW left, left = Unlinked(e, r),
           NEW f, f = GetOrCreate(left, a, "ACTION"), NEW t, t = Obj(f, a),
           NEW b, b = [f EXCEPT !.acts = @ \cup {<<r, t>>}],
           NEW g, g = Link(b, r, in)
    PROVE  Wired(Restored(g, r))
<1> DEFINE hd == Heads(d)
           act == "ACTION"
<1>1. /\ Good(e) /\ e \in DBs /\ r \in Objs /\ in \in Objs /\ r[1] = n /\ in[1] = i
      /\ Alive(e, r) /\ Alive(e, in) /\ e.kind[r] = "RULE"
      /\ Neat(e) /\ HungBut(e, hd, r) /\ hd[r] = RestoredHead(e, r)
  BY DEF RuleFound
<1>2. /\ n \in Names /\ i \in Names /\ a \in Names /\ i \notin Actions
      /\ act \in {"NONE", Kind(a)} /\ act # "NONE" /\ n \notin Actions
  BY NamesAssumption DEF Names, Kind
<1>3. f = GetOrCreate(left, a, act) OBVIOUS
<1> HIDE DEF hd, act
<1>4. HasLeft(e, left, r, hd[r]) /\ left.head[r] = e.head[r] /\ left.ref[r] = e.ref[r]
  BY <1>1, RuleLeaves
<1>5. Tame(e, left)
  <2> DEFINE other == [FoldLeft(LAMBDA x, j : Leave(x, r, j), e, e.inputs[r])
                          EXCEPT !.inputs[r] = <<>>]
  <2>1. left = other BY DEF Unlinked, AllLeave
  <2>2. Tame(e, other) BY <1>1, RuleLeftTame
  <2> HIDE DEF other
  <2>3. QED BY <2>1, <2>2
<1>6. Good(left) /\ left \in DBs BY <1>1, <1>5, TameGood DEF Tame
<1>7. Neat(left) /\ left.inputs[r] = <<>> /\ HungStill(left, r, hd[r])
  BY <1>4 DEF HasLeft
<1>8. PICK hs : HungBut(left, hs, r) /\ hs[r] = hd[r] BY <1>7 DEF HungStill
<1>9. Room(left, a)
  <2>1. Extends(e, left) BY <1>1, <1>5, TameExtends
  <2>2. QED BY <1>2, <2>1 DEF Extends
<1>10. Gets(left, f, t, act) BY <1>2, <1>3, <1>6, <1>9, GetsIt
<1>11. Extends(left, f) /\ t \in Objs BY <1>2, <1>3, <1>6, <1>9, GetOrCreateFacts
<1>12. f \in DBs BY <1>11 DEF Extends, Good
<1>13. t[1] = a BY <1>2, <1>11, <1>12, InObjs
<1>14. hs[t] = None BY <1>6, <1>7, <1>8, <1>11, <1>13, ActionUnled DEF HungBut
<1>15. Neat(f) /\ HungBut(f, hs, r) BY <1>1, <1>7, <1>8, <1>10, <1>14, GetsBut
<1>16. t # r /\ t # in BY <1>1, <1>2, <1>13
<1>17. /\ f.inputs = left.inputs /\ f.head = left.head /\ f.ref = left.ref
       /\ f.kind[r] = "RULE" /\ Alive(f, r) /\ Alive(f, in)
  <2>1. left.kind[r] = "RULE" BY <1>1, <1>5 DEF Tame
  <2>2. Alive(left, r) /\ Alive(left, in) BY <1>1, <1>5 DEF Tame, Alive
  <2>3. f.kind[r] = left.kind[r] /\ Alive(f, r) = Alive(left, r) /\ Alive(f, in) = Alive(left, in)
    BY <1>1, <1>10, <1>16 DEF Gets
  <2>4. f.inputs = left.inputs /\ f.head = left.head /\ f.ref = left.ref BY <1>10 DEF Gets
  <2>5. QED BY <2>1, <2>2, <2>3, <2>4
<1>18. AlikeBut(f, b, r) /\ b.head = f.head /\ b.ref = f.ref /\ b.inputs = f.inputs
  BY <1>1, <1>11, <1>12, <1>13, <1>17, ActsAlike
<1>19. Neat(b) /\ HungBut(b, hs, r) BY <1>15, <1>18, AlikeHung
<1>20. b \in DBs /\ Alive(b, r) /\ Alive(b, in) /\ b.kind[r] = "RULE"
  BY <1>1, <1>17, <1>18 DEF AlikeBut
<1>21. b.inputs[r] = <<>> BY <1>7, <1>17, <1>18
<1>22. r # in /\ in[1] \notin Actions BY <1>1, <1>2
<1> HIDE DEF hd
<1>23. Neat(g) /\ Links(b, g, r, in) /\ HungLinked(g, hs, in, r, r)
  BY <1>1, <1>19, <1>20, <1>21, <1>22, LinkHung
<1> DEFINE hds == [hs EXCEPT ![in] = r]
<1>24. HungBut(g, hds, r) BY <1>23 DEF HungLinked
<1>25. hs \in [Objs -> Objs \cup {None}] BY <1>8 DEF HungBut, Hung
<1>26. hds[r] = hd[r] BY <1>8, <1>22, <1>25
<1> HIDE DEF hds
<1>27. /\ g \in DBs /\ g.kind[r] = "RULE" /\ g.head[r] = e.head[r] /\ g.ref[r] = e.ref[r]
       /\ g.state = b.state /\ g.lives = b.lives
  <2>1. g \in DBs /\ g.kind = b.kind /\ g.head[r] = b.head[r] /\ g.ref[r] = b.ref[r]
        /\ g.state = b.state /\ g.lives = b.lives
    BY <1>23 DEF Links
  <2>2. b.head = f.head /\ b.ref = f.ref BY <1>18
  <2>3. f.head = left.head /\ f.ref = left.ref BY <1>17
  <2>4. g.head[r] = e.head[r] /\ g.ref[r] = e.ref[r] BY <1>4, <2>1, <2>2, <2>3
  <2>5. g.kind[r] = "RULE" BY <1>20, <2>1
  <2>6. QED BY <2>1, <2>4, <2>5
<1>28. hds[r] = RestoredHead(g, r) BY <1>1, <1>26, <1>27 DEF RestoredHead
<1>29. Alive(g, r) BY <1>20, <1>27 DEF Alive
<1>30. QED BY <1>1, <1>23, <1>24, <1>27, <1>28, <1>29, RestoredWired

LEMMA RuleCreateWired ==
    ASSUME NEW d, Good(d), Wired(d), NEW n \in Rules, NEW i \in Tests \cup Rules,
           NEW a \in Actions, Room(d, n), Room(d, i), Room(d, a), n # i, ~ Again(d, n)
    PROVE  Wired(RuleCreate(d, n, i, a))
<1> DEFINE e == RuleCreated(d, n, i)
           r == Obj(e, n)
           in == Obj(e, i)
           left == Unlinked(e, r)
           f == GetOrCreate(left, a, "ACTION")
           t == Obj(f, a)
           b == [f EXCEPT !.acts = @ \cup {<<r, t>>}]
           g == Link(b, r, in)
           hd == Heads(d)
<1>1. RuleCreate(d, n, i, a) =
         IF InputSearch(e, r, in) THEN e
         ELSE IF InputSearch(e, in, r) THEN Delete(e, r)
         ELSE Restored(g, r)
  BY DEF RuleCreate, Unlinked, AllLeave, Restored, RestoredHead
<1>2. Extends(d, e) /\ e = RuleCreated(d, n, i) BY RuleCreatedFacts
<1> HIDE DEF e
<1>3. r = Obj(e, n) /\ in = Obj(e, i) OBVIOUS
<1>4. Room(e, a) BY <1>2 DEF Extends, Names
<1> HIDE DEF r, in
<1>5. RuleFound(d, e, r, in, n, i) BY <1>2, <1>3, RuleFinds
<1>6. /\ Good(e) /\ e \in DBs /\ r \in Objs /\ in \in Objs /\ e.kind[r] = "RULE"
      /\ Neat(e) /\ HungBut(e, hd, r)
      /\ e.inputs[r] # <<>> => hd[r] = HeadOf(e, r)
  BY <1>5 DEF RuleFound
<1>7. CASE InputSearch(e, r, in)
  <2>1. e.inputs[r] # <<>> BY <1>6, <1>7, FoundHasInput
  <2>2. hd[r] = HeadOf(e, r) BY <1>6, <2>1
  <2> HIDE DEF hd
  <2>3. Wired(e) BY <1>6, <2>2, ButWired
  <2>4. QED BY <1>1, <1>7, <2>3
<1>8. CASE ~ InputSearch(e, r, in) /\ InputSearch(e, in, r)
  <2> HIDE DEF hd
  <2>1. e.kind[r] # "NONE" BY <1>6
  <2>2. Wired(Delete(e, r)) BY <1>6, <2>1, DeleteWired
  <2>3. QED BY <1>1, <1>8, <2>2
<1>9. CASE ~ InputSearch(e, r, in) /\ ~ InputSearch(e, in, r)
  <2>1. /\ left = Unlinked(e, r)
        /\ f = GetOrCreate(left, a, "ACTION") /\ t = Obj(f, a)
        /\ b = [f EXCEPT !.acts = @ \cup {<<r, t>>}] /\ g = Link(b, r, in)
    OBVIOUS
  <2> HIDE DEF left, f, t, b, g, hd
  <2>2. Wired(Restored(g, r)) BY <1>4, <1>5, <2>1, RuleRewired
  <2>3. QED BY <1>1, <1>9, <2>2
<1>10. QED BY <1>7, <1>8, <1>9

-----------------------------------------------------------------------------
(* A test that is made ready reaches all that it feeds *)

LEMMA VisitsAdd ==
    ASSUME NEW d \in DBs
    PROVE  AddsTo(Objs, Visits(d))
<1>1. \A b \in SUBSET Objs :
         UNION {{x \in Leads(d, y) : Alive(d, x)} : y \in b} \subseteq {x \in Objs : Alive(d, x)}
  BY LeadsType
<1>2. QED BY <1>1 DEF AddsTo, Visits

(* What is visited holds the object itself, and what any of it leads to *)
LEMMA VisitedCloses ==
    ASSUME NEW d \in DBs, NEW o \in Objs, Alive(d, o)
    PROVE  /\ o \in Visited(d, o)
           /\ \A y \in Visited(d, o) : \A x \in Leads(d, y) :
                  Alive(d, x) => x \in Visited(d, o)
<1> DEFINE n == Cardinality(Objs)
           V == {b \in SUBSET Objs : o \in b}
           base == {o} \cap {x \in Objs : Alive(d, x)}
           F == Visits(d)
           zero == 0
<1>1. PICK u : WalksVisited(u, d, o) BY VisitWalk
<1>2. StepByStep(u, n, base, F) /\ Visited(d, o) = u[n] BY <1>1 DEF WalksVisited
<1>3. /\ n \in Nat /\ zero \in Nat /\ base \in V /\ base \in SUBSET Objs
      /\ IsFiniteSet(Objs) /\ Cardinality(Objs) <= n + zero /\ zero = 0
  BY ObjsFinite
<1>4. Cardinality(base) >= zero BY <1>3, FS_Subset, FS_CardinalityType
<1>5. AddsTo(Objs, F) BY VisitsAdd
<1> HIDE DEF n, base, F, zero
<1>6. F[u[n]] = u[n] BY <1>2, <1>3, <1>4, <1>5, WalkCloses
<1>7. \A b \in V : F[b] \in V BY <1>5 DEF AddsTo
<1> HIDE DEF V
<1>8. u[0] \in V BY <1>2, <1>3 DEF StepByStep
<1>9. ASSUME NEW k \in 1..n, u[k - 1] \in V PROVE u[k] \in V
  <2>1. k \in 0..n /\ k # 0 BY <1>3
  <2>2. u[k] = F[u[k - 1]] BY <1>2, <2>1 DEF StepByStep
  <2>3. QED BY <1>7, <1>9, <2>2
<1>10. u[n] \in V BY <1>3, <1>8, <1>9, UpTo
<1> DEFINE S == u[n]
<1>11. S \in SUBSET Objs /\ o \in S BY <1>10 DEF V
<1>12. F[S] = S /\ Visited(d, o) = S BY <1>2, <1>6
<1> HIDE DEF S
<1>13. S = S \cup UNION {{x \in Leads(d, y) : Alive(d, x)} : y \in S}
  BY <1>11, <1>12 DEF F, Visits
<1>14. QED BY <1>11, <1>12, <1>13

(* What is visited holds the rules of each of its inputs that is of a type *)
LEMMA VisitedUsers ==
    ASSUME NEW d, Good(d), Wired(d), NEW o \in Objs, Alive(d, o),
           NEW y \in Visited(d, o), d.kind[y] # "NONE"
    PROVE  Users(d, y) \subseteq Visited(d, o)
<1> DEFINE S == Visited(d, o)
           h == HeadOf(d, y)
           C == S \cap Users(d, y)
<1>1. d \in DBs BY DEF Good
<1>2. y \in Objs /\ Alive(d, y) BY <1>1, VisitedAlive
<1>3. \A z \in S : \A x \in Leads(d, z) : Alive(d, x) => x \in S BY <1>1, VisitedCloses
<1>4. h \in Objs \cup {None} /\ h = d.head[y] BY <1>1, <1>2, HeadOfType DEF HeadOf
<1>5. Chain(d, h) = Users(d, y)
  <2>1. Heads(d)[y] = h BY <1>2 DEF Heads
  <2>2. Strung(d, h, y) BY <1>2, <2>1 DEF Wired, Hung
  <2>3. QED BY <2>2 DEF Strung
<1>6. \A r \in Users(d, y) : r \in Objs /\ Alive(d, r) /\ d.kind[r] = "RULE"
  BY <1>2 DEF Users, Wired, Neat, EdgesFit, Good, RulesOnly
<1> HIDE DEF S, h
<1>7. h \in C \cup {None}
  <2> SUFFICES ASSUME h # None PROVE h \in C
    OBVIOUS
  <2>1. h \in Chain(d, h) BY <1>1, <1>4, ChainCloses
  <2>2. h \in Leads(d, y) BY <1>4 DEF Leads
  <2>3. QED BY <1>3, <1>5, <1>6, <2>1, <2>2 DEF S
<1>8. Closed(d, C)
  <2> SUFFICES ASSUME NEW x \in C, d.next[x] # None PROVE d.next[x] \in C
    BY DEF Closed
  <2>1. x \in S /\ x \in Chain(d, h) /\ d.kind[x] = "RULE" BY <1>5, <1>6
  <2>2. d.next[x] \in Users(d, y) BY <1>1, <1>4, <1>5, <2>1, ChainCloses
  <2>3. d.next[x] \in Leads(d, x) BY <2>1 DEF Leads
  <2>4. QED BY <1>3, <1>6, <2>1, <2>2, <2>3
<1>9. C \in SUBSET Objs BY DEF Users
<1> HIDE DEF C
<1>10. Chain(d, h) \subseteq C BY <1>1, <1>7, <1>8, <1>9, ChainLeast
<1>11. QED BY <1>5, <1>10 DEF C, S

(* S holds t and all that is fed from S, and nothing in it is created and  *)
(* not ready                                                               *)
Feeds(d, S) ==
    \A y \in S, x \in Objs : Alive(d, x) /\ (Edge(d, x, y) \/ <<y, x>> \in d.acts) => x \in S
Reached(d, t, S) ==
    S \in SUBSET Objs /\ t \in S /\ Feeds(d, S) /\ \A x \in S : d.state[x] # "CREATED"
Reaches(d, n) == Ready(d, Obj(d, n)) => \E S : Reached(d, Obj(d, n), S)

LEMMA ReadyReached ==
    ASSUME NEW d, Good(d), Wired(d), NEW n \in Tests, Known(d, n),
           NEW e, e = ChainReady(d, n)
    PROVE  Reaches(e, n)
<1> SUFFICES ASSUME Ready(e, Obj(e, n)) PROVE \E S : Reached(e, Obj(e, n), S)
  BY DEF Reaches
<1> DEFINE o == Obj(d, n)
           S == {y \in Visited(d, o) : d.kind[y] # "NONE" \/ y[1] \in Actions}
<1>1. n \in Names /\ Kind(n) = "TEST" /\ d \in DBs BY DEF Names, Kind, Good
<1>2. o \in Objs /\ o[1] = n /\ Alive(d, o) BY <1>1, KnownObj, InObjs DEF Known
<1>3. Is(d, n, "TEST") /\ Ready(d, o)
  <2>1. CASE Is(d, n, "TEST") /\ Ready(d, o) BY <2>1
  <2>2. CASE ~ (Is(d, n, "TEST") /\ Ready(d, o))
    <3>1. e = d BY <2>2 DEF ChainReady
    <3>2. Ready(d, o) /\ d.kind[o] # "TEST" BY <2>2, <3>1 DEF Is
    <3>3. d.kind[o] = "NONE" BY <1>1, <1>2, <3>2 DEF Good, KindsFit
    <3>4. d.state[o] = "INITIALIZED" BY <1>2, <3>3 DEF Wired, Neat, Blank
    <3>5. QED BY <3>2, <3>4 DEF Ready
  <2>3. QED BY <2>1, <2>2
<1>4. StateOnly(d, e) /\ \A x \in Visited(d, o) : e.state[x] # "CREATED"
  BY <1>1, <1>3, ReadyWired
<1>5. Obj(e, n) = o BY <1>4 DEF StateOnly, Obj
<1>6. Visited(d, o) \subseteq {x \in Objs : Alive(d, x)} BY <1>1, <1>2, VisitedAlive
<1>7. o \in S
  <2>1. d.kind[o] # "NONE" BY <1>3 DEF Is
  <2>2. QED BY <1>1, <1>2, <2>1, VisitedCloses
<1> HIDE DEF o
<1>8. ASSUME NEW y \in S, NEW x \in Objs, Alive(e, x), Edge(e, x, y) \/ <<y, x>> \in e.acts
      PROVE  x \in S
  <2>1. y \in Visited(d, o) /\ y \in Objs BY <1>6
  <2>2. Alive(d, x) /\ (Edge(d, x, y) \/ <<y, x>> \in d.acts)
    BY <1>4, <1>8, <2>1 DEF StateOnly
  <2>3. CASE Edge(d, x, y)
    <3>1. y[1] \notin Actions BY <2>1, <2>3 DEF Wired, Neat, EdgesFit
    <3>2. d.kind[y] # "NONE" BY <1>8, <3>1
    <3>3. x \in Users(d, y) BY <2>3 DEF Users
    <3>4. x \in Visited(d, o) BY <1>2, <2>1, <3>2, <3>3, VisitedUsers
    <3>5. d.kind[x] = "RULE" BY <2>1, <2>3 DEF Good, RulesOnly
    <3>6. QED BY <3>4, <3>5
  <2>4. CASE <<y, x>> \in d.acts
    <3>1. x # None BY NamesAssumption
    <3>2. x \in Leads(d, y) BY <2>4, <3>1 DEF Leads
    <3>3. x \in Visited(d, o) BY <1>1, <1>2, <2>1, <2>2, <3>2, VisitedCloses
    <3>4. x[1] \in Actions
      <4>1. <<y, x>>[2] = x OBVIOUS
      <4>2. QED BY <2>4, <4>1 DEF Wired, Neat, ActsFit
    <3>5. QED BY <3>3, <3>4
  <2>5. QED BY <2>2, <2>3, <2>4
<1>9. S \in SUBSET Objs /\ \A x \in S : e.state[x] # "CREATED" BY <1>4, <1>6
<1> HIDE DEF S
<1>10. Feeds(e, S) BY <1>8 DEF Feeds
<1>11. Reached(e, o, S) BY <1>7, <1>9, <1>10 DEF Reached
<1>12. QED BY <1>5, <1>11

(* What a test feeds is within what it reaches *)
LEMMA FedWithin ==
    ASSUME NEW t, NEW S, Reached(db, t, S)
    PROVE  Fed(t) \subseteq S
<1> DEFINE n == Cardinality(Rules) + 1
           V == SUBSET S
           base == {t}
           more(b) == b \cup UNION {FedBy(o) \cap Living : o \in b}
           F == [b \in V |-> more(b)]
           Follows(u) == u = [k \in 0..n |-> IF k = 0 THEN base ELSE more(u[k - 1])]
           u == CHOOSE u : Follows(u)
<1>1. n \in Nat
  <2>1. IsFiniteSet(Rules) BY NamesAssumption, FS_Subset DEF Names
  <2>2. QED BY <2>1, FS_CardinalityType
<1>2. base \in V BY DEF Reached
<1>3. \A b \in V : more(b) \in V
  <2>1. \A o \in S : FedBy(o) \cap Living \subseteq S
    BY DEF Reached, Feeds, FedBy, Living, Edge
  <2>2. QED BY <2>1
<1>4. F \in [V -> V] /\ \A b \in V : F[b] = more(b) BY <1>3
<1>5. PICK g \in [0..n -> V] : StepByStep(g, n, base, F)
  <2> HIDE DEF n, V, base, F
  <2>1. StepByStepIn(n, V, base, F) BY <1>1, <1>2, <1>4, StepByStepIs
  <2>2. QED BY <2>1 DEF StepByStepIn
<1>6. Follows(g)
  <2>1. \A k \in 0..n : k # 0 => g[k - 1] \in V
    <3> HIDE DEF n, V
    <3>1. QED BY <1>1, <1>5
  <2> HIDE DEF F, V, n, base, more
  <2>2. \A k \in 0..n : k # 0 => F[g[k - 1]] = more(g[k - 1]) BY <1>4, <2>1
  <2>3. \A k \in 0..n : g[k] = IF k = 0 THEN base ELSE more(g[k - 1])
    BY <1>5, <2>2 DEF StepByStep
  <2>4. g = [k \in 0..n |-> g[k]] BY <1>5
  <2>5. QED BY <2>3, <2>4
<1>7. Follows(u)
  <2> HIDE DEF Follows
  <2>1. QED BY <1>6
<1>8. Fed(t) = u[n] BY DEF Fed
<1> HIDE DEF u
<1>9. \A k \in 0..n : u[k] = IF k = 0 THEN base ELSE more(u[k - 1])
  <2> HIDE DEF n, base, more
  <2>1. QED BY <1>7
<1> HIDE DEF V, n, base, more, Follows, F
<1>10. u[0] \in V BY <1>1, <1>2, <1>9
<1>11. ASSUME NEW k \in 1..n, u[k - 1] \in V PROVE u[k] \in V
  <2>1. k \in 0..n /\ k # 0 BY <1>1
  <2>2. u[k] = more(u[k - 1]) BY <1>9, <2>1
  <2>3. QED BY <1>3, <1>11, <2>2
<1>12. u[n] \in V BY <1>1, <1>10, <1>11, UpTo
<1>13. QED BY <1>8, <1>12 DEF V

-----------------------------------------------------------------------------
(* The theorems *)

Lasts == {None} \cup ({"create", "delete", "ready"} \X Names)
IInv ==
    /\ Good(db)
    /\ made \subseteq Objs /\ \A o \in made : db.kind[o] # "NONE"
    /\ plain \in BOOLEAN /\ last \in Lasts /\ calls \in 0..MaxCalls

(* What CreatedStays says of one step *)
StaysNow ==
    \A o \in made \cap Living :
        db.state[o] # "INITIALIZED" /\ db.dflt[o] # "INITIALIZED" =>
            \/ Ready(db', o)
            \/ last' \in {<<"delete", o[1]>>, <<"create", o[1]>>}

LEMMA InitGood == Init => IInv
<1> SUFFICES ASSUME Init PROVE IInv
  OBVIOUS
<1>1. db = Empty /\ made = {} /\ plain = TRUE /\ last = None /\ calls = 0 BY DEF Init
<1>2. Empty \in DBs BY BoundsAssumption DEF Empty, DBs, States, Words
<1>3. \A r, i \in Objs : ~ Edge(Empty, r, i) BY DEF Empty, Edge, ListFind
<1>4. Fresh(Empty) /\ KindsFit(Empty) /\ LastWord(Empty)
  BY DEF Empty, Fresh, KindsFit, LastWord
<1>5. Good(Empty) BY <1>2, <1>3, <1>4 DEF Good, RulesOnly, NoLoops
<1>6. QED BY <1>1, <1>5, BoundsAssumption DEF IInv, Lasts

LEMMA CallKeeps ==
    ASSUME IInv, NEW new, NEW creates \in SUBSET Names, NEW ns \in SUBSET Names,
           NEW odd, NEW what \in Lasts,
           Settled(db, new, ns), \A n \in creates : Fine(new, n),
           \A n \in ns : what \in {<<"delete", n>>, <<"create", n>>},
           Call(new, creates, odd, what)
    PROVE  IInv' /\ StaysNow
<1>1. /\ db' = new /\ last' = what /\ plain' = (plain /\ ~ odd) /\ calls' = calls + 1
      /\ calls < MaxCalls
      /\ made' = made \cup {o \in {Obj(new, n) : n \in creates} : new.state[o] = "CREATED"}
  BY DEF Call
<1>2. Good(new) /\ db \in DBs BY DEF Settled, IInv, Good
<1>3. \A o \in Objs : db.kind[o] # "NONE" => new.kind[o] # "NONE" BY DEF Settled
<1>4. made' \subseteq Objs /\ \A o \in made' : new.kind[o] # "NONE"
  BY <1>1, <1>3 DEF IInv, Fine
<1>5. calls' \in 0..MaxCalls BY <1>1, BoundsAssumption DEF IInv
<1>6. plain' \in BOOLEAN BY <1>1
<1>7. IInv' BY <1>1, <1>2, <1>4, <1>5, <1>6 DEF IInv
<1>8. ASSUME NEW o \in made \cap Living, db.state[o] # "INITIALIZED", db.dflt[o] # "INITIALIZED"
      PROVE  Ready(db', o) \/ last' \in {<<"delete", o[1]>>, <<"create", o[1]>>}
  <2>1. o \in Objs /\ db.kind[o] # "NONE" /\ db.state[o] # "DELETED"
    BY DEF IInv, Living, Alive
  <2>2. db.state[o] \in States BY <1>2, <2>1 DEF DBs
  <2>3. Ready(db, o) BY <1>8, <2>1, <2>2 DEF Ready, States
  <2>4. o[1] \in ns \/ Ready(new, o) BY <1>8, <2>1, <2>3 DEF Settled
  <2>5. QED BY <1>1, <2>4
<1>9. QED BY <1>7, <1>8 DEF StaysNow

LEMMA NextKeeps ==
    ASSUME IInv, Next
    PROVE  IInv' /\ StaysNow
<1>1. Good(db) BY DEF IInv
<1>2. None \in Lasts /\ {} \in SUBSET Names BY DEF Lasts
<1>3. \A n \in Names : {<<"create", n>>, <<"delete", n>>, <<"ready", n>>} \subseteq Lasts
  BY DEF Lasts
<1>4. Tests \subseteq Names /\ Rules \subseteq Names /\ Actions \subseteq Names BY DEF Names
<1>5. ASSUME NEW n \in Tests, CallTestCreate(n) PROVE IInv' /\ StaysNow
  <2>1. Room(db, n) /\ Call(TestCreate(db, n), {n}, Again(db, n), None)
    BY <1>5 DEF CallTestCreate, Fits, Room
  <2>2. Settled(db, TestCreate(db, n), {}) /\ \A m \in {n} : Fine(TestCreate(db, n), m)
    BY <1>1, <2>1, TestCreateFacts
  <2>3. {n} \in SUBSET Names BY <1>4
  <2>4. QED BY <1>2, <2>1, <2>2, <2>3, CallKeeps
<1>6. ASSUME NEW n \in Tests, CallChainReady(n) PROVE IInv' /\ StaysNow
  <2>1. n \in Names /\ Call(ChainReady(db, n), {}, FALSE, <<"ready", n>>)
    BY <1>4, <1>6 DEF CallChainReady
  <2>2. Settled(db, ChainReady(db, n), {}) BY <1>1, <2>1, ChainReadySettled
  <2>3. <<"ready", n>> \in Lasts BY <1>3, <2>1
  <2>4. QED BY <1>2, <2>1, <2>2, <2>3, CallKeeps
<1>7. ASSUME NEW n \in Actions, CallActionCreate(n) PROVE IInv' /\ StaysNow
  <2> DEFINE odd == FALSE
  <2>1. Room(db, n) /\ Call(ActionCreate(db, n), {n}, odd, None)
    BY <1>7 DEF CallActionCreate, Fits, Room
  <2> HIDE DEF odd
  <2>2. Settled(db, ActionCreate(db, n), {}) /\ \A m \in {n} : Fine(ActionCreate(db, n), m)
    BY <1>1, <2>1, ActionCreateFacts
  <2>3. {n} \in SUBSET Names BY <1>4
  <2>4. QED BY <1>2, <2>1, <2>2, <2>3, CallKeeps
<1>8. ASSUME NEW n \in Rules, NEW i \in Tests \cup Rules, NEW a \in Actions,
             CallRuleCreate(n, i, a)
      PROVE  IInv' /\ StaysNow
  <2> DEFINE odd == n = i \/ Again(db, n)
  <2>1. /\ Room(db, n) /\ Room(db, i) /\ Room(db, a)
        /\ Call(RuleCreate(db, n, i, a), {n}, odd, <<"create", n>>)
    BY <1>8 DEF CallRuleCreate, Fits, Room
  <2> HIDE DEF odd
  <2>2. /\ Settled(db, RuleCreate(db, n, i, a), {n})
        /\ \A m \in {n} : Fine(RuleCreate(db, n, i, a), m)
    BY <1>1, <2>1, RuleCreateFacts
  <2>3. {n} \in SUBSET Names /\ <<"create", n>> \in Lasts BY <1>3, <1>4
  <2>4. \A m \in {n} : <<"create", n>> \in {<<"delete", m>>, <<"create", m>>} OBVIOUS
  <2>5. QED BY <2>1, <2>2, <2>3, <2>4, CallKeeps
<1>9. ASSUME NEW n \in Rules, NEW i \in Tests \cup Rules, CallRuleAddInput(n, i)
      PROVE  IInv' /\ StaysNow
  <2> DEFINE odd == n = i \/ db.inputs[Obj(db, n)] # <<>>
  <2>1. /\ Is(db, n, "RULE") /\ Room(db, i)
        /\ Call(RuleAddInput(db, n, i), {}, odd, None)
    BY <1>9 DEF CallRuleAddInput, Fits, Room
  <2> HIDE DEF odd
  <2>2. Settled(db, RuleAddInput(db, n, i), {}) BY <1>1, <2>1, RuleAddInputFacts
  <2>3. QED BY <1>2, <2>1, <2>2, CallKeeps
<1>10. ASSUME NEW n \in Rules, NEW a \in Actions, CallRuleAddAction(n, a)
       PROVE  IInv' /\ StaysNow
  <2>1. /\ Room(db, n) /\ Room(db, a)
        /\ Call(RuleAddAction(db, n, a), {}, Grows(db, n), None)
    BY <1>10 DEF CallRuleAddAction, Fits, Room
  <2>2. Settled(db, RuleAddAction(db, n, a), {}) BY <1>1, <2>1, RuleAddActionFacts
  <2>3. QED BY <1>2, <2>1, <2>2, CallKeeps
<1>11. ASSUME NEW n \in Names, CallDelete(n) PROVE IInv' /\ StaysNow
  <2>1. Room(db, n) /\ Call(Deleted(db, n), {}, FALSE, <<"delete", n>>)
    BY <1>11 DEF CallDelete, Fits, Room
  <2>2. Settled(db, Deleted(db, n), {n}) BY <1>1, <2>1, DeletedFacts
  <2>3. {n} \in SUBSET Names /\ <<"delete", n>> \in Lasts BY <1>3
  <2>4. \A m \in {n} : <<"delete", n>> \in {<<"delete", m>>, <<"create", m>>} OBVIOUS
  <2> DEFINE what == <<"delete", n>>
             new == Deleted(db, n)
             odd == FALSE
             none == {}
  <2>5. none \in SUBSET Names /\ \A m \in none : Fine(new, m) OBVIOUS
  <2>6. /\ {n} \in SUBSET Names /\ what \in Lasts
        /\ Settled(db, new, {n}) /\ Call(new, none, odd, what)
        /\ \A m \in {n} : what \in {<<"delete", m>>, <<"create", m>>}
    BY <2>1, <2>2, <2>3, <2>4
  <2> HIDE DEF what, new, odd, none
  <2>7. QED BY <1>2, <2>5, <2>6, CallKeeps
<1>12. ASSUME NEW n \in Names, CallConfigure(n) PROVE IInv' /\ StaysNow
  <2>1. Room(db, n) /\ Call(Configure(db, n), {}, Grows(db, n), None)
    BY <1>12 DEF CallConfigure, Fits, Room
  <2>2. Settled(db, Configure(db, n), {}) BY <1>1, <2>1, ConfigureFacts
  <2>3. QED BY <1>2, <2>1, <2>2, CallKeeps
<1>13. ASSUME NEW n \in Names, CallDefault(n) PROVE IInv' /\ StaysNow
  <2>1. Call(Default(db, n), {}, FALSE, None) BY <1>13 DEF CallDefault
  <2>2. Settled(db, Default(db, n), {}) BY <1>1, DefaultFacts
  <2>3. QED BY <1>2, <2>1, <2>2, CallKeeps
<1>14. ASSUME NEW n \in Names, NEW byCli \in BOOLEAN, NEW new \in {"ENABLED", "DISABLED"},
              CallSetState(n, byCli, new)
       PROVE  IInv' /\ StaysNow
  <2>1. Room(db, n) /\ Call(SetState(db, n, byCli, new), {}, Grows(db, n), None)
    BY <1>14 DEF CallSetState, Fits, Room
  <2>2. Settled(db, SetState(db, n, byCli, new), {}) BY <1>1, <2>1, SetStateFacts
  <2>3. QED BY <1>2, <2>1, <2>2, CallKeeps
<1>15. \A n \in Configured : n \in Names BY NamesAssumption
<1>16. QED
  BY <1>5, <1>6, <1>7, <1>8, <1>9, <1>10, <1>11, <1>12, <1>13, <1>14, <1>15 DEF Next

LEMMA StepKeeps == IInv /\ [Next]_vars => IInv'
<1>1. ASSUME IInv, UNCHANGED vars PROVE IInv'
  BY <1>1 DEF IInv, vars
<1>2. QED BY <1>1, NextKeeps

(* Every field of every object stays of its type, and no object is made    *)
(* more often than it may, whatever the calls are (TypeOK).                *)
THEOREM TypeCorrect == Spec => []TypeOK
<1>1. IInv => TypeOK
  <2> SUFFICES ASSUME IInv PROVE TypeOK
    OBVIOUS
  <2>1. db \in DBs BY DEF IInv, Good
  <2>2. /\ db.lives \in [Names -> 0..Lives]
        /\ db.kind \in [Objs -> {"NONE", "TEST", "RULE", "ACTION"}]
        /\ db.state \in [Objs -> States]
        /\ db.dflt \in [Objs -> Words] /\ db.cli \in [Objs -> Words]
        /\ db.inputs \in [Objs -> Seq(Objs)]
        /\ db.head \in [Objs -> Objs \cup {None}]
        /\ db.ref \in [Objs -> Objs \cup {None}]
        /\ db.next \in [Objs -> Objs \cup {None}]
        /\ db.acts \in SUBSET (Objs \X Objs)
    BY <2>1 DEF DBs
  <2>3. QED BY <2>2 DEF TypeOK, Words, IInv, Lasts
<1>2. QED BY <1>1, InitGood, StepKeeps, PTL DEF Spec

(* Whatever rules the program wires to whatever inputs, and deletes and    *)
(* makes again, no rule is an input of an input of itself: the search      *)
(* before an input is added looks far enough.                              *)
THEOREM LoopsAreRefused == Spec => []InputsEnd
<1>1. IInv => InputsEnd
  <2> SUFFICES ASSUME IInv, NEW r \in Living, NEW i \in Living, NEW j \in Living,
                      r # i, ListFind(db.inputs[r], i), ListFind(db.inputs[i], j),
                      j = r \/ ListFind(db.inputs[j], r)
               PROVE  FALSE
    BY DEF InputsEnd
  <2>1. r \in Objs /\ i \in Objs /\ j \in Objs BY DEF Living
  <2>2. QED BY <2>1 DEF IInv, Good, NoLoops, Edge
<1>2. QED BY <1>1, InitGood, StepKeeps, PTL DEF Spec

(* What the user has said of an object's state goes before what the        *)
(* program says, in whatever order they say it, and before what the object *)
(* is made into.                                                           *)
THEOREM UserSaysLast == Spec => []UserHasTheLastWord
<1>1. IInv => UserHasTheLastWord
  BY DEF IInv, Good, LastWord, UserHasTheLastWord, Living
<1>2. QED BY <1>1, InitGood, StepKeeps, PTL DEF Spec

(* What the program has created and made ready stays ready until a call    *)
(* deletes it or creates it anew: no wiring takes it for a mere forward    *)
(* reference.                                                              *)
THEOREM CreatedIsKept == Spec => CreatedStays
<1>1. IInv /\ [Next]_vars => [StaysNow]_vars
  BY NextKeeps
<1>2. QED BY <1>1, InitGood, StepKeeps, PTL DEF Spec, CreatedStays, StaysNow

-----------------------------------------------------------------------------
(* As long as the calls are of the simple kind *)

(* The invariant that goes with IInv *)
Simple == plain => Wired(db)
MadeReady == \A n \in Tests : plain /\ last = <<"ready", n>> => Reaches(db, n)

LEMMA CallWires ==
    ASSUME NEW new, NEW creates, NEW odd, NEW what, Call(new, creates, odd, what),
           plain /\ ~ odd => Wired(new),
           \A n \in Tests : plain /\ what = <<"ready", n>> => Reaches(new, n)
    PROVE  Simple' /\ MadeReady'
<1>1. db' = new /\ last' = what /\ plain' = (plain /\ ~ odd) BY DEF Call
<1>2. plain' => plain /\ ~ odd BY <1>1
<1>3. Simple' BY <1>1, <1>2 DEF Simple
<1>4. ASSUME NEW n \in Tests, plain' /\ last' = <<"ready", n>> PROVE Reaches(db', n)
  <2>1. plain /\ what = <<"ready", n>> BY <1>1, <1>2, <1>4
  <2>2. Reaches(new, n) BY <2>1
  <2>3. QED BY <1>1, <2>2
<1>5. MadeReady' BY <1>4 DEF MadeReady
<1>6. QED BY <1>3, <1>5

(* A call that makes no test ready *)
LEMMA OtherCallWires ==
    ASSUME NEW new, NEW creates, NEW odd, NEW what, Call(new, creates, odd, what),
           plain /\ ~ odd => Wired(new),
           what \in {None} \cup ({"create", "delete"} \X Names)
    PROVE  Simple' /\ MadeReady'
<1>1. ASSUME NEW n \in Tests PROVE what # <<"ready", n>>
  <2>1. n \in Names BY DEF Names
  <2>2. <<"ready", n>> \in {"create", "delete", "ready"} \X Names BY <2>1
  <2>3. None # <<"ready", n>> BY <2>2, NamesAssumption
  <2>4. <<"ready", n>> \notin {"create", "delete"} \X Names OBVIOUS
  <2>5. QED BY <2>3, <2>4
<1>2. QED BY <1>1, CallWires

LEMMA NextWires ==
    ASSUME IInv, Simple, Next
    PROVE  Simple' /\ MadeReady'
<1>1. Good(db) /\ (plain => Wired(db)) BY DEF IInv, Simple
<1> DEFINE other == {None} \cup ({"create", "delete"} \X Names)
<1>2. None \in other /\ \A n \in Names : <<"create", n>> \in other /\ <<"delete", n>> \in other
  OBVIOUS
<1>3. \A new, creates, odd, what :
         /\ Call(new, creates, odd, what) /\ what \in other
         /\ plain /\ ~ odd => Wired(new)
         => Simple' /\ MadeReady'
  BY OtherCallWires
<1>4. Tests \subseteq Names /\ Rules \subseteq Names /\ Actions \subseteq Names BY DEF Names
<1> HIDE DEF other
<1>5. ASSUME NEW n \in Tests, CallTestCreate(n) PROVE Simple' /\ MadeReady'
  <2>1. Room(db, n) /\ Call(TestCreate(db, n), {n}, Again(db, n), None)
    BY <1>5 DEF CallTestCreate, Fits, Room
  <2>2. plain /\ ~ Again(db, n) => Wired(TestCreate(db, n)) BY <1>1, <2>1, TestCreateWired
  <2>3. QED BY <1>2, <1>3, <2>1, <2>2
<1>6. ASSUME NEW n \in Tests, CallChainReady(n) PROVE Simple' /\ MadeReady'
  <2> DEFINE e == ChainReady(db, n)
             odd == FALSE
             none == {}
             what == <<"ready", n>>
  <2>1. n \in Names /\ Known(db, n) /\ Call(e, none, odd, what)
    BY <1>4, <1>6 DEF CallChainReady
  <2>2. plain /\ ~ odd => Wired(e) BY <1>1, <2>1, ChainReadyWired
  <2>3. e = ChainReady(db, n) OBVIOUS
  <2> HIDE DEF e, odd, none
  <2>4. plain => Reaches(e, n) BY <1>1, <2>1, <2>3, ReadyReached
  <2>5. ASSUME NEW m \in Tests, what = <<"ready", m>> PROVE m = n BY <2>5
  <2> HIDE DEF what
  <2>6. \A m \in Tests : plain /\ what = <<"ready", m>> => Reaches(e, m) BY <2>4, <2>5
  <2>7. QED BY <2>1, <2>2, <2>6, CallWires
<1>7. ASSUME NEW n \in Actions, CallActionCreate(n) PROVE Simple' /\ MadeReady'
  <2>1. Room(db, n) /\ Call(ActionCreate(db, n), {n}, FALSE, None)
    BY <1>7 DEF CallActionCreate, Fits, Room
  <2>2. plain => Wired(ActionCreate(db, n)) BY <1>1, <2>1, ActionCreateWired
  <2>3. QED BY <1>2, <1>3, <2>1, <2>2
<1>8. ASSUME NEW n \in Rules, NEW i \in Tests \cup Rules, NEW a \in Actions,
             CallRuleCreate(n, i, a)
      PROVE  Simple' /\ MadeReady'
  <2> DEFINE odd == n = i \/ Again(db, n)
             what == <<"create", n>>
  <2>1. /\ Room(db, n) /\ Room(db, i) /\ Room(db, a)
        /\ Call(RuleCreate(db, n, i, a), {n}, odd, what)
    BY <1>8 DEF CallRuleCreate, Fits, Room
  <2>2. plain /\ ~ odd => Wired(RuleCreate(db, n, i, a)) BY <1>1, <2>1, RuleCreateWired
  <2>3. what \in other BY <1>2, <1>4
  <2> HIDE DEF odd, what
  <2>4. QED BY <1>3, <2>1, <2>2, <2>3
<1>9. ASSUME NEW n \in Rules, NEW i \in Tests \cup Rules, CallRuleAddInput(n, i)
      PROVE  Simple' /\ MadeReady'
  <2> DEFINE odd == n = i \/ db.inputs[Obj(db, n)] # <<>>
  <2>1. /\ Is(db, n, "RULE") /\ Room(db, i)
        /\ Call(RuleAddInput(db, n, i), {}, odd, None)
    BY <1>9 DEF CallRuleAddInput, Fits, Room
  <2>2. plain /\ ~ odd => Wired(RuleAddInput(db, n, i)) BY <1>1, <2>1, RuleAddInputWired
  <2> HIDE DEF odd
  <2>3. QED BY <1>2, <1>3, <2>1, <2>2
<1>10. ASSUME NEW n \in Rules, NEW a \in Actions, CallRuleAddAction(n, a)
       PROVE  Simple' /\ MadeReady'
  <2>1. /\ Room(db, n) /\ Room(db, a)
        /\ Call(RuleAddAction(db, n, a), {}, Grows(db, n), None)
    BY <1>10 DEF CallRuleAddAction, Fits, Room
  <2>2. plain /\ ~ Grows(db, n) => Wired(RuleAddAction(db, n, a))
    BY <1>1, <2>1, RuleAddActionWired
  <2>3. QED BY <1>2, <1>3, <2>1, <2>2
<1>11. ASSUME NEW n \in Names, CallDelete(n) PROVE Simple' /\ MadeReady'
  <2> DEFINE what == <<"delete", n>>
  <2>1. Room(db, n) /\ Call(Deleted(db, n), {}, FALSE, what)
    BY <1>11 DEF CallDelete, Fits, Room
  <2>2. plain => Wired(Deleted(db, n)) BY <1>1, <2>1, DeletedWired
  <2>3. what \in other BY <1>2
  <2> HIDE DEF what
  <2>4. QED BY <1>3, <2>1, <2>2, <2>3
<1>12. ASSUME NEW n \in Names, CallConfigure(n) PROVE Simple' /\ MadeReady'
  <2>1. Room(db, n) /\ Call(Configure(db, n), {}, Grows(db, n), None)
    BY <1>12 DEF CallConfigure, Fits, Room
  <2>2. plain /\ ~ Grows(db, n) => Wired(Configure(db, n)) BY <1>1, <2>1, ConfigureWired
  <2>3. QED BY <1>2, <1>3, <2>1, <2>2
<1>13. ASSUME NEW n \in Names, CallDefault(n) PROVE Simple' /\ MadeReady'
  <2>1. Call(Default(db, n), {}, FALSE, None) BY <1>13 DEF CallDefault
  <2>2. plain => Wired(Default(db, n)) BY <1>1, DefaultWired
  <2>3. QED BY <1>2, <1>3, <2>1, <2>2
<1>14. ASSUME NEW n \in Names, NEW byCli \in BOOLEAN, NEW new \in {"ENABLED", "DISABLED"},
              CallSetState(n, byCli, new)
       PROVE  Simple' /\ MadeReady'
  <2>1. Room(db, n) /\ Call(SetState(db, n, byCli, new), {}, Grows(db, n), None)
    BY <1>14 DEF CallSetState, Fits, Room
  <2>2. plain /\ ~ Grows(db, n) => Wired(SetState(db, n, byCli, new))
    BY <1>1, <2>1, SetStateWired
  <2>3. QED BY <1>2, <1>3, <2>1, <2>2
<1>15. \A n \in Configured : n \in Names BY NamesAssumption
<1>16. QED
  BY <1>5, <1>6, <1>7, <1>8, <1>9, <1>10, <1>11, <1>12, <1>13, <1>14, <1>15 DEF Next

LEMMA InitWired == Init => Simple /\ MadeReady
<1> SUFFICES ASSUME Init PROVE Simple /\ MadeReady
  OBVIOUS
<1>1. db = Empty /\ last = None BY DEF Init
<1>2. Empty \in DBs
  <2>1. IInv BY InitGood
  <2>2. QED BY <1>1, <2>1 DEF IInv, Good
<1>3. \A r, i \in Objs : ~ Edge(Empty, r, i) BY DEF Empty, Edge, ListFind
<1>4. Neat(Empty)
  <2>1. OneInput(Empty) BY DEF OneInput, Empty
  <2>2. EdgesFit(Empty) BY <1>3 DEF EdgesFit
  <2>3. Blank(Empty) BY DEF Blank, Empty
  <2>4. ActsFit(Empty) BY DEF ActsFit, Empty
  <2>5. QED BY <2>1, <2>2, <2>3, <2>4 DEF Neat
<1>5. Hung(Empty, Heads(Empty))
  <2>1. \A o \in Objs : HeadOf(Empty, o) = None BY DEF HeadOf, Empty
  <2>2. Heads(Empty) \in [Objs -> Objs \cup {None}] /\ \A o \in Objs : Heads(Empty)[o] = None
    BY <2>1 DEF Heads
  <2>3. Chain(Empty, None) = {} BY <1>2, ChainOfNone
  <2>4. \A o \in Objs : Strung(Empty, None, o) BY <1>3, <2>3 DEF Strung, Once, Users
  <2>5. QED BY <2>2, <2>4 DEF Hung
<1>6. Simple BY <1>1, <1>4, <1>5 DEF Simple, Wired
<1>7. \A n \in Tests : last # <<"ready", n>>
  <2>1. \A n \in Tests : <<"ready", n>> \in {"create", "delete", "ready"} \X Names BY DEF Names
  <2>2. QED BY <1>1, <2>1, NamesAssumption
<1>8. QED BY <1>6, <1>7 DEF MadeReady

LEMMA StepWires == IInv /\ Simple /\ MadeReady /\ [Next]_vars => (Simple /\ MadeReady)'
<1>1. ASSUME IInv, Simple, MadeReady, UNCHANGED vars PROVE (Simple /\ MadeReady)'
  BY <1>1 DEF Simple, MadeReady, vars
<1>2. QED BY <1>1, NextWires

(* As long as the calls are of the simple kind, the chain of rules of each *)
(* test and rule holds all that have it for an input, and nothing else: no *)
(* order of creating, adding and deleting loses one, leaves a deleted one  *)
(* or runs into the chain of another (Link, Leave, Delete).                *)
THEOREM ChainsRight == Spec => []ChainsFollowInputs
<1>1. IInv /\ Simple => ChainsFollowInputs
  <2> SUFFICES ASSUME IInv, Simple, plain, NEW o \in Living
               PROVE  Chain(db, HeadOf(db, o)) = {r \in Living : ListFind(db.inputs[r], o)}
    BY DEF ChainsFollowInputs
  <2>1. Wired(db) /\ o \in Objs /\ Alive(db, o) BY DEF Simple, Living
  <2>2. Heads(db)[o] = HeadOf(db, o) BY <2>1 DEF Heads
  <2>3. Chain(db, HeadOf(db, o)) = Users(db, o) BY <2>1, <2>2 DEF Wired, Hung, Strung
  <2>4. Users(db, o) = {r \in Living : ListFind(db.inputs[r], o)}
    BY <2>1 DEF Users, Edge, Living, Wired, Neat, EdgesFit
  <2>5. QED BY <2>3, <2>4
<1>2. QED BY <1>1, InitGood, StepKeeps, InitWired, StepWires, PTL DEF Spec

(* As long as the calls are of the simple kind, myrefl_test_chain_ready    *)
(* comes to every rule and action that the test feeds: none of them is     *)
(* left behind as created while the test runs.                             *)
THEOREM ReadyReaches == Spec => []ReadyReachesAll
<1>1. MadeReady => ReadyReachesAll
  <2> SUFFICES ASSUME MadeReady, NEW n \in Tests, plain, last = <<"ready", n>>,
                      Ready(db, Obj(db, n)), NEW o \in Fed(Obj(db, n))
               PROVE  db.state[o] # "CREATED"
    BY DEF ReadyReachesAll
  <2>1. PICK S : Reached(db, Obj(db, n), S) BY DEF MadeReady, Reaches
  <2>2. Fed(Obj(db, n)) \subseteq S BY <2>1, FedWithin
  <2>3. QED BY <2>1, <2>2 DEF Reached
<1>2. QED BY <1>1, InitGood, StepKeeps, InitWired, StepWires, PTL DEF Spec
=============================================================================
