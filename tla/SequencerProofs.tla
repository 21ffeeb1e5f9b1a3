--------------------------- MODULE SequencerProofs ---------------------------
(***************************************************************************)
(* Theorems about Sequencer, whatever rules, tests and components the      *)
(* program has built: the types; an action is begun but once before its    *)
(* rule has passed again; once the lock is free, health is what the rules  *)
(* make it, a base is what its members make it, and confidence is no       *)
(* higher than that of a member; a rule that counts failures has a result  *)
(* that its history explains; and a gate has the one its inputs explain.   *)
(*                                                                         *)
(* Those about a free lock are of a state in which nothing is left to do.  *)
(* What holds in between is that a thing that is not right yet is on the   *)
(* stack of the thread that has the lock: that stack is what their         *)
(* invariants are about, and that no other thread has more than one thing  *)
(* to do, for which it waits for the lock.                                 *)
(***************************************************************************)
EXTENDS Sequencer, TLAPS, FiniteSetTheorems, WellFoundedInduction

-----------------------------------------------------------------------------
(* Sums.  A fact about the sum over any finite set is proved by a smallest *)
(* set for which it fails: it is not empty, and holds for one element less.*)

(* What SumFunctionOnSet(f, D) takes the value at D of *)
IsSum(g, f, D) ==
    g = [s \in SUBSET D |->
           IF s = {} THEN 0
           ELSE LET x == CHOOSE x \in s : TRUE IN f[x] + g[s \ {x}]]
SumOf(f, D) == CHOOSE g : IsSum(g, f, D)

LEMMA SumIs == \A f, D : SumFunctionOnSet(f, D) = SumOf(f, D)[D]
BY DEF SumFunctionOnSet, FoldFunctionOnSet, MapThenFoldSet, SumOf, IsSum

LEMMA SmallestSet ==
    ASSUME NEW D, IsFiniteSet(D), NEW B, B \subseteq SUBSET D, B # {}
    PROVE  \E s \in B : \A t \in B : t \subseteq s => t = s
<1>1. IsWellFoundedOn(StrictSubsetOrdering(D), FiniteSubsetsOf(D))
  BY FS_StrictSubsetOrderingWellFounded
<1>2. B \subseteq FiniteSubsetsOf(D) BY FS_FiniteSubsetsOfFinite
<1>3. PICK s \in B : \A t \in B : ~ (<<t, s>> \in StrictSubsetOrdering(D))
  BY <1>1, <1>2, WFMin
<1>4. QED BY <1>3 DEF StrictSubsetOrdering

(* What a sum of the elements of s is, by one that leaves an element out   *)
SumStep(f, s, rest) == f[CHOOSE x \in s : TRUE] + rest[s \ {CHOOSE x \in s : TRUE}]

LEMMA SumParts ==
    ASSUME NEW g, NEW f, NEW D, IsSum(g, f, D), NEW s \in SUBSET D
    PROVE  g[s] = IF s = {} THEN 0 ELSE SumStep(f, s, g)
BY DEF IsSum, SumStep

LEMMA SumsAgree ==
    ASSUME NEW f, NEW D, IsFiniteSet(D), NEW E, NEW g, NEW h,
           IsSum(g, f, D), IsSum(h, f, E), NEW s \in (SUBSET D) \cap (SUBSET E)
    PROVE  g[s] = h[s]
<1> DEFINE B == {t \in (SUBSET D) \cap (SUBSET E) : g[t] # h[t]}
<1> SUFFICES ASSUME B # {} PROVE FALSE
  OBVIOUS
<1>1. PICK t \in B : \A u \in B : u \subseteq t => u = t
  <2>1. B \subseteq SUBSET D OBVIOUS
  <2> HIDE DEF B
  <2>2. QED BY <2>1, SmallestSet
<1> DEFINE rest == t \ {CHOOSE x \in t : TRUE}
<1>2. t # {} BY SumParts
<1>3. rest \subseteq t /\ rest # t BY <1>2
<1>4. g[rest] = h[rest] BY <1>1, <1>3
<1>5. g[t] = SumStep(f, t, g) /\ h[t] = SumStep(f, t, h) BY <1>2, SumParts
<1>6. QED BY <1>4, <1>5 DEF SumStep

LEMMA SumExists ==
    ASSUME NEW f, NEW T, IsFiniteSet(T)
    PROVE  \A D \in SUBSET T : IsSum(SumOf(f, D), f, D)
<1> DEFINE B == {D \in SUBSET T : ~ IsSum(SumOf(f, D), f, D)}
<1> SUFFICES ASSUME B # {} PROVE FALSE
  OBVIOUS
<1>1. PICK D \in B : \A u \in B : u \subseteq D => u = D
  <2>1. B \subseteq SUBSET T OBVIOUS
  <2> HIDE DEF B
  <2>2. QED BY <2>1, SmallestSet
<1>2. \A u \in SUBSET D : u # D => IsSum(SumOf(f, u), f, u) BY <1>1
<1> DEFINE less(s) == s \ {CHOOSE x \in s : TRUE}
           value(s) == SumOf(f, less(s))[less(s)]
           g == [s \in SUBSET D |-> IF s = {} THEN 0
                                    ELSE f[CHOOSE x \in s : TRUE] + value(s)]
<1>3. ASSUME NEW s \in SUBSET D, s # {}
      PROVE  g[less(s)] = value(s)
  <2> DEFINE u == less(s)
  <2>1. u \in SUBSET D /\ u # D /\ less(u) \in SUBSET u BY <1>3
  <2>2. IsSum(SumOf(f, u), f, u) BY <1>2, <2>1
  <2>3. CASE u = {}
    <3>1. SumOf(f, u)[u] = 0 BY <2>2, <2>3, SumParts
    <3>2. QED BY <2>1, <2>3, <3>1
  <2>4. CASE u # {}
    <3>1. SumOf(f, u)[u] = SumStep(f, u, SumOf(f, u)) BY <2>2, <2>4, SumParts
    <3>2. less(u) # D /\ less(u) \in SUBSET D BY <2>1, <1>3
    <3>3. IsSum(SumOf(f, less(u)), f, less(u)) BY <1>2, <3>2
    <3>4. IsFiniteSet(u) BY <1>1, <2>1, FS_Subset
    <3>5. SumOf(f, u)[less(u)] = SumOf(f, less(u))[less(u)]
      BY <2>1, <2>2, <3>3, <3>4, SumsAgree
    <3>6. g[u] = f[CHOOSE x \in u : TRUE] + value(u) BY <2>1, <2>4
    <3>7. QED BY <3>1, <3>5, <3>6 DEF SumStep
  <2>5. QED BY <2>3, <2>4
<1>4. IsSum(g, f, D)
  <2> DEFINE next(s) == IF s = {} THEN 0 ELSE f[CHOOSE x \in s : TRUE] + g[less(s)]
  <2>0. \A s \in SUBSET D : g[s] = next(s)
    <3> SUFFICES ASSUME NEW s \in SUBSET D PROVE g[s] = next(s)
      OBVIOUS
    <3>1. CASE s = {} BY <3>1
    <3>2. CASE s # {}
      <4>1. g[s] = f[CHOOSE x \in s : TRUE] + value(s) BY <3>2
      <4>2. g[less(s)] = value(s) BY <1>3, <3>2
      <4>3. next(s) = f[CHOOSE x \in s : TRUE] + g[less(s)] BY <3>2
      <4> HIDE DEF g, value, next, less
      <4>4. QED BY <4>1, <4>2, <4>3
    <3>3. QED BY <3>1, <3>2
  <2>1. g = [s \in SUBSET D |-> next(s)]
    <3> HIDE DEF next
    <3>1. QED BY <2>0
  <2> HIDE DEF g
  <2>2. QED BY <2>1 DEF IsSum
<1>5. IsSum(SumOf(f, D), f, D)
  <2> HIDE DEF g
  <2>1. \E h : IsSum(h, f, D) BY <1>4
  <2>2. QED BY <2>1 DEF SumOf
<1>6. QED BY <1>1, <1>5

(* A sum is that of all elements but one, and that one. *)
LEMMA SumSplits ==
    ASSUME NEW f, NEW T, IsFiniteSet(T)
    PROVE  /\ T = {} => SumFunctionOnSet(f, T) = 0
           /\ T # {} => LET x == CHOOSE x \in T : TRUE IN
                          /\ x \in T
                          /\ SumFunctionOnSet(f, T) = f[x] + SumFunctionOnSet(f, T \ {x})
<1>1. IsSum(SumOf(f, T), f, T) BY SumExists
<1>2. CASE T = {} BY <1>1, <1>2, SumParts, SumIs
<1>3. CASE T # {}
  <2> DEFINE x == CHOOSE x \in T : TRUE
             U == T \ {x}
  <2>1. x \in T BY <1>3
  <2>2. SumOf(f, T)[T] = SumStep(f, T, SumOf(f, T)) BY <1>1, <1>3, SumParts
  <2>3. IsSum(SumOf(f, U), f, U) BY SumExists
  <2>4. SumOf(f, T)[U] = SumOf(f, U)[U] BY <1>1, <2>3, SumsAgree
  <2>5. SumFunctionOnSet(f, T) = f[x] + SumFunctionOnSet(f, U)
    BY <2>2, <2>4, SumIs DEF SumStep
  <2>6. QED BY <1>3, <2>1, <2>5
<1>4. QED BY <1>2, <1>3

(* A sum depends on what it adds up. *)
LEMMA SumsEqual ==
    ASSUME NEW f, NEW g, NEW T, IsFiniteSet(T), \A x \in T : f[x] = g[x]
    PROVE  SumFunctionOnSet(f, T) = SumFunctionOnSet(g, T)
<1> DEFINE B == {U \in SUBSET T : SumFunctionOnSet(f, U) # SumFunctionOnSet(g, U)}
<1> SUFFICES ASSUME B # {} PROVE FALSE
  OBVIOUS
<1>1. PICK U \in B : \A V \in B : V \subseteq U => V = U
  <2>1. B \subseteq SUBSET T OBVIOUS
  <2> HIDE DEF B
  <2>2. QED BY <2>1, SmallestSet
<1>2. IsFiniteSet(U) BY <1>1, FS_Subset
<1>3. U # {} BY <1>2, SumSplits
<1> DEFINE x == CHOOSE x \in U : TRUE
<1>4. x \in U /\ SumFunctionOnSet(f, U) = f[x] + SumFunctionOnSet(f, U \ {x})
      /\ SumFunctionOnSet(g, U) = g[x] + SumFunctionOnSet(g, U \ {x})
  BY <1>2, <1>3, SumSplits
<1> HIDE DEF x
<1>5. U \ {x} \notin B /\ U \ {x} \in SUBSET T BY <1>1, <1>4
<1>6. SumFunctionOnSet(f, U \ {x}) = SumFunctionOnSet(g, U \ {x}) /\ f[x] = g[x]
  BY <1>4, <1>5
<1>7. SumFunctionOnSet(f, U) = SumFunctionOnSet(g, U) BY <1>4, <1>6
<1>8. QED BY <1>1, <1>7

LEMMA SumFacts ==
    ASSUME NEW f, NEW T, IsFiniteSet(T), \A x \in T : f[x] \in Int
    PROVE  /\ SumFunctionOnSet(f, T) \in Int
           /\ (\A x \in T : f[x] = 0) => SumFunctionOnSet(f, T) = 0
           /\ (\A x \in T : f[x] >= 0) =>
                /\ SumFunctionOnSet(f, T) >= 0
                /\ \A x \in T : SumFunctionOnSet(f, T) >= f[x]
<1> DEFINE sum(U) == SumFunctionOnSet(f, U)
           Good(U) == /\ sum(U) \in Int
                      /\ (\A x \in U : f[x] = 0) => sum(U) = 0
                      /\ (\A x \in U : f[x] >= 0) =>
                            sum(U) >= 0 /\ \A x \in U : sum(U) >= f[x]
           B == {U \in SUBSET T : ~ Good(U)}
<1> SUFFICES ASSUME B # {} PROVE FALSE
  OBVIOUS
<1>1. PICK U \in B : \A V \in B : V \subseteq U => V = U
  <2>1. B \subseteq SUBSET T OBVIOUS
  <2> HIDE DEF B
  <2>2. QED BY <2>1, SmallestSet
<1>2. IsFiniteSet(U) BY <1>1, FS_Subset
<1>3. CASE U = {}
  <2>1. sum(U) = 0 BY <1>2, <1>3, SumSplits
  <2>2. QED BY <1>1, <1>3, <2>1
<1>4. CASE U # {}
  <2>1. PICK x \in U : sum(U) = f[x] + sum(U \ {x}) BY <1>2, <1>4, SumSplits
  <2>2. Good(U \ {x}) BY <1>1
  <2>3. f[x] \in Int /\ \A y \in U : f[y] \in Int BY <1>1
  <2> DEFINE a == sum(U)
             b == sum(U \ {x})
  <2>4. a = f[x] + b /\ b \in Int BY <2>1, <2>2
  <2>5. \A y \in U : y = x \/ y \in U \ {x} OBVIOUS
  <2> HIDE DEF a, b
  <2>6. a \in Int BY <2>3, <2>4
  <2>7. (\A y \in U : f[y] = 0) => a = 0
    <3>1. (\A y \in U : f[y] = 0) => b = 0 BY <2>2 DEF b
    <3>2. QED BY <2>4, <3>1
  <2>8. ASSUME \A y \in U : f[y] >= 0 PROVE a >= 0 /\ \A y \in U : a >= f[y]
    <3>1. b >= 0 /\ \A y \in U \ {x} : b >= f[y] BY <2>2, <2>8 DEF b
    <3>2. f[x] >= 0 BY <2>8
    <3>3. QED BY <2>3, <2>4, <2>5, <3>1, <3>2
  <2>9. Good(U) BY <2>6, <2>7, <2>8 DEF a
  <2>10. QED BY <1>1, <2>9
<1>5. QED BY <1>3, <1>4

-----------------------------------------------------------------------------
(* The type invariant *)

(* What there is to do for a test, for a rule and for a component *)
AboutTests == {"test", "result", "redo"}
AboutRules == {"process", "reprocess", "run", "rerun", "told", "rci", "cause", "action"}
Tasks == (AboutTests \X Tests \X Names \X Results)
         \cup (AboutRules \X Rules \X Names \X Results)
         \cup ({"health"} \X Comps \X Names \X Results)

Instances == Rules \X Names

(* The type invariant, with tasks that are about something of their kind *)
Typed ==
    /\ setup \in DOMAIN Setups
    /\ type \in [Rules -> Types]
    /\ last \in [Places -> {"PASS", "FAIL"}]
    /\ count \in [Instances -> 1..2]
    /\ memory \in [Instances -> [fails : 0..Most, bits : SUBSET Nat, pos : Nat, size : Nat]]
    /\ actionRun \subseteq Instances /\ cause \subseteq Instances
    /\ health \in [Comps -> Int] /\ confidence \in [Comps -> 0..Full]
    /\ stack \in [Threads -> Seq(Tasks)] /\ jobs \in Seq(Tasks)
    /\ lock \in Threads \cup {None}
    /\ due \subseteq Tests \X Names
    /\ acted \in [Instances -> 0..2]

LEMMA TypedIsTyped == Typed => TypeOK
<1>1. Tasks \subseteq Todos BY DEF Tasks, Todos, AboutTests, AboutRules, Whats, Objs
<1>2. Seq(Tasks) \subseteq Seq(Todos) BY <1>1
<1>3. QED BY <1>2 DEF Typed, TypeOK, Instances

(* What a program may have built *)
LEMMA SetupFacts ==
    ASSUME setup \in DOMAIN Setups
    PROVE  /\ S.first \in [Tests -> Rules \cup {None}]
           /\ S.next \in [Rules -> Rules \cup {None}]
           /\ S.output \in [Rules -> Rules \cup {None}]
           /\ S.insts \in [Objs -> Seq(Insts)]
           /\ S.type \in [Rules -> Types]
           /\ S.home \in [Rules \cup Comps -> Comps \cup {None}]
           /\ S.severity \in [Rules -> Int]
           /\ S.watches \in [Tests -> Comps \cup {None}]
           /\ S.given \in [Tests -> SUBSET Results]
           /\ S.doubted \subseteq Rules
           /\ S.inputs \in [Rules -> SUBSET Objs]
<1> DEFINE R == [first : [Tests -> Rules \cup {None}],
                 next : [Rules -> Rules \cup {None}],
                 output : [Rules -> Rules \cup {None}],
                 inputs : [Rules -> SUBSET Objs],
                 insts : [Objs -> Seq(Insts)],
                 type : [Rules -> Types],
                 home : [Rules \cup Comps -> Comps \cup {None}],
                 severity : [Rules -> Int],
                 watches : [Tests -> Comps \cup {None}],
                 given : [Tests -> SUBSET ({"PASS", "FAIL", "ABORT", "VALUE"} \X Int)],
                 off : SUBSET Rules, doubted : SUBSET Rules,
                 pool : SUBSET Workers, touched : SUBSET (Rules \cup Comps),
                 patient : Rules \X Names]
<1>1. S \in R
  <2>1. Setups \in Seq(R) BY SetupsAssumption
  <2> HIDE DEF R
  <2>2. QED BY <2>1 DEF S
<1> HIDE DEF S
<1>2. QED BY <1>1 DEF Results

(* The instances of an object *)
LEMMA InstanceFacts ==
    ASSUME setup \in DOMAIN Setups, NEW o \in Objs, NEW i
    PROVE  /\ Has(o) \subseteq Names /\ Base \in Has(o)
           /\ \A n \in DOMAIN S.insts[o] : S.insts[o][n] \in Members(o)
           /\ \A j \in Members(o) : \E n \in DOMAIN S.insts[o] : S.insts[o][n] = j
           /\ Instance(o, i) \in Has(o) /\ (Instance(o, i) # Base => Instance(o, i) = i)
<1>1. S.insts[o] \in Seq(Insts) BY SetupFacts
<1>2. \A n \in DOMAIN S.insts[o] : S.insts[o][n] \in Insts BY <1>1
<1>3. QED BY <1>2, NamesAssumption DEF Has, Members, Instance, Names

(* A thing to do, by what it is about *)
LEMMA TaskFacts ==
    /\ \A what \in AboutTests, t \in Tests, i \in Names, result \in Results :
          Todo(what, t, i, result) \in Tasks
    /\ \A what \in AboutRules, r \in Rules, i \in Names, result \in Results :
          Todo(what, r, i, result) \in Tasks
    /\ \A c \in Comps, i \in Names, result \in Results :
          Todo("health", c, i, result) \in Tasks
    /\ \A x \in Tasks :
          /\ x[1] \in AboutTests => x[2] \in Tests
          /\ x[1] \in AboutRules => x[2] \in Rules
          /\ x[1] = "health" => x[2] \in Comps
          /\ x[3] \in Names /\ x[4] \in Results
    /\ \A kind \in {"PASS", "FAIL", "ABORT", "VALUE"}, v \in Int : <<kind, v>> \in Results
    /\ Base \in Names /\ 0 \in Int
BY DEF Tasks, Todo, AboutTests, AboutRules, Results, Names

(* What the top of a stack is *)
LEMMA TopFacts ==
    ASSUME stack \in [Threads -> Seq(Tasks)], NEW w \in Threads, stack[w] # <<>>
    PROVE  /\ Top(w) \in Tasks
           /\ Tail(stack[w]) \in Seq(Tasks)
           /\ Len(Tail(stack[w])) = Len(stack[w]) - 1
           /\ \A k \in DOMAIN Tail(stack[w]) :
                 k + 1 \in DOMAIN stack[w] /\ Tail(stack[w])[k] = stack[w][k + 1]
BY DEF Top

-----------------------------------------------------------------------------
(* Threads: who may have what to do *)

(* What a thread may wait for the lock with *)
Waits == {"test", "result", "redo", "cause", "action"}
OnlyWaits(q) == \A k \in DOMAIN q : q[k][1] \in Waits

(* A thread without the lock has one thing to do at most, for which it     *)
(* waits for the lock or has given it up.                                  *)
Locked ==
    /\ OnlyWaits(jobs)
    /\ \A w \in Threads : lock # w => Len(stack[w]) <= 1 /\ OnlyWaits(stack[w])

(* What a step of w that does todo first leaves on the stacks *)
LEMMA ProceedFacts ==
    ASSUME Typed, Locked, NEW w \in Threads, stack[w] # <<>>, lock \in {w, None},
           NEW todo \in Seq(Tasks), Proceed(w, todo)
    PROVE  /\ stack' \in [Threads -> Seq(Tasks)] /\ lock' \in Threads \cup {None}
           /\ stack'[w] = todo \o Tail(stack[w])
           /\ \A v \in Threads \ {w} : stack'[v] = stack[v]
           /\ \A v \in Threads : lock' # v => Len(stack'[v]) <= 1 /\ OnlyWaits(stack'[v])
<1> DEFINE left == todo \o Tail(stack[w])
<1>1. stack \in [Threads -> Seq(Tasks)] BY DEF Typed
<1>2. left \in Seq(Tasks) BY <1>1, TopFacts
<1>3. stack' = [stack EXCEPT ![w] = left] /\ lock' = IF left = <<>> THEN None ELSE w
  BY DEF Proceed
<1> HIDE DEF left
<1>4. stack' \in [Threads -> Seq(Tasks)] /\ stack'[w] = left
      /\ \A v \in Threads \ {w} : stack'[v] = stack[v]
  BY <1>1, <1>2, <1>3
<1>5. lock' \in Threads \cup {None} BY <1>3
<1>6. ASSUME NEW v \in Threads, lock' # v
      PROVE  Len(stack'[v]) <= 1 /\ OnlyWaits(stack'[v])
  <2>1. CASE v = w
    <3>1. stack'[v] = <<>> BY <1>3, <1>4, <1>6, <2>1
    <3>2. QED BY <3>1 DEF OnlyWaits
  <2>2. CASE v # w
    <3>1. lock # v BY <2>2, NamesAssumption
    <3>2. QED BY <1>4, <2>2, <3>1 DEF Locked
  <2>3. QED BY <2>1, <2>2
<1>7. QED BY <1>4, <1>5, <1>6 DEF left

-----------------------------------------------------------------------------
(* Every step keeps the types, and the threads without the lock waiting *)

Kept == Typed /\ Locked

LEMMA StartsKept == Init => Kept
<1> SUFFICES ASSUME Init PROVE Kept
  OBVIOUS
<1>1. setup \in DOMAIN Setups BY DEF Init
<1>2. type \in [Rules -> Types] BY <1>1, SetupFacts DEF Init
<1>3. stack = [w \in Threads |-> <<>>] /\ jobs = <<>> BY DEF Init
<1>4. stack \in [Threads -> Seq(Tasks)] /\ jobs \in Seq(Tasks) BY <1>3
<1>5. memory \in [Instances -> [fails : 0..Most, bits : SUBSET Nat, pos : Nat, size : Nat]]
  BY NumbersAssumption DEF Init, Instances
<1>6. confidence \in [Comps -> 0..Full] /\ health \in [Comps -> Int]
  BY NumbersAssumption DEF Init
<1>7. Typed BY <1>1, <1>2, <1>4, <1>5, <1>6 DEF Init, Typed, Instances
<1>8. Locked BY <1>3 DEF Locked, OnlyWaits
<1>9. QED BY <1>7, <1>8 DEF Kept

LEMMA RememberedFacts ==
    ASSUME Typed, NEW x \in Instances, type[x[1]].op = "N_IN_M", NEW failing
    PROVE  Remembered(x, failing) \in
             [fails : 0..Most, bits : SUBSET Nat, pos : Nat, size : Nat]
<1> DEFINE y == memory[x]
           size == IF y.size = 0 THEN (type[x[1]].m \div Byte + 1) * Byte ELSE y.size
<1>1. y \in [fails : 0..Most, bits : SUBSET Nat, pos : Nat, size : Nat] BY DEF Typed
<1>2. type[x[1]].m \in Nat BY DEF Typed, Types, Operators, Instances
<1>3. Byte \in Nat \ {0} BY NumbersAssumption
<1>4. type[x[1]].m \div Byte \in Nat BY <1>2, <1>3
<1>5. (type[x[1]].m \div Byte + 1) * Byte \in Nat BY <1>3, <1>4
<1>6. size \in Nat BY <1>1, <1>5
<1>7. Remembered(x, failing) =
        IF y.pos >= size THEN [y EXCEPT !.size = size]
        ELSE [y EXCEPT !.size = size,
                       !.bits = IF failing THEN @ \cup {y.pos} ELSE @ \ {y.pos},
                       !.pos = IF y.pos + 1 >= type[x[1]].m THEN 0 ELSE y.pos + 1]
  BY DEF Remembered
<1> DEFINE bits == IF failing THEN y.bits \cup {y.pos} ELSE y.bits \ {y.pos}
           pos == IF y.pos + 1 >= type[x[1]].m THEN 0 ELSE y.pos + 1
<1>8. bits \in SUBSET Nat /\ pos \in Nat BY <1>1
<1>9. Remembered(x, failing) = IF y.pos >= size THEN [y EXCEPT !.size = size]
        ELSE [y EXCEPT !.size = size, !.bits = bits, !.pos = pos]
  BY <1>7
<1> HIDE DEF y, size, bits, pos
<1>10. QED BY <1>1, <1>6, <1>8, <1>9

LEMMA MemoryFacts ==
    ASSUME Typed, NEW x \in Instances, NEW result
    PROVE  Memory(x, result) \in
             [fails : 0..Most, bits : SUBSET Nat, pos : Nat, size : Nat]
<1> DEFINE y == memory[x]
           fails == IF y.fails = Most THEN Most ELSE y.fails + 1
           zero == IF Fails(x, result) THEN 0 ELSE fails
           row == IF result[1] = "FAIL" THEN fails ELSE 0
<1>1. y \in [fails : 0..Most, bits : SUBSET Nat, pos : Nat, size : Nat] BY DEF Typed
<1>2. fails \in 0..Most /\ zero \in 0..Most /\ row \in 0..Most
  <2>1. Most \in Nat /\ y.fails \in 0..Most BY <1>1, NumbersAssumption
  <2>2. QED BY <2>1
<1>3. \/ Memory(x, result) = y
      \/ Memory(x, result) = [y EXCEPT !.fails = zero]
      \/ Memory(x, result) = [y EXCEPT !.fails = row]
      \/ type[x[1]].op = "N_IN_M" /\ Memory(x, result) = Remembered(x, result[1] = "FAIL")
  BY DEF Memory
<1> HIDE DEF y, zero, row
<1>4. QED BY <1>1, <1>2, <1>3, RememberedFacts

(* A result leaves last results and their counts what they are. *)
LEMMA StatsFacts ==
    ASSUME Typed, NEW x \in Places, NEW kind, StatsUpdate(x, kind)
    PROVE  last' \in [Places -> {"PASS", "FAIL"}] /\ count' \in [Instances -> 1..2]
BY DEF Typed, StatsUpdate, Instances

(* A result of a rule's instance, after all its conditions *)
LEMMA RuleResultFacts ==
    ASSUME NEW x, NEW result
    PROVE  /\ RuleResult(x, result) \in {"PASS", "FAIL", "ABORT"}
           /\ RuleResult(x, result) = "ABORT" <=> Ignores(x, result)
BY DEF RuleResult

LEMMA LostFacts ==
    ASSUME Typed, NEW c \in Comps
    PROVE  /\ Lost(c) \in Int
           /\ IsFiniteSet(Failing(c)) /\ IsFiniteSet(Within(c))
           /\ Failing(c) \subseteq Rules /\ Within(c) \subseteq Comps
<1>1. Failing(c) \subseteq Rules /\ Within(c) \subseteq Comps BY DEF Failing, Within
<1>2. IsFiniteSet(Failing(c)) /\ IsFiniteSet(Within(c))
  BY <1>1, NamesAssumption, FS_Subset
<1>3. SumFunctionOnSet(S.severity, Failing(c)) \in Int
  <2>1. \A r \in Failing(c) : S.severity[r] \in Int BY <1>1, SetupFacts DEF Typed
  <2>2. QED BY <1>2, <2>1, SumFacts
<1> DEFINE short == [k \in Comps |-> Full - health[k]]
<1>4. SumFunctionOnSet(short, Within(c)) \in Int
  <2>1. \A k \in Within(c) : short[k] \in Int BY <1>1, NumbersAssumption DEF Typed
  <2> HIDE DEF short
  <2>2. QED BY <1>2, <2>1, SumFacts
<1>5. QED BY <1>1, <1>2, <1>3, <1>4 DEF Lost

(* The least of some numbers is one of them. *)
LEMMA MinFacts ==
    ASSUME NEW N \in SUBSET Nat, N # {}
    PROVE  Min(N) \in N /\ \A n \in N : Min(N) <= n
<1>1. \E n \in N : \A m \in N : n <= m
  <2>1. PICK n \in N : \A m \in N : ~ (<<m, n>> \in OpToRel(<, Nat))
    BY NatLessThanWellFounded, WFMin
  <2>2. ASSUME NEW m \in N, m < n PROVE FALSE
    <3>1. m \in Nat /\ n \in Nat OBVIOUS
    <3>2. <<m, n>> \in OpToRel(<, Nat) BY <2>2, <3>1 DEF OpToRel
    <3>3. QED BY <2>1, <3>2
  <2>3. \A m \in N : m \in Nat /\ n \in Nat OBVIOUS
  <2>4. QED BY <2>2, <2>3
<1>2. QED BY <1>1 DEF Min

(* What confidence becomes: no more than health, unless there is none; and *)
(* more than it was only when it is no more than that of any member.       *)
LEMMA ConfidentFacts ==
    ASSUME Typed, NEW c \in Comps, NEW h \in Int
    PROVE  /\ Confident(c, h) \in 0..Full
           /\ Confident(c, h) <= h \/ Confident(c, h) = 0
           /\ h < confidence[c] => Confident(c, h) = IF h > 0 THEN h ELSE 0
           /\ h = confidence[c] => Confident(c, h) = h
           /\ h > confidence[c] =>
                /\ \A k \in Within(c) : Confident(c, h) <= confidence[k]
                /\ (\A k \in Within(c) : confidence[c] <= confidence[k]) =>
                     confidence[c] <= Confident(c, h)
<1> DEFINE gap == h - confidence[c]
           step == IF gap \div Hour = 0 THEN 1 ELSE gap \div Hour
           all == {confidence[c] + step} \cup {confidence[k] : k \in Within(c)}
           risen == IF gap = 0 THEN h ELSE Min(all)
<1>1. Confident(c, h) = IF gap < 0 THEN (IF h > 0 THEN h ELSE 0) ELSE Min({risen, Full})
  BY DEF Confident
<1>2. confidence[c] \in 0..Full /\ Full \in Nat /\ Hour \in Nat \ {0} /\ gap \in Int
  BY NumbersAssumption DEF Typed
<1>3. CASE gap < 0 BY <1>1, <1>2, <1>3
<1>4. CASE gap = 0
  <2>1. h = confidence[c] /\ risen = h BY <1>2, <1>4
  <2>2. {risen, Full} \in SUBSET Nat BY <1>2, <2>1
  <2> HIDE DEF risen
  <2>3. Min({risen, Full}) \in {risen, Full} /\ Min({risen, Full}) <= risen
        /\ Min({risen, Full}) <= Full
    BY <2>2, MinFacts
  <2>4. Confident(c, h) = h BY <1>1, <1>2, <1>4, <2>1, <2>3
  <2>5. QED BY <1>2, <2>1, <2>4
<1>5. CASE gap > 0
  <2>1. step \in Nat /\ 1 <= step /\ step <= gap
    <3> DEFINE q == gap \div Hour
    <3>1. gap \in Nat /\ Hour \in Nat \ {0} BY <1>2, <1>5
    <3> HIDE DEF gap
    <3>2. q \in Nat /\ q <= gap BY <3>1
    <3>3. step = IF q = 0 THEN 1 ELSE q OBVIOUS
    <3> HIDE DEF q, step
    <3>4. QED BY <1>2, <1>5, <3>2, <3>3
  <2>2. \A k \in Within(c) : confidence[k] \in 0..Full BY DEF Typed, Within
  <2>3. all \in SUBSET Nat /\ all # {} BY <1>2, <2>1, <2>2
  <2>4. confidence[c] + step \in all /\ \A k \in Within(c) : confidence[k] \in all
    OBVIOUS
  <2>5. \A n \in all : n = confidence[c] + step \/ \E k \in Within(c) : n = confidence[k]
    OBVIOUS
  <2>6. risen = Min(all) BY <1>2, <1>5
  <2> HIDE DEF all, risen
  <2>7. Min(all) \in all /\ \A n \in all : Min(all) <= n BY <2>3, MinFacts
  <2>8. {risen, Full} \in SUBSET Nat BY <1>2, <2>3, <2>6, <2>7
  <2>9. Min({risen, Full}) \in {risen, Full} /\ Min({risen, Full}) <= risen
        /\ Min({risen, Full}) <= Full
    BY <2>8, MinFacts
  <2>10. Confident(c, h) = Min({risen, Full}) BY <1>1, <1>2, <1>5
  <2> HIDE DEF step
  <2>11. risen <= confidence[c] + step /\ \A k \in Within(c) : risen <= confidence[k]
    BY <2>4, <2>6, <2>7
  <2>12. confidence[c] + step <= h BY <1>2, <2>1
  <2> DEFINE new == Min({risen, Full})
  <2>13. new \in Nat /\ risen \in Nat /\ new <= risen /\ new <= Full
         /\ (new = risen \/ new = Full)
    BY <1>2, <2>8, <2>9
  <2> HIDE DEF new
  <2>14. new \in 0..Full BY <1>2, <2>13
  <2>15. new <= h BY <1>2, <2>1, <2>11, <2>12, <2>13
  <2>16. \A k \in Within(c) : new <= confidence[k] BY <2>2, <2>11, <2>13
  <2>17. ASSUME \A k \in Within(c) : confidence[c] <= confidence[k]
         PROVE  confidence[c] <= new
    <3>1. confidence[c] <= risen
      <4>1. CASE risen = confidence[c] + step BY <1>2, <2>1, <4>1
      <4>2. CASE \E k \in Within(c) : risen = confidence[k] BY <2>17, <4>2
      <4>3. QED BY <2>5, <2>6, <2>7, <4>1, <4>2
    <3>2. QED BY <1>2, <2>13, <3>1
  <2>18. h > confidence[c] BY <1>2, <1>5
  <2>19. QED BY <1>2, <2>10, <2>14, <2>15, <2>16, <2>17, <2>18 DEF new
<1>6. QED BY <1>2, <1>3, <1>4, <1>5

(* A step in which w does todo first, if what else it changes is right *)
LEMMA ProceedKeeps ==
    ASSUME Kept, NEW w \in Threads, stack[w] # <<>>, lock \in {w, None},
           NEW todo \in Seq(Tasks), Proceed(w, todo),
           UNCHANGED <<setup, type>>,
           last' \in [Places -> {"PASS", "FAIL"}], count' \in [Instances -> 1..2],
           memory' \in [Instances -> [fails : 0..Most, bits : SUBSET Nat,
                                      pos : Nat, size : Nat]],
           actionRun' \subseteq Instances, cause' \subseteq Instances,
           health' \in [Comps -> Int], confidence' \in [Comps -> 0..Full],
           jobs' \in Seq(Tasks), OnlyWaits(jobs)',
           due' \subseteq Tests \X Names, acted' \in [Instances -> 0..2]
    PROVE  Kept'
<1>1. stack' \in [Threads -> Seq(Tasks)] /\ lock' \in Threads \cup {None}
      /\ \A v \in Threads : lock' # v => Len(stack'[v]) <= 1 /\ OnlyWaits(stack'[v])
  BY ProceedFacts DEF Kept
<1>2. Typed' BY <1>1 DEF Kept, Typed
<1>3. Locked' BY <1>1 DEF Locked, OnlyWaits
<1>4. QED BY <1>2, <1>3 DEF Kept

(* Things to do, put after one another *)
LEMMA SeqFacts ==
    /\ \A x \in Tasks : <<x>> \in Seq(Tasks)
    /\ <<>> \in Seq(Tasks)
    /\ \A p, q \in Seq(Tasks) : p \o q \in Seq(Tasks)
OBVIOUS

LEMMA ProcessFacts ==
    ASSUME NEW what \in {"process", "reprocess"}, NEW r \in Rules \cup {None},
           NEW i \in Names, NEW result \in Results
    PROVE  Process(what, r, i, result) \in Seq(Tasks)
<1>1. CASE r = None BY <1>1, SeqFacts DEF Process
<1>2. CASE r # None
  <2>1. Todo(what, r, i, result) \in Tasks BY <1>2, TaskFacts DEF AboutRules
  <2>2. QED BY <1>2, <2>1, SeqFacts DEF Process
<1>3. QED BY <1>1, <1>2

(* The instances a result goes to are those of the rule. *)
LEMMA ReachesFacts ==
    ASSUME setup \in DOMAIN Setups, NEW r \in Rules, NEW i \in Names
    PROVE  /\ Reaches(r, i) \in Seq(Names)
           /\ \A k \in DOMAIN Reaches(r, i) : Reaches(r, i)[k] \in Has(r)
<1>1. S.insts[r] \in Seq(Insts) /\ r \in Objs BY SetupFacts DEF Objs
<1>2. CASE Instance(r, i) # Base
  <2>1. Reaches(r, i) = <<i>> /\ i \in Has(r) BY <1>1, <1>2, InstanceFacts DEF Reaches
  <2>2. QED BY <2>1
<1>3. CASE Instance(r, i) = Base
  <2>1. Reaches(r, i) = <<Base>> \o S.insts[r] BY <1>3 DEF Reaches
  <2>2. S.insts[r] \in Seq(Names) BY <1>1 DEF Names
  <2>3. Base \in Names BY DEF Names
  <2>4. \A k \in DOMAIN Reaches(r, i) :
           Reaches(r, i)[k] = Base \/ \E n \in DOMAIN S.insts[r] :
                                         Reaches(r, i)[k] = S.insts[r][n]
    BY <2>1, <2>2
  <2>5. <<Base>> \in Seq(Names) BY <2>3
  <2>6. Reaches(r, i) \in Seq(Names) BY <2>1, <2>2, <2>5
  <2>7. Base \in Has(r) /\ \A n \in DOMAIN S.insts[r] : S.insts[r][n] \in Has(r)
    BY <1>1, InstanceFacts DEF Members
  <2>8. QED BY <2>4, <2>6, <2>7
<1>4. QED BY <1>2, <1>3

LEMMA EachFacts ==
    ASSUME setup \in DOMAIN Setups, NEW what \in AboutRules, NEW r \in Rules,
           NEW is \in Seq(Names), NEW result \in Results
    PROVE  /\ Each(what, r, is, result) \in Seq(Tasks)
           /\ Len(Each(what, r, is, result)) = Len(is)
           /\ \A k \in DOMAIN is : Each(what, r, is, result)[k] = Todo(what, r, is[k], result)
<1>1. \A k \in DOMAIN is : Todo(what, r, is[k], result) \in Tasks BY TaskFacts
<1> DEFINE at(k) == Todo(what, r, is[k], result)
           e == [k \in DOMAIN is |-> at(k)]
<1>2. Each(what, r, is, result) = e BY DEF Each
<1> HIDE DEF at
<1>3. \A k \in 1..Len(is) : at(k) \in Tasks BY <1>1 DEF at
<1>4. Len(is) \in Nat /\ DOMAIN is = 1..Len(is) OBVIOUS
<1>5. e \in Seq(Tasks) /\ Len(e) = Len(is) BY <1>3, <1>4
<1>6. QED BY <1>2, <1>5 DEF at

(* What a thing is about, by what there is to do *)
LEMMA DoingFacts ==
    ASSUME Typed, NEW w \in Threads, NEW what, Doing(w, what)
    PROVE  /\ stack[w] # <<>> /\ Top(w)[1] = what
           /\ Top(w)[3] \in Names /\ Top(w)[4] \in Results
           /\ Top(w)[4][1] \in {"PASS", "FAIL", "ABORT", "VALUE"} /\ Top(w)[4][2] \in Int
           /\ what \in AboutTests => Top(w)[2] \in Tests
           /\ what \in AboutRules => Top(w)[2] \in Rules
           /\ what = "health" => Top(w)[2] \in Comps
<1>1. stack \in [Threads -> Seq(Tasks)] BY DEF Typed
<1>2. stack[w] # <<>> /\ Top(w)[1] = what BY DEF Doing
<1>3. Top(w) \in Tasks BY <1>1, <1>2, TopFacts
<1>4. QED BY <1>2, <1>3, TaskFacts DEF Results

LEMMA TestResultKeeps ==
    ASSUME Kept, NEW w \in Workers, NEW result \in Gives(w), TestResult(w, result)
    PROVE  Kept'
<1> USE DEF Kept
<1>1. w \in Threads BY DEF Threads
<1>2. Doing(w, "test") \/ Doing(w, "result") BY DEF Gives
<1>3. stack[w] # <<>> /\ Top(w)[2] \in Tests /\ Top(w)[3] \in Names /\ Top(w)[4] \in Results
  BY <1>1, <1>2, DoingFacts DEF AboutTests
<1>4. result \in Results
  <2>1. S.given[Top(w)[2]] \subseteq Results BY <1>3, SetupFacts DEF Typed
  <2>2. QED BY <1>3, <2>1 DEF Gives
<1> DEFINE todo == Process("process", S.first[Top(w)[2]], Top(w)[3], result)
<1>5. todo \in Seq(Tasks)
  <2>1. S.first[Top(w)[2]] \in Rules \cup {None} BY <1>3, SetupFacts DEF Typed
  <2>2. QED BY <1>3, <1>4, <2>1, ProcessFacts
<1>6. Proceed(w, todo) /\ lock = None BY DEF TestResult
<1>7. <<Top(w)[2], Top(w)[3]>> \in Places BY <1>3 DEF Places, Objs
<1>8. last' \in [Places -> {"PASS", "FAIL"}] /\ count' \in [Instances -> 1..2]
  BY <1>7, StatsFacts DEF TestResult
<1>9. UNCHANGED <<setup, type, memory, actionRun, cause, acted, health, confidence, jobs, due>>
  BY DEF TestResult, blame, comps
<1> HIDE DEF todo
<1>10. QED BY <1>1, <1>3, <1>5, <1>6, <1>8, <1>9, ProceedKeeps DEF Typed, Locked, OnlyWaits

LEMMA TestResultRciKeeps ==
    ASSUME Kept, NEW w \in Workers, TestResultRci(w)
    PROVE  Kept'
<1> USE DEF Kept
<1>1. w \in Threads /\ Doing(w, "redo") /\ lock = None BY DEF Threads, TestResultRci
<1>2. stack[w] # <<>> /\ Top(w)[2] \in Tests /\ Top(w)[3] \in Names /\ Top(w)[4] \in Results
  BY <1>1, DoingFacts DEF AboutTests
<1> DEFINE todo == Process("reprocess", S.first[Top(w)[2]], Top(w)[3], Top(w)[4])
<1>3. todo \in Seq(Tasks)
  <2>1. S.first[Top(w)[2]] \in Rules \cup {None} BY <1>2, SetupFacts DEF Typed
  <2>2. QED BY <1>2, <2>1, ProcessFacts
<1>4. Proceed(w, todo) BY DEF TestResultRci
<1>5. UNCHANGED <<setup, type, last, count, memory, actionRun, cause, acted,
                  health, confidence, jobs, due>>
  BY DEF TestResultRci, rules, blame, comps
<1> HIDE DEF todo
<1>6. QED BY <1>1, <1>2, <1>3, <1>4, <1>5, ProceedKeeps DEF Typed, Locked, OnlyWaits

(* What a result is processed into: the instances it goes to, and then the *)
(* next rule of the chain                                                  *)
Processed(w) ==
    LET r == Top(w)[2]
        result == Top(w)[4]
        todo == IF result[1] = "ABORT" THEN "rci"
                ELSE IF Doing(w, "process") THEN "run" ELSE "rerun"
    IN  Each(todo, r, Reaches(r, Top(w)[3]), result)
        \o Process(Top(w)[1], S.next[r], Top(w)[3], result)

LEMMA ProcessedFacts ==
    ASSUME Kept, NEW w \in Workers, ProcessInput(w)
    PROVE  /\ w \in Threads /\ lock = w /\ stack[w] # <<>>
           /\ Top(w)[1] \in {"process", "reprocess"} /\ Top(w)[2] \in Rules
           /\ Top(w)[3] \in Names /\ Top(w)[4] \in Results
           /\ Processed(w) \in Seq(Tasks) /\ Proceed(w, Processed(w))
<1> USE DEF Kept
<1>1. w \in Threads /\ lock = w BY DEF Threads, ProcessInput
<1>2. Doing(w, "process") \/ Doing(w, "reprocess") BY DEF ProcessInput
<1>3. stack[w] # <<>> /\ Top(w)[2] \in Rules /\ Top(w)[3] \in Names /\ Top(w)[4] \in Results
      /\ Top(w)[1] \in {"process", "reprocess"}
  BY <1>1, <1>2, DoingFacts DEF AboutRules
<1>4. Processed(w) \in Seq(Tasks)
  <2> DEFINE what == IF Top(w)[4][1] = "ABORT" THEN "rci"
                     ELSE IF Doing(w, "process") THEN "run" ELSE "rerun"
             each == Each(what, Top(w)[2], Reaches(Top(w)[2], Top(w)[3]), Top(w)[4])
             next == Process(Top(w)[1], S.next[Top(w)[2]], Top(w)[3], Top(w)[4])
  <2>1. what \in AboutRules BY DEF AboutRules
  <2>2. S.next[Top(w)[2]] \in Rules \cup {None} /\ setup \in DOMAIN Setups
    BY <1>3, SetupFacts DEF Typed
  <2>3. next \in Seq(Tasks) BY <1>3, <2>2, ProcessFacts
  <2>4. Reaches(Top(w)[2], Top(w)[3]) \in Seq(Names) BY <1>3, <2>2, ReachesFacts
  <2> HIDE DEF what
  <2>5. each \in Seq(Tasks) BY <1>3, <2>1, <2>2, <2>4, EachFacts
  <2>6. Processed(w) = each \o next BY DEF Processed, what
  <2> HIDE DEF each, next
  <2>7. QED BY <2>3, <2>5, <2>6
<1>5. Proceed(w, Processed(w)) BY DEF ProcessInput, Processed
<1>6. QED BY <1>1, <1>3, <1>4, <1>5

LEMMA ProcessInputKeeps ==
    ASSUME Kept, NEW w \in Workers, ProcessInput(w)
    PROVE  Kept'
<1>1. UNCHANGED <<setup, type, last, count, memory, actionRun, cause, acted,
                  health, confidence, jobs, due>>
  BY DEF ProcessInput, rules, blame, comps
<1>2. QED BY <1>1, ProcessedFacts, ProceedKeeps DEF Kept, Typed, Locked, OnlyWaits

(* What the run of a rule leaves to do *)
RunTodo(w) ==
    LET x == <<Top(w)[2], Top(w)[3]>>
        kind == RuleResult(x, Top(w)[4])
    IN  HealthTodo(x[1], kind) \o <<Todo("told", x[1], x[2], <<kind, 0>>)>>

LEMMA RuleRunFacts ==
    ASSUME Kept, NEW w \in Workers, RuleRun(w)
    PROVE  /\ w \in Threads /\ lock = w /\ Doing(w, "run") /\ stack[w] # <<>>
           /\ Top(w)[1] = "run" /\ Top(w)[2] \in Rules /\ Top(w)[3] \in Names
           /\ <<Top(w)[2], Top(w)[3]>> \in Instances \cap Places
           /\ RunTodo(w) \in Seq(Tasks) /\ Proceed(w, RunTodo(w))
           /\ last' \in [Places -> {"PASS", "FAIL"}] /\ count' \in [Instances -> 1..2]
<1> USE DEF Kept
<1>1. w \in Threads /\ lock = w /\ Doing(w, "run") BY DEF Threads, RuleRun
<1>2. stack[w] # <<>> /\ Top(w)[1] = "run" /\ Top(w)[2] \in Rules
      /\ Top(w)[3] \in Names /\ Top(w)[4] \in Results
  BY <1>1, DoingFacts DEF AboutRules
<1> DEFINE x == <<Top(w)[2], Top(w)[3]>>
           kind == RuleResult(x, Top(w)[4])
           told == Todo("told", x[1], x[2], <<kind, 0>>)
<1>3. x \in Instances /\ x \in Places BY <1>2 DEF Places, Objs, Instances
<1>4. last' \in [Places -> {"PASS", "FAIL"}] /\ count' \in [Instances -> 1..2]
  BY <1>3, StatsFacts DEF RuleRun
<1>5. kind \in {"PASS", "FAIL", "ABORT"} BY RuleResultFacts
<1> HIDE DEF kind
<1>6. told \in Tasks
  <2>1. <<kind, 0>> \in Results BY <1>5, TaskFacts
  <2>2. QED BY <1>2, <2>1, TaskFacts DEF AboutRules
<1>7. HealthTodo(x[1], kind) \in Seq(Tasks)
  <2>1. S.home[x[1]] \in Comps \cup {None} /\ S.severity[x[1]] \in Int
    BY <1>2, SetupFacts DEF Typed
  <2>2. \A v \in Int : S.home[x[1]] # None =>
           Todo("health", S.home[x[1]], Base, <<"VALUE", v>>) \in Tasks
    BY <2>1, TaskFacts
  <2>3. HealthTodo(x[1], kind) = <<>> \/
        \E v \in Int : S.home[x[1]] # None /\
           HealthTodo(x[1], kind) = <<Todo("health", S.home[x[1]], Base, <<"VALUE", v>>)>>
    BY <2>1 DEF HealthTodo
  <2>4. QED BY <2>2, <2>3, SeqFacts
<1>8. RunTodo(w) = HealthTodo(x[1], kind) \o <<told>> BY DEF RunTodo, kind
<1>9. RunTodo(w) \in Seq(Tasks) BY <1>6, <1>7, <1>8, SeqFacts
<1>10. Proceed(w, RunTodo(w)) BY DEF RuleRun, RunTodo
<1>11. QED BY <1>1, <1>2, <1>3, <1>4, <1>9, <1>10

LEMMA RuleRunKeeps ==
    ASSUME Kept, NEW w \in Workers, RuleRun(w)
    PROVE  Kept'
<1> USE DEF Kept
<1> DEFINE x == <<Top(w)[2], Top(w)[3]>>
<1>1. memory' = [memory EXCEPT ![x] = Memory(x, Top(w)[4])] BY DEF RuleRun
<1>2. x \in Instances BY RuleRunFacts
<1>3. Memory(x, Top(w)[4]) \in [fails : 0..Most, bits : SUBSET Nat, pos : Nat, size : Nat]
  BY <1>2, MemoryFacts
<1> HIDE DEF x
<1>4. memory' \in [Instances -> [fails : 0..Most, bits : SUBSET Nat, pos : Nat, size : Nat]]
  BY <1>1, <1>2, <1>3 DEF Typed
<1>5. UNCHANGED <<setup, type, actionRun, cause, acted, health, confidence, jobs, due>>
  BY DEF RuleRun, blame, comps
<1>6. QED BY <1>4, <1>5, RuleRunFacts, ProceedKeeps DEF Typed, Locked, OnlyWaits

(* What telling of a result again leaves to do *)
RerunTodo(w) ==
    <<Todo("told", Top(w)[2], Top(w)[3], <<last[<<Top(w)[2], Top(w)[3]>>], 0>>)>>

LEMMA RerunFacts ==
    ASSUME Kept, NEW w \in Workers, RuleRunRci(w)
    PROVE  /\ w \in Threads /\ lock = w /\ stack[w] # <<>> /\ Top(w)[1] = "rerun"
           /\ RerunTodo(w) \in Seq(Tasks) /\ Proceed(w, RerunTodo(w))
<1> USE DEF Kept
<1>1. w \in Threads /\ lock = w /\ Doing(w, "rerun") BY DEF Threads, RuleRunRci
<1>2. stack[w] # <<>> /\ Top(w)[1] = "rerun" /\ Top(w)[2] \in Rules /\ Top(w)[3] \in Names
  BY <1>1, DoingFacts DEF AboutRules
<1> DEFINE x == <<Top(w)[2], Top(w)[3]>>
           todo == <<Todo("told", x[1], x[2], <<last[x], 0>>)>>
<1>3. todo \in Seq(Tasks)
  <2>1. x \in Places BY <1>2 DEF Places, Objs
  <2>2. <<last[x], 0>> \in Results BY <2>1, TaskFacts DEF Typed
  <2>3. Todo("told", x[1], x[2], <<last[x], 0>>) \in Tasks
    BY <1>2, <2>2, TaskFacts DEF AboutRules
  <2>4. QED BY <2>3, SeqFacts
<1>4. Proceed(w, todo) BY DEF RuleRunRci
<1>5. QED BY <1>1, <1>2, <1>3, <1>4 DEF RerunTodo

LEMMA RuleRunRciKeeps ==
    ASSUME Kept, NEW w \in Workers, RuleRunRci(w)
    PROVE  Kept'
<1>1. UNCHANGED <<setup, type, last, count, memory, actionRun, cause, acted,
                  health, confidence, jobs, due>>
  BY DEF RuleRunRci, rules, blame, comps
<1>2. QED BY <1>1, RerunFacts, ProceedKeeps DEF Kept, Typed, Locked, OnlyWaits

(* What the result of a rule leaves to do *)
ToldTodo(w) ==
    LET out == S.output[Top(w)[2]]
    IN  (IF out = None THEN <<>>
         ELSE Each("process", out, Reaches(out, Top(w)[3]), Top(w)[4]))
        \o <<Todo("rci", Top(w)[2], Top(w)[3], Top(w)[4])>>

LEMMA ToldFacts ==
    ASSUME Kept, NEW w \in Workers, RuleResultTold(w)
    PROVE  /\ w \in Threads /\ lock = w /\ stack[w] # <<>> /\ Top(w)[1] = "told"
           /\ ToldTodo(w) \in Seq(Tasks) /\ Proceed(w, ToldTodo(w))
           /\ \A k \in DOMAIN ToldTodo(w) : ToldTodo(w)[k][1] \in {"process", "rci"}
<1> USE DEF Kept
<1>1. w \in Threads /\ lock = w /\ Doing(w, "told") BY DEF Threads, RuleResultTold
<1>2. stack[w] # <<>> /\ Top(w)[1] = "told" /\ Top(w)[2] \in Rules
      /\ Top(w)[3] \in Names /\ Top(w)[4] \in Results
  BY <1>1, DoingFacts DEF AboutRules
<1> DEFINE out == S.output[Top(w)[2]]
           outs == IF out = None THEN <<>>
                   ELSE Each("process", out, Reaches(out, Top(w)[3]), Top(w)[4])
           rci == Todo("rci", Top(w)[2], Top(w)[3], Top(w)[4])
<1>3. setup \in DOMAIN Setups /\ out \in Rules \cup {None} BY <1>2, SetupFacts DEF Typed
<1>4. outs \in Seq(Tasks) /\ \A k \in DOMAIN outs : outs[k][1] = "process"
  <2> HIDE DEF out
  <2>1. CASE out = None BY <2>1, SeqFacts
  <2>2. CASE out # None
    <3> DEFINE is == Reaches(out, Top(w)[3])
               each == Each("process", out, is, Top(w)[4])
    <3>1. is \in Seq(Names) BY <1>2, <1>3, <2>2, ReachesFacts
    <3>2. "process" \in AboutRules BY DEF AboutRules
    <3> HIDE DEF is
    <3>3. each \in Seq(Tasks) /\ Len(each) = Len(is)
          /\ \A k \in DOMAIN is : each[k] = Todo("process", out, is[k], Top(w)[4])
      BY <1>2, <1>3, <2>2, <3>1, <3>2, EachFacts
    <3>4. outs = each BY <2>2 DEF is
    <3> HIDE DEF each, outs
    <3>5. \A k \in DOMAIN each : k \in DOMAIN is BY <3>1, <3>3
    <3>6. QED BY <3>3, <3>4, <3>5 DEF Todo
  <2>3. QED BY <2>1, <2>2
<1>5. rci \in Tasks /\ rci[1] = "rci" BY <1>2, TaskFacts DEF AboutRules, Todo
<1>6. ToldTodo(w) = outs \o <<rci>> BY DEF ToldTodo
<1>7. ToldTodo(w) \in Seq(Tasks)
      /\ \A k \in DOMAIN ToldTodo(w) : ToldTodo(w)[k][1] \in {"process", "rci"}
  <2> HIDE DEF outs, rci
  <2>1. ToldTodo(w) \in Seq(Tasks) BY <1>4, <1>5, <1>6, SeqFacts
  <2>2. \A k \in DOMAIN ToldTodo(w) :
           (k \in DOMAIN outs /\ ToldTodo(w)[k] = outs[k]) \/ ToldTodo(w)[k] = rci
    BY <1>4, <1>6
  <2>3. QED BY <1>4, <1>5, <2>1, <2>2
<1>8. Proceed(w, ToldTodo(w)) BY DEF RuleResultTold, ToldTodo
<1>9. QED BY <1>1, <1>2, <1>7, <1>8

LEMMA RuleResultToldKeeps ==
    ASSUME Kept, NEW w \in Workers, RuleResultTold(w)
    PROVE  Kept'
<1> DEFINE x == <<Top(w)[2], Top(w)[3]>>
<1>1. actionRun' \subseteq Instances /\ acted' \in [Instances -> 0..2]
  <2>1. actionRun' \in {actionRun, actionRun \ {x}}
        /\ (acted' = acted \/ acted' = [acted EXCEPT ![x] = 0])
    BY DEF RuleResultTold
  <2> HIDE DEF x
  <2>2. actionRun \subseteq Instances /\ acted \in [Instances -> 0..2] BY DEF Kept, Typed
  <2> DEFINE reset == [acted EXCEPT ![x] = 0]
  <2>3. reset \in [Instances -> 0..2]
    <3>1. reset = [y \in Instances |-> IF y = x THEN 0 ELSE acted[y]] BY <2>2
    <3>2. \A y \in Instances : (IF y = x THEN 0 ELSE acted[y]) \in 0..2 BY <2>2
    <3>3. QED BY <3>1, <3>2
  <2>4. QED BY <2>1, <2>2, <2>3
<1>2. UNCHANGED <<setup, type, last, count, memory, cause, health, confidence, jobs, due>>
  BY DEF RuleResultTold, rules, comps
<1>3. QED BY <1>1, <1>2, ToldFacts, ProceedKeeps DEF Kept, Typed, Locked, OnlyWaits

(* A step that queues things that wait for the lock *)
LEMMA QueueFacts ==
    ASSUME jobs \in Seq(Tasks), OnlyWaits(jobs), NEW q \in Seq(Tasks), OnlyWaits(q),
           jobs' = jobs \o q
    PROVE  jobs' \in Seq(Tasks) /\ OnlyWaits(jobs)'
<1>1. jobs' \in Seq(Tasks) BY SeqFacts
<1>2. \A k \in DOMAIN jobs' : (k \in DOMAIN jobs /\ jobs'[k] = jobs[k])
                              \/ (k - Len(jobs) \in DOMAIN q /\ jobs'[k] = q[k - Len(jobs)])
  OBVIOUS
<1>3. QED BY <1>1, <1>2 DEF OnlyWaits

(* Those that are blamed wait for the lock with their root causes. *)
LEMMA RciRunKeeps ==
    ASSUME Kept, NEW w \in Workers, RciRun(w)
    PROVE  /\ Kept'
           /\ \E q \in Seq(Tasks) : jobs' = jobs \o q /\ \A k \in DOMAIN q : q[k][1] = "cause"
<1> USE DEF Kept
<1>1. w \in Threads /\ lock = w /\ Doing(w, "rci") BY DEF Threads, RciRun
<1>2. stack[w] # <<>> /\ Top(w)[2] \in Rules /\ Top(w)[3] \in Names
  BY <1>1, DoingFacts DEF AboutRules
<1> DEFINE x == <<Top(w)[2], Top(w)[3]>>
           kind == Top(w)[4][1]
           own == {y \in {x} : kind = "FAIL" /\ count[x] = 1 /\ x[1] \notin S.doubted} \ cause
           passed == {y \in {x} : kind = "PASS" /\ count[x] = 1}
           others == {y \in Existing \ cause : y[1] \in S.doubted /\ last[y] = "FAIL"}
           retests == {y \in Existing : y[1] \in Tests \ Polled /\ S.doubted # {}}
<1>3. PICK more \in {{}} \cup {{y} : y \in others},
           cleared \in SUBSET {y \in cause : y[1] \in S.doubted},
           again \in {{}} \cup {{y} : y \in retests} :
             LET fresh == own \cup more IN
             /\ due' = due \cup again
             /\ cause' = ((cause \ passed) \ cleared) \cup fresh
             /\ \E order \in {q \in [1..Cardinality(fresh) -> fresh] :
                                 \A y \in fresh : \E k \in DOMAIN q : q[k] = y} :
                    jobs' = jobs \o [k \in DOMAIN order |->
                                       Todo("cause", order[k][1], order[k][2], <<"FAIL", 0>>)]
  BY DEF RciRun
<1> DEFINE fresh == own \cup more
<1>4. x \in Instances BY <1>2 DEF Instances
<1>5. more \subseteq Instances /\ IsFiniteSet(more)
  <2>1. S.doubted \subseteq Rules BY SetupFacts DEF Typed
  <2>2. \A y \in others : y \in Instances BY <2>1 DEF Existing, Places, Instances
  <2> HIDE DEF others
  <2>3. more = {} \/ \E y \in others : more = {y} BY <1>3
  <2>4. IsFiniteSet(more)
    <3>1. CASE more = {} BY <3>1, FS_EmptySet
    <3>2. CASE \E y \in others : more = {y} BY <3>2, FS_Singleton
    <3>3. QED BY <2>3, <3>1, <3>2
  <2>5. QED BY <2>2, <2>3, <2>4
<1>6. own \subseteq {x} OBVIOUS
<1> HIDE DEF own
<1>7. fresh \subseteq Instances /\ IsFiniteSet(fresh)
  <2>1. IsFiniteSet({x}) BY FS_Singleton
  <2> HIDE DEF x
  <2>2. IsFiniteSet(own) BY <1>6, <2>1, FS_Subset
  <2>3. IsFiniteSet(fresh) BY <1>5, <2>2, FS_Union
  <2>4. QED BY <1>4, <1>5, <1>6, <2>3
<1>8. Cardinality(fresh) \in Nat BY <1>7, FS_CardinalityType
<1>9. PICK order \in [1..Cardinality(fresh) -> fresh] :
         jobs' = jobs \o [k \in DOMAIN order |->
                            Todo("cause", order[k][1], order[k][2], <<"FAIL", 0>>)]
  BY <1>3
<1> DEFINE at(k) == Todo("cause", order[k][1], order[k][2], <<"FAIL", 0>>)
           blamed == [k \in DOMAIN order |-> at(k)]
<1>10. \A k \in 1..Cardinality(fresh) : at(k) \in Tasks /\ at(k)[1] = "cause"
  <2>1. \A k \in 1..Cardinality(fresh) : order[k] \in Instances BY <1>7, <1>9
  <2>2. <<"FAIL", 0>> \in Results BY TaskFacts
  <2> HIDE DEF fresh
  <2>3. \A k \in 1..Cardinality(fresh) : order[k][1] \in Rules /\ order[k][2] \in Names
    BY <2>1 DEF Instances
  <2>4. QED BY <2>2, <2>3, TaskFacts DEF AboutRules, Todo
<1>11. blamed \in Seq(Tasks) /\ OnlyWaits(blamed)
       /\ \A k \in DOMAIN blamed : blamed[k][1] = "cause"
  <2>1. DOMAIN order = 1..Cardinality(fresh) OBVIOUS
  <2> HIDE DEF at, fresh
  <2>2. blamed \in Seq(Tasks) BY <1>8, <1>10, <2>1
  <2>3. QED BY <1>10, <2>1, <2>2 DEF OnlyWaits, Waits
<1>12. jobs' = jobs \o blamed BY <1>9
<1> HIDE DEF blamed
<1>13. jobs' \in Seq(Tasks) /\ OnlyWaits(jobs)' BY <1>11, <1>12, QueueFacts DEF Typed, Locked
<1>14. cause' \subseteq Instances BY <1>3, <1>7 DEF Typed
<1>15. due' \subseteq Tests \X Names
  <2>1. \A y \in retests : y \in Tests \X Names BY DEF Existing, Places
  <2> HIDE DEF retests
  <2>2. again \subseteq Tests \X Names BY <1>3, <2>1
  <2>3. QED BY <1>3, <2>2 DEF Typed
<1>16. UNCHANGED <<setup, type, last, count, memory, actionRun, acted, health, confidence>>
  BY DEF RciRun, rules, comps
<1>17. Proceed(w, <<>>) /\ <<>> \in Seq(Tasks) BY SeqFacts DEF RciRun
<1>18. Kept'
  BY <1>1, <1>2, <1>13, <1>14, <1>15, <1>16, <1>17, ProceedKeeps DEF Typed, Locked, OnlyWaits
<1>19. QED BY <1>11, <1>12, <1>18

(* What w has to do is replaced by one thing it waits for the lock with,   *)
(* or the lock with it                                                     *)
LEMMA PutKeeps ==
    ASSUME Kept, lock = None, NEW w \in Threads, NEW q \in Seq(Tasks), Len(q) <= 1,
           (OnlyWaits(q) /\ lock' = None) \/ lock' = w,
           stack' = [stack EXCEPT ![w] = q]
    PROVE  /\ stack' \in [Threads -> Seq(Tasks)] /\ lock' \in Threads \cup {None}
           /\ \A v \in Threads : lock' # v => Len(stack'[v]) <= 1 /\ OnlyWaits(stack'[v])
<1>1. stack \in [Threads -> Seq(Tasks)] BY DEF Kept, Typed
<1>2. stack' \in [Threads -> Seq(Tasks)] /\ stack'[w] = q
      /\ \A v \in Threads \ {w} : stack'[v] = stack[v]
  BY <1>1
<1>3. ASSUME NEW v \in Threads, lock' # v
      PROVE  Len(stack'[v]) <= 1 /\ OnlyWaits(stack'[v])
  <2>1. CASE v = w BY <1>2, <1>3, <2>1
  <2>2. CASE v # w
    <3>1. lock # v BY NamesAssumption
    <3>2. QED BY <1>2, <2>2, <3>1 DEF Kept, Locked
  <2>3. QED BY <2>1, <2>2
<1>4. QED BY <1>2, <1>3

LEMMA RootCauseKeeps ==
    ASSUME Kept, NEW w \in Workers, RootCause(w)
    PROVE  Kept'
<1> USE DEF Kept
<1>1. w \in Threads /\ lock = None /\ lock' = None /\ Doing(w, "cause")
  BY DEF Threads, RootCause
<1>2. stack[w] # <<>> /\ Top(w)[2] \in Rules /\ Top(w)[3] \in Names /\ Top(w)[4] \in Results
  BY <1>1, DoingFacts DEF AboutRules
<1> DEFINE x == <<Top(w)[2], Top(w)[3]>>
           action == Todo("action", x[1], x[2], Top(w)[4])
<1>3. action \in Tasks /\ action[1] = "action" BY <1>2, TaskFacts DEF AboutRules, Todo
<1>4. PICK q \in {<<>>, <<action>>} : stack' = [stack EXCEPT ![w] = q]
  BY DEF RootCause
<1> HIDE DEF action
<1>5. q \in Seq(Tasks) /\ Len(q) <= 1 /\ OnlyWaits(q)
  <2>1. CASE q = <<>> BY <2>1 DEF OnlyWaits
  <2>2. CASE q = <<action>> BY <1>3, <2>2 DEF OnlyWaits, Waits
  <2>3. QED BY <2>1, <2>2
<1>6. stack' \in [Threads -> Seq(Tasks)] /\ lock' \in Threads \cup {None}
      /\ \A v \in Threads : lock' # v => Len(stack'[v]) <= 1 /\ OnlyWaits(stack'[v])
  BY <1>1, <1>4, <1>5, PutKeeps
<1>7. actionRun' \subseteq Instances /\ acted' \in [Instances -> 0..2]
  <2>1. x \in Instances BY <1>2 DEF Instances
  <2> DEFINE next == IF acted[x] = 2 THEN 2 ELSE acted[x] + 1
  <2>2. actionRun' \in {actionRun, actionRun \cup {x}}
        /\ (acted' = acted \/ acted' = [acted EXCEPT ![x] = next])
    BY DEF RootCause
  <2>3. acted \in [Instances -> 0..2] /\ actionRun \subseteq Instances BY DEF Typed
  <2>4. next \in 0..2 BY <2>1, <2>3
  <2> HIDE DEF x, next
  <2>5. [acted EXCEPT ![x] = next] \in [Instances -> 0..2] BY <2>3, <2>4
  <2>6. QED BY <2>1, <2>2, <2>3, <2>5
<1>8. UNCHANGED <<setup, type, last, count, memory, cause, health, confidence, jobs, due>>
  BY DEF RootCause, rules, comps
<1>9. QED BY <1>6, <1>7, <1>8 DEF Typed, Locked, OnlyWaits

LEMMA ActionEndKeeps ==
    ASSUME Kept, NEW w \in Workers, NEW passed, ActionEnd(w, passed)
    PROVE  Kept'
<1> USE DEF Kept
<1>1. w \in Threads /\ lock = None /\ lock' = None BY DEF Threads, ActionEnd
<1>2. <<>> \in Seq(Tasks) /\ Len(<<>>) <= 1 /\ OnlyWaits(<<>>) BY DEF OnlyWaits
<1>3. stack' = [stack EXCEPT ![w] = <<>>] BY DEF ActionEnd
<1>4. stack' \in [Threads -> Seq(Tasks)] /\ lock' \in Threads \cup {None}
      /\ \A v \in Threads : lock' # v => Len(stack'[v]) <= 1 /\ OnlyWaits(stack'[v])
  BY <1>1, <1>2, <1>3, PutKeeps
<1>5. due' \subseteq Tests \X Names
  <2>1. Feeding(<<Top(w)[2], Top(w)[3]>>) \subseteq Tests \X Names
    BY DEF Feeding, Existing, Places
  <2>2. QED BY <2>1 DEF ActionEnd, Typed
<1>6. UNCHANGED <<setup, type, last, count, memory, actionRun, cause, acted,
                  health, confidence, jobs>>
  BY DEF ActionEnd, rules, blame, comps
<1>7. QED BY <1>4, <1>5, <1>6 DEF Typed, Locked, OnlyWaits

LEMMA TakeKeeps ==
    ASSUME Kept, NEW w \in Workers, Take(w)
    PROVE  Kept'
<1> USE DEF Kept
<1>1. w \in Threads /\ lock = None /\ lock' = None /\ jobs # <<>> BY DEF Threads, Take
<1>2. jobs \in Seq(Tasks) /\ OnlyWaits(jobs) BY DEF Typed, Locked
<1>3. Head(jobs) \in Tasks /\ Head(jobs)[1] \in Waits BY <1>1, <1>2 DEF OnlyWaits
<1> DEFINE test == Head(jobs)[2]
           job == IF Head(jobs)[1] = "test" /\ S.watches[test] # None
                  THEN Todo("result", test, Base, <<"VALUE", health[S.watches[test]]>>)
                  ELSE Head(jobs)
<1>4. stack' = [stack EXCEPT ![w] = <<job>>] BY DEF Take
<1>5. job \in Tasks /\ job[1] \in Waits
  <2>1. CASE Head(jobs)[1] = "test" /\ S.watches[test] # None
    <3>1. test \in Tests BY <1>3, <2>1, TaskFacts DEF AboutTests
    <3>2. S.watches[test] \in Comps BY <2>1, <3>1, SetupFacts DEF Typed
    <3>3. <<"VALUE", health[S.watches[test]]>> \in Results BY <3>2, TaskFacts DEF Typed
    <3>4. job = Todo("result", test, Base, <<"VALUE", health[S.watches[test]]>>)
      BY <2>1
    <3> HIDE DEF job, test
    <3>5. job \in Tasks BY <3>1, <3>3, <3>4, TaskFacts DEF AboutTests
    <3>6. job[1] = "result" BY <3>4 DEF Todo
    <3>7. QED BY <3>5, <3>6 DEF Waits
  <2>2. CASE ~ (Head(jobs)[1] = "test" /\ S.watches[test] # None) BY <1>3, <2>2
  <2>3. QED BY <2>1, <2>2
<1> HIDE DEF job
<1>6. <<job>> \in Seq(Tasks) /\ Len(<<job>>) <= 1 /\ OnlyWaits(<<job>>)
  BY <1>5 DEF OnlyWaits
<1>7. stack' \in [Threads -> Seq(Tasks)] /\ lock' \in Threads \cup {None}
      /\ \A v \in Threads : lock' # v => Len(stack'[v]) <= 1 /\ OnlyWaits(stack'[v])
  BY <1>1, <1>4, <1>6, PutKeeps
<1>8. jobs' \in Seq(Tasks) /\ OnlyWaits(jobs)'
  <2>1. jobs' = Tail(jobs) BY DEF Take
  <2>2. QED BY <1>1, <1>2, <2>1 DEF OnlyWaits
<1>9. UNCHANGED <<setup, type, last, count, memory, actionRun, cause, acted,
                  health, confidence, due>>
  BY DEF Take, rules, blame, comps
<1>10. QED BY <1>7, <1>8, <1>9 DEF Typed, Locked

(* What the program, the scheduler and the user do is to queue a job, to   *)
(* change a type, or to take the lock for a health.                        *)
LEMMA JobKeeps ==
    ASSUME Kept, NEW job \in Tasks, job[1] \in Waits, jobs' = Append(jobs, job)
    PROVE  jobs' \in Seq(Tasks) /\ OnlyWaits(jobs)'
<1>1. <<job>> \in Seq(Tasks) /\ OnlyWaits(<<job>>) BY DEF OnlyWaits
<1>2. jobs \in Seq(Tasks) /\ OnlyWaits(jobs) BY DEF Kept, Typed, Locked
<1>3. jobs' = jobs \o <<job>> BY <1>2
<1>4. QED BY <1>1, <1>2, <1>3, QueueFacts

LEMMA NotifyKeeps ==
    ASSUME Kept, NEW t \in Tests, NEW i \in Names, NEW result \in S.given[t],
           Notify(t, i, result)
    PROVE  Kept'
<1> USE DEF Kept
<1>1. result \in Results
  <2>1. S.given[t] \subseteq Results BY SetupFacts DEF Typed
  <2>2. QED BY <2>1
<1>2. Todo("result", t, i, result) \in Tasks /\ Todo("result", t, i, result)[1] \in Waits
  BY <1>1, TaskFacts DEF AboutTests, Todo, Waits
<1>3. jobs' \in Seq(Tasks) /\ OnlyWaits(jobs)' BY <1>2, JobKeeps DEF Notify
<1>4. UNCHANGED <<setup, type, last, count, memory, actionRun, cause, acted,
                  health, confidence, stack, lock, due>>
  BY DEF Notify, rules, blame, comps
<1>5. QED BY <1>3, <1>4 DEF Typed, Locked, OnlyWaits

LEMMA PollRedoKeeps ==
    ASSUME Kept, NEW t \in Tests, NEW i \in Names, Poll(t, i) \/ Redo(t, i)
    PROVE  Kept'
<1> USE DEF Kept
<1>1. <<"VALUE", 0>> \in Results /\ <<last[<<t, i>>], 0>> \in Results
  <2>1. <<t, i>> \in Places BY DEF Places, Objs
  <2>2. QED BY <2>1, TaskFacts DEF Typed
<1>2. \A what \in {"test", "redo"}, result \in Results :
         Todo(what, t, i, result) \in Tasks /\ Todo(what, t, i, result)[1] \in Waits
  BY TaskFacts DEF AboutTests, Todo, Waits
<1>3. \E what \in {"test", "redo"}, result \in Results :
         jobs' = Append(jobs, Todo(what, t, i, result))
  BY <1>1 DEF Poll, Redo
<1>4. jobs' \in Seq(Tasks) /\ OnlyWaits(jobs)' BY <1>2, <1>3, JobKeeps
<1>5. due' \subseteq Tests \X Names BY DEF Poll, Redo, Typed
<1>6. UNCHANGED <<setup, type, last, count, memory, actionRun, cause, acted,
                  health, confidence, stack, lock>>
  BY DEF Poll, Redo, rules, blame, comps
<1>7. QED BY <1>4, <1>5, <1>6 DEF Typed, Locked, OnlyWaits

LEMMA RuleSetTypeKeeps ==
    ASSUME Kept, NEW r \in Rules, NEW new \in NewTypes, RuleSetType(r, new)
    PROVE  Kept'
<1> USE DEF Kept
<1>1. new \in Types BY NumbersAssumption
<1>2. type' \in [Rules -> Types] BY <1>1 DEF RuleSetType, Typed
<1>3. UNCHANGED <<setup, last, count, memory, actionRun, cause, acted,
                  health, confidence, jobs, stack, lock, due>>
  BY DEF RuleSetType, rules, blame, comps, threads
<1>4. QED BY <1>2, <1>3 DEF Typed, Locked, OnlyWaits

LEMMA HealthSetKeeps ==
    ASSUME Kept, NEW c \in Comps, NEW h \in {0, Full}, HealthSet(c, h)
    PROVE  Kept'
<1> USE DEF Kept
<1> DEFINE todo == Todo("health", c, Base, <<"VALUE", h - health[c]>>)
<1>1. App \in Threads /\ lock = None /\ lock' = App BY DEF Threads, HealthSet
<1>2. todo \in Tasks
  <2>1. h - health[c] \in Int BY NumbersAssumption DEF Typed
  <2>2. QED BY <2>1, TaskFacts
<1>3. stack' = [stack EXCEPT ![App] = <<todo>>] BY DEF HealthSet
<1> HIDE DEF todo
<1>4. <<todo>> \in Seq(Tasks) /\ Len(<<todo>>) <= 1 BY <1>2
<1>5. stack' \in [Threads -> Seq(Tasks)] /\ lock' \in Threads \cup {None}
      /\ \A v \in Threads : lock' # v => Len(stack'[v]) <= 1 /\ OnlyWaits(stack'[v])
  BY <1>1, <1>3, <1>4, PutKeeps
<1>6. UNCHANGED <<setup, type, last, count, memory, actionRun, cause, acted,
                  health, confidence, jobs, due>>
  BY DEF HealthSet, rules, blame, comps
<1>7. QED BY <1>5, <1>6 DEF Typed, Locked, OnlyWaits

(* What the health of a component leaves to do *)
HealthyTodo(w) ==
    IF S.home[Top(w)[2]] = None THEN <<>>
    ELSE <<Todo("health", S.home[Top(w)[2]], Base, Top(w)[4])>>

LEMMA CompHealthFacts ==
    ASSUME Kept, NEW w \in Threads, CompHealth(w)
    PROVE  /\ lock = w /\ stack[w] # <<>> /\ Top(w)[1] = "health" /\ Top(w)[2] \in Comps
           /\ S.home[Top(w)[2]] \in Comps \cup {None}
           /\ HealthyTodo(w) \in Seq(Tasks) /\ Proceed(w, HealthyTodo(w))
           /\ Full - Lost(Top(w)[2]) \in Int
           /\ health' = [health EXCEPT ![Top(w)[2]] = Full - Lost(Top(w)[2])]
           /\ confidence' = [confidence EXCEPT ![Top(w)[2]] =
                                Confident(Top(w)[2], Full - Lost(Top(w)[2]))]
<1> USE DEF Kept
<1>1. lock = w /\ Doing(w, "health") BY DEF CompHealth
<1>2. stack[w] # <<>> /\ Top(w)[1] = "health" /\ Top(w)[2] \in Comps /\ Top(w)[4] \in Results
  BY <1>1, DoingFacts
<1>3. S.home[Top(w)[2]] \in Comps \cup {None} BY <1>2, SetupFacts DEF Typed
<1>4. HealthyTodo(w) \in Seq(Tasks)
  <2>1. CASE S.home[Top(w)[2]] = None BY <2>1, SeqFacts DEF HealthyTodo
  <2>2. CASE S.home[Top(w)[2]] # None
    <3>1. Todo("health", S.home[Top(w)[2]], Base, Top(w)[4]) \in Tasks
      BY <1>2, <1>3, <2>2, TaskFacts
    <3>2. QED BY <2>2, <3>1, SeqFacts DEF HealthyTodo
  <2>3. QED BY <2>1, <2>2
<1>5. Proceed(w, HealthyTodo(w)) BY DEF CompHealth, HealthyTodo
<1>6. Full - Lost(Top(w)[2]) \in Int
  <2>1. Lost(Top(w)[2]) \in Int BY <1>2, LostFacts
  <2>2. QED BY <2>1, NumbersAssumption
<1>7. QED BY <1>1, <1>2, <1>3, <1>4, <1>5, <1>6 DEF CompHealth

LEMMA CompHealthKeeps ==
    ASSUME Kept, NEW w \in Threads, CompHealth(w)
    PROVE  Kept'
<1> USE DEF Kept
<1> DEFINE c == Top(w)[2]
           h == Full - Lost(c)
           watching == {t \in Tests : S.watches[t] = c /\ Top(w)[4][2] # 0}
<1>1. c \in Comps /\ h \in Int /\ health' = [health EXCEPT ![c] = h]
      /\ confidence' = [confidence EXCEPT ![c] = Confident(c, h)]
  BY CompHealthFacts
<1>2. PICK t \in watching \cup {None} :
         /\ t = None <=> watching = {}
         /\ jobs' = IF t = None THEN jobs
                    ELSE Append(jobs, Todo("result", t, Base, <<"VALUE", h>>))
  BY DEF CompHealth
<1>3. t # None => t \in Tests BY <1>2
<1> HIDE DEF h, c, watching
<1>4. Confident(c, h) \in 0..Full BY <1>1, ConfidentFacts
<1>5. health' \in [Comps -> Int] BY <1>1 DEF Typed
<1>6. confidence' \in [Comps -> 0..Full]
  <2> DEFINE new == Confident(c, h)
  <2> HIDE DEF new
  <2>1. confidence' = [confidence EXCEPT ![c] = new] /\ new \in 0..Full
    BY <1>1, <1>4 DEF new
  <2>2. QED BY <2>1 DEF Typed
<1>7. jobs' \in Seq(Tasks) /\ OnlyWaits(jobs)'
  <2>1. CASE t = None
    <3>1. jobs' = jobs BY <1>2, <2>1
    <3>2. QED BY <3>1 DEF Typed, Locked, OnlyWaits
  <2>2. CASE t # None
    <3>1. <<"VALUE", h>> \in Results BY <1>1, TaskFacts
    <3>2. Todo("result", t, Base, <<"VALUE", h>>) \in Tasks
      BY <1>3, <2>2, <3>1, TaskFacts DEF AboutTests
    <3>3. Todo("result", t, Base, <<"VALUE", h>>)[1] \in Waits BY DEF Todo, Waits
    <3>4. QED BY <1>2, <2>2, <3>2, <3>3, JobKeeps
  <2>3. QED BY <2>1, <2>2
<1>8. UNCHANGED <<setup, type, last, count, memory, actionRun, cause, acted, due>>
  BY DEF CompHealth, rules, blame
<1>9. QED BY <1>5, <1>6, <1>7, <1>8, CompHealthFacts, ProceedKeeps DEF Typed

LEMMA NextKeeps == Kept /\ [Next]_vars => Kept'
<1> SUFFICES ASSUME Kept, [Next]_vars PROVE Kept'
  OBVIOUS
<1>1. ASSUME NEW w \in Workers, Take(w) PROVE Kept' BY <1>1, TakeKeeps
<1>2. ASSUME NEW w \in Workers, Step(w) PROVE Kept'
  BY <1>2, TestResultKeeps, TestResultRciKeeps, ProcessInputKeeps, RuleRunKeeps,
     RuleRunRciKeeps, RuleResultToldKeeps, RciRunKeeps, RootCauseKeeps, ActionEndKeeps
     DEF Step
<1>3. ASSUME NEW w \in Threads, CompHealth(w) PROVE Kept' BY <1>3, CompHealthKeeps
<1>4. ASSUME NEW t \in Tests, NEW i \in Names, Poll(t, i) \/ Redo(t, i) PROVE Kept'
  BY <1>4, PollRedoKeeps
<1>5. ASSUME NEW t \in Tests, NEW i \in Names, NEW result \in S.given[t],
             Notify(t, i, result)
      PROVE  Kept'
  BY <1>5, NotifyKeeps
<1>6. ASSUME NEW r \in Rules, NEW new \in NewTypes, RuleSetType(r, new) PROVE Kept'
  BY <1>6, RuleSetTypeKeeps
<1>7. ASSUME NEW c \in Comps, NEW h \in {0, Full}, HealthSet(c, h) PROVE Kept'
  BY <1>7, HealthSetKeeps
<1>8. CASE UNCHANGED vars
  BY <1>8 DEF Kept, Typed, Locked, OnlyWaits, vars, rules, blame, comps, threads
<1>9. QED BY <1>1, <1>2, <1>3, <1>4, <1>5, <1>6, <1>7, <1>8 DEF Next

(* Whatever a step does, it leaves a state that the program may be in:     *)
(* confidence, above all, between none and full, and what is on a stack or *)
(* in the queue about a test, a rule or a component as it must be.         *)
THEOREM TypeCorrect == Spec => []TypeOK
<1>1. Init => Kept BY StartsKept
<1>2. Kept /\ [Next]_vars => Kept' BY NextKeeps
<1>3. Kept => TypeOK BY TypedIsTyped DEF Kept
<1>4. QED BY <1>1, <1>2, <1>3, PTL DEF Spec

-----------------------------------------------------------------------------
(* An action is begun but once *)

(* An instance whose action was begun since it last passed says so, in the *)
(* flag that a root cause looks at and sets in one step                    *)
ActedIsMarked ==
    /\ acted \in [Instances -> 0..1]
    /\ \A x \in Instances : acted[x] = 1 => x \in actionRun

LEMMA StartsMarked == Init => ActedIsMarked
BY DEF Init, ActedIsMarked, Instances

(* A pass takes the flag and the count away together. *)
LEMMA ToldKeepsMarks ==
    ASSUME ActedIsMarked, NEW w, RuleResultTold(w)
    PROVE  ActedIsMarked'
<1> DEFINE y == <<Top(w)[2], Top(w)[3]>>
<1>1. \/ UNCHANGED <<actionRun, acted>>
      \/ actionRun' = actionRun \ {y} /\ acted' = [acted EXCEPT ![y] = 0]
  BY DEF RuleResultTold
<1> HIDE DEF y
<1>2. QED BY <1>1 DEF ActedIsMarked, Instances

(* Nothing is begun for an instance that is marked, and what is begun is   *)
(* marked.                                                                 *)
LEMMA RootCauseKeepsMarks ==
    ASSUME ActedIsMarked, NEW w, RootCause(w)
    PROVE  ActedIsMarked'
<1> DEFINE y == <<Top(w)[2], Top(w)[3]>>
<1>1. \/ UNCHANGED <<actionRun, acted>>
      \/ /\ y \notin actionRun
         /\ actionRun' = actionRun \cup {y}
         /\ acted' = [acted EXCEPT ![y] = IF @ = 2 THEN 2 ELSE @ + 1]
  BY DEF RootCause
<1> HIDE DEF y
<1>2. ASSUME y \notin actionRun, actionRun' = actionRun \cup {y},
             acted' = [acted EXCEPT ![y] = IF @ = 2 THEN 2 ELSE @ + 1]
      PROVE  ActedIsMarked'
  <2>1. \A x \in Instances : acted[x] \in 0..1 BY DEF ActedIsMarked
  <2>2. y \in Instances => acted[y] = 0 BY <1>2, <2>1 DEF ActedIsMarked
  <2>3. CASE y \in Instances
    <3>1. acted' = [x \in Instances |-> IF x = y THEN 1 ELSE acted[x]]
      <4> DEFINE next == IF acted[y] = 2 THEN 2 ELSE acted[y] + 1
      <4>1. next = 1 BY <2>2, <2>3
      <4>2. acted' = [acted EXCEPT ![y] = next] BY <1>2
      <4> HIDE DEF next
      <4>3. DOMAIN acted = Instances BY DEF ActedIsMarked
      <4>4. QED BY <4>1, <4>2, <4>3, Zenon
    <3>2. acted' \in [Instances -> 0..1] BY <2>1, <3>1
    <3>3. \A x \in Instances : acted'[x] = 1 => x \in actionRun'
      BY <1>2, <3>1 DEF ActedIsMarked
    <3>4. QED BY <3>2, <3>3 DEF ActedIsMarked, Instances
  <2>4. CASE y \notin Instances
    <3>1. acted' = acted BY <1>2, <2>4 DEF ActedIsMarked
    <3>2. QED BY <1>2, <2>4, <3>1 DEF ActedIsMarked
  <2>5. QED BY <2>3, <2>4
<1>3. CASE UNCHANGED <<actionRun, acted>>
  BY <1>3 DEF ActedIsMarked, Instances
<1>4. QED BY <1>1, <1>2, <1>3

(* However often a rule is blamed, and whichever worker is told so, its    *)
(* action is begun but once before the rule has passed again.              *)
THEOREM BegunOnce == Spec => []ActedOnce
<1>1. Init => ActedIsMarked BY StartsMarked
<1>2. ActedIsMarked /\ [Next]_vars => ActedIsMarked'
  <2> SUFFICES ASSUME ActedIsMarked, [Next]_vars PROVE ActedIsMarked'
    OBVIOUS
  <2>0. ASSUME UNCHANGED <<actionRun, acted>> PROVE ActedIsMarked'
    BY <2>0 DEF ActedIsMarked, Instances
  <2>1. ASSUME NEW w \in Workers, Take(w) PROVE ActedIsMarked'
    BY <2>0, <2>1 DEF Take, blame
  <2>2. ASSUME NEW w \in Workers, Step(w) PROVE ActedIsMarked'
    <3>1. CASE TestResultRci(w) BY <2>0, <3>1 DEF TestResultRci, blame
    <3>2. CASE ProcessInput(w) BY <2>0, <3>2 DEF ProcessInput, blame
    <3>3. CASE RuleRun(w) BY <2>0, <3>3 DEF RuleRun, blame
    <3>4. CASE RuleRunRci(w) BY <2>0, <3>4 DEF RuleRunRci, blame
    <3>5. CASE RuleResultTold(w) BY <3>5, ToldKeepsMarks
    <3>6. CASE RciRun(w) BY <2>0, <3>6 DEF RciRun
    <3>7. CASE RootCause(w) BY <3>7, RootCauseKeepsMarks
    <3>8. CASE \E result \in Gives(w) : TestResult(w, result)
      BY <2>0, <3>8 DEF TestResult, blame
    <3>9. CASE \E passed \in BOOLEAN : ActionEnd(w, passed)
      BY <2>0, <3>9 DEF ActionEnd, blame
    <3>10. QED
      BY <2>2, <3>1, <3>2, <3>3, <3>4, <3>5, <3>6, <3>7, <3>8, <3>9 DEF Step
  <2>3. ASSUME NEW w \in Threads, CompHealth(w) PROVE ActedIsMarked'
    BY <2>0, <2>3 DEF CompHealth, blame
  <2>4. ASSUME NEW t \in Tests, NEW i \in Names, Poll(t, i) \/ Redo(t, i)
        PROVE  ActedIsMarked'
    BY <2>0, <2>4 DEF Poll, Redo, blame
  <2>5. ASSUME NEW t \in Tests, NEW i \in Names, NEW result, Notify(t, i, result)
        PROVE  ActedIsMarked'
    BY <2>0, <2>5 DEF Notify, blame
  <2>6. ASSUME NEW r \in Rules, NEW new, RuleSetType(r, new) PROVE ActedIsMarked'
    BY <2>0, <2>6 DEF RuleSetType, blame
  <2>7. ASSUME NEW c \in Comps, NEW h, HealthSet(c, h) PROVE ActedIsMarked'
    BY <2>0, <2>7 DEF HealthSet, blame
  <2>8. CASE UNCHANGED vars BY <2>0, <2>8 DEF vars, blame
  <2>9. QED BY <2>1, <2>2, <2>3, <2>4, <2>5, <2>6, <2>7, <2>8 DEF Next
<1>3. ActedIsMarked => ActedOnce BY DEF ActedIsMarked, ActedOnce, Instances
<1>4. QED BY <1>1, <1>2, <1>3, PTL DEF Spec

-----------------------------------------------------------------------------
(* The steps, by what they do to results, healths and what there is to do  *)

(* One taken with the lock free, that changes no rule and no component *)
Calm ==
    /\ Free
    /\ \A x \in Instances : last'[x] = last[x]
    /\ UNCHANGED <<setup, health, confidence>>

(* One of the thread with the lock that changes none either, and neither   *)
(* is the run of a rule nor the health of a component                      *)
Passing(w) ==
    /\ lock = w /\ stack[w] # <<>> /\ Top(w)[1] \notin {"run", "health"}
    /\ UNCHANGED <<setup, type, last, health, confidence>>
    /\ \E todo \in Seq(Tasks) : Proceed(w, todo)

LEMMA TestChangesNoRule ==
    ASSUME Typed, NEW x \in Tests \X Names, NEW kind, StatsUpdate(x, kind)
    PROVE  \A y \in Instances : last'[y] = last[y]
<1>1. CASE kind \notin {"PASS", "FAIL"}
  <2>1. last' = last BY <1>1 DEF StatsUpdate
  <2>2. QED BY <2>1
<1>2. CASE kind \in {"PASS", "FAIL"}
  <2> DEFINE base == <<x[1], Base>>
             fresh == {y \in {x, base} : last[y] # kind
                                          /\ (y = x \/ kind = "FAIL" \/ BasePasses(x))}
  <2>1. last' = [y \in Places |-> IF y \in fresh THEN kind ELSE last[y]]
    BY <1>2 DEF StatsUpdate
  <2>2. \A y \in Instances : y \in Places /\ y \notin fresh
    <3>1. x[1] \in Tests /\ base[1] = x[1] OBVIOUS
    <3>2. \A y \in Instances : y[1] \in Rules /\ y \in Places
      BY DEF Instances, Places, Objs
    <3>3. \A y \in fresh : y[1] \in Tests BY <3>1
    <3> HIDE DEF fresh
    <3>4. QED BY <3>2, <3>3, NamesAssumption
  <2> HIDE DEF fresh
  <2>3. QED BY <2>1, <2>2
<1>3. QED BY <1>1, <1>2

LEMMA StepKinds ==
    ASSUME Kept, Next
    PROVE  \/ Calm
           \/ \E w \in Workers : Passing(w) \/ RuleRun(w)
           \/ \E w \in Threads : CompHealth(w)
<1> USE DEF Kept
<1>1. ASSUME NEW w \in Workers, NEW result \in Gives(w), TestResult(w, result) PROVE Calm
  <2>1. Doing(w, "test") \/ Doing(w, "result") BY DEF Gives
  <2>2. w \in Threads BY DEF Threads
  <2>3. Top(w)[2] \in Tests /\ Top(w)[3] \in Names
    BY <2>1, <2>2, DoingFacts DEF AboutTests
  <2>4. <<Top(w)[2], Top(w)[3]>> \in Tests \X Names BY <2>3
  <2>5. StatsUpdate(<<Top(w)[2], Top(w)[3]>>, result[1]) BY <1>1 DEF TestResult
  <2>6. \A y \in Instances : last'[y] = last[y] BY <2>4, <2>5, TestChangesNoRule
  <2>7. QED BY <1>1, <2>6 DEF TestResult, Calm, Free, comps
<1>2. ASSUME NEW w \in Workers, ProcessInput(w) PROVE Passing(w)
  <2>1. w \in Threads /\ (Doing(w, "process") \/ Doing(w, "reprocess"))
    BY <1>2 DEF ProcessInput, Threads
  <2>2. stack[w] # <<>> /\ Top(w)[1] \notin {"run", "health"} BY <2>1 DEF Doing
  <2>3. Processed(w) \in Seq(Tasks) /\ Proceed(w, Processed(w))
    BY <1>2, ProcessedFacts DEF ProcessInput, Processed
  <2>4. QED BY <1>2, <2>2, <2>3 DEF ProcessInput, Passing, rules, comps
<1>3. ASSUME NEW w \in Workers, RuleRunRci(w) PROVE Passing(w)
  <2>1. stack[w] # <<>> /\ Top(w)[1] \notin {"run", "health"}
    BY <1>3 DEF RuleRunRci, Doing
  <2>2. \E todo \in Seq(Tasks) : Proceed(w, todo) BY <1>3, RerunFacts
  <2>3. QED BY <1>3, <2>1, <2>2 DEF RuleRunRci, Passing, rules, comps
<1>4. ASSUME NEW w \in Workers, RuleResultTold(w) PROVE Passing(w)
  <2>1. stack[w] # <<>> /\ Top(w)[1] \notin {"run", "health"}
    BY <1>4 DEF RuleResultTold, Doing
  <2>2. \E todo \in Seq(Tasks) : Proceed(w, todo) BY <1>4, ToldFacts
  <2>3. QED BY <1>4, <2>1, <2>2 DEF RuleResultTold, Passing, rules, comps
<1>5. ASSUME NEW w \in Workers, RciRun(w) PROVE Passing(w)
  <2>1. stack[w] # <<>> /\ Top(w)[1] \notin {"run", "health"} BY <1>5 DEF RciRun, Doing
  <2>2. \E todo \in Seq(Tasks) : Proceed(w, todo) BY <1>5, SeqFacts DEF RciRun
  <2>3. QED BY <1>5, <2>1, <2>2 DEF RciRun, Passing, rules, comps
<1>6. ASSUME NEW w \in Workers, TestResultRci(w) \/ RootCause(w) PROVE Calm
  BY <1>6 DEF TestResultRci, RootCause, Calm, Free, rules, comps
<1>7. ASSUME NEW w \in Workers, NEW passed, ActionEnd(w, passed) PROVE Calm
  BY <1>7 DEF ActionEnd, Calm, Free, rules, comps
<1>8. ASSUME NEW w \in Workers, Take(w) PROVE Calm
  BY <1>8 DEF Take, Calm, Free, rules, comps
<1>9. ASSUME NEW t \in Tests, NEW i \in Names, Poll(t, i) \/ Redo(t, i) PROVE Calm
  BY <1>9 DEF Poll, Redo, Calm, Free, rules, comps
<1>10. ASSUME NEW t \in Tests, NEW i \in Names, NEW result, Notify(t, i, result)
       PROVE  Calm
  BY <1>10 DEF Notify, Calm, Free, rules, comps
<1>11. ASSUME NEW r \in Rules, NEW new, RuleSetType(r, new) PROVE Calm
  BY <1>11 DEF RuleSetType, Calm, Free, rules, comps
<1>12. ASSUME NEW c \in Comps, NEW h, HealthSet(c, h) PROVE Calm
  BY <1>12 DEF HealthSet, Calm, Free, rules, comps
<1>13. ASSUME NEW w \in Workers, Step(w)
       PROVE  Calm \/ Passing(w) \/ RuleRun(w)
  BY <1>13, <1>1, <1>2, <1>3, <1>4, <1>5, <1>6, <1>7 DEF Step
<1>14. QED BY <1>8, <1>9, <1>10, <1>11, <1>12, <1>13 DEF Next

(* What else there was to do stays so when a thread with the lock goes on. *)
LEMMA TasksStay ==
    ASSUME Kept, NEW w \in Threads, stack[w] # <<>>, lock = w,
           NEW todo \in Seq(Tasks), Proceed(w, todo)
    PROVE  /\ \A v \in Threads : \A k \in DOMAIN stack[v] :
                 (v = w /\ k = 1) \/ \E n \in DOMAIN stack'[v] : stack'[v][n] = stack[v][k]
           /\ \A k \in DOMAIN todo :
                 k \in DOMAIN stack'[w] /\ stack'[w][k] = todo[k]
<1>1. stack'[w] = todo \o Tail(stack[w]) /\ \A v \in Threads \ {w} : stack'[v] = stack[v]
  BY ProceedFacts DEF Kept
<1>2. stack[w] \in Seq(Tasks) BY DEF Kept, Typed
<1>3. \A k \in DOMAIN todo : k \in DOMAIN stack'[w] /\ stack'[w][k] = todo[k]
  BY <1>1, <1>2
<1>4. ASSUME NEW k \in DOMAIN stack[w], k # 1
      PROVE  \E n \in DOMAIN stack'[w] : stack'[w][n] = stack[w][k]
  <2> DEFINE n == Len(todo) + k - 1
  <2> DEFINE old == stack[w]
             new == todo \o Tail(old)
  <2>1. old \in Seq(Tasks) /\ old # <<>> /\ k \in DOMAIN old /\ k # 1 BY <1>2, <1>4
  <2> HIDE DEF old
  <2>2. Tail(old) \in Seq(Tasks) /\ k - 1 \in DOMAIN Tail(old) /\ Tail(old)[k - 1] = old[k]
    BY <2>1
  <2>3. n \in DOMAIN new /\ new[n] = Tail(old)[k - 1] BY <2>2
  <2>4. QED BY <1>1, <2>2, <2>3 DEF old
<1>5. QED BY <1>1, <1>3, <1>4

(* While the lock is free nothing is left to do but what waits for it. *)
LEMMA NothingLeft ==
    ASSUME Kept, Free, NEW w \in Threads, NEW k \in DOMAIN stack[w]
    PROVE  stack[w][k][1] \notin {"run", "health"}
<1>1. lock # w BY NamesAssumption DEF Free
<1>2. QED BY <1>1 DEF Kept, Locked, OnlyWaits, Waits

-----------------------------------------------------------------------------
(* Health follows the rules *)

(* The health of c is still to be worked out. *)
HealthDue(c) ==
    \E w \in Threads : \E k \in DOMAIN stack[w] :
        stack[w][k][1] = "health" /\ stack[w][k][2] = c

(* The health of a component is right, or is still to be worked out. *)
HealthKnown == \A c \in Comps : health[c] = Full - Lost(c) \/ HealthDue(c)

LEMMA HealthDueStays ==
    ASSUME Kept, NEW w \in Threads, stack[w] # <<>>, lock = w,
           NEW todo \in Seq(Tasks), Proceed(w, todo), NEW c, HealthDue(c)
    PROVE  HealthDue(c)' \/ (Top(w)[1] = "health" /\ Top(w)[2] = c)
<1>0. PICK v \in Threads : \E k \in DOMAIN stack[v] :
         stack[v][k][1] = "health" /\ stack[v][k][2] = c
  BY DEF HealthDue
<1>1. PICK k \in DOMAIN stack[v] : stack[v][k][1] = "health" /\ stack[v][k][2] = c
  BY <1>0
<1>2. CASE v = w /\ k = 1 BY <1>1, <1>2 DEF Top
<1>3. CASE ~ (v = w /\ k = 1)
  <2>1. \E n \in DOMAIN stack'[v] : stack'[v][n] = stack[v][k] BY <1>3, TasksStay
  <2>2. QED BY <1>1, <2>1 DEF HealthDue
<1>4. QED BY <1>2, <1>3

LEMMA StartsHealthy == Init => HealthKnown
<1> SUFFICES ASSUME Init, NEW c \in Comps PROVE health[c] = Full - Lost(c)
  BY DEF HealthKnown
<1>1. Typed BY StartsKept DEF Kept
<1>2. Failing(c) = {}
  <2>1. \A r \in Rules : last[<<r, Base>>] = "PASS"
    BY DEF Init, Places, Objs, Names
  <2>2. QED BY <2>1 DEF Failing
<1>3. SumFunctionOnSet(S.severity, Failing(c)) = 0 BY <1>1, <1>2, LostFacts, SumSplits
<1> DEFINE short == [k \in Comps |-> Full - health[k]]
<1>4. SumFunctionOnSet(short, Within(c)) = 0
  <2>1. \A k \in Within(c) : short[k] = 0 /\ short[k] \in Int
    BY NumbersAssumption DEF Init, Within
  <2>2. IsFiniteSet(Within(c)) BY <1>1, LostFacts
  <2> HIDE DEF short
  <2>3. QED BY <2>1, <2>2, SumFacts
<1>5. Lost(c) = 0 BY <1>3, <1>4 DEF Lost
<1>6. QED BY <1>5, NumbersAssumption DEF Init

(* What a component has lost depends on the rules and components in it. *)
LEMMA SameLost ==
    ASSUME Kept, UNCHANGED setup, NEW c \in Comps,
           \A r \in Rules : S.home[r] = c => last'[<<r, Base>>] = last[<<r, Base>>],
           \A k \in Within(c) : health'[k] = health[k]
    PROVE  Lost(c)' = Lost(c)
<1>1. S' = S BY DEF S
<1>2. Failing(c)' = Failing(c) BY <1>1 DEF Failing
<1>3. Within(c)' = Within(c) BY <1>1 DEF Within
<1> DEFINE old == [k \in Comps |-> Full - health[k]]
           new == [k \in Comps |-> Full - health'[k]]
<1>4. \A k \in Within(c) : new[k] = old[k] BY DEF Within
<1>5. IsFiniteSet(Within(c)) BY LostFacts DEF Kept
<1>6. Lost(c) = SumFunctionOnSet(S.severity, Failing(c)) + SumFunctionOnSet(old, Within(c))
  BY DEF Lost
<1>7. Lost(c)' = SumFunctionOnSet(S.severity, Failing(c)) + SumFunctionOnSet(new, Within(c))
  BY <1>1, <1>2, <1>3 DEF Lost
<1> HIDE DEF old, new
<1>8. SumFunctionOnSet(new, Within(c)) = SumFunctionOnSet(old, Within(c))
  BY <1>4, <1>5, SumsEqual
<1>9. QED BY <1>6, <1>7, <1>8

(* The run of an instance changes last results of its own and its base,    *)
(* and the health of its component is due when that of the base changes.   *)
LEMMA RunChanges ==
    ASSUME Kept, NEW w \in Workers, RuleRun(w),
           NEW r \in Rules, last'[<<r, Base>>] # last[<<r, Base>>],
           NEW c \in Comps, S.home[r] = c
    PROVE  HealthDue(c)'
<1> DEFINE x == <<Top(w)[2], Top(w)[3]>>
           kind == RuleResult(x, Top(w)[4])
           base == <<Top(w)[2], Base>>
           again == {y \in {x, base} : last[y] = kind}
           fresh == {y \in {x, base} : last[y] # kind
                                        /\ (y = x \/ kind = "FAIL" \/ BasePasses(x))}
<1>1. w \in Threads /\ lock = w /\ stack[w] # <<>> /\ RunTodo(w) \in Seq(Tasks)
      /\ Proceed(w, RunTodo(w)) /\ Top(w)[2] \in Rules
  BY RuleRunFacts
<1>2. StatsUpdate(x, kind) BY DEF RuleRun
<1> HIDE DEF kind
<1>3. kind \in {"PASS", "FAIL"}
      /\ last' = [y \in Places |-> IF y \in fresh THEN kind ELSE last[y]]
      /\ count' = [y \in Rules \X Names |-> IF y \in again THEN 2
                                    ELSE IF y \in fresh THEN 1 ELSE count[y]]
  BY <1>2 DEF StatsUpdate
<1>4. <<r, Base>> \in Places /\ <<r, Base>> \in Rules \X Names
  BY TaskFacts DEF Places, Objs
<1>5. <<r, Base>> \in fresh
  <2> HIDE DEF fresh
  <2>1. QED BY <1>3, <1>4
<1>6. r = Top(w)[2] /\ <<r, Base>> \notin again /\ <<r, Base>> = base BY <1>5
<1>7. count'[base] = 1
  <2> HIDE DEF again, fresh
  <2>1. QED BY <1>3, <1>4, <1>5, <1>6
<1>8. HealthTodo(r, kind) = <<Todo("health", c, Base, <<"VALUE", S.severity[r]>>)>>
  <2>1. S.home[r] # None BY NamesAssumption
  <2>2. count'[<<r, Base>>] = 1 BY <1>6, <1>7
  <2>3. ~ (count'[<<r, Base>>] > 1) BY <2>2
  <2> HIDE DEF base, fresh, again, x
  <2>4. S.home[r] # None /\ ~ (~ (count'[<<r, Base>>] > 1) /\ kind \notin {"PASS", "FAIL"})
    BY <1>3, <2>1
  <2>5. QED BY <2>3, <2>4 DEF HealthTodo
<1>9. RunTodo(w) = HealthTodo(r, kind) \o <<Todo("told", r, Top(w)[3], <<kind, 0>>)>>
  BY <1>6 DEF RunTodo, kind
<1>10. 1 \in DOMAIN RunTodo(w) /\ RunTodo(w)[1][1] = "health" /\ RunTodo(w)[1][2] = c
  BY <1>8, <1>9 DEF Todo
<1>11. 1 \in DOMAIN stack'[w] /\ stack'[w][1] = RunTodo(w)[1] BY <1>1, <1>10, TasksStay
<1>12. QED BY <1>1, <1>10, <1>11 DEF HealthDue

LEMMA RunKeepsHealth ==
    ASSUME Kept, HealthKnown, NEW w \in Workers, RuleRun(w)
    PROVE  HealthKnown'
<1> SUFFICES ASSUME NEW c \in Comps PROVE (health[c] = Full - Lost(c))' \/ HealthDue(c)'
  BY DEF HealthKnown
<1>1. w \in Threads /\ lock = w /\ stack[w] # <<>> /\ Top(w)[1] = "run"
      /\ RunTodo(w) \in Seq(Tasks) /\ Proceed(w, RunTodo(w))
  BY RuleRunFacts
<1>2. UNCHANGED <<setup, health>> BY DEF RuleRun, comps
<1>3. CASE HealthDue(c) BY <1>1, <1>3, HealthDueStays
<1>4. CASE health[c] = Full - Lost(c)
  <2>1. CASE \E r \in Rules : S.home[r] = c /\ last'[<<r, Base>>] # last[<<r, Base>>]
    <3>1. HealthDue(c)' BY <2>1, RunChanges
    <3>2. QED BY <3>1
  <2>2. CASE \A r \in Rules : S.home[r] = c => last'[<<r, Base>>] = last[<<r, Base>>]
    <3>1. Lost(c)' = Lost(c) BY <1>2, <2>2, SameLost
    <3>2. QED BY <1>2, <1>4, <3>1
  <2>3. QED BY <2>1, <2>2
<1>5. QED BY <1>3, <1>4 DEF HealthKnown

LEMMA CompKeepsHealth ==
    ASSUME Kept, HealthKnown, NEW w \in Threads, CompHealth(w)
    PROVE  HealthKnown'
<1> SUFFICES ASSUME NEW c \in Comps PROVE (health[c] = Full - Lost(c))' \/ HealthDue(c)'
  BY DEF HealthKnown
<1> DEFINE k == Top(w)[2]
<1>1. lock = w /\ stack[w] # <<>> /\ Top(w)[1] = "health" /\ k \in Comps
      /\ HealthyTodo(w) \in Seq(Tasks) /\ Proceed(w, HealthyTodo(w))
      /\ health' = [health EXCEPT ![k] = Full - Lost(k)]
  BY CompHealthFacts
<1>2. UNCHANGED <<setup, last>> BY DEF CompHealth, rules
<1>3. health'[k] = Full - Lost(k) /\ \A j \in Comps \ {k} : health'[j] = health[j]
  BY <1>1 DEF Kept, Typed
<1>4. CASE S.home[k] = c
  <2>1. c # None BY NamesAssumption
  <2>2. HealthyTodo(w) = <<Todo("health", c, Base, Top(w)[4])>>
    BY <1>4, <2>1 DEF HealthyTodo
  <2>3. 1 \in DOMAIN HealthyTodo(w) /\ HealthyTodo(w)[1][1] = "health"
        /\ HealthyTodo(w)[1][2] = c
    BY <2>2 DEF Todo
  <2>4. 1 \in DOMAIN stack'[w] /\ stack'[w][1] = HealthyTodo(w)[1] BY <1>1, <2>3, TasksStay
  <2>5. QED BY <2>3, <2>4 DEF HealthDue
<1>5. CASE S.home[k] # c
  <2>1. Lost(c)' = Lost(c)
    <3>1. \A j \in Within(c) : j \in Comps \ {k} BY <1>5 DEF Within
    <3>2. QED BY <1>2, <1>3, <3>1, SameLost
  <2>2. CASE c = k BY <1>3, <2>1, <2>2
  <2>3. CASE c # k
    <3>1. health'[c] = health[c] BY <1>3, <2>3
    <3>2. CASE health[c] = Full - Lost(c) BY <2>1, <3>1, <3>2
    <3>3. CASE HealthDue(c) BY <1>1, <2>3, <3>3, HealthDueStays
    <3>4. QED BY <3>2, <3>3 DEF HealthKnown
  <2>4. QED BY <2>2, <2>3
<1>6. QED BY <1>4, <1>5

LEMMA NextKeepsHealth == Kept /\ HealthKnown /\ [Next]_vars => HealthKnown'
<1> SUFFICES ASSUME Kept, HealthKnown, [Next]_vars PROVE HealthKnown'
  OBVIOUS
<1>1. CASE Calm
  <2> SUFFICES ASSUME NEW c \in Comps PROVE (health[c] = Full - Lost(c))'
    BY DEF HealthKnown
  <2>1. health[c] = Full - Lost(c) BY <1>1, NothingLeft DEF HealthKnown, HealthDue, Calm
  <2>2. \A r \in Rules : last'[<<r, Base>>] = last[<<r, Base>>]
    BY <1>1, TaskFacts DEF Calm, Instances
  <2>3. Lost(c)' = Lost(c) BY <1>1, <2>2, SameLost DEF Calm
  <2>4. QED BY <1>1, <2>1, <2>3 DEF Calm
<1>2. ASSUME NEW w \in Workers, Passing(w) PROVE HealthKnown'
  <2> SUFFICES ASSUME NEW c \in Comps
               PROVE (health[c] = Full - Lost(c))' \/ HealthDue(c)'
    BY DEF HealthKnown
  <2>1. w \in Threads BY DEF Threads
  <2>2. PICK todo \in Seq(Tasks) : Proceed(w, todo) BY <1>2 DEF Passing
  <2>3. CASE HealthDue(c) BY <1>2, <2>1, <2>2, <2>3, HealthDueStays DEF Passing
  <2>4. CASE health[c] = Full - Lost(c)
    <3>1. Lost(c)' = Lost(c) BY <1>2, SameLost DEF Passing
    <3>2. QED BY <1>2, <2>4, <3>1 DEF Passing
  <2>5. QED BY <2>3, <2>4 DEF HealthKnown
<1>3. ASSUME NEW w \in Workers, RuleRun(w) PROVE HealthKnown' BY <1>3, RunKeepsHealth
<1>4. ASSUME NEW w \in Threads, CompHealth(w) PROVE HealthKnown' BY <1>4, CompKeepsHealth
<1>5. CASE UNCHANGED vars
  <2> SUFFICES ASSUME NEW c \in Comps
               PROVE (health[c] = Full - Lost(c))' \/ HealthDue(c)'
    BY DEF HealthKnown
  <2>1. UNCHANGED <<setup, last, health, stack>>
    BY <1>5 DEF vars, rules, comps, threads
  <2>2. Lost(c)' = Lost(c) BY <2>1, SameLost
  <2>3. QED BY <2>1, <2>2 DEF HealthKnown, HealthDue
<1>6. QED BY <1>1, <1>2, <1>3, <1>4, <1>5, StepKinds

(* Once the lock is free the health of every component is what its rules   *)
(* and members make it, however deep in it the last change was.            *)
THEOREM HealthRight == Spec => []HealthFollowsRules
<1>1. Init => Kept /\ HealthKnown BY StartsKept, StartsHealthy
<1>2. (Kept /\ HealthKnown) /\ [Next]_vars => (Kept /\ HealthKnown)'
  BY NextKeeps, NextKeepsHealth
<1>3. Kept /\ HealthKnown => HealthFollowsRules
  BY NothingLeft DEF HealthKnown, HealthDue, HealthFollowsRules
<1>4. QED BY <1>1, <1>2, <1>3, PTL DEF Spec

-----------------------------------------------------------------------------
(* The base of a rule follows its members *)

(* A run of a base is of an instance the rule has, and is followed by runs *)
(* of all its members with the same result.                                *)
Together(q) ==
    \A k \in DOMAIN q : q[k][1] = "run" =>
        /\ q[k][3] \in Has(q[k][2])
        /\ q[k][3] = Base =>
             \A j \in Members(q[k][2]) :
                \E n \in DOMAIN q : n > k /\ q[n] = Todo("run", q[k][2], j, q[k][4])

RunsTogether == \A w \in Threads : Together(stack[w])

LEMMA TogetherJoins ==
    ASSUME NEW p \in Seq(Tasks), NEW q \in Seq(Tasks), Together(p), Together(q)
    PROVE  Together(p \o q)
<1> DEFINE all == p \o q
<1>1. ASSUME NEW k \in DOMAIN all, all[k][1] = "run"
      PROVE  /\ all[k][3] \in Has(all[k][2])
             /\ all[k][3] = Base =>
                  \A j \in Members(all[k][2]) :
                     \E n \in DOMAIN all : n > k /\ all[n] = Todo("run", all[k][2], j, all[k][4])
  <2>1. CASE k \in DOMAIN p
    <3>1. all[k] = p[k] BY <2>1
    <3>2. \A n \in DOMAIN p : n \in DOMAIN all /\ all[n] = p[n] OBVIOUS
    <3> HIDE DEF all
    <3>3. QED BY <1>1, <2>1, <3>1, <3>2 DEF Together
  <2>2. CASE k \notin DOMAIN p
    <3> DEFINE m == k - Len(p)
    <3>1. m \in DOMAIN q /\ all[k] = q[m] /\ k = m + Len(p) BY <2>2
    <3>2. \A n \in DOMAIN q : n + Len(p) \in DOMAIN all /\ all[n + Len(p)] = q[n] OBVIOUS
    <3>3. q[m][3] \in Has(q[m][2])
          /\ (q[m][3] = Base =>
                \A j \in Members(q[m][2]) :
                   \E n \in DOMAIN q : n > m /\ q[n] = Todo("run", q[m][2], j, q[m][4]))
      BY <1>1, <3>1 DEF Together
    <3>4. \A n \in DOMAIN q : n > m => n + Len(p) > k BY <3>1
    <3> HIDE DEF all, m
    <3>5. ASSUME all[k][3] = Base, NEW j \in Members(all[k][2])
          PROVE  \E n \in DOMAIN all : n > k /\ all[n] = Todo("run", all[k][2], j, all[k][4])
      <4>1. PICK n \in DOMAIN q : n > m /\ q[n] = Todo("run", q[m][2], j, q[m][4])
        BY <3>1, <3>3, <3>5
      <4>2. n + Len(p) \in DOMAIN all /\ n + Len(p) > k
            /\ all[n + Len(p)] = Todo("run", all[k][2], j, all[k][4])
        BY <3>1, <3>2, <3>4, <4>1
      <4>3. QED BY <4>2
    <3>6. QED BY <3>1, <3>3, <3>5
  <2>3. QED BY <2>1, <2>2
<1> HIDE DEF all
<1>2. Together(all) BY <1>1 DEF Together
<1>3. QED BY <1>2 DEF all

LEMMA TogetherLeaves ==
    ASSUME NEW q \in Seq(Tasks), q # <<>>, Together(q)
    PROVE  Together(Tail(q))
<1> DEFINE rest == Tail(q)
<1>1. rest \in Seq(Tasks)
      /\ \A k \in DOMAIN rest : k + 1 \in DOMAIN q /\ rest[k] = q[k + 1] /\ k \in Nat
  OBVIOUS
<1>2. \A n \in DOMAIN q : n > 1 => n - 1 \in DOMAIN rest /\ rest[n - 1] = q[n] OBVIOUS
<1> HIDE DEF rest
<1>3. ASSUME NEW k \in DOMAIN rest, rest[k][1] = "run"
      PROVE  /\ rest[k][3] \in Has(rest[k][2])
             /\ rest[k][3] = Base =>
                  \A j \in Members(rest[k][2]) :
                     \E n \in DOMAIN rest :
                        n > k /\ rest[n] = Todo("run", rest[k][2], j, rest[k][4])
  <2> DEFINE m == k + 1
  <2>1. m \in DOMAIN q /\ rest[k] = q[m] /\ m \in Nat /\ k = m - 1 /\ k \in Nat /\ k >= 1
    BY <1>1
  <2>2. \A n \in DOMAIN q : n > m => n > 1 /\ n - 1 > k BY <2>1
  <2>3. q[m][3] \in Has(q[m][2])
        /\ (q[m][3] = Base =>
              \A j \in Members(q[m][2]) :
                 \E n \in DOMAIN q : n > m /\ q[n] = Todo("run", q[m][2], j, q[m][4]))
    BY <1>3, <2>1 DEF Together
  <2> HIDE DEF m
  <2>4. ASSUME rest[k][3] = Base, NEW j \in Members(rest[k][2])
        PROVE  \E n \in DOMAIN rest :
                  n > k /\ rest[n] = Todo("run", rest[k][2], j, rest[k][4])
    <3>1. PICK n \in DOMAIN q : n > m /\ q[n] = Todo("run", q[m][2], j, q[m][4])
      BY <2>1, <2>3, <2>4
    <3>2. n - 1 \in DOMAIN rest /\ n - 1 > k
          /\ rest[n - 1] = Todo("run", rest[k][2], j, rest[k][4])
      BY <1>2, <2>1, <2>2, <3>1
    <3>3. QED BY <3>2
  <2>5. QED BY <2>1, <2>3, <2>4
<1>4. Together(rest) BY <1>3 DEF Together
<1>5. QED BY <1>4 DEF rest

(* Things to do without a run among them *)
NoRun(q) == \A k \in DOMAIN q : q[k][1] # "run"

LEMMA NoRunTogether == \A q : NoRun(q) => Together(q)
BY DEF NoRun, Together

(* A result goes to the base and then to all members, or to one member. *)
LEMMA EachTogether ==
    ASSUME Kept, NEW what \in AboutRules, NEW r \in Rules, NEW i \in Names,
           NEW result \in Results
    PROVE  Together(Each(what, r, Reaches(r, i), result))
<1> DEFINE is == Reaches(r, i)
           each == Each(what, r, is, result)
<1>1. setup \in DOMAIN Setups /\ r \in Objs /\ S.insts[r] \in Seq(Insts)
  BY SetupFacts DEF Kept, Typed, Objs
<1>2. is \in Seq(Names) /\ \A k \in DOMAIN is : is[k] \in Has(r) BY <1>1, ReachesFacts
<1>3. each \in Seq(Tasks) /\ Len(each) = Len(is)
      /\ \A k \in DOMAIN is : each[k] = Todo(what, r, is[k], result)
  <2> HIDE DEF is
  <2>1. QED BY <1>1, <1>2, EachFacts
<1>4. \A k \in DOMAIN is : is[k] = Base =>
         \A j \in Members(r) : \E n \in DOMAIN is : n > k /\ is[n] = j
  <2>1. CASE Instance(r, i) # Base
    <3>1. is = <<i>> /\ i # Base BY <1>1, <2>1, InstanceFacts DEF Reaches
    <3>2. \A k \in DOMAIN is : is[k] # Base BY <3>1
    <3>3. QED BY <3>2
  <2>2. CASE Instance(r, i) = Base
    <3> DEFINE insts == S.insts[r]
    <3>1. is = <<Base>> \o insts /\ insts \in Seq(Insts) BY <1>1, <2>2 DEF Reaches
    <3>2. \A j \in Members(r) : \E n \in DOMAIN insts : insts[n] = j
      BY <1>1, InstanceFacts
    <3> HIDE DEF insts, is
    <3>3. \A n \in DOMAIN insts : n + 1 \in DOMAIN is /\ is[n + 1] = insts[n]
                                  /\ n + 1 > 1 /\ insts[n] # Base
      BY <3>1, NamesAssumption
    <3>4. \A k \in DOMAIN is : k = 1 \/ \E n \in DOMAIN insts : is[k] = insts[n]
      BY <3>1
    <3>5. \A k \in DOMAIN is : is[k] = Base => k = 1 BY <3>3, <3>4
    <3>6. QED BY <3>2, <3>3, <3>5
  <2>3. QED BY <2>1, <2>2
<1>5. DOMAIN each = DOMAIN is BY <1>2, <1>3
<1> HIDE DEF each, is
<1>6. \A k \in DOMAIN each : each[k][2] = r /\ each[k][3] = is[k] /\ each[k][4] = result
                             /\ each[k][1] = what
  BY <1>3, <1>5 DEF Todo
<1>7. ASSUME NEW k \in DOMAIN each, each[k][1] = "run"
      PROVE  /\ each[k][3] \in Has(each[k][2])
             /\ each[k][3] = Base =>
                  \A j \in Members(each[k][2]) :
                     \E n \in DOMAIN each :
                        n > k /\ each[n] = Todo("run", each[k][2], j, each[k][4])
  BY <1>2, <1>3, <1>4, <1>5, <1>6, <1>7
<1>8. Together(each) BY <1>7 DEF Together
<1>9. QED BY <1>8 DEF each, is

LEMMA ProcessNoRun ==
    ASSUME NEW what \in {"process", "reprocess"}, NEW r, NEW i, NEW result
    PROVE  NoRun(Process(what, r, i, result))
BY DEF NoRun, Process, Todo

(* A step of w that does first what is together leaves it so. *)
LEMMA ProceedTogether ==
    ASSUME Kept, RunsTogether, NEW w \in Threads, stack[w] # <<>>, lock \in {w, None},
           NEW todo \in Seq(Tasks), Proceed(w, todo), Together(todo), UNCHANGED setup
    PROVE  RunsTogether'
<1>1. stack'[w] = todo \o Tail(stack[w]) /\ \A v \in Threads \ {w} : stack'[v] = stack[v]
  BY ProceedFacts DEF Kept
<1>2. stack[w] \in Seq(Tasks) /\ Tail(stack[w]) \in Seq(Tasks)
  BY TopFacts DEF Kept, Typed
<1>3. Together(stack'[w]) BY <1>1, <1>2, TogetherJoins, TogetherLeaves DEF RunsTogether
<1>4. \A v \in Threads : Together(stack'[v]) BY <1>1, <1>3 DEF RunsTogether
<1>5. S' = S BY DEF S
<1>6. \A o : Has(o)' = Has(o) /\ Members(o)' = Members(o) BY <1>5 DEF Has, Members
<1>7. QED BY <1>4, <1>6 DEF RunsTogether, Together

(* No thread without the lock has a run to do. *)
LEMMA NoneTogether ==
    ASSUME Kept', \A w \in Threads : lock' # w \/ NoRun(stack'[w])
    PROVE  RunsTogether'
<1>1. ASSUME NEW w \in Threads PROVE NoRun(stack'[w])
  <2>1. CASE lock' # w
    <3>1. OnlyWaits(stack'[w]) BY <2>1 DEF Kept, Locked, OnlyWaits
    <3>2. QED BY <3>1 DEF OnlyWaits, Waits, NoRun
  <2>2. QED BY <2>1
<1>2. QED BY <1>1 DEF RunsTogether, Together, NoRun

LEMMA FreeTogether ==
    ASSUME Kept', lock' = None
    PROVE  RunsTogether'
BY NamesAssumption, NoneTogether

LEMMA NextTogether ==
    ASSUME Kept, Kept', RunsTogether, Next
    PROVE  RunsTogether'
<1>1. ASSUME NEW w \in Workers, NEW result \in Gives(w), TestResult(w, result)
      PROVE  RunsTogether'
  <2> DEFINE todo == Process("process", S.first[Top(w)[2]], Top(w)[3], result)
  <2>1. w \in Threads /\ (Doing(w, "test") \/ Doing(w, "result")) BY DEF Gives, Threads
  <2>2. stack[w] # <<>> /\ Top(w)[2] \in Tests /\ Top(w)[3] \in Names
        /\ Top(w)[4] \in Results
    BY <2>1, DoingFacts DEF AboutTests, Kept
  <2>3. S.given[Top(w)[2]] \subseteq Results /\ S.first[Top(w)[2]] \in Rules \cup {None}
    BY <2>2, SetupFacts DEF Kept, Typed
  <2>4. result \in Results BY <2>2, <2>3 DEF Gives
  <2>5. todo \in Seq(Tasks) /\ Together(todo)
    BY <2>2, <2>3, <2>4, ProcessFacts, ProcessNoRun, NoRunTogether
  <2>6. lock = None /\ Proceed(w, todo) /\ UNCHANGED setup BY <1>1 DEF TestResult
  <2> HIDE DEF todo
  <2>7. QED BY <2>1, <2>2, <2>5, <2>6, ProceedTogether
<1>2. ASSUME NEW w \in Workers, TestResultRci(w) PROVE RunsTogether'
  <2> DEFINE todo == Process("reprocess", S.first[Top(w)[2]], Top(w)[3], Top(w)[4])
  <2>1. w \in Threads /\ Doing(w, "redo") BY <1>2 DEF TestResultRci, Threads
  <2>2. stack[w] # <<>> /\ Top(w)[2] \in Tests /\ Top(w)[3] \in Names
        /\ Top(w)[4] \in Results
    BY <2>1, DoingFacts DEF AboutTests, Kept
  <2>3. S.first[Top(w)[2]] \in Rules \cup {None} BY <2>2, SetupFacts DEF Kept, Typed
  <2>4. todo \in Seq(Tasks) /\ Together(todo)
    BY <2>2, <2>3, ProcessFacts, ProcessNoRun, NoRunTogether
  <2>5. lock = None /\ Proceed(w, todo) /\ UNCHANGED setup BY <1>2 DEF TestResultRci
  <2> HIDE DEF todo
  <2>6. QED BY <2>1, <2>2, <2>4, <2>5, ProceedTogether
<1>3. ASSUME NEW w \in Workers, ProcessInput(w) PROVE RunsTogether'
  <2>1. w \in Threads /\ lock = w /\ stack[w] # <<>>
        /\ Top(w)[1] \in {"process", "reprocess"} /\ Top(w)[2] \in Rules
        /\ Top(w)[3] \in Names /\ Top(w)[4] \in Results
        /\ Processed(w) \in Seq(Tasks) /\ Proceed(w, Processed(w)) /\ UNCHANGED setup
    BY <1>3, ProcessedFacts DEF ProcessInput
  <2> DEFINE what == IF Top(w)[4][1] = "ABORT" THEN "rci"
                     ELSE IF Doing(w, "process") THEN "run" ELSE "rerun"
             each == Each(what, Top(w)[2], Reaches(Top(w)[2], Top(w)[3]), Top(w)[4])
             next == Process(Top(w)[1], S.next[Top(w)[2]], Top(w)[3], Top(w)[4])
  <2>2. what \in AboutRules BY DEF AboutRules
  <2>3. setup \in DOMAIN Setups /\ S.next[Top(w)[2]] \in Rules \cup {None}
    BY <2>1, SetupFacts DEF Kept, Typed
  <2>4. next \in Seq(Tasks) /\ Together(next)
    BY <2>1, <2>3, ProcessFacts, ProcessNoRun, NoRunTogether
  <2>5. Processed(w) = each \o next BY DEF Processed
  <2>6. Reaches(Top(w)[2], Top(w)[3]) \in Seq(Names) BY <2>1, <2>3, ReachesFacts
  <2> HIDE DEF what, next
  <2>7. each \in Seq(Tasks) /\ Together(each)
    BY <2>1, <2>2, <2>3, <2>6, EachFacts, EachTogether
  <2> HIDE DEF each
  <2>8. Together(Processed(w)) BY <2>4, <2>5, <2>7, TogetherJoins
  <2>9. QED BY <2>1, <2>8, ProceedTogether
<1>4. ASSUME NEW w \in Workers, RuleRun(w) PROVE RunsTogether'
  <2> DEFINE x == <<Top(w)[2], Top(w)[3]>>
             kind == RuleResult(x, Top(w)[4])
             told == Todo("told", x[1], x[2], <<kind, 0>>)
             due1 == HealthTodo(x[1], kind)
  <2>1. due1 = <<>> \/ \E home, v : due1 = <<Todo("health", home, Base, v)>>
    BY DEF HealthTodo
  <2>2. told[1] = "told" BY DEF Todo
  <2>3. RunTodo(w) = due1 \o <<told>> BY DEF RunTodo
  <2>4. RunTodo(w) \in Seq(Tasks) BY <1>4, RuleRunFacts
  <2> HIDE DEF due1, told
  <2>5. NoRun(RunTodo(w))
    <3>1. CASE due1 = <<>> BY <2>2, <2>3, <3>1 DEF NoRun
    <3>2. ASSUME NEW home, NEW v, due1 = <<Todo("health", home, Base, v)>>
          PROVE  NoRun(RunTodo(w))
      <4> DEFINE h == Todo("health", home, Base, v)
      <4>1. h[1] = "health" BY DEF Todo
      <4>2. RunTodo(w) = <<h>> \o <<told>> BY <2>3, <3>2
      <4> HIDE DEF h
      <4>3. QED BY <2>2, <4>1, <4>2 DEF NoRun
    <3>3. QED BY <2>1, <3>1, <3>2
  <2>6. UNCHANGED setup BY <1>4 DEF RuleRun
  <2>7. QED BY <1>4, <2>5, <2>6, RuleRunFacts, NoRunTogether, ProceedTogether
<1>5. ASSUME NEW w \in Workers, RuleRunRci(w) PROVE RunsTogether'
  <2>1. NoRun(RerunTodo(w)) BY DEF RerunTodo, NoRun, Todo
  <2>2. UNCHANGED setup BY <1>5 DEF RuleRunRci
  <2>3. QED BY <1>5, <2>1, <2>2, RerunFacts, NoRunTogether, ProceedTogether
<1>6. ASSUME NEW w \in Workers, RuleResultTold(w) PROVE RunsTogether'
  <2>1. NoRun(ToldTodo(w)) BY <1>6, ToldFacts DEF NoRun
  <2>2. UNCHANGED setup BY <1>6 DEF RuleResultTold
  <2>3. QED BY <1>6, <2>1, <2>2, ToldFacts, NoRunTogether, ProceedTogether
<1>7. ASSUME NEW w \in Workers, RciRun(w) PROVE RunsTogether'
  <2>1. NoRun(<<>>) /\ <<>> \in Seq(Tasks) BY SeqFacts DEF NoRun
  <2>2. w \in Threads /\ lock = w /\ stack[w] # <<>> /\ Proceed(w, <<>>) /\ UNCHANGED setup
    BY <1>7 DEF RciRun, Doing, Threads
  <2>3. QED BY <2>1, <2>2, NoRunTogether, ProceedTogether
<1>8. ASSUME NEW w \in Threads, CompHealth(w) PROVE RunsTogether'
  <2>1. NoRun(HealthyTodo(w)) BY DEF HealthyTodo, NoRun, Todo
  <2>2. UNCHANGED setup BY <1>8 DEF CompHealth
  <2>3. QED BY <1>8, <2>1, <2>2, CompHealthFacts, NoRunTogether, ProceedTogether
<1>9. ASSUME NEW w \in Workers, NEW passed, Take(w) \/ RootCause(w) \/ ActionEnd(w, passed)
      PROVE  RunsTogether'
  BY <1>9, FreeTogether DEF Take, RootCause, ActionEnd
<1>10. ASSUME NEW t \in Tests, NEW i \in Names, NEW result,
              Poll(t, i) \/ Redo(t, i) \/ Notify(t, i, result)
       PROVE  RunsTogether'
  BY <1>10, FreeTogether DEF Poll, Redo, Notify
<1>11. ASSUME NEW r \in Rules, NEW new, RuleSetType(r, new) PROVE RunsTogether'
  BY <1>11, FreeTogether DEF RuleSetType, threads
<1>12. ASSUME NEW c \in Comps, NEW h, HealthSet(c, h) PROVE RunsTogether'
  <2> DEFINE todo == Todo("health", c, Base, <<"VALUE", h - health[c]>>)
  <2>1. lock' = App /\ stack' = [stack EXCEPT ![App] = <<todo>>] BY <1>12 DEF HealthSet
  <2>2. todo[1] = "health" BY DEF Todo
  <2> HIDE DEF todo
  <2>3. stack'[App] = <<todo>> BY <2>1 DEF Kept, Typed, Threads
  <2>4. NoRun(stack'[App]) BY <2>2, <2>3 DEF NoRun
  <2>5. QED BY <2>1, <2>4, NoneTogether
<1>13. ASSUME NEW w \in Workers, Step(w) PROVE RunsTogether'
  BY <1>13, <1>1, <1>2, <1>3, <1>4, <1>5, <1>6, <1>7, <1>9 DEF Step
<1>14. QED BY <1>8, <1>9, <1>10, <1>11, <1>12, <1>13 DEF Next

LEMMA StartsTogether == Init => RunsTogether
BY DEF Init, RunsTogether, Together

LEMMA NextKeepsTogether == Kept /\ RunsTogether /\ [Next]_vars => RunsTogether'
<1> SUFFICES ASSUME Kept, RunsTogether, [Next]_vars PROVE RunsTogether'
  OBVIOUS
<1>1. Kept' BY NextKeeps
<1>2. CASE Next BY <1>1, <1>2, NextTogether
<1>3. CASE UNCHANGED vars
  <2>1. UNCHANGED <<setup, stack>> BY <1>3 DEF vars, threads
  <2>2. \A o : Has(o)' = Has(o) /\ Members(o)' = Members(o) BY <2>1 DEF Has, Members, S
  <2>3. QED BY <2>1, <2>2 DEF RunsTogether, Together
<1>4. QED BY <1>2, <1>3

(* The result of a rule is still to be worked out for the instance i, and  *)
(* it will be a pass or a failure.                                         *)
MemberDue(r, i) ==
    \E w \in Threads : \E k \in DOMAIN stack[w] :
        /\ stack[w][k][1] = "run" /\ stack[w][k][2] = r /\ stack[w][k][3] = i
        /\ ~ Ignores(<<r, i>>, stack[w][k][4])

(* A base that passes has failing members only while they are due, and one *)
(* that fails has a failing member, or one that is due.                    *)
MembersKnown ==
    \A r \in Rules : Members(r) # {} =>
        /\ last[<<r, Base>>] = "PASS" =>
             \A i \in Members(r) : last[<<r, i>>] = "FAIL" => MemberDue(r, i)
        /\ last[<<r, Base>>] = "FAIL" =>
             \E i \in Members(r) : last[<<r, i>>] = "FAIL" \/ MemberDue(r, i)

LEMMA MemberDueStays ==
    ASSUME Kept, NEW w \in Threads, stack[w] # <<>>, lock = w,
           NEW todo \in Seq(Tasks), Proceed(w, todo), UNCHANGED type,
           NEW r, NEW i, MemberDue(r, i)
    PROVE  MemberDue(r, i)' \/ (/\ Top(w)[1] = "run" /\ Top(w)[2] = r /\ Top(w)[3] = i
                                /\ ~ Ignores(<<r, i>>, Top(w)[4]))
<1>0. PICK v \in Threads : \E k \in DOMAIN stack[v] :
         /\ stack[v][k][1] = "run" /\ stack[v][k][2] = r /\ stack[v][k][3] = i
         /\ ~ Ignores(<<r, i>>, stack[v][k][4])
  BY DEF MemberDue
<1>1. PICK k \in DOMAIN stack[v] :
         /\ stack[v][k][1] = "run" /\ stack[v][k][2] = r /\ stack[v][k][3] = i
         /\ ~ Ignores(<<r, i>>, stack[v][k][4])
  BY <1>0
<1>2. CASE v = w /\ k = 1 BY <1>1, <1>2 DEF Top
<1>3. CASE ~ (v = w /\ k = 1)
  <2>1. \E n \in DOMAIN stack'[v] : stack'[v][n] = stack[v][k] BY <1>3, TasksStay
  <2>2. QED BY <1>1, <2>1 DEF MemberDue, Ignores
<1>4. QED BY <1>2, <1>3

LEMMA RunKeepsMembers ==
    ASSUME Kept, RunsTogether, MembersKnown, NEW w \in Workers, RuleRun(w)
    PROVE  MembersKnown'
<1> DEFINE rule == Top(w)[2]
           name == Top(w)[3]
           result == Top(w)[4]
           x == <<rule, name>>
           kind == RuleResult(x, result)
           base == <<rule, Base>>
           fresh == {y \in {x, base} : last[y] # kind
                                        /\ (y = x \/ kind = "FAIL" \/ BasePasses(x))}
<1>1. w \in Threads /\ lock = w /\ stack[w] # <<>> /\ Top(w)[1] = "run"
      /\ RunTodo(w) \in Seq(Tasks) /\ Proceed(w, RunTodo(w))
      /\ rule \in Rules /\ name \in Names /\ x \in Places
  BY RuleRunFacts
<1>2. UNCHANGED <<setup, type>> /\ StatsUpdate(x, kind) BY DEF RuleRun
<1>3. \A r : Members(r)' = Members(r) BY <1>2 DEF Members, Has, S
<1>4. ASSUME NEW r \in Rules, NEW i, MemberDue(r, i), r # rule \/ i # name \/ Ignores(x, result)
      PROVE  MemberDue(r, i)'
  BY <1>1, <1>2, <1>4, MemberDueStays
<1>5. 1 \in DOMAIN stack[w] /\ stack[w][1] = Top(w) /\ Together(stack[w])
  BY <1>1 DEF Top, Kept, Typed, RunsTogether
<1>6. name \in Has(rule) BY <1>1, <1>5 DEF Together
<1>7. CASE Ignores(x, result)
  <2>1. last' = last BY <1>2, <1>7, RuleResultFacts DEF StatsUpdate
  <2>2. \A r \in Rules : \A i : MemberDue(r, i) => MemberDue(r, i)' BY <1>4, <1>7
  <2>3. QED BY <1>3, <2>1, <2>2 DEF MembersKnown
<1>8. CASE ~ Ignores(x, result)
  <2>1. kind \in {"PASS", "FAIL"} BY <1>8, RuleResultFacts
  <2>2. last' = [y \in Places |-> IF y \in fresh THEN kind ELSE last[y]]
    BY <1>2, <2>1 DEF StatsUpdate
  <2>3. last \in [Places -> {"PASS", "FAIL"}] BY DEF Kept, Typed
  <2>4. \A r \in Rules : \A i \in Members(r) \cup {Base} : <<r, i>> \in Places
    BY InstanceFacts, TaskFacts DEF Members, Places, Objs, Kept, Typed
  <2> HIDE DEF kind
  <2> SUFFICES ASSUME NEW r \in Rules, Members(r) # {}
               PROVE  /\ last'[<<r, Base>>] = "PASS" =>
                           \A i \in Members(r) : last'[<<r, i>>] = "FAIL" => MemberDue(r, i)'
                      /\ last'[<<r, Base>>] = "FAIL" =>
                           \E i \in Members(r) : last'[<<r, i>>] = "FAIL" \/ MemberDue(r, i)'
    BY <1>3 DEF MembersKnown
  <2>5. CASE r # rule
    <3>1. \A i \in Members(r) \cup {Base} : last'[<<r, i>>] = last[<<r, i>>]
      BY <2>2, <2>4, <2>5
    <3>2. \A i : MemberDue(r, i) => MemberDue(r, i)' BY <1>4, <2>5
    <3>3. QED BY <3>1, <3>2 DEF MembersKnown
  <2>6. CASE r = rule /\ name = Base
    <3>1. \A i \in Members(r) : MemberDue(r, i)'
      <4> SUFFICES ASSUME NEW i \in Members(r) PROVE MemberDue(r, i)'
        OBVIOUS
      <4>1. PICK n \in DOMAIN stack[w] : n > 1 /\ stack[w][n] = Todo("run", rule, i, result)
        BY <1>1, <1>5, <2>6 DEF Together
      <4>2. MemberDue(r, i)
        <5>1. ~ Ignores(<<r, i>>, result) BY <1>8, <2>6 DEF Ignores
        <5>2. QED BY <1>1, <2>6, <4>1, <5>1 DEF MemberDue, Todo
      <4>3. i # name BY <2>6 DEF Members
      <4>4. QED BY <1>4, <4>2, <4>3
    <3>2. QED BY <3>1
  <2>7. CASE r = rule /\ name # Base
    <3>1. name \in Members(r) BY <1>6, <2>7 DEF Members
    <3>2. last'[<<r, name>>] = kind BY <2>2, <2>4, <2>7, <3>1
    <3>3. \A i \in Members(r) \ {name} : last'[<<r, i>>] = last[<<r, i>>]
      BY <2>2, <2>4, <2>7 DEF Members
    <3>4. CASE kind = "FAIL"
      <4>1. last'[<<r, Base>>] = "FAIL" BY <2>2, <2>4, <2>7, <3>4
      <4>2. QED BY <3>1, <3>2, <3>4, <4>1
    <3>5. CASE kind = "PASS" /\ BasePasses(x)
      <4>1. \A i \in Members(r) : last'[<<r, i>>] # "FAIL"
        BY <2>7, <3>2, <3>3, <3>5 DEF BasePasses
      <4>2. last'[<<r, Base>>] = "PASS" BY <2>2, <2>4, <2>7, <3>5
      <4>3. QED BY <4>1, <4>2
    <3>6. CASE kind = "PASS" /\ ~ BasePasses(x)
      <4>1. PICK j \in Members(r) \ {name} : last[<<r, j>>] = "FAIL"
        BY <2>7, <3>6 DEF BasePasses
      <4>2. last'[<<r, Base>>] = last[<<r, Base>>] BY <2>2, <2>4, <2>7, <3>6
      <4>3. last'[<<r, j>>] = "FAIL" BY <3>3, <4>1
      <4>4. ASSUME last'[<<r, Base>>] = "PASS", NEW i \in Members(r), last'[<<r, i>>] = "FAIL"
            PROVE  MemberDue(r, i)'
        <5>1. i # name BY <3>2, <3>6, <4>4
        <5>2. MemberDue(r, i) BY <3>3, <4>2, <4>4, <5>1 DEF MembersKnown
        <5>3. QED BY <1>4, <5>1, <5>2
      <4>5. QED BY <4>1, <4>3, <4>4
    <3>7. QED BY <2>1, <3>4, <3>5, <3>6
  <2>8. QED BY <2>5, <2>6, <2>7
<1>9. QED BY <1>7, <1>8

LEMMA NextKeepsMembers ==
    Kept /\ RunsTogether /\ MembersKnown /\ [Next]_vars => MembersKnown'
<1> SUFFICES ASSUME Kept, RunsTogether, MembersKnown, [Next]_vars PROVE MembersKnown'
  OBVIOUS
<1>1. ASSUME UNCHANGED setup, \A y \in Instances : last'[y] = last[y],
             \A r \in Rules : \A i \in Members(r) : MemberDue(r, i) => MemberDue(r, i)'
      PROVE  MembersKnown'
  <2>1. \A r : Members(r)' = Members(r) BY <1>1 DEF Members, Has, S
  <2>2. \A r \in Rules : \A i \in Members(r) \cup {Base} : <<r, i>> \in Instances
    BY InstanceFacts, TaskFacts DEF Members, Instances, Objs, Kept, Typed
  <2>3. QED BY <1>1, <2>1, <2>2 DEF MembersKnown
<1>2. CASE Calm
  <2>1. \A r, i : ~ MemberDue(r, i) BY <1>2, NothingLeft DEF MemberDue, Calm
  <2>2. QED BY <1>1, <1>2, <2>1 DEF Calm
<1>3. ASSUME NEW w \in Workers, Passing(w) PROVE MembersKnown'
  <2>1. w \in Threads BY DEF Threads
  <2>2. PICK todo \in Seq(Tasks) : Proceed(w, todo) BY <1>3 DEF Passing
  <2>3. \A r, i : MemberDue(r, i) => MemberDue(r, i)'
    BY <1>3, <2>1, <2>2, MemberDueStays DEF Passing
  <2>4. QED BY <1>1, <1>3, <2>3 DEF Passing
<1>4. ASSUME NEW w \in Workers, RuleRun(w) PROVE MembersKnown' BY <1>4, RunKeepsMembers
<1>5. ASSUME NEW w \in Threads, CompHealth(w) PROVE MembersKnown'
  <2>1. UNCHANGED <<setup, type, last>> BY <1>5 DEF CompHealth, rules
  <2>2. lock = w /\ stack[w] # <<>> /\ Top(w)[1] = "health"
        /\ HealthyTodo(w) \in Seq(Tasks) /\ Proceed(w, HealthyTodo(w))
    BY <1>5, CompHealthFacts
  <2>3. \A r, i : MemberDue(r, i) => MemberDue(r, i)' BY <2>1, <2>2, MemberDueStays
  <2>4. QED BY <1>1, <2>1, <2>3
<1>6. CASE UNCHANGED vars
  <2>1. UNCHANGED <<setup, type, last, stack>> BY <1>6 DEF vars, rules, threads
  <2>2. \A r, i : MemberDue(r, i) => MemberDue(r, i)' BY <2>1 DEF MemberDue, Ignores
  <2>3. QED BY <1>1, <2>1, <2>2
<1>7. QED BY <1>2, <1>3, <1>4, <1>5, <1>6, StepKinds

(* Once the lock is free the base of a rule with members fails when one of *)
(* them does, and only then.                                               *)
THEOREM BaseRight == Spec => []BaseFollowsMembers
<1> DEFINE Inv == Kept /\ RunsTogether /\ MembersKnown
<1>1. Init => Inv
  <2> SUFFICES ASSUME Init PROVE Inv
    OBVIOUS
  <2>1. Kept BY StartsKept
  <2>2. RunsTogether BY StartsTogether
  <2>3. \A r \in Rules : \A i \in Members(r) \cup {Base} : <<r, i>> \in Places
    BY <2>1, InstanceFacts, TaskFacts DEF Members, Places, Objs, Kept, Typed
  <2>4. \A r \in Rules : \A i \in Members(r) \cup {Base} : last[<<r, i>>] = "PASS"
    BY <2>3 DEF Init
  <2>5. MembersKnown BY <2>4 DEF MembersKnown
  <2>6. QED BY <2>1, <2>2, <2>5
<1>2. Inv /\ [Next]_vars => Inv'
  <2> SUFFICES ASSUME Inv, [Next]_vars PROVE Inv'
    OBVIOUS
  <2>1. Kept' BY NextKeeps
  <2>2. RunsTogether' BY NextKeepsTogether
  <2>3. MembersKnown' BY NextKeepsMembers
  <2>4. QED BY <2>1, <2>2, <2>3
<1>3. Inv => BaseFollowsMembers
  <2> SUFFICES ASSUME Inv, Free, NEW r \in Rules, Members(r) # {}
               PROVE  last[<<r, Base>>] = "FAIL" <=>
                        \E i \in Members(r) : last[<<r, i>>] = "FAIL"
    BY DEF BaseFollowsMembers
  <2>1. \A i : ~ MemberDue(r, i) BY NothingLeft DEF MemberDue
  <2>2. last[<<r, Base>>] \in {"PASS", "FAIL"} BY TaskFacts DEF Kept, Typed, Places, Objs
  <2>3. QED BY <2>1, <2>2 DEF MembersKnown
<1>4. QED
  <2> HIDE DEF Inv
  <2>1. QED BY <1>1, <1>2, <1>3, PTL DEF Spec

-----------------------------------------------------------------------------
(* Confidence is earned *)

(* No rule is good for the health of its component when it fails. *)
OnlyHarm == \A r \in Rules : S.severity[r] >= 0

(* The member c has just lost confidence, all that its health has lost,    *)
(* and the one it is in is next.                                           *)
ConfidenceDue(c) ==
    /\ lock \in Threads /\ stack[lock] # <<>>
    /\ Top(lock)[1] = "health" /\ Top(lock)[2] = S.home[c]
    /\ confidence[c] = IF health[c] > 0 THEN health[c] ELSE 0

NoneAbove(c) == S.home[c] = None \/ confidence[S.home[c]] <= confidence[c]

(* Confidence is no higher than health; and no component has more than a   *)
(* member has, unless it is the one whose health is next.                  *)
ConfidenceKnown ==
    /\ \A c \in Comps : confidence[c] <= health[c] \/ confidence[c] = 0
    /\ OnlyHarm => \A c \in Comps : health[c] <= Full /\ (NoneAbove(c) \/ ConfidenceDue(c))

(* What a component loses is no less than what any member has lost. *)
LEMMA LostCovers ==
    ASSUME Typed, OnlyHarm, \A k \in Comps : health[k] <= Full, NEW c \in Comps
    PROVE  Lost(c) >= 0 /\ \A k \in Within(c) : Full - Lost(c) <= health[k]
<1> DEFINE short == [k \in Comps |-> Full - health[k]]
           bad == SumFunctionOnSet(S.severity, Failing(c))
           less == SumFunctionOnSet(short, Within(c))
<1>1. IsFiniteSet(Failing(c)) /\ IsFiniteSet(Within(c))
      /\ Failing(c) \subseteq Rules /\ Within(c) \subseteq Comps
  BY LostFacts
<1>2. bad \in Int /\ bad >= 0
  <2>1. \A r \in Failing(c) : S.severity[r] \in Int /\ S.severity[r] >= 0
    BY <1>1, SetupFacts DEF OnlyHarm, Typed
  <2>2. QED BY <1>1, <2>1, SumFacts
<1>3. \A k \in Within(c) : short[k] = Full - health[k] /\ short[k] \in Int /\ short[k] >= 0
                           /\ health[k] \in Int /\ Full \in Int
  BY <1>1, NumbersAssumption DEF Typed
<1>4. Lost(c) = bad + less BY DEF Lost
<1> HIDE DEF short
<1>5. less \in Int /\ less >= 0 /\ \A k \in Within(c) : less >= short[k]
  BY <1>1, <1>3, SumFacts
<1> HIDE DEF bad, less
<1>6. \A k \in Within(c) : Full - Lost(c) <= health[k] BY <1>2, <1>3, <1>4, <1>5
<1>7. QED BY <1>2, <1>4, <1>5, <1>6

LEMMA CompKeepsConfidence ==
    ASSUME Kept, ConfidenceKnown, NEW w \in Threads, CompHealth(w)
    PROVE  ConfidenceKnown'
<1> DEFINE k == Top(w)[2]
           h == Full - Lost(k)
           new == Confident(k, h)
<1>1. lock = w /\ stack[w] # <<>> /\ Top(w)[1] = "health" /\ k \in Comps /\ h \in Int
      /\ S.home[k] \in Comps \cup {None}
      /\ HealthyTodo(w) \in Seq(Tasks) /\ Proceed(w, HealthyTodo(w))
      /\ health' = [health EXCEPT ![k] = h] /\ confidence' = [confidence EXCEPT ![k] = new]
  BY CompHealthFacts
<1>2. S' = S /\ UNCHANGED setup BY DEF CompHealth, S
<1>3. Typed BY DEF Kept
<1>4. /\ new \in 0..Full
      /\ new <= h \/ new = 0
      /\ h < confidence[k] => new = IF h > 0 THEN h ELSE 0
      /\ h = confidence[k] => new = h
      /\ h > confidence[k] =>
           /\ \A m \in Within(k) : new <= confidence[m]
           /\ (\A m \in Within(k) : confidence[k] <= confidence[m]) => confidence[k] <= new
  BY <1>1, <1>3, ConfidentFacts
<1> HIDE DEF new
<1>5. health'[k] = h /\ confidence'[k] = new
      /\ \A m \in Comps \ {k} : health'[m] = health[m] /\ confidence'[m] = confidence[m]
  BY <1>1 DEF Kept, Typed
<1>6. \A m \in Comps : confidence[m] \in 0..Full /\ health[m] \in Int
                       /\ confidence'[m] \in 0..Full /\ health'[m] \in Int
  BY <1>1, <1>4, <1>5 DEF Kept, Typed
<1>7. Full \in Nat /\ \A m \in Comps : S.home[m] \in Comps \cup {None}
  BY NumbersAssumption, SetupFacts DEF Kept, Typed
<1>8. \A c \in Comps : confidence'[c] <= health'[c] \/ confidence'[c] = 0
  BY <1>4, <1>5 DEF ConfidenceKnown
<1>9. ASSUME OnlyHarm
      PROVE  \A c \in Comps : health'[c] <= Full /\ (NoneAbove(c)' \/ ConfidenceDue(c)')
  <2>1. \A c \in Comps : health[c] <= Full /\ (NoneAbove(c) \/ ConfidenceDue(c))
    BY <1>9 DEF ConfidenceKnown
  <2>2. Lost(k) >= 0 /\ \A m \in Within(k) : h <= health[m]
    BY <1>1, <1>3, <1>9, <2>1, LostCovers
  <2>3. h <= Full
    <3>1. Lost(k) \in Int BY <1>1, <1>3, LostFacts
    <3>2. QED BY <1>7, <2>2, <3>1
  <2>4. \A c \in Comps : S.home[c] # k => NoneAbove(c)
    BY <1>1, <2>1 DEF ConfidenceDue
  <2>5. \A m \in Within(k) : m \in Comps /\ S.home[m] = k /\ k # None
    BY <1>1, NamesAssumption DEF Within
  (* A member of k that has less confidence than k has as much as health,  *)
  (* which is no less than that of k will be.                              *)
  <2>6. ASSUME NEW m \in Within(k)
        PROVE  confidence[k] <= confidence[m]
               \/ (confidence[m] = IF health[m] > 0 THEN health[m] ELSE 0)
    BY <2>1, <2>5 DEF NoneAbove, ConfidenceDue
  <2> HIDE DEF h
  <2>7. ASSUME NEW m \in Within(k) PROVE new <= confidence[m]
    <3>1. m \in Comps /\ h \in Int /\ confidence[m] \in Int /\ confidence[k] \in Int
          /\ health[m] \in Int /\ new \in Int /\ confidence[m] >= 0 /\ confidence[k] >= 0
      BY <1>1, <1>4, <1>6, <2>5
    <3>2. CASE confidence[k] <= confidence[m]
      <4>1. CASE h < confidence[k] BY <1>4, <3>1, <3>2, <4>1
      <4>2. CASE h = confidence[k] BY <1>4, <3>1, <3>2, <4>2
      <4>3. CASE h > confidence[k] BY <1>4, <4>3
      <4>4. QED BY <3>1, <4>1, <4>2, <4>3
    <3>3. CASE confidence[m] = IF health[m] > 0 THEN health[m] ELSE 0
      <4>1. h <= health[m] BY <2>2
      <4>2. QED BY <1>4, <3>1, <3>3, <4>1
    <3>4. QED BY <2>6, <3>2, <3>3
  <2>8. new < confidence[k] => new = IF h > 0 THEN h ELSE 0
    <3>1. h \in Int /\ confidence[k] \in Int /\ new \in Int /\ confidence[k] >= 0
      BY <1>1, <1>4, <1>6
    <3>2. CASE h < confidence[k] BY <1>4, <3>2
    <3>3. CASE h = confidence[k] BY <1>4, <3>1, <3>3
    <3>4. CASE h > confidence[k]
      <4>1. ASSUME NEW m \in Within(k) PROVE confidence[k] <= confidence[m]
        <5>1. m \in Comps /\ health[m] \in Int /\ confidence[m] \in Int BY <1>6, <2>5
        <5>2. h <= health[m] BY <2>2
        <5>3. CASE confidence[m] = IF health[m] > 0 THEN health[m] ELSE 0
          BY <3>1, <3>4, <5>1, <5>2, <5>3
        <5>4. QED BY <2>6, <5>3
      <4>2. confidence[k] <= new BY <1>4, <3>4, <4>1
      <4>3. QED BY <3>1, <4>2
    <3>5. QED BY <3>1, <3>2, <3>3, <3>4
  <2>9. ASSUME NEW c \in Comps PROVE health'[c] <= Full
    <3>1. CASE c = k BY <1>5, <2>3, <3>1
    <3>2. CASE c # k BY <1>5, <2>1, <3>2
    <3>3. QED BY <3>1, <3>2
  <2>10. ASSUME NEW c \in Comps, S.home[c] # None
         PROVE  confidence'[S.home[c]] <= confidence'[c] \/ ConfidenceDue(c)'
    <3>1. S.home[c] \in Comps BY <1>7, <2>10
    <3>2. CASE c = k /\ S.home[c] = k
      <4>1. confidence'[S.home[c]] = confidence'[c] BY <3>2
      <4>2. QED BY <1>6, <4>1
    <3>3. CASE c # k /\ S.home[c] = k
      <4>1. c \in Within(k) BY <3>3 DEF Within
      <4>2. QED BY <1>5, <2>7, <3>3, <4>1
    <3>4. CASE c # k /\ S.home[c] # k
      <4>1. confidence[S.home[c]] <= confidence[c] BY <2>4, <2>10, <3>4 DEF NoneAbove
      <4>2. QED BY <1>5, <3>1, <3>4, <4>1
    <3>5. CASE c = k /\ S.home[c] # k
      <4>1. confidence[S.home[c]] <= confidence[k] BY <2>4, <2>10, <3>5 DEF NoneAbove
      <4>2. CASE confidence[k] <= new
        <5>1. confidence'[S.home[c]] = confidence[S.home[c]] /\ confidence'[c] = new
          BY <1>5, <3>1, <3>5
        <5>2. confidence[S.home[c]] \in Int /\ confidence[k] \in Int /\ new \in Int
          BY <1>1, <1>4, <1>6, <3>1
        <5>3. QED BY <4>1, <4>2, <5>1, <5>2
      <4>3. CASE ~ (confidence[k] <= new)
        <5>1. confidence'[k] = IF health'[k] > 0 THEN health'[k] ELSE 0
          <6>1. new < confidence[k] BY <1>1, <1>4, <1>6, <4>3
          <6>2. QED BY <1>5, <2>8, <6>1
        <5>2. HealthyTodo(w) = <<Todo("health", S.home[k], Base, Top(w)[4])>>
          BY <2>10, <3>5 DEF HealthyTodo
        <5>3. 1 \in DOMAIN HealthyTodo(w) /\ HealthyTodo(w)[1][1] = "health"
              /\ HealthyTodo(w)[1][2] = S.home[k]
          BY <5>2 DEF Todo
        <5>4. 1 \in DOMAIN stack'[w] /\ stack'[w][1] = HealthyTodo(w)[1]
          BY <1>1, <5>3, TasksStay
        <5>5. stack'[w] # <<>> BY <5>4
        <5>6. lock' = w
          <6>1. stack' = [stack EXCEPT ![w] = HealthyTodo(w) \o Tail(stack[w])]
                /\ lock' = IF HealthyTodo(w) \o Tail(stack[w]) = <<>> THEN None ELSE w
            BY <1>1 DEF Proceed
          <6>2. stack'[w] = HealthyTodo(w) \o Tail(stack[w]) BY <6>1 DEF Kept, Typed
          <6>3. QED BY <5>5, <6>1, <6>2
        <5>7. QED BY <1>2, <3>5, <5>1, <5>3, <5>4, <5>5, <5>6 DEF ConfidenceDue, Top
      <4>4. QED BY <4>2, <4>3
    <3>6. QED BY <3>2, <3>3, <3>4, <3>5
  <2>11. QED BY <1>2, <2>9, <2>10 DEF NoneAbove
<1>10. QED BY <1>2, <1>8, <1>9 DEF ConfidenceKnown, OnlyHarm

LEMMA NextKeepsConfidence == Kept /\ ConfidenceKnown /\ [Next]_vars => ConfidenceKnown'
<1> SUFFICES ASSUME Kept, ConfidenceKnown, [Next]_vars PROVE ConfidenceKnown'
  OBVIOUS
<1>1. ASSUME UNCHANGED <<setup, health, confidence>>,
             \A c \in Comps : ConfidenceDue(c) => ConfidenceDue(c)'
      PROVE  ConfidenceKnown'
  <2>1. S' = S BY <1>1 DEF S
  <2>2. QED BY <1>1, <2>1 DEF ConfidenceKnown, OnlyHarm, NoneAbove
<1>2. CASE Calm
  <2>1. \A c \in Comps : ~ ConfidenceDue(c)
    BY <1>2, NamesAssumption DEF ConfidenceDue, Calm, Free
  <2>2. QED BY <1>1, <1>2, <2>1 DEF Calm
<1>3. ASSUME NEW w \in Workers, Passing(w) \/ RuleRun(w) PROVE ConfidenceKnown'
  <2>1. lock = w /\ Top(w)[1] # "health" BY <1>3 DEF Passing, RuleRun, Doing
  <2>2. \A c \in Comps : ~ ConfidenceDue(c) BY <2>1 DEF ConfidenceDue
  <2>3. QED BY <1>1, <1>3, <2>2 DEF Passing, RuleRun, comps
<1>4. ASSUME NEW w \in Threads, CompHealth(w) PROVE ConfidenceKnown'
  BY <1>4, CompKeepsConfidence
<1>5. CASE UNCHANGED vars
  <2>1. UNCHANGED <<setup, health, confidence, stack, lock>>
    BY <1>5 DEF vars, comps, threads
  <2>2. QED BY <1>1, <2>1 DEF ConfidenceDue, Top, S
<1>6. QED BY <1>2, <1>3, <1>4, <1>5, StepKinds

(* Confidence is never above health, and once the lock is free no          *)
(* component has more of it than one of its members.                       *)
THEOREM ConfidenceRight == Spec => []ConfidenceEarned
<1>1. Init => Kept /\ ConfidenceKnown
  <2> SUFFICES ASSUME Init PROVE ConfidenceKnown
    BY StartsKept
  <2>1. \A c \in Comps : health[c] = Full /\ confidence[c] = Full /\ Full \in Nat
    BY NumbersAssumption DEF Init
  <2>2. \A c \in Comps : S.home[c] \in Comps \cup {None} BY SetupFacts DEF Init
  <2>3. \A c \in Comps : NoneAbove(c) BY <2>1, <2>2 DEF NoneAbove
  <2>4. QED BY <2>1, <2>3 DEF ConfidenceKnown
<1>2. (Kept /\ ConfidenceKnown) /\ [Next]_vars => (Kept /\ ConfidenceKnown)'
  BY NextKeeps, NextKeepsConfidence
<1>3. Kept /\ ConfidenceKnown => ConfidenceEarned
  BY NamesAssumption
     DEF ConfidenceKnown, ConfidenceEarned, ConfidenceDue, NoneAbove, OnlyHarm, Free
<1>4. QED BY <1>1, <1>2, <1>3, PTL DEF Spec

-----------------------------------------------------------------------------
(* Counting follows the history *)

(* The last d results, once b has come after s *)
Slide(s, b, d) ==
    LET all == Append(s, b)
    IN  SubSeq(all, IF Len(all) > d THEN 2 ELSE 1, Len(all))

LEMMA SlideFacts ==
    ASSUME NEW s \in Seq(BOOLEAN), NEW b \in BOOLEAN, NEW d \in Nat \ {0}, Len(s) <= d
    PROVE  /\ Slide(s, b, d) \in Seq(BOOLEAN)
           /\ Len(Slide(s, b, d)) = IF Len(s) < d THEN Len(s) + 1 ELSE d
           /\ Slide(s, b, d)[Len(Slide(s, b, d))] = b
           /\ \A k \in 1 .. Len(Slide(s, b, d)) - 1 :
                 Slide(s, b, d)[k] = s[IF Len(s) < d THEN k ELSE k + 1]
<1> DEFINE all == Append(s, b)
           from == IF Len(all) > d THEN 2 ELSE 1
           t == SubSeq(all, from, Len(all))
<1>1. all \in Seq(BOOLEAN) /\ Len(all) = Len(s) + 1 /\ all[Len(s) + 1] = b
      /\ \A k \in 1..Len(s) : all[k] = s[k]
  OBVIOUS
<1>2. Slide(s, b, d) = t BY DEF Slide
<1>3. Len(s) \in Nat OBVIOUS
<1> HIDE DEF all
<1>4. t \in Seq(BOOLEAN) /\ Len(t) = Len(all) - from + 1
      /\ \A k \in 1..Len(t) : t[k] = all[from + k - 1]
  <2>1. from \in 1..2 /\ Len(all) \in Nat \ {0} BY <1>1, <1>3
  <2> HIDE DEF from
  <2>2. QED BY <1>1, <2>1
<1>5. (Len(s) < d => from = 1) /\ (Len(s) = d => from = 2) BY <1>1, <1>3
<1> HIDE DEF t, from
<1>6. CASE Len(s) < d
  <2>1. Len(t) = Len(s) + 1 BY <1>1, <1>3, <1>4, <1>5, <1>6
  <2>2. \A k \in 1..Len(t) : t[k] = all[k] BY <1>3, <1>4, <1>5, <1>6, <2>1
  <2>3. QED BY <1>1, <1>2, <1>3, <1>4, <1>6, <2>1, <2>2
<1>7. CASE Len(s) = d
  <2>1. Len(t) = d BY <1>1, <1>3, <1>4, <1>5, <1>7
  <2>2. \A k \in 1..Len(t) : t[k] = all[k + 1]
    <3>1. \A k \in 1..Len(t) : from + k - 1 = k + 1 BY <1>5, <1>7, <2>1
    <3>2. QED BY <1>4, <3>1
  <2>3. \A k \in 1 .. Len(t) - 1 : t[k] = s[k + 1] BY <1>1, <1>3, <1>7, <2>1, <2>2
  <2>4. t[Len(t)] = b BY <1>1, <1>3, <1>7, <2>1, <2>2
  <2>5. QED BY <1>2, <1>3, <1>4, <1>7, <2>1, <2>3, <2>4
<1>8. QED BY <1>3, <1>6, <1>7

(* How many failures there are, when all are or one is not *)
LEMMA FailureFacts ==
    ASSUME NEW s \in Seq(BOOLEAN)
    PROVE  /\ IsFiniteSet(Failures(s)) /\ Cardinality(Failures(s)) \in Nat
           /\ Cardinality(Failures(s)) <= Len(s)
           /\ (\A k \in DOMAIN s : s[k]) => Cardinality(Failures(s)) = Len(s)
           /\ (\E k \in DOMAIN s : ~ s[k]) => Cardinality(Failures(s)) < Len(s)
<1>1. DOMAIN s = 1..Len(s) /\ Len(s) \in Nat OBVIOUS
<1>2. IsFiniteSet(DOMAIN s) /\ Cardinality(DOMAIN s) = Len(s)
  <2>1. IsFiniteSet(1..Len(s)) /\ Cardinality(1..Len(s)) = IF 1 > Len(s) THEN 0 ELSE Len(s) - 1 + 1
    BY <1>1, FS_Interval
  <2>2. QED BY <1>1, <2>1
<1>3. Failures(s) \subseteq DOMAIN s BY DEF Failures
<1>4. IsFiniteSet(Failures(s)) /\ Cardinality(Failures(s)) <= Len(s)
      /\ (Cardinality(Failures(s)) = Len(s) => Failures(s) = DOMAIN s)
  BY <1>2, <1>3, FS_Subset
<1>5. Cardinality(Failures(s)) \in Nat BY <1>4, FS_CardinalityType
<1>6. ASSUME \A k \in DOMAIN s : s[k] PROVE Cardinality(Failures(s)) = Len(s)
  <2>1. Failures(s) = DOMAIN s BY <1>6 DEF Failures
  <2>2. QED BY <1>2, <2>1
<1>7. ASSUME NEW k \in DOMAIN s, ~ s[k] PROVE Cardinality(Failures(s)) < Len(s)
  <2>1. Failures(s) # DOMAIN s BY <1>7 DEF Failures
  <2>2. QED BY <1>1, <1>4, <1>5, <2>1
<1>8. QED BY <1>4, <1>5, <1>6, <1>7

(* The results s end in f failures and no more, or are n failures *)
InRow(s, f, n) ==
    LET k == IF f < n THEN f ELSE n
    IN  /\ k <= Len(s)
        /\ \A e \in Len(s) - k + 1 .. Len(s) : s[e]
        /\ k < Len(s) => ~ s[Len(s) - k]

LEMMA RowCounts ==
    ASSUME NEW s \in Seq(BOOLEAN), NEW f \in Nat, NEW n \in Nat \ {0},
           Len(s) <= n, InRow(s, f, n)
    PROVE  f >= n <=> Cardinality(Failures(s)) >= n
<1> DEFINE k == IF f < n THEN f ELSE n
<1>1. k \in Nat /\ k <= n /\ Len(s) \in Nat /\ DOMAIN s = 1..Len(s) OBVIOUS
<1>2. k <= Len(s) /\ (\A e \in Len(s) - k + 1 .. Len(s) : s[e])
      /\ (k < Len(s) => ~ s[Len(s) - k])
  BY DEF InRow
<1> DEFINE L == Len(s)
           c == Cardinality(Failures(s))
<1>3. c \in Nat /\ c <= L /\ L \in Nat /\ L <= n /\ k <= L
  BY <1>2, FailureFacts
<1> HIDE DEF L, c
<1>4. CASE f >= n
  <2>1. k = n BY <1>4
  <2>2. L = n
    <3> HIDE DEF k
    <3>1. QED BY <1>1, <1>3, <2>1
  <2>3. \A e \in DOMAIN s : s[e] BY <1>1, <1>2, <2>1, <2>2 DEF L
  <2>4. c = L BY <2>3, FailureFacts DEF c, L
  <2>5. c >= n BY <2>2, <2>4
  <2>6. QED BY <1>4, <2>5 DEF c
<1>5. CASE f < n
  <2>1. k = f BY <1>5
  <2>2. c < n
    <3>1. CASE k = L BY <1>1, <1>3, <1>5, <2>1, <3>1
    <3>2. CASE k < L
      <4>1. Len(s) - k \in DOMAIN s /\ ~ s[Len(s) - k] BY <1>1, <1>2, <3>2 DEF L
      <4>2. c < L BY <4>1, FailureFacts DEF c, L
      <4>3. QED BY <1>1, <1>3, <4>2
    <3>3. QED BY <1>1, <1>3, <3>1, <3>2
  <2>3. QED BY <1>3, <1>5, <2>2 DEF c
<1>6. QED BY <1>4, <1>5

LEMMA RowGoesOn ==
    ASSUME NEW s \in Seq(BOOLEAN), NEW f \in Nat, NEW n \in Nat \ {0},
           Len(s) <= n, InRow(s, f, n), NEW g \in Nat,
           g >= n <=> f + 1 >= n, g < n => g = f + 1
    PROVE  InRow(Slide(s, TRUE, n), g, n) /\ InRow(Slide(s, FALSE, n), 0, n)
<1> DEFINE k == IF f < n THEN f ELSE n
           h == IF g < n THEN g ELSE n
<1>1. k \in Nat /\ k <= n /\ h \in Nat /\ Len(s) \in Nat
      /\ h = IF k < n THEN k + 1 ELSE n
  OBVIOUS
<1>2. k <= Len(s) /\ (\A e \in Len(s) - k + 1 .. Len(s) : s[e])
      /\ (k < Len(s) => ~ s[Len(s) - k])
  BY DEF InRow
<1> HIDE DEF k
<1>3. ASSUME NEW b \in BOOLEAN
      PROVE  LET t == Slide(s, b, n) IN
             /\ Len(t) = IF Len(s) < n THEN Len(s) + 1 ELSE n
             /\ t[Len(t)] = b
             /\ \A e \in 1 .. Len(t) - 1 : t[e] = s[IF Len(s) < n THEN e ELSE e + 1]
  BY SlideFacts
<1>4. InRow(Slide(s, TRUE, n), g, n)
  <2> DEFINE t == Slide(s, TRUE, n)
  <2>1. /\ Len(t) = IF Len(s) < n THEN Len(s) + 1 ELSE n
        /\ t[Len(t)] = TRUE
        /\ \A e \in 1 .. Len(t) - 1 : t[e] = s[IF Len(s) < n THEN e ELSE e + 1]
    BY <1>3
  <2> HIDE DEF t
  <2>2. h <= Len(t) BY <1>1, <1>2, <2>1
  <2>3. ASSUME NEW e \in Len(t) - h + 1 .. Len(t) PROVE t[e]
    <3>1. CASE e = Len(t) BY <2>1, <3>1
    <3>2. CASE e < Len(t)
      <4>1. e \in 1 .. Len(t) - 1 BY <1>1, <2>1, <2>2, <3>2
      <4> DEFINE o == IF Len(s) < n THEN e ELSE e + 1
      <4>2. o \in Len(s) - k + 1 .. Len(s) BY <1>1, <1>2, <2>1, <2>2, <3>2
      <4>3. t[e] = s[o] BY <2>1, <4>1
      <4>4. QED BY <1>2, <4>2, <4>3
    <3>3. QED BY <1>1, <2>1, <3>1, <3>2
  <2>4. ASSUME h < Len(t) PROVE ~ t[Len(t) - h]
    <3> DEFINE e == Len(t) - h
               o == IF Len(s) < n THEN e ELSE e + 1
    <3>1. h >= 1 /\ k < n /\ h = k + 1 BY <1>1, <1>2, <2>1, <2>4
    <3>2. e \in 1 .. Len(t) - 1 /\ o = Len(s) - k /\ k < Len(s)
      <4>1. CASE Len(s) < n BY <1>1, <1>2, <2>1, <2>4, <3>1, <4>1
      <4>2. CASE Len(s) = n BY <1>1, <1>2, <2>1, <2>4, <3>1, <4>2
      <4>3. QED BY <1>1, <4>1, <4>2
    <3>3. t[e] = s[o] BY <2>1, <3>2
    <3>4. QED BY <1>2, <3>2, <3>3
  <2>5. QED BY <2>2, <2>3, <2>4 DEF InRow, t
<1>5. InRow(Slide(s, FALSE, n), 0, n)
  <2> DEFINE t == Slide(s, FALSE, n)
  <2>1. Len(t) \in Nat /\ t[Len(t)] = FALSE
    <3>1. t[Len(t)] = FALSE BY <1>3
    <3>2. t \in Seq(BOOLEAN) BY SlideFacts
    <3> HIDE DEF t
    <3>3. QED BY <3>1, <3>2
  <2> HIDE DEF t
  <2>2. \A e \in Len(t) - 0 + 1 .. Len(t) : t[e] BY <2>1
  <2>3. 0 <= Len(t) /\ Len(t) - 0 = Len(t) BY <2>1
  <2>4. (IF 0 < n THEN 0 ELSE n) = 0 OBVIOUS
  <2>5. QED BY <2>1, <2>2, <2>3, <2>4 DEF InRow, t
<1>6. QED BY <1>4, <1>5

(* Where the result k of L is in a ring of m whose next place is p; while  *)
(* the ring is not full the first is at 0                                  *)
Slot(L, m, p, k) ==
    IF L < m THEN k - 1 ELSE IF p + k - 1 < m THEN p + k - 1 ELSE p + k - 1 - m

(* A ring of m holds the failures of s *)
InRing(s, y, m) ==
    /\ y.pos < m
    /\ y.size = 0 \/ m < y.size
    /\ Len(s) < m => y.pos = Len(s)
    /\ y.bits = {Slot(Len(s), m, y.pos, k) : k \in Failures(s)}

LEMMA RingCounts ==
    ASSUME NEW s \in Seq(BOOLEAN), NEW m \in Nat \ {0}, Len(s) <= m,
           NEW y, y.pos \in Nat, InRing(s, y, m)
    PROVE  Cardinality(y.bits) = Cardinality(Failures(s))
<1> DEFINE L == Len(s)
           p == y.pos
           F == Failures(s)
           at == [k \in F |-> Slot(L, m, p, k)]
<1>1. L \in 0..m /\ p \in 0 .. m - 1 /\ (L < m => p = L) /\ F \subseteq 1..L
      /\ y.bits = {Slot(L, m, p, k) : k \in F}
  BY DEF InRing, Failures
<1>2. IsFiniteSet(F) BY FailureFacts
<1> HIDE DEF L, p, F
<1>3. \A j, k \in F : Slot(L, m, p, j) = Slot(L, m, p, k) => j = k
  <2> SUFFICES ASSUME NEW j \in F, NEW k \in F, Slot(L, m, p, j) = Slot(L, m, p, k)
               PROVE  j = k
    OBVIOUS
  <2>1. j \in 1..L /\ k \in 1..L BY <1>1
  <2>2. CASE L < m BY <1>1, <2>1, <2>2 DEF Slot
  <2>3. CASE L = m BY <1>1, <2>1, <2>3 DEF Slot
  <2>4. QED BY <1>1, <2>2, <2>3
<1>4. at \in [F -> y.bits] /\ (\A j, k \in F : at[j] = at[k] => j = k)
      /\ (\A b \in y.bits : \E k \in F : at[k] = b)
  BY <1>1, <1>3
<1> HIDE DEF at
<1>5. ExistsBijection(F, y.bits)
  BY <1>4 DEF ExistsBijection, Bijection, Injection, Surjection, IsInjective
<1>6. QED BY <1>2, <1>5, FS_Bijection DEF F

LEMMA RingGoesOn ==
    ASSUME NEW s \in Seq(BOOLEAN), NEW m \in Nat \ {0}, Len(s) <= m,
           NEW y, y.pos \in Nat, InRing(s, y, m), NEW b \in BOOLEAN,
           NEW z, z.size > m,
           z.bits = IF b THEN y.bits \cup {y.pos} ELSE y.bits \ {y.pos},
           z.pos = IF y.pos + 1 >= m THEN 0 ELSE y.pos + 1
    PROVE  InRing(Slide(s, b, m), z, m)
<1> DEFINE L == Len(s)
           p == y.pos
           F == Failures(s)
           t == Slide(s, b, m)
           G == Failures(t)
           K == Len(t)
           q == z.pos
<1>1. L \in 0..m /\ p \in 0 .. m - 1 /\ (L < m => p = L)
      /\ y.bits = {Slot(L, m, p, k) : k \in F}
  BY DEF InRing
<1>2. /\ t \in Seq(BOOLEAN)
      /\ K = IF L < m THEN L + 1 ELSE m
      /\ t[K] = b
      /\ \A k \in 1 .. K - 1 : t[k] = s[IF L < m THEN k ELSE k + 1]
  BY SlideFacts
<1>3. q = IF p + 1 >= m THEN 0 ELSE p + 1 OBVIOUS
<1>4. z.bits = IF b THEN y.bits \cup {p} ELSE y.bits \ {p} OBVIOUS
<1>5. (\A k : k \in F <=> k \in 1..L /\ s[k]) /\ \A k : k \in G <=> k \in 1..K /\ t[k]
  BY <1>2 DEF Failures
<1> HIDE DEF L, p, F, t, G, K, q
<1>6. q \in 0 .. m - 1 /\ (K < m => q = K) /\ K \in 1..m BY <1>1, <1>2, <1>3
<1>7. Slot(K, m, q, K) = p
  <2>1. CASE L < m BY <1>1, <1>2, <1>3, <2>1 DEF Slot
  <2>2. CASE L = m BY <1>1, <1>2, <1>3, <2>2 DEF Slot
  <2>3. QED BY <1>1, <2>1, <2>2
<1> DEFINE o(k) == IF L < m THEN k ELSE k + 1
<1>8. \A k \in 1 .. K - 1 : /\ o(k) \in 1..L
                            /\ Slot(K, m, q, k) = Slot(L, m, p, o(k))
                            /\ Slot(L, m, p, o(k)) # p
  <2>1. CASE L < m BY <1>1, <1>2, <1>3, <2>1 DEF Slot
  <2>2. CASE L = m BY <1>1, <1>2, <1>3, <2>2 DEF Slot
  <2>3. QED BY <1>1, <2>1, <2>2
<1>9. \A j \in 1..L : Slot(L, m, p, j) # p => \E k \in 1 .. K - 1 : o(k) = j
  <2>1. CASE L < m BY <1>1, <1>2, <2>1
  <2>2. CASE L = m
    <3> SUFFICES ASSUME NEW j \in 1..L, Slot(L, m, p, j) # p
                 PROVE  \E k \in 1 .. K - 1 : o(k) = j
      OBVIOUS
    <3>1. j # 1 BY <1>1, <2>2 DEF Slot
    <3>2. j - 1 \in 1 .. K - 1 /\ o(j - 1) = j BY <1>1, <1>2, <2>2, <3>1
    <3>3. QED BY <3>2
  <2>3. QED BY <1>1, <2>1, <2>2
<1>10. \A k \in 1 .. K - 1 : t[k] = s[o(k)] BY <1>2
<1> HIDE DEF o
<1> DEFINE bits == {Slot(K, m, q, k) : k \in G}
<1>11. bits \subseteq z.bits
  <2> SUFFICES ASSUME NEW k \in G PROVE Slot(K, m, q, k) \in z.bits
    OBVIOUS
  <2>1. CASE k = K
    <3>1. b BY <1>2, <1>5, <2>1
    <3>2. QED BY <1>4, <1>7, <2>1, <3>1
  <2>2. CASE k # K
    <3>1. k \in 1 .. K - 1 BY <1>5, <1>6, <2>2
    <3>2. s[o(k)] BY <1>5, <1>10, <3>1
    <3>3. o(k) \in F BY <1>5, <1>8, <3>1, <3>2
    <3>4. Slot(K, m, q, k) \in y.bits /\ Slot(K, m, q, k) # p BY <1>1, <1>8, <3>1, <3>3
    <3>5. QED BY <1>4, <3>4
  <2>3. QED BY <2>1, <2>2
<1>12. z.bits \subseteq bits
  <2> SUFFICES ASSUME NEW e \in z.bits PROVE e \in bits
    OBVIOUS
  <2>1. CASE e = p
    <3>1. CASE b
      <4>1. t[K] BY <1>2, <3>1
      <4>2. K \in G BY <1>5, <1>6, <4>1
      <4>3. QED BY <1>7, <2>1, <4>2
    <3>2. CASE ~ b BY <1>4, <2>1, <3>2
    <3>3. QED BY <3>1, <3>2
  <2>2. CASE e # p
    <3>1. e \in y.bits BY <1>4, <2>2
    <3>2. PICK j \in F : e = Slot(L, m, p, j) BY <1>1, <3>1
    <3>3. j \in 1..L /\ s[j] BY <1>5, <3>2
    <3>4. PICK k \in 1 .. K - 1 : o(k) = j BY <1>9, <2>2, <3>2, <3>3
    <3>5. t[k] BY <1>10, <3>3, <3>4
    <3>6. k \in G BY <1>5, <1>6, <3>5
    <3>7. e = Slot(K, m, q, k) BY <1>8, <3>2, <3>4
    <3>8. QED BY <3>6, <3>7
  <2>3. QED BY <2>1, <2>2
<1>13. z.bits = bits BY <1>11, <1>12
<1>14. q < m /\ m < z.size /\ (K < m => q = K) BY <1>6
<1>15. QED BY <1>13, <1>14 DEF InRing, K, q, G, t
(* What a counting rule was told of, what it remembers and its result agree *)
Counted(x, s, y, kind) ==
    /\ s \in Seq(BOOLEAN) /\ Len(s) <= Deep(x[1])
    /\ kind = "FAIL" <=> Cardinality(Failures(s)) >= type[x[1]].n
    /\ type[x[1]].op = "N_IN_ROW" => InRow(s, y.fails, type[x[1]].n)
    /\ type[x[1]].op = "N_IN_M" => InRing(s, y, type[x[1]].m)

CountingKnown ==
    /\ DOMAIN seen = Instances
    /\ TypesKept => \A x \in Own : Countable(x[1]) => Counted(x, seen[x], memory[x], last[x])

(* As many whole blocks of k are allocated as m fits in, with one to spare. *)
LEMMA WholeBlocks ==
    ASSUME NEW m \in Nat, NEW k \in Nat \ {0}
    PROVE  m < (m \div k + 1) * k
OBVIOUS

LEMMA RunCounts ==
    ASSUME Typed, NEW x \in Instances, NEW result, Countable(x[1]), ~ Ignores(x, result),
           Counted(x, seen[x], memory[x], last[x])
    PROVE  Counted(x, Told(x, result), Memory(x, result), RuleResult(x, result))
<1> DEFINE s == seen[x]
           y == memory[x]
           n == type[x[1]].n
           m == type[x[1]].m
           b == result[1] = "FAIL"
           d == Deep(x[1])
           z == Memory(x, result)
           t == Told(x, result)
<1>1. y \in [fails : 0..Most, bits : SUBSET Nat, pos : Nat, size : Nat]
      /\ type[x[1]] \in Types /\ b \in BOOLEAN /\ Most \in Nat
  BY NumbersAssumption DEF Typed, Instances
<1>2. n \in Nat \ {0} /\ d \in Nat \ {0} BY <1>1 DEF Countable, Deep, Types
<1>3. s \in Seq(BOOLEAN) /\ Len(s) <= d BY DEF Counted
<1>4. t = Slide(s, b, d) BY DEF Told, Countable, Slide
<1>5. t \in Seq(BOOLEAN) /\ Len(t) <= d
  <2>1. Len(s) \in Nat BY <1>3
  <2> HIDE DEF s, b, t, d
  <2>2. t \in Seq(BOOLEAN) /\ Len(t) = IF Len(s) < d THEN Len(s) + 1 ELSE d
    BY <1>1, <1>2, <1>3, <1>4, SlideFacts
  <2>3. QED BY <1>2, <1>3, <2>1, <2>2
<1>6. RuleResult(x, result) = "FAIL" <=> Fails(x, result) BY DEF RuleResult
<1>7. CASE type[x[1]].op = "N_IN_ROW"
  <2>1. d = n /\ n <= Most /\ InRow(s, y.fails, n) BY <1>7 DEF Countable, Deep, Counted
  <2>2. Fails(x, result) <=> b /\ y.fails + 1 >= n BY <1>7 DEF Fails
  <2>3. z.fails = IF ~ b THEN 0 ELSE IF y.fails = Most THEN Most ELSE y.fails + 1
    BY <1>1, <1>7 DEF Memory
  <2> DEFINE f == y.fails
             g == IF f = Most THEN Most ELSE f + 1
  <2>4. f \in Nat /\ g \in Nat /\ (g >= n <=> f + 1 >= n) /\ (g < n => g = f + 1)
        /\ f <= Most
    BY <1>1, <1>2, <2>1
  <2>5. z.fails = IF b THEN g ELSE 0 BY <2>3
  <2> HIDE DEF f, g, s, n, b, d, z, t, y
  <2>6. InRow(Slide(s, TRUE, n), g, n) /\ InRow(Slide(s, FALSE, n), 0, n)
    BY <1>2, <1>3, <2>1, <2>4, RowGoesOn DEF f
  <2>7. InRow(t, z.fails, n)
    <3>1. CASE b BY <1>4, <2>1, <2>5, <2>6, <3>1
    <3>2. CASE ~ b
      <4>1. b = FALSE BY <1>1, <3>2
      <4>2. QED BY <1>4, <2>1, <2>5, <2>6, <4>1
    <3>3. QED BY <3>1, <3>2
  <2>8. z.fails \in Nat /\ (z.fails >= n <=> b /\ f + 1 >= n) BY <1>2, <2>4, <2>5
  <2>9. z.fails >= n <=> Cardinality(Failures(t)) >= n
    BY <1>2, <1>5, <2>1, <2>7, <2>8, RowCounts
  <2>10. RuleResult(x, result) = "FAIL" <=> Cardinality(Failures(t)) >= n
    BY <1>6, <2>2, <2>8, <2>9 DEF f
  <2>11. QED BY <1>5, <1>7, <2>7, <2>10 DEF Counted, t, z, n, d
<1>8. CASE type[x[1]].op = "N_IN_M"
  <2>1. d = m /\ InRing(s, y, m) BY <1>8 DEF Countable, Deep, Counted
  <2> DEFINE size == IF y.size = 0 THEN (m \div Byte + 1) * Byte ELSE y.size
             pos == IF y.pos + 1 >= m THEN 0 ELSE y.pos + 1
             bits == IF b THEN y.bits \cup {y.pos} ELSE y.bits \ {y.pos}
  <2>2. size \in Nat /\ size > m /\ y.pos < m /\ m \in Nat \ {0}
    <3>1. Byte \in Nat \ {0} /\ m \in Nat \ {0} BY <1>2, <2>1, NumbersAssumption
    <3>2. (m \div Byte + 1) * Byte > m
      <4> HIDE DEF m
      <4>1. QED BY <3>1, WholeBlocks
    <3>3. (m \div Byte + 1) * Byte \in Nat
      <4>1. m \div Byte + 1 \in Nat BY <3>1
      <4>2. QED BY <3>1, <4>1
    <3>4. y.pos < m /\ (y.size = 0 \/ m < y.size) BY <2>1 DEF InRing
    <3>5. QED BY <1>1, <3>1, <3>2, <3>3, <3>4
  <2>3. z = Remembered(x, b) BY <1>8 DEF Memory
  <2>4. Remembered(x, b) =
          IF y.pos >= size THEN [y EXCEPT !.size = size]
          ELSE [y EXCEPT !.size = size, !.bits = bits, !.pos = pos]
    BY DEF Remembered
  <2>5. ~ (y.pos >= size) BY <1>1, <2>2
  <2> HIDE DEF size, pos, bits
  <2>6. z.size = size /\ z.bits = bits /\ z.pos = pos /\ Remembered(x, b).size = size
        /\ Remembered(x, b).bits = bits
    BY <1>1, <2>3, <2>4, <2>5
  <2>7. Fails(x, result) <=> Cardinality(bits) >= n
    <3>1. Fails(x, result) <=> /\ ~ (y.pos >= Remembered(x, b).size)
                               /\ Cardinality(Remembered(x, b).bits) >= n
      BY <1>8 DEF Fails, BitCount
    <3>2. QED BY <2>5, <2>6, <3>1
  <2>8. y.pos \in Nat /\ pos \in Nat BY <1>1 DEF pos
  <2> HIDE DEF s, n, m, b, d, z, t, y
  <2>9. InRing(Slide(s, b, m), z, m)
    <3>1. z.size > m BY <2>2, <2>6
    <3>2. z.bits = IF b THEN y.bits \cup {y.pos} ELSE y.bits \ {y.pos} BY <2>6 DEF bits
    <3>3. z.pos = IF y.pos + 1 >= m THEN 0 ELSE y.pos + 1 BY <2>6 DEF pos
    <3>4. QED BY <1>1, <1>3, <2>1, <2>2, <2>8, <3>1, <3>2, <3>3, RingGoesOn
  <2>10. InRing(t, z, m) BY <1>4, <2>1, <2>9
  <2>11. Cardinality(bits) = Cardinality(Failures(t))
    BY <1>5, <2>1, <2>2, <2>6, <2>8, <2>10, RingCounts
  <2>12. RuleResult(x, result) = "FAIL" <=> Cardinality(Failures(t)) >= n
    BY <1>6, <2>7, <2>11
  <2>13. QED BY <1>5, <1>8, <2>10, <2>12 DEF Counted, t, z, n, d, m
<1>9. QED BY <1>7, <1>8 DEF Countable, Counting
(* A base without members changes by no run but its own: what is run is an *)
(* instance the rule has.                                                  *)
LEMMA OwnStays ==
    ASSUME NEW w \in Workers, RuleRun(w), Top(w)[3] \in Has(Top(w)[2]),
           NEW x \in Own, x # <<Top(w)[2], Top(w)[3]>>
    PROVE  last'[x] = last[x]
<1> DEFINE y == <<Top(w)[2], Top(w)[3]>>
           kind == RuleResult(y, Top(w)[4])
           base == <<y[1], Base>>
           fresh == {z \in {y, base} : last[z] # kind
                                        /\ (z = y \/ kind = "FAIL" \/ BasePasses(y))}
<1>1. x \in Places BY DEF Own, Existing
<1>2. x # base
  <2> SUFFICES ASSUME x = base PROVE FALSE
    OBVIOUS
  <2>1. Members(y[1]) = {} BY DEF Own
  <2>2. y[2] = Base BY <2>1 DEF Members
  <2>3. QED BY <2>2
<1>3. x \notin fresh BY <1>2
<1>4. StatsUpdate(y, kind) BY DEF RuleRun
<1> HIDE DEF fresh
<1>5. last' = last \/ last' = [p \in Places |-> IF p \in fresh THEN kind ELSE last[p]]
  BY <1>4 DEF StatsUpdate, fresh
<1>6. QED BY <1>1, <1>3, <1>5

LEMMA RunKeepsCounting ==
    ASSUME Kept, RunsTogether, CountingKnown, NEW w \in Workers, RuleRun(w)
    PROVE  CountingKnown'
<1> DEFINE rule == Top(w)[2]
           name == Top(w)[3]
           result == Top(w)[4]
           y == <<rule, name>>
           kind == RuleResult(y, result)
           base == <<rule, Base>>
           fresh == {x \in {y, base} : last[x] # kind
                                        /\ (x = y \/ kind = "FAIL" \/ BasePasses(y))}
<1>1. w \in Threads /\ lock = w /\ stack[w] # <<>> /\ Top(w)[1] = "run"
      /\ rule \in Rules /\ name \in Names /\ y \in Places /\ y \in Instances
  BY RuleRunFacts
<1>2. UNCHANGED <<setup, type, calls>> /\ StatsUpdate(y, kind)
      /\ memory' = [memory EXCEPT ![y] = Memory(y, result)]
      /\ seen' = [seen EXCEPT ![y] = Told(y, result)]
  BY DEF RuleRun
<1>3. 1 \in DOMAIN stack[w] /\ stack[w][1] = Top(w) /\ Together(stack[w])
  BY <1>1 DEF Top, Kept, Typed, RunsTogether
<1>4. name \in Has(rule) BY <1>1, <1>3 DEF Together
<1>5. DOMAIN seen = Instances /\ DOMAIN memory = Instances /\ Typed
  BY DEF CountingKnown, Kept, Typed
<1>6. DOMAIN seen' = Instances BY <1>2, <1>5
<1>7. Own' = Own /\ TypesKept' = TypesKept
  BY <1>2 DEF Own, Existing, Members, Has, S, TypesKept
<1>8. ASSUME TypesKept, NEW x \in Own, Countable(x[1])
      PROVE  Counted(x, seen'[x], memory'[x], last'[x])
  <2>1. Counted(x, seen[x], memory[x], last[x]) BY <1>8 DEF CountingKnown
  <2>2. x \in Instances /\ x \in Places
    BY DEF Own, Existing, Places, Instances
  <2>3. CASE x = y
    <3>1. seen'[x] = Told(x, result) /\ memory'[x] = Memory(x, result)
      BY <1>1, <1>2, <1>5, <2>3
    <3>2. CASE Ignores(x, result)
      <4>1. Told(x, result) = seen[x] /\ Memory(x, result) = memory[x]
        BY <3>2 DEF Told, Memory
      <4>2. last'[x] = last[x]
        <5>1. kind = "ABORT" BY <2>3, <3>2 DEF RuleResult
        <5>2. last' = last BY <1>2, <5>1 DEF StatsUpdate
        <5>3. QED BY <5>2
      <4>3. QED BY <2>1, <3>1, <4>1, <4>2
    <3>3. CASE ~ Ignores(x, result)
      <4>1. kind \in {"PASS", "FAIL"} BY <2>3, <3>3, RuleResultFacts
      <4>2. last' = [p \in Places |-> IF p \in fresh THEN kind ELSE last[p]]
        BY <1>2, <4>1 DEF StatsUpdate
      <4>3. last'[x] = kind
        <5> HIDE DEF kind
        <5>1. QED BY <2>2, <2>3, <4>2
      <4>4. Counted(x, Told(x, result), Memory(x, result), RuleResult(x, result))
        <5> HIDE DEF result
        <5>1. QED BY <1>5, <1>8, <2>1, <2>2, <3>3, RunCounts
      <4>5. QED BY <2>3, <3>1, <4>3, <4>4
    <3>4. QED BY <3>2, <3>3
  <2>4. CASE x # y
    <3>1. seen'[x] = seen[x] /\ memory'[x] = memory[x] BY <1>2, <1>5, <2>2, <2>4
    <3>2. last'[x] = last[x] BY <1>4, <2>4, OwnStays
    <3>3. QED BY <2>1, <3>1, <3>2
  <2>5. QED BY <2>3, <2>4
<1>9. \A x \in Own : (Countable(x[1])' = Countable(x[1]))
         /\ (Counted(x, seen[x], memory[x], last[x])' = Counted(x, seen'[x], memory'[x], last'[x]))
  BY <1>2 DEF Countable, Counting, Counted, Deep
<1>10. QED BY <1>6, <1>7, <1>8, <1>9 DEF CountingKnown

(* While every type is what it was at first none has changed. *)
LEMMA TypesStay == [Next]_vars /\ TypesKept' => TypesKept /\ UNCHANGED type
<1> SUFFICES ASSUME [Next]_vars, TypesKept' PROVE TypesKept /\ UNCHANGED type
  OBVIOUS
<1>1. CASE Next
  <2>1. CASE \E r \in Rules, new \in NewTypes : RuleSetType(r, new)
    <3>1. PICK r \in Rules : Called(<<"type", r>>) BY <2>1 DEF RuleSetType
    <3>2. QED BY <3>1 DEF Called, TypesKept
  <2>2. CASE \E c \in Comps, h \in {0, Full} : HealthSet(c, h)
    <3>1. UNCHANGED type /\ calls \subseteq calls' BY <2>2 DEF HealthSet, Called
    <3>2. QED BY <3>1 DEF TypesKept
  <2>3. ASSUME UNCHANGED <<type, calls>> PROVE TypesKept /\ UNCHANGED type
    BY <2>3 DEF TypesKept
  <2>4. CASE \E w \in Workers : Take(w) \/ Step(w)
    <3>1. PICK w \in Workers : Take(w) \/ Step(w) BY <2>4
    <3>2. CASE Take(w) BY <2>3, <3>2 DEF Take
    <3>3. CASE ProcessInput(w) \/ RuleRun(w) \/ RuleRunRci(w) \/ RuleResultTold(w)
      BY <2>3, <3>3 DEF ProcessInput, RuleRun, RuleRunRci, RuleResultTold
    <3>4. CASE \/ \E result \in Gives(w) : TestResult(w, result)
               \/ TestResultRci(w) \/ RciRun(w)
      BY <2>3, <3>4 DEF TestResult, TestResultRci, RciRun
    <3>5. CASE RootCause(w) \/ \E passed \in BOOLEAN : ActionEnd(w, passed)
      BY <2>3, <3>5 DEF RootCause, ActionEnd
    <3>6. QED BY <3>1, <3>2, <3>3, <3>4, <3>5 DEF Step
  <2>5. CASE \E w \in Threads : CompHealth(w) BY <2>3, <2>5 DEF CompHealth
  <2>6. CASE \/ \E t \in Tests, i \in Names : Poll(t, i) \/ Redo(t, i)
             \/ \E t \in Tests, i \in Names : \E result \in S.given[t] : Notify(t, i, result)
    BY <2>3, <2>6 DEF Poll, Redo, Notify
  <2>7. QED BY <1>1, <2>1, <2>2, <2>4, <2>5, <2>6 DEF Next
<1>2. CASE UNCHANGED vars BY <1>2 DEF vars, TypesKept
<1>3. QED BY <1>1, <1>2

LEMMA NextKeepsCounting ==
    Kept /\ RunsTogether /\ CountingKnown /\ [Next]_vars => CountingKnown'
<1> SUFFICES ASSUME Kept, RunsTogether, CountingKnown, [Next]_vars PROVE CountingKnown'
  OBVIOUS
<1>1. ASSUME UNCHANGED <<setup, memory, seen>>, \A x \in Instances : last'[x] = last[x],
             TypesKept' => TypesKept /\ UNCHANGED type
      PROVE  CountingKnown'
  <2>1. DOMAIN seen' = Instances BY <1>1 DEF CountingKnown
  <2>2. Own' = Own BY <1>1 DEF Own, Existing, Members, Has, S
  <2>3. ASSUME TypesKept', NEW x \in Own, Countable(x[1])'
        PROVE  Counted(x, seen[x], memory[x], last[x])'
    <3>1. UNCHANGED type /\ TypesKept BY <1>1, <2>3
    <3>2. Countable(x[1]) BY <2>3, <3>1 DEF Countable, Counting, Deep
    <3>3. Counted(x, seen[x], memory[x], last[x]) BY <3>1, <3>2 DEF CountingKnown
    <3>4. x \in Instances BY DEF Own, Existing, Places, Instances
    <3>5. last'[x] = last[x] BY <1>1, <3>4
    <3>6. QED BY <1>1, <3>1, <3>3, <3>5 DEF Counted, Deep
  <2>4. QED BY <2>1, <2>2, <2>3 DEF CountingKnown
<1>2. ASSUME NEW w \in Workers, RuleRun(w) PROVE CountingKnown' BY <1>2, RunKeepsCounting
<1>3. ASSUME Next, ~ \E w \in Workers : RuleRun(w) PROVE CountingKnown'
  <2>1. UNCHANGED <<setup, memory, seen>>
    BY <1>3 DEF Next, Step, Take, TestResult, TestResultRci, ProcessInput, RuleRunRci,
                RuleResultTold, RciRun, RootCause, ActionEnd, CompHealth, Poll, Redo,
                Notify, RuleSetType, HealthSet, rules
  <2>2. \A x \in Instances : last'[x] = last[x]
    <3>1. CASE Calm BY <3>1 DEF Calm
    <3>2. ASSUME NEW w \in Workers, Passing(w) PROVE UNCHANGED last
      BY <3>2 DEF Passing
    <3>3. ASSUME NEW w \in Threads, CompHealth(w) PROVE UNCHANGED last
      BY <3>3 DEF CompHealth, rules
    <3>4. QED BY <1>3, <3>1, <3>2, <3>3, StepKinds
  <2>3. QED BY <1>1, <2>1, <2>2, TypesStay
<1>4. CASE UNCHANGED vars
  <2>1. UNCHANGED <<setup, memory, seen, last>> BY <1>4 DEF vars, rules
  <2>2. QED BY <1>1, <2>1, TypesStay
<1>5. QED BY <1>2, <1>3, <1>4

LEMMA StartsCounting == Init => CountingKnown
<1> SUFFICES ASSUME Init PROVE CountingKnown
  OBVIOUS
<1>1. Kept BY StartsKept
<1>2. DOMAIN seen = Instances BY DEF Init, Instances
<1>3. ASSUME NEW x \in Own, Countable(x[1])
      PROVE  Counted(x, seen[x], memory[x], last[x])
  <2>1. x \in Instances /\ x \in Places BY DEF Own, Existing, Places, Instances
  <2>2. /\ seen[x] = <<>> /\ last[x] = "PASS"
        /\ memory[x] = [fails |-> 0, bits |-> {}, pos |-> 0, size |-> 0]
    BY <2>1 DEF Init, Instances
  <2> DEFINE s == seen[x]
             n == type[x[1]].n
             m == type[x[1]].m
  <2>3. n \in Nat \ {0} /\ Deep(x[1]) \in Nat \ {0}
    <3>1. type[x[1]] \in Types BY <1>1, <2>1 DEF Kept, Typed, Instances
    <3>2. QED BY <1>3, <3>1 DEF Countable, Deep, Types
  <2>4. s \in Seq(BOOLEAN) /\ Len(s) = 0 /\ Failures(s) = {} BY <2>2 DEF Failures
  <2>5. Cardinality(Failures(s)) = 0 BY <2>4, FS_EmptySet
  <2>6. InRow(s, memory[x].fails, n)
    <3>1. memory[x].fails = 0 BY <2>2
    <3>2. (IF 0 < n THEN 0 ELSE n) = 0 BY <2>3
    <3> HIDE DEF s, n
    <3>3. QED BY <2>4, <3>1, <3>2 DEF InRow
  <2>7. type[x[1]].op = "N_IN_M" => InRing(s, memory[x], m)
    <3> SUFFICES ASSUME type[x[1]].op = "N_IN_M" PROVE InRing(s, memory[x], m)
      OBVIOUS
    <3>1. m \in Nat \ {0} BY <2>3 DEF Deep
    <3>2. memory[x].pos = 0 /\ memory[x].size = 0 /\ memory[x].bits = {} BY <2>2
    <3> HIDE DEF s, m
    <3>3. QED BY <2>4, <3>1, <3>2 DEF InRing
  <2>8. QED BY <2>2, <2>3, <2>4, <2>5, <2>6, <2>7 DEF Counted
<1>4. QED BY <1>2, <1>3 DEF CountingKnown

(* N in a row and N in M, counted with a number and with bits in a ring,   *)
(* are what the last results say.                                          *)
THEOREM CountingRight == Spec => []CountingFollowsHistory
<1> DEFINE Inv == Kept /\ RunsTogether /\ CountingKnown
<1>1. Init => Inv
  BY StartsKept, StartsTogether, StartsCounting
<1>2. Inv /\ [Next]_vars => Inv'
  BY NextKeeps, NextKeepsTogether, NextKeepsCounting
<1>3. Inv => CountingFollowsHistory
  BY DEF CountingKnown, CountingFollowsHistory, Counted
<1>4. QED BY <1>1, <1>2, <1>3, PTL DEF Spec

-----------------------------------------------------------------------------
(* Gates follow their inputs.  A gate that is not right is about to be run,*)
(* or one of the things left to do leads to it: the run of a rule before   *)
(* it in the chain, or the result of an input.                             *)

(* What is there of the instances of tests: a result is of one that exists *)
OfThere(q) ==
    \A k \in DOMAIN q : q[k][1] \in {"test", "result"} => q[k][3] \in Has(q[k][2])

TestsThere == OfThere(jobs) /\ \A w \in Threads : lock # w => OfThere(stack[w])

LEMMA StartsThere == Init => TestsThere
BY DEF Init, TestsThere, OfThere

(* A step of w that does something first leaves no more that waits. *)
LEMMA ProceedThere ==
    ASSUME Kept, TestsThere, NEW w \in Threads, lock \in {w, None}, stack[w] # <<>>,
           NEW todo \in Seq(Tasks), Proceed(w, todo), UNCHANGED setup, OfThere(jobs')
    PROVE  TestsThere'
<1>1. stack'[w] = todo \o Tail(stack[w]) /\ \A v \in Threads \ {w} : stack'[v] = stack[v]
  BY ProceedFacts DEF Kept
<1>2. lock' = IF todo \o Tail(stack[w]) = <<>> THEN None ELSE w BY DEF Proceed
<1>3. \A o : Has(o)' = Has(o) BY DEF Has, S
<1>4. ASSUME NEW v \in Threads, lock' # v PROVE OfThere(stack'[v])
  <2>1. CASE v = w
    <3>1. stack'[v] = <<>> BY <1>1, <1>2, <1>4, <2>1
    <3>2. QED BY <3>1 DEF OfThere
  <2>2. CASE v # w
    <3>1. lock # v BY <2>2, NamesAssumption
    <3>2. QED BY <1>1, <2>2, <3>1 DEF TestsThere
  <2>3. QED BY <2>1, <2>2
<1>5. QED BY <1>3, <1>4 DEF TestsThere, OfThere

(* What is queued is of an instance that exists, or is no test's. *)
LEMMA QueueThere ==
    ASSUME setup \in DOMAIN Setups, jobs \in Seq(Tasks), OfThere(jobs),
           NEW task \in Tasks, jobs' = Append(jobs, task),
           task[1] \in {"test", "result"} => task[3] \in Has(task[2])
    PROVE  OfThere(jobs')
<1>1. \A k \in DOMAIN jobs' : (k \in DOMAIN jobs /\ jobs'[k] = jobs[k]) \/ jobs'[k] = task
  OBVIOUS
<1>2. QED BY <1>1 DEF OfThere

LEMMA NextKeepsThere == Kept /\ TestsThere /\ [Next]_vars => TestsThere'
<1> SUFFICES ASSUME Kept, TestsThere, [Next]_vars PROVE TestsThere'
  OBVIOUS
<1> USE DEF Kept
<1>0. /\ setup \in DOMAIN Setups /\ jobs \in Seq(Tasks)
      /\ stack \in [Threads -> Seq(Tasks)] /\ OfThere(jobs) /\ None \notin Threads
  BY NamesAssumption DEF Typed, TestsThere
<1>1. ASSUME UNCHANGED <<setup, stack, lock>>, OfThere(jobs') PROVE TestsThere'
  <2>1. \A o : Has(o)' = Has(o) BY <1>1 DEF Has, S
  <2>2. stack' = stack /\ lock' = lock BY <1>1
  <2>3. \A w \in Threads : lock # w => OfThere(stack[w])' BY <2>1, <2>2 DEF TestsThere, OfThere
  <2>4. OfThere(jobs)' BY <1>1, <2>1 DEF OfThere
  <2>5. QED BY <2>2, <2>3, <2>4 DEF TestsThere
<1>2. ASSUME NEW w \in Workers, RuleRun(w) PROVE TestsThere'
  <2>1. UNCHANGED <<setup, jobs>> BY <1>2 DEF RuleRun
  <2>2. w \in Threads /\ lock = w /\ stack[w] # <<>> /\ \E todo \in Seq(Tasks) : Proceed(w, todo)
    BY <1>2, RuleRunFacts
  <2>3. OfThere(jobs') BY <1>0, <2>1
  <2>4. QED BY <2>1, <2>2, <2>3, ProceedThere
<1>3. ASSUME NEW w \in Workers, RciRun(w) PROVE TestsThere'
  <2>1. w \in Threads /\ lock = w /\ stack[w] # <<>> /\ UNCHANGED setup
        /\ Proceed(w, <<>>) /\ <<>> \in Seq(Tasks)
    BY <1>3, SeqFacts DEF RciRun, Threads, Doing
  <2>2. PICK q \in Seq(Tasks) : jobs' = jobs \o q /\ \A k \in DOMAIN q : q[k][1] = "cause"
    BY <1>3, RciRunKeeps
  <2>3. \A k \in DOMAIN jobs' : (k \in DOMAIN jobs /\ jobs'[k] = jobs[k])
                                \/ (k - Len(jobs) \in DOMAIN q /\ jobs'[k] = q[k - Len(jobs)])
    BY <1>0, <2>2
  <2>4. OfThere(jobs') BY <1>0, <2>2, <2>3 DEF OfThere
  <2>5. QED BY <2>1, <2>4, ProceedThere
<1>4. ASSUME NEW w \in Workers, NEW result \in Gives(w), TestResult(w, result)
      PROVE  TestsThere'
  <2>1. w \in Threads BY DEF Threads
  <2>2. Doing(w, "test") \/ Doing(w, "result") BY DEF Gives
  <2>3. stack[w] # <<>> /\ Top(w)[2] \in Tests /\ Top(w)[3] \in Names /\ Top(w)[4] \in Results
    BY <2>1, <2>2, DoingFacts DEF AboutTests
  <2>4. \E todo \in Seq(Tasks) : Proceed(w, todo)
    <3>1. result \in Results
      <4>1. S.given[Top(w)[2]] \subseteq Results BY <1>0, <2>3, SetupFacts
      <4>2. QED BY <2>3, <4>1 DEF Gives
    <3>2. S.first[Top(w)[2]] \in Rules \cup {None} BY <1>0, <2>3, SetupFacts
    <3>3. Process("process", S.first[Top(w)[2]], Top(w)[3], result) \in Seq(Tasks)
      BY <2>3, <3>1, <3>2, ProcessFacts
    <3>4. QED BY <1>4, <3>3 DEF TestResult
  <2>5. lock = None /\ UNCHANGED <<setup, jobs>> BY <1>4 DEF TestResult
  <2>6. OfThere(jobs') BY <1>0, <2>5
  <2>7. QED BY <2>1, <2>3, <2>4, <2>5, <2>6, ProceedThere
<1>5. ASSUME NEW w \in Workers, TestResultRci(w) PROVE TestsThere'
  <2>1. w \in Threads /\ Doing(w, "redo") /\ lock = None /\ UNCHANGED <<setup, jobs>>
    BY <1>5 DEF TestResultRci, Threads
  <2>2. stack[w] # <<>> /\ Top(w)[2] \in Tests /\ Top(w)[3] \in Names /\ Top(w)[4] \in Results
    BY <2>1, DoingFacts DEF AboutTests
  <2>3. S.first[Top(w)[2]] \in Rules \cup {None} BY <1>0, <2>2, SetupFacts
  <2>4. Process("reprocess", S.first[Top(w)[2]], Top(w)[3], Top(w)[4]) \in Seq(Tasks)
    BY <2>2, <2>3, ProcessFacts
  <2>5. \E todo \in Seq(Tasks) : Proceed(w, todo) BY <1>5, <2>4 DEF TestResultRci
  <2>6. OfThere(jobs') BY <1>0, <2>1
  <2>7. QED BY <2>1, <2>2, <2>5, <2>6, ProceedThere
<1>6. ASSUME NEW w \in Threads, NEW q, stack' = [stack EXCEPT ![w] = q], UNCHANGED setup,
             OfThere(q) \/ lock' = w, lock' \in {None, w}, lock = None, OfThere(jobs')
      PROVE  TestsThere'
  <2>1. \A v \in Threads : stack'[v] = IF v = w THEN q ELSE stack[v] BY <1>0, <1>6
  <2>2. \A o : Has(o)' = Has(o) BY <1>6 DEF Has, S
  <2>3. \A v \in Threads : lock' # v => OfThere(stack'[v])
    BY <1>0, <1>6, <2>1 DEF TestsThere
  <2>4. QED BY <1>6, <2>2, <2>3 DEF TestsThere, OfThere
<1>7. ASSUME NEW w \in Workers, RootCause(w) PROVE TestsThere'
  <2> DEFINE x == <<Top(w)[2], Top(w)[3]>>
             action == <<Todo("action", x[1], x[2], Top(w)[4])>>
  <2>1. PICK q \in {<<>>, action} : stack' = [stack EXCEPT ![w] = q] BY <1>7 DEF RootCause
  <2>2. OfThere(q) BY DEF OfThere, Todo
  <2>3. lock = None /\ UNCHANGED <<setup, jobs, lock>> BY <1>7 DEF RootCause
  <2>4. OfThere(jobs') BY <1>0, <2>3
  <2>5. QED BY <1>6, <2>1, <2>2, <2>3, <2>4 DEF Threads
<1>8. ASSUME NEW w \in Workers, NEW passed, ActionEnd(w, passed) PROVE TestsThere'
  <2>1. lock = None /\ UNCHANGED <<setup, jobs, lock>> /\ stack' = [stack EXCEPT ![w] = <<>>]
    BY <1>8 DEF ActionEnd
  <2>2. OfThere(<<>>) /\ OfThere(jobs') BY <1>0, <2>1 DEF OfThere
  <2>3. QED BY <1>6, <2>1, <2>2 DEF Threads
<1>9. ASSUME NEW w \in Workers, Take(w) PROVE TestsThere'
  <2> DEFINE test == Head(jobs)[2]
             seeing == <<Todo("result", test, Base, <<"VALUE", health[S.watches[test]]>>)>>
  <2>1. lock = None /\ jobs # <<>> /\ UNCHANGED <<setup, lock>> /\ jobs' = Tail(jobs)
    BY <1>9 DEF Take
  <2>2. PICK q \in {<<Head(jobs)>>, seeing} : stack' = [stack EXCEPT ![w] = q]
    BY <1>9 DEF Take
  <2>3. Head(jobs) = jobs[1] /\ 1 \in DOMAIN jobs
        /\ \A k \in DOMAIN Tail(jobs) : k + 1 \in DOMAIN jobs /\ Tail(jobs)[k] = jobs[k + 1]
    BY <1>0, <2>1
  <2>4. OfThere(<<Head(jobs)>>) BY <1>0, <2>3 DEF OfThere
  <2>5. OfThere(seeing)
    <3>1. \A o, result : OfThere(<<Todo("result", o, Base, result)>>)
      BY DEF OfThere, Todo, Has
    <3>2. QED BY <3>1
  <2>6. OfThere(Tail(jobs)) BY <1>0, <2>3 DEF OfThere
  <2>7. OfThere(q) BY <2>2, <2>4, <2>5
  <2>8. OfThere(jobs') BY <2>1, <2>6
  <2>9. QED BY <1>6, <2>1, <2>2, <2>7, <2>8 DEF Threads
<1>10. ASSUME NEW task \in Tasks, jobs' = Append(jobs, task), UNCHANGED <<setup, stack, lock>>,
              task[1] \in {"test", "result"} => task[3] \in Has(task[2])
       PROVE  TestsThere'
  BY <1>0, <1>1, <1>10, QueueThere
<1>11. ASSUME NEW t \in Tests, NEW i \in Names, Poll(t, i) \/ Redo(t, i) PROVE TestsThere'
  <2>1. CASE Poll(t, i)
    <3>1. Todo("test", t, i, <<"VALUE", 0>>) \in Tasks BY TaskFacts DEF AboutTests
    <3>2. QED BY <1>10, <2>1, <3>1 DEF Poll, Todo
  <2>2. CASE Redo(t, i)
    <3>1. <<last[<<t, i>>], 0>> \in Results
      BY TaskFacts DEF Typed, Places, Objs
    <3>2. Todo("redo", t, i, <<last[<<t, i>>], 0>>) \in Tasks BY <3>1, TaskFacts DEF AboutTests
    <3>3. QED BY <1>10, <2>2, <3>2 DEF Redo, Todo
  <2>3. QED BY <1>11, <2>1, <2>2
<1>12. ASSUME NEW t \in Tests, NEW i \in Names, NEW result \in S.given[t], Notify(t, i, result)
       PROVE  TestsThere'
  <2>1. result \in Results BY <1>0, SetupFacts
  <2>2. Todo("result", t, i, result) \in Tasks BY <2>1, TaskFacts DEF AboutTests
  <2>3. QED BY <1>10, <1>12, <2>2 DEF Notify, Todo
<1>13. ASSUME NEW r \in Rules, NEW new, RuleSetType(r, new) PROVE TestsThere'
  BY <1>0, <1>1, <1>13 DEF RuleSetType, threads
<1>14. ASSUME NEW c \in Comps, NEW h, HealthSet(c, h) PROVE TestsThere'
  <2>1. lock = None /\ lock' = App /\ UNCHANGED <<setup, jobs>>
        /\ \E q : stack' = [stack EXCEPT ![App] = q]
    BY <1>14 DEF HealthSet
  <2>2. OfThere(jobs') BY <1>0, <2>1
  <2>3. QED BY <1>6, <2>1, <2>2 DEF Threads
<1>15. ASSUME NEW w \in Threads, CompHealth(w) PROVE TestsThere'
  <2>1. stack[w] # <<>> /\ lock = w /\ UNCHANGED setup
        /\ \E todo \in Seq(Tasks) : Proceed(w, todo)
    BY <1>15, CompHealthFacts DEF CompHealth
  <2>2. OfThere(jobs')
    <3>1. CASE UNCHANGED jobs BY <1>0, <3>1
    <3>2. ASSUME NEW t, NEW h, jobs' = Append(jobs, Todo("result", t, Base, h)) PROVE OfThere(jobs')
      <4> DEFINE task == Todo("result", t, Base, h)
      <4>1. \A k \in DOMAIN jobs' : (k \in DOMAIN jobs /\ jobs'[k] = jobs[k]) \/ jobs'[k] = task
        <5> HIDE DEF task
        <5>1. jobs' = Append(jobs, task) BY <3>2 DEF task
        <5>2. QED BY <1>0, <5>1
      <4>2. task[3] \in Has(task[2]) BY DEF Todo, Has
      <4>3. QED BY <1>0, <4>1, <4>2 DEF OfThere
    <3>3. QED BY <1>15, <3>1, <3>2 DEF CompHealth
  <2>3. QED BY <2>1, <2>2, ProceedThere
<1>16. CASE UNCHANGED vars
  <2>1. UNCHANGED <<setup, stack, lock, jobs>> BY <1>16 DEF vars, threads
  <2>2. QED BY <1>0, <1>1, <2>1
<1>17. ASSUME NEW w \in Workers, ProcessInput(w) \/ RuleRunRci(w) \/ RuleResultTold(w)
       PROVE  TestsThere'
  <2>1. UNCHANGED jobs /\ UNCHANGED setup
    BY <1>17 DEF ProcessInput, RuleRunRci, RuleResultTold
  <2>2. w \in Threads /\ lock = w /\ stack[w] # <<>> /\ \E todo \in Seq(Tasks) : Proceed(w, todo)
    BY <1>17, ProcessedFacts, RerunFacts, ToldFacts
  <2>3. OfThere(jobs') BY <1>0, <2>1
  <2>4. QED BY <2>1, <2>2, <2>3, ProceedThere
<1>18. ASSUME NEW w \in Workers, Step(w) PROVE TestsThere'
  BY <1>2, <1>3, <1>4, <1>5, <1>7, <1>8, <1>17, <1>18 DEF Step
<1>19. QED BY <1>9, <1>11, <1>12, <1>13, <1>14, <1>15, <1>16, <1>18 DEF Next
-----------------------------------------------------------------------------
(* A result of the instance j of something is told to the instance i of r, *)
(* if it is told to r                                                      *)
Reached(r, i, j) == j \in Members(r) => i = j

(* What there is to do that the instance x of a gate will be run by        *)
LeadsTo(task, x) ==
    /\ task[4][1] # "ABORT"
    /\ \/ task[1] = "run" /\ task[2] = x[1] /\ task[3] = x[2]
       \/ task[1] = "process" /\ Chained(task[2], x[1]) /\ Reached(x[1], x[2], task[3])
       \/ task[1] = "told" /\ Feeds(task[2], x[1]) /\ Reached(x[1], x[2], task[3])

GateDue(x) == \E w \in Threads : \E k \in DOMAIN stack[w] : LeadsTo(stack[w][k], x)

GateRight(x) ==
    /\ type[x[1]].op = "OR" => (last[x] = "FAIL" <=> Inputs(x[1], x[2], "FAIL") # {})
    /\ type[x[1]].op = "AND" => (last[x] = "FAIL" <=> Inputs(x[1], x[2], "PASS") = {})

(* A gate that is told of its inputs follows them, or will be run. *)
GatesKnown == TypesKept => \A x \in Own : ToldOf(x) => GateRight(x) \/ GateDue(x)

(* What is chained to r is r, or is chained to the rule next to r. *)
LEMMA ChainFacts ==
    ASSUME setup \in DOMAIN Setups, NEW r \in Rules, NEW q \in Rules, Chained(r, q), q # r
    PROVE  S.next[r] \in Rules /\ Chained(S.next[r], q)
<1>1. S.next \in [Rules -> Rules \cup {None}] BY SetupFacts
<1>2. ASSUME S.next[r] = None PROVE FALSE
  <2>1. {r} \in SUBSET Rules /\ \A p \in {r} : S.next[p] \in {r} \cup {None} BY <1>2
  <2>2. q \in {r} BY <2>1 DEF Chained
  <2>3. QED BY <2>2
<1>3. ASSUME NEW C \in SUBSET Rules, S.next[r] \in C, \A p \in C : S.next[p] \in C \cup {None}
      PROVE  q \in C
  <2> DEFINE D == C \cup {r}
  <2>1. D \in SUBSET Rules /\ r \in D /\ \A p \in D : S.next[p] \in D \cup {None} BY <1>3
  <2> HIDE DEF D
  <2>2. q \in D BY <2>1 DEF Chained
  <2>3. QED BY <2>2 DEF D
<1>4. QED BY <1>1, <1>2, <1>3 DEF Chained

LEMMA ReachedIs ==
    ASSUME setup \in DOMAIN Setups, NEW r \in Rules, NEW i \in Has(r), NEW j \in Names,
           Reached(r, i, j)
    PROVE  \E k \in DOMAIN Reaches(r, j) : Reaches(r, j)[k] = i
<1>1. r \in Objs /\ S.insts[r] \in Seq(Insts) BY SetupFacts DEF Objs
<1>2. CASE Instance(r, j) # Base
  <2>1. j \in Members(r) BY <1>2 DEF Instance, Members
  <2>2. Reaches(r, j) = <<i>> BY <1>2, <2>1 DEF Reaches, Reached
  <2>3. QED BY <2>2
<1>3. CASE Instance(r, j) = Base
  <2> DEFINE q == S.insts[r]
  <2>1. Reaches(r, j) = <<Base>> \o q BY <1>3 DEF Reaches
  <2>2. i = Base \/ \E k \in DOMAIN q : q[k] = i BY <1>1, InstanceFacts DEF Members
  <2>3. q \in Seq(Insts) BY <1>1
  <2> HIDE DEF q
  <2>4. DOMAIN (<<Base>> \o q) = 1 .. Len(q) + 1 /\ (<<Base>> \o q)[1] = Base
        /\ \A k \in DOMAIN q : (<<Base>> \o q)[k + 1] = q[k]
    BY <2>3
  <2>5. DOMAIN q = 1..Len(q) /\ Len(q) \in Nat BY <2>3
  <2>6. CASE i = Base
    <3>1. 1 \in DOMAIN Reaches(r, j) /\ Reaches(r, j)[1] = i BY <2>1, <2>4, <2>5, <2>6
    <3>2. QED BY <3>1
  <2>7. ASSUME NEW k \in DOMAIN q, q[k] = i
        PROVE  \E n \in DOMAIN Reaches(r, j) : Reaches(r, j)[n] = i
    <3>1. k + 1 \in DOMAIN Reaches(r, j) /\ Reaches(r, j)[k + 1] = i
      BY <2>1, <2>4, <2>5, <2>7
    <3>2. QED BY <3>1
  <2>8. QED BY <2>2, <2>6, <2>7
<1>4. QED BY <1>2, <1>3

(* The inputs of a gate that is told of them change by no result but one   *)
(* it is told of.                                                          *)
LEMMA InputsChange ==
    ASSUME Typed, UNCHANGED setup, NEW o \in Objs, NEW j \in Has(o), NEW kind,
           StatsUpdate(<<o, j>>, kind), NEW x \in Own, ToldOf(x),
           \/ kind \notin {"PASS", "FAIL"} \/ o \notin S.inputs[x[1]]
           \/ ~ Reached(x[1], x[2], j)
    PROVE  \A result : Inputs(x[1], x[2], result)' = Inputs(x[1], x[2], result)
<1> DEFINE r == x[1]
           i == x[2]
           y == <<o, j>>
           base == <<o, Base>>
           fresh == {z \in {y, base} : last[z] # kind /\ (z = y \/ kind = "FAIL" \/ BasePasses(y))}
<1>1. S' = S /\ \A q, n : Instance(q, n)' = Instance(q, n) BY DEF S, Instance, Has
<1>2. r \in Rules BY DEF Own
<1>3. S.inputs[r] \subseteq Objs BY <1>2, SetupFacts DEF Typed
<1>4. ASSUME NEW q \in S.inputs[r]
      PROVE  last'[<<q, Instance(q, i)>>] = last[<<q, Instance(q, i)>>]
  <2> DEFINE z == <<q, Instance(q, i)>>
  <2>1. z \in Places
    <3>1. Instance(q, i) \in Names BY <1>3, InstanceFacts DEF Typed
    <3>2. QED BY <1>3, <3>1 DEF Places
  <2>2. CASE kind \notin {"PASS", "FAIL"} BY <2>2 DEF StatsUpdate
  <2>3. CASE kind \in {"PASS", "FAIL"}
    <3>1. last' = [p \in Places |-> IF p \in fresh THEN kind ELSE last[p]]
      BY <2>3 DEF StatsUpdate
    <3>2. z \notin {y, base}
      <4> SUFFICES ASSUME z \in {y, base} PROVE FALSE
        OBVIOUS
      <4>1. q = o /\ (Instance(o, i) = j \/ Instance(o, i) = Base) OBVIOUS
      <4>2. j \in Members(r) /\ i # j BY <2>3, <4>1 DEF Reached
      <4>3. j # Base BY <4>2 DEF Members
      <4>4. Instance(o, i) # j
        <5>1. Instance(o, i) # Base => Instance(o, i) = i
          BY InstanceFacts DEF Typed
        <5>2. QED BY <4>2, <4>3, <5>1
      <4>5. i = Base \/ i \notin Has(o) BY <4>1, <4>4 DEF Instance
      <4>6. i # Base BY <4>2 DEF Own
      <4>7. Members(o) \cap Members(r) = {} BY <4>1, <4>5, <4>6 DEF ToldOf
      <4>8. j \in Members(o) BY <4>3 DEF Members
      <4>9. QED BY <4>2, <4>7, <4>8
    <3> HIDE DEF y, base
    <3>3. z \notin fresh BY <3>2
    <3> HIDE DEF fresh, z
    <3>4. last'[z] = last[z] BY <2>1, <3>1, <3>3
    <3>5. QED BY <3>4 DEF z
  <2>4. QED BY <2>2, <2>3
<1>5. QED BY <1>1, <1>4 DEF Inputs
LEMMA DueAgain ==
    ASSUME UNCHANGED setup, NEW x, NEW w \in Threads, NEW k \in DOMAIN stack'[w],
           LeadsTo(stack'[w][k], x)
    PROVE  GateDue(x)'
<1>1. S' = S BY DEF S
<1>2. LeadsTo(stack[w][k], x)' <=> LeadsTo(stack'[w][k], x)
  BY <1>1 DEF LeadsTo, Chained, Feeds, Reached, Members, Has
<1>3. QED BY <1>2 DEF GateDue

(* What is to lead to a gate stays so, but for what is done. *)
LEMMA GateDueStays ==
    ASSUME Kept, NEW w \in Threads, stack[w] # <<>>, lock = w,
           NEW todo \in Seq(Tasks), Proceed(w, todo), UNCHANGED setup,
           NEW x, GateDue(x), ~ LeadsTo(Top(w), x)
    PROVE  GateDue(x)'
<1>0. PICK v \in Threads : \E k \in DOMAIN stack[v] : LeadsTo(stack[v][k], x) BY DEF GateDue
<1>1. PICK k \in DOMAIN stack[v] : LeadsTo(stack[v][k], x) BY <1>0
<1>2. ~ (v = w /\ k = 1) BY <1>1 DEF Top
<1>3. PICK n \in DOMAIN stack'[v] : stack'[v][n] = stack[v][k] BY <1>2, TasksStay
<1>4. LeadsTo(stack'[v][n], x) BY <1>1, <1>3
<1>5. QED BY <1>4, DueAgain

LEMMA TodoIsDue ==
    ASSUME Kept, NEW w \in Threads, stack[w] # <<>>, lock = w,
           NEW todo \in Seq(Tasks), Proceed(w, todo), UNCHANGED setup,
           NEW x, NEW k \in DOMAIN todo, LeadsTo(todo[k], x)
    PROVE  GateDue(x)'
<1>1. k \in DOMAIN stack'[w] /\ stack'[w][k] = todo[k] BY TasksStay
<1>2. LeadsTo(stack'[w][k], x) BY <1>1
<1>3. QED BY <1>1, <1>2, DueAgain

LEMMA NoneDue ==
    ASSUME Kept, Free, NEW x
    PROVE  ~ GateDue(x)
<1>1. \A w \in Threads : lock # w BY NamesAssumption DEF Free
<1>2. \A w \in Threads : \A k \in DOMAIN stack[w] : stack[w][k][1] \in Waits
  BY <1>1 DEF Kept, Locked, OnlyWaits
<1>3. QED BY <1>2 DEF GateDue, LeadsTo, Waits

LEMMA RightStays ==
    ASSUME UNCHANGED type, NEW x, GateRight(x), last'[x] = last[x],
           \A result : Inputs(x[1], x[2], result)' = Inputs(x[1], x[2], result)
    PROVE  GateRight(x)'
BY DEF GateRight

(* A step that does not change what a gate is keeps it known, if it keeps  *)
(* each gate right or due that was.                                        *)
LEMMA GatesStay ==
    ASSUME GatesKnown, [Next]_vars, UNCHANGED setup,
           \A x \in Own : ToldOf(x) /\ UNCHANGED type /\ (GateRight(x) \/ GateDue(x)) =>
                             GateRight(x)' \/ GateDue(x)'
    PROVE  GatesKnown'
<1>1. S' = S BY DEF S
<1>2. Own' = Own BY <1>1 DEF Own, Existing, Members, Has
<1>3. ASSUME TypesKept', NEW x \in Own, ToldOf(x)' PROVE GateRight(x)' \/ GateDue(x)'
  <2>1. TypesKept /\ UNCHANGED type BY <1>3, TypesStay
  <2>2. ToldOf(x) BY <1>1, <1>3, <2>1 DEF ToldOf, Feeds, Chained, Has, Members
  <2>3. QED BY <1>3, <2>1, <2>2 DEF GatesKnown
<1>4. QED BY <1>2, <1>3 DEF GatesKnown

(* With the lock free, and no result of a test *)
LEMMA CalmKeepsGates ==
    ASSUME Kept, GatesKnown, [Next]_vars, UNCHANGED <<setup, last>>,
           Free \/ UNCHANGED stack
    PROVE  GatesKnown'
<1>1. S' = S BY DEF S
<1>2. ASSUME NEW x \in Own, UNCHANGED type, GateRight(x) PROVE GateRight(x)'
  <2>1. \A result : Inputs(x[1], x[2], result)' = Inputs(x[1], x[2], result)
    BY <1>1 DEF Inputs, Instance, Has
  <2>2. QED BY <1>2, <2>1, RightStays
<1>3. ASSUME NEW x \in Own, GateDue(x) PROVE GateDue(x)'
  <2>1. UNCHANGED stack BY <1>3, NoneDue
  <2>2. PICK w \in Threads : \E k \in DOMAIN stack[w] : LeadsTo(stack[w][k], x)
    BY <1>3 DEF GateDue
  <2>3. \E k \in DOMAIN stack'[w] : LeadsTo(stack'[w][k], x) BY <2>1, <2>2
  <2>4. QED BY <2>3, DueAgain
<1>4. QED BY <1>2, <1>3, GatesStay

(* A step of the thread with the lock that changes no result, and leads on *)
(* to each gate it has led to                                              *)
LEMMA PassingKeepsGates ==
    ASSUME Kept, GatesKnown, [Next]_vars, UNCHANGED <<setup, last>>,
           NEW w \in Threads, stack[w] # <<>>, lock = w,
           NEW todo \in Seq(Tasks), Proceed(w, todo),
           \A x \in Own : LeadsTo(Top(w), x) => \E k \in DOMAIN todo : LeadsTo(todo[k], x)
    PROVE  GatesKnown'
<1>1. S' = S BY DEF S
<1>2. ASSUME NEW x \in Own, UNCHANGED type, GateRight(x) PROVE GateRight(x)'
  <2>1. \A result : Inputs(x[1], x[2], result)' = Inputs(x[1], x[2], result)
    BY <1>1 DEF Inputs, Instance, Has
  <2>2. QED BY <1>2, <2>1, RightStays
<1>3. ASSUME NEW x \in Own, GateDue(x) PROVE GateDue(x)'
  <2>1. CASE LeadsTo(Top(w), x) BY <2>1, TodoIsDue
  <2>2. CASE ~ LeadsTo(Top(w), x) BY <1>3, <2>2, GateDueStays
  <2>3. QED BY <2>1, <2>2
<1>4. QED BY <1>2, <1>3, GatesStay

LEMMA ProcessKeepsGates ==
    ASSUME Kept, GatesKnown, Next, NEW w \in Workers, ProcessInput(w)
    PROVE  GatesKnown'
<1> DEFINE r == Top(w)[2]
           j == Top(w)[3]
           result == Top(w)[4]
           what == IF result[1] = "ABORT" THEN "rci"
                   ELSE IF Doing(w, "process") THEN "run" ELSE "rerun"
           is == Reaches(r, j)
           each == Each(what, r, is, result)
           next == Process(Top(w)[1], S.next[r], j, result)
           todo == Processed(w)
<1>1. /\ w \in Threads /\ lock = w /\ stack[w] # <<>>
      /\ r \in Rules /\ j \in Names /\ result \in Results
      /\ todo \in Seq(Tasks) /\ Proceed(w, todo)
  BY ProcessedFacts
<1>2. UNCHANGED <<setup, last>> BY DEF ProcessInput, rules
<1>3. setup \in DOMAIN Setups /\ S.next[r] \in Rules \cup {None}
  BY <1>1, SetupFacts DEF Kept, Typed
<1>4. is \in Seq(Names) /\ what \in AboutRules BY <1>1, <1>3, ReachesFacts DEF AboutRules
<1> HIDE DEF what, is
<1>5. each \in Seq(Tasks) /\ Len(each) = Len(is)
      /\ \A k \in DOMAIN is : each[k] = Todo(what, r, is[k], result)
  BY <1>1, <1>3, <1>4, EachFacts
<1>6. next \in Seq(Tasks)
  <2>1. Top(w)[1] \in {"process", "reprocess"} BY ProcessedFacts
  <2>2. QED BY <1>1, <1>3, <2>1, ProcessFacts
<1>7. todo = each \o next BY DEF Processed, what, is
<1> HIDE DEF todo, each
<1>8. ASSUME NEW x \in Own, LeadsTo(Top(w), x)
      PROVE  \E k \in DOMAIN todo : LeadsTo(todo[k], x)
  <2>1. Top(w)[1] = "process" /\ Chained(r, x[1]) /\ Reached(x[1], x[2], j)
        /\ result[1] # "ABORT"
    BY <1>1, ProcessedFacts, <1>8 DEF LeadsTo
  <2>2. x[1] \in Rules /\ x[2] \in Has(x[1]) BY DEF Own, Existing
  <2>3. CASE x[1] = r
    <3>1. PICK k \in DOMAIN is : is[k] = x[2]
      BY <1>1, <1>3, <2>1, <2>2, <2>3, ReachedIs DEF is
    <3>2. each[k] = Todo("run", r, x[2], result)
      <4>1. Doing(w, "process") BY <1>1, <2>1 DEF Doing
      <4>2. what = "run" BY <2>1, <4>1 DEF what
      <4>3. QED BY <1>5, <3>1, <4>2
    <3>3. k \in DOMAIN todo /\ todo[k] = each[k] BY <1>4, <1>5, <1>6, <1>7, <3>1
    <3>4. LeadsTo(todo[k], x) BY <2>1, <2>3, <3>2, <3>3 DEF LeadsTo, Todo
    <3>5. QED BY <3>3, <3>4
  <2>4. CASE x[1] # r
    <3>1. S.next[r] \in Rules /\ Chained(S.next[r], x[1])
      BY <1>1, <1>3, <2>1, <2>2, <2>4, ChainFacts
    <3>2. next = <<Todo("process", S.next[r], j, result)>>
      BY <2>1, <3>1, NamesAssumption DEF Process
    <3>3. LeadsTo(next[1], x) BY <2>1, <3>1, <3>2 DEF LeadsTo, Todo
    <3>4. 1 \in DOMAIN next BY <3>2
    <3> HIDE DEF next
    <3>5. Len(each) + 1 \in DOMAIN todo /\ todo[Len(each) + 1] = next[1]
      BY <1>5, <1>6, <1>7, <3>4
    <3>6. QED BY <3>3, <3>5
  <2>5. QED BY <2>3, <2>4
<1>9. QED BY <1>1, <1>2, <1>8, PassingKeepsGates
(* A result goes to the instances of the output that lead to the gate. *)
LEMMA ToldKeepsGates ==
    ASSUME Kept, GatesKnown, Next, NEW w \in Workers, RuleResultTold(w)
    PROVE  GatesKnown'
<1> DEFINE o == Top(w)[2]
           j == Top(w)[3]
           result == Top(w)[4]
           out == S.output[o]
           outs == IF out = None THEN <<>> ELSE Each("process", out, Reaches(out, j), result)
           rci == Todo("rci", o, j, result)
           todo == ToldTodo(w)
<1>1. /\ w \in Threads /\ lock = w /\ stack[w] # <<>> /\ Top(w)[1] = "told"
      /\ todo \in Seq(Tasks) /\ Proceed(w, todo)
  BY ToldFacts
<1>2. UNCHANGED <<setup, last>> BY DEF RuleResultTold, rules
<1>3. Doing(w, "told") BY DEF RuleResultTold
<1>4. o \in Rules /\ j \in Names /\ result \in Results
  BY <1>1, <1>3, DoingFacts DEF AboutRules, Kept
<1>5. setup \in DOMAIN Setups /\ out \in Rules \cup {None}
  BY <1>4, SetupFacts DEF Kept, Typed
<1>6. todo = outs \o <<rci>> BY DEF ToldTodo
<1> HIDE DEF todo
<1>7. ASSUME NEW x \in Own, LeadsTo(Top(w), x)
      PROVE  \E k \in DOMAIN todo : LeadsTo(todo[k], x)
  <2>1. Feeds(o, x[1]) /\ Reached(x[1], x[2], j) /\ result[1] # "ABORT"
    BY <1>1, <1>7 DEF LeadsTo
  <2>2. out \in Rules /\ Chained(out, x[1])
    BY <1>4, <1>5, <2>1, NamesAssumption DEF Feeds
  <2> DEFINE is == Reaches(out, j)
             i == IF j \in Members(out) THEN j ELSE Base
             each == Each("process", out, is, result)
  <2>3. i \in Has(out) BY DEF Members, Has
  <2>4. Reached(out, i, j) BY DEF Reached
  <2>5. Reached(x[1], x[2], i) BY <2>1 DEF Reached, Members
  <2> HIDE DEF i
  <2>6. PICK k \in DOMAIN is : is[k] = i BY <1>4, <1>5, <2>2, <2>3, <2>4, ReachedIs
  <2>7. is \in Seq(Names) BY <1>4, <1>5, <2>2, ReachesFacts
  <2> HIDE DEF is
  <2>8. each \in Seq(Tasks) /\ Len(each) = Len(is)
        /\ \A n \in DOMAIN is : each[n] = Todo("process", out, is[n], result)
    <3>1. "process" \in AboutRules BY DEF AboutRules
    <3>2. QED BY <1>4, <1>5, <2>2, <2>7, <3>1, EachFacts
  <2>9. LeadsTo(each[k], x)
    <3>1. each[k] = Todo("process", out, i, result) BY <2>6, <2>8
    <3> HIDE DEF each, result, out
    <3>2. /\ each[k][1] = "process" /\ each[k][2] = out
          /\ each[k][3] = i /\ each[k][4] = result
      BY <3>1 DEF Todo
    <3>3. QED BY <2>1, <2>2, <2>5, <3>2 DEF LeadsTo
  <2>10. outs = each BY <2>2, NamesAssumption DEF is
  <2> HIDE DEF each, outs, rci
  <2>11. k \in DOMAIN todo /\ todo[k] = each[k] BY <1>6, <2>7, <2>8, <2>10
  <2>12. QED BY <2>9, <2>11
<1>8. QED BY <1>1, <1>2, <1>7, PassingKeepsGates

(* The run of a rule tells the gates it is an input of, if it changes what *)
(* they see; and what is run is right.                                     *)
LEMMA RunKeepsGates ==
    ASSUME Kept, RunsTogether, GatesKnown, Next, NEW w \in Workers, RuleRun(w)
    PROVE  GatesKnown'
<1> DEFINE o == Top(w)[2]
           j == Top(w)[3]
           result == Top(w)[4]
           y == <<o, j>>
           kind == RuleResult(y, result)
           told == Todo("told", o, j, <<kind, 0>>)
           todo == RunTodo(w)
<1>1. /\ w \in Threads /\ lock = w /\ stack[w] # <<>> /\ Top(w)[1] = "run"
      /\ o \in Rules /\ j \in Names /\ y \in Places
      /\ todo \in Seq(Tasks) /\ Proceed(w, todo)
  BY RuleRunFacts
<1>2. UNCHANGED setup /\ StatsUpdate(y, kind) BY DEF RuleRun
<1>3. j \in Has(o)
  <2>1. 1 \in DOMAIN stack[w] /\ stack[w][1] = Top(w) /\ Together(stack[w])
    BY <1>1 DEF Top, Kept, Typed, RunsTogether
  <2>2. QED BY <1>1, <2>1 DEF Together
<1>4. \E k \in DOMAIN todo : todo[k] = told
  <2> DEFINE first == HealthTodo(o, kind)
  <2>1. todo = first \o <<told>> BY DEF RunTodo
  <2>2. first = <<>> \/ \E task : first = <<task>> BY DEF HealthTodo
  <2> HIDE DEF first, told, todo
  <2>3. CASE first = <<>>
    <3>1. todo = <<told>> BY <2>1, <2>3
    <3>2. QED BY <3>1
  <2>4. ASSUME NEW task, first = <<task>>
        PROVE  \E k \in DOMAIN todo : todo[k] = told
    <3>1. <<task>> \in Seq({task, told}) /\ <<told>> \in Seq({task, told}) OBVIOUS
    <3>2. 2 \in DOMAIN todo /\ todo[2] = told BY <2>1, <2>4, <3>1
    <3>3. QED BY <3>2
  <2>5. QED BY <2>2, <2>3, <2>4
<1> HIDE DEF todo
<1>5. ASSUME NEW x \in Own, ToldOf(x), UNCHANGED type, GateRight(x) \/ GateDue(x)
      PROVE  GateRight(x)' \/ GateDue(x)'
  <2>1. CASE kind \in {"PASS", "FAIL"} /\ o \in S.inputs[x[1]] /\ Reached(x[1], x[2], j)
    <3>1. LeadsTo(told, x) BY <1>5, <2>1 DEF LeadsTo, ToldOf, Todo
    <3>2. QED BY <1>1, <1>2, <1>4, <3>1, TodoIsDue
  <2>2. CASE \/ kind \notin {"PASS", "FAIL"} \/ o \notin S.inputs[x[1]]
             \/ ~ Reached(x[1], x[2], j)
    <3>1. \A v : Inputs(x[1], x[2], v)' = Inputs(x[1], x[2], v)
      <4> HIDE DEF kind
      <4>1. o \in Objs /\ Typed BY <1>1 DEF Objs, Kept
      <4>2. QED BY <1>2, <1>3, <1>5, <2>2, <4>1, InputsChange
    <3>2. CASE x = y
      <4>1. CASE type[x[1]].op \in {"OR", "AND"}
        <5>1. ~ Ignores(x, result) BY <4>1 DEF Ignores
        <5>2. kind = IF Fails(x, result) THEN "FAIL" ELSE "PASS" BY <3>2, <5>1 DEF RuleResult
        <5>3. last'[x] = kind
          <6> DEFINE base == <<o, Base>>
                     fresh == {z \in {y, base} : last[z] # kind
                                                  /\ (z = y \/ kind = "FAIL" \/ BasePasses(y))}
          <6>1. last' = [p \in Places |-> IF p \in fresh THEN kind ELSE last[p]]
            BY <1>2, <5>2 DEF StatsUpdate
          <6> HIDE DEF kind
          <6>2. QED BY <1>1, <3>2, <6>1
        <5>4. type[x[1]].op = "OR" => (Fails(x, result) <=> Inputs(x[1], x[2], "FAIL") # {})
          BY DEF Fails
        <5>5. type[x[1]].op = "AND" => (Fails(x, result) <=> Inputs(x[1], x[2], "PASS") = {})
          BY DEF Fails
        <5>6. GateRight(x)' BY <1>5, <3>1, <5>2, <5>3, <5>4, <5>5 DEF GateRight
        <5>7. QED BY <5>6
      <4>2. CASE type[x[1]].op \notin {"OR", "AND"}
        <5>1. GateRight(x)' BY <1>5, <4>2 DEF GateRight
        <5>2. QED BY <5>1
      <4>3. QED BY <4>1, <4>2
    <3>3. CASE x # y
      <4>1. last'[x] = last[x] BY <1>3, <3>3, OwnStays
      <4>2. ASSUME GateRight(x) PROVE GateRight(x)' BY <1>5, <3>1, <4>1, <4>2, RightStays
      <4>3. ASSUME GateDue(x) PROVE GateDue(x)'
        <5>1. ~ LeadsTo(Top(w), x)
          <6>1. x = <<x[1], x[2]>> BY DEF Own, Existing, Places
          <6>2. QED BY <1>1, <3>3, <6>1 DEF LeadsTo
        <5>2. QED BY <1>1, <1>2, <4>3, <5>1, GateDueStays
      <4>4. QED BY <1>5, <4>2, <4>3
    <3>4. QED BY <3>2, <3>3
  <2>3. QED BY <2>1, <2>2
<1>6. QED BY <1>2, <1>5, GatesStay

(* The result of a test is told to the rules of its chain, and what they   *)
(* are told of it is of an instance of the test that exists.               *)
LEMMA TestKeepsGates ==
    ASSUME Kept, TestsThere, GatesKnown, Next,
           NEW w \in Workers, NEW result \in Gives(w), TestResult(w, result)
    PROVE  GatesKnown'
<1> DEFINE t == Top(w)[2]
           j == Top(w)[3]
           todo == Process("process", S.first[t], j, result)
<1>1. w \in Threads /\ lock = None /\ lock # w /\ UNCHANGED setup
      /\ StatsUpdate(<<t, j>>, result[1]) /\ Proceed(w, todo)
  BY NamesAssumption DEF Threads, TestResult
<1>2. Doing(w, "test") \/ Doing(w, "result") BY DEF Gives
<1>3. stack[w] # <<>> /\ t \in Tests /\ j \in Names
      /\ Top(w)[1] \in {"test", "result"} /\ Top(w)[4] \in Results
  BY <1>1, <1>2, DoingFacts DEF AboutTests, Kept
<1>4. j \in Has(t)
  <2>1. 1 \in DOMAIN stack[w] /\ stack[w][1] = Top(w) /\ OfThere(stack[w])
    BY <1>1, <1>3 DEF Top, Kept, Typed, TestsThere
  <2>2. QED BY <1>3, <2>1 DEF OfThere
<1>5. t \in Objs /\ Typed /\ Free BY <1>1, <1>3 DEF Objs, Kept, Free
<1>6. todo \in Seq(Tasks)
  <2>1. S.given[t] \subseteq Results /\ S.first[t] \in Rules \cup {None}
    BY <1>3, <1>5, SetupFacts DEF Typed
  <2>2. result \in Results BY <1>3, <2>1 DEF Gives
  <2>3. QED BY <1>3, <2>1, <2>2, ProcessFacts
<1>7. stack'[w] = todo \o Tail(stack[w]) /\ stack[w] \in Seq(Tasks)
  BY <1>1, <1>3, <1>6, ProceedFacts DEF Kept, Typed
<1>8. ASSUME NEW x \in Own, ToldOf(x), UNCHANGED type, GateRight(x) \/ GateDue(x)
      PROVE  GateRight(x)' \/ GateDue(x)'
  <2>1. CASE result[1] \in {"PASS", "FAIL"} /\ t \in S.inputs[x[1]] /\ Reached(x[1], x[2], j)
    <3>1. S.first[t] # None /\ Chained(S.first[t], x[1])
      BY <1>3, <1>8, <2>1 DEF ToldOf, Feeds
    <3>2. todo = <<Todo("process", S.first[t], j, result)>> BY <3>1 DEF Process
    <3>3. LeadsTo(todo[1], x) BY <2>1, <3>1, <3>2 DEF LeadsTo, Todo
    <3>4. 1 \in DOMAIN todo BY <3>2
    <3> HIDE DEF todo
    <3>5. 1 \in DOMAIN stack'[w] /\ stack'[w][1] = todo[1]
      BY <1>3, <1>6, <1>7, <3>4
    <3>6. LeadsTo(stack'[w][1], x) BY <3>3, <3>5
    <3>7. QED BY <1>1, <3>5, <3>6, DueAgain
  <2>2. CASE \/ result[1] \notin {"PASS", "FAIL"} \/ t \notin S.inputs[x[1]]
             \/ ~ Reached(x[1], x[2], j)
    <3>1. \A v : Inputs(x[1], x[2], v)' = Inputs(x[1], x[2], v)
      BY <1>1, <1>4, <1>5, <1>8, <2>2, InputsChange
    <3>2. last'[x] = last[x]
      <4>1. <<t, j>> \in Tests \X Names BY <1>3
      <4>2. x \in Instances BY DEF Own, Existing, Places, Instances
      <4>3. QED BY <1>1, <1>5, <4>1, <4>2, TestChangesNoRule
    <3>3. GateRight(x) BY <1>5, <1>8, NoneDue
    <3>4. GateRight(x)' BY <1>8, <3>1, <3>2, <3>3, RightStays
    <3>5. QED BY <3>4
  <2>3. QED BY <2>1, <2>2
<1>9. QED BY <1>1, <1>8, GatesStay

LEMMA NextKeepsGates ==
    Kept /\ RunsTogether /\ TestsThere /\ GatesKnown /\ [Next]_vars => GatesKnown'
<1> SUFFICES ASSUME Kept, RunsTogether, TestsThere, GatesKnown, [Next]_vars
             PROVE  GatesKnown'
  OBVIOUS
<1>1. ASSUME NEW w \in Threads, lock = w, stack[w] # <<>>, UNCHANGED <<setup, last>>,
             Top(w)[1] \in {"rerun", "rci", "health"}, NEW todo \in Seq(Tasks), Proceed(w, todo)
      PROVE  GatesKnown'
  <2>1. \A x \in Own : ~ LeadsTo(Top(w), x) BY <1>1 DEF LeadsTo
  <2>2. QED BY <1>1, <2>1, PassingKeepsGates
<1>2. ASSUME NEW w \in Workers, RuleRunRci(w) PROVE GatesKnown'
  <2>1. UNCHANGED <<setup, last>> BY <1>2 DEF RuleRunRci, rules
  <2>2. QED BY <1>1, <1>2, <2>1, RerunFacts
<1>3. ASSUME NEW w \in Workers, RciRun(w) PROVE GatesKnown'
  <2>1. w \in Threads /\ lock = w /\ stack[w] # <<>> /\ Top(w)[1] = "rci"
        /\ UNCHANGED <<setup, last>> /\ Proceed(w, <<>>)
    BY <1>3 DEF RciRun, rules, Doing, Threads
  <2>2. QED BY <1>1, <2>1, SeqFacts
<1>4. ASSUME NEW w \in Threads, CompHealth(w) PROVE GatesKnown'
  <2>1. UNCHANGED <<setup, last>> BY <1>4 DEF CompHealth, rules
  <2>2. QED BY <1>1, <1>4, <2>1, CompHealthFacts
<1>5. ASSUME NEW w \in Workers,
             TestResultRci(w) \/ RootCause(w) \/ Take(w) \/ \E passed \in BOOLEAN : ActionEnd(w, passed)
      PROVE  GatesKnown'
  <2>1. Free /\ UNCHANGED <<setup, last>>
    BY <1>5 DEF TestResultRci, RootCause, Take, ActionEnd, Free, rules
  <2>2. QED BY <2>1, CalmKeepsGates
<1>6. ASSUME NEW t \in Tests, NEW i \in Names,
             Poll(t, i) \/ Redo(t, i) \/ \E result \in S.given[t] : Notify(t, i, result)
      PROVE  GatesKnown'
  <2>1. Free /\ UNCHANGED <<setup, last>> BY <1>6 DEF Poll, Redo, Notify, Free, rules
  <2>2. QED BY <2>1, CalmKeepsGates
<1>7. ASSUME NEW r \in Rules, NEW new \in NewTypes, RuleSetType(r, new) PROVE GatesKnown'
  <2>1. Free /\ UNCHANGED <<setup, last>> BY <1>7 DEF RuleSetType, Free, rules
  <2>2. QED BY <2>1, CalmKeepsGates
<1>8. ASSUME NEW c \in Comps, NEW h \in {0, Full}, HealthSet(c, h) PROVE GatesKnown'
  <2>1. Free /\ UNCHANGED <<setup, last>> BY <1>8 DEF HealthSet, Free, rules
  <2>2. QED BY <2>1, CalmKeepsGates
<1>9. CASE UNCHANGED vars
  <2>1. UNCHANGED <<setup, last, stack>> BY <1>9 DEF vars, rules, threads
  <2>2. QED BY <2>1, CalmKeepsGates
<1>10. ASSUME Next, NEW w \in Workers, Step(w) PROVE GatesKnown'
  BY <1>2, <1>3, <1>5, <1>10, ProcessKeepsGates, ToldKeepsGates, RunKeepsGates, TestKeepsGates
     DEF Step
<1>11. QED BY <1>4, <1>5, <1>6, <1>7, <1>8, <1>9, <1>10 DEF Next

LEMMA StartsGates == Init => GatesKnown
<1> SUFFICES ASSUME Init, NEW x \in Own, ToldOf(x) PROVE GateRight(x)
  BY DEF GatesKnown
<1>1. Typed BY StartsKept DEF Kept
<1>2. x \in Places /\ x[1] \in Rules BY DEF Own, Existing
<1>3. last[x] = "PASS" BY <1>2 DEF Init
<1>4. ASSUME NEW o \in S.inputs[x[1]] PROVE last[<<o, Instance(o, x[2])>>] = "PASS"
  <2>1. o \in Objs BY <1>1, <1>2, SetupFacts DEF Typed
  <2>2. <<o, Instance(o, x[2])>> \in Places BY <1>1, <2>1, InstanceFacts DEF Typed, Places
  <2>3. QED BY <2>2 DEF Init
<1>5. Inputs(x[1], x[2], "FAIL") = {} BY <1>4 DEF Inputs
<1>6. Inputs(x[1], x[2], "PASS") = S.inputs[x[1]] \ S.off BY <1>4 DEF Inputs
<1>7. QED BY <1>3, <1>5, <1>6 DEF GateRight, ToldOf

(* A gate is what its inputs make it once the lock is free, though it is   *)
(* told of them one at a time, and by way of rules that have other         *)
(* instances than it has.                                                  *)
THEOREM GatesRight == Spec => []GatesFollowInputs
<1> DEFINE Inv == Kept /\ RunsTogether /\ TestsThere /\ GatesKnown
<1>1. Init => Inv BY StartsKept, StartsTogether, StartsThere, StartsGates
<1>2. Inv /\ [Next]_vars => Inv'
  BY NextKeeps, NextKeepsTogether, NextKeepsThere, NextKeepsGates
<1>3. Inv => GatesFollowInputs
  BY NoneDue DEF GatesKnown, GatesFollowInputs, GateRight
<1>4. QED BY <1>1, <1>2, <1>3, PTL DEF Spec

=============================================================================
