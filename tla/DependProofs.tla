---------------------------- MODULE DependProofs ----------------------------
(* Theorems about Depend, for any rules, finitely many components, and any *)
(* number of domains and calls.                                            *)
EXTENDS Depend, MyreflListProofs, FiniteSetTheorems, WellFoundedInduction, TLAPS

USE NamesAssumption, BoundsAssumption

-----------------------------------------------------------------------------
(* Types *)

MembersType ==
    /\ type \in [Objs -> Types]
    /\ \A o \in Objs : type[o] \in Typed => type[o] = TypeOf(o)
    /\ inside \in [Objs -> Containers \cup {NoComp, Gone}]
    /\ comps \in [Containers -> Seq(Comps)]
    /\ top \in [Containers -> SUBSET Objs] /\ bottom \in [Containers -> SUBSET Objs]

LinksType ==
    /\ children \in [Objs -> SUBSET Objs] /\ parents \in [Objs -> SUBSET Objs]

LoopsType ==
    /\ domain \in [Objs -> 0..domains]
    /\ domains \in 0..MaxDomains
    /\ reachable \in [Domains -> SUBSET Domains]

CallsType ==
    /\ alive \in BOOLEAN
    /\ calls \in 0..MaxCalls

LEMMA TypeParts == TypeOK <=> MembersType /\ LinksType /\ LoopsType /\ CallsType
BY DEF TypeOK, MembersType, LinksType, LoopsType, CallsType

(* The names, and the helpers that say what a call makes of all objects *)
LEMMA NameFacts ==
    /\ Rules \subseteq Objs /\ Comps \subseteq Containers /\ Containers \subseteq Objs
    /\ System \in Containers
    /\ \A o \in Objs : TypeOf(o) \in Typed /\ TypeOf(o) \in Types
    /\ "comp" \in Typed /\ Typed \subseteq Types
    /\ \A o \in Containers : TypeOf(o) = "comp"
    /\ \A o \in Objs : TypeOf(o) = "comp" => o \in Containers
    /\ "none" \in Types \ Typed /\ "absent" \in Types \ Typed
BY DEF Objs, Containers, TypeOf, Types, Typed

LEMMA HelperTypes ==
    ASSUME MembersType, NEW S
    PROVE  /\ Referenced(S) \in [Objs -> Types]
           /\ \A o \in Objs : Referenced(S)[o] \in Typed => Referenced(S)[o] = TypeOf(o)
           /\ Housed(S) \in [Objs -> Containers \cup {NoComp, Gone}]
BY NameFacts DEF MembersType, Referenced, Housed, Types

LEMMA ChainedType ==
    ASSUME MembersType, NEW o, NEW where
    PROVE  Chained(o, where) \in [Containers -> Seq(Comps)]
<1>1. CASE o \in Comps
  <2>1. \A l \in Seq(Comps) : <<o>> \o l \in Seq(Comps) BY <1>1
  <2> QED BY <2>1 DEF MembersType, Chained
<1>2. CASE o \notin Comps BY <1>2 DEF MembersType, Chained
<1> QED BY <1>1, <1>2

LEMMA UnlinkedType ==
    ASSUME NEW related \in [Objs -> SUBSET Objs], NEW o
    PROVE  Unlinked(related, o) \in [Objs -> SUBSET Objs]
BY DEF Unlinked

LEMMA CallType ==
    ASSUME CallsType, NEW S, Call(S)
    PROVE  calls' \in 0..MaxCalls /\ alive
BY DEF CallsType, Call

LEMMA InitTypes == Init => TypeOK
BY NameFacts DEF Init, TypeOK, Types, Domains

LEMMA CreateTypes ==
    ASSUME TypeOK, NEW o \in Rules \cup Comps, Create(o)
    PROVE  TypeOK'
<1>1. MembersType'
  BY NameFacts, HelperTypes, ChainedType DEF Create, TypeOK, MembersType
<1>2. CallsType' BY TypeParts, CallType DEF Create, CallsType
<1>3. LinksType' /\ LoopsType'
  BY DEF Create, TypeOK, LinksType, LoopsType, links, loops
<1> QED BY <1>1, <1>2, <1>3 DEF TypeOK, MembersType, LinksType, LoopsType, CallsType

LEMMA DomainTypes ==
    ASSUME LoopsType, NEW p \in Objs, NEW c \in Objs, UpdateDomains(p, c)
    PROVE  LoopsType'
<1>1. CASE JoinDomain(p, c)
  <2>1. CASE domain[p] = 0 /\ domain[c] = 0
    <3>1. domains' = domains + 1 /\ domains' \in 0..MaxDomains
      BY <1>1, <2>1 DEF JoinDomain, LoopsType
    <3>2. domain' \in [Objs -> 0..domains']
      BY <1>1, <2>1, <3>1 DEF JoinDomain, LoopsType
    <3>3. reachable' \in [Domains -> SUBSET Domains]
      BY <1>1, <2>1 DEF JoinDomain, LoopsType
    <3> QED BY <3>1, <3>2, <3>3 DEF LoopsType
  <2>2. CASE ~ (domain[p] = 0 /\ domain[c] = 0)
    BY <1>1, <2>2 DEF JoinDomain, LoopsType
  <2> QED BY <2>1, <2>2
<1>2. CASE UNCHANGED loops BY <1>2 DEF loops, LoopsType
<1>3. CASE domain[c] # 0 /\ RecordReachable(p, c)
  <2>1. domain[c] \in Domains BY <1>3 DEF LoopsType, Domains
  <2>2. reachable' \in [Domains -> SUBSET Domains]
    BY <1>3, <2>1 DEF RecordReachable, LoopsType
  <2> QED BY <1>3, <2>2 DEF RecordReachable, LoopsType
<1> QED BY <1>1, <1>2, <1>3 DEF UpdateDomains

LEMMA DependTypes ==
    ASSUME TypeOK, NEW p \in Objs, NEW c \in Objs, DependCreate(p, c)
    PROVE  TypeOK'
<1> USE TypeParts
<1>1. /\ type' \in [Objs -> Types]
      /\ \A o \in Objs : type'[o] \in Typed => type'[o] = TypeOf(o)
      /\ inside' \in [Objs -> Containers \cup {NoComp, Gone}]
  BY HelperTypes DEF DependCreate
<1>2. comps' \in [Containers -> Seq(Comps)] BY DEF DependCreate, MembersType
<1>3. CallsType' BY CallType DEF DependCreate, CallsType
<1>4. CASE p = c \/ c \in children[p]
  <2>1. UNCHANGED <<links, loops, top, bottom>> BY <1>4 DEF DependCreate
  <2>2. LinksType' /\ LoopsType' BY <2>1 DEF LinksType, LoopsType, links, loops
  <2>3. top' \in [Containers -> SUBSET Objs] /\ bottom' \in [Containers -> SUBSET Objs]
    BY <2>1 DEF MembersType
  <2> QED BY <1>1, <1>2, <1>3, <2>2, <2>3
          DEF TypeOK, MembersType, LinksType, LoopsType, CallsType
<1>5. CASE ~ (p = c \/ c \in children[p])
  <2>1. UpdateDomains(p, c) BY <1>5 DEF DependCreate
  <2>2. LoopsType' BY <2>1, DomainTypes
  <2>3. LinksType' BY <1>5 DEF DependCreate, LinksType, links
  <2>4. top' \in [Containers -> SUBSET Objs] /\ bottom' \in [Containers -> SUBSET Objs]
    BY <1>5 DEF DependCreate, MembersType
  <2> QED BY <1>1, <1>2, <1>3, <2>2, <2>3, <2>4
          DEF TypeOK, MembersType, LinksType, LoopsType, CallsType
<1> QED BY <1>4, <1>5

LEMMA ContainsTypes ==
    ASSUME TypeOK, NEW c \in Containers, NEW o \in Objs, CompContains(c, o)
    PROVE  TypeOK'
<1> USE TypeParts
<1> DEFINE housed == Housed({c, o})
           new == IF type[c] = "absent" THEN {c} ELSE {}
           chained == Chained(c, housed)
           walk == IF type'[o] = "comp" THEN Walk(o, chained, housed) ELSE {}
<1>1. type' = [Referenced({c, o}) EXCEPT ![c] = "comp"] BY DEF CompContains
<1>2. /\ type' \in [Objs -> Types]
      /\ \A x \in Objs : type'[x] \in Typed => type'[x] = TypeOf(x)
  BY <1>1, HelperTypes, NameFacts
<1>3. housed \in [Objs -> Containers \cup {NoComp, Gone}] BY HelperTypes
<1>4. chained \in [Containers -> Seq(Comps)] BY ChainedType
<1>5. CallsType' BY CallType DEF CompContains, CallsType
<1>6. LinksType' /\ LoopsType'
  BY DEF CompContains, LinksType, LoopsType, links, loops
<1>7. CASE c \in walk \/ ~ alive'
  <2>1. comps' = chained /\ UNCHANGED <<inside, top, bottom>>
    BY <1>7 DEF CompContains
  <2>2. MembersType' BY <1>2, <1>4, <2>1 DEF MembersType
  <2> QED BY <1>5, <1>6, <2>2
          DEF TypeOK, MembersType, LinksType, LoopsType, CallsType
<1>8. CASE ~ (c \in walk \/ ~ alive')
  <2>1. inside' = [housed EXCEPT ![o] = c] BY <1>8 DEF CompContains
  <2>2. inside' \in [Objs -> Containers \cup {NoComp, Gone}] BY <1>3, <2>1
  <2>3. comps' \in [Containers -> Seq(Comps)]
    <3>1. CASE type'[o] # "comp"
      <4>1. comps' = chained BY <1>8, <3>1 DEF CompContains
      <4> QED BY <1>4, <4>1
    <3>2. CASE type'[o] = "comp"
      <4> DEFINE left == [chained EXCEPT ![housed[o]] = ListRemove(@, o)]
      <4>1. comps' = [left EXCEPT ![c] = <<o>> \o @] BY <1>8, <3>2 DEF CompContains
      <4>2. \A l \in Seq(Comps) : ListRemove(l, o) \in Seq(Comps) BY RemoveType
      <4>3. left \in [Containers -> Seq(Comps)] BY <1>4, <4>2
      <4>4. o \in Comps
        <5>1. o # System BY DEF CompContains
        <5>2. o \in Containers BY <3>2, <1>2, NameFacts
        <5> QED BY <5>1, <5>2 DEF Containers
      <4>5. \A l \in Seq(Comps) : <<o>> \o l \in Seq(Comps) BY <4>4
      <4> HIDE DEF left
      <4> QED BY <4>1, <4>3, <4>5
    <3> QED BY <3>1, <3>2
  <2>4. [top EXCEPT ![System] = @ \cup new] \in [Containers -> SUBSET Objs]
    BY NameFacts DEF MembersType
  <2>5. [bottom EXCEPT ![System] = @ \cup new] \in [Containers -> SUBSET Objs]
    BY NameFacts DEF MembersType
  <2>6. top' \in [Containers -> SUBSET Objs]
    <3>1. PICK l : top' = Moved([top EXCEPT ![System] = @ \cup new], housed[o], c, o, l)
      BY <1>8 DEF CompContains
    <3> QED BY <2>4, <3>1 DEF Moved
  <2>7. bottom' \in [Containers -> SUBSET Objs]
    <3>1. PICK l : bottom' = Moved([bottom EXCEPT ![System] = @ \cup new], housed[o], c, o, l)
      BY <1>8 DEF CompContains
    <3> QED BY <2>5, <3>1 DEF Moved
  <2> QED BY <1>2, <1>5, <1>6, <2>2, <2>3, <2>6, <2>7
          DEF TypeOK, MembersType, LinksType, LoopsType, CallsType
<1> QED BY <1>7, <1>8

LEMMA DeleteTypes ==
    ASSUME TypeOK, NEW o \in Objs, Delete(o)
    PROVE  MembersType' /\ LinksType' /\ LoopsType' /\ UNCHANGED alive
<1> USE TypeParts
<1>1. /\ type' \in [Objs -> Types]
      /\ \A x \in Objs : type'[x] \in Typed => type'[x] = TypeOf(x)
  BY NameFacts DEF Delete, MembersType
<1>2. comps' \in [Containers -> Seq(Comps)]
  <2>1. \A m \in Containers : ListRemove(comps[m], o) \in Seq(Comps)
    BY RemoveType DEF MembersType
  <2> QED BY <2>1 DEF Delete
<1>3. LinksType' BY UnlinkedType DEF Delete, LinksType
<1>4. LoopsType' BY DEF Delete, LoopsType
<1> DEFINE moving == {x \in Members[o] : type[x] # "comp"}
           kept(lists) == [m \in Containers |-> IF m = o THEN {} ELSE lists[m] \ {o}]
<1>5. PICK nth \in [moving -> 1..Cardinality(moving)] :
        LET there(p, x) == inside'[p] = System /\ (p \in moving => nth[p] < nth[x])
            shown(related) == {x \in moving : type[x] \in Typed /\
                                   \A p \in related[x] : ~ there(p, x)}
        IN  /\ inside' = [x \in Objs |->
                            IF x = o THEN NoComp
                            ELSE IF x \in moving THEN System
                            ELSE IF inside[x] = o THEN Gone ELSE inside[x]]
            /\ top' = [kept(top) EXCEPT ![System] = @ \cup shown(parents')]
            /\ bottom' = [kept(bottom) EXCEPT ![System] = @ \cup shown(children')]
  BY DEF Delete
<1>6. inside' \in [Objs -> Containers \cup {NoComp, Gone}]
  BY <1>5, NameFacts DEF MembersType
<1>7. moving \subseteq Objs BY DEF Members
<1>8. top' \in [Containers -> SUBSET Objs]
  BY <1>5, <1>7, NameFacts DEF MembersType
<1>9. bottom' \in [Containers -> SUBSET Objs]
  BY <1>5, <1>7, NameFacts DEF MembersType
<1> QED BY <1>1, <1>2, <1>3, <1>4, <1>6, <1>8, <1>9 DEF MembersType, Delete

(* A step is one of these, for one call. *)
LEMMA Steps ==
    ASSUME Next
    PROVE  \/ \E o \in Rules \cup Comps : Create(o)
           \/ \E p, c \in Objs : DependCreate(p, c)
           \/ \E c \in Containers, o \in Objs : CompContains(c, o)
           \/ \E o \in Rules \cup Comps : Call({o}) /\ type[o] = TypeOf(o) /\ Delete(o)
           \/ \E r \in Rules : /\ Call({r}) /\ type' = Referenced({r}) /\ inside' = Housed({r})
                             /\ UNCHANGED <<comps, top, bottom, links, loops, alive>>
BY DEF Next, CompDelete, RuleDelete, Containers, TypeOf

LEMMA StepTypes ==
    ASSUME TypeOK, [Next]_vars
    PROVE  TypeOK'
<1> USE TypeParts
<1>1. CASE UNCHANGED vars
  BY <1>1 DEF vars, TypeOK, members, links, loops
<1>2. ASSUME NEW o \in Rules \cup Comps, Create(o) PROVE TypeOK'
  BY <1>2, CreateTypes
<1>3. ASSUME NEW p \in Objs, NEW c \in Objs, DependCreate(p, c) PROVE TypeOK'
  BY <1>3, DependTypes
<1>4. ASSUME NEW c \in Containers, NEW o \in Objs, CompContains(c, o) PROVE TypeOK'
  BY <1>4, ContainsTypes
<1>5. ASSUME NEW o \in Rules \cup Comps, Call({o}), Delete(o) PROVE TypeOK'
  <2>1. MembersType' /\ LinksType' /\ LoopsType' /\ UNCHANGED alive
    BY <1>5, NameFacts, DeleteTypes
  <2>2. CallsType' BY <1>5, <2>1, CallType DEF CallsType
  <2> QED BY <2>1, <2>2 DEF TypeOK, MembersType, LinksType, LoopsType, CallsType
<1>6. ASSUME NEW r \in Rules, Call({r}), type' = Referenced({r}), inside' = Housed({r}),
             UNCHANGED <<comps, top, bottom, links, loops, alive>>
      PROVE  TypeOK'
  <2>1. MembersType' BY <1>6, HelperTypes DEF MembersType
  <2>2. CallsType' BY <1>6, CallType DEF CallsType
  <2>3. LinksType' /\ LoopsType' BY <1>6 DEF LinksType, LoopsType, links, loops
  <2> QED BY <2>1, <2>2, <2>3 DEF TypeOK, MembersType, LinksType, LoopsType, CallsType
<1> QED BY <1>1, <1>2, <1>3, <1>4, <1>5, <1>6, Steps

(* Every variable has values of its type. *)
THEOREM TypeCorrect == Spec => []TypeOK
BY InitTypes, StepTypes, PTL DEF Spec

-----------------------------------------------------------------------------
(* Dependencies *)

(* Every call but one that creates a dependency only takes links away, and *)
(* puts no object into a domain.                                           *)
LEMMA LinksOnlyGo ==
    ASSUME TypeOK, [Next]_vars, \A p, c \in Objs : ~ DependCreate(p, c)
    PROVE  \/ UNCHANGED <<children, parents, domain>>
           \/ \E o \in Objs : /\ children' = Unlinked(children, o)
                            /\ parents' = Unlinked(parents, o)
                            /\ domain' = [domain EXCEPT ![o] = 0]
                            /\ type' = [type EXCEPT ![o] = "absent"]
<1>1. CASE UNCHANGED vars BY <1>1 DEF vars, links, loops
<1>2. ASSUME NEW o \in Rules \cup Comps, Create(o)
      PROVE  UNCHANGED <<children, parents, domain>>
  BY <1>2 DEF Create, links, loops
<1>3. ASSUME NEW c \in Containers, NEW o \in Objs, CompContains(c, o)
      PROVE  UNCHANGED <<children, parents, domain>>
  BY <1>3 DEF CompContains, links, loops
<1>4. ASSUME NEW o \in Rules \cup Comps, Delete(o)
      PROVE  /\ o \in Objs
             /\ children' = Unlinked(children, o)
             /\ parents' = Unlinked(parents, o)
             /\ domain' = [domain EXCEPT ![o] = 0]
             /\ type' = [type EXCEPT ![o] = "absent"]
  BY <1>4, NameFacts DEF Delete
<1>5. ASSUME UNCHANGED <<links, loops>> PROVE UNCHANGED <<children, parents, domain>>
  BY <1>5 DEF links, loops
<1> QED BY <1>1, <1>2, <1>3, <1>4, <1>5, Steps

(* An object that exists goes on to, but for the one deleted. *)
LEMMA TypesStay ==
    ASSUME TypeOK, [Next]_vars,
           NEW o \in Objs, type[o] # "absent", type'[o] = "absent"
    PROVE  /\ children' = Unlinked(children, o)
           /\ parents' = Unlinked(parents, o)
<1> USE NameFacts, TypeParts DEF MembersType
<1>1. CASE UNCHANGED vars BY <1>1 DEF vars
<1>2. ASSUME NEW x \in Rules \cup Comps, Create(x) PROVE FALSE
  <2>1. TypeOf(x) # "absent" BY DEF TypeOf
  <2> QED BY <1>2, <2>1 DEF Create
<1>3. ASSUME NEW p \in Objs, NEW c \in Objs, DependCreate(p, c) PROVE FALSE
  BY <1>3 DEF DependCreate, Referenced
<1>4. ASSUME NEW c \in Containers, NEW x \in Objs, CompContains(c, x) PROVE FALSE
  BY <1>4 DEF CompContains, Referenced
<1>5. ASSUME NEW x \in Rules \cup Comps, Delete(x)
      PROVE  /\ children' = Unlinked(children, o)
             /\ parents' = Unlinked(parents, o)
  BY <1>5 DEF Delete
<1>6. ASSUME NEW r \in Rules, type' = Referenced({r}) PROVE FALSE
  BY <1>6 DEF Referenced
<1> QED BY <1>1, <1>2, <1>3, <1>4, <1>5, <1>6, Steps

(* A call that creates a dependency adds one link, at both ends, or none.  *)
LEMMA OneLink ==
    ASSUME TypeOK, NEW p \in Objs, NEW c \in Objs, DependCreate(p, c)
    PROVE  \/ UNCHANGED links
           \/ /\ p # c /\ ~ IsLoop(p, c) /\ UpdateDomains(p, c)
              /\ children' = [children EXCEPT ![p] = @ \cup {c}]
              /\ parents' = [parents EXCEPT ![c] = @ \cup {p}]
BY DEF DependCreate, links

LEMMA MirroredStep ==
    ASSUME TypeOK, LinksMirrored, [Next]_vars
    PROVE  LinksMirrored'
<1> USE TypeParts DEF LinksType
<1>1. ASSUME NEW p \in Objs, NEW c \in Objs, DependCreate(p, c)
      PROVE  LinksMirrored'
  <2>1. /\ type'[p] # "absent" /\ type'[c] # "absent"
        /\ \A o \in Objs : type[o] # "absent" => type'[o] # "absent"
    BY <1>1 DEF DependCreate, Referenced
  <2>2. CASE UNCHANGED links BY <2>1, <2>2 DEF LinksMirrored, links
  <2>3. CASE /\ children' = [children EXCEPT ![p] = @ \cup {c}]
             /\ parents' = [parents EXCEPT ![c] = @ \cup {p}]
    BY <2>1, <2>3 DEF LinksMirrored
  <2> QED BY <1>1, <2>2, <2>3, OneLink
<1>2. ASSUME \A p, c \in Objs : ~ DependCreate(p, c)
      PROVE  LinksMirrored'
  <2>1. \A p, c \in Objs : c \in children'[p] <=> p \in parents'[c]
    <3>1. CASE UNCHANGED <<children, parents, domain>> BY <3>1 DEF LinksMirrored
    <3>2. ASSUME NEW o \in Objs,
                 children' = Unlinked(children, o), parents' = Unlinked(parents, o)
          PROVE  \A p, c \in Objs : c \in children'[p] <=> p \in parents'[c]
      BY <3>2 DEF LinksMirrored, Unlinked
    <3> QED BY <1>2, <3>1, <3>2, LinksOnlyGo
  <2>2. \A p, c \in Objs : c \in children'[p] => c \in children[p]
    <3>1. CASE UNCHANGED <<children, parents, domain>> BY <3>1
    <3>2. ASSUME NEW o \in Objs, children' = Unlinked(children, o)
          PROVE  \A p, c \in Objs : c \in children'[p] => c \in children[p]
      BY <3>2 DEF Unlinked
    <3> QED BY <1>2, <3>1, <3>2, LinksOnlyGo
  <2>3. ASSUME NEW p \in Objs, NEW c \in Objs, c \in children'[p], NEW o \in {p, c},
               type'[o] = "absent"
        PROVE  FALSE
    <3>1. type[o] # "absent" BY <2>2, <2>3 DEF LinksMirrored
    <3>2. children' = Unlinked(children, o) BY <2>3, <3>1, TypesStay
    <3> QED BY <2>3, <3>2 DEF Unlinked
  <2> QED BY <2>1, <2>3 DEF LinksMirrored
<1> QED BY <1>1, <1>2

(* The two ends of a dependency agree, and both exist. *)
THEOREM Mirrored == Spec => []LinksMirrored
<1>1. Init => LinksMirrored BY DEF Init, LinksMirrored
<1> QED BY <1>1, InitTypes, StepTypes, MirroredStep, PTL DEF Spec

-----------------------------------------------------------------------------
(* Loops *)

(* Whatever depends, or is depended on, is in a domain. *)
LinkedInDomain ==
    \A p, c \in Objs : c \in children[p] => domain[p] # 0 /\ domain[c] # 0

InDomain(d) == {o \in Objs : domain[o] = d}

(* What can be reached from o goes as far as next does. *)
LEMMA ReachFacts ==
    ASSUME LinksType, NEW o \in Objs
    PROVE  /\ o \in Reach(o, children)
           /\ \A x \in Reach(o, children) : children[x] \subseteq Reach(o, children)
BY DEF Reach, LinksType

(* A loop is closed only if its end has been reached from its start. *)
LEMMA NoNewLoop ==
    ASSUME LinksType, NEW D \in SUBSET Objs, NoLoopAmong(D),
           NEW p \in Objs, NEW c \in Objs, p \notin Reach(c, children),
           NEW S \in SUBSET D, S # {}
    PROVE  \E o \in S : (children[o] \cup (IF o = p THEN {c} ELSE {})) \cap S = {}
<1> USE DEF LinksType
<1>1. CASE p \notin S \/ c \notin S BY <1>1 DEF NoLoopAmong
<1>2. CASE p \in S /\ c \in S
  <2> DEFINE T == S \cap Reach(c, children)
  <2>1. T # {} /\ T \in SUBSET D BY <1>2, ReachFacts
  <2>2. PICK o \in T : children[o] \cap T = {} BY <2>1 DEF NoLoopAmong
  <2>3. children[o] \subseteq Reach(c, children) BY ReachFacts
  <2>4. children[o] \cap S = {} /\ o # p BY <2>2, <2>3
  <2> QED BY <2>4
<1> QED BY <1>1, <1>2

(* The domains of a dependency's ends when it is added, with its effect *)
LEMMA LinkAdded ==
    ASSUME TypeOK, LinkedInDomain, LoopsCrossDomains,
           NEW p \in Objs, NEW c \in Objs, p # c,
           UpdateDomains(p, c), ~ IsLoop(p, c),
           children' = [children EXCEPT ![p] = @ \cup {c}]
    PROVE  LinkedInDomain' /\ LoopsCrossDomains'
<1> USE TypeParts DEF LinksType, LoopsType
<1>1. \A x \in Objs \ {p, c} : domain'[x] = domain[x]
  BY DEF UpdateDomains, JoinDomain, RecordReachable, loops
<1>2. /\ domain[p] # 0 => domain'[p] = domain[p]
      /\ domain[c] # 0 => domain'[c] = domain[c]
      /\ domain'[p] # 0 /\ domain'[c] # 0
  BY DEF UpdateDomains, JoinDomain, RecordReachable, loops
<1>3. LinkedInDomain' BY <1>1, <1>2 DEF LinkedInDomain
<1>4. ASSUME NEW d \in Domains, NEW S \in SUBSET {o \in Objs : domain'[o] = d}, S # {}
      PROVE  \E o \in S : children'[o] \cap S = {}
  <2>1. d # 0 BY DEF Domains
  <2>2. NoLoopAmong(InDomain(d)) BY DEF LoopsCrossDomains, InDomain
  <2>3. ASSUME NEW T \in SUBSET InDomain(d), T # {}
        PROVE  \E o \in T : children[o] \cap T = {}
    BY <2>2, <2>3 DEF NoLoopAmong
  <2>4. CASE domain[c] = 0
    <3>1. children[c] = {} BY <2>4 DEF LinkedInDomain
    <3>2. CASE c \in S BY <3>1, <3>2
    <3>3. CASE c \notin S
      <4>1. CASE domain[p] # 0 \/ p \notin S
        <5>1. S \in SUBSET InDomain(d) BY <1>1, <1>2, <3>3, <4>1 DEF InDomain
        <5>2. PICK o \in S : children[o] \cap S = {} BY <2>3, <5>1, <1>4
        <5> QED BY <3>3, <5>2
      <4>2. CASE domain[p] = 0 /\ p \in S
        <5>1. children[p] = {} BY <4>2 DEF LinkedInDomain
        <5> QED BY <3>3, <4>2, <5>1
      <4> QED BY <4>1, <4>2
    <3> QED BY <3>2, <3>3
  <2>5. CASE domain[c] # 0 /\ domain[p] = 0
    <3>1. \A o \in Objs : p \notin children[o] BY <2>5 DEF LinkedInDomain
    <3>2. children[p] = {} BY <2>5 DEF LinkedInDomain
    <3>3. S \ {p} \in SUBSET InDomain(d) BY <1>1, <1>2, <2>5 DEF InDomain
    <3>4. CASE S \ {p} = {}
      <4>1. S = {p} BY <1>4, <3>4
      <4> QED BY <3>2, <4>1
    <3>5. CASE S \ {p} # {}
      <4>1. PICK o \in S \ {p} : children[o] \cap (S \ {p}) = {} BY <2>3, <3>3, <3>5
      <4>2. children'[o] = children[o] BY <4>1, <3>3 DEF InDomain
      <4>3. p \notin children[o] BY <3>1, <3>3 DEF InDomain
      <4> QED BY <4>1, <4>2, <4>3
    <3> QED BY <3>4, <3>5
  <2>6. CASE domain[c] # 0 /\ domain[p] # 0
    <3>1. S \in SUBSET InDomain(d) BY <1>1, <1>2, <2>6 DEF InDomain
    <3>2. CASE domain[p] # domain[c]
      <4>1. PICK o \in S : children[o] \cap S = {} BY <2>3, <3>1, <1>4
      <4>2. o = p => c \notin S BY <3>1, <3>2 DEF InDomain
      <4>3. o \in Objs BY <3>1 DEF InDomain
      <4> QED BY <4>1, <4>2, <4>3
    <3>3. CASE domain[p] = domain[c]
      <4>1. p \notin Reach(c, children) BY <2>6, <3>3 DEF IsLoop, IsObjInTree
      <4>2. InDomain(d) \in SUBSET Objs BY DEF InDomain
      <4>3. PICK o \in S : (children[o] \cup (IF o = p THEN {c} ELSE {})) \cap S = {}
        BY <1>4, <2>2, <3>1, <4>1, <4>2, NoNewLoop
      <4>4. o \in Objs BY <3>1 DEF InDomain
      <4>5. children'[o] = children[o] \cup (IF o = p THEN {c} ELSE {}) BY <4>4
      <4> QED BY <4>3, <4>5
    <3> QED BY <3>2, <3>3
  <2> QED BY <2>4, <2>5, <2>6
<1>5. LoopsCrossDomains' BY <1>4 DEF LoopsCrossDomains, NoLoopAmong
<1> QED BY <1>3, <1>5

(* Links that only go, with the domain of an object that has none left,    *)
(* close no loop.                                                          *)
LEMMA LinksGone ==
    ASSUME TypeOK, LinkedInDomain, LoopsCrossDomains, NEW o \in Objs,
           children' = Unlinked(children, o), domain' = [domain EXCEPT ![o] = 0]
    PROVE  LinkedInDomain' /\ LoopsCrossDomains'
<1> USE TypeParts DEF LinksType, LoopsType
<1>1. LinkedInDomain' BY DEF LinkedInDomain, Unlinked
<1>2. ASSUME NEW d \in Domains, NEW S \in SUBSET {x \in Objs : domain'[x] = d}, S # {}
      PROVE  \E x \in S : children'[x] \cap S = {}
  <2>1. S \in SUBSET {x \in Objs : domain[x] = d} BY DEF Domains
  <2>2. PICK x \in S : children[x] \cap S = {}
    BY <1>2, <2>1 DEF LoopsCrossDomains, NoLoopAmong
  <2>3. children'[x] \subseteq children[x] BY <2>1 DEF Unlinked
  <2> QED BY <2>2, <2>3
<1>3. LoopsCrossDomains' BY <1>2 DEF LoopsCrossDomains, NoLoopAmong
<1> QED BY <1>1, <1>3

(* A call that refuses a dependency as a loop finds both of its ends in a  *)
(* domain, and leaves them there.                                          *)
LEMMA NothingLinked ==
    ASSUME TypeOK, NEW p \in Objs, NEW c \in Objs, DependCreate(p, c), UNCHANGED links,
           p # c, c \notin children[p]
    PROVE  UNCHANGED domain
<1> USE TypeParts DEF LinksType
<1>1. CASE IsLoop(p, c)
  <2>1. domain[p] # 0 /\ domain[c] # 0 BY <1>1 DEF IsLoop
  <2> QED BY <2>1 DEF DependCreate, UpdateDomains, RecordReachable, JoinDomain, loops
<1>2. CASE ~ IsLoop(p, c)
  <2>1. children' = [children EXCEPT ![p] = @ \cup {c}] BY <1>2 DEF DependCreate
  <2>2. c \in children'[p] BY <2>1
  <2> QED BY <2>2 DEF links
<1> QED BY <1>1, <1>2

LEMMA LoopStep ==
    ASSUME TypeOK, LinkedInDomain, LoopsCrossDomains, [Next]_vars
    PROVE  LinkedInDomain' /\ LoopsCrossDomains'
<1>1. ASSUME UNCHANGED <<children, domain>>
      PROVE  LinkedInDomain' /\ LoopsCrossDomains'
  BY <1>1 DEF LinkedInDomain, LoopsCrossDomains, NoLoopAmong
<1>2. ASSUME NEW p \in Objs, NEW c \in Objs, DependCreate(p, c)
      PROVE  LinkedInDomain' /\ LoopsCrossDomains'
  <2>1. CASE UNCHANGED links
    <3>1. CASE p = c \/ c \in children[p]
      <4>1. UNCHANGED <<children, domain>> BY <1>2, <3>1 DEF DependCreate, links, loops
      <4> QED BY <1>1, <4>1
    <3>2. CASE ~ (p = c \/ c \in children[p])
      <4>1. UNCHANGED <<children, domain>> BY <1>2, <2>1, <3>2, NothingLinked DEF links
      <4> QED BY <1>1, <4>1
    <3> QED BY <3>1, <3>2
  <2>2. CASE /\ p # c /\ ~ IsLoop(p, c) /\ UpdateDomains(p, c)
             /\ children' = [children EXCEPT ![p] = @ \cup {c}]
    BY <2>2, LinkAdded
  <2> QED BY <1>2, <2>1, <2>2, OneLink
<1>3. ASSUME NEW o \in Objs,
             children' = Unlinked(children, o), domain' = [domain EXCEPT ![o] = 0]
      PROVE  LinkedInDomain' /\ LoopsCrossDomains'
  BY <1>3, LinksGone
<1> QED BY <1>1, <1>2, <1>3, LinksOnlyGo

(* The objects of one domain do not depend on each other in a loop.        *)
THEOREM LoopsAcross == Spec => []LoopsCrossDomains
<1>1. Init => LinkedInDomain /\ LoopsCrossDomains
  BY DEF Init, LinkedInDomain, LoopsCrossDomains, NoLoopAmong
<1> QED BY <1>1, InitTypes, StepTypes, LoopStep, PTL DEF Spec

-----------------------------------------------------------------------------
(* Boundaries *)

(* What a component shows on one of its two lists is in it, and has a type. *)
Shows(lists, where, types) ==
    \A m \in Containers : \A x \in lists[m] : where[x] = m /\ types[x] \in Typed

LEMMA BoundaryParts ==
    /\ BoundaryOfMembers <=> Shows(top, inside, type) /\ Shows(bottom, inside, type)
    /\ BoundaryOfMembers' <=> Shows(top', inside', type') /\ Shows(bottom', inside', type')
BY DEF BoundaryOfMembers, Shows

(* A new object, that no list shows yet, is shown by System. *)
LEMMA NewShown ==
    ASSUME MembersType, NEW lists \in [Containers -> SUBSET Objs], Shows(lists, inside, type),
           NEW o \in Objs, NEW S, o \in S
    PROVE  LET new == IF type[o] = "absent" THEN {o} ELSE {}
           IN  Shows([lists EXCEPT ![System] = @ \cup new], Housed(S),
                     [Referenced(S) EXCEPT ![o] = TypeOf(o)])
<1>1. [Referenced(S) EXCEPT ![o] = TypeOf(o)] \in [Objs -> Types]
  BY HelperTypes, NameFacts
<1>2. \A x \in Objs : type[x] # "absent" => Housed(S)[x] = inside[x]
  BY DEF Housed
<1>3. \A x \in Objs : type[x] \in Typed =>
        [Referenced(S) EXCEPT ![o] = TypeOf(o)][x] \in Typed /\ type[x] # "absent"
  BY NameFacts DEF Referenced
<1>4. type[o] = "absent" =>
        Housed(S)[o] = System /\ [Referenced(S) EXCEPT ![o] = TypeOf(o)][o] \in Typed
  BY NameFacts DEF Housed, Referenced
<1> QED BY <1>2, <1>3, <1>4, NameFacts DEF Shows

(* An object that moves is shown by the component it goes to, if at all.   *)
LEMMA MovedShown ==
    ASSUME NEW lists \in [Containers -> SUBSET Objs], NEW where, NEW types,
           Shows(lists, where, types),
           where \in [Objs -> Containers \cup {NoComp, Gone}],
           NEW c \in Containers, NEW o \in Objs, NEW listed,
           listed => types[o] \in Typed
    PROVE  Shows(Moved(lists, where[o], c, o, listed), [where EXCEPT ![o] = c], types)
BY NameFacts DEF Shows, Moved

LEMMA ContainsShown ==
    ASSUME TypeOK, BoundaryOfMembers,
           NEW c \in Containers, NEW o \in Objs, CompContains(c, o)
    PROVE  BoundaryOfMembers'
<1> USE TypeParts
<1> DEFINE housed == Housed({c, o})
           new == IF type[c] = "absent" THEN {c} ELSE {}
           tops == [top EXCEPT ![System] = @ \cup new]
           bottoms == [bottom EXCEPT ![System] = @ \cup new]
<1>1. /\ type' = [Referenced({c, o}) EXCEPT ![c] = TypeOf(c)]
      /\ type' \in [Objs -> Types]
  BY NameFacts, HelperTypes DEF CompContains
<1>2. /\ Shows(tops, housed, type') /\ Shows(bottoms, housed, type')
      /\ tops \in [Containers -> SUBSET Objs] /\ bottoms \in [Containers -> SUBSET Objs]
  <2>1. Shows(top, inside, type) /\ Shows(bottom, inside, type) BY BoundaryParts
  <2>2. c \in Objs /\ c \in {c, o} BY NameFacts
  <2>3. Shows(tops, housed, type') BY <1>1, <2>1, <2>2, NewShown DEF MembersType
  <2>4. Shows(bottoms, housed, type') BY <1>1, <2>1, <2>2, NewShown DEF MembersType
  <2> QED BY <2>2, <2>3, <2>4, NameFacts DEF MembersType
<1>3. housed \in [Objs -> Containers \cup {NoComp, Gone}] BY HelperTypes
<1>4. CASE UNCHANGED <<inside, top, bottom>>
  <2>1. \A x \in Objs : type[x] \in Typed => type'[x] \in Typed
    BY <1>1, NameFacts DEF Referenced, MembersType
  <2> QED BY <1>4, <2>1 DEF BoundaryOfMembers, MembersType
<1>5. ASSUME inside' = [housed EXCEPT ![o] = c],
             NEW s, s => type'[o] \in Typed, top' = Moved(tops, housed[o], c, o, s),
             NEW t, t => type'[o] \in Typed, bottom' = Moved(bottoms, housed[o], c, o, t)
      PROVE  BoundaryOfMembers'
  <2>1. Shows(top', inside', type') BY <1>2, <1>3, <1>5, MovedShown
  <2>2. Shows(bottom', inside', type') BY <1>2, <1>3, <1>5, MovedShown
  <2> QED BY <2>1, <2>2, BoundaryParts
<1> QED BY <1>4, <1>5 DEF CompContains

LEMMA DeleteShown ==
    ASSUME TypeOK, BoundaryOfMembers,
           NEW o \in Rules \cup Comps, type[o] = TypeOf(o), Delete(o)
    PROVE  BoundaryOfMembers'
<1> USE TypeParts, NameFacts DEF MembersType
<1> DEFINE moving == {x \in Members[o] : type[x] # "comp"}
           kept(lists) == [m \in Containers |-> IF m = o THEN {} ELSE lists[m] \ {o}]
<1>1. PICK s \in SUBSET moving, t \in SUBSET moving :
        /\ \A x \in s \cup t : type[x] \in Typed
        /\ top' = [kept(top) EXCEPT ![System] = @ \cup s]
        /\ bottom' = [kept(bottom) EXCEPT ![System] = @ \cup t]
  <2>1. PICK nth \in [moving -> 1..Cardinality(moving)] :
          LET there(p, x) == inside'[p] = System /\ (p \in moving => nth[p] < nth[x])
              shown(related) == {x \in moving : type[x] \in Typed /\
                                     \A p \in related[x] : ~ there(p, x)}
          IN  /\ top' = [kept(top) EXCEPT ![System] = @ \cup shown(parents')]
              /\ bottom' = [kept(bottom) EXCEPT ![System] = @ \cup shown(children')]
    BY DEF Delete
  <2> DEFINE there(p, x) == inside'[p] = System /\ (p \in moving => nth[p] < nth[x])
             shown(related) == {x \in moving : type[x] \in Typed /\
                                    \A p \in related[x] : ~ there(p, x)}
  <2>2. /\ top' = [kept(top) EXCEPT ![System] = @ \cup shown(parents')]
        /\ bottom' = [kept(bottom) EXCEPT ![System] = @ \cup shown(children')]
    BY <2>1
  <2>3. \A related : shown(related) \in SUBSET moving /\
                     \A x \in shown(related) : type[x] \in Typed
    OBVIOUS
  <2> HIDE DEF shown, kept, moving
  <2> QED BY <2>2, <2>3
<1>7. inside' = [x \in Objs |->
                   IF x = o THEN NoComp
                   ELSE IF x \in moving THEN System
                   ELSE IF inside[x] = o THEN Gone ELSE inside[x]]
  BY DEF Delete
<1>2. o # System /\ moving \subseteq Objs /\ \A x \in moving : inside[x] = o
  BY DEF Members, Objs, Containers
<1>3. \A x \in Objs \ {o} : type'[x] = type[x] BY DEF Delete
<1>4. ASSUME NEW lists \in [Containers -> SUBSET Objs], Shows(lists, inside, type),
             NEW u \in SUBSET moving, \A x \in u : type[x] \in Typed
      PROVE  Shows([kept(lists) EXCEPT ![System] = @ \cup u], inside', type')
  <2>1. o \notin moving
    <3>1. CASE o \in Comps BY <3>1
    <3>2. CASE o \in Rules
      <4>1. o \notin Containers \cup {NoComp, Gone} BY <3>2 DEF Objs
      <4> QED BY <1>2, <4>1
    <3> QED BY <3>1, <3>2
  <2>2. ASSUME NEW m \in Containers, NEW x \in kept(lists)[m]
        PROVE  inside'[x] = m /\ type'[x] \in Typed
    <3>1. x \in lists[m] /\ x # o /\ m # o BY <2>2
    <3>2. inside[x] = m /\ type[x] \in Typed /\ x \in Objs BY <1>4, <3>1 DEF Shows
    <3> QED BY <1>2, <1>3, <1>7, <3>1, <3>2
  <2>3. ASSUME NEW x \in u PROVE inside'[x] = System /\ type'[x] \in Typed
    BY <1>2, <1>3, <1>4, <1>7, <2>1, <2>3
  <2> HIDE DEF moving
  <2> QED BY <2>2, <2>3 DEF Shows
<1>5. Shows(top', inside', type')
  <2>1. top \in [Containers -> SUBSET Objs] /\ Shows(top, inside, type)
    BY BoundaryParts
  <2> HIDE DEF moving, kept
  <2> QED BY <1>1, <1>4, <2>1
<1>6. Shows(bottom', inside', type')
  <2>1. bottom \in [Containers -> SUBSET Objs] /\ Shows(bottom, inside, type)
    BY BoundaryParts
  <2> HIDE DEF moving, kept
  <2> QED BY <1>1, <1>4, <2>1
<1> QED BY <1>5, <1>6, BoundaryParts

LEMMA BoundaryStep ==
    ASSUME TypeOK, BoundaryOfMembers, [Next]_vars
    PROVE  BoundaryOfMembers'
<1> USE TypeParts, NameFacts
<1>1. CASE UNCHANGED vars BY <1>1 DEF vars, members, BoundaryOfMembers
<1>2. ASSUME NEW o \in Rules \cup Comps, Create(o) PROVE BoundaryOfMembers'
  <2>1. type' = [Referenced({o}) EXCEPT ![o] = TypeOf(o)]
    BY <1>2 DEF Create, Referenced, MembersType
  <2> DEFINE new == IF type[o] = "absent" THEN {o} ELSE {}
  <2>2. /\ o \in Objs /\ o \in {o} /\ inside' = Housed({o})
        /\ top' = [top EXCEPT ![System] = @ \cup new]
        /\ bottom' = [bottom EXCEPT ![System] = @ \cup new]
    BY <1>2 DEF Create
  <2>3. Shows(top, inside, type) /\ Shows(bottom, inside, type) BY BoundaryParts
  <2>4. Shows(top', inside', type') BY <2>1, <2>2, <2>3, NewShown DEF MembersType
  <2>5. Shows(bottom', inside', type') BY <2>1, <2>2, <2>3, NewShown DEF MembersType
  <2> QED BY <2>4, <2>5, BoundaryParts
<1>3. ASSUME NEW S, type' = Referenced(S), inside' = Housed(S),
             \A m \in Containers : top'[m] \subseteq top[m] /\ bottom'[m] \subseteq bottom[m]
      PROVE  BoundaryOfMembers'
  <2>1. \A x \in Objs : type[x] \in Typed => type'[x] = type[x] /\ inside'[x] = inside[x]
    BY <1>3 DEF Referenced, Housed
  <2> QED BY <1>3, <2>1 DEF BoundaryOfMembers, MembersType
<1>4. ASSUME NEW p \in Objs, NEW c \in Objs, DependCreate(p, c) PROVE BoundaryOfMembers'
  <2>1. \A m \in Containers : top'[m] \subseteq top[m] /\ bottom'[m] \subseteq bottom[m]
    BY <1>4 DEF DependCreate, MembersType
  <2> QED BY <1>3, <1>4, <2>1 DEF DependCreate
<1>5. ASSUME NEW c \in Containers, NEW o \in Objs, CompContains(c, o)
      PROVE  BoundaryOfMembers'
  BY <1>5, ContainsShown
<1>6. ASSUME NEW o \in Rules \cup Comps, type[o] = TypeOf(o), Delete(o)
      PROVE  BoundaryOfMembers'
  BY <1>6, DeleteShown
<1> QED BY <1>1, <1>2, <1>3, <1>4, <1>5, <1>6, Steps

(* A component shows members of its own, which exist and have a type.      *)
THEOREM BoundaryIsOfMembers == Spec => []BoundaryOfMembers
<1>1. Init => BoundaryOfMembers BY DEF Init, BoundaryOfMembers
<1> QED BY <1>1, InitTypes, StepTypes, BoundaryStep, PTL DEF Spec

-----------------------------------------------------------------------------
(* Containment *)

(* Where each object is, the lists of components, and the types agree: only *)
(* components contain, what does not exist is nowhere, and a component is   *)
(* on the list of the one it is in, once.                                   *)
Nested(lists, where, types) ==
    /\ where[System] = NoComp /\ types[System] = "comp"
    /\ \A x \in Objs : where[x] \in Objs => types[where[x]] = "comp"
    /\ \A x \in Objs : types[x] = "absent" => where[x] = NoComp
    /\ \A m \in Containers :
         /\ NoDuplicates(lists[m])
         /\ \A x \in Objs : ListFind(lists[m], x) <=>
               x \in Comps /\ types[x] = "comp" /\ where[x] = m

(* ContainmentEnds, of any where *)
Ends(where) == \A S \in SUBSET Comps : S # {} => \E c \in S : where[c] \notin S \ {c}

(* What an arrangement is made of *)
Arranged(lists, where, types) ==
    /\ lists \in [Containers -> Seq(Comps)]
    /\ where \in [Objs -> Containers \cup {NoComp, Gone}]
    /\ types \in [Objs -> Types]
    /\ \A x \in Objs : types[x] \in Typed => types[x] = TypeOf(x)
    /\ Nested(lists, where, types)

(* A push in front is found, and makes no duplicate of what is not there. *)
LEMMA InFront ==
    ASSUME NEW l \in Seq(Comps), NEW d \in Comps, NoDuplicates(l), ~ ListFind(l, d)
    PROVE  /\ <<d>> \o l \in Seq(Comps) /\ NoDuplicates(<<d>> \o l)
           /\ \A x : ListFind(<<d>> \o l, x) <=> x = d \/ ListFind(l, x)
<1> DEFINE p == <<d>> \o l
<1>1. /\ p \in Seq(Comps) /\ Len(p) = Len(l) + 1 /\ p[1] = d
      /\ \A i \in 1..Len(l) : p[i + 1] = l[i]
      /\ Len(l) \in Nat
  OBVIOUS
<1> HIDE DEF p
<1>2. \A i \in 1..Len(p) : i = 1 \/ (i - 1 \in 1..Len(l) /\ p[i] = l[i - 1])
  <2> SUFFICES ASSUME NEW i \in 1..Len(p), i # 1 
               PROVE i - 1 \in 1..Len(l) /\ p[i] = l[i - 1]
    OBVIOUS
  <2>1. i - 1 \in 1..Len(l) BY <1>1
  <2>2. p[(i - 1) + 1] = l[i - 1] BY <1>1, <2>1
  <2>3. QED BY <2>1, <2>2
<1>3. NoDuplicates(p)
  <2> SUFFICES ASSUME NEW i \in 1..Len(p), NEW j \in 1..Len(p), p[i] = p[j] PROVE i = j
    BY DEF NoDuplicates
  <2>1. CASE i = 1 /\ j # 1 BY <1>1, <1>2, <2>1 DEF ListFind
  <2>2. CASE j = 1 /\ i # 1 BY <1>1, <1>2, <2>2 DEF ListFind
  <2>3. CASE i # 1 /\ j # 1
    <3>1. l[i - 1] = l[j - 1] /\ i - 1 \in 1..Len(l) /\ j - 1 \in 1..Len(l) BY <1>2, <2>3
    <3>2. i - 1 = j - 1 BY <3>1 DEF NoDuplicates
    <3>3. QED BY <3>2
  <2>4. QED BY <2>1, <2>2, <2>3
<1>4. ASSUME NEW x PROVE ListFind(p, x) <=> x = d \/ ListFind(l, x)
  <2>1. ListFind(p, x) => x = d \/ ListFind(l, x) BY <1>1, <1>2 DEF ListFind
  <2>2. x = d => ListFind(p, x) BY <1>1 DEF ListFind
  <2>3. ASSUME ListFind(l, x) PROVE ListFind(p, x)
    <3>1. PICK i \in 1..Len(l) : l[i] = x BY <2>3 DEF ListFind
    <3>2. i + 1 \in 1..Len(p) /\ p[i + 1] = x BY <1>1, <3>1
    <3>3. QED BY <3>2 DEF ListFind
  <2>4. QED BY <2>1, <2>2, <2>3
<1>5. QED BY <1>1, <1>3, <1>4 DEF p

(* A set of components has one that none of the others is in. *)
LEMMA Innermost ==
    ASSUME NEW where, Ends(where), NEW B \in SUBSET Comps, B # {}
    PROVE  \E z \in B : \A y \in B : where[y] = z => y = z
<1> DEFINE Low(T) == \E z \in T : \A y \in T : where[y] = z => y = z
           Bs == {T \in SUBSET Comps : T # {} /\ ~ Low(T)}
<1> SUFFICES ASSUME Bs # {} PROVE FALSE
  OBVIOUS
<1>1. PICK T \in Bs : \A t \in Bs : ~ (<<t, T>> \in StrictSubsetOrdering(Comps))
  <2>1. Bs \subseteq FiniteSubsetsOf(Comps) BY FS_FiniteSubsetsOfFinite
  <2>2. IsWellFoundedOn(StrictSubsetOrdering(Comps), FiniteSubsetsOf(Comps))
    BY FS_StrictSubsetOrderingWellFounded
  <2> HIDE DEF Bs
  <2>3. QED BY <2>1, <2>2, WFMin
<1>2. PICK t \in T : where[t] \notin T \ {t} BY DEF Ends
<1>3. CASE T = {t} BY <1>3
<1>4. CASE T \ {t} # {}
  <2>1. T \ {t} \in SUBSET Comps /\ <<T \ {t}, T>> \in StrictSubsetOrdering(Comps)
    BY DEF StrictSubsetOrdering
  <2>2. Low(T \ {t}) BY <1>1, <1>4, <2>1
  <2>3. PICK z \in T \ {t} : \A y \in T \ {t} : where[y] = z => y = z BY <2>2
  <2>4. \A y \in T : where[y] = z => y = z BY <1>2, <2>3
  <2>5. QED BY <2>4
<1>5. QED BY <1>3, <1>4

(* What can be reached from o, of any next that stays within its domain *)
LEMMA ReachLeast ==
    ASSUME NEW next, NEW o \in DOMAIN next, \A x \in DOMAIN next : next[x] \subseteq DOMAIN next
    PROVE  /\ Reach(o, next) \subseteq DOMAIN next /\ o \in Reach(o, next)
           /\ \A x \in Reach(o, next) : next[x] \subseteq Reach(o, next)
           /\ \A S \in SUBSET DOMAIN next :
                o \in S /\ (\A s \in S : next[s] \subseteq S) => Reach(o, next) \subseteq S
BY DEF Reach

Below(where) == [c \in Objs |-> {x \in Objs : where[x] = c}]

(* What is on a list, and where *)
LEMMA OnList ==
    ASSUME NEW lists, NEW where, NEW types, Arranged(lists, where, types), NEW m \in Containers
    PROVE  /\ lists[m] \in Seq(Comps) /\ Len(lists[m]) \in Nat
           /\ lists[m] # <<>> => Len(lists[m]) # 0 /\ Head(lists[m]) = lists[m][1]
           /\ \A j \in 1..Len(lists[m]) :
                /\ lists[m][j] \in Comps /\ types[lists[m][j]] = "comp"
                /\ where[lists[m][j]] = m
<1> USE NameFacts DEF Arranged
<1>1. lists[m] \in Seq(Comps) OBVIOUS
<1>2. ASSUME NEW j \in 1..Len(lists[m])
      PROVE  /\ lists[m][j] \in Comps /\ types[lists[m][j]] = "comp"
             /\ where[lists[m][j]] = m
  <2>1. lists[m][j] \in Comps BY <1>1
  <2>2. ListFind(lists[m], lists[m][j]) BY DEF ListFind
  <2>3. QED BY <2>1, <2>2 DEF Nested
<1>3. QED BY <1>1, <1>2

(* A peer is a component that is in the same one. *)
LEMMA PeerFacts ==
    ASSUME NEW lists, NEW where, NEW types, Arranged(lists, where, types),
           NEW x, NEW y \in Peer(x, lists)
    PROVE  /\ y \in Comps /\ types[y] = "comp"
           /\ where[y] = where[x] /\ where[y] \in Containers
<1>1. PICK m \in Containers :
        y \in {lists[m][i] : i \in {j \in 2..Len(lists[m]) : lists[m][j - 1] = x}}
  BY DEF Peer
<1>2. PICK i \in 2..Len(lists[m]) : lists[m][i - 1] = x /\ lists[m][i] = y BY <1>1
<1>3. i \in 1..Len(lists[m]) /\ i - 1 \in 1..Len(lists[m]) BY <1>2, OnList
<1>4. QED BY <1>2, <1>3, OnList

(* An element of a list has the one after it for its peer, the last none.  *)
LEMMA NextOnList ==
    ASSUME NEW lists, NEW where, NEW types, Arranged(lists, where, types),
           NEW m \in Containers, NEW j \in 1..Len(lists[m])
    PROVE  Peer(lists[m][j], lists) = IF j = Len(lists[m]) THEN {} ELSE {lists[m][j + 1]}
<1> DEFINE x == lists[m][j]
<1>0. Len(lists[m]) \in Nat BY OnList
<1>1. where[x] = m BY OnList
<1>2. ASSUME NEW n \in Containers, NEW i \in 2..Len(lists[n]), lists[n][i - 1] = x
      PROVE  n = m /\ i = j + 1
  <2>1. i - 1 \in 1..Len(lists[n]) BY OnList
  <2>2. n = m BY <1>1, <1>2, <2>1, OnList
  <2>3. NoDuplicates(lists[m]) BY DEF Arranged, Nested
  <2>4. i - 1 = j BY <1>2, <2>1, <2>2, <2>3 DEF NoDuplicates
  <2>5. QED BY <2>2, <2>4
<1>3. ASSUME NEW y \in Peer(x, lists) PROVE j # Len(lists[m]) /\ y = lists[m][j + 1]
  <2>1. PICK n \in Containers :
          y \in {lists[n][i] : i \in {k \in 2..Len(lists[n]) : lists[n][k - 1] = x}}
    BY <1>3 DEF Peer
  <2>2. PICK i \in 2..Len(lists[n]) : lists[n][i - 1] = x /\ lists[n][i] = y BY <2>1
  <2>3. n = m /\ i = j + 1 BY <1>2, <2>2
  <2>4. QED BY <1>0, <2>2, <2>3
<1>4. ASSUME j # Len(lists[m]) PROVE lists[m][j + 1] \in Peer(x, lists)
  <2>1. j + 1 \in 2..Len(lists[m]) BY <1>0, <1>4
  <2>2. lists[m][(j + 1) - 1] = x BY <1>0
  <2>3. lists[m][j + 1] \in
          {lists[m][i] : i \in {k \in 2..Len(lists[m]) : lists[m][k - 1] = x}}
    BY <2>1, <2>2
  <2>4. QED BY <2>3 DEF Peer
<1> HIDE DEF x
<1>5. Peer(x, lists) = IF j = Len(lists[m]) THEN {} ELSE {lists[m][j + 1]}
  BY <1>3, <1>4
<1>6. QED BY <1>5 DEF x

(* A walk goes from one component to the next, and no further.             *)
LEMMA WalkFacts ==
    ASSUME NEW lists, NEW where, NEW types, Arranged(lists, where, types), NEW o \in Comps
    PROVE  /\ Walk(o, lists, where) \subseteq Comps \cup {Fault}
           /\ NextContained(o, o, lists, where) \subseteq Walk(o, lists, where)
           /\ \A x \in Walk(o, lists, where) \ {Fault} :
                NextContained(o, x, lists, where) \subseteq Walk(o, lists, where)
           /\ \A Q \in SUBSET (Comps \cup {Fault}) :
                /\ NextContained(o, o, lists, where) \subseteq Q
                /\ \A x \in Q \ {Fault} : NextContained(o, x, lists, where) \subseteq Q
                => Walk(o, lists, where) \subseteq Q
<1> USE NameFacts
<1> DEFINE to(x) == NextContained(o, x, lists, where)
           next == [x \in Comps \cup {Fault} |-> IF x = Fault THEN {} ELSE to(x)]
<1>1. \A x \in Comps : to(x) \subseteq Comps \cup {Fault}
  <2> SUFFICES ASSUME NEW x \in Comps PROVE to(x) \subseteq Comps \cup {Fault}
    OBVIOUS
  <2>1. lists[x] # <<>> => Head(lists[x]) \in Comps
    <3>1. lists[x] \in Seq(Comps) BY DEF Arranged
    <3>2. QED BY <3>1
  <2>2. \A y : Peer(y, lists) \subseteq Comps BY PeerFacts
  <2>3. QED BY <2>1, <2>2 DEF NextContained
<1>2. Fault \notin Comps BY DEF Objs, Containers
<1>3. Walk(o, lists, where) = UNION {Reach(x, next) : x \in to(o)}
  BY DEF Walk
<1>4. DOMAIN next = Comps \cup {Fault} OBVIOUS
<1>5. \A x \in Comps : next[x] = to(x) BY <1>2
<1>6. next[Fault] = {} OBVIOUS
<1>7. to(o) \subseteq Comps \cup {Fault} BY <1>1
<1> HIDE DEF next, to
<1>8. \A x \in DOMAIN next : next[x] \subseteq DOMAIN next BY <1>1, <1>4, <1>5, <1>6
<1>9. ASSUME NEW x \in to(o)
      PROVE  /\ Reach(x, next) \subseteq DOMAIN next /\ x \in Reach(x, next)
             /\ \A y \in Reach(x, next) : next[y] \subseteq Reach(x, next)
             /\ \A S \in SUBSET DOMAIN next :
                  x \in S /\ (\A s \in S : next[s] \subseteq S) => Reach(x, next) \subseteq S
  <2>1. x \in DOMAIN next BY <1>4, <1>7
  <2>2. QED BY <1>8, <2>1, ReachLeast
<1>10. Walk(o, lists, where) \subseteq Comps \cup {Fault} BY <1>3, <1>4, <1>9
<1>11. to(o) \subseteq Walk(o, lists, where) BY <1>3, <1>9
<1>12. ASSUME NEW y \in Walk(o, lists, where) \ {Fault} PROVE to(y) \subseteq Walk(o, lists, where)
  <2>1. PICK x \in to(o) : y \in Reach(x, next) BY <1>3
  <2>2. next[y] = to(y) BY <1>5, <1>10
  <2>3. to(y) \subseteq Reach(x, next) BY <1>9, <2>1, <2>2
  <2>4. QED BY <1>3, <2>3
<1>13. ASSUME NEW Q \in SUBSET (Comps \cup {Fault}), to(o) \subseteq Q,
              \A x \in Q \ {Fault} : to(x) \subseteq Q
       PROVE  Walk(o, lists, where) \subseteq Q
  <2>1. \A s \in Q : next[s] \subseteq Q BY <1>5, <1>6, <1>13
  <2>2. \A x \in to(o) : Reach(x, next) \subseteq Q BY <1>4, <1>9, <1>13, <2>1
  <2>3. QED BY <1>3, <2>2
<1>14. QED BY <1>10, <1>11, <1>12, <1>13 DEF to

(* A component o and all that is in it, however deep *)
Tree(o, where) == Reach(o, Below(where))

LEMMA TreeFacts ==
    ASSUME NEW lists, NEW where, NEW types, Arranged(lists, where, types), Ends(where),
           NEW o \in Comps, where[o] # o
    PROVE  /\ Tree(o, where) \subseteq Objs /\ o \in Tree(o, where)
           /\ System \notin Tree(o, where) /\ where[o] \notin Tree(o, where)
           /\ \A x \in Objs : where[x] \in Tree(o, where) => x \in Tree(o, where)
           /\ \A x \in Tree(o, where) \ {o} :
                where[x] \in Tree(o, where) /\ where[x] \in Comps /\ where[x] # x
           /\ \A S \in SUBSET Objs :
                o \in S /\ (\A x \in Objs : where[x] \in S => x \in S)
                => Tree(o, where) \subseteq S
<1> USE NameFacts
<1> DEFINE R == Tree(o, where)
<1>1. o \in Objs OBVIOUS
<1>2. \A c \in Objs : Below(where)[c] = {x \in Objs : where[x] = c} BY DEF Below
<1>3. DOMAIN Below(where) = Objs BY DEF Below
<1>4. /\ R \subseteq Objs /\ o \in R
      /\ \A x \in R : Below(where)[x] \subseteq R
      /\ \A S \in SUBSET Objs :
           o \in S /\ (\A s \in S : Below(where)[s] \subseteq S) => R \subseteq S
  BY <1>1, <1>2, <1>3, ReachLeast DEF Tree
<1> HIDE DEF R
<1>5. \A x \in Objs : where[x] \in R => x \in R BY <1>2, <1>4
<1>6. ASSUME NEW S \in SUBSET Objs, o \in S, \A x \in Objs : where[x] \in S => x \in S
      PROVE  R \subseteq S
  <2>1. \A s \in S : Below(where)[s] \subseteq S BY <1>2, <1>6
  <2>2. QED BY <1>4, <1>6, <2>1
<1>7. ASSUME NEW x \in R \ {o} PROVE where[x] \in R /\ where[x] # x
  <2>1. SUFFICES ASSUME where[x] \notin R \/ where[x] = x PROVE FALSE
    OBVIOUS
  <2>2. \A y \in Objs : where[y] \in R \ {x} => y \in R \ {x} BY <1>5, <2>1
  <2>3. R \subseteq R \ {x} BY <1>4, <1>6, <2>2
  <2>4. QED BY <2>3
<1>8. where[System] \notin Objs BY DEF Arranged, Nested
<1>9. o # System OBVIOUS
<1>10. System \notin R BY <1>4, <1>7, <1>8, <1>9
<1>11. ASSUME NEW x \in Objs, where[x] \in R PROVE where[x] \in Comps
  <2>1. where[x] \in Containers BY <1>4, <1>11 DEF Arranged, Objs
  <2>2. QED BY <1>10, <1>11, <2>1 DEF Containers
<1>12. where[o] \notin R
  <2>1. SUFFICES ASSUME where[o] \in R PROVE FALSE
    OBVIOUS
  <2> DEFINE T == R \cap Comps
  <2>2. o \in T BY <1>4
  <2>3. PICK t \in T : where[t] \notin T \ {t} BY <2>2 DEF Ends
  <2>4. where[t] \in R /\ where[t] # t BY <1>7, <2>1, <2>3
  <2>5. where[t] \in Comps BY <1>4, <1>11, <2>3, <2>4
  <2>6. QED BY <2>3, <2>4, <2>5
<1>13. \A x \in R \ {o} : where[x] \in R /\ where[x] \in Comps /\ where[x] # x
  BY <1>4, <1>7, <1>11
<1>14. QED BY <1>4, <1>5, <1>6, <1>10, <1>12, <1>13 DEF R

(* A walk through o stays in o. *)
LEMMA WalkStays ==
    ASSUME NEW lists, NEW where, NEW types, Arranged(lists, where, types), Ends(where),
           NEW o \in Comps, where[o] # o
    PROVE  \A x \in Walk(o, lists, where) \ {Fault} :
              x \in Comps /\ types[x] = "comp" /\ where[x] \in Tree(o, where) /\ x # o
<1> USE NameFacts
<1> DEFINE R == Tree(o, where)
           In == {x \in Comps : types[x] = "comp" /\ where[x] \in R}
           Q == In \cup {Fault}
<1>1. /\ R \subseteq Objs /\ o \in R /\ where[o] \notin R
      /\ \A x \in Objs : where[x] \in R => x \in R
      /\ \A x \in R \ {o} : where[x] \in R /\ where[x] \in Comps
  BY TreeFacts
<1> HIDE DEF R
<1>2. ASSUME NEW m \in R, m \in Comps, lists[m] # <<>> PROVE Head(lists[m]) \in In
  <2>1. Head(lists[m]) = lists[m][1] /\ 1 \in 1..Len(lists[m]) BY <1>2, OnList
  <2>2. QED BY <1>2, <2>1, OnList
<1>3. ASSUME NEW x, where[x] \in R PROVE Peer(x, lists) \subseteq In
  BY <1>3, PeerFacts
<1>4. NextContained(o, o, lists, where) \subseteq Q BY <1>1, <1>2 DEF NextContained
<1>5. ASSUME NEW x \in In PROVE NextContained(o, x, lists, where) \subseteq Q
  <2>1. x \in R /\ x \in Comps /\ where[x] \in R BY <1>1
  <2>2. where[x] # o => where[where[x]] \in R BY <1>1, <2>1
  <2>3. lists[x] # <<>> => Head(lists[x]) \in In BY <1>2, <2>1
  <2>4. Peer(x, lists) \subseteq In BY <1>3, <2>1
  <2>5. where[x] # o => Peer(where[x], lists) \subseteq In BY <1>3, <2>2
  <2> HIDE DEF In
  <2>6. QED BY <2>3, <2>4, <2>5 DEF NextContained
<1>6. Q \subseteq Comps \cup {Fault} OBVIOUS
<1>7. Walk(o, lists, where) \subseteq Q
  <2> HIDE DEF In
  <2>1. \A x \in Q \ {Fault} : NextContained(o, x, lists, where) \subseteq Q BY <1>5
  <2> HIDE DEF Q
  <2>2. QED BY <1>4, <1>6, <2>1, WalkFacts
<1>8. QED BY <1>1, <1>7 DEF R

LEMMA FirstOf ==
    ASSUME NEW n \in Nat, NEW B \in SUBSET (1..n), B # {}
    PROVE  \E j \in B : \A i \in B : j <= i
<1> DEFINE Bs == {1..j : j \in B}
<1>1. PICK T \in Bs : \A t \in Bs : ~ (<<t, T>> \in StrictSubsetOrdering(1..n))
  <2>1. IsFiniteSet(1..n) BY FS_Interval
  <2>2. Bs \subseteq FiniteSubsetsOf(1..n) BY <2>1, FS_FiniteSubsetsOfFinite
  <2>3. IsWellFoundedOn(StrictSubsetOrdering(1..n), FiniteSubsetsOf(1..n))
    BY FS_StrictSubsetOrderingWellFounded
  <2>4. Bs # {} OBVIOUS
  <2> HIDE DEF Bs
  <2>5. QED BY <2>2, <2>3, <2>4, WFMin
<1>2. PICK j \in B : T = 1..j OBVIOUS
<1>3. ASSUME NEW i \in B, i < j PROVE FALSE
  <2>1. 1..i \in Bs /\ 1..i \subseteq 1..j /\ j \notin 1..i /\ j \in 1..j BY <1>3
  <2>2. <<1..i, 1..j>> \in StrictSubsetOrdering(1..n) BY <2>1 DEF StrictSubsetOrdering
  <2>3. QED BY <1>1, <1>2, <2>1, <2>2
<1>4. \A i \in B : i \in Nat /\ j \in Nat OBVIOUS
<1>5. QED BY <1>3, <1>4

(* A walk that comes to the first of a list goes on to the last.           *)
LEMMA WalkAlong ==
    ASSUME NEW lists, NEW where, NEW types, Arranged(lists, where, types), Ends(where),
           NEW o \in Comps, where[o] # o, Fault \notin Walk(o, lists, where),
           NEW z \in Comps, z = o \/ z \in Walk(o, lists, where), lists[z] # <<>>,
           \A y \in Walk(o, lists, where) :
               where[y] = z /\ lists[y] # <<>> => Peer(y, lists) \subseteq Walk(o, lists, where)
    PROVE  \A j \in 1..Len(lists[z]) : lists[z][j] \in Walk(o, lists, where)
<1> USE NameFacts
<1> DEFINE W == Walk(o, lists, where)
           n == Len(lists[z])
           B == {j \in 1..n : lists[z][j] \notin W}
<1> SUFFICES ASSUME B # {} PROVE FALSE
  OBVIOUS
<1>1. /\ n \in Nat /\ n # 0 /\ Head(lists[z]) = lists[z][1]
      /\ \A j \in 1..n : lists[z][j] \in Comps /\ where[lists[z][j]] = z
  BY OnList
<1>2. NextContained(o, z, lists, where) \subseteq W
  <2>1. z # Fault BY DEF Objs, Containers
  <2>2. QED BY <2>1, WalkFacts
<1>3. lists[z][1] \in W BY <1>1, <1>2 DEF NextContained
<1>4. PICK j \in B : \A i \in B : j <= i
  <2>1. n \in Nat /\ B \in SUBSET (1..n) BY <1>1
  <2> HIDE DEF B
  <2>2. QED BY <2>1, FirstOf
<1>5. j \in 1..n /\ j # 1 BY <1>3
<1> DEFINE y == lists[z][j - 1]
<1>6. j - 1 \in 1..n /\ y \in W
  <2>1. j - 1 \in 1..n /\ ~ (j <= j - 1) BY <1>1, <1>5
  <2>2. j - 1 \notin B BY <1>4, <2>1
  <2>3. QED BY <2>1, <2>2
<1>7. where[y] = z BY <1>1, <1>6
<1>8. Peer(y, lists) = {lists[z][j]}
  <2>1. j - 1 # n /\ (j - 1) + 1 = j BY <1>1, <1>5
  <2>2. \A k \in 1..n : Peer(lists[z][k], lists) = IF k = n THEN {} ELSE {lists[z][k + 1]}
    BY NextOnList
  <2> HIDE DEF n
  <2>3. QED BY <1>6, <2>1, <2>2
<1>9. y # o /\ y # Fault
  <2> HIDE DEF y
  <2>1. QED BY <1>6, WalkStays
<1> HIDE DEF y
<1>10. NextContained(o, y, lists, where) \subseteq W BY <1>6, <1>9, WalkFacts
<1>11. Peer(y, lists) \subseteq W
  <2>1. CASE lists[y] # <<>> BY <1>6, <1>7, <2>1
  <2>2. CASE lists[y] = <<>>
    <3>1. NextContained(o, y, lists, where) = Peer(y, lists)
      BY <1>8, <1>9, <2>2 DEF NextContained
    <3>2. QED BY <1>10, <3>1
  <2>3. QED BY <2>1, <2>2
<1>12. QED BY <1>8, <1>11

(* A walk that does not fault finds every component in o.  If a component  *)
(* it finds were left before it is through, so were an innermost one; but  *)
(* that is left from the last it contains, which contains none.            *)
LEMMA WalkFindsAll ==
    ASSUME NEW lists, NEW where, NEW types, Arranged(lists, where, types), Ends(where),
           NEW o \in Comps, where[o] # o, Fault \notin Walk(o, lists, where),
           NEW c \in Tree(o, where), c # o, c \in Comps, types[c] = "comp"
    PROVE  c \in Walk(o, lists, where)
<1> USE NameFacts
<1> DEFINE W == Walk(o, lists, where)
           R == Tree(o, where)
           Through(z) == /\ \A j \in 1..Len(lists[z]) : lists[z][j] \in W
                         /\ Peer(z, lists) # {} /\ Peer(z, lists) \subseteq W
           Bad == {z \in W : lists[z] # <<>> /\ ~ Through(z)}
<1>1. \A x \in W : x \in Comps /\ types[x] = "comp" /\ where[x] \in R /\ x # o
  BY WalkStays
<1>2. \A x \in W : NextContained(o, x, lists, where) \subseteq W
  BY WalkFacts
<1>3. /\ R \subseteq Objs /\ o \in R
      /\ \A x \in Objs : where[x] \in R => x \in R
      /\ \A x \in R \ {o} : where[x] \in R /\ where[x] \in Comps /\ where[x] # x
      /\ \A S \in SUBSET Objs :
           o \in S /\ (\A x \in Objs : where[x] \in S => x \in S) => R \subseteq S
  BY TreeFacts
<1> HIDE DEF R, W
<1>4. Bad = {}
  <2> SUFFICES ASSUME Bad # {} PROVE FALSE
    OBVIOUS
  <2>1. PICK z \in Bad : \A y \in Bad : where[y] = z => y = z
    <3>1. Bad \in SUBSET Comps BY <1>1
    <3> HIDE DEF Bad
    <3>2. QED BY <3>1, Innermost
  <2>2. z \in W /\ z \in Comps /\ z # o /\ lists[z] # <<>> BY <1>1
  <2>3. ASSUME NEW y \in W, where[y] = z, lists[y] # <<>> PROVE Through(y)
    <3>1. y \in R BY <1>1, <1>3
    <3>2. y # z BY <1>1, <1>3, <2>3, <3>1
    <3>3. y \notin Bad BY <2>1, <2>3, <3>2
    <3>4. QED BY <2>3, <3>3
  <2>4. \A j \in 1..Len(lists[z]) : lists[z][j] \in W
    <3>1. \A y \in W : where[y] = z /\ lists[y] # <<>> => Peer(y, lists) \subseteq W
      BY <2>3
    <3>2. QED BY <2>2, <3>1, WalkAlong DEF W
  <2> DEFINE n == Len(lists[z])
             y == lists[z][n]
  <2>5. n \in 1..n /\ where[y] = z BY <2>2, OnList
  <2>6. y \in W BY <2>4, <2>5
  <2>7. Peer(y, lists) = {}
    <3>1. \A k \in 1..n : Peer(lists[z][k], lists) = IF k = n THEN {} ELSE {lists[z][k + 1]}
      BY <2>2, NextOnList
    <3> HIDE DEF n
    <3>2. QED BY <2>5, <3>1
  <2> HIDE DEF y
  <2>8. lists[y] = <<>> BY <2>3, <2>5, <2>6, <2>7
  <2>9. NextContained(o, y, lists, where) \subseteq W /\ Fault \notin W /\ y # o
    BY <1>1, <1>2, <2>6 DEF W
  <2>10. NextContained(o, y, lists, where) =
           IF Peer(z, lists) # {} THEN Peer(z, lists) ELSE {Fault}
    BY <2>2, <2>5, <2>7, <2>8, <2>9 DEF NextContained
  <2>11. Peer(z, lists) # {} /\ Peer(z, lists) \subseteq W BY <2>9, <2>10
  <2>12. QED BY <2>4, <2>11
<1>5. ASSUME NEW z \in Comps, z = o \/ z \in W, lists[z] # <<>>
      PROVE  \A j \in 1..Len(lists[z]) : lists[z][j] \in W
  <2>1. \A y \in W : where[y] = z /\ lists[y] # <<>> => Peer(y, lists) \subseteq W
    BY <1>4
  <2>2. QED BY <1>5, <2>1, WalkAlong DEF W
<1> DEFINE S == {x \in R : x \in Comps /\ types[x] = "comp" => x = o \/ x \in W}
<1>6. ASSUME NEW x \in Objs, where[x] \in S PROVE x \in S
  <2>1. x \in R BY <1>3, <1>6
  <2>2. SUFFICES ASSUME x \in Comps, types[x] = "comp", x # o PROVE x \in W
    BY <2>1
  <2> DEFINE z == where[x]
  <2>3. z \in Comps /\ z \in Containers /\ z \in Objs BY <1>3, <2>1, <2>2
  <2>4. types[z] = "comp" BY <2>3 DEF Arranged, Nested
  <2>5. z = o \/ z \in W BY <1>6, <2>3, <2>4
  <2>6. ListFind(lists[z], x) BY <2>2, <2>3 DEF Arranged, Nested
  <2>7. PICK j \in 1..Len(lists[z]) : lists[z][j] = x BY <2>6 DEF ListFind
  <2>8. lists[z] # <<>>
    <3>1. Len(lists[z]) \in Nat BY <2>3 DEF Arranged
    <3>2. Len(lists[z]) # 0 BY <2>7, <3>1
    <3>3. QED BY <3>2
  <2> HIDE DEF z
  <2>9. QED BY <1>5, <2>3, <2>5, <2>7, <2>8
<1>7. S \in SUBSET Objs /\ o \in S BY <1>3
<1>8. c \in S
  <2> HIDE DEF S
  <2>1. R \subseteq S BY <1>3, <1>6, <1>7
  <2>2. QED BY <2>1 DEF R
<1>9. QED BY <1>8 DEF W

(* An object that moves to where it does not lead back makes no loop.      *)
LEMMA MoveEnds ==
    ASSUME NEW where, where \in [Objs -> Containers \cup {NoComp, Gone}], Ends(where),
           NEW o \in Objs, NEW c, NEW D, o \in D,
           \A x \in Comps : where[x] \in D => x \in D,
           c \notin D \/ c = o
    PROVE  Ends([where EXCEPT ![o] = c])
<1> USE NameFacts
<1> DEFINE w == [where EXCEPT ![o] = c]
<1>1. w[o] = c /\ \A x \in Comps : x # o => w[x] = where[x] OBVIOUS
<1> HIDE DEF w
<1> SUFFICES ASSUME NEW S \in SUBSET Comps, S # {} PROVE \E x \in S : w[x] \notin S \ {x}
  BY DEF Ends, w
<1>2. CASE o \notin S
  <2>1. PICK x \in S : where[x] \notin S \ {x} BY DEF Ends
  <2>2. QED BY <1>1, <1>2, <2>1
<1>3. CASE o \in S /\ (c = o \/ S \subseteq D) BY <1>1, <1>3
<1>4. CASE o \in S /\ c # o /\ ~ (S \subseteq D)
  <2>1. S \ D # {} /\ S \ D \in SUBSET Comps BY <1>4
  <2>2. PICK x \in S \ D : where[x] \notin (S \ D) \ {x} BY <2>1 DEF Ends
  <2>3. where[x] \notin D /\ x # o OBVIOUS
  <2>4. QED BY <1>1, <2>2, <2>3
<1>5. QED BY <1>2, <1>3, <1>4

LEMMA NewEnds ==
    ASSUME MembersType, ContainmentEnds, NEW S
    PROVE  Ends(Housed(S))
<1>1. ASSUME NEW T \in SUBSET Comps, T # {} PROVE \E c \in T : Housed(S)[c] \notin T \ {c}
  <2>1. PICK c \in T : inside[c] \notin T \ {c} BY <1>1 DEF ContainmentEnds
  <2>2. System \notin T /\ c \in Objs BY DEF Objs, Containers
  <2>3. QED BY <2>1, <2>2 DEF Housed
<1>2. QED BY <1>1 DEF Ends

(* Objects that a call creates without a type are in System, on no list.   *)
LEMMA NewNested ==
    ASSUME MembersType, Nested(comps, inside, type), NEW S
    PROVE  Arranged(comps, Housed(S), Referenced(S))
<1> USE NameFacts DEF MembersType
<1>1. /\ Referenced(S) \in [Objs -> Types]
      /\ \A x \in Objs : Referenced(S)[x] \in Typed => Referenced(S)[x] = TypeOf(x)
      /\ Housed(S) \in [Objs -> Containers \cup {NoComp, Gone}]
  BY HelperTypes
<1>2. \A x \in Objs : /\ type[x] # "absent" => /\ Housed(S)[x] = inside[x]
                                              /\ Referenced(S)[x] = type[x]
                      /\ type[x] = "absent" =>
                           \/ Housed(S)[x] = System /\ Referenced(S)[x] = "none"
                           \/ Housed(S)[x] = inside[x] /\ Referenced(S)[x] = "absent"
  BY DEF Housed, Referenced
<1>3. System \in Objs OBVIOUS
<1> HIDE DEF MembersType
<1>4. Nested(comps, Housed(S), Referenced(S))
  <2> DEFINE w == Housed(S)
             t == Referenced(S)
  <2> HIDE DEF w, t
  <2>1. \A x \in Objs : /\ type[x] # "absent" => w[x] = inside[x] /\ t[x] = type[x]
                        /\ type[x] = "absent" => \/ w[x] = System /\ t[x] = "none"
                                                 \/ w[x] = inside[x] /\ t[x] = "absent"
    BY <1>2 DEF w, t
  <2>2. w[System] = NoComp /\ t[System] = "comp" BY <1>3, <2>1 DEF Nested
  <2>3. ASSUME NEW x \in Objs, w[x] \in Objs PROVE t[w[x]] = "comp"
    <3>1. CASE w[x] = System BY <2>2, <3>1
    <3>2. CASE w[x] = inside[x]
      <4>1. type[inside[x]] = "comp" BY <2>3, <3>2 DEF Nested
      <4>2. QED BY <2>1, <2>3, <3>2, <4>1
    <3>3. QED BY <2>1, <3>1, <3>2
  <2>4. \A x \in Objs : t[x] = "absent" => w[x] = NoComp
    <3> SUFFICES ASSUME NEW x \in Objs, t[x] = "absent" PROVE w[x] = NoComp
      OBVIOUS
    <3>1. type[x] = "absent" /\ w[x] = inside[x] BY <2>1
    <3>2. QED BY <3>1 DEF Nested
  <2>5. ASSUME NEW m \in Containers
        PROVE  /\ NoDuplicates(comps[m])
               /\ \A x \in Objs : ListFind(comps[m], x) <=>
                     x \in Comps /\ t[x] = "comp" /\ w[x] = m
    <3>1. ASSUME NEW x \in Objs
          PROVE  type[x] = "comp" /\ inside[x] = m <=> t[x] = "comp" /\ w[x] = m
      BY <2>1
    <3>2. QED BY <3>1 DEF Nested
  <2>6. Nested(comps, w, t) BY <2>2, <2>3, <2>4, <2>5 DEF Nested
  <2>7. QED BY <2>6 DEF w, t
<1>5. comps \in [Containers -> Seq(Comps)] BY DEF MembersType
<1>6. QED BY <1>1, <1>4, <1>5 DEF Arranged

(* An object that gets its type is listed where it is. *)
LEMMA TypedNested ==
    ASSUME NEW lists, NEW where, NEW types, Arranged(lists, where, types),
           NEW o \in Objs, types[o] \in {"none", TypeOf(o)},
           types[o] = "none" => where[o] \in Containers
    PROVE  Arranged(IF o \in Comps /\ types[o] # "comp"
                    THEN [lists EXCEPT ![where[o]] = <<o>> \o @] ELSE lists,
                    where, [types EXCEPT ![o] = TypeOf(o)])
<1> USE NameFacts
<1> DEFINE t == [types EXCEPT ![o] = TypeOf(o)]
           l == IF o \in Comps /\ types[o] # "comp"
                THEN [lists EXCEPT ![where[o]] = <<o>> \o @] ELSE lists
<1>1. /\ t \in [Objs -> Types] /\ t[o] = TypeOf(o)
      /\ \A x \in Objs : x # o => t[x] = types[x]
  BY DEF Arranged
<1>2. \A x \in Objs : t[x] \in Typed => t[x] = TypeOf(x) BY <1>1 DEF Arranged
<1>3. \A x \in Objs : types[x] = "comp" => t[x] = "comp"
  BY <1>1
<1>4. CASE ~ (o \in Comps /\ types[o] # "comp")
  <2>1. l = lists BY <1>4
  <2>2. \A x \in Comps : t[x] = "comp" <=> types[x] = "comp" BY <1>1, <1>3, <1>4
  <2>3. \A x \in Objs : t[x] = "absent" => types[x] = "absent" BY <1>1
  <2> HIDE DEF t, l
  <2>4. Nested(lists, where, t) BY <1>3, <2>2, <2>3 DEF Arranged, Nested
  <2>5. Arranged(lists, where, t) BY <1>1, <1>2, <2>4 DEF Arranged
  <2>6. QED BY <2>1, <2>5 DEF t, l
<1>5. CASE o \in Comps /\ types[o] # "comp"
  <2>1. where[o] \in Containers BY <1>5
  <2>2. lists \in [Containers -> Seq(Comps)] BY DEF Arranged
  <2> DEFINE m == where[o]
  <2>3. /\ l[m] = <<o>> \o lists[m]
        /\ \A n \in Containers : n # m => l[n] = lists[n]
        /\ l = [n \in Containers |-> IF n = m THEN <<o>> \o lists[m] ELSE lists[n]]
    BY <1>5, <2>1, <2>2
  <2>4. ~ ListFind(lists[m], o) /\ NoDuplicates(lists[m]) /\ lists[m] \in Seq(Comps)
    BY <1>5, <2>1, <2>2 DEF Arranged, Nested
  <2>5. /\ <<o>> \o lists[m] \in Seq(Comps) /\ NoDuplicates(<<o>> \o lists[m])
        /\ \A x : ListFind(<<o>> \o lists[m], x) <=> x = o \/ ListFind(lists[m], x)
    BY <1>5, <2>4, InFront
  <2>6. l \in [Containers -> Seq(Comps)] BY <2>2, <2>3, <2>5
  <2>7. t[o] = "comp" BY <1>1, <1>5
  <2>8. ASSUME NEW n \in Containers
        PROVE  /\ NoDuplicates(l[n])
               /\ \A x \in Objs : ListFind(l[n], x) <=>
                     x \in Comps /\ t[x] = "comp" /\ where[x] = n
    <3>1. /\ NoDuplicates(lists[n])
          /\ \A x \in Objs : ListFind(lists[n], x) <=>
                x \in Comps /\ types[x] = "comp" /\ where[x] = n
      BY DEF Arranged, Nested
    <3> HIDE DEF l, t
    <3>2. CASE n # m BY <1>1, <2>3, <3>1, <3>2
    <3>3. CASE n = m BY <1>1, <1>5, <2>3, <2>5, <2>7, <3>1, <3>3
    <3>4. QED BY <3>2, <3>3
  <2>9. \A x \in Objs : t[x] = "absent" => types[x] = "absent" BY <1>1
  <2> HIDE DEF t, l, m
  <2>10. /\ where[System] = NoComp /\ t[System] = "comp"
         /\ \A x \in Objs : where[x] \in Objs => t[where[x]] = "comp"
         /\ \A x \in Objs : t[x] = "absent" => where[x] = NoComp
    BY <1>3, <2>9 DEF Arranged, Nested
  <2>11. Nested(l, where, t) BY <2>8, <2>10 DEF Nested
  <2>12. Arranged(l, where, t) BY <1>1, <1>2, <2>6, <2>11 DEF Arranged
  <2>13. QED BY <2>12 DEF t, l
<1>6. QED BY <1>4, <1>5

(* The lists when o leaves that of one component for that of c *)
Relisted(lists, from, c, o) ==
    LET left == [lists EXCEPT ![from] = ListRemove(@, o)]
    IN  [left EXCEPT ![c] = <<o>> \o @]

(* An object that moves is taken off the list it is on, if it is on one,   *)
(* and put on that of the component it moves to.                           *)
LEMMA MovedNested ==
    ASSUME NEW lists, NEW where, NEW types, Arranged(lists, where, types),
           NEW o \in Objs, o # System, types[o] # "absent",
           NEW c \in Containers, types[c] = "comp",
           NEW after, NEW there, there = [where EXCEPT ![o] = c],
           after = IF types[o] # "comp" THEN lists
                   ELSE Relisted(lists, where[o], c, o)
    PROVE  Nested(after, there, types)
<1> USE NameFacts
<1> DEFINE w == [where EXCEPT ![o] = c]
           left == [lists EXCEPT ![where[o]] = ListRemove(@, o)]
           put == [left EXCEPT ![c] = <<o>> \o @]
<1>1. w[o] = c /\ \A x \in Objs : x # o => w[x] = where[x] BY DEF Arranged
<1>2. /\ w[System] = NoComp /\ types[System] = "comp"
      /\ \A x \in Objs : w[x] \in Objs => types[w[x]] = "comp"
      /\ \A x \in Objs : types[x] = "absent" => w[x] = NoComp
  <2> HIDE DEF w
  <2>1. QED BY <1>1 DEF Arranged, Nested
<1>3. \A m \in Containers :
        /\ lists[m] \in Seq(Comps) /\ NoDuplicates(lists[m])
        /\ \A x \in Objs : ListFind(lists[m], x) <=>
              x \in Comps /\ types[x] = "comp" /\ where[x] = m
  BY DEF Arranged, Nested
<1>4. CASE types[o] # "comp"
  <2>1. ASSUME NEW m \in Containers, NEW x \in Objs
        PROVE  ListFind(lists[m], x) <=> x \in Comps /\ types[x] = "comp" /\ w[x] = m
    <3> HIDE DEF w
    <3>1. QED BY <1>1, <1>3, <1>4
  <2> HIDE DEF w
  <2>2. Nested(lists, w, types) BY <1>2, <1>3, <2>1 DEF Nested
  <2>3. QED BY <1>4, <2>2 DEF w
<1>5. CASE types[o] = "comp"
  <2>1. o \in Comps
    <3>1. o \in Containers BY <1>5 DEF Arranged
    <3>2. QED BY <3>1 DEF Containers
  <2>2. ASSUME NEW m \in Containers
        PROVE  /\ left[m] \in Seq(Comps) /\ NoDuplicates(left[m])
               /\ \A x \in Objs : ListFind(left[m], x) <=>
                     x # o /\ x \in Comps /\ types[x] = "comp" /\ where[x] = m
    <3>1. left[m] = IF m = where[o] THEN ListRemove(lists[m], o) ELSE lists[m]
      BY DEF Arranged
    <3>2. /\ ListRemove(lists[m], o) \in Seq(Comps) /\ NoDuplicates(ListRemove(lists[m], o))
          /\ \A x \in Objs : ListFind(ListRemove(lists[m], o), x) <=>
                ListFind(lists[m], x) /\ x # o
      BY <1>3, RemoveType, RemoveNoDuplicates, RemoveFind
    <3> HIDE DEF left
    <3>3. CASE m = where[o] BY <1>3, <3>1, <3>2, <3>3
    <3>4. CASE m # where[o] BY <1>3, <3>1, <3>4
    <3>5. QED BY <3>3, <3>4
  <2>3. \A m \in Containers : put[m] = IF m = c THEN <<o>> \o left[c] ELSE left[m]
    <3>1. DOMAIN left = Containers BY DEF Arranged
    <3> HIDE DEF left
    <3>2. QED BY <3>1
  <2>4. ~ ListFind(left[c], o) /\ NoDuplicates(left[c]) /\ left[c] \in Seq(Comps)
    <3> HIDE DEF left
    <3>1. QED BY <2>2
  <2>5. /\ NoDuplicates(<<o>> \o left[c])
        /\ \A x : ListFind(<<o>> \o left[c], x) <=> x = o \/ ListFind(left[c], x)
    <3> HIDE DEF left
    <3>1. QED BY <2>1, <2>4, InFront
  <2>6. ASSUME NEW m \in Containers
        PROVE  /\ NoDuplicates(put[m])
               /\ \A x \in Objs : ListFind(put[m], x) <=>
                     x \in Comps /\ types[x] = "comp" /\ w[x] = m
    <3> HIDE DEF left, put, w
    <3>1. CASE m = c BY <1>1, <1>5, <2>1, <2>2, <2>3, <2>5, <3>1
    <3>2. CASE m # c BY <1>1, <1>5, <2>1, <2>2, <2>3, <3>2
    <3>3. QED BY <3>1, <3>2
  <2> HIDE DEF w, put
  <2>7. Nested(put, w, types) BY <1>2, <2>6 DEF Nested
  <2>8. QED BY <1>5, <2>7 DEF w, put, Relisted
<1>6. QED BY <1>4, <1>5

(* What a call can name is in a component, and not in itself.              *)
LEMMA NamedIsSomewhere ==
    ASSUME MembersType, Nested(comps, inside, type),
           NEW S, NEW o \in S, o \in Nameable, o # System
    PROVE  o \in Objs /\ Housed(S)[o] \in Containers /\ Housed(S)[o] # o
<1> USE NameFacts
<1>1. DOMAIN Members = Objs /\ \A c \in Objs : Members[c] = {x \in Objs : inside[x] = c}
  BY DEF Members
<1>2. /\ Found \subseteq Objs /\ System \in Found
      /\ \A x \in Found : Members[x] \subseteq Found
      /\ \A T \in SUBSET Objs :
           System \in T /\ (\A s \in T : Members[s] \subseteq T) => Found \subseteq T
  <2>1. System \in DOMAIN Members BY <1>1
  <2>2. \A x \in DOMAIN Members : Members[x] \subseteq DOMAIN Members BY <1>1
  <2>3. QED BY <1>1, <2>1, <2>2, ReachLeast DEF Found
<1>3. CASE type[o] = "absent"
  <2>1. o \in Objs /\ o # System BY <1>2 DEF Nameable
  <2>2. Housed(S)[o] = System BY <1>3, <2>1 DEF Housed
  <2>3. QED BY <2>1, <2>2
<1>4. CASE type[o] # "absent"
  <2>1. o \in Found /\ o \in Objs BY <1>2, <1>4 DEF Nameable
  <2>2. Housed(S)[o] = inside[o] BY <1>4, <2>1 DEF Housed
  <2>3. inside[o] \in Objs /\ inside[o] # o
    <3>1. SUFFICES ASSUME inside[o] \notin Objs \/ inside[o] = o PROVE FALSE
      OBVIOUS
    <3>2. \A s \in Found \ {o} : Members[s] \subseteq Found \ {o}
      <4> SUFFICES ASSUME NEW s \in Found \ {o}, NEW x \in Members[s], x = o PROVE FALSE
        BY <1>2
      <4>1. inside[o] = s /\ s \in Objs /\ s # o BY <1>1, <1>2
      <4>2. QED BY <3>1, <4>1
    <3>3. Found \subseteq Found \ {o} BY <1>2, <3>2
    <3>4. QED BY <2>1, <3>3
  <2>4. inside[o] \in Containers
    <3>1. inside[o] \in Containers \cup {NoComp, Gone} BY <2>1 DEF MembersType
    <3>2. QED BY <2>3, <3>1
  <2>5. QED BY <2>1, <2>2, <2>3, <2>4
<1>5. QED BY <1>3, <1>4

LEMMA ContainsNested ==
    ASSUME TypeOK, Nested(comps, inside, type), ContainmentEnds,
           NEW c \in Containers, NEW o \in Objs, CompContains(c, o)
    PROVE  ContainmentEnds' /\ (alive' => Nested(comps', inside', type'))
<1> USE NameFacts, TypeParts
<1> DEFINE housed == Housed({c, o})
           chained == Chained(c, housed)
           walk == IF type'[o] = "comp" THEN Walk(o, chained, housed) ELSE {}
<1>1. /\ o # System /\ {c, o} \subseteq Nameable
      /\ type' = [Referenced({c, o}) EXCEPT ![c] = TypeOf(c)]
  BY DEF CompContains, Call
<1>2. Arranged(comps, housed, Referenced({c, o})) BY NewNested
<1>3. Ends(housed) BY NewEnds
<1>4. housed \in [Objs -> Containers \cup {NoComp, Gone}] BY <1>2 DEF Arranged
<1>5. housed[o] \in Containers /\ housed[o] # o BY <1>1, NamedIsSomewhere
<1>6. Referenced({c, o})[c] \in {"none", TypeOf(c)} /\ c \in Objs
  BY DEF Referenced, MembersType, Types, Typed
<1>7. Referenced({c, o})[c] = "none" => housed[c] \in Containers
  <2>1. c # System => housed[c] \in Containers BY <1>1, NamedIsSomewhere
  <2>2. Referenced({c, o})[System] # "none" BY DEF Nested, Referenced
  <2>3. QED BY <2>1, <2>2
<1>8. chained = IF c \in Comps /\ Referenced({c, o})[c] # "comp"
                THEN [comps EXCEPT ![housed[c]] = <<c>> \o @] ELSE comps
  BY DEF Chained, Referenced
<1> HIDE DEF housed
<1>9. Arranged(chained, housed, type')
  <2> HIDE DEF chained
  <2>1. QED BY <1>1, <1>2, <1>6, <1>7, <1>8, TypedNested
<1>10. type'[c] = "comp" /\ type'[o] # "absent"
  BY <1>1 DEF Referenced, MembersType, Types
<1>11. /\ alive' = (c \in walk \/ Fault \notin walk)
       /\ c \in walk \/ ~ alive' => comps' = chained /\ inside' = inside
       /\ ~ (c \in walk \/ ~ alive') =>
            /\ inside' = [housed EXCEPT ![o] = c]
            /\ comps' = IF type'[o] # "comp" THEN chained
                        ELSE LET left == [chained EXCEPT ![housed[o]] = ListRemove(@, o)]
                             IN  [left EXCEPT ![c] = <<o>> \o @]
  BY DEF CompContains, housed
<1>12. type'[o] = "comp" => o \in Comps
  <2>1. type'[o] = "comp" => o \in Containers BY <1>9 DEF Arranged
  <2>2. QED BY <1>1, <2>1 DEF Containers
<1> HIDE DEF chained
<1>13. CASE c \in walk
  <2>1. type'[o] = "comp" /\ c \in Walk(o, chained, housed) /\ o \in Comps BY <1>12, <1>13
  <2>2. c # Fault BY <1>6
  <2>3. housed[c] \in Tree(o, housed) /\ c # o
    BY <1>3, <1>5, <1>9, <2>1, <2>2, WalkStays
  <2>4. System \notin Tree(o, housed) BY <1>3, <1>5, <1>9, <2>1, TreeFacts
  <2>5. type[c] # "absent" BY <1>6, <2>3, <2>4 DEF housed, Housed
  <2>6. type[o] # "absent" BY <1>1, <2>1, <2>3 DEF Referenced, MembersType
  <2>7. housed = inside BY <2>5, <2>6 DEF housed, Housed, MembersType
  <2>8. comps' = chained /\ inside' = inside BY <1>11, <1>13
  <2>9. Nested(comps', inside', type') BY <1>9, <2>7, <2>8 DEF Arranged
  <2>10. QED BY <2>8, <2>9 DEF ContainmentEnds
<1>14. CASE ~ alive' BY <1>11, <1>14 DEF ContainmentEnds
<1>15. CASE c \notin walk /\ alive'
  <2>1. inside' = [housed EXCEPT ![o] = c] BY <1>11, <1>15
  <2>2. Nested(comps', inside', type')
    <3>1. comps' = IF type'[o] # "comp" THEN chained
                   ELSE LET left == [chained EXCEPT ![housed[o]] = ListRemove(@, o)]
                        IN  [left EXCEPT ![c] = <<o>> \o @]
      BY <1>11, <1>15
    <3>2. comps' = IF type'[o] # "comp" THEN chained
                   ELSE Relisted(chained, housed[o], c, o)
      BY <3>1 DEF Relisted
    <3>3. QED BY <1>1, <1>9, <1>10, <2>1, <3>2, MovedNested
  <2>3. Ends(inside')
    <3>1. CASE type'[o] # "comp"
      <4>1. \A x \in Comps : housed[x] \in {o} => x \in {o}
        BY <1>9, <3>1 DEF Arranged, Nested
      <4>2. QED BY <1>3, <1>4, <2>1, <4>1, MoveEnds
    <3>2. CASE type'[o] = "comp"
      <4>1. o \in Comps /\ c \notin Walk(o, chained, housed) /\ Fault \notin Walk(o, chained, housed)
        BY <1>11, <1>12, <1>15, <3>2
      <4>2. /\ o \in Tree(o, housed) /\ System \notin Tree(o, housed)
            /\ \A x \in Objs : housed[x] \in Tree(o, housed) => x \in Tree(o, housed)
        BY <1>3, <1>5, <1>9, <4>1, TreeFacts
      <4>3. c \notin Tree(o, housed) \/ c = o
        <5>1. SUFFICES ASSUME c \in Tree(o, housed), c # o PROVE FALSE
          OBVIOUS
        <5>2. c \in Comps BY <4>2, <5>1 DEF Containers
        <5>3. c \in Walk(o, chained, housed)
          BY <1>3, <1>5, <1>9, <1>10, <4>1, <5>1, <5>2, WalkFindsAll
        <5>4. QED BY <4>1, <5>3
      <4>4. QED BY <1>3, <1>4, <2>1, <4>2, <4>3, MoveEnds
    <3>3. QED BY <3>1, <3>2
  <2>4. QED BY <2>2, <2>3 DEF Ends, ContainmentEnds
<1>16. QED BY <1>13, <1>14, <1>15

(* What was in the deleted component is in System, or in nothing any more. *)
LEMMA DeleteNested ==
    ASSUME TypeOK, Nested(comps, inside, type), ContainmentEnds,
           NEW o \in Rules \cup Comps, type[o] = TypeOf(o), Delete(o)
    PROVE  ContainmentEnds' /\ Nested(comps', inside', type')
<1> USE NameFacts, TypeParts DEF MembersType
<1>1. o \in Objs /\ o # System BY DEF Objs, Containers
<1>2. /\ type' = [type EXCEPT ![o] = "absent"]
      /\ comps' = [m \in Containers |-> IF m = o THEN <<>> ELSE ListRemove(comps[m], o)]
  BY DEF Delete
<1>3. inside' = [x \in Objs |->
                   IF x = o THEN NoComp
                   ELSE IF x \in {y \in Members[o] : type[y] # "comp"} THEN System
                   ELSE IF inside[x] = o THEN Gone ELSE inside[x]]
  BY DEF Delete
<1>4. \A x \in Objs : x \in Members[o] <=> inside[x] = o BY <1>1 DEF Members
<1>5. ASSUME NEW x \in Objs
      PROVE  \/ x = o /\ inside'[x] = NoComp
             \/ x # o /\ inside[x] = o /\ type[x] # "comp" /\ inside'[x] = System
             \/ x # o /\ inside[x] = o /\ type[x] = "comp" /\ inside'[x] = Gone
             \/ x # o /\ inside[x] # o /\ inside'[x] = inside[x]
  BY <1>3, <1>4
<1>6. NoComp \notin Objs /\ Gone \notin Objs OBVIOUS
<1>7. type'[o] = "absent" /\ \A x \in Objs : x # o => type'[x] = type[x] BY <1>1, <1>2
<1>8. ContainmentEnds'
  <2> SUFFICES ASSUME NEW S \in SUBSET Comps, S # {} PROVE \E c \in S : inside'[c] \notin S \ {c}
    BY DEF ContainmentEnds
  <2>1. PICK c \in S : inside[c] \notin S \ {c} BY DEF ContainmentEnds
  <2>2. c \in Objs /\ System \notin S /\ NoComp \notin S /\ Gone \notin S
    BY <1>6 DEF Objs, Containers
  <2>3. inside'[c] \notin S \ {c} BY <1>5, <2>1, <2>2
  <2>4. QED BY <2>3
<1>9. inside'[System] = NoComp /\ type'[System] = "comp"
  <2>1. inside[System] = NoComp /\ type[System] = "comp" /\ System \in Objs BY DEF Nested
  <2>2. inside[System] # o BY <1>1, <1>6, <2>1
  <2>3. inside'[System] = inside[System] BY <1>1, <1>5, <2>1, <2>2
  <2>4. QED BY <1>1, <1>7, <2>1, <2>3
<1>10. ASSUME NEW x \in Objs, inside'[x] \in Objs PROVE type'[inside'[x]] = "comp"
  <2>1. CASE inside'[x] = System BY <1>9, <2>1
  <2>2. CASE inside[x] # o /\ inside'[x] = inside[x]
    <3>1. type[inside[x]] = "comp" BY <1>10, <2>2 DEF Nested
    <3>2. QED BY <1>7, <1>10, <2>2, <3>1
  <2>3. QED BY <1>5, <1>6, <1>10, <2>1, <2>2
<1>11. ASSUME NEW x \in Objs, type'[x] = "absent" PROVE inside'[x] = NoComp
  <2>1. CASE x = o BY <1>5, <2>1
  <2>2. CASE x # o
    <3>1. inside[x] = NoComp BY <1>7, <1>11, <2>2 DEF Nested
    <3>2. inside[x] # o BY <1>1, <1>6, <3>1
    <3>3. QED BY <1>5, <2>2, <3>1, <3>2
  <2>3. QED BY <2>1, <2>2
<1>12. ASSUME NEW m \in Containers
       PROVE  /\ NoDuplicates(comps'[m])
              /\ \A x \in Objs : ListFind(comps'[m], x) <=>
                    x \in Comps /\ type'[x] = "comp" /\ inside'[x] = m
  <2>1. /\ comps[m] \in Seq(Comps) /\ NoDuplicates(comps[m])
        /\ \A x \in Objs : ListFind(comps[m], x) <=>
              x \in Comps /\ type[x] = "comp" /\ inside[x] = m
    BY DEF Nested
  <2>2. CASE m = o
    <3>1. comps'[m] = <<>> BY <1>2, <2>2
    <3>2. NoDuplicates(comps'[m]) /\ \A x : ~ ListFind(comps'[m], x)
      BY <3>1 DEF NoDuplicates, ListFind
    <3>3. \A x \in Objs : inside'[x] # o BY <1>1, <1>5, <1>6
    <3>4. QED BY <2>2, <3>2, <3>3
  <2>3. CASE m # o
    <3>1. comps'[m] = ListRemove(comps[m], o) BY <1>2, <2>3
    <3>2. NoDuplicates(comps'[m]) BY <2>1, <3>1, RemoveNoDuplicates
    <3>3. ASSUME NEW x \in Objs
          PROVE  ListFind(comps'[m], x) <=> ListFind(comps[m], x) /\ x # o
      BY <2>1, <3>1, RemoveFind
    <3>4. ASSUME NEW x \in Objs
          PROVE  /\ x \in Comps /\ type[x] = "comp" /\ inside[x] = m /\ x # o
                 <=> x \in Comps /\ type'[x] = "comp" /\ inside'[x] = m
      <4>1. CASE x = o BY <1>7, <4>1
      <4>2. CASE x # o
        <5>1. type'[x] = type[x] BY <1>7, <4>2
        <5>2. type[x] = "comp" => (inside'[x] = m <=> inside[x] = m)
          BY <1>5, <1>6, <2>3, <4>2
        <5>3. QED BY <4>2, <5>1, <5>2
      <4>3. QED BY <4>1, <4>2
    <3>5. QED BY <2>1, <3>2, <3>3, <3>4
  <2>4. QED BY <2>2, <2>3
<1>13. QED BY <1>8, <1>9, <1>10, <1>11, <1>12 DEF Nested

ContainedStill == ContainmentEnds /\ (alive => Nested(comps, inside, type))

LEMMA ContainedStep ==
    ASSUME TypeOK, ContainedStill, [Next]_vars
    PROVE  ContainedStill'
<1> USE TypeParts, NameFacts DEF ContainedStill
<1>1. CASE UNCHANGED vars
  BY <1>1 DEF vars, members, ContainmentEnds
<1>2. ASSUME NEW o \in Rules \cup Comps, Create(o) PROVE ContainedStill'
  <2>1. /\ alive /\ o \in Nameable /\ o \in Objs /\ o # System
        /\ type' = [Referenced({o}) EXCEPT ![o] = TypeOf(o)]
        /\ inside' = Housed({o}) /\ comps' = Chained(o, Housed({o}))
    BY <1>2 DEF Create, Call, Referenced, MembersType, Objs, Containers
  <2>2. Arranged(comps, Housed({o}), Referenced({o})) BY <2>1, NewNested
  <2>3. Referenced({o})[o] \in {"none", TypeOf(o)}
    BY <2>1 DEF Referenced, MembersType, Types, Typed
  <2>4. Housed({o})[o] \in Containers BY <2>1, NamedIsSomewhere
  <2>5. comps' = IF o \in Comps /\ Referenced({o})[o] # "comp"
                 THEN [comps EXCEPT ![Housed({o})[o]] = <<o>> \o @] ELSE comps
    BY <2>1 DEF Chained, Referenced
  <2>6. Arranged(comps', inside', type')
    <3> DEFINE w == Housed({o})
               t == Referenced({o})
    <3>1. Arranged(comps, w, t) /\ t[o] \in {"none", TypeOf(o)} /\ w[o] \in Containers
      BY <2>2, <2>3, <2>4
    <3>2. /\ comps' = IF o \in Comps /\ t[o] # "comp"
                      THEN [comps EXCEPT ![w[o]] = <<o>> \o @] ELSE comps
          /\ inside' = w /\ type' = [t EXCEPT ![o] = TypeOf(o)]
      BY <2>1, <2>5
    <3>3. o \in Objs BY <2>1
    <3> HIDE DEF w, t
    <3>4. Arranged(IF o \in Comps /\ t[o] # "comp"
                   THEN [comps EXCEPT ![w[o]] = <<o>> \o @] ELSE comps,
                   w, [t EXCEPT ![o] = TypeOf(o)])
      BY <3>1, <3>3, TypedNested
    <3>5. QED BY <3>2, <3>4
  <2>7. Ends(inside') BY <2>1, NewEnds
  <2>8. QED BY <2>6, <2>7 DEF Arranged, Ends, ContainmentEnds
<1>3. ASSUME NEW S, alive, type' = Referenced(S), inside' = Housed(S), UNCHANGED comps
      PROVE  ContainedStill'
  <2>1. Arranged(comps, Housed(S), Referenced(S)) BY <1>3, NewNested
  <2>2. Ends(inside') BY <1>3, NewEnds
  <2>3. QED BY <1>3, <2>1, <2>2 DEF Arranged, Ends, ContainmentEnds
<1>4. ASSUME NEW p \in Objs, NEW c \in Objs, DependCreate(p, c) PROVE ContainedStill'
  BY <1>3, <1>4 DEF DependCreate, Call
<1>5. ASSUME NEW c \in Containers, NEW o \in Objs, CompContains(c, o)
      PROVE  ContainedStill'
  <2>1. alive BY <1>5 DEF CompContains, Call
  <2>2. QED BY <1>5, <2>1, ContainsNested
<1>6. ASSUME NEW o \in Rules \cup Comps, Call({o}), type[o] = TypeOf(o), Delete(o)
      PROVE  ContainedStill'
  <2>1. alive BY <1>6 DEF Call
  <2>2. QED BY <1>6, <2>1, DeleteNested
<1>7. ASSUME NEW r \in Rules, Call({r}), type' = Referenced({r}), inside' = Housed({r}),
             UNCHANGED comps
      PROVE  ContainedStill'
  BY <1>3, <1>7 DEF Call
<1>8. QED BY <1>1, <1>2, <1>4, <1>5, <1>6, <1>7, Steps

(* No component is, through others, in itself, unless it was put there      *)
(* directly, though the walk that each move relies on looks for the next    *)
(* component no further up than one: where it would have to, it follows a   *)
(* null pointer, and the program ends.                                      *)
THEOREM NoneWithinItself == Spec => []ContainmentEnds
<1>1. Init => ContainedStill
  <2> SUFFICES ASSUME Init PROVE ContainedStill
    OBVIOUS
  <2>1. /\ inside = [o \in Objs |-> NoComp] /\ comps = [c \in Containers |-> <<>>]
        /\ type = [o \in Objs |-> IF o = System THEN "comp" ELSE "absent"]
    BY DEF Init
  <2>2. NoComp \notin Objs /\ Comps \subseteq Objs BY NameFacts
  <2>3. ContainmentEnds BY <2>1, <2>2 DEF ContainmentEnds
  <2>4. System \notin Comps /\ System \in Objs BY NameFacts
  <2>5. ASSUME NEW m \in Containers
        PROVE  /\ NoDuplicates(comps[m])
               /\ \A x \in Objs : ListFind(comps[m], x) <=>
                     x \in Comps /\ type[x] = "comp" /\ inside[x] = m
    BY <2>1, <2>4 DEF NoDuplicates, ListFind
  <2>6. Nested(comps, inside, type) BY <2>1, <2>2, <2>4, <2>5 DEF Nested
  <2>7. QED BY <2>3, <2>6 DEF ContainedStill
<1>2. ContainedStill => ContainmentEnds BY DEF ContainedStill
<1>3. QED BY <1>1, <1>2, InitTypes, StepTypes, ContainedStep, PTL DEF Spec
=============================================================================
