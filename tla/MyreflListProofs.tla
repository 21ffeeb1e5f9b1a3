-------------------------- MODULE MyreflListProofs --------------------------
(* What the list operations preserve and return. *)
EXTENDS MyreflList, SequenceTheorems, TLAPS

(* Push adds one element, at the end. *)
LEMMA PushFacts ==
    ASSUME NEW S, NEW l \in Seq(S), NEW d \in S
    PROVE  /\ ListPush(l, d) \in Seq(S)
           /\ Len(ListPush(l, d)) = Len(l) + 1
           /\ \A i \in 1..Len(l) : ListPush(l, d)[i] = l[i]
           /\ ListPush(l, d)[Len(l) + 1] = d
BY DEF ListPush

(* A pushed element is found, and nothing else is found that was not. *)
LEMMA PushFind ==
    ASSUME NEW S, NEW l \in Seq(S), NEW d \in S, NEW e
    PROVE  ListFind(ListPush(l, d), e) <=> ListFind(l, e) \/ e = d
<1> DEFINE p == ListPush(l, d)
<1>1. /\ Len(p) = Len(l) + 1 /\ p[Len(l) + 1] = d
      /\ \A i \in 1..Len(l) : p[i] = l[i]
      /\ Len(l) \in Nat
  BY DEF ListPush
<1> HIDE DEF p
<1>2. ListFind(p, e) <=> ListFind(l, e) \/ e = d
  BY <1>1 DEF ListFind
<1>3. QED BY <1>2 DEF p

(* Pushing what a list does not hold keeps it free of duplicates. *)
LEMMA PushNoDuplicates ==
    ASSUME NEW S, NEW l \in Seq(S), NEW d \in S,
           NoDuplicates(l), ~ ListFind(l, d)
    PROVE  NoDuplicates(ListPush(l, d))
<1> DEFINE p == ListPush(l, d)
<1>1. /\ Len(p) = Len(l) + 1 /\ p[Len(l) + 1] = d
      /\ \A i \in 1..Len(l) : p[i] = l[i]
      /\ Len(l) \in Nat
  BY DEF ListPush
<1> HIDE DEF p
<1>2. NoDuplicates(p) BY <1>1 DEF NoDuplicates, ListFind
<1>3. QED BY <1>2 DEF p

(* Pop takes the head: the rest has the other elements, one place down. *)
LEMMA RestFacts ==
    ASSUME NEW S, NEW l \in Seq(S)
    PROVE  /\ ListRest(l) \in Seq(S)
           /\ l # <<>> =>
                /\ Head(l) \in S
                /\ Head(l) = l[1]
                /\ Len(l) \in Nat \ {0}
                /\ Len(ListRest(l)) = Len(l) - 1
                /\ \A i \in 1..Len(l) - 1 : ListRest(l)[i] = l[i + 1]
BY DEF ListRest

(* What is found in the rest was in the list; what was in the list is the  *)
(* head or found in the rest.                                              *)
LEMMA RestFind ==
    ASSUME NEW S, NEW l \in Seq(S), NEW e
    PROVE  /\ ListFind(ListRest(l), e) => ListFind(l, e)
           /\ l # <<>> => (ListFind(l, e) <=> ListFind(ListRest(l), e) \/ e = Head(l))
<1> DEFINE p == ListRest(l)
<1>1. l = <<>> => p = l BY DEF ListRest
<1>2. l # <<>> =>
         /\ Head(l) = l[1] /\ Len(l) \in Nat \ {0} /\ Len(p) = Len(l) - 1
         /\ \A i \in 1..Len(l) - 1 : p[i] = l[i + 1]
  BY RestFacts
<1> HIDE DEF p
<1>3. ASSUME l # <<>> PROVE ListFind(p, e) => ListFind(l, e)
  BY <1>2, <1>3 DEF ListFind
<1>4. ASSUME l # <<>>, ListFind(l, e) PROVE ListFind(p, e) \/ e = Head(l)
  <2>1. PICK i \in 1..Len(l) : l[i] = e BY <1>4 DEF ListFind
  <2>2. CASE i = 1 BY <2>1, <2>2, <1>2, <1>4
  <2>3. CASE i # 1
    <3>1. i - 1 \in 1..Len(l) - 1 /\ (i - 1) + 1 = i BY <2>1, <2>3, <1>2, <1>4
    <3>2. p[i - 1] = e BY <3>1, <1>2, <1>4, <2>1
    <3>3. QED BY <3>1, <3>2, <1>2, <1>4 DEF ListFind
  <2>4. QED BY <2>2, <2>3
<1>5. ASSUME l # <<>> PROVE ListFind(l, Head(l)) BY <1>2, <1>5 DEF ListFind
<1>6. QED BY <1>1, <1>3, <1>4, <1>5 DEF p

(* The rest of a list without duplicates has none and does not hold the    *)
(* head.                                                                   *)
LEMMA RestNoDuplicates ==
    ASSUME NEW S, NEW l \in Seq(S), NoDuplicates(l)
    PROVE  /\ NoDuplicates(ListRest(l))
           /\ l # <<>> => ~ ListFind(ListRest(l), Head(l))
<1> DEFINE p == ListRest(l)
<1>1. l = <<>> => p = l BY DEF ListRest
<1>2. l # <<>> =>
         /\ Head(l) = l[1] /\ Len(l) \in Nat \ {0} /\ Len(p) = Len(l) - 1
         /\ \A i \in 1..Len(l) - 1 : p[i] = l[i + 1]
  BY RestFacts
<1> HIDE DEF p
<1>3. ASSUME l # <<>> PROVE NoDuplicates(p)
  <2>1. SUFFICES ASSUME NEW i \in 1..Len(p), NEW j \in 1..Len(p), p[i] = p[j]
                 PROVE  i = j
    BY DEF NoDuplicates
  <2>2. /\ i \in 1..Len(l) - 1 /\ j \in 1..Len(l) - 1
        /\ i + 1 \in 1..Len(l) /\ j + 1 \in 1..Len(l)
    BY <2>1, <1>2, <1>3
  <2>3. l[i + 1] = l[j + 1] BY <2>1, <2>2, <1>2, <1>3
  <2>4. i + 1 = j + 1 BY <2>2, <2>3 DEF NoDuplicates
  <2>5. QED BY <2>2, <2>4
<1>4. ASSUME l # <<>>, ListFind(p, Head(l)) PROVE FALSE
  <2>1. PICK i \in 1..Len(p) : p[i] = Head(l) BY <1>4 DEF ListFind
  <2>2. i + 1 \in 1..Len(l) /\ 1 \in 1..Len(l) /\ i + 1 # 1
    BY <2>1, <1>2, <1>4
  <2>3. l[i + 1] = l[1] BY <2>1, <1>2, <1>4
  <2>4. QED BY <2>2, <2>3 DEF NoDuplicates
<1>5. QED BY <1>1, <1>3, <1>4 DEF p

(* Removing yields a list over the same set. *)
LEMMA RemoveType ==
    ASSUME NEW S, NEW l \in Seq(S), NEW d
    PROVE  ListRemove(l, d) \in Seq(S)
<1> DEFINE f == [k \in 1..Len(l) - 1 |->
                    IF \E i \in 1..k : l[i] = d THEN l[k + 1] ELSE l[k]]
<1>1. ASSUME ListFind(l, d) PROVE f \in Seq(S)
  <2>1. Len(l) - 1 \in Nat BY <1>1 DEF ListFind
  <2>2. \A k \in 1..Len(l) - 1 : l[k + 1] \in S /\ l[k] \in S BY <2>1
  <2>3. f \in [1..Len(l) - 1 -> S] BY <2>2
  <2>4. QED BY <2>1, <2>3, SeqDef
<1>2. QED BY <1>1 DEF ListRemove

(* What is left of a list without duplicates when d is removed: everything *)
(* else, in the same order.                                                *)
LEMMA RemoveFacts ==
    ASSUME NEW S, NEW l \in Seq(S), NEW d
    PROVE  /\ ~ ListFind(l, d) => ListRemove(l, d) = l
           /\ ListFind(l, d) =>
                /\ Len(l) \in Nat \ {0}
                /\ Len(ListRemove(l, d)) = Len(l) - 1
                /\ \A k \in 1..Len(l) - 1 :
                      ListRemove(l, d)[k] =
                         IF \E i \in 1..k : l[i] = d THEN l[k + 1] ELSE l[k]
<1>1. CASE ListFind(l, d)
  <2>1. Len(l) \in Nat \ {0} BY <1>1 DEF ListFind
  <2>2. QED BY <1>1, <2>1 DEF ListRemove
<1>2. CASE ~ ListFind(l, d) BY <1>2 DEF ListRemove
<1>3. QED BY <1>1, <1>2

(* With d at place p only, the elements after p move up one place. *)
LEMMA RemoveTheOne ==
    ASSUME NEW S, NEW l \in Seq(S), NEW d, NEW p \in 1..Len(l),
           NoDuplicates(l), l[p] = d
    PROVE  /\ Len(l) \in Nat \ {0}
           /\ Len(ListRemove(l, d)) = Len(l) - 1
           /\ \A k \in 1..Len(l) - 1 :
                 ListRemove(l, d)[k] = IF p <= k THEN l[k + 1] ELSE l[k]
<1>1. ListFind(l, d) BY DEF ListFind
<1>2. \A k \in 1..Len(l) - 1 : (\E i \in 1..k : l[i] = d) <=> p <= k
  <2>1. \A i \in 1..Len(l) : l[i] = d => i = p BY DEF NoDuplicates
  <2>2. Len(l) \in Nat OBVIOUS
  <2>3. QED BY <2>1, <2>2
<1>3. /\ Len(l) \in Nat \ {0}
      /\ Len(ListRemove(l, d)) = Len(l) - 1
      /\ \A k \in 1..Len(l) - 1 :
            ListRemove(l, d)[k] = IF \E i \in 1..k : l[i] = d THEN l[k + 1] ELSE l[k]
  BY <1>1, RemoveFacts
<1>4. ASSUME NEW k \in 1..Len(l) - 1
      PROVE  ListRemove(l, d)[k] = IF p <= k THEN l[k + 1] ELSE l[k]
  <2>1. ListRemove(l, d)[k] = IF \E i \in 1..k : l[i] = d THEN l[k + 1] ELSE l[k]
    BY <1>3
  <2>2. (\E i \in 1..k : l[i] = d) <=> p <= k BY <1>2
  <2>3. QED BY <2>1, <2>2
<1>5. QED BY <1>3, <1>4

(* m is l without what is at p *)
IsWithout(m, l, p) ==
    /\ Len(l) \in Nat \ {0} /\ Len(m) = Len(l) - 1
    /\ \A k \in 1..Len(l) - 1 : m[k] = IF p <= k THEN l[k + 1] ELSE l[k]

LEMMA RemoveIsWithout ==
    ASSUME NEW S, NEW l \in Seq(S), NEW d, NEW p \in 1..Len(l),
           NoDuplicates(l), l[p] = d
    PROVE  IsWithout(ListRemove(l, d), l, p)
BY RemoveTheOne DEF IsWithout

(* Removing d leaves everything but d. *)
LEMMA RemoveFind ==
    ASSUME NEW S, NEW l \in Seq(S), NEW d, NEW e, NoDuplicates(l)
    PROVE  ListFind(ListRemove(l, d), e) <=> ListFind(l, e) /\ e # d
<1> DEFINE r == ListRemove(l, d)
<1>1. CASE ~ ListFind(l, d)
  BY <1>1, RemoveFacts DEF ListFind
<1>2. CASE ListFind(l, d)
  <2>1. PICK p \in 1..Len(l) : l[p] = d BY <1>2 DEF ListFind
  <2>2. \A i \in 1..Len(l) : l[i] = d => i = p BY <2>1 DEF NoDuplicates
  <2>3. /\ Len(l) \in Nat \ {0} /\ Len(r) = Len(l) - 1
        /\ \A k \in 1..Len(l) - 1 : r[k] = IF p <= k THEN l[k + 1] ELSE l[k]
    BY <2>1, RemoveTheOne
  <2> HIDE DEF r
  <2>4. ASSUME ListFind(r, e) PROVE ListFind(l, e) /\ e # d
    <3>1. PICK k \in 1..Len(r) : r[k] = e BY <2>4 DEF ListFind
    <3>2. k \in 1..Len(l) - 1 /\ k \in 1..Len(l) /\ k + 1 \in 1..Len(l)
      BY <3>1, <2>3
    <3>3. CASE p <= k
      <4>1. e = l[k + 1] /\ k + 1 # p BY <3>1, <3>2, <3>3, <2>1, <2>3
      <4>2. QED BY <4>1, <3>2, <2>2 DEF ListFind
    <3>4. CASE ~ (p <= k)
      <4>1. e = l[k] /\ k # p BY <3>1, <3>2, <3>4, <2>1, <2>3
      <4>2. QED BY <4>1, <3>2, <2>2 DEF ListFind
    <3>5. QED BY <3>3, <3>4
  <2>5. ASSUME ListFind(l, e), e # d PROVE ListFind(r, e)
    <3>1. PICK i \in 1..Len(l) : l[i] = e BY <2>5 DEF ListFind
    <3>2. i # p BY <3>1, <2>1, <2>5
    <3>3. CASE i < p
      <4>1. i \in 1..Len(r) /\ r[i] = e BY <3>1, <3>3, <2>1, <2>3
      <4>2. QED BY <4>1 DEF ListFind
    <3>4. CASE i > p
      <4>1. i - 1 \in 1..Len(r) /\ r[i - 1] = e BY <3>1, <3>4, <2>1, <2>3
      <4>2. QED BY <4>1 DEF ListFind
    <3>5. QED BY <3>2, <3>3, <3>4, <3>1, <2>1
  <2>6. QED BY <2>4, <2>5 DEF r
<1>3. QED BY <1>1, <1>2

(* Removing makes no duplicates. *)
LEMMA RemoveNoDuplicates ==
    ASSUME NEW S, NEW l \in Seq(S), NEW d, NoDuplicates(l)
    PROVE  NoDuplicates(ListRemove(l, d))
<1> DEFINE r == ListRemove(l, d)
<1>1. CASE ~ ListFind(l, d) BY <1>1, RemoveFacts
<1>2. CASE ListFind(l, d)
  <2>1. PICK p \in 1..Len(l) : l[p] = d BY <1>2 DEF ListFind
  <2>2. \A i \in 1..Len(l) : l[i] = d => i = p BY <2>1 DEF NoDuplicates
  <2>3. /\ Len(l) \in Nat \ {0} /\ Len(r) = Len(l) - 1
        /\ \A k \in 1..Len(l) - 1 : r[k] = IF p <= k THEN l[k + 1] ELSE l[k]
    BY <2>1, RemoveTheOne
  <2> HIDE DEF r
  <2>4. SUFFICES ASSUME NEW i \in 1..Len(r), NEW j \in 1..Len(r), r[i] = r[j]
                 PROVE  i = j
    BY DEF NoDuplicates, r
  <2> DEFINE f(k) == IF p <= k THEN k + 1 ELSE k
  <2>5. \A k \in 1..Len(r) : f(k) \in 1..Len(l) /\ r[k] = l[f(k)] BY <2>1, <2>3
  <2>6. f(i) = f(j)
    <3> HIDE DEF f
    <3>1. QED BY <2>4, <2>5 DEF NoDuplicates
  <2>7. QED BY <2>6, <2>1, <2>3
<1>3. QED BY <1>1, <1>2

(* Insert puts d behind the first n elements. *)
LEMMA InsertFacts ==
    ASSUME NEW S, NEW l \in Seq(S), NEW d \in S, NEW n \in 0..Len(l),
           ~ ListFind(l, d)
    PROVE  /\ ListInsert(l, n, d) \in Seq(S)
           /\ Len(ListInsert(l, n, d)) = Len(l) + 1
           /\ \A k \in 1..Len(l) + 1 :
                 ListInsert(l, n, d)[k] =
                    IF k <= n THEN l[k] ELSE IF k = n + 1 THEN d ELSE l[k - 1]
<1> DEFINE a == SubSeq(l, 1, n)
           b == <<d>>
           c == SubSeq(l, n + 1, Len(l))
<1>1. Len(l) \in Nat /\ n \in Nat /\ n <= Len(l) /\ \A i \in 1..Len(l) : l[i] \in S
  BY ElementOfSeq, LenProperties
<1>2. /\ a \in Seq(S) /\ Len(a) = n
      /\ \A i \in 1..n : a[i] = l[i]
  <2>1. \A i \in 1..n : l[i] \in S BY <1>1
  <2>2. /\ SubSeq(l, 1, n) \in Seq(S)
        /\ Len(SubSeq(l, 1, n)) = IF 1 <= n THEN n - 1 + 1 ELSE 0
        /\ \A i \in 1..n - 1 + 1 : SubSeq(l, 1, n)[i] = l[1 + i - 1]
    BY <2>1, <1>1, SubSeqProperties
  <2>3. QED BY <2>2, <1>1
<1>3. /\ c \in Seq(S) /\ Len(c) = Len(l) - n
      /\ \A i \in 1..Len(l) - n : c[i] = l[n + i]
  <2>1. \A i \in n + 1..Len(l) : l[i] \in S BY <1>1
  <2>2. /\ SubSeq(l, n + 1, Len(l)) \in Seq(S)
        /\ Len(SubSeq(l, n + 1, Len(l))) =
              IF n + 1 <= Len(l) THEN Len(l) - (n + 1) + 1 ELSE 0
        /\ \A i \in 1..Len(l) - (n + 1) + 1 :
              SubSeq(l, n + 1, Len(l))[i] = l[n + 1 + i - 1]
    BY <2>1, <1>1, SubSeqProperties
  <2>3. QED BY <2>2, <1>1
<1>4. b \in Seq(S) /\ Len(b) = 1 /\ b[1] = d OBVIOUS
<1>5. ListInsert(l, n, d) = a \o b \o c
  <2>1. (n + 1) - 1 = n BY <1>1
  <2>2. InsertAt(l, n + 1, d) = SubSeq(l, 1, (n + 1) - 1) \o b \o c
    BY DEF InsertAt
  <2>3. QED BY <2>1, <2>2 DEF ListInsert
<1> HIDE DEF a, b, c
<1>6. /\ a \o b \in Seq(S) /\ Len(a \o b) = n + 1
      /\ \A i \in 1..n + 1 : (a \o b)[i] = IF i <= n THEN a[i] ELSE b[i - n]
  <2>1. /\ a \o b \in Seq(S)
        /\ Len(a \o b) = Len(a) + Len(b)
        /\ \A i \in 1..Len(a) + Len(b) :
              (a \o b)[i] = IF i <= Len(a) THEN a[i] ELSE b[i - Len(a)]
    BY <1>2, <1>4, ConcatProperties
  <2>2. QED BY <2>1, <1>1, <1>2, <1>4
<1>7. /\ (a \o b) \o c \in Seq(S) /\ Len((a \o b) \o c) = Len(l) + 1
      /\ \A i \in 1..Len(l) + 1 :
            ((a \o b) \o c)[i] =
                IF i <= n + 1 THEN (a \o b)[i] ELSE c[i - (n + 1)]
  <2>1. /\ (a \o b) \o c \in Seq(S)
        /\ Len((a \o b) \o c) = Len(a \o b) + Len(c)
        /\ \A i \in 1..Len(a \o b) + Len(c) :
              ((a \o b) \o c)[i] =
                  IF i <= Len(a \o b) THEN (a \o b)[i] ELSE c[i - Len(a \o b)]
    BY <1>3, <1>6, ConcatProperties
  <2>2. Len(a \o b) + Len(c) = Len(l) + 1 BY <1>1, <1>3, <1>6
  <2>3. QED BY <2>1, <2>2, <1>6
<1>8. ASSUME NEW k \in 1..Len(l) + 1
      PROVE  ((a \o b) \o c)[k] =
                IF k <= n THEN l[k] ELSE IF k = n + 1 THEN d ELSE l[k - 1]
  <2>1. CASE k <= n BY <2>1, <1>1, <1>2, <1>6, <1>7
  <2>2. CASE k = n + 1
    <3>1. k - n = 1 BY <2>2, <1>1
    <3>2. QED BY <2>2, <3>1, <1>1, <1>4, <1>6, <1>7
  <2>3. CASE k > n + 1
    <3>1. k - (n + 1) \in 1..Len(l) - n /\ n + (k - (n + 1)) = k - 1
      BY <2>3, <1>1
    <3>2. c[k - (n + 1)] = l[k - 1] BY <3>1, <1>3
    <3>3. QED BY <2>3, <3>2, <1>1, <1>7
  <2>4. k <= n \/ k = n + 1 \/ k > n + 1 BY <1>1
  <2>5. QED BY <2>1, <2>2, <2>3, <2>4
<1>9. QED BY <1>5, <1>7, <1>8

(* An inserted element is found, and nothing else that was not there. *)
LEMMA InsertFind ==
    ASSUME NEW S, NEW l \in Seq(S), NEW d \in S, NEW n \in 0..Len(l), NEW e,
           ~ ListFind(l, d)
    PROVE  ListFind(ListInsert(l, n, d), e) <=> ListFind(l, e) \/ e = d
<1> DEFINE r == ListInsert(l, n, d)
<1>1. /\ Len(r) = Len(l) + 1 /\ Len(l) \in Nat /\ n \in Nat /\ n <= Len(l)
      /\ \A k \in 1..Len(l) + 1 :
            r[k] = IF k <= n THEN l[k] ELSE IF k = n + 1 THEN d ELSE l[k - 1]
  BY InsertFacts, LenProperties
<1> HIDE DEF r
<1>2. ASSUME ListFind(r, e) PROVE ListFind(l, e) \/ e = d
  <2>1. PICK k \in 1..Len(r) : r[k] = e BY <1>2 DEF ListFind
  <2>2. CASE k <= n
    <3>1. k \in 1..Len(l) /\ l[k] = e BY <2>1, <2>2, <1>1
    <3>2. QED BY <3>1 DEF ListFind
  <2>3. CASE k = n + 1 BY <2>1, <2>3, <1>1
  <2>4. CASE k > n + 1
    <3>1. k - 1 \in 1..Len(l) /\ l[k - 1] = e BY <2>1, <2>4, <1>1
    <3>2. QED BY <3>1 DEF ListFind
  <2>5. QED BY <2>2, <2>3, <2>4, <2>1, <1>1
<1>3. ASSUME ListFind(l, e) PROVE ListFind(r, e)
  <2>1. PICK i \in 1..Len(l) : l[i] = e BY <1>3 DEF ListFind
  <2>2. CASE i <= n
    <3>1. i \in 1..Len(r) /\ r[i] = e BY <2>1, <2>2, <1>1
    <3>2. QED BY <3>1 DEF ListFind
  <2>3. CASE i > n
    <3>1. i + 1 \in 1..Len(r) /\ r[i + 1] = e BY <2>1, <2>3, <1>1
    <3>2. QED BY <3>1 DEF ListFind
  <2>4. QED BY <2>2, <2>3, <2>1, <1>1
<1>4. ListFind(r, d)
  <2>1. n + 1 \in 1..Len(r) /\ r[n + 1] = d BY <1>1
  <2>2. QED BY <2>1 DEF ListFind
<1>5. QED BY <1>2, <1>3, <1>4 DEF r

(* Inserting what a list does not hold keeps it free of duplicates. *)
LEMMA InsertNoDuplicates ==
    ASSUME NEW S, NEW l \in Seq(S), NEW d \in S, NEW n \in 0..Len(l),
           NoDuplicates(l), ~ ListFind(l, d)
    PROVE  NoDuplicates(ListInsert(l, n, d))
<1> DEFINE r == ListInsert(l, n, d)
           f(k) == IF k <= n THEN k ELSE k - 1
<1>1. /\ Len(r) = Len(l) + 1 /\ Len(l) \in Nat /\ n \in Nat /\ n <= Len(l)
      /\ \A k \in 1..Len(l) + 1 :
            r[k] = IF k <= n THEN l[k] ELSE IF k = n + 1 THEN d ELSE l[k - 1]
  BY InsertFacts, LenProperties
<1> HIDE DEF r
<1>2. SUFFICES ASSUME NEW i \in 1..Len(r), NEW j \in 1..Len(r), r[i] = r[j]
               PROVE  i = j
  BY DEF NoDuplicates, r
<1>3. \A k \in 1..Len(r) : k # n + 1 => f(k) \in 1..Len(l) /\ r[k] = l[f(k)]
  BY <1>1
<1>4. \A k \in 1..Len(r) : k = n + 1 <=> r[k] = d
  <2> HIDE DEF f
  <2>1. \A k \in 1..Len(r) : k # n + 1 => r[k] # d BY <1>3 DEF ListFind
  <2>2. QED BY <2>1, <1>1
<1>5. CASE i = n + 1 \/ j = n + 1 BY <1>2, <1>4, <1>5
<1>6. CASE i # n + 1 /\ j # n + 1
  <2>1. f(i) = f(j)
    <3> HIDE DEF f
    <3>1. QED BY <1>6, <1>2, <1>3 DEF NoDuplicates
  <2>2. QED BY <2>1, <1>6, <1>1
<1>7. QED BY <1>5, <1>6
=============================================================================
