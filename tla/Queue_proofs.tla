---------------------------- MODULE Queue_proofs ----------------------------
(***************************************************************************)
(* What the queue operations preserve, for queues of any length.           *)
(***************************************************************************)
EXTENDS Queue, FiniteSetTheorems, WellFoundedInduction, TLAPS

\* What is linked are elements of the queue's set.
LEMMA ElemsIn ==
  ASSUME NEW S, NEW q \in Seq(S)
  PROVE  Elems(q) \subseteq S
BY DEF Elems

\* Linking at the end (QueInsert before the header) adds exactly the new
\* element and keeps every element linked once.
LEMMA QueInsertFacts ==
  ASSUME NEW S, NEW q \in Seq(S), NEW e \in S
  PROVE  /\ QueInsert(q, e) \in Seq(S)
         /\ QueInsert(q, e) # << >>
         /\ Elems(QueInsert(q, e)) = Elems(q) \cup {e}
         /\ Injective(q) /\ e \notin Elems(q) => Injective(QueInsert(q, e))
<1> DEFINE r == QueInsert(q, e)
<1>1. /\ r \in Seq(S) /\ Len(r) = Len(q) + 1 /\ DOMAIN r = 1 .. Len(q) + 1
      /\ Len(q) \in Nat /\ DOMAIN q = 1 .. Len(q)
      /\ \A j \in 1 .. Len(q) : r[j] = q[j]
      /\ r[Len(q) + 1] = e
  BY DEF QueInsert
<1> HIDE DEF r
<1>2. Elems(r) = Elems(q) \cup {e}
  <2>1. ASSUME NEW x \in Elems(r) PROVE x \in Elems(q) \cup {e}
    BY <1>1, <2>1 DEF Elems
  <2>2. e \in Elems(r)
    BY <1>1 DEF Elems
  <2>3. ASSUME NEW j \in DOMAIN q PROVE q[j] \in Elems(r)
    BY <1>1 DEF Elems
  <2> QED BY <2>1, <2>2, <2>3 DEF Elems
<1>3. ASSUME Injective(q), e \notin Elems(q) PROVE Injective(r)
  <2> SUFFICES ASSUME NEW a \in DOMAIN r, NEW b \in DOMAIN r, r[a] = r[b]
               PROVE  a = b
    BY DEF Injective
  <2>1. ASSUME NEW j \in 1 .. Len(q) PROVE r[j] # e
    BY <1>1, <1>3 DEF Elems
  <2>2. CASE a \in 1 .. Len(q) /\ b \in 1 .. Len(q)
    BY <1>1, <1>3, <2>2 DEF Injective
  <2> QED BY <1>1, <2>1, <2>2
<1> QED BY <1>1, <1>2, <1>3 DEF r

\* The first element stays first.
LEMMA QueInsertHead ==
  ASSUME NEW S, NEW q \in Seq(S), NEW e \in S
  PROVE  /\ q # << >> => Head(QueInsert(q, e)) = Head(q)
         /\ q = << >> => Head(QueInsert(q, e)) = e
  BY DEF QueInsert

\* Linking before any position does the same (QueInsert before an element).
LEMMA InsertBeforeFacts ==
  ASSUME NEW S, NEW q \in Seq(S), NEW e \in S, NEW i \in 1 .. Len(q) + 1
  PROVE  /\ InsertBefore(q, i, e) \in Seq(S)
         /\ InsertBefore(q, i, e) # << >>
         /\ Elems(InsertBefore(q, i, e)) = Elems(q) \cup {e}
         /\ Injective(q) /\ e \notin Elems(q) => Injective(InsertBefore(q, i, e))
<1> DEFINE r == InsertBefore(q, i, e)
<1>1. /\ r \in Seq(S) /\ Len(r) = Len(q) + 1 /\ DOMAIN r = 1 .. Len(q) + 1
      /\ \A j \in 1 .. Len(q) + 1 :
           r[j] = IF j < i THEN q[j] ELSE IF j = i THEN e ELSE q[j - 1]
  BY DEF InsertBefore
<1>2. Elems(r) = Elems(q) \cup {e}
  <2>1. ASSUME NEW x \in Elems(r) PROVE x \in Elems(q) \cup {e}
    BY <1>1, <2>1 DEF Elems
  <2>2. e \in Elems(r)
    BY <1>1 DEF Elems
  <2>3. ASSUME NEW j \in DOMAIN q PROVE q[j] \in Elems(r)
    <3>1. CASE j < i
      BY <1>1, <3>1, SMTT(30) DEF Elems
    <3>2. CASE j >= i
      <4>1. r[j + 1] = q[j]
        BY <1>1, <3>2
      <4> QED BY <1>1, <4>1 DEF Elems
    <3> QED BY <3>1, <3>2
  <2> QED BY <2>1, <2>2, <2>3 DEF Elems
<1> HIDE DEF r
<1>3. ASSUME Injective(q), e \notin Elems(q) PROVE Injective(r)
  <2> SUFFICES ASSUME NEW a \in DOMAIN r, NEW b \in DOMAIN r, r[a] = r[b]
               PROVE  a = b
    BY DEF Injective
  <2> DEFINE f(j) == IF j < i THEN j ELSE j - 1
  <2>1. ASSUME NEW j \in DOMAIN r, j # i
        PROVE  f(j) \in DOMAIN q /\ r[j] = q[f(j)] /\ r[j] # e
    BY <1>1, <1>3, <2>1 DEF Elems
  <2>2. CASE a # i /\ b # i
    <3>1. f(a) = f(b)
      BY <1>3, <2>1, <2>2 DEF Injective
    <3> QED BY <1>1, <2>2, <3>1
  <2>3. CASE a = i
    BY <1>1, <2>1, <2>3
  <2>4. CASE b = i
    BY <1>1, <2>1, <2>4
  <2> QED BY <2>2, <2>3, <2>4
<1> QED BY <1>1, <1>2, <1>3 DEF r

\* Linking before the first position, as ready_queue_insert_top does.
LEMMA InsertTopFacts ==
  ASSUME NEW S, NEW q \in Seq(S), NEW e \in S
  PROVE  /\ InsertBefore(q, 1, e) \in Seq(S)
         /\ InsertBefore(q, 1, e) # << >>
         /\ Elems(InsertBefore(q, 1, e)) = Elems(q) \cup {e}
         /\ Injective(q) /\ e \notin Elems(q) => Injective(InsertBefore(q, 1, e))
<1>1. 1 \in 1 .. Len(q) + 1
  OBVIOUS
<1> QED BY <1>1, InsertBeforeFacts

\* Unlinking takes out exactly the element and keeps the others linked once.
LEMMA QueRemoveFacts ==
  ASSUME NEW S, NEW q \in Seq(S), NEW e, Injective(q)
  PROVE  /\ QueRemove(q, e) \in Seq(S)
         /\ Elems(QueRemove(q, e)) = Elems(q) \ {e}
         /\ Injective(QueRemove(q, e))
<1>1. CASE e \notin Elems(q)
  BY <1>1 DEF QueRemove, Elems
<1>2. CASE e \in Elems(q)
  <2> DEFINE i == CHOOSE j \in DOMAIN q : q[j] = e
             r == QueRemove(q, e)
  <2>1. i \in 1 .. Len(q) /\ q[i] = e
    BY <1>2 DEF Elems
  <2> HIDE DEF i
  <2>2. r = [j \in 1 .. Len(q) - 1 |-> IF j < i THEN q[j] ELSE q[j + 1]]
    BY <1>2 DEF QueRemove, i
  <2>3. /\ r \in Seq(S) /\ DOMAIN r = 1 .. Len(q) - 1
        /\ \A j \in 1 .. Len(q) - 1 : r[j] = IF j < i THEN q[j] ELSE q[j + 1]
    BY <2>1, <2>2
  <2> HIDE DEF r
  <2>4. Injective(r)
    <3> SUFFICES ASSUME NEW a \in DOMAIN r, NEW b \in DOMAIN r, r[a] = r[b]
                 PROVE  a = b
      BY DEF Injective
    <3> DEFINE f(j) == IF j < i THEN j ELSE j + 1
    <3>1. f(a) \in DOMAIN q /\ r[a] = q[f(a)] /\ f(b) \in DOMAIN q /\ r[b] = q[f(b)]
      BY <2>1, <2>3, SMTT(30)
    <3>2. f(a) = f(b)
      BY <3>1 DEF Injective
    <3> QED BY <2>1, <2>3, <3>2
  <2>5. ASSUME NEW x \in Elems(r) PROVE x \in Elems(q) /\ x # e
    BY <2>1, <2>3, <2>5 DEF Elems, Injective
  <2>6. ASSUME NEW j \in DOMAIN q, q[j] # e PROVE q[j] \in Elems(r)
    <3>1. CASE j < i
      BY <2>1, <2>3, <3>1 DEF Elems
    <3>2. CASE j > i
      <4>1. j - 1 \in 1 .. Len(q) - 1 /\ r[j - 1] = q[j]
        BY <2>1, <2>3, <3>2
      <4> QED BY <2>3, <4>1 DEF Elems
    <3> QED BY <2>1, <2>6, <3>1, <3>2
  <2>7. Elems(r) = Elems(q) \ {e}
    BY <2>5, <2>6 DEF Elems
  <2> QED BY <2>3, <2>4, <2>7 DEF r
<1> QED BY <1>1, <1>2

\* Taking the first element (QueRemoveNext) takes out exactly that one.
LEMMA QueRemoveNextFacts ==
  ASSUME NEW S, NEW q \in Seq(S), q # << >>, Injective(q)
  PROVE  /\ Head(q) \in S /\ Tail(q) \in Seq(S)
         /\ Head(q) \in Elems(q)
         /\ Elems(Tail(q)) = Elems(q) \ {Head(q)}
         /\ Injective(Tail(q))
<1> DEFINE r == Tail(q)
<1>1. /\ Head(q) = q[1] /\ Len(q) \in Nat /\ Len(q) > 0 /\ r \in Seq(S)
      /\ DOMAIN q = 1 .. Len(q)
      /\ DOMAIN r = 1 .. Len(q) - 1
      /\ \A j \in 1 .. Len(q) - 1 : r[j] = q[j + 1]
  OBVIOUS
<1> HIDE DEF r
<1>2. Injective(r)
  <2> SUFFICES ASSUME NEW a \in DOMAIN r, NEW b \in DOMAIN r, r[a] = r[b]
               PROVE  a = b
    BY DEF Injective
  <2>1. q[a + 1] = q[b + 1] /\ a + 1 \in DOMAIN q /\ b + 1 \in DOMAIN q
    BY <1>1
  <2>2. a + 1 = b + 1
    BY <2>1 DEF Injective
  <2> QED BY <1>1, <2>2
<1>3. ASSUME NEW x \in Elems(r) PROVE x \in Elems(q) /\ x # q[1]
  <2>1. PICK i \in DOMAIN r : x = r[i]
    BY <1>3 DEF Elems
  <2>2. i \in 1 .. Len(q) - 1 /\ x = q[i + 1]
    BY <1>1, <2>1
  <2>3. i + 1 \in DOMAIN q /\ 1 \in DOMAIN q /\ i + 1 # 1
    BY <1>1, <2>2
  <2>4. x \in Elems(q)
    BY <2>2, <2>3 DEF Elems
  <2>5. x # q[1]
    BY <2>2, <2>3 DEF Injective
  <2> QED BY <2>4, <2>5
<1>4. ASSUME NEW j \in DOMAIN q, q[j] # q[1] PROVE q[j] \in Elems(r)
  <2>1. j - 1 \in 1 .. Len(q) - 1 /\ r[j - 1] = q[j]
    BY <1>1, <1>4
  <2> QED BY <1>1, <2>1 DEF Elems
<1> QED BY <1>1, <1>2, <1>3, <1>4, SMTT(30) DEF Elems, r

\* Unlinking another element leaves the first one first.
LEMMA QueRemoveHead ==
  ASSUME NEW S, NEW q \in Seq(S), q # << >>, NEW e, e # Head(q)
  PROVE  QueRemove(q, e) # << >> /\ Head(QueRemove(q, e)) = Head(q)
<1>1. CASE e \notin Elems(q)
  BY <1>1 DEF QueRemove
<1>2. CASE e \in Elems(q)
  <2> DEFINE i == CHOOSE j \in DOMAIN q : q[j] = e
             r == QueRemove(q, e)
  <2>1. i \in 1 .. Len(q) /\ q[i] = e
    BY <1>2 DEF Elems
  <2> HIDE DEF i
  <2>2. r = [j \in 1 .. Len(q) - 1 |-> IF j < i THEN q[j] ELSE q[j + 1]]
    BY <1>2 DEF QueRemove, i
  <2>3. i # 1 /\ Len(q) > 1
    BY <2>1
  <2>4. r \in Seq(S) /\ Len(r) = Len(q) - 1 /\ r[1] = q[1]
    BY <2>1, <2>2, <2>3
  <2> QED BY <2>3, <2>4
<1> QED BY <1>1, <1>2

\* A non-empty set of priorities has a highest one, so the search of
\* calc_top_priority has a result.
LEMMA MinimumExists ==
  ASSUME NEW n \in Nat, NEW B \in SUBSET (0 .. n), B # {}
  PROVE  \E m \in B : \A x \in B : m <= x
<1> DEFINE Below(b) == B \cap (0 .. b)
           F == {Below(b) : b \in B}
           R == StrictSubsetOrdering(B)
<1>1. IsFiniteSet(B)
  <2>1. IsFiniteSet(0 .. n)
    BY FS_Interval
  <2> QED BY <2>1, FS_Subset
<1>2. F \subseteq FiniteSubsetsOf(B) /\ F # {}
  <2>1. ASSUME NEW b \in B PROVE Below(b) \in SUBSET B /\ IsFiniteSet(Below(b))
    <3>1. Below(b) \in SUBSET B
      OBVIOUS
    <3> HIDE DEF Below
    <3> QED BY <1>1, <3>1, FS_Subset
  <2> HIDE DEF Below
  <2> QED BY <2>1 DEF FiniteSubsetsOf
<1>3. IsWellFoundedOn(R, FiniteSubsetsOf(B))
  BY FS_StrictSubsetOrderingWellFounded
<1>4. PICK M \in F : \A y \in F : ~(<<y, M>> \in R)
  <2> HIDE DEF F, R
  <2> QED BY <1>2, <1>3, WFMin
<1>5. PICK m \in B : M = Below(m)
  BY <1>4
<1>6. ASSUME NEW x \in B, ~(m <= x) PROVE FALSE
  <2>1. Below(x) \in F /\ Below(x) \subseteq Below(m) /\ m \in Below(m) /\ m \notin Below(x)
    BY <1>6
  <2>2. <<Below(x), M>> \in R
    BY <1>5, <2>1 DEF StrictSubsetOrdering
  <2> QED BY <1>4, <2>1, <2>2
<1> QED BY <1>6

\* The place where an element of priority p is put: no element before it has a
\* larger priority number, and the one after it has.
LEMMA TpriPositionFacts ==
  ASSUME NEW S, NEW q \in Seq(S), NEW pri \in [S -> Int], NEW p \in Int
  PROVE  LET i == TpriPosition(q, pri, p)
         IN  /\ i \in 1 .. Len(q) + 1
             /\ \A j \in DOMAIN q : j < i => pri[q[j]] <= p
             /\ i \in DOMAIN q => pri[q[i]] > p
<1> DEFINE later == {i \in DOMAIN q : pri[q[i]] > p}
           i == TpriPosition(q, pri, p)
<1>0. /\ DOMAIN q = 1 .. Len(q) /\ Len(q) \in Nat
      /\ \A j \in DOMAIN q : q[j] \in S /\ pri[q[j]] \in Int
  OBVIOUS
<1>1. CASE later = {}
  <2>1. i = Len(q) + 1
    BY <1>1 DEF TpriPosition
  <2>2. \A j \in DOMAIN q : ~(pri[q[j]] > p)
    BY <1>1
  <2> QED BY <1>0, <2>1, <2>2
<1>2. CASE later # {}
  <2>1. later \in SUBSET (0 .. Len(q))
    BY <1>0
  <2>2. \E m \in later : \A j \in later : m <= j
    <3> HIDE DEF later
    <3> QED BY <1>0, <1>2, <2>1, MinimumExists
  <2>3. i = CHOOSE m \in later : \A j \in later : m <= j
    BY <1>2 DEF TpriPosition
  <2>4. i \in later /\ \A j \in later : i <= j
    <3> HIDE DEF later, i
    <3> QED BY <2>2, <2>3
  <2> HIDE DEF i
  <2>5. ASSUME NEW j \in DOMAIN q, j < i PROVE pri[q[j]] <= p
    <3>1. j \notin later
      BY <1>0, <2>4, <2>5
    <3> QED BY <1>0, <3>1
  <2> QED BY <1>0, <2>4, <2>5 DEF i
<1> QED BY <1>1, <1>2

\* The place depends on the order of the priorities only.
LEMMA TpriPositionEqual ==
  ASSUME NEW q, NEW f, NEW g, NEW m, NEW n,
         \A j \in DOMAIN q : f[q[j]] > m <=> g[q[j]] > n
  PROVE  TpriPosition(q, f, m) = TpriPosition(q, g, n)
<1> DEFINE Later(h, k) == {j \in DOMAIN q : h[q[j]] > k}
           First(A) == IF A = {} THEN Len(q) + 1 ELSE CHOOSE i \in A : \A j \in A : i <= j
<1>1. Later(f, m) = Later(g, n)
  OBVIOUS
<1>2. TpriPosition(q, f, m) = First(Later(f, m)) /\ TpriPosition(q, g, n) = First(Later(g, n))
  BY Zenon DEF TpriPosition
<1> HIDE DEF Later, First
<1> QED BY <1>1, <1>2

\* knl_queue_insert_tpri keeps the order: e is put in with priority p.
LEMMA InsertTpriSorted ==
  ASSUME NEW S, NEW q \in Seq(S), NEW pri \in [S -> Int], NEW p \in Int, NEW e \in S,
         e \notin Elems(q), Sorted(q, pri)
  PROVE  Sorted(InsertBefore(q, TpriPosition(q, pri, p), e), [pri EXCEPT ![e] = p])
<1> DEFINE i == TpriPosition(q, pri, p)
           r == InsertBefore(q, i, e)
           f == [pri EXCEPT ![e] = p]
<1>1. /\ i \in 1 .. Len(q) + 1
      /\ \A j \in DOMAIN q : j < i => pri[q[j]] <= p
      /\ i \in DOMAIN q => pri[q[i]] > p
  BY TpriPositionFacts
<1> HIDE DEF i
<1>2. /\ DOMAIN r = 1 .. Len(q) + 1 /\ DOMAIN q = 1 .. Len(q) /\ Len(q) \in Nat
      /\ \A j \in 1 .. Len(q) + 1 :
           r[j] = IF j < i THEN q[j] ELSE IF j = i THEN e ELSE q[j - 1]
  BY DEF InsertBefore
<1>3. \A j \in DOMAIN q : q[j] \in S /\ q[j] # e /\ pri[q[j]] \in Int /\ f[q[j]] = pri[q[j]]
  BY DEF Elems
<1>4. f[e] = p
  OBVIOUS
<1> HIDE DEF r, f
<1>5. \A a, b \in DOMAIN q : a <= b => f[q[a]] <= f[q[b]]
  BY <1>3 DEF Sorted
<1>6. \A j \in DOMAIN q : j >= i => p <= f[q[j]]
  <2> SUFFICES ASSUME NEW j \in DOMAIN q, j >= i PROVE p <= f[q[j]]
    OBVIOUS
  <2>1. i \in DOMAIN q
    BY <1>1, <1>2
  <2>2. f[q[i]] > p /\ f[q[i]] <= f[q[j]]
    BY <1>1, <1>3, <1>5, <2>1
  <2> QED BY <1>3, <2>1, <2>2
<1>7. \A j \in DOMAIN q : j < i => f[q[j]] <= p
  BY <1>1, <1>3
<1>8. ASSUME NEW a \in DOMAIN r, NEW b \in DOMAIN r, a <= b PROVE f[r[a]] <= f[r[b]]
  <2>1. CASE a < i /\ b < i
    <3>1. a \in DOMAIN q /\ b \in DOMAIN q /\ r[a] = q[a] /\ r[b] = q[b]
      BY <1>1, <1>2, <2>1
    <3> QED BY <1>5, <1>8, <3>1
  <2>2. CASE a < i /\ b = i
    <3>1. a \in DOMAIN q /\ r[a] = q[a] /\ r[b] = e
      BY <1>1, <1>2, <2>2
    <3> QED BY <1>4, <1>7, <2>2, <3>1
  <2>3. CASE a < i /\ b > i
    <3>1. a \in DOMAIN q /\ b - 1 \in DOMAIN q /\ a <= b - 1 /\ r[a] = q[a] /\ r[b] = q[b - 1]
      BY <1>1, <1>2, <2>3
    <3> QED BY <1>5, <3>1
  <2>4. CASE a = i /\ b = i
    <3>1. r[a] = e /\ r[b] = e
      BY <1>2, <2>4
    <3> QED BY <1>4, <3>1
  <2>5. CASE a = i /\ b > i
    <3>1. b - 1 \in DOMAIN q /\ b - 1 >= i /\ r[a] = e /\ r[b] = q[b - 1]
      BY <1>1, <1>2, <2>5
    <3> QED BY <1>4, <1>6, <3>1
  <2>6. CASE a > i /\ b > i
    <3>1. /\ a - 1 \in DOMAIN q /\ b - 1 \in DOMAIN q /\ a - 1 <= b - 1
          /\ r[a] = q[a - 1] /\ r[b] = q[b - 1]
      BY <1>1, <1>2, <1>8, <2>6
    <3> QED BY <1>5, <3>1
  <2> QED BY <1>1, <1>2, <1>8, <2>1, <2>2, <2>3, <2>4, <2>5, <2>6
<1> QED BY <1>8 DEF Sorted, i, r, f

\* Unlinking keeps the order.
LEMMA QueRemoveSorted ==
  ASSUME NEW S, NEW q \in Seq(S), NEW e, NEW pri, Sorted(q, pri)
  PROVE  Sorted(QueRemove(q, e), pri)
<1>1. CASE e \notin Elems(q)
  BY <1>1 DEF QueRemove
<1>2. CASE e \in Elems(q)
  <2> DEFINE i == CHOOSE j \in DOMAIN q : q[j] = e
             r == QueRemove(q, e)
             f(j) == IF j < i THEN j ELSE j + 1
  <2>1. i \in 1 .. Len(q)
    BY <1>2 DEF Elems
  <2> HIDE DEF i
  <2>2. r = [j \in 1 .. Len(q) - 1 |-> IF j < i THEN q[j] ELSE q[j + 1]]
    BY <1>2 DEF QueRemove, i
  <2>3. DOMAIN r = 1 .. Len(q) - 1 /\ Len(q) \in Nat
    BY <2>2
  <2>4. \A j \in DOMAIN r : f(j) \in DOMAIN q /\ r[j] = q[f(j)]
    BY <2>1, <2>2, <2>3
  <2>5. \A a, b \in DOMAIN r : a <= b => f(a) <= f(b)
    BY <2>1, <2>3
  <2> HIDE DEF r, f
  <2> QED BY <2>4, <2>5 DEF Sorted, r
<1> QED BY <1>1, <1>2

\* The first element of an ordered queue is the first in order, and the rest
\* is ordered too.
LEMMA HeadOfSorted ==
  ASSUME NEW S, NEW q \in Seq(S), NEW pri, q # << >>, Sorted(q, pri)
  PROVE  /\ Sorted(Tail(q), pri)
         /\ \A x \in Elems(q) : pri[Head(q)] <= pri[x]
<1> DEFINE r == Tail(q)
<1>1. /\ Head(q) = q[1] /\ Len(q) \in Nat /\ Len(q) > 0
      /\ DOMAIN q = 1 .. Len(q)
      /\ DOMAIN r = 1 .. Len(q) - 1
      /\ \A j \in 1 .. Len(q) - 1 : r[j] = q[j + 1]
  OBVIOUS
<1> HIDE DEF r
<1>2. Sorted(r, pri)
  <2> SUFFICES ASSUME NEW a \in DOMAIN r, NEW b \in DOMAIN r, a <= b
               PROVE  pri[r[a]] <= pri[r[b]]
    BY DEF Sorted
  <2>1. a + 1 \in DOMAIN q /\ b + 1 \in DOMAIN q /\ a + 1 <= b + 1
    BY <1>1
  <2> QED BY <1>1, <2>1 DEF Sorted
<1>3. ASSUME NEW x \in Elems(q) PROVE pri[Head(q)] <= pri[x]
  <2>1. PICK j \in DOMAIN q : x = q[j]
    BY <1>3 DEF Elems
  <2>2. 1 \in DOMAIN q /\ 1 <= j
    BY <1>1
  <2> QED BY <1>1, <2>1, <2>2 DEF Sorted
<1> QED BY <1>2, <1>3 DEF r

\* A queue that t is not in is as it was.
LEMMA NotIn ==
  ASSUME NEW q, NEW t, t \notin Elems(q)
  PROVE  QueRemove(q, t) = q
BY DEF QueRemove

\* Sorted queues only depend on the priorities of those in them.
LEMMA SortedSame ==
  ASSUME NEW S, NEW q \in Seq(S), NEW p, NEW r, \A t \in Elems(q) : p[t] = r[t], Sorted(q, p)
  PROVE  Sorted(q, r)
BY DEF Sorted, Elems

\* A queue by priority takes in another task.
LEMMA TpriFacts ==
  ASSUME NEW S, NEW q \in Seq(S), NEW p \in [S -> Int], NEW t \in S, t \notin Elems(q), Injective(q)
  PROVE  LET r == knl_queue_insert_tpri(q, t, p)
         IN  /\ r \in Seq(S) /\ Elems(r) = Elems(q) \cup {t} /\ Injective(r)
             /\ Sorted(q, p) => Sorted(r, p)
<1> DEFINE i == TpriPosition(q, p, p[t])
           r == InsertBefore(q, i, t)
<1>1. p[t] \in Int /\ [p EXCEPT ![t] = p[t]] = p
  OBVIOUS
<1>2. i \in 1 .. Len(q) + 1
  BY <1>1, TpriPositionFacts
<1> HIDE DEF i
<1>3. r \in Seq(S) /\ Elems(r) = Elems(q) \cup {t} /\ Injective(r)
  BY <1>2, InsertBeforeFacts
<1>4. Sorted(q, p) => Sorted(r, p)
  <2> SUFFICES ASSUME Sorted(q, p) PROVE Sorted(r, p)
    OBVIOUS
  <2>1. Sorted(r, [p EXCEPT ![t] = p[t]])
    BY <1>1, InsertTpriSorted DEF i
  <2> QED BY <1>1, <2>1
<1> QED BY <1>3, <1>4 DEF knl_queue_insert_tpri, i
=============================================================================
