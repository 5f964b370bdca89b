---------------------------- MODULE Timer_proofs ----------------------------
(***************************************************************************)
(* Proofs about the timer queue: for every modulus of the clock, tick      *)
(* period and set of time limits, tasks and handlers, the queue holds      *)
(* exactly the events that are set, in the order in which they are due,    *)
(* nothing fires early or late, and the times shown are the true ones.     *)
(***************************************************************************)
EXTENDS Timer, Queue_proofs

-----------------------------------------------------------------------------
(* The inductive invariant                                                 *)

Half == ABSTIM_DIFF_MIN + 1

Types ==
  /\ current_time \in ABSTIM /\ time \in [Events -> ABSTIM] /\ left \in [Events -> Int]
  /\ tsk \in [Tasks -> {"READY", "WAIT", "WAIT FOREVER"}]
  /\ cyc \in [Cycs -> CYCCB] /\ alm \in [Alms -> ALMCB]
  /\ handler \in {"none", "loop", "user"}
  /\ timer_queue \in Seq(Events) /\ Injective(timer_queue)

\* What the owners believe is what the queue holds.
Owners ==
  /\ \A t \in Tasks : t \in Elems(timer_queue) <=> tsk[t] = "WAIT"
  /\ \A c \in Cycs : c \in Elems(timer_queue) <=> cyc[c].cycstat
  /\ \A a \in Alms : a \in Elems(timer_queue) <=> alm[a].almstat

\* Only what exists is started, and a cycle is not 0.
Existing ==
  /\ \A c \in Cycs : /\ cyc[c].cycstat => cyc[c].cychdr
                     /\ cyc[c].cychdr => cyc[c].cyctim > 0
  /\ \A a \in Alms : alm[a].almstat => alm[a].almhdr

\* Between two runs of the timer handler nothing is due, during one at most what
\* has come due with its tick; and nothing is further away than half of the clock.
Due ==
  \A e \in Elems(timer_queue) :
    left[e] \in (IF handler = "none" THEN 1 ELSE 1 - TIMER_PERIOD) .. Half

\* A stopped cyclic handler keeps its phase until it is half of the clock old.
Phase ==
  \A c \in Cycs : cyc[c].cychdr /\ ~cyc[c].cycstat =>
    /\ left[c] \in Lost .. Half
    /\ left[c] > Lost => time[c] = (current_time + left[c]) % M

IInv == Types /\ Owners /\ Existing /\ TimesExact /\ QueueInOrder /\ Due /\ Phase

-----------------------------------------------------------------------------
(* Arithmetic of a clock that wraps                                        *)

\* Division with remainder, also of negative numbers.
LEMMA DivFacts ==
  ASSUME NEW a \in Int, NEW n \in Nat, n > 0
  PROVE  /\ a % n \in 0 .. n - 1 /\ a \div n \in Int
         /\ a = (a \div n) * n + (a % n)
OBVIOUS

\* A multiple other than 0 is at least as large as the modulus.
LEMMA MulLarge ==
  ASSUME NEW k \in Int, NEW n \in Nat, n > 0
  PROVE  (k >= 1 => k * n >= n) /\ (k <= -1 => k * n <= -n)
OBVIOUS

\* Quotient and remainder are unique.
LEMMA ModUnique ==
  ASSUME NEW n \in Nat, n > 0, NEW a \in Int, NEW q \in Int, NEW r \in 0 .. n - 1,
         a = q * n + r
  PROVE  a % n = r /\ a \div n = q
<1> DEFINE p == a \div n  s == a % n  k == p - q
<1>1. p \in Int /\ s \in 0 .. n - 1 /\ a = p * n + s
  BY DivFacts
<1>2. k * n = p * n - q * n
  BY <1>1
<1>3. k * n = r - s /\ k \in Int
  BY <1>1, <1>2
<1> HIDE DEF k
<1>4. ~(k >= 1) /\ ~(k <= -1)
  BY <1>1, <1>3, MulLarge
<1>5. k = 0
  BY <1>3, <1>4
<1> QED BY <1>1, <1>3, <1>5 DEF k

\* Turns of the clock do not show.
LEMMA ModShift ==
  ASSUME NEW n \in Nat, n > 0, NEW a \in Int, NEW k \in Int
  PROVE  (a + k * n) % n = a % n
<1> DEFINE p == a \div n
<1>1. p \in Int /\ a % n \in 0 .. n - 1 /\ a = p * n + (a % n)
  BY DivFacts
<1>2. (p + k) * n = p * n + k * n
  BY <1>1
<1>3. a + k * n = (p + k) * n + (a % n)
  BY <1>1, <1>2
<1>4. p + k \in Int /\ a + k * n \in Int
  BY <1>1
<1> QED BY <1>1, <1>3, <1>4, ModUnique

\* To wrap before adding or subtracting makes no difference.
LEMMA ModAdd ==
  ASSUME NEW n \in Nat, n > 0, NEW a \in Int, NEW b \in Int
  PROVE  /\ ((a % n) + b) % n = (a + b) % n
         /\ (b - (a % n)) % n = (b - a) % n
         /\ ((a % n) - b) % n = (a - b) % n
<1> DEFINE p == a \div n
<1>1. p \in Int /\ a % n \in 0 .. n - 1 /\ a = p * n + (a % n)
  BY DivFacts
<1>2. (0 - p) * n = 0 - p * n /\ 0 - p \in Int
  BY <1>1
<1>3. /\ (a + b) + (0 - p) * n = (a % n) + b
      /\ (b - a) + p * n = b - (a % n)
      /\ (a - b) + (0 - p) * n = (a % n) - b
  BY <1>1, <1>2
<1>4. a + b \in Int /\ b - a \in Int /\ a - b \in Int
  OBVIOUS
<1>5. ((a + b) + (0 - p) * n) % n = (a + b) % n
  BY <1>2, <1>4, ModShift
<1>6. ((b - a) + p * n) % n = (b - a) % n
  BY <1>1, <1>4, ModShift
<1>7. ((a - b) + (0 - p) * n) % n = (a - b) % n
  BY <1>2, <1>4, ModShift
<1> QED BY <1>3, <1>5, <1>6, <1>7

\* What is less than a turn away, on either side.
LEMMA ModNear ==
  ASSUME NEW n \in Nat, n > 0, NEW a \in -n .. n - 1
  PROVE  a % n = IF a >= 0 THEN a ELSE a + n
<1>1. CASE a >= 0
  <2>1. a = 0 * n + a /\ a \in 0 .. n - 1
    BY <1>1
  <2> QED BY <1>1, <2>1, ModUnique
<1>2. CASE a < 0
  <2>1. a = (-1) * n + (a + n) /\ a + n \in 0 .. n - 1
    BY <1>2
  <2> QED BY <1>2, <2>1, ModUnique
<1> QED BY <1>1, <1>2

-----------------------------------------------------------------------------
(* The constants                                                           *)

\* What the assumptions on the clock say, without division.
LEMMA Clock ==
  /\ M \in Nat /\ M > 0 /\ Half \in Nat /\ M = 2 * Half
  /\ ABSTIM_DIFF_MIN = Half - 1 /\ Lost = -Half /\ ABSTIM_DIFF_MIN \in Nat
  /\ TIMER_PERIOD \in Nat /\ TIMER_PERIOD >= 1 /\ 2 * TIMER_PERIOD <= Half
  /\ \A n \in RelTimes \cup Phases : n \in Nat /\ n + TIMER_PERIOD <= Half
BY TimerAssumption DEF Half, ABSTIM_DIFF_MIN, Lost

\* An event block has one owner.
LEMMA Disjoint ==
  /\ Tasks \cap Cycs = {} /\ Tasks \cap Alms = {} /\ Cycs \cap Alms = {}
BY TimerAssumption

\* knl_abstim_reached tells the past from the future, half a turn of the clock
\* in both directions.
LEMMA Reached ==
  ASSUME NEW c \in Int, NEW d \in Lost + 1 .. Half
  PROVE  knl_abstim_reached(c, (c + d) % M) <=> d <= 0
<1>0. M \in Nat /\ M > 0 /\ c + d \in Int
  BY Clock
<1>1. (c - ((c + d) % M)) % M = (c - (c + d)) % M
  BY <1>0, ModAdd, Zenon
<1>2. c - (c + d) = -d /\ -d \in -M .. M - 1
  BY Clock
<1>3. (-d) % M = IF -d >= 0 THEN -d ELSE -d + M
  BY <1>2, Clock, ModNear
<1> QED BY <1>1, <1>2, <1>3, Clock DEF knl_abstim_reached

\* Before the wrap: the time d after now, seen from p after now.
LEMMA Rebase ==
  ASSUME NEW c \in Int, NEW d \in Int, NEW p \in Int
  PROVE  (((c + p) % M) + (d - p)) % M = (c + d) % M
<1>1. c + p \in Int /\ d - p \in Int /\ (c + p) + (d - p) = c + d
  OBVIOUS
<1>2. M \in Nat /\ M > 0
  BY Clock
<1>3. (((c + p) % M) + (d - p)) % M = ((c + p) + (d - p)) % M
  BY <1>1, <1>2, ModAdd, Zenon
<1> QED BY <1>1, <1>3

\* The time since an event that came due less than half a turn ago.
LEMMA Elapsed ==
  ASSUME NEW c \in Int, NEW d \in Lost + 1 .. 0
  PROVE  (c - ((c + d) % M)) % M = -d
<1>1. M \in Nat /\ M > 0 /\ c + d \in Int
  BY Clock
<1>2. (c - ((c + d) % M)) % M = (c - (c + d)) % M
  BY <1>1, ModAdd, Zenon
<1>3. c - (c + d) = -d /\ -d \in -M .. M - 1 /\ -d >= 0
  BY Clock
<1>4. (-d) % M = -d
  BY <1>1, <1>3, ModNear
<1> QED BY <1>2, <1>3, <1>4

\* The least element of a set is its minimum.
LEMMA MinIs ==
  ASSUME NEW S \in SUBSET Int, NEW x \in S, \A y \in S : x <= y
  PROVE  Min(S) = x
<1> DEFINE m == Min(S)
<1>1. m \in S /\ \A y \in S : m <= y
  BY DEF Min
<1> HIDE DEF m
<1>2. m <= x /\ x <= m /\ m \in Int /\ x \in Int
  BY <1>1
<1>3. m = x
  BY <1>2
<1> QED BY <1>3 DEF m

\* The first of the times one or more cycles after d that lies ahead.
LEMMA NextDueIs ==
  ASSUME NEW d \in Lost + 1 .. 0, NEW n \in 1 .. Half
  PROVE  /\ NextDue(d, n) = d + (((-d) \div n) + 1) * n
         /\ NextDue(d, n) \in 1 .. n
<1> DEFINE p == (-d) \div n
           r == (-d) % n
           x == d + (p + 1) * n
           S == {d + k * n : k \in 1 .. M} \cap 1 .. 2 * M
<1>0. n \in Nat /\ n > 0 /\ -d \in Nat /\ d \in Int /\ -d < M /\ n <= M /\ M \in Nat
  BY Clock
<1>1. p \in Int /\ r \in 0 .. n - 1 /\ -d = p * n + r
  BY <1>0, DivFacts
<1> HIDE DEF p, r
<1>2. (p + 1) * n = p * n + n
  BY <1>0, <1>1
<1>3. x = n - r /\ x \in 1 .. n
  BY <1>0, <1>1, <1>2
<1>4. p >= 0
  <2>1. ~(p <= -1)
    BY <1>0, <1>1, MulLarge
  <2> QED BY <1>1, <2>1
<1>5. p <= -d
  <2>1. p * n >= p
    BY <1>0, <1>1, <1>4
  <2>2. p * n \in Int
    BY <1>0, <1>1
  <2> QED BY <1>0, <1>1, <2>1, <2>2
<1>6. p + 1 \in 1 .. M
  BY <1>0, <1>1, <1>4, <1>5
<1>7. x \in S
  <2>1. x \in 1 .. 2 * M
    BY <1>0, <1>3
  <2>2. \E k \in 1 .. M : x = d + k * n
    BY <1>6, Zenon
  <2> HIDE DEF x
  <2> QED BY <2>1, <2>2
<1>8. ASSUME NEW y \in S PROVE x <= y
  <2>1. PICK j \in 1 .. M : y = d + j * n
    OBVIOUS
  <2>2. y >= 1 /\ y \in Int
    OBVIOUS
  <2> DEFINE k == j - (p + 1)
  <2>3. k \in Int /\ k * n = j * n - (p + 1) * n
    BY <1>0, <1>1
  <2>4. k * n = y - x
    BY <1>0, <1>1, <1>2, <2>1, <2>3
  <2> HIDE DEF k
  <2>5. ~(k <= -1)
    BY <1>0, <1>1, <1>3, <2>2, <2>3, <2>4, MulLarge
  <2>6. k * n >= 0
    BY <1>0, <2>3, <2>5
  <2> QED BY <1>3, <2>2, <2>4, <2>6
<1>9. S \in SUBSET Int
  <2>1. 1 .. 2 * M \subseteq Int
    BY <1>0
  <2> QED BY <2>1
<1> HIDE DEF S
<1>10. Min(S) = x
  BY <1>7, <1>8, <1>9, MinIs
<1> QED BY <1>3, <1>10 DEF NextDue, S, p

\* knl_cyc_next_time computes, with times that wrap, the time of the next cycle
\* of a handler that came due d ago.
LEMMA NextTime ==
  ASSUME current_time \in Int, NEW d \in Lost + 1 .. 0, NEW n \in RelTimes, n > 0
  PROVE  /\ knl_cyc_next_time((current_time + d) % M, n) = (current_time + NextDue(d, n)) % M
         /\ NextDue(d, n) \in 1 .. n
<1> DEFINE c == current_time
           tm0 == (c + d) % M
           p == (-d) \div n
<1>0. /\ M \in Nat /\ M > 0 /\ n \in 1 .. Half /\ n \in Nat /\ d \in Int /\ -d \in Nat
      /\ c \in Int /\ c + d \in Int /\ n \in Int
  BY Clock
<1>1. NextDue(d, n) = d + (p + 1) * n /\ NextDue(d, n) \in 1 .. n
  BY <1>0, NextDueIs
<1>2. p \in Int /\ (-d) % n \in 0 .. n - 1 /\ -d = p * n + ((-d) % n)
  BY <1>0, DivFacts
<1>3. (tm0 + n) % M = (c + (d + n)) % M
  <2>1. (tm0 + n) % M = ((c + d) + n) % M
    BY <1>0, ModAdd, Zenon
  <2>2. (c + d) + n = c + (d + n)
    BY <1>0
  <2> QED BY <2>1, <2>2
<1>4. d + n \in Lost + 1 .. Half
  BY <1>0, Clock
<1>5. knl_abstim_reached(c, (tm0 + n) % M) <=> d + n <= 0
  BY <1>0, <1>3, <1>4, Reached
<1>6. (c - tm0) % M = -d
  BY <1>0, Elapsed
<1>7. CASE d + n <= 0
  <2>1. knl_cyc_next_time(tm0, n) = ((p + 1) * n + tm0) % M
    BY <1>5, <1>6, <1>7 DEF knl_cyc_next_time
  <2> DEFINE b == (p + 1) * n
  <2>2. b \in Int
    BY <1>0, <1>2
  <2>3. tm0 \in Int
    BY <1>0, DivFacts
  <2> HIDE DEF b
  <2>4. b + tm0 = tm0 + b /\ (c + d) + b = c + (d + b)
    BY <1>0, <2>2, <2>3
  <2>5. (tm0 + b) % M = ((c + d) + b) % M
    BY <1>0, <2>2, ModAdd, Zenon
  <2> QED BY <1>1, <2>1, <2>4, <2>5 DEF b
<1>8. CASE ~(d + n <= 0)
  <2>1. -d \in 0 .. n - 1 /\ -d = 0 * n + (-d)
    BY <1>0, <1>8
  <2>2. p = 0
    BY <1>0, <2>1, ModUnique
  <2>3. NextDue(d, n) = d + n
    BY <1>0, <1>1, <2>2
  <2>4. knl_cyc_next_time(tm0, n) = (tm0 + n) % M
    BY <1>5, <1>8 DEF knl_cyc_next_time
  <2> QED BY <1>1, <1>3, <2>3, <2>4
<1> QED BY <1>1, <1>7, <1>8

-----------------------------------------------------------------------------
(* Setting and clearing an event                                           *)

\* The key by which knl_enqueue_tmeb compares an event that is due in d.
LEMMA KeyIs ==
  ASSUME NEW c \in Int, NEW d \in 1 - TIMER_PERIOD .. Half
  PROVE  (((c + d) % M) - ((c - ABSTIM_DIFF_MIN) % M)) % M = d + ABSTIM_DIFF_MIN
<1> DEFINE ofs == (c - ABSTIM_DIFF_MIN) % M
<1>1. /\ M \in Nat /\ M > 0 /\ d \in Int /\ c + d \in Int /\ c - ABSTIM_DIFF_MIN \in Int
      /\ d + ABSTIM_DIFF_MIN \in -M .. M - 1 /\ d + ABSTIM_DIFF_MIN >= 0
      /\ (c + d) - (c - ABSTIM_DIFF_MIN) = d + ABSTIM_DIFF_MIN
  BY Clock
<1>2. ofs \in Int
  BY <1>1, DivFacts
<1>3. (((c + d) % M) - ofs) % M = ((c + d) - ofs) % M
  <2> HIDE DEF ofs
  <2> QED BY <1>1, <1>2, ModAdd, Zenon
<1>4. ((c + d) - ofs) % M = ((c + d) - (c - ABSTIM_DIFF_MIN)) % M
  BY <1>1, ModAdd, Zenon
<1>5. (d + ABSTIM_DIFF_MIN) % M = d + ABSTIM_DIFF_MIN
  BY <1>1, ModNear
<1> QED BY <1>1, <1>3, <1>4, <1>5

\* The clock and what is left are integers.
LEMMA TypesFacts ==
  ASSUME Types
  PROVE  /\ current_time \in Int /\ current_time \in ABSTIM
         /\ left \in [Events -> Int] /\ time \in [Events -> ABSTIM]
<1>1. /\ current_time \in ABSTIM /\ left \in [Events -> Int] /\ time \in [Events -> ABSTIM]
  BY DEF Types
<1>2. ABSTIM \subseteq Int
  BY Clock DEF ABSTIM
<1> QED BY <1>1, <1>2

\* knl_enqueue_tmeb puts an event that is due in d into its place in true time.
LEMMA Enqueue ==
  ASSUME Types, NEW q \in Seq(Events), Injective(q), NEW e \in Events, e \notin Elems(q),
         Sorted(q, left),
         \A x \in Elems(q) : /\ time[x] = (current_time + left[x]) % M
                             /\ left[x] \in 1 - TIMER_PERIOD .. Half,
         NEW d \in 1 - TIMER_PERIOD .. Half
  PROVE  LET r == knl_enqueue_tmeb(q, e, (current_time + d) % M)
         IN  /\ r \in Seq(Events) /\ Injective(r) /\ Elems(r) = Elems(q) \cup {e}
             /\ Sorted(r, [left EXCEPT ![e] = d])
<1> DEFINE c == current_time
           ofs == (c - ABSTIM_DIFF_MIN) % M
           key == [x \in Events |-> (time[x] - ofs) % M]
           k == (((c + d) % M) - ofs) % M
           i == TpriPosition(q, left, d)
<1>1. c \in Int /\ left \in [Events -> Int] /\ d \in Int
  BY Clock, TypesFacts
<1>2. k = d + ABSTIM_DIFF_MIN
  BY <1>1, KeyIs
<1>3. ASSUME NEW j \in DOMAIN q PROVE key[q[j]] > k <=> left[q[j]] > d
  <2>1. q[j] \in Elems(q) /\ q[j] \in Events
    BY DEF Elems
  <2>2. key[q[j]] = (((c + left[q[j]]) % M) - ofs) % M
    BY <2>1
  <2>3. left[q[j]] \in 1 - TIMER_PERIOD .. Half /\ left[q[j]] \in Int
    BY <1>1, <2>1
  <2>4. key[q[j]] = left[q[j]] + ABSTIM_DIFF_MIN
    BY <1>1, <2>2, <2>3, KeyIs
  <2> QED BY <1>1, <1>2, <2>3, <2>4, Clock
<1>4. TpriPosition(q, key, k) = i
  <2> HIDE DEF key, k
  <2> QED BY <1>3, TpriPositionEqual
<1>5. knl_enqueue_tmeb(q, e, (c + d) % M) = InsertBefore(q, i, e)
  BY <1>4 DEF knl_enqueue_tmeb
<1>6. i \in 1 .. Len(q) + 1
  BY <1>1, TpriPositionFacts
<1>7. Sorted(InsertBefore(q, i, e), [left EXCEPT ![e] = d])
  BY <1>1, InsertTpriSorted
<1> HIDE DEF i
<1>8. /\ InsertBefore(q, i, e) \in Seq(Events) /\ Injective(InsertBefore(q, i, e))
      /\ Elems(InsertBefore(q, i, e)) = Elems(q) \cup {e}
  BY <1>6, InsertBeforeFacts
<1> QED BY <1>5, <1>7, <1>8

\* The queue without event e, as it is found before e is set or cleared.
Without(q, e) ==
  /\ q \in Seq(Events) /\ Injective(q) /\ Sorted(q, left)
  /\ Elems(q) = Elems(timer_queue) \ {e}

\* Unlinking an event, or finding it not linked, gives such a queue.
LEMMA WithoutFacts ==
  ASSUME IInv, NEW e
  PROVE  /\ Without(QueRemove(timer_queue, e), e)
         /\ e \notin Elems(timer_queue) => Without(timer_queue, e)
         /\ timer_queue # << >> =>
              /\ Without(Tail(timer_queue), Head(timer_queue))
              /\ Head(timer_queue) \in Elems(timer_queue)
              /\ \A x \in Elems(timer_queue) : left[Head(timer_queue)] <= left[x]
<1>1. timer_queue \in Seq(Events) /\ Injective(timer_queue) /\ Sorted(timer_queue, left)
  BY DEF IInv, Types, QueueInOrder
<1>2. Without(QueRemove(timer_queue, e), e)
  BY <1>1, QueRemoveFacts, QueRemoveSorted DEF Without
<1>3. e \notin Elems(timer_queue) => Without(timer_queue, e)
  BY <1>1 DEF Without
<1>4. ASSUME timer_queue # << >>
      PROVE  /\ Without(Tail(timer_queue), Head(timer_queue))
             /\ Head(timer_queue) \in Elems(timer_queue)
             /\ \A x \in Elems(timer_queue) : left[Head(timer_queue)] <= left[x]
  BY <1>1, <1>4, QueRemoveNextFacts, HeadOfSorted DEF Without
<1> QED BY <1>2, <1>3, <1>4

\* Event e is set: the parts of the invariant that speak of the queue.
LEMMA InsertKeeps ==
  ASSUME IInv, NEW e \in Events, NEW q, Without(q, e), NEW d \in 1 - TIMER_PERIOD .. Half,
         knl_timer_insert_abs(q, e, (current_time + d) % M, d),
         UNCHANGED current_time
  PROVE  /\ timer_queue' \in Seq(Events) /\ Injective(timer_queue')
         /\ time' \in [Events -> ABSTIM] /\ left' \in [Events -> Int]
         /\ Elems(timer_queue') = Elems(timer_queue) \cup {e}
         /\ QueueInOrder' /\ TimesExact'
         /\ left'[e] = d
         /\ \A x \in Events \ {e} : time'[x] = time[x] /\ left'[x] = left[x]
<1>1. /\ q \in Seq(Events) /\ Injective(q) /\ Sorted(q, left)
      /\ Elems(q) = Elems(timer_queue) \ {e}
      /\ Elems(q) \subseteq Events
  BY ElemsIn DEF Without
<1>2. \A x \in Elems(timer_queue) : /\ time[x] = (current_time + left[x]) % M
                                    /\ left[x] \in 1 - TIMER_PERIOD .. Half
  BY Clock DEF IInv, TimesExact, Due
<1>3. Types
  BY DEF IInv
<1>4. /\ timer_queue' \in Seq(Events) /\ Injective(timer_queue')
      /\ Elems(timer_queue') = Elems(q) \cup {e}
      /\ Sorted(timer_queue', [left EXCEPT ![e] = d])
  BY <1>1, <1>2, <1>3, Enqueue DEF knl_timer_insert_abs
<1>5. /\ time' = [time EXCEPT ![e] = (current_time + d) % M]
      /\ left' = [left EXCEPT ![e] = d]
  BY DEF knl_timer_insert_abs
<1>6. (current_time + d) % M \in ABSTIM /\ d \in Int
  <2>1. M \in Nat /\ M > 0 /\ current_time + d \in Int /\ d \in Int
    BY <1>3, Clock, TypesFacts
  <2> QED BY <2>1, DivFacts DEF ABSTIM
<1>7. /\ time' \in [Events -> ABSTIM] /\ left' \in [Events -> Int]
      /\ left'[e] = d /\ time'[e] = (current_time + d) % M
      /\ \A x \in Events \ {e} : time'[x] = time[x] /\ left'[x] = left[x]
  BY <1>3, <1>5, <1>6 DEF Types
<1>8. QueueInOrder'
  BY <1>4, <1>5 DEF QueueInOrder
<1>9. TimesExact'
  <2> SUFFICES ASSUME NEW x \in Elems(timer_queue')
               PROVE  time'[x] = (current_time + left'[x]) % M
    BY DEF TimesExact
  <2>1. CASE x = e
    BY <1>7, <2>1
  <2>2. CASE x # e
    <3>1. x \in Elems(q) /\ x \in Events \ {e} /\ x \in Elems(timer_queue)
      BY <1>1, <1>4, <2>2
    <3> QED BY <1>2, <1>7, <3>1
  <2> QED BY <2>1, <2>2
<1> QED BY <1>1, <1>4, <1>7, <1>8, <1>9

\* Event e is cleared.
LEMMA DisarmKeeps ==
  ASSUME IInv, NEW e \in Events, NEW q, Without(q, e), Disarm(q, e), UNCHANGED current_time
  PROVE  /\ timer_queue' \in Seq(Events) /\ Injective(timer_queue')
         /\ time' \in [Events -> ABSTIM] /\ left' \in [Events -> Int]
         /\ Elems(timer_queue') = Elems(timer_queue) \ {e}
         /\ QueueInOrder' /\ TimesExact'
         /\ \A x \in Events \ {e} : time'[x] = time[x] /\ left'[x] = left[x]
<1>1. /\ q \in Seq(Events) /\ Injective(q) /\ Sorted(q, left) /\ timer_queue' = q
      /\ Elems(q) = Elems(timer_queue) \ {e}
      /\ Elems(q) \subseteq Events \ {e}
  BY ElemsIn DEF Without, Disarm
<1>2. 0 \in ABSTIM /\ 0 \in Int
  BY Clock DEF ABSTIM
<1>3. /\ time' \in [Events -> ABSTIM] /\ left' \in [Events -> Int]
      /\ \A x \in Events \ {e} : time'[x] = time[x] /\ left'[x] = left[x]
  BY <1>2 DEF IInv, Types, Disarm
<1>4. QueueInOrder'
  <2>1. \A j \in DOMAIN q : q[j] \in Events \ {e}
    BY <1>1 DEF Elems
  <2> QED BY <1>1, <1>3, <2>1 DEF QueueInOrder, Sorted
<1>5. TimesExact'
  <2> SUFFICES ASSUME NEW x \in Elems(q)
               PROVE  time'[x] = (current_time + left'[x]) % M
    BY <1>1 DEF TimesExact
  <2>1. x \in Elems(timer_queue) /\ x \in Events \ {e}
    BY <1>1
  <2> QED BY <1>3, <2>1 DEF IInv, TimesExact
<1> QED BY <1>1, <1>3, <1>4, <1>5

\* What is due after event e is set for a time ahead, or cleared.
LEMMA DueKept ==
  ASSUME IInv, NEW e \in Events, NEW d \in 1 .. Half,
         handler' = "none" => handler = "none",
         \/ Elems(timer_queue') = Elems(timer_queue) \cup {e} /\ left'[e] = d
         \/ Elems(timer_queue') = Elems(timer_queue) \ {e},
         \A x \in Events \ {e} : left'[x] = left[x]
  PROVE  Due'
<1> SUFFICES ASSUME NEW x \in Elems(timer_queue')
             PROVE  left'[x] \in (IF handler' = "none" THEN 1 ELSE 1 - TIMER_PERIOD) .. Half
  BY DEF Due
<1>1. CASE x = e
  BY <1>1, Clock
<1>2. CASE x # e
  <2>1. x \in Elems(timer_queue) /\ x \in Events
    BY <1>2, ElemsIn DEF IInv, Types
  <2>2. left[x] \in (IF handler = "none" THEN 1 ELSE 1 - TIMER_PERIOD) .. Half
    BY <2>1 DEF IInv, Due
  <2> QED BY <1>2, <2>1, <2>2, Clock
<1> QED BY <1>1, <1>2

\* The phases of stopped handlers, when nothing but the event e was touched.
LEMMA PhaseKept ==
  ASSUME IInv, NEW e \in Events, UNCHANGED current_time,
         \A x \in Events \ {e} : time'[x] = time[x] /\ left'[x] = left[x],
         \A c \in Cycs \ {e} : cyc'[c] = cyc[c],
         e \in Cycs => cyc'[e].cycstat \/ ~cyc'[e].cychdr
  PROVE  Phase'
<1> SUFFICES ASSUME NEW c \in Cycs, cyc'[c].cychdr, ~cyc'[c].cycstat
             PROVE  /\ left'[c] \in Lost .. Half
                    /\ left'[c] > Lost => time'[c] = (current_time + left'[c]) % M
  BY DEF Phase
<1>1. c # e /\ c \in Events
  BY DEF Events
<1> QED BY <1>1 DEF IInv, Phase

\* A wait begins, with or without a time limit.
LEMMA MakeWait ==
  ASSUME IInv, NEW t \in Tasks, NEW n \in RelTimes \cup {TMO_FEVR}, knl_make_wait(t, n)
  PROVE  IInv'
<1>1. /\ t \in Events /\ tsk[t] = "READY" /\ handler = "none"
      /\ UNCHANGED <<current_time, cyc, alm, handler>>
  BY DEF knl_make_wait, Events
<1>2. CASE n = TMO_FEVR
  <2>1. UNCHANGED <<timer_queue, time, left>> /\ tsk' = [tsk EXCEPT ![t] = "WAIT FOREVER"]
    BY <1>2 DEF knl_make_wait
  <2>2. Types'
    BY <1>1, <2>1 DEF IInv, Types
  <2>3. Owners'
    BY <1>1, <2>1 DEF IInv, Types, Owners
  <2> QED BY <1>1, <2>1, <2>2, <2>3
          DEF IInv, Existing, TimesExact, QueueInOrder, Due, Phase
<1>3. CASE n # TMO_FEVR
  <2> DEFINE d == n + TIMER_PERIOD
  <2>1. /\ n \in RelTimes /\ tsk' = [tsk EXCEPT ![t] = "WAIT"]
        /\ knl_timer_insert(t, n)
    BY <1>3 DEF knl_make_wait
  <2>2. d \in 1 .. Half /\ d \in 1 - TIMER_PERIOD .. Half
        /\ current_time + n + TIMER_PERIOD = current_time + d
    BY <2>1, Clock, TypesFacts DEF IInv
  <2>3. knl_timer_insert_abs(timer_queue, t, (current_time + d) % M, d)
    BY <2>1, <2>2 DEF knl_timer_insert
  <2>4. Without(timer_queue, t)
    BY <1>1, WithoutFacts DEF IInv, Owners
  <2> HIDE DEF d
  <2>5. /\ timer_queue' \in Seq(Events) /\ Injective(timer_queue')
        /\ time' \in [Events -> ABSTIM] /\ left' \in [Events -> Int]
        /\ Elems(timer_queue') = Elems(timer_queue) \cup {t}
        /\ QueueInOrder' /\ TimesExact' /\ left'[t] = d
        /\ \A x \in Events \ {t} : time'[x] = time[x] /\ left'[x] = left[x]
    BY <1>1, <2>2, <2>3, <2>4, InsertKeeps
  <2>6. Types'
    BY <1>1, <2>1, <2>5 DEF IInv, Types
  <2>7. Owners'
    BY <1>1, <2>1, <2>5, Disjoint DEF IInv, Types, Owners
  <2>8. Existing'
    BY <1>1 DEF IInv, Existing
  <2>9. Due'
    BY <1>1, <2>2, <2>5, DueKept
  <2>10. Phase'
    BY <1>1, <2>5, PhaseKept, Disjoint
  <2> QED BY <2>5, <2>6, <2>7, <2>8, <2>9, <2>10 DEF IInv
<1> QED BY <1>2, <1>3

\* A wait ends, by its time limit or otherwise.
LEMMA WaitReleased ==
  ASSUME IInv, NEW t \in Tasks, NEW q, Without(q, t), Disarm(q, t),
         tsk' = [tsk EXCEPT ![t] = "READY"], UNCHANGED <<current_time, cyc, alm>>,
         handler' \in {"none", "loop", "user"}, handler' = "none" => handler = "none"
  PROVE  IInv'
<1>1. t \in Events /\ 1 \in 1 .. Half
  BY Clock DEF Events
<1>2. /\ timer_queue' \in Seq(Events) /\ Injective(timer_queue')
      /\ time' \in [Events -> ABSTIM] /\ left' \in [Events -> Int]
      /\ Elems(timer_queue') = Elems(timer_queue) \ {t}
      /\ QueueInOrder' /\ TimesExact'
      /\ \A x \in Events \ {t} : time'[x] = time[x] /\ left'[x] = left[x]
  BY <1>1, DisarmKeeps
<1>3. Types'
  BY <1>2 DEF IInv, Types
<1>4. Owners'
  BY <1>2, Disjoint DEF IInv, Types, Owners
<1>5. Existing'
  BY DEF IInv, Existing
<1>6. Due'
  BY <1>1, <1>2, DueKept
<1>7. Phase'
  BY <1>1, <1>2, PhaseKept, Disjoint
<1> QED BY <1>2, <1>3, <1>4, <1>5, <1>6, <1>7 DEF IInv

\* A wait ends otherwise than by its time limit.
LEMMA WaitCancel ==
  ASSUME IInv, NEW t \in Tasks, knl_wait_cancel(t)
  PROVE  IInv'
<1>1. /\ tsk' = [tsk EXCEPT ![t] = "READY"] /\ Disarm(QueRemove(timer_queue, t), t)
      /\ UNCHANGED <<current_time, cyc, alm, handler>>
  BY DEF knl_wait_cancel, Callable
<1>2. Without(QueRemove(timer_queue, t), t) /\ handler \in {"none", "loop", "user"}
  BY WithoutFacts DEF IInv, Types
<1> QED BY <1>1, <1>2, WaitReleased

-----------------------------------------------------------------------------
(* Cyclic handlers                                                         *)

\* A cyclic handler that is started: its event is set for d.
LEMMA CycStarted ==
  ASSUME IInv, NEW c \in Cycs, NEW q, Without(q, c), NEW d \in 1 .. Half,
         knl_timer_insert_abs(q, c, (current_time + d) % M, d),
         NEW b \in CYCCB, b.cychdr, b.cycstat, b.cyctim > 0, cyc' = [cyc EXCEPT ![c] = b],
         UNCHANGED <<current_time, tsk, alm>>,
         handler' \in {"none", "loop", "user"}, handler' = "none" => handler = "none"
  PROVE  IInv'
<1>1. c \in Events /\ d \in 1 - TIMER_PERIOD .. Half
  BY Clock DEF Events
<1>2. /\ timer_queue' \in Seq(Events) /\ Injective(timer_queue')
      /\ time' \in [Events -> ABSTIM] /\ left' \in [Events -> Int]
      /\ Elems(timer_queue') = Elems(timer_queue) \cup {c}
      /\ QueueInOrder' /\ TimesExact' /\ left'[c] = d
      /\ \A x \in Events \ {c} : time'[x] = time[x] /\ left'[x] = left[x]
  BY <1>1, InsertKeeps
<1>3. cyc' \in [Cycs -> CYCCB] /\ cyc'[c] = b /\ \A x \in Cycs \ {c} : cyc'[x] = cyc[x]
  BY DEF IInv, Types
<1>4. Types'
  BY <1>2, <1>3 DEF IInv, Types
<1>5. Owners'
  BY <1>2, <1>3, Disjoint DEF IInv, Owners
<1>6. Existing'
  BY <1>3 DEF IInv, Existing
<1>7. Due'
  BY <1>1, <1>2, DueKept
<1>8. Phase'
  BY <1>1, <1>2, <1>3, PhaseKept
<1> QED BY <1>2, <1>4, <1>5, <1>6, <1>7, <1>8 DEF IInv

\* tk_cre_cyc: a handler with TA_STA is started, the phase of another is kept.
LEMMA CreCyc ==
  ASSUME IInv, NEW c \in Cycs, NEW phs \in BOOLEAN, NEW sta \in BOOLEAN,
         NEW n \in RelTimes, NEW p \in Phases, tk_cre_cyc(c, phs, sta, n, p)
  PROVE  IInv'
<1> DEFINE due == p + TIMER_PERIOD
           tm == (current_time + p + TIMER_PERIOD) % M
           b == [cychdr |-> TRUE, phs |-> phs, cycstat |-> sta, cyctim |-> n]
<1>1. /\ ~cyc[c].cychdr /\ n > 0 /\ cyc' = [cyc EXCEPT ![c] = b]
      /\ UNCHANGED <<current_time, handler, tsk, alm>>
  BY DEF tk_cre_cyc, Callable
<1>2. b \in CYCCB /\ b.cychdr /\ b.cycstat = sta /\ b.cyctim = n
  BY DEF CYCCB
<1>3. current_time \in Int /\ n \in Nat /\ p \in Nat /\ due \in 1 .. Half /\ due \in Int
      /\ n + TIMER_PERIOD \in 1 .. Half
      /\ current_time + p + TIMER_PERIOD = current_time + due
  BY Clock, TypesFacts DEF IInv
<1>4. c \notin Elems(timer_queue) /\ c \in Events
  BY <1>1 DEF IInv, Owners, Existing, Events
<1>5. Without(timer_queue, c)
  BY <1>4, WithoutFacts
<1>6. handler \in {"none", "loop", "user"}
  BY DEF IInv, Types
<1> HIDE DEF b, due
<1>7. CASE sta /\ p = 0
  <2> DEFINE d == n + TIMER_PERIOD
  <2>1. knl_timer_insert_abs(timer_queue, c, knl_cyc_next_time(tm, n), due + n)
    BY <1>7, <1>3 DEF tk_cre_cyc, due
  <2>2. due + n = d /\ d \in Lost + 1 .. Half /\ ~(d <= 0) /\ due = TIMER_PERIOD
    BY <1>3, <1>7, Clock DEF due
  <2>3. (tm + n) % M = (current_time + d) % M
    <3>1. M \in Nat /\ M > 0 /\ n \in Int /\ current_time + due \in Int
          /\ (current_time + due) + n = current_time + d
      BY <1>3, <2>2, Clock
    <3>2. (((current_time + due) % M) + n) % M = ((current_time + due) + n) % M
      BY <3>1, ModAdd, Zenon
    <3> QED BY <1>3, <3>1, <3>2
  <2>4. ~knl_abstim_reached(current_time, (tm + n) % M)
    BY <1>3, <2>2, <2>3, Reached
  <2>5. knl_cyc_next_time(tm, n) = (current_time + d) % M
    BY <2>3, <2>4 DEF knl_cyc_next_time
  <2> QED BY <1>1, <1>2, <1>3, <1>5, <1>6, <1>7, <2>1, <2>2, <2>5, CycStarted
<1>8. CASE sta /\ p > 0
  <2>1. knl_timer_insert_abs(timer_queue, c, (current_time + due) % M, due)
    BY <1>3, <1>8 DEF tk_cre_cyc, due
  <2> QED BY <1>1, <1>2, <1>3, <1>5, <1>6, <1>8, <2>1, CycStarted
<1>9. CASE ~sta
  <2>1. /\ time' = [time EXCEPT ![c] = (current_time + due) % M]
        /\ left' = [left EXCEPT ![c] = due] /\ UNCHANGED timer_queue
    BY <1>3, <1>9 DEF tk_cre_cyc, due
  <2>2. (current_time + due) % M \in ABSTIM
    <3>1. current_time + due \in Int /\ M \in Nat /\ M > 0
      BY <1>3, Clock
    <3> QED BY <3>1, DivFacts DEF ABSTIM
  <2>3. /\ time' \in [Events -> ABSTIM] /\ left' \in [Events -> Int]
        /\ left'[c] = due /\ time'[c] = (current_time + due) % M
        /\ \A x \in Events \ {c} : time'[x] = time[x] /\ left'[x] = left[x]
    BY <1>3, <1>4, <2>1, <2>2, TypesFacts DEF IInv
  <2>4. cyc' \in [Cycs -> CYCCB] /\ cyc'[c] = b /\ \A x \in Cycs \ {c} : cyc'[x] = cyc[x]
    BY <1>1, <1>2 DEF IInv, Types
  <2>5. Types'
    BY <1>1, <2>1, <2>3, <2>4 DEF IInv, Types
  <2>6. Owners'
    BY <1>1, <1>2, <1>4, <1>9, <2>1, <2>4, Disjoint DEF IInv, Owners
  <2>7. Existing'
    BY <1>1, <1>2, <1>9, <2>4 DEF IInv, Existing
  <2>8. \A x \in Elems(timer_queue) : x \in Events \ {c} /\ time'[x] = time[x] /\ left'[x] = left[x]
    BY <1>4, <2>3, ElemsIn DEF IInv, Types
  <2>9. TimesExact' /\ Due'
    BY <1>1, <2>1, <2>8 DEF IInv, TimesExact, Due
  <2>10. QueueInOrder'
    <3>1. \A j \in DOMAIN timer_queue : left'[timer_queue[j]] = left[timer_queue[j]]
      BY <2>8 DEF Elems
    <3> QED BY <2>1, <3>1 DEF IInv, QueueInOrder, Sorted
  <2>11. Phase'
    <3>1. ASSUME NEW x \in Cycs, cyc'[x].cychdr, ~cyc'[x].cycstat, x # c
          PROVE  /\ left'[x] \in Lost .. Half
                 /\ left'[x] > Lost => time'[x] = (current_time + left'[x]) % M
      <4>1. x \in Events \ {c}
        BY <3>1 DEF Events
      <4> QED BY <2>3, <2>4, <3>1, <4>1 DEF IInv, Phase
    <3>2. left'[c] \in Lost .. Half /\ time'[c] = (current_time + left'[c]) % M
      BY <1>3, <2>3, Clock
    <3> QED BY <1>1, <3>1, <3>2 DEF Phase
  <2> QED BY <2>5, <2>6, <2>7, <2>9, <2>10, <2>11 DEF IInv
<1> QED BY <1>3, <1>7, <1>8, <1>9

\* tk_del_cyc.
LEMMA DelCyc ==
  ASSUME IInv, NEW c \in Cycs, tk_del_cyc(c)
  PROVE  IInv'
<1> DEFINE q == IF cyc[c].cycstat THEN QueRemove(timer_queue, c) ELSE timer_queue
           b == [cyc[c] EXCEPT !.cychdr = FALSE, !.cycstat = FALSE]
<1>1. /\ c \in Events /\ cyc' = [cyc EXCEPT ![c] = b] /\ Disarm(q, c)
      /\ UNCHANGED <<current_time, handler, tsk, alm>>
  BY DEF tk_del_cyc, Callable, Events
<1>2. b \in CYCCB /\ ~b.cychdr /\ ~b.cycstat
  BY DEF IInv, Types, CYCCB
<1>3. Without(q, c)
  BY WithoutFacts DEF IInv, Owners
<1> HIDE DEF q, b
<1>4. /\ timer_queue' \in Seq(Events) /\ Injective(timer_queue')
      /\ time' \in [Events -> ABSTIM] /\ left' \in [Events -> Int]
      /\ Elems(timer_queue') = Elems(timer_queue) \ {c}
      /\ QueueInOrder' /\ TimesExact'
      /\ \A x \in Events \ {c} : time'[x] = time[x] /\ left'[x] = left[x]
  BY <1>1, <1>3, DisarmKeeps
<1>5. cyc' \in [Cycs -> CYCCB] /\ cyc'[c] = b /\ \A x \in Cycs \ {c} : cyc'[x] = cyc[x]
  BY <1>1, <1>2 DEF IInv, Types
<1>6. Types'
  BY <1>1, <1>4, <1>5 DEF IInv, Types
<1>7. Owners'
  BY <1>1, <1>2, <1>4, <1>5, Disjoint DEF IInv, Owners
<1>8. Existing'
  BY <1>1, <1>2, <1>5 DEF IInv, Existing
<1>9. 1 \in 1 .. Half
  BY Clock
<1>10. Due'
  BY <1>1, <1>4, <1>9, DueKept
<1>11. Phase'
  BY <1>1, <1>2, <1>4, <1>5, PhaseKept
<1> QED BY <1>4, <1>6, <1>7, <1>8, <1>10, <1>11 DEF IInv

\* tk_sta_cyc: a stopped handler with TA_PHS goes on in its phase, one without
\* begins anew.
LEMMA StaCyc ==
  ASSUME IInv, NEW c \in Cycs, tk_sta_cyc(c)
  PROVE  IInv'
<1> DEFINE q == IF cyc[c].cycstat THEN QueRemove(timer_queue, c) ELSE timer_queue
           n == cyc[c].cyctim
           b == [cyc[c] EXCEPT !.cycstat = TRUE]
<1>1. /\ c \in Events /\ cyc[c].cychdr /\ cyc' = [cyc EXCEPT ![c] = b]
      /\ UNCHANGED <<current_time, handler, tsk, alm>>
  BY DEF tk_sta_cyc, Callable, Events
<1>2. /\ b \in CYCCB /\ b.cychdr /\ b.cycstat /\ b.cyctim > 0 /\ n \in RelTimes /\ n > 0
      /\ cyc[c].cycstat \in BOOLEAN
  BY <1>1 DEF IInv, Types, Existing, CYCCB
<1>3. Without(q, c) /\ (~cyc[c].cycstat => Without(timer_queue, c))
  BY WithoutFacts DEF IInv, Owners
<1>4. /\ current_time \in Int /\ n \in Nat /\ n + TIMER_PERIOD \in 1 .. Half
      /\ current_time + n + TIMER_PERIOD = current_time + (n + TIMER_PERIOD)
      /\ left[c] \in Int
  BY <1>1, <1>2, Clock, TypesFacts DEF IInv
<1>5. handler \in {"none", "loop", "user"}
  BY DEF IInv, Types
<1>6. CASE cyc[c].phs /\ cyc[c].cycstat
  <2>1. UNCHANGED <<timer_queue, time, left>>
    BY <1>6 DEF tk_sta_cyc
  <2>2. cyc[c] \in CYCCB
    BY DEF IInv, Types
  <2>3. b = cyc[c]
    BY <1>6, <2>2 DEF CYCCB
  <2>4. cyc' = cyc
    BY <1>1, <2>3 DEF IInv, Types
  <2> QED BY <1>1, <2>1, <2>4
          DEF IInv, Types, Owners, Existing, TimesExact, QueueInOrder, Due, Phase
<1>7. CASE cyc[c].phs /\ ~cyc[c].cycstat
  <2> DEFINE d == IF left[c] <= 0 THEN NextDue(left[c], n) ELSE left[c]
  <2>1. /\ left[c] > Lost
        /\ knl_timer_insert_abs(timer_queue, c,
             IF knl_abstim_reached(current_time, time[c]) THEN knl_cyc_next_time(time[c], n)
             ELSE time[c], d)
    BY <1>7 DEF tk_sta_cyc
  <2>2. left[c] \in Lost + 1 .. Half /\ time[c] = (current_time + left[c]) % M
    BY <1>1, <1>4, <1>7, <2>1, Clock DEF IInv, Phase
  <2>3. knl_abstim_reached(current_time, time[c]) <=> left[c] <= 0
    BY <1>4, <2>2, Reached
  <2>4. CASE left[c] <= 0
    <3>1. left[c] \in Lost + 1 .. 0
      BY <2>2, <2>4, Clock
    <3>2. /\ knl_cyc_next_time(time[c], n) = (current_time + NextDue(left[c], n)) % M
          /\ NextDue(left[c], n) \in 1 .. n
      BY <1>2, <1>4, <2>2, <3>1, NextTime
    <3>3. d = NextDue(left[c], n) /\ NextDue(left[c], n) \in 1 .. Half
      BY <1>4, <2>4, <3>2, Clock
    <3>4. knl_timer_insert_abs(timer_queue, c, (current_time + d) % M, d)
      BY <2>1, <2>3, <2>4, <3>2, <3>3
    <3> HIDE DEF d, b
    <3> QED BY <1>1, <1>2, <1>3, <1>5, <1>7, <3>3, <3>4, CycStarted
  <2>5. CASE ~(left[c] <= 0)
    <3>1. d = left[c] /\ left[c] \in 1 .. Half
      BY <1>4, <2>2, <2>5, Clock
    <3>2. knl_timer_insert_abs(timer_queue, c, (current_time + d) % M, d)
      BY <2>1, <2>2, <2>3, <2>5, <3>1
    <3> HIDE DEF d, b
    <3> QED BY <1>1, <1>2, <1>3, <1>5, <1>7, <3>1, <3>2, CycStarted
  <2> QED BY <2>4, <2>5
<1>8. CASE ~cyc[c].phs
  <2>1. knl_timer_insert_abs(q, c, (current_time + (n + TIMER_PERIOD)) % M, n + TIMER_PERIOD)
    BY <1>4, <1>8 DEF tk_sta_cyc
  <2> HIDE DEF q, b
  <2> QED BY <1>1, <1>2, <1>3, <1>4, <1>5, <2>1, CycStarted
<1> QED BY <1>6, <1>7, <1>8

\* tk_stp_cyc: the time stays behind as the phase.
LEMMA StpCyc ==
  ASSUME IInv, NEW c \in Cycs, tk_stp_cyc(c)
  PROVE  IInv'
<1> DEFINE q == IF cyc[c].cycstat THEN QueRemove(timer_queue, c) ELSE timer_queue
           b == [cyc[c] EXCEPT !.cycstat = FALSE]
<1>1. /\ c \in Events /\ cyc[c].cychdr /\ cyc' = [cyc EXCEPT ![c] = b] /\ timer_queue' = q
      /\ UNCHANGED <<current_time, handler, time, tsk, alm, left>>
  BY DEF tk_stp_cyc, Callable, Events
<1>2. b \in CYCCB /\ b.cychdr /\ ~b.cycstat /\ b.cyctim = cyc[c].cyctim
  BY <1>1 DEF IInv, Types, CYCCB
<1>3. Without(q, c)
  BY WithoutFacts DEF IInv, Owners
<1> HIDE DEF q, b
<1>4. cyc' \in [Cycs -> CYCCB] /\ cyc'[c] = b /\ \A x \in Cycs \ {c} : cyc'[x] = cyc[x]
  BY <1>1, <1>2 DEF IInv, Types
<1>5. Types'
  BY <1>1, <1>3, <1>4 DEF IInv, Types, Without
<1>6. Elems(timer_queue') = Elems(timer_queue) \ {c}
  BY <1>1, <1>3 DEF Without
<1>7. Owners'
  BY <1>1, <1>2, <1>4, <1>6, Disjoint DEF IInv, Owners
<1>8. Existing'
  BY <1>1, <1>2, <1>4 DEF IInv, Existing
<1>9. TimesExact' /\ Due'
  BY <1>1, <1>6 DEF IInv, TimesExact, Due
<1>10. QueueInOrder'
  BY <1>1, <1>3 DEF Without, QueueInOrder
<1>11. Phase'
  <2>1. ASSUME NEW x \in Cycs, cyc'[x].cychdr, ~cyc'[x].cycstat, x # c
        PROVE  /\ left[x] \in Lost .. Half
               /\ left[x] > Lost => time[x] = (current_time + left[x]) % M
    BY <1>4, <2>1 DEF IInv, Phase
  <2>2. /\ left[c] \in Lost .. Half
        /\ left[c] > Lost => time[c] = (current_time + left[c]) % M
    <3>1. CASE cyc[c].cycstat
      <4>1. c \in Elems(timer_queue)
        BY <3>1 DEF IInv, Owners
      <4>2. left[c] \in (IF handler = "none" THEN 1 ELSE 1 - TIMER_PERIOD) .. Half
        BY <4>1 DEF IInv, Due
      <4>3. time[c] = (current_time + left[c]) % M
        BY <4>1 DEF IInv, TimesExact
      <4> QED BY <4>2, <4>3, Clock
    <3>2. CASE ~cyc[c].cycstat
      BY <1>1, <3>2 DEF IInv, Phase
    <3> QED BY <3>1, <3>2
  <2> QED BY <1>1, <2>1, <2>2 DEF Phase
<1> QED BY <1>5, <1>7, <1>8, <1>9, <1>10, <1>11 DEF IInv

-----------------------------------------------------------------------------
(* Alarm handlers                                                          *)

\* An alarm whose event is cleared.
LEMMA AlmStopped ==
  ASSUME IInv, NEW a \in Alms, NEW q, Without(q, a), Disarm(q, a),
         NEW b \in ALMCB, ~b.almstat, alm' = [alm EXCEPT ![a] = b],
         UNCHANGED <<current_time, tsk, cyc>>,
         handler' \in {"none", "loop", "user"}, handler' = "none" => handler = "none"
  PROVE  IInv'
<1>1. a \in Events /\ 1 \in 1 .. Half
  BY Clock DEF Events
<1>2. /\ timer_queue' \in Seq(Events) /\ Injective(timer_queue')
      /\ time' \in [Events -> ABSTIM] /\ left' \in [Events -> Int]
      /\ Elems(timer_queue') = Elems(timer_queue) \ {a}
      /\ QueueInOrder' /\ TimesExact'
      /\ \A x \in Events \ {a} : time'[x] = time[x] /\ left'[x] = left[x]
  BY <1>1, DisarmKeeps
<1>3. alm' \in [Alms -> ALMCB] /\ alm'[a] = b /\ \A x \in Alms \ {a} : alm'[x] = alm[x]
  BY DEF IInv, Types
<1>4. Types'
  BY <1>2, <1>3 DEF IInv, Types
<1>5. Owners'
  BY <1>2, <1>3, Disjoint DEF IInv, Owners
<1>6. Existing'
  BY <1>3 DEF IInv, Existing
<1>7. Due'
  BY <1>1, <1>2, DueKept
<1>8. Phase'
  BY <1>1, <1>2, PhaseKept, Disjoint
<1> QED BY <1>2, <1>4, <1>5, <1>6, <1>7, <1>8 DEF IInv

\* tk_cre_alm.
LEMMA CreAlm ==
  ASSUME IInv, NEW a \in Alms, tk_cre_alm(a)
  PROVE  IInv'
<1> DEFINE b == [almhdr |-> TRUE, almstat |-> FALSE]
<1>1. /\ ~alm[a].almhdr /\ alm' = [alm EXCEPT ![a] = b]
      /\ UNCHANGED <<current_time, handler, timer_queue, time, tsk, cyc, left>>
  BY DEF tk_cre_alm, Callable
<1>2. b \in ALMCB /\ b.almhdr /\ ~b.almstat
  BY DEF ALMCB
<1> HIDE DEF b
<1>3. alm' \in [Alms -> ALMCB] /\ alm'[a] = b /\ \A x \in Alms \ {a} : alm'[x] = alm[x]
  BY <1>1, <1>2 DEF IInv, Types
<1>4. Types'
  BY <1>1, <1>3 DEF IInv, Types
<1>5. Owners'
  BY <1>1, <1>2, <1>3 DEF IInv, Owners, Existing
<1>6. Existing'
  BY <1>1, <1>2, <1>3 DEF IInv, Existing
<1> QED BY <1>1, <1>4, <1>5, <1>6 DEF IInv, TimesExact, QueueInOrder, Due, Phase

\* tk_del_alm.
LEMMA DelAlm ==
  ASSUME IInv, NEW a \in Alms, tk_del_alm(a)
  PROVE  IInv'
<1> DEFINE q == IF alm[a].almstat THEN QueRemove(timer_queue, a) ELSE timer_queue
           b == [almhdr |-> FALSE, almstat |-> FALSE]
<1>1. /\ alm' = [alm EXCEPT ![a] = b] /\ Disarm(q, a)
      /\ UNCHANGED <<current_time, handler, tsk, cyc>>
  BY DEF tk_del_alm, Callable
<1>2. b \in ALMCB /\ ~b.almstat /\ handler \in {"none", "loop", "user"}
  BY DEF ALMCB, IInv, Types
<1>3. Without(q, a)
  BY WithoutFacts DEF IInv, Owners
<1> HIDE DEF q, b
<1> QED BY <1>1, <1>2, <1>3, AlmStopped

\* tk_sta_alm: a new time, or at once.
LEMMA StaAlm ==
  ASSUME IInv, NEW a \in Alms, NEW n \in RelTimes, tk_sta_alm(a, n)
  PROVE  IInv'
<1> DEFINE q == IF alm[a].almstat THEN QueRemove(timer_queue, a) ELSE timer_queue
           b(v) == [alm[a] EXCEPT !.almstat = v]
<1>1. /\ a \in Events /\ alm[a].almhdr /\ UNCHANGED <<current_time, handler, tsk, cyc>>
  BY DEF tk_sta_alm, Callable, Events
<1>2. /\ b(TRUE) \in ALMCB /\ b(TRUE).almhdr /\ b(TRUE).almstat
      /\ b(FALSE) \in ALMCB /\ ~b(FALSE).almstat
      /\ handler \in {"none", "loop", "user"}
  BY <1>1 DEF ALMCB, IInv, Types
<1>3. Without(q, a)
  BY WithoutFacts DEF IInv, Owners
<1>4. /\ current_time \in Int /\ n \in Nat
      /\ n + TIMER_PERIOD \in 1 .. Half /\ n + TIMER_PERIOD \in 1 - TIMER_PERIOD .. Half
      /\ current_time + n + TIMER_PERIOD = current_time + (n + TIMER_PERIOD)
  BY Clock, TypesFacts DEF IInv
<1>5. CASE n > 0
  <2>1. /\ knl_timer_insert_abs(q, a, (current_time + (n + TIMER_PERIOD)) % M, n + TIMER_PERIOD)
        /\ alm' = [alm EXCEPT ![a] = b(TRUE)]
    BY <1>4, <1>5 DEF tk_sta_alm
  <2> HIDE DEF q, b
  <2>2. /\ timer_queue' \in Seq(Events) /\ Injective(timer_queue')
        /\ time' \in [Events -> ABSTIM] /\ left' \in [Events -> Int]
        /\ Elems(timer_queue') = Elems(timer_queue) \cup {a}
        /\ QueueInOrder' /\ TimesExact' /\ left'[a] = n + TIMER_PERIOD
        /\ \A x \in Events \ {a} : time'[x] = time[x] /\ left'[x] = left[x]
    BY <1>1, <1>3, <1>4, <2>1, InsertKeeps
  <2>3. /\ alm' \in [Alms -> ALMCB] /\ alm'[a] = b(TRUE)
        /\ \A x \in Alms \ {a} : alm'[x] = alm[x]
    BY <1>2, <2>1 DEF IInv, Types
  <2>4. Types'
    BY <1>1, <2>2, <2>3 DEF IInv, Types
  <2>5. Owners'
    BY <1>1, <1>2, <2>2, <2>3, Disjoint DEF IInv, Owners
  <2>6. Existing'
    BY <1>1, <1>2, <2>3 DEF IInv, Existing
  <2>7. Due'
    BY <1>1, <1>4, <2>2, DueKept
  <2>8. Phase'
    BY <1>1, <2>2, PhaseKept, Disjoint
  <2> QED BY <2>2, <2>4, <2>5, <2>6, <2>7, <2>8 DEF IInv
<1>6. CASE n = 0
  <2>1. Disarm(q, a) /\ alm' = [alm EXCEPT ![a] = b(FALSE)]
    BY <1>6 DEF tk_sta_alm
  <2> HIDE DEF q, b
  <2> QED BY <1>1, <1>2, <1>3, <2>1, AlmStopped
<1> QED BY <1>4, <1>5, <1>6

\* tk_stp_alm.
LEMMA StpAlm ==
  ASSUME IInv, NEW a \in Alms, tk_stp_alm(a)
  PROVE  IInv'
<1> DEFINE b == [alm[a] EXCEPT !.almstat = FALSE]
<1>1. /\ alm' = [alm EXCEPT ![a] = b] /\ Disarm(QueRemove(timer_queue, a), a)
      /\ UNCHANGED <<current_time, handler, tsk, cyc>>
  BY DEF tk_stp_alm, Callable
<1>2. b \in ALMCB /\ ~b.almstat /\ handler \in {"none", "loop", "user"}
  BY DEF ALMCB, IInv, Types
<1>3. Without(QueRemove(timer_queue, a), a)
  BY WithoutFacts
<1> HIDE DEF b
<1> QED BY <1>1, <1>2, <1>3, AlmStopped

-----------------------------------------------------------------------------
(* The timer handler                                                       *)

\* The larger of two numbers.
LEMMA MaxOfTwo ==
  ASSUME NEW a \in Int, NEW b \in Int
  PROVE  Max({a, b}) = IF a >= b THEN a ELSE b
<1> DEFINE S == {a, b}
           x == IF a >= b THEN a ELSE b
           m == Max(S)
<1>1. S \subseteq Int /\ x \in S /\ \A y \in S : x >= y
  OBVIOUS
<1>2. m \in S /\ \A y \in S : m >= y
  <2> HIDE DEF S, x
  <2> QED BY <1>1 DEF Max
<1> HIDE DEF m, x, S
<1>3. m \in Int /\ x \in Int /\ m >= x /\ x >= m
  BY <1>1, <1>2
<1>4. m = x
  BY <1>3
<1> QED BY <1>4 DEF m, x, S

\* The head of the queue is due exactly when it comes to the loop.
LEMMA HeadDue ==
  ASSUME IInv, timer_queue # << >>
  PROVE  /\ HeadReached <=> left[Head(timer_queue)] <= 0
         /\ left[Head(timer_queue)] \in Lost + 1 .. Half
         /\ left[Head(timer_queue)] >= 1 - TIMER_PERIOD
         /\ time[Head(timer_queue)] = (current_time + left[Head(timer_queue)]) % M
<1> DEFINE e == Head(timer_queue)
<1>1. e \in Elems(timer_queue)
  BY WithoutFacts
<1> HIDE DEF e
<1>2. left[e] \in (IF handler = "none" THEN 1 ELSE 1 - TIMER_PERIOD) .. Half
  BY <1>1 DEF IInv, Due
<1>3. time[e] = (current_time + left[e]) % M
  BY <1>1 DEF IInv, TimesExact
<1>4. left[e] \in Lost + 1 .. Half /\ left[e] >= 1 - TIMER_PERIOD /\ current_time \in Int
  BY <1>2, Clock, TypesFacts DEF IInv
<1>5. knl_abstim_reached(current_time, time[e]) <=> left[e] <= 0
  BY <1>3, <1>4, Reached
<1> QED BY <1>3, <1>4, <1>5 DEF HeadReached, e

\* A tick.
LEMMA TickKeeps ==
  ASSUME IInv, Tick
  PROVE  IInv'
<1> DEFINE Near(e) == e \in Elems(timer_queue) \/ (e \in Cycs /\ cyc[e].cychdr)
<1>1. /\ handler = "none" /\ handler' = "loop"
      /\ current_time' = (current_time + TIMER_PERIOD) % M
      /\ UNCHANGED <<timer_queue, time, tsk, cyc, alm>>
  BY DEF Tick
<1>2. current_time \in Int /\ left \in [Events -> Int] /\ Elems(timer_queue) \subseteq Events
  BY TypesFacts, ElemsIn DEF IInv, Types
<1>3. /\ left' \in [Events -> Int]
      /\ \A e \in Events : Near(e) => left'[e] = IF left[e] - TIMER_PERIOD >= Lost
                                                 THEN left[e] - TIMER_PERIOD ELSE Lost
  <2>1. left' = [e \in Events |-> IF Near(e) THEN Max({left[e] - TIMER_PERIOD, Lost}) ELSE left[e]]
    BY DEF Tick
  <2>2. ASSUME NEW e \in Events
        PROVE  Max({left[e] - TIMER_PERIOD, Lost}) =
                 IF left[e] - TIMER_PERIOD >= Lost THEN left[e] - TIMER_PERIOD ELSE Lost
    <3>1. left[e] - TIMER_PERIOD \in Int /\ Lost \in Int
      BY <1>2, Clock
    <3> QED BY <3>1, MaxOfTwo
  <2> HIDE DEF Near
  <2>3. \A e \in Events : left'[e] = IF Near(e) THEN Max({left[e] - TIMER_PERIOD, Lost}) ELSE left[e]
    BY <2>1
  <2>4. ASSUME NEW e \in Events PROVE left'[e] \in Int
    <3>1. left[e] \in Int /\ left[e] - TIMER_PERIOD \in Int /\ Lost \in Int
      BY <1>2, Clock
    <3>2. Max({left[e] - TIMER_PERIOD, Lost}) \in Int
      BY <2>2, <3>1
    <3> QED BY <2>3, <3>1, <3>2
  <2>5. DOMAIN left' = Events /\ left' = [e \in Events |-> left'[e]]
    BY <2>1
  <2> QED BY <2>2, <2>3, <2>4, <2>5
<1>4. ASSUME NEW e \in Elems(timer_queue)
      PROVE  /\ left[e] \in 1 .. Half /\ left'[e] = left[e] - TIMER_PERIOD
             /\ time[e] = (current_time + left[e]) % M
  <2>1. left[e] \in 1 .. Half /\ time[e] = (current_time + left[e]) % M
    BY <1>1 DEF IInv, Due, TimesExact
  <2> QED BY <1>2, <1>3, <2>1, Clock
<1>5. ASSUME NEW d \in Int
      PROVE  (current_time + d) % M = (current_time' + (d - TIMER_PERIOD)) % M
  <2>1. TIMER_PERIOD \in Int
    BY Clock
  <2>2. (((current_time + TIMER_PERIOD) % M) + (d - TIMER_PERIOD)) % M = (current_time + d) % M
    BY <1>2, <2>1, Rebase, Zenon
  <2> QED BY <1>1, <2>2
<1>6. Types'
  <2>1. current_time' \in ABSTIM
    <3>1. current_time + TIMER_PERIOD \in Int /\ M \in Nat /\ M > 0
      BY <1>2, Clock
    <3> QED BY <1>1, <3>1, DivFacts DEF ABSTIM
  <2> QED BY <1>1, <1>3, <2>1 DEF IInv, Types
<1>7. Owners' /\ Existing'
  BY <1>1 DEF IInv, Owners, Existing
<1>8. TimesExact'
  <2> SUFFICES ASSUME NEW e \in Elems(timer_queue)
               PROVE  time[e] = (current_time' + left'[e]) % M
    BY <1>1 DEF TimesExact
  <2>1. left[e] \in Int
    BY <1>2
  <2> QED BY <1>4, <1>5, <2>1
<1>9. QueueInOrder'
  <2> SUFFICES ASSUME NEW i \in DOMAIN timer_queue, NEW j \in DOMAIN timer_queue, i <= j
               PROVE  left'[timer_queue[i]] <= left'[timer_queue[j]]
    BY <1>1 DEF QueueInOrder, Sorted
  <2>1. left[timer_queue[i]] <= left[timer_queue[j]]
    BY DEF IInv, QueueInOrder, Sorted
  <2>2. timer_queue[i] \in Elems(timer_queue) /\ timer_queue[j] \in Elems(timer_queue)
    BY DEF Elems
  <2>3. /\ left'[timer_queue[i]] = left[timer_queue[i]] - TIMER_PERIOD
        /\ left'[timer_queue[j]] = left[timer_queue[j]] - TIMER_PERIOD
        /\ left[timer_queue[i]] \in Int /\ left[timer_queue[j]] \in Int
    BY <1>2, <1>4, <2>2
  <2> QED BY <2>1, <2>3, Clock
<1>10. Due'
  BY <1>1, <1>4, Clock DEF Due
<1>11. Phase'
  <2> SUFFICES ASSUME NEW c \in Cycs, cyc[c].cychdr, ~cyc[c].cycstat
               PROVE  /\ left'[c] \in Lost .. Half
                      /\ left'[c] > Lost => time[c] = (current_time' + left'[c]) % M
    BY <1>1 DEF Phase
  <2>1. /\ c \in Events /\ left[c] \in Int /\ left[c] \in Lost .. Half
        /\ left[c] > Lost => time[c] = (current_time + left[c]) % M
    BY <1>2 DEF IInv, Phase, Events
  <2>2. left'[c] = IF left[c] - TIMER_PERIOD >= Lost THEN left[c] - TIMER_PERIOD ELSE Lost
    BY <1>3, <2>1
  <2>3. left'[c] > Lost => left'[c] = left[c] - TIMER_PERIOD /\ left[c] > Lost
    BY <2>1, <2>2, Clock
  <2>4. left'[c] \in Lost .. Half
    BY <2>1, <2>2, Clock
  <2> QED BY <1>5, <2>1, <2>3, <2>4
<1> QED BY <1>6, <1>7, <1>8, <1>9, <1>10, <1>11 DEF IInv

\* One turn of the loop of knl_timer_handler.
LEMMA FireKeeps ==
  ASSUME IInv, Fire
  PROVE  IInv'
<1> DEFINE e == Head(timer_queue)
           q == Tail(timer_queue)
<1>1. HeadReached /\ UNCHANGED current_time /\ timer_queue # << >>
  BY DEF Fire, HeadReached
<1>2. Without(q, e) /\ e \in Elems(timer_queue)
  BY <1>1, WithoutFacts
<1>3. left[e] \in Lost + 1 .. 0 /\ time[e] = (current_time + left[e]) % M
  BY <1>1, HeadDue, Clock
<1>4. CASE e \in Tasks /\ knl_wait_release_tmout(q, e)
  <2> HIDE DEF e, q
  <2> QED BY <1>1, <1>2, <1>4, WaitReleased DEF knl_wait_release_tmout
<1>5. CASE e \in Cycs /\ knl_call_cychdr(q, e)
  <2> HIDE DEF e, q
  <2> DEFINE n == cyc[e].cyctim
             d == NextDue(left[e], n)
  <2>1. cyc[e].cycstat /\ cyc[e].cychdr /\ n > 0 /\ cyc[e] \in CYCCB /\ n \in RelTimes
    BY <1>2, <1>5 DEF IInv, Types, Owners, Existing, CYCCB
  <2>2. /\ knl_cyc_next_time(time[e], n) = (current_time + d) % M
        /\ d \in 1 .. n
    BY <1>3, <2>1, NextTime, TypesFacts DEF IInv
  <2>3. n \in Nat /\ n <= Half
    BY <2>1, Clock
  <2>4. cyc' = [cyc EXCEPT ![e] = cyc[e]] /\ handler' = "user" /\ UNCHANGED <<tsk, alm>>
    BY <1>5 DEF knl_call_cychdr, IInv, Types
  <2>5. knl_timer_insert_abs(q, e, (current_time + d) % M, d)
    BY <1>5, <2>2 DEF knl_call_cychdr
  <2> HIDE DEF d, n
  <2>6. d \in 1 .. Half
    BY <2>2, <2>3, Clock
  <2> QED BY <1>1, <1>2, <1>5, <2>1, <2>4, <2>5, <2>6, CycStarted DEF n
<1>6. CASE e \in Alms /\ knl_call_almhdr(q, e)
  <2> HIDE DEF e, q
  <2> DEFINE b == [alm[e] EXCEPT !.almstat = FALSE]
  <2>1. b \in ALMCB /\ ~b.almstat
    BY <1>6 DEF IInv, Types, ALMCB
  <2>2. /\ alm' = [alm EXCEPT ![e] = b] /\ Disarm(q, e) /\ handler' = "user"
        /\ UNCHANGED <<tsk, cyc>>
    BY <1>6 DEF knl_call_almhdr
  <2> HIDE DEF b
  <2> QED BY <1>1, <1>2, <1>6, <2>1, <2>2, AlmStopped
<1> QED BY <1>4, <1>5, <1>6 DEF Fire

\* The loop goes on after a handler, and ends when nothing is due any more.
LEMMA ReturnKeeps ==
  ASSUME IInv, Return
  PROVE  IInv'
<1>1. UNCHANGED <<current_time, timer_queue, time, tsk, cyc, alm, left>>
  BY DEF Return
<1>2. /\ handler' \in {"none", "loop"} /\ handler # "none"
      /\ handler' = "none" => ~HeadReached
  BY DEF Return
<1>3. Due'
  <2> SUFFICES ASSUME NEW x \in Elems(timer_queue)
               PROVE  left[x] \in (IF handler' = "none" THEN 1 ELSE 1 - TIMER_PERIOD) .. Half
    BY <1>1 DEF Due
  <2>1. left[x] \in 1 - TIMER_PERIOD .. Half /\ left[x] \in Int
    BY <1>2, Clock DEF IInv, Due
  <2>2. CASE handler' = "none"
    <3>1. timer_queue # << >>
      BY DEF Elems
    <3>2. /\ left[Head(timer_queue)] <= left[x] /\ left[Head(timer_queue)] \in Int
          /\ ~(left[Head(timer_queue)] <= 0)
      BY <1>2, <2>2, <3>1, WithoutFacts, HeadDue, Clock
    <3> QED BY <2>1, <2>2, <3>2, Clock
  <2> QED BY <2>1, <2>2
<1> QED BY <1>1, <1>2, <1>3
        DEF IInv, Types, Owners, Existing, TimesExact, QueueInOrder, Phase

-----------------------------------------------------------------------------
(* The theorems                                                            *)

\* Every state of the timer satisfies the inductive invariant.
THEOREM TimerInvariance == Spec => []IInv
<1>1. Init => IInv
  <2> SUFFICES ASSUME Init PROVE IInv
    OBVIOUS
  <2>1. timer_queue = << >> /\ Elems(timer_queue) = {} /\ Injective(timer_queue)
    BY DEF Init, Elems, Injective
  <2>2. cyc \in [Cycs -> CYCCB] /\ \A c \in Cycs : ~cyc[c].cychdr /\ ~cyc[c].cycstat
    BY DEF Init, CYCCB
  <2>3. alm \in [Alms -> ALMCB] /\ \A a \in Alms : ~alm[a].almstat
    BY DEF Init, ALMCB
  <2>4. Types
    <3>1. 0 \in ABSTIM /\ 0 \in Int
      BY Clock DEF ABSTIM
    <3>2. /\ current_time \in ABSTIM /\ time \in [Events -> ABSTIM] /\ left \in [Events -> Int]
          /\ tsk \in [Tasks -> {"READY", "WAIT", "WAIT FOREVER"}] /\ handler = "none"
      BY <3>1 DEF Init
    <3>3. timer_queue \in Seq(Events)
      BY <2>1
    <3> QED BY <2>1, <2>2, <2>3, <3>2, <3>3 DEF Types
  <2>5. Owners
    BY <2>1, <2>2, <2>3 DEF Init, Owners
  <2>6. QueueInOrder
    BY <2>1 DEF QueueInOrder, Sorted
  <2> QED BY <2>1, <2>2, <2>3, <2>4, <2>5, <2>6 DEF IInv, Existing, TimesExact, Due, Phase
<1>2. IInv /\ [Next]_vars => IInv'
  <2> SUFFICES ASSUME IInv, [Next]_vars PROVE IInv'
    OBVIOUS
  <2>1. CASE UNCHANGED vars
    BY <2>1 DEF vars, IInv, Types, Owners, Existing, TimesExact, QueueInOrder, Due, Phase
  <2>2. ASSUME NEW t \in Tasks, NEW n \in RelTimes \cup {TMO_FEVR}, knl_make_wait(t, n)
        PROVE  IInv'
    BY <2>2, MakeWait
  <2>3. ASSUME NEW t \in Tasks, knl_wait_cancel(t) PROVE IInv'
    BY <2>3, WaitCancel
  <2>4. ASSUME NEW c \in Cycs, NEW phs \in BOOLEAN, NEW sta \in BOOLEAN,
               NEW n \in RelTimes, NEW p \in Phases, tk_cre_cyc(c, phs, sta, n, p)
        PROVE  IInv'
    BY <2>4, CreCyc
  <2>5. ASSUME NEW c \in Cycs, tk_del_cyc(c) \/ tk_sta_cyc(c) \/ tk_stp_cyc(c) PROVE IInv'
    BY <2>5, DelCyc, StaCyc, StpCyc
  <2>6. ASSUME NEW a \in Alms, tk_cre_alm(a) \/ tk_del_alm(a) \/ tk_stp_alm(a) PROVE IInv'
    BY <2>6, CreAlm, DelAlm, StpAlm
  <2>7. ASSUME NEW a \in Alms, NEW n \in RelTimes, tk_sta_alm(a, n) PROVE IInv'
    BY <2>7, StaAlm
  <2>8. CASE Tick \/ Fire \/ Return
    BY <2>8, TickKeeps, FireKeeps, ReturnKeeps
  <2> QED BY <2>1, <2>2, <2>3, <2>4, <2>5, <2>6, <2>7, <2>8 DEF Next
<1> QED BY <1>1, <1>2, PTL DEF Spec

\* The timer queue holds exactly the events that tasks, cyclic and alarm handlers
\* believe are set, each once, whatever calls and ticks come in between.
THEOREM TimerTypeCorrect == Spec => []TypeOK
<1>1. IInv => TypeOK
  <2> SUFFICES ASSUME IInv PROVE TypeOK
    OBVIOUS
  <2>1. Elems(timer_queue) \subseteq Tasks \cup Cycs \cup Alms
    BY ElemsIn DEF IInv, Types, Events
  <2>2. \A c \in Cycs : td_ref_cyc(c).cycstat = cyc[c].cycstat
    BY DEF td_ref_cyc
  <2>3. \A a \in Alms : td_ref_alm(a).almstat = alm[a].almstat
    BY DEF td_ref_alm
  <2>4. /\ td_lst_cyc = {c \in Cycs : cyc[c].cychdr}
        /\ td_lst_alm = {a \in Alms : alm[a].almhdr}
    BY DEF td_lst_cyc, td_lst_alm
  <2> DEFINE A == {t \in Tasks : tsk[t] = "WAIT"}
             B == {c \in td_lst_cyc : td_ref_cyc(c).cycstat}
             C == {a \in td_lst_alm : td_ref_alm(a).almstat}
  <2>5. /\ \A t \in Tasks : t \in Elems(timer_queue) <=> t \in A
        /\ \A c \in Cycs : c \in Elems(timer_queue) <=> c \in B
        /\ \A a \in Alms : a \in Elems(timer_queue) <=> a \in C
        /\ A \subseteq Tasks /\ B \subseteq Cycs /\ C \subseteq Alms
    BY <2>2, <2>3, <2>4 DEF IInv, Owners, Existing
  <2> HIDE DEF A, B, C
  <2>6. Elems(timer_queue) = A \cup B \cup C
    BY <2>1, <2>5
  <2> QED BY <2>6 DEF IInv, Types, TypeOK, A, B, C
<1> QED BY <1>1, TimerInvariance, PTL

\* The wrapping time of every event in the queue stands for the time its owner
\* asked for, across any number of turns of the clock.
THEOREM TimesCorrect == Spec => []TimesExact
<1>1. IInv => TimesExact
  BY DEF IInv
<1> QED BY <1>1, TimerInvariance, PTL

\* knl_enqueue_tmeb keeps the queue in the order in which the events are due.
THEOREM OrderCorrect == Spec => []QueueInOrder
<1>1. IInv => QueueInOrder
  BY DEF IInv
<1> QED BY <1>1, TimerInvariance, PTL

\* What lfttim shows of an event that is due in d.
LEMMA LeftTimeShown ==
  ASSUME current_time \in Int, NEW d \in Int, d - TIMER_PERIOD \in Lost + 1 .. Half
  PROVE  lfttim((current_time + d) % M) = Max({d - TIMER_PERIOD, 0})
<1> DEFINE c == current_time
           now == (c + TIMER_PERIOD) % M
           tm == (c + d) % M
           r == d - TIMER_PERIOD
<1>1. /\ M \in Nat /\ M > 0 /\ TIMER_PERIOD \in Int /\ c + TIMER_PERIOD \in Int /\ c + d \in Int
      /\ r \in Int /\ (c + d) - (c + TIMER_PERIOD) = r
  BY Clock
<1>2. now \in Int
  BY <1>1, DivFacts
<1>3. tm = (now + r) % M
  BY <1>1, Rebase, Zenon
<1>4. knl_abstim_reached(now, tm) <=> r <= 0
  <2> HIDE DEF now, r, tm
  <2>1. r \in Lost + 1 .. Half
    BY DEF r
  <2> QED BY <1>2, <1>3, <2>1, Reached
<1>5. Max({r, 0}) = IF r >= 0 THEN r ELSE 0
  <2> HIDE DEF r
  <2> QED BY <1>1, MaxOfTwo
<1>6. CASE r <= 0
  BY <1>1, <1>4, <1>5, <1>6 DEF lfttim
<1>7. CASE r > 0
  <2>1. (tm - (c + TIMER_PERIOD)) % M = ((c + d) - (c + TIMER_PERIOD)) % M
    BY <1>1, ModAdd, Zenon
  <2>2. r \in -M .. M - 1
    BY <1>7, Clock
  <2>3. r % M = r
    <3> HIDE DEF r
    <3> QED BY <1>1, <1>7, <2>2, ModNear
  <2>4. lfttim(tm) = r
    BY <1>1, <1>4, <1>7, <2>1, <2>3 DEF lfttim
  <2> QED BY <1>1, <1>5, <1>7, <2>4
<1> QED BY <1>1, <1>6, <1>7

\* tk_ref_cyc and tk_ref_alm tell the true time that is left, for a stopped cyclic
\* handler the time until its phase comes round.
THEOREM LeftTimeCorrect == Spec => []LeftTimeExact
<1>1. IInv => LeftTimeExact
  <2> SUFFICES ASSUME IInv PROVE LeftTimeExact
    OBVIOUS
  <2> DEFINE Shown(d) == Max({d - TIMER_PERIOD, 0})
  <2>1. current_time \in Int /\ left \in [Events -> Int]
    BY TypesFacts DEF IInv
  <2>2. ASSUME NEW e \in Elems(timer_queue)
        PROVE  lfttim(time[e]) = Shown(left[e])
    <3>1. e \in Events /\ left[e] \in Int
      BY <2>1, ElemsIn DEF IInv, Types
    <3>2. left[e] \in (IF handler = "none" THEN 1 ELSE 1 - TIMER_PERIOD) .. Half
      BY DEF IInv, Due
    <3>3. left[e] - TIMER_PERIOD \in Lost + 1 .. Half
      BY <3>1, <3>2, Clock
    <3>4. time[e] = (current_time + left[e]) % M
      BY DEF IInv, TimesExact
    <3> QED BY <2>1, <3>1, <3>3, <3>4, LeftTimeShown
  <2>3. ASSUME NEW a \in Alms, alm[a].almstat
        PROVE  td_ref_alm(a).lfttim = Shown(left[a])
    <3>1. a \in Elems(timer_queue)
      BY <2>3 DEF IInv, Owners
    <3>2. td_ref_alm(a).lfttim = lfttim(time[a])
      BY <2>3 DEF td_ref_alm, tk_ref_alm
    <3> QED BY <2>2, <3>1, <3>2
  <2>4. ASSUME NEW c \in Cycs, cyc[c].cychdr, left[c] > Lost
        PROVE  td_ref_cyc(c).lfttim = Shown(IF ~cyc[c].cycstat /\ left[c] <= 0
                                            THEN NextDue(left[c], cyc[c].cyctim) ELSE left[c])
    <3> DEFINE n == cyc[c].cyctim
    <3>1. td_ref_cyc(c).lfttim = tk_ref_cyc(c)
      BY DEF td_ref_cyc
    <3>2. c \in Events /\ left[c] \in Int
      BY <2>1 DEF Events
    <3>3. CASE cyc[c].cycstat
      <4>1. c \in Elems(timer_queue)
        BY <3>3 DEF IInv, Owners
      <4>2. tk_ref_cyc(c) = lfttim(time[c])
        BY <3>3 DEF tk_ref_cyc
      <4> QED BY <2>2, <3>1, <3>3, <4>1, <4>2
    <3>4. CASE ~cyc[c].cycstat
      <4>1. left[c] \in Lost + 1 .. Half /\ time[c] = (current_time + left[c]) % M
        BY <2>4, <3>2, <3>4, Clock DEF IInv, Phase
      <4>2. knl_abstim_reached(current_time, time[c]) <=> left[c] <= 0
        BY <2>1, <4>1, Reached
      <4>3. CASE left[c] <= 0
        <5>1. left[c] \in Lost + 1 .. 0
          BY <4>1, <4>3, Clock
        <5>2. n \in RelTimes /\ n > 0
          BY <2>4 DEF IInv, Types, Existing, CYCCB
        <5>3. /\ knl_cyc_next_time(time[c], n) = (current_time + NextDue(left[c], n)) % M
              /\ NextDue(left[c], n) \in 1 .. n
          BY <2>1, <4>1, <5>1, <5>2, NextTime
        <5>4. tk_ref_cyc(c) = lfttim((current_time + NextDue(left[c], n)) % M)
          BY <3>4, <4>2, <4>3, <5>3 DEF tk_ref_cyc
        <5> DEFINE d == NextDue(left[c], n)
        <5>5. d \in Int /\ d - TIMER_PERIOD \in Lost + 1 .. Half
          <6> HIDE DEF d
          <6>1. d \in 1 .. n /\ n \in Nat /\ n + TIMER_PERIOD <= Half
            BY <5>2, <5>3, Clock DEF d
          <6> HIDE DEF n
          <6> QED BY <6>1, Clock
        <5>6. lfttim((current_time + d) % M) = Shown(d)
          <6> HIDE DEF d
          <6> QED BY <2>1, <5>5, LeftTimeShown
        <5> QED BY <3>1, <3>4, <4>3, <5>4, <5>6
      <4>4. CASE ~(left[c] <= 0)
        <5>1. tk_ref_cyc(c) = lfttim((current_time + left[c]) % M)
          BY <3>4, <4>1, <4>2, <4>4 DEF tk_ref_cyc
        <5>2. left[c] - TIMER_PERIOD \in Lost + 1 .. Half
          BY <3>2, <4>1, <4>4, Clock
        <5>3. lfttim((current_time + left[c]) % M) = Shown(left[c])
          BY <2>1, <3>2, <5>2, LeftTimeShown
        <5> QED BY <3>1, <4>4, <5>1, <5>3
      <4> QED BY <4>3, <4>4
    <3> QED BY <3>3, <3>4
  <2> HIDE DEF Shown
  <2>5. /\ \A a \in td_lst_alm : alm[a].almstat => td_ref_alm(a).lfttim = Shown(left[a])
        /\ \A c \in td_lst_cyc : left[c] > Lost =>
             td_ref_cyc(c).lfttim = Shown(IF ~cyc[c].cycstat /\ left[c] <= 0
                                 THEN NextDue(left[c], cyc[c].cyctim) ELSE left[c])
    BY <2>3, <2>4 DEF td_lst_alm, td_lst_cyc
  <2> QED BY <2>5 DEF LeftTimeExact, Shown
<1> QED BY <1>1, TimerInvariance, PTL

\* Nothing fires early, or later than the first tick at which it is due.
THEOREM FiringCorrect == Spec => FiresOnTime
<1> DEFINE A == handler = "loop" /\ <<timer_queue, time>>' # <<timer_queue, time>> =>
                  left[Head(timer_queue)] \in 1 - TIMER_PERIOD .. 0
<1>1. IInv /\ [Next]_vars => [A]_vars
  <2> SUFFICES ASSUME IInv, Next, handler = "loop",
                      <<timer_queue, time>>' # <<timer_queue, time>>
               PROVE  left[Head(timer_queue)] \in 1 - TIMER_PERIOD .. 0
    OBVIOUS
  <2>1. Fire
    BY DEF Next, Callable, knl_make_wait, knl_wait_cancel, tk_cre_cyc, tk_del_cyc, tk_sta_cyc,
           tk_stp_cyc, tk_cre_alm, tk_del_alm, tk_sta_alm, tk_stp_alm, Tick, Return
  <2>2. HeadReached /\ timer_queue # << >>
    BY <2>1 DEF Fire, HeadReached
  <2> QED BY <2>2, HeadDue, Clock
<1>2. Spec => [][A]_vars
  BY <1>1, TimerInvariance, PTL DEF Spec
<1> QED BY <1>2 DEF FiresOnTime
=============================================================================
