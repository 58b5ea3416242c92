------------------------ MODULE AgentPipeline_proofs ------------------------
(***************************************************************************)
(* The agent's pipeline loses, repeats and overtakes nothing between the    *)
(* collectors and the storage, for any collectors, names, capacity, number *)
(* of polls and moment of the signal.  The items of a collector are         *)
(* numbered: number m is the reading of name (m % L) + 1 in poll            *)
(* (m \div L) + 1, for L names in a poll.                                   *)
(***************************************************************************)
EXTENDS Agent_proofs, FiniteSetTheorems

(* Quotient and remainder of an integer. *)
LEMMA DivMod ==
  ASSUME NEW L \in Nat \ {0}, NEW x \in Int
  PROVE  x \div L \in Int /\ x % L \in 0 .. L - 1 /\ x = (x \div L) * L + (x % L)
  OBVIOUS

(* The quotient of a natural number is one. *)
LEMMA NatDiv ==
  ASSUME NEW L \in Nat \ {0}, NEW m \in Nat
  PROVE  m \div L \in Nat
<1> DEFINE q == m \div L
           r == m % L
<1>1. q \in Int /\ r \in 0 .. L - 1 /\ m = q * L + r
  BY DivMod
<1> HIDE DEF q, r
<1>2. q < 0 => q * L <= -L
  BY <1>1
<1>3. q * L \in Int
  BY <1>1
<1>4. q \in Nat
  BY <1>1, <1>2, <1>3
<1> QED
  BY <1>4 DEF q

(* Quotient and remainder are the only such pair. *)
LEMMA DivUnique ==
  ASSUME NEW L \in Nat \ {0}, NEW x \in Int, NEW q \in Int, NEW r \in 0 .. L - 1, x = q * L + r
  PROVE  x % L = r /\ x \div L = q
<1> DEFINE p == x \div L
<1>1. x % L = r
  BY ModUnique
<1>2. p \in Int /\ x = p * L + r
  BY <1>1, DivMod
<1> HIDE DEF p
<1>3. p * L = q * L
  <2>1. p * L \in Int /\ q * L \in Int
    BY <1>2
  <2> QED
    BY <1>2, <2>1
<1>4. p = q
  BY <1>2, <1>3
<1> QED
  BY <1>1, <1>4 DEF p

(* From one number to the next either the remainder or the quotient grows. *)
LEMMA DivStep ==
  ASSUME NEW L \in Nat \ {0}, NEW m \in Nat
  PROVE  IF (m % L) + 1 < L
         THEN (m + 1) % L = (m % L) + 1 /\ (m + 1) \div L = m \div L
         ELSE (m % L) + 1 = L /\ (m + 1) % L = 0 /\ (m + 1) \div L = (m \div L) + 1
<1> DEFINE q == m \div L
           r == m % L
<1>1. q \in Int /\ r \in 0 .. L - 1 /\ m = q * L + r
  BY DivMod
<1> HIDE DEF q, r
<1>2. q * L \in Int /\ (q + 1) * L = q * L + L /\ q + 1 \in Int /\ m + 1 \in Int
  BY <1>1
<1>3. CASE r + 1 < L
  <2>1. m + 1 = q * L + (r + 1) /\ r + 1 \in 0 .. L - 1
    BY <1>1, <1>2, <1>3
  <2>2. (m + 1) % L = r + 1 /\ (m + 1) \div L = q
    BY <1>1, <1>2, <2>1, DivUnique
  <2> QED
    BY <1>3, <2>2 DEF q, r
<1>4. CASE ~(r + 1 < L)
  <2>1. r + 1 = L
    BY <1>1, <1>4
  <2>2. PICK p \in Int, x \in Int, z \in 0 .. L - 1 :
            p = q + 1 /\ x = m + 1 /\ z = 0 /\ x = p * L + z
    <3>1. 0 \in 0 .. L - 1 /\ m + 1 = (q + 1) * L + 0
      BY <1>1, <1>2, <2>1
    <3> QED
      BY <1>2, <3>1
  <2>3. x % L = z /\ x \div L = p
    BY <2>2, DivUnique
  <2> QED
    BY <2>1, <2>2, <2>3 DEF q, r
<1> QED
  BY <1>3, <1>4

(* The a-th item of collector k and those before it make up whole rounds of *)
(* its names and the first few of the next round: how often name i is there. *)
Count(k, a, i) ==
    LET rounds == a \div Len(Poll[k])
    IN  IF i <= a % Len(Poll[k]) THEN rounds + 1 ELSE rounds

(* The next item counts for one name, and shows which round it is of. *)
LEMMA CountSteps ==
  ASSUME NEW k \in Collectors, Len(Poll[k]) \in Nat \ {0}, NEW m \in Nat,
         NEW i \in 1 .. Len(Poll[k])
  PROVE  /\ Count(k, m, i) \in Nat
         /\ i = (m % Len(Poll[k])) + 1 =>
                /\ Count(k, m, i) = m \div Len(Poll[k])
                /\ Count(k, m + 1, i) = (m \div Len(Poll[k])) + 1
         /\ i # (m % Len(Poll[k])) + 1 => Count(k, m + 1, i) = Count(k, m, i)
<1> DEFINE L == Len(Poll[k])
<1> HIDE DEF L
<1>1. L \in Nat \ {0} /\ i \in 1 .. L
  BY DEF L
<1>2. PICK q \in Nat, r \in 0 .. L - 1 : q = m \div L /\ r = m % L
  <2>1. m \in Int /\ m \div L \in Nat
    BY <1>1, NatDiv
  <2>2. m % L \in 0 .. L - 1
    BY <1>1, <2>1, DivMod
  <2> QED
    BY <2>1, <2>2
<1>3. IF r + 1 < L THEN (m + 1) % L = r + 1 /\ (m + 1) \div L = q
                   ELSE r + 1 = L /\ (m + 1) % L = 0 /\ (m + 1) \div L = q + 1
  BY <1>1, <1>2, DivStep
<1>4. Count(k, m, i) = IF i <= r THEN q + 1 ELSE q
  BY <1>2 DEF Count, L
<1>5. Count(k, m + 1, i) =
        IF i <= (m + 1) % L THEN ((m + 1) \div L) + 1 ELSE (m + 1) \div L
  BY DEF Count, L
<1>6. /\ Count(k, m, i) \in Nat
      /\ i = r + 1 => Count(k, m, i) = q /\ Count(k, m + 1, i) = q + 1
      /\ i # r + 1 => Count(k, m + 1, i) = Count(k, m, i)
  <2>1. CASE r + 1 < L
    BY <1>1, <1>2, <1>3, <1>4, <1>5, <2>1
  <2>2. CASE ~(r + 1 < L)
    BY <1>1, <1>2, <1>3, <1>4, <1>5, <2>2
  <2> QED
    BY <2>1, <2>2
<1> QED
  BY <1>2, <1>6 DEF L

(* The item number m that collector k ever sent, from 0. *)
ItemAt(k, m) == Reading(Poll[k][(m % Len(Poll[k])) + 1], (m \div Len(Poll[k])) + 1)

(* How many items the collector has sent, the forwarder taken from the     *)
(* channel, and the forwarder passed on to chUpdate.                       *)
Emitted(s, k) == s.polls * Len(Poll[k]) - Len(s.left)
TakenOf(s, k) == Emitted(s, k) - Len(s.ch)
PassedOf(s, k) == TakenOf(s, k) - IF s.hand = NoItem THEN 0 ELSE 1

(* What is left of a poll is the tail of the poll; channel and hand hold the *)
(* items between those passed on and those sent, in their order.           *)
SrcOrder(s, k) ==
    /\ Len(s.left) <= Len(Poll[k])
    /\ \A j \in 1 .. Len(s.left) : s.left[j] = Poll[k][Len(Poll[k]) - Len(s.left) + j]
    /\ PassedOf(s, k) \in Nat
    /\ \A j \in 1 .. Len(s.ch) : s.ch[j] = ItemAt(k, TakenOf(s, k) + j - 1)
    /\ s.hand # NoItem => s.hand = ItemAt(k, PassedOf(s, k))

(* An item by its collector and its number: what it reads does not show them. *)
Mark == [k : Collectors, m : Nat]

(* The marks h of chUpdate hold of every collector's items just those from  *)
(* a[k], the first that is not stored, up to c[k], the first not passed on, *)
(* those of one collector in their order, those of several interleaved.    *)
Queue(a, c, h) ==
    /\ \A k \in Collectors : a[k] <= c[k]
    /\ \A j \in 1 .. Len(h) : a[h[j].k] <= h[j].m /\ h[j].m < c[h[j].k]
    /\ \A i, j \in 1 .. Len(h) : i < j /\ h[i].k = h[j].k => h[i].m < h[j].m
    /\ \A k \in Collectors : \A m \in Nat :
            a[k] <= m /\ m < c[k] => \E j \in 1 .. Len(h) : h[j].k = k /\ h[j].m = m

(* A forwarder that passes its next item on keeps the queue. *)
LEMMA PushQueue ==
  ASSUME NEW a \in [Collectors -> Nat], NEW c \in [Collectors -> Nat], NEW h \in Seq(Mark),
         Queue(a, c, h), NEW k \in Collectors
  PROVE  Queue(a, [c EXCEPT ![k] = @ + 1], Append(h, [k |-> k, m |-> c[k]]))
<1> DEFINE x == [k |-> k, m |-> c[k]]
           g == Append(h, x)
           d == [c EXCEPT ![k] = @ + 1]
<1>1. x \in Mark /\ x.k = k /\ x.m = c[k]
  BY DEF Mark
<1> HIDE DEF x
<1>2. /\ Len(h) \in Nat /\ Len(g) = Len(h) + 1
      /\ \A j \in 1 .. Len(h) : g[j] = h[j] /\ h[j] \in Mark
      /\ g[Len(h) + 1] = x
  BY <1>1
<1>3. \A l \in Collectors : d[l] = IF l = k THEN c[l] + 1 ELSE c[l]
  OBVIOUS
<1>4. \A l \in Collectors : c[l] \in Nat /\ a[l] \in Nat
  OBVIOUS
<1>5. \A j \in 1 .. Len(h) : h[j].k \in Collectors /\ h[j].m \in Nat
  BY <1>2 DEF Mark
<1> HIDE DEF g, d
<1>6. \A l \in Collectors : a[l] <= d[l]
  BY <1>3, <1>4 DEF Queue
<1>7. \A j \in 1 .. Len(g) : a[g[j].k] <= g[j].m /\ g[j].m < d[g[j].k]
  <2> TAKE j \in 1 .. Len(g)
  <2>1. CASE j = Len(h) + 1
    <3>1. a[k] <= c[k] /\ d[k] = c[k] + 1
      BY <1>3 DEF Queue
    <3>2. g[j].k = k /\ g[j].m = c[k]
      BY <1>1, <1>2, <2>1
    <3> QED
      BY <1>4, <3>1, <3>2
  <2>2. CASE j \in 1 .. Len(h)
    <3>1. a[h[j].k] <= h[j].m /\ h[j].m < c[h[j].k]
      BY <2>2 DEF Queue
    <3>2. g[j] = h[j] /\ h[j].k \in Collectors /\ h[j].m \in Nat
      BY <1>2, <1>5, <2>2
    <3>3. c[h[j].k] \in Nat /\ (d[h[j].k] = c[h[j].k] \/ d[h[j].k] = c[h[j].k] + 1)
      BY <1>3, <1>4, <3>2
    <3> QED
      BY <3>1, <3>2, <3>3
  <2> QED
    BY <1>2, <2>1, <2>2
<1>8. \A i, j \in 1 .. Len(g) : i < j /\ g[i].k = g[j].k => g[i].m < g[j].m
  <2> TAKE i, j \in 1 .. Len(g)
  <2> HAVE i < j /\ g[i].k = g[j].k
  <2>1. i \in 1 .. Len(h) /\ g[i] = h[i]
    BY <1>2
  <2>2. CASE j = Len(h) + 1
    <3>1. a[h[i].k] <= h[i].m /\ h[i].m < c[h[i].k]
      BY <2>1 DEF Queue
    <3> QED
      BY <1>1, <1>2, <2>1, <2>2, <3>1
  <2>3. CASE j \in 1 .. Len(h)
    BY <1>2, <2>1, <2>3 DEF Queue
  <2> QED
    BY <1>2, <2>2, <2>3
<1>9. ASSUME NEW l \in Collectors, NEW m \in Nat, a[l] <= m, m < d[l]
      PROVE  \E j \in 1 .. Len(g) : g[j].k = l /\ g[j].m = m
  <2>1. CASE m < c[l]
    <3>1. PICK j \in 1 .. Len(h) : h[j].k = l /\ h[j].m = m
      BY <1>9, <2>1 DEF Queue
    <3>2. j \in 1 .. Len(g) /\ g[j] = h[j]
      BY <1>2
    <3> QED
      BY <3>1, <3>2
  <2>2. CASE ~(m < c[l])
    <3>1. l = k /\ m = c[k]
      BY <1>3, <1>4, <1>9, <2>2
    <3>2. Len(h) + 1 \in 1 .. Len(g)
      BY <1>2
    <3> QED
      BY <1>1, <1>2, <3>1, <3>2
  <2> QED
    BY <2>1, <2>2
<1> QED
  BY <1>6, <1>7, <1>8, <1>9 DEF Queue, g, d, x

(* What is first in the queue is the first of its collector not stored. *)
LEMMA PopQueue ==
  ASSUME NEW a \in [Collectors -> Nat], NEW c \in [Collectors -> Nat], NEW h \in Seq(Mark),
         Queue(a, c, h), h # <<>>
  PROVE  /\ h[1].k \in Collectors /\ a[h[1].k] = h[1].m /\ h[1].m < c[h[1].k]
         /\ Queue([a EXCEPT ![h[1].k] = @ + 1], c, Tail(h))
<1> DEFINE k == h[1].k
           g == Tail(h)
           b == [a EXCEPT ![k] = @ + 1]
<1>1. /\ Len(h) \in Nat /\ 1 \in 1 .. Len(h) /\ Len(g) = Len(h) - 1
      /\ \A j \in 1 .. Len(g) : g[j] = h[j + 1] /\ j + 1 \in 1 .. Len(h)
      /\ \A j \in 1 .. Len(h) : h[j] \in Mark
  <2>1. Len(h) \in Nat /\ Len(h) # 0
    OBVIOUS
  <2> QED
    BY <2>1
<1>2. \A j \in 1 .. Len(h) : h[j].k \in Collectors /\ h[j].m \in Nat
  BY <1>1 DEF Mark
<1>3. k \in Collectors /\ a[k] \in Nat /\ c[k] \in Nat
  BY <1>1, <1>2
<1>4. a[k] <= h[1].m /\ h[1].m < c[k]
  BY <1>1 DEF Queue
<1>5. a[k] = h[1].m
  <2>1. PICK j \in 1 .. Len(h) : h[j].k = k /\ h[j].m = a[k]
    <3>1. a[k] < c[k] /\ a[k] <= a[k]
      BY <1>1, <1>2, <1>3, <1>4
    <3> HIDE DEF k
    <3> QED
      BY <1>3, <3>1 DEF Queue
  <2>2. CASE j = 1
    BY <2>1, <2>2
  <2>3. CASE 1 < j
    <3>1. h[1].m < h[j].m
      BY <1>1, <2>1, <2>3 DEF Queue
    <3>2. h[1].m \in Nat /\ h[1].m < a[k] /\ a[k] <= h[1].m /\ a[k] \in Nat
      BY <1>1, <1>2, <1>3, <1>4, <2>1, <3>1
    <3> HIDE DEF k
    <3> QED
      BY <3>2
  <2> QED
    BY <1>1, <2>2, <2>3
<1>6. \A l \in Collectors : b[l] = (IF l = k THEN a[l] + 1 ELSE a[l]) /\ a[l] \in Nat /\ c[l] \in Nat
  OBVIOUS
<1> HIDE DEF k, g, b
<1>7. \A l \in Collectors : b[l] <= c[l]
  BY <1>2, <1>1, <1>3, <1>4, <1>5, <1>6 DEF Queue
<1>8. \A j \in 1 .. Len(g) : b[g[j].k] <= g[j].m /\ g[j].m < c[g[j].k]
  <2> TAKE j \in 1 .. Len(g)
  <2>1. g[j] = h[j + 1] /\ j + 1 \in 1 .. Len(h) /\ 1 < j + 1
    BY <1>1
  <2>2. a[g[j].k] <= g[j].m /\ g[j].m < c[g[j].k] /\ g[j].k \in Collectors /\ g[j].m \in Nat
    BY <1>2, <2>1 DEF Queue
  <2>3. g[j].k = k => h[1].m < g[j].m
    BY <1>1, <2>1 DEF Queue, k
  <2> QED
    BY <1>3, <1>5, <1>6, <2>2, <2>3
<1>9. \A i, j \in 1 .. Len(g) : i < j /\ g[i].k = g[j].k => g[i].m < g[j].m
  <2> TAKE i, j \in 1 .. Len(g)
  <2>1. /\ g[i] = h[i + 1] /\ i + 1 \in 1 .. Len(h)
        /\ g[j] = h[j + 1] /\ j + 1 \in 1 .. Len(h) /\ (i < j => i + 1 < j + 1)
    BY <1>1
  <2> QED
    BY <2>1 DEF Queue
<1>10. ASSUME NEW l \in Collectors, NEW m \in Nat, b[l] <= m, m < c[l]
       PROVE  \E j \in 1 .. Len(g) : g[j].k = l /\ g[j].m = m
  <2>1. a[l] <= m /\ (l = k => m # a[k])
    BY <1>3, <1>6, <1>10
  <2>2. PICK j \in 1 .. Len(h) : h[j].k = l /\ h[j].m = m
    BY <1>10, <2>1 DEF Queue
  <2>3. j # 1
    BY <1>5, <2>1, <2>2 DEF k
  <2>4. j - 1 \in 1 .. Len(g) /\ g[j - 1] = h[j]
    <3>1. j - 1 \in 1 .. Len(g)
      BY <1>1, <2>3
    <3>2. (j - 1) + 1 = j
      OBVIOUS
    <3> QED
      BY <1>1, <3>1, <3>2
  <2> QED
    BY <2>2, <2>4
<1> QED
  BY <1>3, <1>4, <1>5, <1>7, <1>8, <1>9, <1>10 DEF Queue, k, g, b

(* The counters of a source are integers, and bounded by the polls. *)
LEMMA SourceBounds ==
  ASSUME NEW k \in Collectors, NEW s, SrcTypes(s, k)
  PROVE  /\ s.polls \in Nat /\ Len(Poll[k]) \in Nat /\ s.polls * Len(Poll[k]) \in Nat
         /\ Len(s.left) \in Nat /\ Len(s.ch) \in Nat
         /\ Emitted(s, k) \in Int /\ TakenOf(s, k) \in Int
         /\ PassedOf(s, k) = TakenOf(s, k) - (IF s.hand = NoItem THEN 0 ELSE 1)
         /\ PassedOf(s, k) \in Int
         /\ TakenOf(s, k) <= s.polls * Len(Poll[k])
         /\ PassedOf(s, k) <= s.polls * Len(Poll[k])
<1>1. s.polls \in Nat /\ Len(s.left) \in Nat /\ Len(s.ch) \in Nat
  BY MaxPollsAssumption DEF SrcTypes
<1>2. Len(Poll[k]) \in Nat
  BY PollAssumption
<1> DEFINE e == s.polls * Len(Poll[k])
<1>3. e \in Nat
  BY <1>1, <1>2
<1> HIDE DEF e
<1>4. Emitted(s, k) = e - Len(s.left)
  BY DEF Emitted, e
<1>5. TakenOf(s, k) = Emitted(s, k) - Len(s.ch)
  BY DEF TakenOf
<1>6. PassedOf(s, k) = TakenOf(s, k) - (IF s.hand = NoItem THEN 0 ELSE 1)
  BY DEF PassedOf
<1>7. /\ Emitted(s, k) \in Int /\ TakenOf(s, k) \in Int /\ PassedOf(s, k) \in Int
      /\ TakenOf(s, k) <= e /\ PassedOf(s, k) <= e
  <2>1. Emitted(s, k) \in Int /\ Emitted(s, k) <= e
    BY <1>1, <1>3, <1>4
  <2>2. TakenOf(s, k) \in Int /\ TakenOf(s, k) <= e
    BY <1>1, <1>3, <1>5, <2>1
  <2> QED
    BY <1>3, <1>6, <2>1, <2>2
<1> QED
  BY <1>1, <1>2, <1>3, <1>6, <1>7 DEF e

(* A new poll adds to what is to be sent, and to nothing else. *)
LEMMA TickOrder ==
  ASSUME NEW k \in Collectors, NEW s, NEW t, SrcTypes(s, k), SrcTypes(t, k), SrcOrder(s, k),
         s.left = <<>>, t.polls = s.polls + 1, t.left = Poll[k], t.ch = s.ch, t.hand = s.hand
  PROVE  SrcOrder(t, k) /\ PassedOf(t, k) = PassedOf(s, k)
<1> DEFINE L == Len(Poll[k])
           e == s.polls * L
<1>1. L \in Nat /\ e \in Nat /\ t.polls * L = e + L /\ Len(s.left) = 0
  BY SourceBounds
<1> HIDE DEF e
<1>2. Emitted(t, k) = Emitted(s, k)
  BY <1>1 DEF Emitted, e
<1>3. TakenOf(t, k) = TakenOf(s, k) /\ PassedOf(t, k) = PassedOf(s, k)
  BY <1>2 DEF TakenOf, PassedOf
<1>4. \A j \in 1 .. Len(t.left) : t.left[j] = Poll[k][Len(Poll[k]) - Len(t.left) + j]
  BY <1>1
<1> QED
  BY <1>1, <1>3, <1>4 DEF SrcOrder

(* Distributivity, which the arithmetic of the next lemma needs. *)
LEMMA OneLess ==
  ASSUME NEW x \in Int, NEW y \in Int
  PROVE  x - 1 \in Int /\ (x - 1) * y = x * y - y
  OBVIOUS

(* The name sent is the next one: its number is the number of items sent. *)
LEMMA EmitOrder ==
  ASSUME NEW k \in Collectors, NEW s, NEW t, SrcTypes(s, k), SrcTypes(t, k), SrcOrder(s, k),
         s.left # <<>>, t.polls = s.polls, t.left = Tail(s.left),
         t.ch = Append(s.ch, Reading(Head(s.left), s.polls)), t.hand = s.hand
  PROVE  SrcOrder(t, k) /\ PassedOf(t, k) = PassedOf(s, k)
<1> DEFINE L == Len(Poll[k])
           e == s.polls * L
           v == Len(s.left)
           r == Reading(Head(s.left), s.polls)
<1>1. /\ L \in Nat /\ e \in Nat /\ v \in Nat /\ v # 0 /\ v <= L
      /\ s.polls \in Nat /\ s.polls > 0 /\ Len(s.ch) \in Nat
      /\ s.left \in Seq(Names) /\ s.ch \in Seq(Polled)
  BY SourceBounds DEF SrcOrder, SrcTypes
<1>2. /\ Len(t.left) = v - 1 /\ \A j \in 1 .. v - 1 : t.left[j] = s.left[j + 1]
      /\ Head(s.left) = s.left[1]
  BY <1>1
<1>3. /\ Len(t.ch) = Len(s.ch) + 1 /\ t.ch[Len(s.ch) + 1] = r
      /\ \A j \in 1 .. Len(s.ch) : t.ch[j] = s.ch[j]
  <2> HIDE DEF r
  <2> QED
    BY <1>1 DEF r
<1>11. e \in Int /\ v \in Int /\ Len(s.ch) \in Int
  BY <1>1
<1>4. Emitted(s, k) = e - v /\ Emitted(t, k) = (e - v) + 1
  <2> HIDE DEF e, v
  <2> QED
    BY <1>1, <1>2 DEF Emitted, e, v
<1>5. TakenOf(s, k) = (e - v) - Len(s.ch) /\ TakenOf(t, k) = TakenOf(s, k)
  <2>1. TakenOf(s, k) = Emitted(s, k) - Len(s.ch) /\ TakenOf(t, k) = Emitted(t, k) - Len(t.ch)
    BY DEF TakenOf
  <2> DEFINE f == e - v
             c == Len(s.ch)
             d == Len(t.ch)
  <2>2. d = c + 1 /\ c \in Int /\ f \in Int
    BY <1>3, <1>11
  <2>3. TakenOf(s, k) = f - c /\ TakenOf(t, k) = (f + 1) - d
    BY <1>4, <2>1
  <2> HIDE DEF c, d, f
  <2>4. f - c = (f + 1) - d
    BY <2>2
  <2> QED
    BY <2>3, <2>4 DEF f, c
<1>6. PassedOf(t, k) = PassedOf(s, k)
  BY <1>5 DEF PassedOf
<1>7. r = ItemAt(k, e - v)
  <2> DEFINE p == s.polls - 1
  <2>1. /\ p \in Int /\ L - v \in 0 .. L - 1 /\ L \in Nat \ {0} /\ e - v \in Int
        /\ e - v = p * L + (L - v)
    <3>1. p * L = e - L /\ p \in Int
      <4>1. s.polls \in Int /\ L \in Int
        BY <1>1
      <4> HIDE DEF L
      <4> QED
        BY <4>1, OneLess
    <3>2. L \in Nat /\ v \in Nat /\ v # 0 /\ v <= L /\ e \in Nat
      BY <1>1
    <3> HIDE DEF e, v, L, p
    <3>3. L - v \in 0 .. L - 1 /\ L # 0
      BY <3>2
    <3> QED
      BY <3>1, <3>2, <3>3
  <2>2. (e - v) % L = L - v /\ (e - v) \div L = p
    <3> HIDE DEF e, v, L, p
    <3> QED
      BY <2>1, DivUnique
  <2>3. p + 1 = s.polls
    BY <1>1
  <2>4. s.left[1] = Poll[k][(L - v) + 1]
    <3>1. 1 \in 1 .. v
      BY <1>1
    <3> QED
      BY <3>1 DEF SrcOrder
  <2> HIDE DEF p, e, v
  <2> QED
    BY <1>2, <2>2, <2>3, <2>4 DEF ItemAt
<1>8. \A j \in 1 .. Len(t.ch) : t.ch[j] = ItemAt(k, TakenOf(t, k) + j - 1)
  <2> TAKE j \in 1 .. Len(t.ch)
  <2>1. CASE j \in 1 .. Len(s.ch)
    BY <1>3, <1>5, <2>1 DEF SrcOrder
  <2>2. CASE j = Len(s.ch) + 1
    <3>1. TakenOf(t, k) + j - 1 = e - v
      <4> HIDE DEF e, v
      <4> QED
        BY <1>1, <1>5, <2>2
    <3> HIDE DEF e, v, r
    <3> QED
      BY <1>3, <1>7, <2>2, <3>1
  <2> QED
    BY <1>1, <1>3, <2>1, <2>2
<1>9. \A j \in 1 .. Len(t.left) : t.left[j] = Poll[k][Len(Poll[k]) - Len(t.left) + j]
  <2> TAKE j \in 1 .. Len(t.left)
  <2>1. j \in 1 .. v - 1 /\ L \in Int /\ v \in Int /\ Len(t.left) = v - 1
    BY <1>1, <1>2
  <2>2. j + 1 \in 1 .. v /\ (L - v) + (j + 1) = (L - Len(t.left)) + j
    <3> DEFINE w == Len(t.left)
    <3>1. w = v - 1
      BY <2>1
    <3> HIDE DEF v, L, w
    <3>2. (L - v) + (j + 1) = (L - w) + j
      BY <2>1, <3>1
    <3>3. j + 1 \in 1 .. v
      BY <2>1
    <3> QED
      BY <3>2, <3>3 DEF w
  <2>3. t.left[j] = s.left[j + 1]
    BY <1>2, <2>1
  <2> QED
    BY <2>2, <2>3 DEF SrcOrder
<1>10. Len(t.left) <= L
  BY <1>1, <1>2
<1> QED
  BY <1>6, <1>8, <1>9, <1>10 DEF SrcOrder

(* The item taken is the first of the channel, behind those passed on. *)
LEMMA TakeOrder ==
  ASSUME NEW k \in Collectors, NEW s, NEW t, SrcTypes(s, k), SrcTypes(t, k), SrcOrder(s, k),
         s.hand = NoItem, s.ch # <<>>, t.polls = s.polls, t.left = s.left,
         t.ch = Tail(s.ch), t.hand = Head(s.ch)
  PROVE  SrcOrder(t, k) /\ PassedOf(t, k) = PassedOf(s, k)
<1>1. s.ch \in Seq(Polled) /\ Len(s.ch) \in Nat /\ Len(s.ch) # 0 /\ TakenOf(s, k) \in Int
  BY SourceBounds DEF SrcTypes
<1>2. /\ Head(s.ch) = s.ch[1] /\ Head(s.ch) \in Polled /\ Len(t.ch) = Len(s.ch) - 1
      /\ \A j \in 1 .. Len(t.ch) : t.ch[j] = s.ch[j + 1] /\ j + 1 \in 1 .. Len(s.ch)
  BY <1>1
<1>3. t.hand # NoItem
  BY <1>2, NoItemAssumption DEF Polled
<1>4. Emitted(t, k) = Emitted(s, k) /\ Emitted(s, k) \in Int
  BY SourceBounds DEF Emitted
<1>5. TakenOf(t, k) = TakenOf(s, k) + 1
  BY <1>1, <1>2, <1>4 DEF TakenOf
<1>6. PassedOf(s, k) = TakenOf(s, k) /\ PassedOf(t, k) = PassedOf(s, k)
  BY <1>1, <1>3, <1>5 DEF PassedOf
<1>7. t.hand = ItemAt(k, PassedOf(t, k))
  <2>1. s.ch[1] = ItemAt(k, TakenOf(s, k) + 1 - 1)
    BY <1>1 DEF SrcOrder
  <2> QED
    BY <1>1, <1>2, <1>6, <2>1
<1>8. \A j \in 1 .. Len(t.ch) : t.ch[j] = ItemAt(k, TakenOf(t, k) + j - 1)
  <2> TAKE j \in 1 .. Len(t.ch)
  <2>1. t.ch[j] = ItemAt(k, TakenOf(s, k) + (j + 1) - 1)
    BY <1>2 DEF SrcOrder
  <2>2. TakenOf(s, k) + (j + 1) - 1 = TakenOf(t, k) + j - 1
    BY <1>1, <1>5
  <2> QED
    BY <2>1, <2>2
<1> QED
  BY <1>6, <1>7, <1>8 DEF SrcOrder

(* The item passed on is the next one. *)
LEMMA PassOrder ==
  ASSUME NEW k \in Collectors, NEW s, NEW t, SrcTypes(s, k), SrcTypes(t, k), SrcOrder(s, k),
         s.hand # NoItem, t.polls = s.polls, t.left = s.left, t.ch = s.ch, t.hand = NoItem
  PROVE  /\ SrcOrder(t, k) /\ PassedOf(t, k) = PassedOf(s, k) + 1
         /\ s.hand = ItemAt(k, PassedOf(s, k))
<1>1. TakenOf(t, k) = TakenOf(s, k) /\ TakenOf(s, k) \in Int
  BY SourceBounds DEF TakenOf, Emitted
<1>2. PassedOf(t, k) = PassedOf(s, k) + 1 /\ PassedOf(t, k) \in Nat
  BY <1>1 DEF PassedOf, SrcOrder
<1> QED
  BY <1>1, <1>2 DEF SrcOrder

(* Per collector, the items passed on; whether the updater has one in hand. *)
Passed == [k \in Collectors |-> PassedOf(src[k], k)]

Held == IF hand = NoItem THEN 0 ELSE 1

(* The updater's hand and chUpdate hold the items with the marks h. *)
Waiting(h) ==
    /\ Len(h) = Len(upd) + Held
    /\ hand # NoItem => hand = ItemAt(h[1].k, h[1].m)
    /\ \A j \in 1 .. Len(upd) : upd[j] = ItemAt(h[j + Held].k, h[j + Held].m)

(* What the storage holds of name i when it has a items of collector k. *)
StoredOf(k, a, i) ==
    IF Count(k, a, i) = 0 THEN Absent
    ELSE [type |-> TypeOf(Poll[k][i]), val |-> Count(k, a, i)]

(* The storage is what the first a[k] items of each collector make it. *)
StoreOrder(a) ==
    \A k \in Collectors : \A i \in 1 .. Len(Poll[k]) :
        store[Poll[k][i]] = StoredOf(k, a[k], i)

(* Between what is stored and what was sent, every item of every collector *)
(* is in its place.                                                        *)
OrderInv ==
    /\ \A k \in Collectors : SrcOrder(src[k], k)
    /\ \E a \in [Collectors -> Nat], h \in Seq(Mark) :
            Queue(a, Passed, h) /\ Waiting(h) /\ StoreOrder(a)

(* The items passed on are numbers. *)
LEMMA PassedType ==
  ASSUME \A k \in Collectors : SrcOrder(src[k], k)
  PROVE  Passed \in [Collectors -> Nat] /\ \A k \in Collectors : Passed[k] = PassedOf(src[k], k)
  BY DEF SrcOrder, Passed

(* Of no items there is no reading. *)
LEMMA CountNone ==
  ASSUME NEW k \in Collectors, Len(Poll[k]) \in Nat \ {0}, NEW i \in 1 .. Len(Poll[k])
  PROVE  Count(k, 0, i) = 0
<1> DEFINE L == Len(Poll[k])
<1> HIDE DEF L
<1>1. PICK q \in Int, z \in 0 .. L - 1 : q = 0 /\ z = 0
  BY DEF L
<1>2. L \in Nat \ {0}
  BY DEF L
<1>3. z = q * L + z /\ z \in Int
  BY <1>1, <1>2
<1>4. z % L = z /\ z \div L = q
  BY <1>2, <1>3, DivUnique
<1>5. 0 % L = 0 /\ 0 \div L = 0
  BY <1>1, <1>4
<1>6. Count(k, 0, i) = IF i <= 0 % L THEN (0 \div L) + 1 ELSE 0 \div L
  BY DEF Count, L
<1>7. i \in 1 .. L
  BY DEF L
<1> QED
  BY <1>2, <1>5, <1>6, <1>7

(* Nothing is sent, nothing waits, nothing is stored. *)
LEMMA InitOrder == Init => OrderInv
<1> SUFFICES ASSUME Init PROVE OrderInv
  OBVIOUS
<1> DEFINE a == [k \in Collectors |-> 0]
           h == <<>>
<1>1. ASSUME NEW k \in Collectors
      PROVE  SrcOrder(src[k], k) /\ PassedOf(src[k], k) = 0
  <2>1. src[k].polls = 0 /\ Len(src[k].left) = 0 /\ Len(src[k].ch) = 0 /\ src[k].hand = NoItem
    BY DEF Init
  <2>2. Len(Poll[k]) \in Nat
    BY PollAssumption
  <2>3. PassedOf(src[k], k) = 0
    BY <2>1, <2>2 DEF PassedOf, TakenOf, Emitted
  <2> QED
    BY <2>1, <2>2, <2>3 DEF SrcOrder
<1>2. a \in [Collectors -> Nat] /\ h \in Seq(Mark) /\ Len(h) = 0
  OBVIOUS
<1>3. \A k \in Collectors : a[k] = 0 /\ Passed[k] = 0
  BY <1>1 DEF Passed
<1>4. Len(upd) = 0 /\ Held = 0 /\ hand = NoItem
  BY DEF Init, Held
<1>5. StoreOrder(a)
  <2> SUFFICES ASSUME NEW k \in Collectors, NEW i \in 1 .. Len(Poll[k])
               PROVE  store[Poll[k][i]] = StoredOf(k, a[k], i)
    BY DEF StoreOrder
  <2>1. Poll[k][i] \in Names /\ Len(Poll[k]) \in Nat \ {0}
    BY PollAssumption
  <2>4. Count(k, 0, i) = 0
    BY <2>1, CountNone
  <2>5. store[Poll[k][i]] = Absent
    BY <2>1 DEF Init
  <2> QED
    BY <1>3, <2>4, <2>5 DEF StoredOf
<1> HIDE DEF a, h
<1>6. Queue(a, Passed, h)
  BY <1>2, <1>3 DEF Queue
<1>7. Waiting(h)
  BY <1>2, <1>4 DEF Waiting
<1> QED
  BY <1>1, <1>2, <1>5, <1>6, <1>7 DEF OrderInv

(* A step that neither passes on nor receives nor stores keeps the order. *)
LEMMA SameOrder ==
  ASSUME OrderInv, \A k \in Collectors : SrcOrder(src'[k], k) /\ PassedOf(src'[k], k) = PassedOf(src[k], k),
         UNCHANGED <<upd, hand, store>>
  PROVE  OrderInv'
<1>1. Passed' = Passed
  BY DEF Passed
<1>2. \A h : Waiting(h) => Waiting(h)'
  BY DEF Waiting, Held
<1>3. \A a : StoreOrder(a) => StoreOrder(a)'
  BY DEF StoreOrder
<1>4. PICK a \in [Collectors -> Nat], h \in Seq(Mark) :
        Queue(a, Passed, h) /\ Waiting(h) /\ StoreOrder(a)
  BY DEF OrderInv
<1>5. Queue(a, Passed', h) /\ Waiting(h)' /\ StoreOrder(a)'
  BY <1>1, <1>2, <1>3, <1>4
<1> QED
  BY <1>5 DEF OrderInv

(* The same for a step of one source. *)
LEMMA SourceOrder ==
  ASSUME OrderInv, AgentTypes, NEW k \in Collectors, NEW s, src' = [src EXCEPT ![k] = s],
         SrcOrder(s, k), PassedOf(s, k) = PassedOf(src[k], k), UNCHANGED <<upd, hand, store>>
  PROVE  OrderInv'
<1>1. \A l \in Collectors : src'[l] = IF l = k THEN s ELSE src[l]
  BY DEF AgentTypes, CloseInv
<1>2. \A l \in Collectors : SrcOrder(src[l], l)
  BY DEF OrderInv
<1>3. \A l \in Collectors : SrcOrder(src'[l], l) /\ PassedOf(src'[l], l) = PassedOf(src[l], l)
  BY <1>1, <1>2
<1> QED
  BY <1>3, SameOrder

(* The steps before chUpdate. *)
LEMMA CollectorOrder ==
  ASSUME OrderInv, AgentTypes, AgentTypes', NEW k \in Collectors,
         Tick(k) \/ Emit(k) \/ Stop(k) \/ Take(k) \/ Finish(k)
  PROVE  OrderInv'
<1>1. src[k] \in Source /\ SrcTypes(src[k], k) /\ SrcOrder(src[k], k)
  BY DEF AgentTypes, PipeTypes, CloseInv, OrderInv
<1>2. SrcTypes(src'[k], k)
  BY DEF AgentTypes, PipeTypes
<1>3. src \in [Collectors -> Source]
  BY DEF AgentTypes, CloseInv
<1>4. CASE Tick(k)
  <2> DEFINE s == [src[k] EXCEPT !.polls = @ + 1, !.left = Poll[k]]
  <2>1. src' = [src EXCEPT ![k] = s] /\ UNCHANGED <<hand, store, upd>> /\ src[k].left = <<>>
    BY <1>4 DEF Tick, Selecting
  <2>2. /\ s.polls = src[k].polls + 1 /\ s.left = Poll[k] /\ s.ch = src[k].ch
        /\ s.hand = src[k].hand
    BY <1>1 DEF Source
  <2> HIDE DEF s
  <2>3. SrcTypes(s, k)
    BY <1>2, <1>3, <2>1
  <2>4. SrcOrder(s, k) /\ PassedOf(s, k) = PassedOf(src[k], k)
    BY <1>1, <2>1, <2>2, <2>3, TickOrder
  <2> QED
    BY <2>1, <2>4, SourceOrder
<1>5. CASE Emit(k)
  <2> DEFINE r == Reading(Head(src[k].left), src[k].polls)
             s == [src[k] EXCEPT !.left = Tail(@), !.ch = Append(@, r)]
  <2>1. src' = [src EXCEPT ![k] = s] /\ UNCHANGED <<hand, store, upd>> /\ src[k].left # <<>>
    BY <1>5 DEF Emit
  <2>2. /\ s.polls = src[k].polls /\ s.left = Tail(src[k].left) /\ s.ch = Append(src[k].ch, r)
        /\ s.hand = src[k].hand
    BY <1>1 DEF Source
  <2> HIDE DEF s
  <2>3. SrcTypes(s, k)
    BY <1>2, <1>3, <2>1
  <2>4. SrcOrder(s, k) /\ PassedOf(s, k) = PassedOf(src[k], k)
    BY <1>1, <2>1, <2>2, <2>3, EmitOrder
  <2> QED
    BY <2>1, <2>4, SourceOrder
<1>6. CASE Take(k)
  <2> DEFINE s == [src[k] EXCEPT !.hand = Head(src[k].ch), !.ch = Tail(@)]
  <2>1. /\ src' = [src EXCEPT ![k] = s] /\ UNCHANGED <<hand, store, upd>>
        /\ src[k].hand = NoItem /\ src[k].ch # <<>>
    BY <1>6 DEF Take
  <2>2. /\ s.polls = src[k].polls /\ s.left = src[k].left /\ s.ch = Tail(src[k].ch)
        /\ s.hand = Head(src[k].ch)
    BY <1>1 DEF Source
  <2> HIDE DEF s
  <2>3. SrcTypes(s, k)
    BY <1>2, <1>3, <2>1
  <2>4. SrcOrder(s, k) /\ PassedOf(s, k) = PassedOf(src[k], k)
    BY <1>1, <2>1, <2>2, <2>3, TakeOrder
  <2> QED
    BY <2>1, <2>4, SourceOrder
<1>7. CASE Stop(k) \/ Finish(k)
  <2>1. PICK s \in Source :
            /\ src' = [src EXCEPT ![k] = s] /\ UNCHANGED <<hand, store, upd>>
            /\ s.polls = src[k].polls /\ s.left = src[k].left /\ s.ch = src[k].ch
            /\ s.hand = src[k].hand
    <3>1. CASE Stop(k)
      <4> DEFINE s == [src[k] EXCEPT !.closed = TRUE]
      <4>1. s \in Source /\ s.polls = src[k].polls /\ s.left = src[k].left
            /\ s.ch = src[k].ch /\ s.hand = src[k].hand
        BY <1>1 DEF Source
      <4>2. src' = [src EXCEPT ![k] = s] /\ UNCHANGED <<hand, store, upd>>
        BY <3>1 DEF Stop
      <4> QED
        BY <4>1, <4>2
    <3>2. CASE Finish(k)
      <4> DEFINE s == [src[k] EXCEPT !.done = TRUE]
      <4>1. s \in Source /\ s.polls = src[k].polls /\ s.left = src[k].left
            /\ s.ch = src[k].ch /\ s.hand = src[k].hand
        BY <1>1 DEF Source
      <4>2. src' = [src EXCEPT ![k] = s] /\ UNCHANGED <<hand, store, upd>>
        BY <3>2 DEF Finish
      <4> QED
        BY <4>1, <4>2
    <3> QED
      BY <1>7, <3>1, <3>2
  <2>2. PassedOf(s, k) = PassedOf(src[k], k) /\ TakenOf(s, k) = TakenOf(src[k], k)
    BY <2>1 DEF PassedOf, TakenOf, Emitted
  <2>3. SrcOrder(s, k)
    BY <1>1, <2>1, <2>2 DEF SrcOrder
  <2> QED
    BY <2>1, <2>2, <2>3, SourceOrder
<1> QED
  BY <1>4, <1>5, <1>6, <1>7

(* Passing on appends the next mark of the collector. *)
LEMMA PassKeepsOrder ==
  ASSUME OrderInv, AgentTypes, AgentTypes', NEW k \in Collectors, Pass(k)
  PROVE  OrderInv'
<1> DEFINE s == [src[k] EXCEPT !.hand = NoItem]
<1>1. src[k] \in Source /\ SrcTypes(src[k], k) /\ SrcOrder(src[k], k) /\ Emptied(src[k])
  BY DEF AgentTypes, PipeTypes, CloseInv, OrderInv
<1>2. ~updClosed /\ src \in [Collectors -> Source]
  BY <1>1 DEF AgentTypes, CloseInv, Emptied, Pass
<1>3. /\ src' = [src EXCEPT ![k] = s] /\ UNCHANGED <<hand, store>>
      /\ upd' = Append(upd, src[k].hand) /\ src[k].hand # NoItem
  BY <1>2 DEF Pass
<1>4. s.polls = src[k].polls /\ s.left = src[k].left /\ s.ch = src[k].ch /\ s.hand = NoItem
  BY <1>1 DEF Source
<1> HIDE DEF s
<1>5. src'[k] = s /\ \A l \in Collectors : l # k => src'[l] = src[l]
  BY <1>2, <1>3
<1>6. SrcTypes(s, k)
  BY <1>5 DEF AgentTypes, PipeTypes
<1>7. /\ SrcOrder(s, k) /\ PassedOf(s, k) = PassedOf(src[k], k) + 1
      /\ src[k].hand = ItemAt(k, PassedOf(src[k], k))
  BY <1>1, <1>3, <1>4, <1>6, PassOrder
<1>8. \A l \in Collectors : SrcOrder(src[l], l)
  BY DEF OrderInv
<1>9. \A l \in Collectors : SrcOrder(src'[l], l)
  BY <1>5, <1>7, <1>8
<1>10. Passed \in [Collectors -> Nat] /\ Passed[k] = PassedOf(src[k], k)
  BY <1>8, PassedType
<1>11. Passed' = [Passed EXCEPT ![k] = @ + 1]
  BY <1>5, <1>7, <1>10 DEF Passed
<1>12. PICK a \in [Collectors -> Nat], h \in Seq(Mark) :
        Queue(a, Passed, h) /\ Waiting(h) /\ StoreOrder(a)
  BY DEF OrderInv
<1> DEFINE x == [k |-> k, m |-> Passed[k]]
<1>13. x \in Mark /\ x.k = k /\ x.m = PassedOf(src[k], k)
  BY <1>10 DEF Mark
<1>17. PICK g \in Seq(Mark) : g = Append(h, x)
  <2> HIDE DEF x
  <2>1. Append(h, x) \in Seq(Mark)
    BY <1>12, <1>13
  <2> QED
    BY <2>1
<1>14. Queue(a, Passed', g)
  BY <1>10, <1>11, <1>12, <1>17, PushQueue
<1>15. Waiting(g)'
  <2> HIDE DEF x
  <2>1. upd \in Seq(Polled) /\ src[k].hand \in Polled
    BY <1>1, <1>3 DEF AgentTypes, PipeTypes, SrcTypes
  <2>2. /\ Len(upd) \in Nat /\ Len(upd') = Len(upd) + 1 /\ upd'[Len(upd) + 1] = src[k].hand
        /\ \A j \in 1 .. Len(upd) : upd'[j] = upd[j]
    BY <1>3, <2>1
  <2>3. /\ Len(h) \in Nat /\ Len(g) = Len(h) + 1 /\ g[Len(h) + 1] = x
        /\ \A j \in 1 .. Len(h) : g[j] = h[j]
    BY <1>12, <1>13, <1>17
  <2>4. Held' = Held /\ Held \in {0, 1} /\ Len(h) = Len(upd) + Held
    BY <1>3, <1>12 DEF Held, Waiting
  <2>5. Len(g) = Len(upd') + Held'
    BY <2>2, <2>3, <2>4
  <2>6. hand' # NoItem => hand' = ItemAt(g[1].k, g[1].m)
    <3>1. ASSUME hand # NoItem PROVE hand = ItemAt(h[1].k, h[1].m) /\ 1 \in 1 .. Len(h)
      BY <1>12, <2>2, <2>4, <3>1 DEF Waiting, Held
    <3> QED
      BY <1>3, <2>3, <3>1
  <2>7. \A j \in 1 .. Len(upd') : upd'[j] = ItemAt(g[j + Held].k, g[j + Held].m)
    <3> TAKE j \in 1 .. Len(upd')
    <3>1. CASE j = Len(upd) + 1
      <4>1. j + Held = Len(h) + 1
        BY <2>2, <2>4, <3>1
      <4> QED
        BY <1>7, <1>13, <2>2, <2>3, <3>1, <4>1
    <3>2. CASE j \in 1 .. Len(upd)
      <4>1. j + Held \in 1 .. Len(h)
        BY <2>2, <2>4, <3>2
      <4> QED
        BY <1>12, <2>2, <2>3, <3>2, <4>1 DEF Waiting
    <3> QED
      BY <2>2, <3>1, <3>2
  <2> QED
    BY <2>4, <2>5, <2>6, <2>7 DEF Waiting
<1>16. StoreOrder(a)'
  BY <1>3, <1>12 DEF StoreOrder
<1> QED
  BY <1>9, <1>14, <1>15, <1>16 DEF OrderInv

(* Receiving moves the first item into the hand; the marks stay. *)
LEMMA ReceiveKeepsOrder ==
  ASSUME OrderInv, AgentTypes, Receive
  PROVE  OrderInv'
<1>1. PICK a \in [Collectors -> Nat], h \in Seq(Mark) :
        Queue(a, Passed, h) /\ Waiting(h) /\ StoreOrder(a)
  BY DEF OrderInv
<1>2. upd \in Seq(Polled) /\ upd # <<>> /\ Len(upd) \in Nat /\ Len(upd) # 0
  BY DEF AgentTypes, PipeTypes, Receive
<1>3. /\ hand = NoItem /\ hand' = upd[1] /\ upd[1] \in Polled /\ UNCHANGED <<src, store>>
      /\ Len(upd') = Len(upd) - 1 /\ \A j \in 1 .. Len(upd') : upd'[j] = upd[j + 1]
  BY <1>2 DEF Receive
<1>4. hand' # NoItem /\ Held = 0 /\ Held' = 1
  BY <1>3, NoItemAssumption DEF Polled, Held
<1>5. /\ Len(h) = Len(upd)
      /\ \A j \in 1 .. Len(upd) : upd[j] = ItemAt(h[j].k, h[j].m)
  BY <1>1, <1>2, <1>4 DEF Waiting
<1>6. Waiting(h)'
  <2>1. Len(h) = Len(upd') + 1
    BY <1>2, <1>3, <1>5
  <2>2. hand' = ItemAt(h[1].k, h[1].m)
    BY <1>2, <1>3, <1>5
  <2>3. \A j \in 1 .. Len(upd') : upd'[j] = ItemAt(h[j + 1].k, h[j + 1].m)
    <3> TAKE j \in 1 .. Len(upd')
    <3>1. j + 1 \in 1 .. Len(upd) /\ upd'[j] = upd[j + 1]
      BY <1>2, <1>3
    <3> QED
      BY <1>5, <3>1
  <2> QED
    BY <1>4, <2>1, <2>2, <2>3 DEF Waiting
<1>7. Queue(a, Passed', h) /\ StoreOrder(a)' /\ \A k \in Collectors : SrcOrder(src'[k], k)
  BY <1>1, <1>3 DEF Passed, StoreOrder, OrderInv
<1> QED
  BY <1>6, <1>7 DEF OrderInv

(* An item that was passed on is of a poll that was begun, far below 2^63. *)
LEMMA MarkBounds ==
  ASSUME AgentTypes, \A l \in Collectors : SrcOrder(src[l], l),
         NEW k \in Collectors, NEW m \in Nat, m < PassedOf(src[k], k)
  PROVE  /\ Len(Poll[k]) \in Nat \ {0}
         /\ m \div Len(Poll[k]) \in Nat /\ (m % Len(Poll[k])) + 1 \in 1 .. Len(Poll[k])
         /\ (m \div Len(Poll[k])) + 1 \in Int64
<1> DEFINE L == Len(Poll[k])
           P == src[k].polls
           x == PassedOf(src[k], k)
<1>1. SrcTypes(src[k], k)
  BY DEF AgentTypes, PipeTypes
<1>2. L \in Nat /\ P \in Nat /\ x \in Int /\ x <= P * L
  BY <1>1, SourceBounds
<1>3. P < Half
  BY <1>1, MaxPollsAssumption, HalfAssumption DEF SrcTypes
<1> HIDE DEF L, P, x
<1>4. m < x
  BY DEF x
<1>5. P * L \in Nat /\ m < P * L
  BY <1>2, <1>4
<1>6. L # 0
  BY <1>2, <1>5
<1> DEFINE q == m \div L
           r == m % L
<1>7. q \in Nat /\ r \in 0 .. L - 1 /\ m = q * L + r
  <2>1. L \in Nat \ {0} /\ m \in Int
    BY <1>2, <1>6
  <2> QED
    BY <2>1, DivMod, NatDiv
<1> HIDE DEF q, r
<1>8. q < P
  <2>1. q >= P => q * L >= P * L
    BY <1>2, <1>7
  <2>2. q * L \in Int /\ q * L <= m
    BY <1>2, <1>7
  <2> QED
    BY <1>2, <1>5, <1>7, <2>1, <2>2
<1>9. q + 1 \in Int64
  BY <1>2, <1>3, <1>7, <1>8, HalfAssumption DEF Int64
<1>10. r + 1 \in 1 .. L /\ L \in Nat \ {0}
  BY <1>2, <1>6, <1>7
<1> QED
  BY <1>7, <1>9, <1>10 DEF L, q, r

(* Storing the reading after the c-th makes it the reading after c + 1. *)
LEMMA CountApplied ==
  ASSUME NEW n \in Names, NEW c \in Nat, c + 1 \in Int64, NEW p, p = c + 1, NEW old,
         old = IF c = 0 THEN Absent ELSE [type |-> TypeOf(n), val |-> c]
  PROVE  (IF old = Absent THEN Reading(n, p).value ELSE Updated(old, Reading(n, p).value))
             = [type |-> TypeOf(n), val |-> c + 1]
<1> DEFINE v == Reading(n, p).value
<1>1. v = IF n \in Counters THEN [type |-> "counter", val |-> 1] ELSE [type |-> "gauge", val |-> p]
  BY DEF Reading
<1> HIDE DEF v
<1>2. CASE c = 0
  <2>1. old = Absent /\ p = 1 /\ c + 1 = 1
    BY <1>2
  <2>2. v = [type |-> TypeOf(n), val |-> 1]
    BY <1>1, <2>1 DEF TypeOf
  <2> QED
    BY <2>1, <2>2 DEF v
<1>3. CASE c # 0
  <2>1. old = [type |-> TypeOf(n), val |-> c] /\ old # Absent
    BY <1>3 DEF TypeOf, Absent
  <2>2. CASE n \in Counters
    <3>1. Updated(old, v) = [type |-> "counter", val |-> Wrap(c + 1)]
      BY <1>1, <2>1, <2>2 DEF Updated, TypeOf
    <3> QED
      BY <2>1, <2>2, <3>1, WrapIdentity DEF TypeOf, v
  <2>3. CASE n \notin Counters
    BY <1>1, <2>1, <2>3 DEF Updated, TypeOf, v
  <2> QED
    BY <2>2, <2>3
<1> QED
  BY <1>2, <1>3 DEF v

(* Storing the next item of collector k changes its name's reading only. *)
LEMMA ApplyStores ==
  ASSUME AgentTypes, \A l \in Collectors : SrcOrder(src[l], l), Apply,
         NEW a \in [Collectors -> Nat], StoreOrder(a), NEW k \in Collectors,
         a[k] < PassedOf(src[k], k), hand = ItemAt(k, a[k])
  PROVE  \A l \in Collectors : \A j \in 1 .. Len(Poll[l]) :
            store'[Poll[l][j]] = StoredOf(l, IF l = k THEN a[k] + 1 ELSE a[l], j)
<1> DEFINE L == Len(Poll[k])
           m == a[k]
           i == (m % L) + 1
           c == m \div L
           n == Poll[k][i]
           v == hand.value
<1>1. m \in Nat /\ L \in Nat \ {0} /\ i \in 1 .. L /\ c \in Nat /\ c + 1 \in Int64
  BY MarkBounds
<1>2. hand = Reading(n, c + 1)
  BY DEF ItemAt
<1>3. n \in Names
  BY <1>1, PollAssumption
<1>4. store[n] = StoredOf(k, m, i) /\ Count(k, m, i) = c /\ Count(k, m + 1, i) = c + 1
  BY <1>1, CountSteps DEF StoreOrder
<1>5. hand.id = n
  BY <1>2 DEF Reading
<1>6. store' = [store EXCEPT ![n] = IF store[n] = Absent THEN v ELSE Updated(store[n], v)]
  BY <1>5 DEF Apply
<1>7. (IF store[n] = Absent THEN v ELSE Updated(store[n], v)) = [type |-> TypeOf(n), val |-> c + 1]
  <2>1. store[n] = IF c = 0 THEN Absent ELSE [type |-> TypeOf(n), val |-> c]
    BY <1>4 DEF StoredOf
  <2> HIDE DEF n, c
  <2>2. v = Reading(n, c + 1).value
    BY <1>2
  <2> HIDE DEF v
  <2> QED
    BY <1>1, <1>3, <2>1, <2>2, CountApplied
<1> SUFFICES ASSUME NEW l \in Collectors, NEW j \in 1 .. Len(Poll[l])
             PROVE  store'[Poll[l][j]] = StoredOf(l, IF l = k THEN m + 1 ELSE a[l], j)
  OBVIOUS
<1>8. store \in [Names -> Metric \cup {Absent}] /\ Poll[l][j] \in Names
  BY PollAssumption DEF AgentTypes, PipeTypes
<1>9. CASE l = k /\ j = i
  <2>1. store'[n] = [type |-> TypeOf(n), val |-> c + 1]
    <3> HIDE DEF n, v, c
    <3> QED
      BY <1>3, <1>6, <1>7, <1>8
  <2>2. StoredOf(k, m + 1, i) = [type |-> TypeOf(n), val |-> c + 1]
    <3>1. c + 1 # 0
      BY <1>1
    <3> QED
      BY <1>4, <3>1 DEF StoredOf
  <2> QED
    BY <1>9, <2>1, <2>2
<1>10. CASE ~(l = k /\ j = i)
  <2>1. Poll[l][j] # n
    <3>1. j \in DOMAIN Poll[l] /\ i \in DOMAIN Poll[k]
      BY <1>1, PollAssumption
    <3> HIDE DEF i
    <3> QED
      BY <1>10, <3>1, PollAssumption
  <2>2. store'[Poll[l][j]] = store[Poll[l][j]]
    <3> HIDE DEF n, v
    <3> QED
      BY <1>6, <1>8, <2>1
  <2>3. store[Poll[l][j]] = StoredOf(l, a[l], j)
    BY DEF StoreOrder
  <2>4. l = k => StoredOf(l, m + 1, j) = StoredOf(l, m, j)
    <3>1. l = k => Count(k, m + 1, j) = Count(k, m, j)
      BY <1>1, <1>10, CountSteps
    <3> QED
      BY <3>1 DEF StoredOf
  <2> QED
    BY <2>2, <2>3, <2>4
<1> QED
  BY <1>9, <1>10

(* Storing removes the first mark. *)
LEMMA ApplyKeepsOrder ==
  ASSUME OrderInv, AgentTypes, Apply
  PROVE  OrderInv'
<1>1. PICK a \in [Collectors -> Nat], h \in Seq(Mark) :
        Queue(a, Passed, h) /\ Waiting(h) /\ StoreOrder(a)
  BY DEF OrderInv
<1>2. /\ hand # NoItem /\ hand' = NoItem /\ UNCHANGED <<src, upd>>
      /\ upd \in Seq(Polled) /\ Len(upd) \in Nat
  BY DEF Apply, AgentTypes, PipeTypes
<1>3. Held = 1 /\ Held' = 0
  BY <1>2 DEF Held
<1>4. /\ Len(h) = Len(upd) + 1 /\ hand = ItemAt(h[1].k, h[1].m)
      /\ \A j \in 1 .. Len(upd) : upd[j] = ItemAt(h[j + 1].k, h[j + 1].m)
  BY <1>1, <1>2, <1>3 DEF Waiting
<1>5. h # <<>>
  BY <1>2, <1>4
<1>6. \A l \in Collectors : SrcOrder(src[l], l)
  BY DEF OrderInv
<1>7. Passed \in [Collectors -> Nat] /\ \A l \in Collectors : Passed[l] = PassedOf(src[l], l)
  BY <1>6, PassedType
<1>8. PICK k \in Collectors : k = h[1].k /\ a[k] = h[1].m /\ a[k] < Passed[k]
  BY <1>1, <1>5, <1>7, PopQueue
<1>9. PICK b \in [Collectors -> Nat] : b = [a EXCEPT ![k] = @ + 1]
  <2>1. [a EXCEPT ![k] = @ + 1] \in [Collectors -> Nat]
    OBVIOUS
  <2> QED
    BY <2>1
<1>10. PICK g \in Seq(Mark) : g = Tail(h)
  <2>1. Tail(h) \in Seq(Mark)
    BY <1>1, <1>5
  <2> QED
    BY <2>1
<1>11. Queue(b, Passed', g)
  <2>1. Passed' = Passed
    BY <1>2 DEF Passed
  <2> QED
    BY <1>1, <1>5, <1>7, <1>8, <1>9, <1>10, <2>1, PopQueue
<1>12. Waiting(g)'
  <2>1. Len(g) = Len(upd) /\ \A j \in 1 .. Len(upd) : g[j] = h[j + 1]
    BY <1>1, <1>2, <1>4, <1>5, <1>10
  <2> QED
    BY <1>2, <1>3, <1>4, <2>1 DEF Waiting
<1>13. StoreOrder(b)'
  <2>1. hand = ItemAt(k, a[k]) /\ a[k] < PassedOf(src[k], k)
    BY <1>4, <1>7, <1>8
  <2>2. \A l \in Collectors : b[l] = IF l = k THEN a[k] + 1 ELSE a[l]
    BY <1>9
  <2> QED
    <3>1. \A l \in Collectors : \A j \in 1 .. Len(Poll[l]) :
            store'[Poll[l][j]] = StoredOf(l, IF l = k THEN a[k] + 1 ELSE a[l], j)
      BY <1>1, <1>6, <2>1, ApplyStores
    <3>2. \A l \in Collectors : \A j \in 1 .. Len(Poll[l]) : store'[Poll[l][j]] = StoredOf(l, b[l], j)
      BY <2>2, <3>1
    <3> QED
      BY <3>2 DEF StoreOrder
<1>14. \A l \in Collectors : SrcOrder(src'[l], l)
  BY <1>2, <1>6
<1> QED
  BY <1>11, <1>12, <1>13, <1>14 DEF OrderInv

(* Every step of the agent keeps every item in its place. *)
LEMMA NextOrder == OrderInv /\ AgentTypes /\ AgentTypes' /\ [Next]_vars => OrderInv'
<1> SUFFICES ASSUME OrderInv, AgentTypes, AgentTypes', [Next]_vars PROVE OrderInv'
  OBVIOUS
<1>1. CASE UNCHANGED <<src, upd, hand, store>>
  <2>1. \A k \in Collectors :
            SrcOrder(src'[k], k) /\ PassedOf(src'[k], k) = PassedOf(src[k], k)
    BY <1>1 DEF OrderInv
  <2> QED
    BY <1>1, <2>1, SameOrder
<1>2. ASSUME NEW k \in Collectors, Tick(k) \/ ReadFails(k) \/ Collector(k) \/ Forwarder(k)
      PROVE  OrderInv'
  <2>1. CASE ReadFails(k)
    BY <1>1, <2>1 DEF ReadFails
  <2> QED
    BY <1>2, <2>1, CollectorOrder, PassKeepsOrder DEF Collector, Forwarder
<1>3. CASE Updater
  BY <1>3, ReceiveKeepsOrder, ApplyKeepsOrder DEF Updater
<1>4. CASE Signal \/ CloseUpdate \/ FatalMapRace
  BY <1>1, <1>4 DEF Signal, CloseUpdate, FatalMapRace
<1>5. CASE Report \/ BatchEnd \/ Main
  BY <1>1, <1>5 DEF Report, BatchEnd, Main, Visit, Push, RangeEnd, Leave
<1>6. ASSUME NEW w \in Workers, Worker(w) \/ Sent(w) PROVE OrderInv'
  BY <1>1, <1>6 DEF Worker, Fetch, SendPanics, Sent
<1>7. CASE UNCHANGED vars
  BY <1>1, <1>7 DEF vars
<1> QED
  BY <1>2, <1>3, <1>4, <1>5, <1>6, <1>7 DEF Next

(* Four hops behind the collectors the storage has of each poll a prefix    *)
(* and of the poll before it everything: no goroutine overtakes another.   *)
THEOREM StorageFollowsPolls == Spec => []StoredInPollOrder
<1>1. OrderInv => StoredInPollOrder
  <2> SUFFICES ASSUME OrderInv, NEW k \in Collectors, NEW j \in DOMAIN Poll[k],
                      NEW i \in 1 .. j - 1
               PROVE  Level(Poll[k][i]) - Level(Poll[k][j]) \in {0, 1}
    BY DEF StoredInPollOrder
  <2>1. PICK a \in [Collectors -> Nat], h \in Seq(Mark) : StoreOrder(a)
    BY DEF OrderInv
  <2>2. Len(Poll[k]) \in Nat \ {0} /\ j \in 1 .. Len(Poll[k]) /\ i \in 1 .. Len(Poll[k]) /\ i < j
    BY PollAssumption
  <2>3. \A x \in 1 .. Len(Poll[k]) : Level(Poll[k][x]) = Count(k, a[k], x)
    <3> TAKE x \in 1 .. Len(Poll[k])
    <3>1. store[Poll[k][x]] = StoredOf(k, a[k], x)
      BY <2>1 DEF StoreOrder
    <3>2. CASE Count(k, a[k], x) = 0
      BY <3>1, <3>2 DEF StoredOf, Level
    <3>3. CASE Count(k, a[k], x) # 0
      <4>1. store[Poll[k][x]] = [type |-> TypeOf(Poll[k][x]), val |-> Count(k, a[k], x)]
        BY <3>1, <3>3 DEF StoredOf
      <4>2. store[Poll[k][x]] # Absent
        BY <4>1 DEF TypeOf, Absent
      <4> QED
        BY <4>1, <4>2 DEF Level
    <3> QED
      BY <3>2, <3>3
  <2> DEFINE q == a[k] \div Len(Poll[k])
             r == a[k] % Len(Poll[k])
  <2>4. q \in Nat /\ r \in Int
    <3> DEFINE L == Len(Poll[k])
    <3> HIDE DEF L
    <3>1. L \in Nat \ {0} /\ a[k] \in Nat /\ a[k] \in Int
      BY <2>2 DEF L
    <3>2. a[k] \div L \in Nat /\ a[k] % L \in 0 .. L - 1
      BY <3>1, NatDiv, DivMod
    <3> QED
      BY <3>1, <3>2 DEF L
  <2>5. Count(k, a[k], i) = (IF i <= r THEN q + 1 ELSE q)
        /\ Count(k, a[k], j) = (IF j <= r THEN q + 1 ELSE q)
    BY DEF Count
  <2> HIDE DEF q, r
  <2>6. Count(k, a[k], i) - Count(k, a[k], j) \in {0, 1}
    BY <2>2, <2>4, <2>5
  <2> QED
    BY <2>2, <2>3, <2>6
<1> QED
  BY <1>1, InitOrder, NextOrder, InitAgentTypes, NextAgentTypes, PTL DEF Spec

-----------------------------------------------------------------------------
(* A sequence with one more element has its places, or one more. *)
LEMMA PushIndexes ==
  ASSUME NEW l \in Nat, NEW D \in SUBSET (1 .. l), NEW E, NEW b \in BOOLEAN,
         E = IF b THEN D \cup {l + 1} ELSE D
  PROVE  Cardinality(D) \in Nat /\ Cardinality(E) = Cardinality(D) + (IF b THEN 1 ELSE 0)
<1>1. IsFiniteSet(D) /\ l + 1 \notin D
  <2>1. IsFiniteSet(1 .. l)
    BY FS_Interval
  <2>2. IsFiniteSet(D)
    BY <2>1, FS_Subset
  <2>3. l + 1 \notin D
    OBVIOUS
  <2> QED
    BY <2>2, <2>3
<1>2. Cardinality(D) \in Nat
  BY <1>1, FS_CardinalityType
<1>3. Cardinality(D \cup {l + 1}) = Cardinality(D) + 1
  BY <1>1, FS_AddElement
<1> QED
  BY <1>2, <1>3

(* A sequence without its first element has its places moved by one. *)
LEMMA PopIndexes ==
  ASSUME NEW l \in Nat, NEW D \in SUBSET (1 .. l), NEW E,
         E = {i \in 1 .. l - 1 : i + 1 \in D}
  PROVE  Cardinality(E) \in Nat /\ Cardinality(D) = Cardinality(E) + (IF 1 \in D THEN 1 ELSE 0)
<1> DEFINE f == [i \in E |-> i + 1]
<1>1. IsFiniteSet(D) /\ IsFiniteSet(E)
  <2>1. IsFiniteSet(1 .. l) /\ IsFiniteSet(1 .. l - 1)
    BY FS_Interval
  <2> QED
    BY <2>1, FS_Subset
<1>2. f \in Bijection(E, D \ {1})
  <2>1. f \in [E -> D \ {1}]
    OBVIOUS
  <2>2. \A i, j \in E : f[i] = f[j] => i = j
    OBVIOUS
  <2>3. \A d \in D \ {1} : \E i \in E : f[i] = d
    <3> TAKE d \in D \ {1}
    <3>1. d - 1 \in E /\ (d - 1) + 1 = d
      OBVIOUS
    <3> QED
      BY <3>1
  <2> HIDE DEF f
  <2> QED
    BY <2>1, <2>2, <2>3 DEF Bijection, Injection, Surjection, IsInjective
<1>3. Cardinality(D \ {1}) = Cardinality(E)
  <2>1. ExistsBijection(E, D \ {1})
    BY <1>2 DEF ExistsBijection
  <2> QED
    BY <1>1, <2>1, FS_Bijection
<1>4. Cardinality(D \ {1}) = IF 1 \in D THEN Cardinality(D) - 1 ELSE Cardinality(D)
  BY <1>1, FS_RemoveElement
<1>5. Cardinality(D) \in Nat /\ Cardinality(E) \in Nat
  BY <1>1, FS_CardinalityType
<1> QED
  BY <1>3, <1>4, <1>5

(* How often a name is in a channel, after a send. *)
LEMMA ChannelPush ==
  ASSUME NEW ch \in Seq(Polled), NEW x \in Polled, NEW n
  PROVE  /\ InChannel(ch, n) \in Nat
         /\ InChannel(Append(ch, x), n) = InChannel(ch, n) + (IF x.id = n THEN 1 ELSE 0)
<1> DEFINE l == Len(ch)
           D == {i \in DOMAIN ch : ch[i].id = n}
           E == {i \in DOMAIN Append(ch, x) : Append(ch, x)[i].id = n}
<1>1. l \in Nat /\ D \in SUBSET (1 .. l)
  OBVIOUS
<1>2. E = IF x.id = n THEN D \cup {l + 1} ELSE D
  OBVIOUS
<1> HIDE DEF l, D, E
<1>3. Cardinality(D) \in Nat /\ Cardinality(E) = Cardinality(D) + (IF x.id = n THEN 1 ELSE 0)
  BY <1>1, <1>2, PushIndexes
<1> QED
  BY <1>3 DEF InChannel, D, E

(* And after a receive. *)
LEMMA ChannelPop ==
  ASSUME NEW ch \in Seq(Polled), ch # <<>>, NEW n
  PROVE  /\ InChannel(Tail(ch), n) \in Nat
         /\ InChannel(ch, n) = InChannel(Tail(ch), n) + (IF Head(ch).id = n THEN 1 ELSE 0)
<1> DEFINE l == Len(ch)
           D == {i \in DOMAIN ch : ch[i].id = n}
           E == {i \in DOMAIN Tail(ch) : Tail(ch)[i].id = n}
<1>1. l \in Nat /\ D \in SUBSET (1 .. l) /\ (1 \in D <=> Head(ch).id = n)
  OBVIOUS
<1>2. E = {i \in 1 .. l - 1 : i + 1 \in D}
  <2>1. /\ l \in Nat /\ l # 0 /\ DOMAIN Tail(ch) = 1 .. l - 1
        /\ \A i \in 1 .. l - 1 : Tail(ch)[i] = ch[i + 1] /\ i + 1 \in DOMAIN ch
    OBVIOUS
  <2> QED
    BY <2>1
<1> HIDE DEF l, D, E
<1>3. Cardinality(E) \in Nat /\ Cardinality(D) = Cardinality(E) + (IF 1 \in D THEN 1 ELSE 0)
  BY <1>1, <1>2, PopIndexes
<1> QED
  BY <1>1, <1>3 DEF InChannel, D, E

(* How often a name is left in a poll, after its first was sent. *)
LEMMA NamesPop ==
  ASSUME NEW q \in Seq(Names), q # <<>>, NEW n
  PROVE  /\ InNames(Tail(q), n) \in Nat
         /\ InNames(q, n) = InNames(Tail(q), n) + (IF Head(q) = n THEN 1 ELSE 0)
<1> DEFINE l == Len(q)
           D == {i \in DOMAIN q : q[i] = n}
           E == {i \in DOMAIN Tail(q) : Tail(q)[i] = n}
<1>1. l \in Nat /\ D \in SUBSET (1 .. l) /\ (1 \in D <=> Head(q) = n)
  OBVIOUS
<1>2. E = {i \in 1 .. l - 1 : i + 1 \in D}
  <2>1. /\ l \in Nat /\ l # 0 /\ DOMAIN Tail(q) = 1 .. l - 1
        /\ \A i \in 1 .. l - 1 : Tail(q)[i] = q[i + 1] /\ i + 1 \in DOMAIN q
    OBVIOUS
  <2> QED
    BY <2>1
<1> HIDE DEF l, D, E
<1>3. Cardinality(E) \in Nat /\ Cardinality(D) = Cardinality(E) + (IF 1 \in D THEN 1 ELSE 0)
  BY <1>1, <1>2, PopIndexes
<1> QED
  BY <1>1, <1>3 DEF InNames, D, E

(* How often is a number. *)
LEMMA NamesType ==
  ASSUME NEW q \in Seq(Names), NEW n
  PROVE  InNames(q, n) \in Nat
<1> DEFINE D == {i \in DOMAIN q : q[i] = n}
<1>1. Len(q) \in Nat /\ D \in SUBSET (1 .. Len(q))
  OBVIOUS
<1> HIDE DEF D
<1>2. IsFiniteSet(1 .. Len(q))
  BY <1>1, FS_Interval
<1>3. Cardinality(D) \in Nat
  BY <1>1, <1>2, FS_Subset, FS_CardinalityType
<1> QED
  BY <1>3 DEF InNames, D

(* Nothing is in an empty sequence. *)
LEMMA NothingThere == \A n : InNames(<<>>, n) = 0 /\ InChannel(<<>>, n) = 0
<1>1. ASSUME NEW n PROVE {i \in DOMAIN <<>> : <<>>[i] = n} = {} /\ {i \in DOMAIN <<>> : <<>>[i].id = n} = {}
  OBVIOUS
<1> QED
  BY <1>1, FS_EmptySet DEF InNames, InChannel

(* A poll reads each of its names once. *)
LEMMA OncePerPoll ==
  ASSUME NEW k \in Collectors, NEW i \in DOMAIN Poll[k]
  PROVE  InNames(Poll[k], Poll[k][i]) = 1
<1>1. {j \in DOMAIN Poll[k] : Poll[k][j] = Poll[k][i]} = {i}
  BY PollAssumption
<1> QED
  BY <1>1, FS_Singleton DEF InNames

(* How often n is between its collector and chUpdate. *)
InSource(s, n) == InNames(s.left, n) + InChannel(s.ch, n) + InHand(s.hand, n)

(* PollsAreCounted for one collector and one counter. *)
Counted(k, n) == Wrap(Level(n) + OnItsWay(k, n)) = Wrap(src[k].polls)

(* How often a name is in a channel is a number. *)
LEMMA ChannelType ==
  ASSUME NEW ch \in Seq(Polled), NEW n
  PROVE  InChannel(ch, n) \in Nat
<1> DEFINE D == {i \in DOMAIN ch : ch[i].id = n}
<1>1. Len(ch) \in Nat /\ D \in SUBSET (1 .. Len(ch))
  OBVIOUS
<1> HIDE DEF D
<1>2. IsFiniteSet(1 .. Len(ch))
  BY <1>1, FS_Interval
<1>3. Cardinality(D) \in Nat
  BY <1>1, <1>2, FS_Subset, FS_CardinalityType
<1> QED
  BY <1>3 DEF InChannel, D

(* So is how often it is in a source. *)
LEMMA InSourceType ==
  ASSUME NEW k \in Collectors, NEW s, SrcTypes(s, k), NEW n
  PROVE  /\ InNames(s.left, n) \in Nat /\ InChannel(s.ch, n) \in Nat
         /\ InHand(s.hand, n) \in Nat /\ InSource(s, n) \in Nat
<1>1. InNames(s.left, n) \in Nat /\ InChannel(s.ch, n) \in Nat
  BY NamesType, ChannelType DEF SrcTypes
<1>2. InHand(s.hand, n) \in Nat
  BY DEF InHand
<1> QED
  BY <1>1, <1>2 DEF InSource

(* A poll brings each of its names once more. *)
LEMMA TickCounts ==
  ASSUME NEW k \in Collectors, NEW s, NEW t, SrcTypes(s, k), s.left = <<>>, t.left = Poll[k],
         t.ch = s.ch, t.hand = s.hand, NEW i \in DOMAIN Poll[k]
  PROVE  InSource(t, Poll[k][i]) = InSource(s, Poll[k][i]) + 1
<1> DEFINE n == Poll[k][i]
<1>1. InNames(s.left, n) = 0 /\ InNames(t.left, n) = 1
  BY NothingThere, OncePerPoll
<1>2. InChannel(s.ch, n) \in Nat /\ InHand(s.hand, n) \in Nat
  BY InSourceType
<1> QED
  BY <1>1, <1>2 DEF InSource

(* The collector's send moves a name, *)
LEMMA EmitCounts ==
  ASSUME NEW k \in Collectors, NEW s, NEW t, SrcTypes(s, k), s.left # <<>>,
         t.left = Tail(s.left), t.ch = Append(s.ch, Reading(Head(s.left), s.polls)),
         t.hand = s.hand, NEW n
  PROVE  InSource(t, n) = InSource(s, n)
<1> DEFINE r == Reading(Head(s.left), s.polls)
<1>1. r.id = Head(s.left)
  BY DEF Reading
<1>2. r \in Polled
  <2>1. Head(s.left) \in Names /\ s.polls \in 1 .. MaxPolls[k]
    BY MaxPollsAssumption DEF SrcTypes
  <2> QED
    BY <2>1, ReadingType
<1> HIDE DEF r
<1>3. /\ InNames(t.left, n) \in Nat
      /\ InNames(s.left, n) = InNames(t.left, n) + (IF Head(s.left) = n THEN 1 ELSE 0)
  BY NamesPop DEF SrcTypes
<1>4. /\ InChannel(s.ch, n) \in Nat
      /\ InChannel(t.ch, n) = InChannel(s.ch, n) + (IF r.id = n THEN 1 ELSE 0)
  <2>1. s.ch \in Seq(Polled) /\ t.ch = Append(s.ch, r)
    BY DEF SrcTypes, r
  <2> QED
    BY <1>2, <2>1, ChannelPush
<1>5. InHand(t.hand, n) = InHand(s.hand, n) /\ InHand(s.hand, n) \in Nat
  BY InSourceType
<1> QED
  BY <1>1, <1>3, <1>4, <1>5 DEF InSource

(* and so does the forwarder's receive. *)
LEMMA TakeCounts ==
  ASSUME NEW k \in Collectors, NEW s, NEW t, SrcTypes(s, k), s.hand = NoItem, s.ch # <<>>,
         t.left = s.left, t.ch = Tail(s.ch), t.hand = Head(s.ch), NEW n
  PROVE  InSource(t, n) = InSource(s, n)
<1>1. Head(s.ch) # NoItem
  BY NoItemAssumption DEF SrcTypes, Polled
<1>2. /\ InChannel(t.ch, n) \in Nat
      /\ InChannel(s.ch, n) = InChannel(t.ch, n) + (IF Head(s.ch).id = n THEN 1 ELSE 0)
  BY ChannelPop DEF SrcTypes
<1>3. InHand(s.hand, n) = 0 /\ InHand(t.hand, n) = IF Head(s.ch).id = n THEN 1 ELSE 0
  BY <1>1 DEF InHand
<1>4. InNames(t.left, n) = InNames(s.left, n) /\ InNames(s.left, n) \in Nat
  BY InSourceType
<1> QED
  BY <1>2, <1>3, <1>4 DEF InSource

(* The parts of the sum are integers. *)
LEMMA SumTypes ==
  ASSUME AgentTypes, NEW k \in Collectors, NEW n \in Names \cap Counters
  PROVE  /\ SrcTypes(src[k], k) /\ src[k].polls \in Int /\ InSource(src[k], n) \in Nat
         /\ InChannel(upd, n) \in Nat /\ InHand(hand, n) \in Nat /\ Level(n) \in Int
         /\ Level(n) + OnItsWay(k, n) \in Int
<1>1. SrcTypes(src[k], k) /\ src[k].polls \in Int
  BY MaxPollsAssumption DEF AgentTypes, PipeTypes, SrcTypes
<1>2. InSource(src[k], n) \in Nat /\ InNames(src[k].left, n) \in Nat
      /\ InChannel(src[k].ch, n) \in Nat /\ InHand(src[k].hand, n) \in Nat
  BY <1>1, InSourceType
<1>3. InChannel(upd, n) \in Nat
  BY ChannelType DEF AgentTypes, PipeTypes
<1>4. InHand(hand, n) \in Nat
  BY DEF InHand
<1>5. Level(n) \in Int
  <2>1. store[n] = Absent \/ (store[n] \in Metric /\ store[n].type = "counter")
    BY DEF AgentTypes, PipeTypes, StoreTypes, TypeOf
  <2>2. store[n] = Absent \/ store[n].val \in Int
    BY <2>1, HalfAssumption DEF Metric, Counter, Gauge, Int64
  <2> QED
    BY <2>2 DEF Level
<1> QED
  BY <1>1, <1>2, <1>3, <1>4, <1>5 DEF OnItsWay

(* The sum, by source, channel and hand. *)
LEMMA SumOf ==
  ASSUME AgentTypes, NEW k \in Collectors, NEW n \in Names \cap Counters
  PROVE  OnItsWay(k, n) = InSource(src[k], n) + InChannel(upd, n) + InHand(hand, n)
<1>1. InNames(src[k].left, n) \in Nat /\ InChannel(src[k].ch, n) \in Nat
      /\ InHand(src[k].hand, n) \in Nat
  BY SumTypes, InSourceType
<1>2. InChannel(upd, n) \in Nat /\ InHand(hand, n) \in Nat
  BY SumTypes
<1> QED
  BY <1>1, <1>2 DEF OnItsWay, InSource

(* The same after a step. *)
LEMMA SumOfNext ==
  ASSUME AgentTypes', NEW k \in Collectors, NEW n \in Names \cap Counters
  PROVE  /\ OnItsWay(k, n)' = InSource(src'[k], n) + InChannel(upd', n) + InHand(hand', n)
         /\ InSource(src'[k], n) \in Nat /\ InChannel(upd', n) \in Nat
         /\ InHand(hand', n) \in Nat
<1>1. SrcTypes(src'[k], k) /\ upd' \in Seq(Polled)
  BY DEF AgentTypes, PipeTypes
<1>2. /\ InNames(src'[k].left, n) \in Nat /\ InChannel(src'[k].ch, n) \in Nat
      /\ InHand(src'[k].hand, n) \in Nat /\ InSource(src'[k], n) \in Nat
  BY <1>1, InSourceType
<1>3. InChannel(upd', n) \in Nat
  BY <1>1, ChannelType
<1>4. InHand(hand', n) \in Nat
  BY DEF InHand
<1>5. OnItsWay(k, n)' = InNames(src'[k].left, n) + InChannel(src'[k].ch, n)
            + InHand(src'[k].hand, n) + InChannel(upd', n) + InHand(hand', n)
  BY DEF OnItsWay, InNames, InChannel, InHand
<1>6. InSource(src'[k], n) = InNames(src'[k].left, n) + InChannel(src'[k].ch, n)
            + InHand(src'[k].hand, n)
  BY DEF InSource
<1> QED
  BY <1>2, <1>3, <1>4, <1>5, <1>6

(* A step that only moves names keeps the count. *)
LEMMA KeepsCount ==
  ASSUME AgentTypes, AgentTypes', NEW k \in Collectors, NEW n \in Names \cap Counters,
         Counted(k, n), src'[k].polls = src[k].polls, UNCHANGED store,
         InSource(src'[k], n) + InChannel(upd', n) + InHand(hand', n)
            = InSource(src[k], n) + InChannel(upd, n) + InHand(hand, n)
  PROVE  Counted(k, n)'
<1>1. OnItsWay(k, n)' = OnItsWay(k, n)
  BY SumOf, SumOfNext
<1>2. Level(n)' = Level(n)
  BY DEF Level
<1> QED
  BY <1>1, <1>2 DEF Counted

(* A new poll adds one to both sides, however they wrap. *)
LEMMA TickStep ==
  ASSUME AgentTypes, AgentTypes', NEW k \in Collectors, NEW i \in DOMAIN Poll[k],
         Poll[k][i] \in Names \cap Counters, Counted(k, Poll[k][i]), Tick(k)
  PROVE  Counted(k, Poll[k][i])'
<1> DEFINE n == Poll[k][i]
           t == src'[k]
           p == src[k].polls
<1>1. src[k] \in Source /\ SrcTypes(src[k], k) /\ src \in [Collectors -> Source]
  BY DEF AgentTypes, PipeTypes, CloseInv
<1>2. /\ src[k].left = <<>> /\ UNCHANGED <<hand, store, upd>>
      /\ t = [src[k] EXCEPT !.polls = @ + 1, !.left = Poll[k]]
  BY <1>1 DEF Tick, Selecting
<1>3. t.polls = p + 1 /\ t.left = Poll[k] /\ t.ch = src[k].ch /\ t.hand = src[k].hand
  BY <1>1, <1>2 DEF Source
<1>4. InSource(t, n) = InSource(src[k], n) + 1
  <2>1. /\ SrcTypes(src[k], k) /\ src[k].left = <<>> /\ t.left = Poll[k]
        /\ t.ch = src[k].ch /\ t.hand = src[k].hand
    BY <1>1, <1>2, <1>3
  <2> HIDE DEF t
  <2> QED
    BY <2>1, TickCounts
<1>5. /\ Level(n) \in Int /\ p \in Int /\ Level(n) + OnItsWay(k, n) \in Int
      /\ InSource(src[k], n) \in Nat /\ InChannel(upd, n) \in Nat /\ InHand(hand, n) \in Nat
      /\ OnItsWay(k, n) = InSource(src[k], n) + InChannel(upd, n) + InHand(hand, n)
  BY SumTypes, SumOf
<1>6. OnItsWay(k, n)' = OnItsWay(k, n) + 1
  <2>1. OnItsWay(k, n)' = InSource(t, n) + InChannel(upd, n) + InHand(hand, n)
    BY <1>2, SumOfNext
  <2> HIDE DEF t, n
  <2> QED
    BY <1>4, <1>5, <2>1
<1>7. Level(n)' = Level(n)
  BY <1>2 DEF Level
<1> DEFINE x == Level(n) + OnItsWay(k, n)
<1>8. Level(n)' + OnItsWay(k, n)' = x + 1
  <2>1. OnItsWay(k, n) \in Int
    BY <1>5
  <2> HIDE DEF n
  <2> QED
    BY <1>5, <1>6, <1>7, <2>1
<1>9. Wrap(x) = Wrap(p) /\ x \in Int
  BY <1>5 DEF Counted
<1>10. Wrap(x + 1) = Wrap(p + 1)
  <2>2. x \in Int /\ p \in Int
    BY <1>5
  <2> HIDE DEF x, p
  <2>1. Wrap(Wrap(x) + 1) = Wrap(x + 1) /\ Wrap(Wrap(p) + 1) = Wrap(p + 1)
    BY <2>2, WrapAbsorbs
  <2> QED
    BY <1>9, <2>1
<1> QED
  BY <1>3, <1>8, <1>10 DEF Counted

(* An item carries a name of its collector. *)
LEMMA ItemAtId ==
  ASSUME NEW k \in Collectors, Len(Poll[k]) \in Nat \ {0}, NEW m \in Nat
  PROVE  \E j \in DOMAIN Poll[k] : ItemAt(k, m).id = Poll[k][j]
<1> DEFINE L == Len(Poll[k])
<1>1. DOMAIN Poll[k] = 1 .. L
  BY PollAssumption
<1> HIDE DEF L
<1>2. m % L \in 0 .. L - 1 /\ L \in Nat \ {0}
  <2>1. L \in Nat \ {0} /\ m \in Int
    BY DEF L
  <2> QED
    BY <2>1, DivMod
<1>3. (m % L) + 1 \in 1 .. L
  BY <1>2
<1>4. ItemAt(k, m).id = Poll[k][(m % L) + 1]
  BY DEF ItemAt, Reading, L
<1> QED
  BY <1>1, <1>3, <1>4

(* No other forwarder carries the name: no two collectors read it. *)
LEMMA OtherHands ==
  ASSUME AgentTypes, OrderInv, NEW k \in Collectors, NEW i \in DOMAIN Poll[k],
         NEW l \in Collectors, l # k, src[l].hand # NoItem
  PROVE  src[l].hand.id # Poll[k][i]
<1> DEFINE m == PassedOf(src[l], l)
<1>1. SrcTypes(src[l], l) /\ SrcOrder(src[l], l)
  BY DEF AgentTypes, PipeTypes, OrderInv
<1>2. src[l].hand = ItemAt(l, m) /\ m \in Nat
  BY <1>1 DEF SrcOrder
<1>3. Len(Poll[l]) \in Nat \ {0}
  <2> DEFINE L == Len(Poll[l])
             P == src[l].polls
  <2>1. /\ L \in Nat /\ P \in Nat /\ P * L \in Nat /\ TakenOf(src[l], l) \in Int
        /\ m = TakenOf(src[l], l) - 1 /\ TakenOf(src[l], l) <= P * L
    BY <1>1, SourceBounds
  <2> HIDE DEF L, P, m
  <2>3. P * L # 0
    BY <1>2, <2>1
  <2>4. L # 0
    BY <2>1, <2>3
  <2> QED
    BY <2>1, <2>4 DEF L
<1> HIDE DEF m
<1>4. PICK j \in DOMAIN Poll[l] : ItemAt(l, m).id = Poll[l][j]
  BY <1>2, <1>3, ItemAtId
<1> QED
  BY <1>2, <1>4, PollAssumption

(* The steps before chUpdate. *)
LEMMA SourceStep ==
  ASSUME AgentTypes, AgentTypes', OrderInv, NEW k \in Collectors, NEW i \in DOMAIN Poll[k],
         Poll[k][i] \in Names \cap Counters, Counted(k, Poll[k][i]),
         NEW l \in Collectors, Tick(l) \/ Emit(l) \/ Stop(l) \/ Take(l) \/ Finish(l)
  PROVE  Counted(k, Poll[k][i])'
<1> DEFINE n == Poll[k][i]
<1>1. src[l] \in Source /\ SrcTypes(src[l], l) /\ src \in [Collectors -> Source]
  BY DEF AgentTypes, PipeTypes, CloseInv
<1>2. UNCHANGED <<upd, hand, store>> /\ (l # k => src'[k] = src[k])
  BY <1>1 DEF Tick, Emit, Stop, Take, Finish
<1>3. CASE l # k
  <2>1. src'[k] = src[k]
    BY <1>2, <1>3
  <2> QED
    BY <1>2, <2>1, KeepsCount
<1>4. CASE l = k /\ Tick(k)
  BY <1>4, TickStep
<1>5. CASE l = k /\ (Emit(k) \/ Stop(k) \/ Take(k) \/ Finish(k))
  <2>1. src'[k].polls = src[k].polls
    BY <1>1, <1>5 DEF Emit, Stop, Take, Finish, Source
  <2>2. InSource(src'[k], n) = InSource(src[k], n)
    <3> DEFINE t == src'[k]
    <3>1. CASE Emit(k)
      <4>1. /\ src[k].left # <<>> /\ t.left = Tail(src[k].left) /\ t.hand = src[k].hand
            /\ t.ch = Append(src[k].ch, Reading(Head(src[k].left), src[k].polls))
        BY <1>1, <1>5, <3>1 DEF Emit, Source
      <4> HIDE DEF t, n
      <4> QED
        BY <1>1, <1>5, <4>1, EmitCounts DEF t
    <3>2. CASE Take(k)
      <4>1. /\ src[k].hand = NoItem /\ src[k].ch # <<>> /\ t.left = src[k].left
            /\ t.hand = Head(src[k].ch) /\ t.ch = Tail(src[k].ch)
        BY <1>1, <1>5, <3>2 DEF Take, Source
      <4> HIDE DEF t, n
      <4> QED
        BY <1>1, <1>5, <4>1, TakeCounts DEF t
    <3>3. CASE Stop(k) \/ Finish(k)
      <4>1. t.left = src[k].left /\ t.hand = src[k].hand /\ t.ch = src[k].ch
        BY <1>1, <1>5, <3>3 DEF Stop, Finish, Source
      <4> QED
        BY <4>1 DEF InSource
    <3> QED
      BY <1>5, <3>1, <3>2, <3>3
  <2> HIDE DEF n
  <2> QED
    BY <1>2, <2>1, <2>2, KeepsCount DEF n
<1> QED
  BY <1>3, <1>4, <1>5

(* The forwarder's send moves its own collector's names only. *)
LEMMA PassStepCounts ==
  ASSUME AgentTypes, AgentTypes', OrderInv, NEW k \in Collectors, NEW i \in DOMAIN Poll[k],
         Poll[k][i] \in Names \cap Counters, Counted(k, Poll[k][i]), NEW l \in Collectors, Pass(l)
  PROVE  Counted(k, Poll[k][i])'
<1> DEFINE n == Poll[k][i]
           b == IF src[l].hand.id = n THEN 1 ELSE 0
<1>1. /\ src[l] \in Source /\ SrcTypes(src[l], l) /\ src \in [Collectors -> Source]
      /\ Emptied(src[l]) /\ upd \in Seq(Polled)
  BY DEF AgentTypes, PipeTypes, CloseInv
<1>2. ~updClosed
  BY <1>1 DEF AgentTypes, CloseInv, Emptied, Pass
<1>3. /\ UNCHANGED <<hand, store>> /\ src[l].hand # NoItem /\ upd' = Append(upd, src[l].hand)
      /\ src' = [src EXCEPT ![l].hand = NoItem]
  BY <1>2 DEF Pass
<1>4. src[l].hand \in Polled
  BY <1>1, <1>3 DEF SrcTypes
<1>5. InChannel(upd', n) = InChannel(upd, n) + b
  <2> HIDE DEF n
  <2> QED
    BY <1>1, <1>3, <1>4, ChannelPush
<1>6. src'[k].polls = src[k].polls /\ b \in Int
  BY <1>1, <1>3 DEF Source
<1>7. InSource(src'[k], n) + b = InSource(src[k], n) /\ InSource(src'[k], n) \in Nat
  <2>1. InSource(src'[k], n) \in Nat
    BY SumOfNext
  <2>2. CASE l = k
    <3>1. /\ src'[k].left = src[k].left /\ src'[k].ch = src[k].ch /\ src'[k].hand = NoItem
      BY <1>1, <1>3, <2>2 DEF Source
    <3>2. InHand(src'[k].hand, n) = 0 /\ InHand(src[k].hand, n) = b
      BY <1>3, <2>2, <3>1 DEF InHand
    <3>3. InNames(src[k].left, n) \in Nat /\ InChannel(src[k].ch, n) \in Nat
      BY <1>1, <2>2, InSourceType
    <3> HIDE DEF n, b
    <3> QED
      BY <1>6, <2>1, <3>1, <3>2, <3>3 DEF InSource
  <2>3. CASE l # k
    <3>1. b = 0
      BY <1>3, <2>3, OtherHands
    <3>2. src'[k] = src[k]
      BY <1>1, <1>3, <2>3
    <3> HIDE DEF n, b
    <3> QED
      BY <2>1, <3>1, <3>2
  <2> QED
    BY <2>2, <2>3
<1>8. InChannel(upd, n) \in Nat /\ InHand(hand, n) \in Nat
  BY SumTypes
<1>9. InSource(src'[k], n) + InChannel(upd', n) + InHand(hand', n)
        = InSource(src[k], n) + InChannel(upd, n) + InHand(hand, n)
  <2>1. hand' = hand
    BY <1>3
  <2> HIDE DEF n, b
  <2> QED
    BY <1>5, <1>6, <1>7, <1>8, <2>1
<1> QED
  BY <1>3, <1>6, <1>9, KeepsCount

(* The updater's receive moves a name. *)
LEMMA ReceiveStep ==
  ASSUME AgentTypes, AgentTypes', NEW k \in Collectors, NEW n \in Names \cap Counters,
         Counted(k, n), Receive
  PROVE  Counted(k, n)'
<1>1. /\ hand = NoItem /\ upd # <<>> /\ hand' = Head(upd) /\ upd' = Tail(upd)
      /\ UNCHANGED <<src, store>> /\ upd \in Seq(Polled)
  BY DEF Receive, AgentTypes, PipeTypes
<1>2. Head(upd) # NoItem
  BY <1>1, NoItemAssumption DEF Polled
<1>3. InHand(hand, n) = 0 /\ InHand(hand', n) = IF Head(upd).id = n THEN 1 ELSE 0
  BY <1>1, <1>2 DEF InHand
<1>4. /\ InChannel(upd', n) \in Nat
      /\ InChannel(upd, n) = InChannel(upd', n) + (IF Head(upd).id = n THEN 1 ELSE 0)
  BY <1>1, ChannelPop
<1>5. InSource(src'[k], n) = InSource(src[k], n) /\ InSource(src[k], n) \in Nat
  BY <1>1, SumTypes
<1>6. InSource(src'[k], n) + InChannel(upd', n) + InHand(hand', n)
        = InSource(src[k], n) + InChannel(upd, n) + InHand(hand, n)
  BY <1>3, <1>4, <1>5
<1> QED
  BY <1>1, <1>6, KeepsCount

(* A counter's item is a delta of 1, so that storing it counts one poll. *)
LEMMA HeldOne ==
  ASSUME AgentTypes, OrderInv, hand # NoItem, hand.id \in Counters
  PROVE  hand.value = [type |-> "counter", val |-> 1]
<1>1. PICK h \in Seq(Mark) : Waiting(h)
  BY DEF OrderInv
<1>2. hand = ItemAt(h[1].k, h[1].m)
  BY <1>1 DEF Waiting
<1> QED
  BY <1>2 DEF ItemAt, Reading

(* Storing it takes it out of the hand and adds it to the storage. *)
LEMMA ApplyStep ==
  ASSUME AgentTypes, AgentTypes', OrderInv, NEW k \in Collectors, NEW n \in Names \cap Counters,
         Counted(k, n), Apply
  PROVE  Counted(k, n)'
<1> DEFINE v == hand.value
           o == OnItsWay(k, n)
           c == Level(n)
           p == src[k].polls
           b == InHand(hand, n)
<1>1. /\ hand # NoItem /\ hand' = NoItem /\ UNCHANGED <<src, upd>>
      /\ store' = [store EXCEPT ![hand.id] = IF @ = Absent THEN v ELSE Updated(@, v)]
      /\ store \in [Names -> Metric \cup {Absent}]
  BY DEF Apply, AgentTypes, PipeTypes
<1>2. c \in Int /\ o \in Int /\ p \in Int /\ b \in Nat
  BY SumTypes, SumOf
<1>3. o = OnItsWay(k, n)' + b /\ OnItsWay(k, n)' \in Int
  <2>1. InHand(hand', n) = 0
    BY <1>1 DEF InHand
  <2>2. OnItsWay(k, n)' = InSource(src[k], n) + InChannel(upd, n) + InHand(hand', n)
    BY <1>1, SumOfNext
  <2>3. o = InSource(src[k], n) + InChannel(upd, n) + b
    BY SumOf
  <2>4. InSource(src[k], n) \in Nat /\ InChannel(upd, n) \in Nat
    BY SumTypes
  <2> HIDE DEF o, b
  <2> QED
    BY <1>2, <2>1, <2>2, <2>3, <2>4
<1>4. CASE hand.id # n
  <2>1. b = 0
    BY <1>4 DEF InHand
  <2>2. Level(n)' = c
    BY <1>1, <1>4 DEF Level
  <2>3. OnItsWay(k, n)' = o
    <3> HIDE DEF b, o
    <3> QED
      BY <1>2, <1>3, <2>1
  <2> QED
    BY <1>1, <2>2, <2>3 DEF Counted
<1>5. CASE hand.id = n
  <2>1. b = 1
    BY <1>1, <1>5 DEF InHand
  <2>2. v = [type |-> "counter", val |-> 1]
    BY <1>1, <1>5, HeldOne
  <2>3. Level(n)' = c + 1 \/ Level(n)' = Wrap(c + 1)
    <3> HIDE DEF v
    <3>1. CASE store[n] = Absent
      <4>1. store'[n] = v
        BY <1>1, <1>5, <3>1
      <4>2. v # Absent /\ v.val = 1
        BY <2>2 DEF Absent
      <4>3. c = 0
        BY <3>1 DEF Level
      <4>4. Level(n)' = 1
        BY <4>1, <4>2 DEF Level
      <4> HIDE DEF c
      <4> QED
        BY <4>3, <4>4
    <3>2. CASE store[n] # Absent
      <4>1. store[n] \in Metric /\ store[n].type = "counter"
        BY <3>2 DEF AgentTypes, PipeTypes, StoreTypes, TypeOf
      <4>2. store'[n] = [store[n] EXCEPT !.val = Wrap(store[n].val + 1)]
        BY <1>1, <1>5, <2>2, <3>2, <4>1 DEF Updated
      <4>3. store[n] \in Counter
        BY <4>1 DEF Metric, Counter, Gauge
      <4>4. store'[n].type = "counter" /\ store'[n].val = Wrap(store[n].val + 1)
        BY <4>2, <4>3 DEF Counter
      <4>5. c = store[n].val
        BY <3>2 DEF Level
      <4> QED
        BY <4>4, <4>5 DEF Level, Absent
    <3> QED
      BY <3>1, <3>2
  <2>4. OnItsWay(k, n)' = o - 1
    <3> HIDE DEF o, b
    <3> QED
      BY <1>2, <1>3, <2>1
  <2>5. Wrap(Level(n)' + OnItsWay(k, n)') = Wrap(c + o)
    <3> HIDE DEF c, o
    <3>1. c + 1 \in Int /\ o - 1 \in Int /\ (c + 1) + (o - 1) = c + o
      BY <1>2
    <3>2. Wrap(Wrap(c + 1) + (o - 1)) = Wrap((c + 1) + (o - 1))
      BY <3>1, WrapAbsorbs
    <3> QED
      BY <2>3, <2>4, <3>1, <3>2
  <2> QED
    BY <1>1, <2>5 DEF Counted
<1> QED
  BY <1>4, <1>5

(* Every step of the agent keeps the count. *)
LEMMA NextCounts ==
  ASSUME AgentTypes, AgentTypes', OrderInv, PollsAreCounted, [Next]_vars
  PROVE  PollsAreCounted'
<1> SUFFICES ASSUME NEW k \in Collectors, NEW i \in DOMAIN Poll[k], Poll[k][i] \in Counters
             PROVE  Counted(k, Poll[k][i])'
  BY DEF PollsAreCounted, Counted
<1>1. Poll[k][i] \in Names \cap Counters
  BY PollAssumption
<1>2. Counted(k, Poll[k][i])
  BY DEF PollsAreCounted, Counted
<1>3. CASE UNCHANGED <<src, upd, hand, store>>
  BY <1>2, <1>3 DEF Counted, Level, OnItsWay
<1>4. ASSUME NEW l \in Collectors, Tick(l) \/ ReadFails(l) \/ Collector(l) \/ Forwarder(l)
      PROVE  Counted(k, Poll[k][i])'
  <2>1. CASE ReadFails(l)
    BY <1>3, <2>1 DEF ReadFails
  <2>2. CASE Pass(l)
    BY <1>1, <1>2, <2>2, PassStepCounts
  <2>3. CASE Tick(l) \/ Emit(l) \/ Stop(l) \/ Take(l) \/ Finish(l)
    BY <1>1, <1>2, <2>3, SourceStep
  <2> QED
    BY <1>4, <2>1, <2>2, <2>3 DEF Collector, Forwarder
<1>5. CASE Updater
  <2>1. CASE Receive
    BY <1>1, <1>2, <2>1, ReceiveStep
  <2>2. CASE Apply
    BY <1>1, <1>2, <2>2, ApplyStep
  <2> QED
    BY <1>5, <2>1, <2>2 DEF Updater
<1>6. CASE Signal \/ CloseUpdate \/ FatalMapRace
  BY <1>3, <1>6 DEF Signal, CloseUpdate, FatalMapRace
<1>7. CASE Report \/ BatchEnd \/ Main
  BY <1>3, <1>7 DEF Report, BatchEnd, Main, Visit, Push, RangeEnd, Leave
<1>8. ASSUME NEW w \in Workers, Worker(w) \/ Sent(w) PROVE Counted(k, Poll[k][i])'
  BY <1>3, <1>8 DEF Worker, Fetch, SendPanics, Sent
<1>9. CASE UNCHANGED vars
  BY <1>3, <1>9 DEF vars
<1> QED
  BY <1>4, <1>5, <1>6, <1>7, <1>8, <1>9 DEF Next

(* No poll, no delta. *)
LEMMA InitCounts == Init => PollsAreCounted
<1> SUFFICES ASSUME Init, NEW k \in Collectors, NEW n \in Counters,
                    n \in {Poll[k][i] : i \in DOMAIN Poll[k]}
             PROVE  Wrap(Level(n) + OnItsWay(k, n)) = Wrap(src[k].polls)
  BY DEF PollsAreCounted
<1>1. n \in Names
  BY PollAssumption
<1>2. /\ src[k].polls = 0 /\ src[k].left = <<>> /\ src[k].ch = <<>> /\ src[k].hand = NoItem
      /\ upd = <<>> /\ hand = NoItem /\ store[n] = Absent
  BY <1>1 DEF Init
<1>3. OnItsWay(k, n) = 0
  BY <1>2, NothingThere DEF OnItsWay, InHand
<1>4. Level(n) = 0
  BY <1>2 DEF Level
<1> QED
  BY <1>2, <1>3, <1>4

(* PollCount in the storage and the deltas on their way to it are the polls *)
(* of the collector: none is lost, doubled or mixed with another name's,   *)
(* through four hops and a signal that closes them one after the other.    *)
THEOREM NoPollIsLost == Spec => []PollsAreCounted
  BY InitCounts, NextCounts, InitOrder, NextOrder, InitAgentTypes, NextAgentTypes, PTL DEF Spec
=============================================================================
