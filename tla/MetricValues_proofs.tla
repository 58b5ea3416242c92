------------------------- MODULE MetricValues_proofs -------------------------
(* Facts about the values of MetricValues, for the proofs of the modules *)
(* that store them.                                                      *)
EXTENDS MetricValues, TLAPS

(* Go's wrapped addition stays within an int64, whatever is added. *)
LEMMA WrapType == \A x \in Int : Wrap(x) \in Int64
<1> SUFFICES ASSUME NEW x \in Int PROVE Wrap(x) \in Int64
  OBVIOUS
<1>1. 2 * Half \in Nat \ {0}
  BY HalfAssumption
<1>2. (x + Half) % (2 * Half) \in 0 .. (2 * Half) - 1
  BY <1>1, HalfAssumption
<1> QED
  BY <1>2, HalfAssumption DEF Wrap, Int64

(* An int64 that fits is stored as it is: nothing wraps before it must. *)
LEMMA WrapIdentity == \A x \in Int64 : Wrap(x) = x
<1> SUFFICES ASSUME NEW x \in Int64 PROVE Wrap(x) = x
  OBVIOUS
<1>1. x + Half \in 0 .. (2 * Half) - 1
  BY HalfAssumption DEF Int64
<1>2. (x + Half) % (2 * Half) = x + Half
  BY <1>1, HalfAssumption
<1> QED
  BY <1>2, HalfAssumption DEF Wrap, Int64

(* Zero, the sum of no deltas, is an int64. *)
LEMMA ZeroIsInt64 == 0 \in Int64
  BY HalfAssumption DEF Int64

(* The remainder is the only r below m with x = q * m + r. *)
LEMMA ModUnique ==
  ASSUME NEW m \in Nat \ {0}, NEW x \in Int, NEW q \in Int, NEW r \in 0 .. m - 1, x = q * m + r
  PROVE  x % m = r
  OBVIOUS

(* Multiples of the modulus do not show in the remainder. *)
LEMMA ModShift ==
  ASSUME NEW m \in Nat \ {0}, NEW x \in Int, NEW k \in Int
  PROVE  (x + k * m) % m = x % m
<1> DEFINE q == x \div m
           r == x % m
<1>1. q \in Int /\ r \in 0 .. m - 1 /\ x = q * m + r
  OBVIOUS
<1>2. q + k \in Int /\ x + k * m \in Int
  BY <1>1
<1>3. x + k * m = (q + k) * m + r
  <2>1. (q + k) * m = q * m + k * m
    BY <1>1
  <2>2. q * m \in Int /\ k * m \in Int
    BY <1>1
  <2> HIDE DEF q, r
  <2> QED
    BY <1>1, <2>1, <2>2
<1> HIDE DEF q, r
<1>4. (x + k * m) % m = r
  BY <1>1, <1>2, <1>3, ModUnique
<1> QED
  BY <1>4 DEF r

(* Wrapping adds a multiple of 2 * Half, and is blind to such multiples. *)
LEMMA WrapShift == \A x \in Int : \E k \in Int : Wrap(x) = x + k * (2 * Half)
<1> SUFFICES ASSUME NEW x \in Int
             PROVE  \E k \in Int : Wrap(x) = x + k * (2 * Half)
  OBVIOUS
<1> DEFINE m == 2 * Half
           q == (x + Half) \div m
<1>1. m \in Nat \ {0} /\ x + Half \in Int
  BY HalfAssumption
<1>2. q \in Int /\ x + Half = m * q + ((x + Half) % m) /\ (x + Half) % m \in Int
  BY <1>1
<1>3. (-q) * m = -(m * q) /\ m * q \in Int
  BY <1>1, <1>2
<1> HIDE DEF q
<1>4. Wrap(x) = x + (-q) * m
  <2> HIDE DEF m
  <2> QED
    BY <1>1, <1>2, <1>3, HalfAssumption DEF Wrap, m
<1> QED
  BY <1>2, <1>4

LEMMA WrapPeriod == \A x, k \in Int : Wrap(x + k * (2 * Half)) = Wrap(x)
<1> SUFFICES ASSUME NEW x \in Int, NEW k \in Int
             PROVE  Wrap(x + k * (2 * Half)) = Wrap(x)
  OBVIOUS
<1> DEFINE m == 2 * Half
<1>1. m \in Nat \ {0} /\ x + Half \in Int /\ k * m \in Int
  BY HalfAssumption
<1>2. ((x + Half) + k * m) % m = (x + Half) % m
  BY <1>1, ModShift
<1>3. (x + k * m) + Half = (x + Half) + k * m
  <2> HIDE DEF m
  <2> QED
    BY <1>1, HalfAssumption
<1> QED
  BY <1>2, <1>3 DEF Wrap

(* A sum may be wrapped as it grows or once at its end. *)
LEMMA WrapAbsorbs == \A x, y \in Int : Wrap(Wrap(x) + y) = Wrap(x + y)
<1> SUFFICES ASSUME NEW x \in Int, NEW y \in Int
             PROVE  Wrap(Wrap(x) + y) = Wrap(x + y)
  OBVIOUS
<1>1. PICK k \in Int : Wrap(x) = x + k * (2 * Half)
  BY WrapShift
<1> DEFINE d == k * (2 * Half)
<1>2. d \in Int
  BY HalfAssumption
<1>3. Wrap(x) + y = (x + y) + d
  <2> HIDE DEF d
  <2> QED
    BY <1>1, <1>2 DEF d
<1> QED
  BY <1>3, WrapPeriod

(* UpdateValue with a value of the metric's own type never panics and never *)
(* changes the type; a counter gets the wrapped sum, a gauge the value.     *)
LEMMA UpdatedFacts ==
  ASSUME NEW m \in Metric, NEW v \in Value, m.type = v.type
  PROVE  /\ v \in Metric
         /\ Updated(m, v) \in Metric
         /\ Updated(m, v).type = m.type
         /\ v.type = "counter" =>
              /\ v.val \in Int64
              /\ m.val \in Int64
              /\ Updated(m, v).val = Wrap(m.val + v.val)
<1>1. v \in Metric
  BY DEF Metric, Counter, Gauge, Value, Nil
<1>2. CASE m.type = "gauge"
  BY <1>1, <1>2 DEF Updated
<1>3. CASE m.type = "counter"
  <2>1. m \in Counter /\ v \in Counter
    BY <1>1, <1>3 DEF Metric, Counter, Gauge
  <2>2. m.val \in Int64 /\ v.val \in Int64 /\ m.val + v.val \in Int
    BY <2>1, HalfAssumption DEF Counter, Int64
  <2>3. Updated(m, v) = [m EXCEPT !.val = Wrap(m.val + v.val)]
    BY <1>3 DEF Updated
  <2>4. Wrap(m.val + v.val) \in Int64
    BY <2>2, WrapType
  <2>5. Updated(m, v) \in Counter /\ Updated(m, v).val = Wrap(m.val + v.val)
    BY <2>1, <2>3, <2>4 DEF Counter
  <2> QED
    BY <1>1, <1>3, <2>2, <2>5 DEF Metric, Counter
<1> QED
  BY <1>2, <1>3 DEF Metric, Counter, Gauge

(* A value is nil or a metric, never both; no metric reads as absent. *)
LEMMA ValueKinds ==
  /\ \A v \in Value : v # Nil => v \in Metric
  /\ \A m \in Metric : m # Absent /\ m # Nil /\ m.type # "absent"
  BY DEF Value, Metric, Counter, Gauge, Nil, Absent
=============================================================================
