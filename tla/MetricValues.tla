---------------------------- MODULE MetricValues ----------------------------
(***************************************************************************)
(* The values the whole program passes around (storage/models.go): a       *)
(* metric is a gauge, which holds a float64, or a counter, which holds an  *)
(* int64 and wraps around.  An update carries an `interface{}`, which may  *)
(* also be nil: a JSON request may leave out the field its type calls for. *)
(***************************************************************************)
EXTENDS Integers, Sequences

CONSTANTS
    Names,      \* metric names a request may carry
    Half,       \* 2^63 in the code: an int64 lies in -Half .. Half-1
    Floats      \* the float64 values a request may carry

ASSUME HalfAssumption == Half \in Nat \ {0}

Int64 == -Half .. Half - 1

(* Mutated form of Wrap: a counter wider than its int64. *)
Unbounded(x) == x

(* Go's int64 addition: overflow wraps. *)
Wrap(x) == ((x + Half) % (2 * Half)) - Half

Counter == [type : {"counter"}, val : Int64]
Gauge   == [type : {"gauge"}, val : Floats]
Metric  == Counter \cup Gauge

Nil     == [type |-> "nil", val |-> 0]      \* interface{}(nil)
Absent  == [type |-> "absent", val |-> 0]   \* no entry in the map
Value   == Metric \cup {Nil}

(* One update as the storage sees it: Metrics.ID and Metrics.ActualValue. *)
DTO == [id : Names, value : Value]

(* A metric with its name: what a backup file holds and Restore inserts. *)
Line == [id : Names, value : Metric]

(* Mutated form of Updated: a counter is set, like a gauge. *)
SetOnly(m, v) == v

(* Metric.UpdateValue with a value of the metric's own type: a gauge takes *)
(* the new value, a counter adds it.                                       *)
Updated(m, v) ==
    IF m.type = "gauge" THEN v ELSE [m EXCEPT !.val = Wrap(m.val + v.val)]
=============================================================================
