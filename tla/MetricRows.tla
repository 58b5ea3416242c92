----------------------------- MODULE MetricRows -----------------------------
(***************************************************************************)
(* The rows of the table `metrics` and what the SQL statements of          *)
(* storage/db.go make of them.                                             *)
(***************************************************************************)
EXTENDS MetricValues

CONSTANTS
    Null,       \* SQL's NULL
    TooLong     \* names the column metric_name VARCHAR(30) does not take

ASSUME NullAssumption == Null \notin Int \cup Floats
ASSUME TooLongAssumption == TooLong \subseteq Names

Row == [mtype   : {"gauge", "counter"},
        gauge   : Floats \cup {Null},
        counter : Int64 \cup {Null}]

(* Mutated form of NewRow: the columns are created DEFAULT 0. *)
NewRowOfZeros(v) == [mtype   |-> v.type,
                     gauge   |-> IF v.type = "gauge" THEN v.val
                                 ELSE CHOOSE f \in Floats : TRUE,
                     counter |-> IF v.type = "counter" THEN v.val ELSE 0]

(* A row as INSERT creates it, the other column DEFAULT NULL. *)
NewRow(v) == [mtype   |-> v.type,
              gauge   |-> IF v.type = "gauge" THEN v.val ELSE Null,
              counter |-> IF v.type = "counter" THEN v.val ELSE Null]

(* Mutated form of Touched: the counter is set, not added to. *)
TouchedBySet(row, v) ==
    IF v.type = "gauge" THEN [row EXCEPT !.gauge = v.val]
    ELSE [row EXCEPT !.counter = v.val]

(* UPDATE writes the column of the value's type, whatever the row's type;  *)
(* NULL plus anything is NULL.                                             *)
Touched(row, v) ==
    IF v.type = "gauge" THEN [row EXCEPT !.gauge = v.val]
    ELSE [row EXCEPT !.counter = IF @ = Null THEN Null ELSE @ + v.val]

(* INSERT ... ON CONFLICT DO UPDATE on a row that is there: a gauge is set, *)
(* but a counter becomes EXCLUDED.value_counter + $3, twice the new delta,  *)
(* and what was stored is dropped.                                          *)
Clashed(row, v) ==
    IF v.type = "gauge" THEN [row EXCEPT !.gauge = v.val]
    ELSE [row EXCEPT !.counter = v.val + v.val]

(* Mutated form of Fits: a BIGINT takes any sum. *)
FitsAny(row) == TRUE

(* BIGINT does not wrap around: the statement fails instead. *)
Fits(row) == row.counter = Null \/ row.counter \in Int64

(* Get prefers the gauge, GetAll lets the counter have the last word. *)
Answer(row) == IF row.gauge # Null THEN [type |-> "gauge", val |-> row.gauge]
               ELSE [type |-> "counter", val |-> row.counter]
Listed(row) == IF row.counter # Null THEN [type |-> "counter", val |-> row.counter]
               ELSE [type |-> "gauge", val |-> row.gauge]
=============================================================================
