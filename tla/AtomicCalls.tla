----------------------------- MODULE AtomicCalls -----------------------------
(***************************************************************************)
(* What the database storage promises: a call is seen as a whole, at one   *)
(* instant, or not at all.  There are no transactions, statements or locks *)
(* here.                                                                   *)
(***************************************************************************)
EXTENDS MetricRows

CONSTANT Calls      \* what a request may carry: sequences of DTO

VARIABLE table      \* per name its row, or Absent

(* One item of a call, and one whose caller had seen no row. *)
Written(row, v) == IF row = Absent THEN NewRow(v) ELSE Touched(row, v)
Created(row, v) == IF row = Absent THEN NewRow(v) ELSE Clashed(row, v)

(* What the first i items of a call make of a table, for every i; `late`    *)
(* are the items whose callers had seen no row.                             *)
Stages(t, call, late) ==
    LET after[i \in 0 .. Len(call)] ==
            IF i = 0 THEN t
            ELSE [n \in Names |->
                    IF n # call[i].id THEN after[i - 1][n]
                    ELSE IF i \in late THEN Created(after[i - 1][n], call[i].value)
                    ELSE Written(after[i - 1][n], call[i].value)]
    IN  after

Applied(call, late) == Stages(table, call, late)[Len(call)]

Init == table \in [Names -> Row \cup {Absent}]

Next ==
    \E call \in Calls : \E late \in SUBSET DOMAIN call :
        /\ \A i \in DOMAIN call : call[i].value # Nil
        /\ table' = Applied(call, late)

Spec == Init /\ [][Next]_table
=============================================================================
