------------------------------ MODULE WaitingLine ------------------------------
(***************************************************************************)
(* The FIFO of identifiers every engine registry keeps per session         *)
(* (`VecDeque<String>`): membership, duplicate-freedom, and removal of one *)
(* identifier from the middle.                                             *)
(***************************************************************************)
EXTENDS Naturals, Sequences

\* The identifiers in the line.
Waiting(q) == {q[i] : i \in 1..Len(q)}

\* No identifier waits twice.
Distinct(q) == \A i, k \in 1..Len(q) : q[i] = q[k] => i = k

LeftInLine(q, e) == q                          \* mutant: nothing is removed

\* `pending.retain(|id| id != execution_id)` on a line without duplicates:
\* everything behind the removed identifier moves up one place.
Without(q, e) ==
    IF e \notin Waiting(q)
    THEN q
    ELSE LET at == CHOOSE i \in 1..Len(q) : q[i] = e
         IN  [i \in 1..(Len(q) - 1) |-> IF i < at THEN q[i] ELSE q[i + 1]]
================================================================================
