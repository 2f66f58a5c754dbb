----------------------------- MODULE AuditLedger -----------------------------
(***************************************************************************)
(* What a durable deployment promises about its decision trail, with no    *)
(* files, crashes or restarts in sight: one book of decisions that is only *)
(* ever appended to, whose charges stay within every tenant's budget for   *)
(* the whole life of the deployment, and answers that never run ahead of   *)
(* the book.                                                               *)
(***************************************************************************)
EXTENDS Integers, Sequences

CONSTANTS Tenants, Limit

VARIABLES
    book,      \* every decision on record, in decision order
    answered   \* the part of the book clients were told about

Spent(records, t) ==
    LET upto[n \in 0 .. Len(records)] ==
            IF n = 0 THEN 0
            ELSE upto[n - 1] + (IF records[n].tenant = t THEN records[n].cost ELSE 0)
    IN  upto[Len(records)]

Init == book = <<>> /\ answered = <<>>

\* A decision goes on record under the next sequence; a charge needs budget.
Record ==
    /\ UNCHANGED answered
    /\ LET before == book
           after == book'
       IN  \E t \in Tenants, cost \in {0, 1} :
             /\ after = Append(before, [seq |-> Len(before), tenant |-> t, cost |-> cost])
             /\ cost = 1 => Spent(before, t) < Limit

\* Clients are told of everything on record.
Answer ==
    /\ answered # answered'
    /\ answered' = book
    /\ UNCHANGED book

Next == Record \/ Answer

Spec == Init /\ [][Next]_<<book, answered>>
=============================================================================
