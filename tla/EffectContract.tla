--------------------------- MODULE EffectContract ---------------------------
(***************************************************************************)
(* What the MCP server promises about tool calls that write: the effect of *)
(* a request happens at most once however often the request is retried,    *)
(* only an effect is billed and it is billed once, and an acknowledgement  *)
(* is given only for an effect that happened and was billed.               *)
(***************************************************************************)
CONSTANTS
    Requests,
    Runs      \* the occasions a request may be run on

VARIABLES
    done,    \* <<request, run>> of the effects in the tenant's memory
    billed,  \* requests charged to the tenant's budget
    acked    \* requests some attempt of which was acknowledged

Init == done = {} /\ billed = {} /\ acked = {}

HasRun(r) == \E n \in Runs : <<r, n>> \in done

Perform(r, n) ==
    /\ ~HasRun(r)
    /\ done' = done \cup {<<r, n>>}
    /\ UNCHANGED <<billed, acked>>

Bill(r) ==
    /\ HasRun(r) /\ r \notin billed
    /\ billed' = billed \cup {r}
    /\ UNCHANGED <<done, acked>>

Acknowledge(r) ==
    /\ HasRun(r) /\ r \in billed
    /\ acked' = acked \cup {r}
    /\ UNCHANGED <<done, billed>>

Next ==
    \E r \in Requests :
        \/ \E n \in Runs : Perform(r, n)
        \/ Bill(r)
        \/ Acknowledge(r)

Spec == Init /\ [][Next]_<<done, billed, acked>>
=============================================================================
