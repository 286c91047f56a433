----------------------------- MODULE ReviewLedger -----------------------------
(***************************************************************************)
(* What a speaker review promises whoever pays for it: no part is bought   *)
(* twice, no part is bought before the answers to all earlier parts are    *)
(* in hand, and nothing is bought once the review has published its end.   *)
(***************************************************************************)
EXTENDS Naturals

CONSTANTS
    Parts,
    Earlier(_)    \* the parts that come before a part

VARIABLES
    bought,       \* part -> how often it was paid for
    answered,     \* parts whose answer is stored
    closed        \* the review has published its end

ledger == <<bought, answered, closed>>

Init ==
    /\ bought = [p \in Parts |-> 0]
    /\ answered = {}
    /\ closed = FALSE

Buy(p) ==
    /\ ~closed
    /\ bought[p] = 0
    /\ Earlier(p) \subseteq answered
    /\ bought' = [bought EXCEPT ![p] = 1]
    /\ UNCHANGED <<answered, closed>>

Answer(p) ==
    /\ bought[p] = 1
    /\ answered' = answered \cup {p}
    /\ UNCHANGED <<bought, closed>>

Close ==
    /\ closed' = TRUE
    /\ UNCHANGED <<bought, answered>>

Next == (\E p \in Parts : Buy(p) \/ Answer(p)) \/ Close

Spec == Init /\ [][Next]_ledger
=============================================================================
