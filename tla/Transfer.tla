------------------------------ MODULE Transfer ------------------------------
(***************************************************************************)
(* What a copy of rows promises, without blocks, buffers or triggers: rows *)
(* arrive in the order of their source and none twice, what has arrived    *)
(* stays, nothing arrives once the copy has returned or raised, and one    *)
(* that returns has dealt with all of them.                                *)
(***************************************************************************)
EXTENDS Naturals, Sequences

VARIABLES
    every,    \* a row that is dealt with arrives: nothing may take it away
    whole,    \* returning means that the source is at its end
    total,    \* the rows of the source
    dealt,    \* how many of them the copy is done with
    arrived,  \* those that have arrived, in order
    phase     \* "running", "returned", "raised"

vars == <<every, whole, total, dealt, arrived, phase>>

\* What may arrive of the rows behind row m up to row n.
Selections(m, n) ==
    {s \in UNION {[1..k -> m + 1 .. n] : k \in 0 .. n - m} :
        \A i, j \in DOMAIN s : i < j => s[i] < s[j]}

\* The rows up to n are dealt with at once.
Deal(n) ==
    /\ dealt' = n
    /\ \E s \in Selections(dealt, n) :
        /\ every => Len(s) = n - dealt
        /\ arrived' = arrived \o s
    /\ UNCHANGED <<every, whole, total>>

Init ==
    /\ every \in BOOLEAN /\ whole \in BOOLEAN
    /\ total \in Nat /\ dealt = 0 /\ arrived = <<>>
    /\ phase = "running"

Move ==
    /\ phase = "running"
    /\ \E n \in dealt + 1 .. total : Deal(n)
    /\ UNCHANGED phase

\* The last rows may arrive in the step that returns.
Return ==
    /\ phase = "running"
    /\ \E n \in dealt .. total : (whole => n = total) /\ Deal(n)
    /\ phase' = "returned"

Raise ==
    /\ phase = "running"
    /\ phase' = "raised"
    /\ UNCHANGED <<every, whole, total, dealt, arrived>>

Next == Move \/ Return \/ Raise

Spec == Init /\ [][Next]_vars
=============================================================================
