----------------------------- MODULE Statement -----------------------------
(***************************************************************************)
(* What a statement of the extension promises, whatever the helper process *)
(* does: it returns only with everything moved, the insert committed and   *)
(* the helper gone; it is over only once nothing of it is left running;    *)
(* and part of an insert is committed only if the statement raised or its  *)
(* backend died.  chdb_query promises less: it may return early.           *)
(***************************************************************************)
EXTENDS Naturals

VARIABLES
    kind,    \* "select", "insert", or "query"
    total,   \* the units the statement has to move
    moved,   \* the units that have reached their destination
    target,  \* of an insert: "untouched", "begun", "committed"
    helper,  \* "none", "up", "down"
    phase    \* "running", "returned", "raised", "over", "dead"

vars == <<kind, total, moved, target, helper, phase>>

Init ==
    /\ kind \in {"select", "insert", "query"}
    /\ total \in Nat /\ moved = 0
    /\ target = "untouched" /\ helper = "none"
    /\ phase = "running"

Start ==
    /\ phase = "running" /\ helper = "none"
    /\ helper' = "up"
    /\ UNCHANGED <<kind, total, moved, target, phase>>

\* Rows reach the backend while the statement runs, rows of an insert reach the
\* engine as long as the helper does.
Move ==
    /\ moved' \in moved + 1 .. total
    /\ IF kind = "insert" THEN helper = "up" /\ target = "begun"
                          ELSE helper # "none" /\ phase = "running"
    /\ UNCHANGED <<kind, total, target, helper, phase>>

Begin ==
    /\ kind = "insert" /\ helper = "up" /\ target = "untouched"
    /\ target' = "begun"
    /\ UNCHANGED <<kind, total, moved, helper, phase>>

\* As long as nothing has gone wrong, all or nothing.
Commit ==
    /\ kind = "insert" /\ helper = "up" /\ target = "begun"
    /\ moved = total \/ phase \in {"raised", "dead"}
    /\ target' = "committed"
    /\ UNCHANGED <<kind, total, moved, helper, phase>>

HelperEnds ==
    /\ helper = "up"
    /\ helper' = "down"
    /\ UNCHANGED <<kind, total, moved, target, phase>>

Return ==
    /\ phase = "running"
    /\ kind # "query" => moved = total /\ helper = "down"
    /\ kind = "insert" => target = "committed"
    /\ phase' = "returned"
    /\ UNCHANGED <<kind, total, moved, target, helper>>

Raise ==
    /\ phase = "running"
    /\ phase' = "raised"
    /\ UNCHANGED <<kind, total, moved, target, helper>>

\* The memory context of the statement goes, and the helper with it.
CleanUp ==
    /\ phase \in {"returned", "raised"}
    /\ phase' = "over"
    /\ helper' = IF helper = "up" THEN "down" ELSE helper
    /\ UNCHANGED <<kind, total, moved, target>>

Die ==
    /\ phase \in {"running", "returned", "raised"}
    /\ phase' = "dead"
    /\ UNCHANGED <<kind, total, moved, target, helper>>

Next == Start \/ Move \/ Begin \/ Commit \/ HelperEnds \/ Return \/ Raise
        \/ CleanUp \/ Die

Spec == Init /\ [][Next]_vars
=============================================================================
