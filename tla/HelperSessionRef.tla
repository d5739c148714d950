-------------------------- MODULE HelperSessionRef --------------------------
(***************************************************************************)
(* HelperSession implements Statement.                                     *)
(***************************************************************************)
EXTENDS HelperSessionInv

\* What the mapping needs beyond IInv: the outcome at each point of the backend,
PhaseInv ==
    /\ bpc \in {"start", "fork", "setup", "send", "recv", "eof", "drain", "judge"}
        => outcome = "none"
    /\ bpc = "returned" => outcome = "ok"
    /\ bpc = "raised" => outcome \notin {"none", "ok"}
    /\ bpc \in {"kill", "waitkid", "ended"} => outcome # "none"

\* the target at each point of the helper, and that a report leaves the data
\* channel of an insert open.
TargetInv ==
    ~Reads =>
        /\ hpc \in BeforeQuery \union {"open"} => dest = "untouched"
        /\ hpc \in {"read", "append", "done"} => dest = "begun"
        /\ bpc \in {"drain", "judge"} /\ then = "report" => "data" \in own

\* The refinement mapping.  A child is up until somebody has collected it.
kindOf == IF cmd = "QUERY" THEN "query" ELSE IF Reads THEN "select" ELSE "insert"
movedOf == IF Reads THEN got["data"] ELSE appended
helperOf == IF proc = "none" THEN "none" ELSE IF proc \in Collected THEN "down" ELSE "up"
phaseOf ==
    IF bpc = "ended" THEN "over"
    ELSE IF bpc = "dead" THEN "dead"
    ELSE IF outcome = "none" THEN "running"
    ELSE IF outcome = "ok" THEN "returned" ELSE "raised"

Abstract == INSTANCE Statement WITH
    kind <- kindOf, moved <- movedOf, target <- dest, helper <- helperOf,
    phase <- phaseOf

\* Every behaviour of the backend, the helper and the kernel, under every fault,
\* is one that Statement allows.
KeepsPromise == Abstract!Spec
=============================================================================
