-------------------------- MODULE HelperSessionInv --------------------------
(***************************************************************************)
(* The inductive invariant behind the safety properties of HelperSession,  *)
(* in named parts.                                                         *)
(***************************************************************************)
EXTENDS HelperSession

\* The program points of the helper by statement.  A point past the setup has
\* the whole payload behind it.
BeforeQuery == {"preexec", "setup", "connect"}
Selecting == {"query", "fetch", "write"}
Inserting == {"open", "read", "append", "done"}

PointsInv ==
    /\ Reads => hpc \notin Inserting /\ dest = "untouched"
    /\ ~Reads => hpc \notin Selecting
    /\ hpc \notin {"preexec", "setup", "close"} => got["setup"] = SetupLen
    /\ proc = "none" => hpc = "preexec" /\ code = "none" /\ err_due = 0
    /\ code = "none" <=> hpc # "close" /\ proc \in {"none", "alive"}
    /\ code \in {"zero", "failed", "lost"} => hpc = "close"

\* Where the data of a reading statement is.
SelectInv ==
    Reads =>
        /\ sent["data"] + chunk = made /\ made <= total
        /\ hpc \in BeforeQuery \union {"query"} => made = 0
        /\ hpc = "fetch" => chunk = 0 /\ cmd # "DESCRIBE"
        /\ hpc = "write" /\ cmd = "DESCRIBE" => made = total
        /\ code = "zero" => chunk = 0 /\ made = total

\* Where the data of an insert is.
InsertInv ==
    ~Reads =>
        /\ appended + chunk <= got["data"] /\ sent["data"] <= total
        /\ hpc \in Inserting => appended + chunk = got["data"]
        /\ hpc \in BeforeQuery \union {"open"} => got["data"] = 0
        /\ hpc \in {"open", "read", "done"} => chunk = 0
        /\ hpc = "done" => "data" \notin own /\ got["data"] = sent["data"]
        /\ code = "zero" =>
            /\ "data" \notin own /\ got["data"] = sent["data"]
            /\ dest = "committed" /\ appended = got["data"]

\* What the backend knows at each of its program points.
BackendInv ==
    /\ bpc = "start" => own = {} /\ peer = {}
    /\ bpc = "fork" => own = Channels
    /\ bpc \in {"start", "fork"} => proc = "none"
    /\ bpc \notin {"start", "fork", "raised"} => peer = {}
    /\ proc = "none" => bpc \in {"start", "fork", "raised", "ended", "dead"}
    /\ bpc = "setup" => {"setup", "data"} \subseteq own
    /\ bpc = "send" => ~Reads /\ "data" \in own
    /\ bpc \in {"recv", "eof"} => Reads
    /\ bpc \in {"setup", "send", "recv"} => ~reaped
    /\ bpc \in {"kill", "waitkid", "ended", "dead"} => own = {}
    /\ bpc = "kill" => proc # "none" /\ ~reaped
    /\ bpc = "waitkid" => proc \notin {"none", "alive"}
    /\ bpc = "ended" => proc \in {"none"} \union Collected

\* The end of the stream, as drain_and_reap's callers rely on it.
StreamEndInv ==
    /\ bpc = "eof" => then = "eof" /\ status = "zero"
    /\ then = "eof" => Reads
    /\ Reads /\ then \in {"eof", "finish"} =>
        "data" \notin own /\ got["data"] = sent["data"] /\ proc \notin {"none", "alive"}
    /\ ~Reads /\ then = "finish" => sent["data"] = total
    /\ then # "none" => bpc \notin {"start", "fork", "setup", "send", "recv"}
    /\ bpc \in {"drain", "judge"} => then # "none"

\* The wait status: known only from a reaped child, whose status is final.
StatusInv ==
    /\ reaped => proc \in Collected /\ status # "none"
    /\ ~reaped => status = "none"
    /\ reaped /\ status # "unknown" => status = code /\ proc = "gone"
    /\ proc = "gone" /\ ~reaped => bpc = "dead"
    /\ bpc \in {"eof", "judge", "returned"} /\ cmd # "QUERY" => reaped
    /\ bpc = "judge" => reaped

\* The error channel: what was captured, and that it is all once it is closed.
ErrorInv ==
    /\ err_len = Least(ErrMax, got["err"])
    /\ bpc \in {"setup", "send", "recv", "eof", "drain", "judge"} /\ "err" \notin own =>
        got["err"] = sent["err"] /\ proc \notin {"none", "alive"}
    /\ bpc = "judge" => "err" \notin own
    /\ code = "failed" =>
        sent["err"] + err_due > 0 /\ (proc # "alive" => err_due = 0)

\* What an outcome says of the rest.
OutcomeInv ==
    /\ outcome = "ok" /\ cmd # "QUERY" => then = "finish" /\ status = "zero"
    /\ outcome \in {"signalled", "failed"} =>
        /\ reaped /\ got["err"] = sent["err"]
        /\ outcome = "signalled" <=> status = "signalled"

IInv ==
    /\ TypeOK /\ PointsInv /\ SelectInv /\ InsertInv /\ BackendInv
    /\ StreamEndInv /\ StatusInv /\ ErrorInv /\ OutcomeInv /\ SetupFirst
=============================================================================
