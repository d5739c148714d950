--------------------------- MODULE HelperSession ---------------------------
(***************************************************************************)
(* One statement of the extension and the chdb_helper process that answers *)
(* it: the backend side of src/helper.c, the program of                    *)
(* src/helper/chdb_helper.c, and the kernel between them (three channels,  *)
(* SIGPIPE, wait status, parent-death signal).                             *)
(*                                                                         *)
(* Channel contents are abstracted to byte positions: sent[c] units have   *)
(* been written to channel c and got[c] of them read.  What the bytes say  *)
(* is the subject of the modules SetupPayload, SendRows and ReceiveRows.   *)
(***************************************************************************)
EXTENDS Naturals

CONSTANTS
    Cmds,      \* the statements to run: COPY_FROM, COPY_TO, DESCRIBE, QUERY
    Faults,    \* what the environment may do to them
    MaxData,   \* bound on the units one statement transfers
    BlockLen,  \* units in a Native block
    SetupLen,  \* units in the setup payload
    MaxErr,    \* bound on the units the helper writes to stderr
    ErrMax,    \* CHDB_HELPER_ERR_MAX - 1, the captured units
    DataCap, SetupCap, ErrCap,  \* kernel buffer of each channel
    Builds     \* with PR_SET_PDEATHSIG, without, or both

AllCmds == {"COPY_FROM", "COPY_TO", "DESCRIBE", "QUERY"}
AllFaults == {"open", "fork", "noexec", "cancel", "raise", "decode", "death",
              "crash", "steal", "chatter",
              "io_setup", "io_send", "io_recv", "io_read", "io_write"}

ASSUME CmdsAssumption == Cmds \subseteq AllCmds
ASSUME FaultsAssumption == Faults \subseteq AllFaults
ASSUME BoundsAssumption ==
    /\ MaxData \in Nat /\ BlockLen \in Nat \ {0} /\ SetupLen \in Nat \ {0}
    /\ MaxErr \in Nat \ {0} /\ ErrMax \in Nat \ {0}
    /\ DataCap \in Nat \ {0} /\ SetupCap \in Nat \ {0} /\ ErrCap \in Nat \ {0}
ASSUME BuildsAssumption == Builds \subseteq BOOLEAN

Channels == {"data", "err", "setup"}
Cap == [c \in Channels |->
          IF c = "data" THEN DataCap ELSE IF c = "err" THEN ErrCap ELSE SetupCap]

VARIABLES
    linux,                    \* built with PR_SET_PDEATHSIG
    cmd, total,               \* the statement, and the units it has to move
    bpc, then,                \* backend: where it is; who called drain_and_reap
    own, peer,                \* channel ends the backend holds: its own, the helper's
    err_len, reaped, status,  \* struct chdbHelper
    outcome, interrupt,       \* how the statement ended; a cancel is pending
    proc, hpc, code,          \* helper: process state, program point, wait status
    chunk, err_due,           \* units in its buffer; stderr units it is writing
    armed,                    \* the parent-death signal is set
    made, appended, dest,     \* engine: units produced, units taken, the target
    sent, got                 \* the channels

statement == <<linux, cmd, total, interrupt>>
record == <<err_len, reaped, status>>
handle == <<own, peer, record>>
backend == <<bpc, then, outcome, handle>>
program == <<hpc, chunk, err_due, armed>>
helper == <<proc, code, program>>
engine == <<made, appended, dest>>
kernel == <<sent, got>>
vars == <<statement, backend, helper, engine, kernel>>

Least(a, b) == IF a < b THEN a ELSE b

----------------------------------------------------------------------------
(* The channels, as the kernel keeps them. *)

InFlight(c) == sent[c] - got[c]
Room(c) == Cap[c] - InFlight(c)

Put(c, n) == sent' = [sent EXCEPT ![c] = @ + n]
Take(c, n) == got' = [got EXCEPT ![c] = @ + n]

\* The helper's end of every channel stays open until the process exits.  A
\* copy of it that the backend still holds keeps the channel open as well.
HelperClosed(c) == proc # "alive" /\ c \notin peer

\* Variant: without FD_CLOEXEC the helper keeps them open itself.
NoCloseOnExec(c) == c \notin own /\ proc # "alive"
\* The backend's ends are close-on-exec: the helper holds no copy of them.
BackendClosed(c) == c \notin own

\* A stolen child is one whose status other code in the backend has taken.
ProcStates == {"none", "alive", "dying", "zombie", "gone", "stolen"}
Collected == {"gone", "stolen"}

\* The process stops running: its descriptors close, its status is fixed.
Dying(how) == proc' = "dying" /\ code' = how
Dies(how) ==
    Dying(how) /\ UNCHANGED <<statement, backend, program, engine, kernel>>

\* Only the state of the process changes.
Becomes(state) ==
    /\ proc' = state
    /\ UNCHANGED <<statement, backend, code, program, engine, kernel>>

----------------------------------------------------------------------------
(* Backend: chdb_helper_start. *)

At(pc) == bpc = pc
Goto(pc) == bpc' = pc

\* ereport(ERROR), and a normal return.
EndsIn(pc, how) ==
    /\ Goto(pc) /\ outcome' = how
    /\ UNCHANGED <<statement, then, handle, helper, engine, kernel>>
Raise(how) == EndsIn("raised", how)
Return == EndsIn("returned", "ok")

\* Statements that read blocks from the helper, and the one that sends them.
Reads == cmd # "COPY_TO"
StreamPoint == IF Reads THEN "recv" ELSE "send"

\* open_channel three times in this order, then set_flag.  Any of it may raise;
\* so may the access() check and build_setup before it.
Opened == {{}, {"data"}, {"data", "err"}, Channels}
OpenChannels ==
    /\ At("start")
    /\ own' = Channels /\ peer' = Channels
    /\ Goto("fork")
    /\ UNCHANGED <<statement, then, outcome, record, helper, engine, kernel>>

OpenFails ==
    /\ "open" \in Faults
    /\ At("start")
    /\ \E ends \in Opened : own' = ends /\ peer' = ends
    /\ Goto("raised") /\ outcome' = "error"
    /\ UNCHANGED <<statement, then, record, helper, engine, kernel>>

\* fork(), and the parent closing the ends that are the helper's now.
Fork ==
    /\ At("fork")
    /\ proc' = "alive"
    /\ peer' = {}
    /\ Goto("setup")
    /\ UNCHANGED <<statement, then, outcome, own, record, code, program,
                   engine, kernel>>

ForkFails ==
    /\ "fork" \in Faults
    /\ At("fork")
    /\ Raise("error")

\* write_setup: write_all on the non-blocking pipe, then close_fd.
WriteSetup ==
    /\ At("setup") /\ ~interrupt
    /\ ~HelperClosed("setup")
    /\ \E n \in 1..SetupLen :
        /\ n <= SetupLen - sent["setup"] /\ n <= Room("setup")
        /\ Put("setup", n)
    /\ UNCHANGED <<statement, backend, helper, engine, got>>

CloseSetup ==
    /\ At("setup")
    /\ sent["setup"] = SetupLen
    /\ own' = own \ {"setup"}
    /\ Goto(StreamPoint)
    /\ UNCHANGED <<statement, then, outcome, peer, record, helper, engine,
                   kernel>>

WaitFrom(pc) ==
    /\ Goto(pc) /\ then' = "report"
    /\ UNCHANGED <<statement, outcome, handle, helper, engine, kernel>>
\* Variant: report before the helper has gone.
ReportAtOnce == WaitFrom("judge")
\* report_helper: go and wait for the helper's account of itself.
Report == WaitFrom("drain")

\* A closed read end means the helper is already going.
WriteSetupPipe ==
    /\ At("setup") /\ ~interrupt
    /\ sent["setup"] < SetupLen
    /\ HelperClosed("setup")
    /\ Report

\* Any other write error is raised without waiting for the helper.
WriteSetupFails ==
    /\ "io_setup" \in Faults
    /\ At("setup") /\ ~interrupt
    /\ sent["setup"] < SetupLen
    /\ Raise("error")

----------------------------------------------------------------------------
(* Backend: the error channel. *)

\* Variant: no limit on what is kept.
DrainErrUncapped ==
    /\ "err" \in own
    /\ Take("err", InFlight("err"))
    /\ err_len' = err_len + InFlight("err")
    /\ own' = IF HelperClosed("err") THEN own \ {"err"} ELSE own
\* Variant: the channel is given up once the buffer is full.
DrainErrUntilFull ==
    /\ "err" \in own
    /\ Take("err", InFlight("err"))
    /\ err_len' = Least(ErrMax, err_len + InFlight("err"))
    /\ own' = IF HelperClosed("err") \/ err_len' = ErrMax
              THEN own \ {"err"} ELSE own
\* drain_err: take everything there is, keep the head of it, close at EOF.
DrainErr ==
    /\ "err" \in own
    /\ Take("err", InFlight("err"))
    /\ err_len' = Least(ErrMax, err_len + InFlight("err"))
    /\ own' = IF HelperClosed("err") THEN own \ {"err"} ELSE own

\* Variant: only the receiving loop drains.
BlocksInRecvOnly == At("recv") /\ InFlight("data") = 0 /\ ~HelperClosed("data")
\* The channel a loop of the backend is working on would block.
WouldBlock ==
    \/ At("setup") /\ sent["setup"] < SetupLen /\ Room("setup") = 0
                   /\ ~HelperClosed("setup")
    \/ At("send") /\ sent["data"] < total /\ Room("data") = 0
                  /\ ~HelperClosed("data")
    \/ At("recv") /\ InFlight("data") = 0 /\ ~HelperClosed("data")

DrainWhileBlocked ==
    /\ WouldBlock /\ ~interrupt
    /\ DrainErr
    /\ UNCHANGED <<statement, bpc, then, outcome, peer, reaped, status, helper,
                   engine, sent>>

----------------------------------------------------------------------------
(* Backend: the stream. *)

\* chdb_helper_recv, a read that returns data.
Recv ==
    /\ At("recv") /\ ~interrupt
    /\ \E n \in 1..DataCap : n <= InFlight("data") /\ Take("data", n)
    /\ UNCHANGED <<statement, backend, helper, engine, sent>>

\* chdb_helper_recv at end of stream: close, then drain_and_reap.
RecvEOF ==
    /\ At("recv") /\ ~interrupt
    /\ InFlight("data") = 0 /\ HelperClosed("data")
    /\ own' = own \ {"data"}
    /\ Goto("drain") /\ then' = "eof"
    /\ UNCHANGED <<statement, outcome, peer, record, helper, engine, kernel>>

\* chdb_helper_recv, any other error: report_helper with the channel open.
RecvFails ==
    /\ "io_recv" \in Faults
    /\ At("recv") /\ ~interrupt
    /\ Report

\* chdb_helper_write.
Send ==
    /\ At("send") /\ ~interrupt
    /\ ~HelperClosed("data")
    /\ \E n \in 1..DataCap :
        /\ n <= total - sent["data"] /\ n <= Room("data")
        /\ Put("data", n)
    /\ UNCHANGED <<statement, backend, helper, engine, got>>

\* EPIPE: the helper has exited, report_helper says how.
SendPipe ==
    /\ At("send") /\ ~interrupt
    /\ sent["data"] < total
    /\ HelperClosed("data")
    /\ Report

\* Any other write error takes the same report_helper path.
SendFails ==
    /\ "io_send" \in Faults
    /\ At("send") /\ ~interrupt
    /\ sent["data"] < total
    /\ Report

\* chdb_helper_finish: after the last block of COPY TO, or after the reader of
\* COPY FROM and DESCRIBE met the end of the stream.
Finish ==
    /\ \/ At("send") /\ sent["data"] = total
       \/ At("eof") /\ cmd # "QUERY"
    /\ own' = own \ {"data"}
    /\ Goto("drain") /\ then' = "finish"
    /\ UNCHANGED <<statement, outcome, peer, record, helper, engine, kernel>>

\* chdb_query returns its tuplestore at end of stream: it has no finish call.
QueryReturns ==
    /\ At("eof") /\ cmd = "QUERY"
    /\ Return

\* The decoder rejects a block.  chdb_copy_receive and chdb_native_describe
\* raise; chdb_select_receive raises for the first block only, and for a later
\* one leaves its loop the way it does after the last row.
DecodeFails ==
    /\ "decode" \in Faults
    /\ At("recv") /\ got["data"] > 0
    /\ IF cmd = "QUERY" /\ got["data"] > BlockLen
       THEN Return ELSE Raise("error")

\* The statement raises for a reason of its own: a conversion, a constraint, a
\* trigger, an out-of-memory.
StatementRaises ==
    /\ "raise" \in Faults
    /\ bpc \in {"send", "recv", "eof"}
    /\ Raise("error")

----------------------------------------------------------------------------
(* Backend: drain_and_reap, and what its three callers make of the status. *)

DrainAndReap ==
    /\ At("drain") /\ ~interrupt
    /\ DrainErr
    /\ UNCHANGED <<statement, bpc, then, outcome, peer, reaped, status, helper,
                   engine, sent>>

\* Variant: the wait is not recorded.
ReapForgotten ==
    /\ UNCHANGED reaped
    /\ \/ reaped /\ UNCHANGED <<proc, status>>
       \/ ~reaped /\ proc = "zombie" /\ proc' = "gone" /\ status' = code
       \/ ~reaped /\ proc \in Collected /\ status' = "unknown" /\ UNCHANGED proc
\* reap.  waitpid gives no status when the child was collected elsewhere.
Reap ==
    /\ reaped' = TRUE
    /\ \/ reaped /\ UNCHANGED <<proc, status>>
       \/ ~reaped /\ proc = "zombie" /\ proc' = "gone" /\ status' = code
       \/ ~reaped /\ proc \in Collected /\ status' = "unknown" /\ UNCHANGED proc

ReapDrained ==
    /\ At("drain")
    /\ "err" \notin own
    /\ Reap
    /\ Goto("judge")
    /\ UNCHANGED <<statement, then, outcome, own, peer, err_len, code, program,
                   engine, kernel>>

\* Variant: a lost channel passes for success.
SuccessOrLost == status \in {"zero", "lost"}
\* The caller's test of the status: recv and finish report unless it is zero.
\* report_helper itself waits again, finds nothing to wait for, and raises.
Success == status = "zero"

JudgeEOF ==
    /\ At("judge") /\ then = "eof" /\ Success
    /\ Goto("eof")
    /\ UNCHANGED <<statement, then, outcome, handle, helper, engine, kernel>>

JudgeFinish ==
    /\ At("judge") /\ then = "finish" /\ Success
    /\ Return

JudgeReport ==
    /\ At("judge") /\ (then = "report" \/ ~Success)
    /\ Raise(IF status = "signalled" THEN "signalled" ELSE "failed")

\* Variant: no interrupt check in drain_and_reap.
InterruptibleInLoops == bpc \in {"setup", "send", "recv"}
\* CHECK_FOR_INTERRUPTS in write_all, chdb_helper_recv and drain_and_reap, the
\* last only while the error channel is open: waitpid is not interruptible.
Interruptible ==
    \/ bpc \in {"setup", "send", "recv"}
    \/ At("drain") /\ "err" \in own

Cancel ==
    /\ interrupt /\ Interruptible
    /\ Raise("error")

----------------------------------------------------------------------------
(* Backend: stop_helper, run when the memory context of the statement goes. *)

\* Variant: the helper's ends are left open.
StopClosesOwn == own' = {} /\ UNCHANGED peer
StopCloses == own' = {} /\ peer' = {}

StopClose ==
    /\ bpc \in {"raised", "returned"}
    /\ StopCloses
    /\ IF proc # "none" /\ ~reaped THEN Goto("kill") ELSE Goto("ended")
    /\ UNCHANGED <<statement, then, outcome, record, helper, engine, kernel>>

StopKill ==
    /\ At("kill")
    /\ IF proc = "alive" THEN Dying("signalled") ELSE UNCHANGED <<proc, code>>
    /\ Goto("waitkid")
    /\ UNCHANGED <<statement, then, outcome, handle, program, engine, kernel>>

StopReap ==
    /\ At("waitkid")
    /\ Reap
    /\ Goto("ended")
    /\ UNCHANGED <<statement, then, outcome, own, peer, err_len, code, program,
                   engine, kernel>>

----------------------------------------------------------------------------
(* Helper: main of chdb_helper.  A stderr write that is under way (err_due)  *)
(* blocks everything else the program does.                                  *)

Running(pc) == proc = "alive" /\ hpc = pc /\ err_due = 0

\* fprintf(stderr, ...) of a message of one or more units.
Say == err_due' \in 1..MaxErr /\ sent["err"] + err_due' <= MaxErr

\* A message, then the way out with a nonzero status.
Fail == Say /\ hpc' = "close" /\ code' = "failed"

\* Variant: no parent-death signal.
ExecUnarmed ==
    /\ Running("preexec")
    /\ hpc' = "setup"
    /\ UNCHANGED <<statement, backend, proc, code, chunk, err_due, armed,
                   engine, kernel>>
\* exec_helper: descriptors in place, SIGPIPE default, parent-death signal,
\* execv.  A parent that has died before prctl is never noticed.
Exec ==
    /\ Running("preexec")
    /\ hpc' = "setup"
    /\ armed' = (linux /\ bpc # "dead")
    /\ UNCHANGED <<statement, backend, proc, code, chunk, err_due, engine,
                   kernel>>

\* _exit(126) and _exit(127).
ExecFails ==
    /\ "noexec" \in Faults
    /\ Running("preexec")
    /\ Dies("noexec")

\* read_setup.
ReadSetup ==
    /\ Running("setup")
    /\ \E n \in 1..SetupLen : n <= InFlight("setup") /\ Take("setup", n)
    /\ UNCHANGED <<statement, backend, helper, engine, sent>>

\* A read error or no memory for the payload.
ReadSetupFails ==
    /\ "io_read" \in Faults
    /\ Running("setup")
    /\ Fail
    /\ UNCHANGED <<statement, backend, proc, chunk, armed, engine, kernel>>

\* Variant: a truncated payload is taken.
PayloadUnchecked == got["setup"] > 0
\* take1, take2 and take_str refuse a truncated payload.
PayloadWhole == got["setup"] = SetupLen

SetupEOF ==
    /\ Running("setup")
    /\ InFlight("setup") = 0 /\ BackendClosed("setup")
    /\ IF PayloadWhole
       THEN hpc' = "connect" /\ UNCHANGED <<code, err_due>>
       ELSE Fail
    /\ UNCHANGED <<statement, backend, proc, chunk, armed, engine, kernel>>

\* chdb_connect and setup_session.
Connect ==
    /\ Running("connect")
    /\ \/ hpc' = (IF Reads THEN "query" ELSE "open") /\ UNCHANGED <<code, err_due>>
       \/ Fail
    /\ UNCHANGED <<statement, backend, proc, chunk, armed, engine, kernel>>

\* The query is accepted or refused.  run_query has its whole result at once.
Query ==
    /\ Running("query")
    /\ \/ /\ hpc' = (IF cmd = "DESCRIBE" THEN "write" ELSE "fetch")
          /\ chunk' = (IF cmd = "DESCRIBE" THEN total ELSE 0)
          /\ made' = chunk'
          /\ UNCHANGED <<code, err_due>>
       \/ Fail /\ UNCHANGED <<chunk, made>>
    /\ UNCHANGED <<statement, backend, proc, armed, appended, dest, kernel>>

\* chdb_stream_fetch_result: more of the result, its end, or an error.
Fetch ==
    /\ Running("fetch")
    /\ \/ \E n \in 1..MaxData :
             /\ made + n <= total
             /\ made' = made + n /\ chunk' = n
             /\ hpc' = "write"
             /\ UNCHANGED <<code, err_due>>
       \/ /\ made = total
          /\ hpc' = "close" /\ code' = "zero"
          /\ UNCHANGED <<chunk, made, err_due>>
       \/ Fail /\ UNCHANGED <<chunk, made>>
    /\ UNCHANGED <<statement, backend, proc, armed, appended, dest, kernel>>

\* write_all on the blocking socket.
Write ==
    /\ Running("write")
    /\ chunk > 0 /\ ~BackendClosed("data")
    /\ \E n \in 1..DataCap :
        /\ n <= chunk /\ n <= Room("data")
        /\ Put("data", n)
        /\ chunk' = chunk - n
    /\ UNCHANGED <<statement, backend, proc, code, hpc, err_due, armed, engine,
                   got>>

Written ==
    /\ Running("write")
    /\ chunk = 0
    /\ IF cmd = "DESCRIBE" THEN hpc' = "close" /\ code' = "zero"
                           ELSE hpc' = "fetch" /\ UNCHANGED code
    /\ UNCHANGED <<statement, backend, proc, chunk, err_due, armed, engine,
                   kernel>>

\* The backend has closed its end: SIGPIPE, or LOST_BACKEND when the engine
\* has SIGPIPE ignored by then.
WriteLost ==
    /\ Running("write")
    /\ chunk > 0 /\ BackendClosed("data")
    /\ \/ Dying("signalled") /\ UNCHANGED hpc
       \/ hpc' = "close" /\ code' = "lost" /\ UNCHANGED proc
    /\ UNCHANGED <<statement, backend, chunk, err_due, armed, engine, kernel>>

\* Any other error is taken for the same, while the backend is still there.
WriteFails ==
    /\ "io_write" \in Faults
    /\ Running("write")
    /\ chunk > 0
    /\ hpc' = "close" /\ code' = "lost"
    /\ UNCHANGED <<statement, backend, proc, chunk, err_due, armed, engine,
                   kernel>>

\* chdb_stream_insert_with_params_n opens the target; the buffer is allocated
\* after it.
Open ==
    /\ Running("open")
    /\ \/ hpc' = "read" /\ dest' = "begun" /\ UNCHANGED <<code, err_due>>
       \/ Fail /\ dest' \in {"untouched", "begun"}
    /\ UNCHANGED <<statement, backend, proc, chunk, armed, made, appended,
                   kernel>>

Read ==
    /\ Running("read")
    /\ \E n \in 1..DataCap :
        n <= InFlight("data") /\ Take("data", n) /\ chunk' = n
    /\ hpc' = "append"
    /\ UNCHANGED <<statement, backend, proc, code, err_due, armed, engine,
                   sent>>

\* "the backend has sent every block"
ReadEOF ==
    /\ Running("read")
    /\ InFlight("data") = 0 /\ BackendClosed("data")
    /\ hpc' = "done"
    /\ UNCHANGED <<statement, backend, proc, code, chunk, err_due, armed,
                   engine, kernel>>

\* Variant: a read error ends the insert the way end of file does.
ReadErrorIsEnd ==
    /\ "io_read" \in Faults
    /\ Running("read")
    /\ hpc' = "done"
    /\ UNCHANGED <<statement, backend, proc, code, chunk, err_due, armed, engine,
                   kernel>>
ReadFails ==
    /\ "io_read" \in Faults
    /\ Running("read")
    /\ hpc' = "close" /\ code' = "lost"
    /\ UNCHANGED <<statement, backend, proc, chunk, err_due, armed, engine,
                   kernel>>

\* chdb_stream_append.
Append ==
    /\ Running("append")
    /\ \/ appended' = appended + chunk /\ hpc' = "read"
          /\ UNCHANGED <<code, err_due>>
       \/ Fail /\ UNCHANGED appended
    /\ chunk' = 0
    /\ UNCHANGED <<statement, backend, proc, armed, made, dest, kernel>>

\* chdb_stream_done commits what was appended, if it ends between two blocks.
Done ==
    /\ Running("done")
    /\ \/ /\ appended % BlockLen = 0
          /\ dest' = "committed" /\ hpc' = "close" /\ code' = "zero"
          /\ UNCHANGED err_due
       \/ Fail /\ UNCHANGED dest
    /\ UNCHANGED <<statement, backend, proc, chunk, armed, made, appended,
                   kernel>>

\* The engine writes to stderr on its own account.
Chatter ==
    /\ "chatter" \in Faults
    /\ proc = "alive" /\ err_due = 0 /\ hpc \notin {"preexec", "setup", "close"}
    /\ sent["err"] + 1 < MaxErr
    /\ err_due' = 1
    /\ UNCHANGED <<statement, backend, proc, code, hpc, chunk, armed, engine,
                   kernel>>

\* A write to the error pipe: it blocks while the pipe is full, and is fatal
\* once nobody can read it.
WriteErr ==
    /\ proc = "alive" /\ err_due > 0
    /\ IF BackendClosed("err")
       THEN Dying("signalled") /\ UNCHANGED <<err_due, sent>>
       ELSE /\ Room("err") > 0
            /\ Put("err", 1) /\ err_due' = err_due - 1
            /\ UNCHANGED <<proc, code>>
    /\ UNCHANGED <<statement, backend, hpc, chunk, armed, engine, got>>

\* fflush, chdb_close_conn, return status.
Exit ==
    /\ Running("close")
    /\ Dies(code)

----------------------------------------------------------------------------
(* Environment and kernel. *)

\* A cancel or a terminate request reaches the backend.
Interrupt ==
    /\ "cancel" \in Faults
    /\ ~interrupt /\ bpc \notin {"ended", "dead"}
    /\ interrupt' = TRUE
    /\ UNCHANGED <<linux, cmd, total, backend, helper, engine, kernel>>

\* The backend is killed: no callback runs, the kernel closes its descriptors.
BackendDies ==
    /\ "death" \in Faults
    /\ bpc \notin {"ended", "dead"}
    /\ Goto("dead")
    /\ own' = {} /\ peer' = {}
    /\ UNCHANGED <<statement, then, outcome, record, helper, engine, kernel>>

\* libchdb aborts or segfaults, or the OOM killer takes the helper.
Crash ==
    /\ "crash" \in Faults
    /\ proc = "alive"
    /\ Dies("signalled")

\* Other code in the backend waits for any child and gets this one.
Steal ==
    /\ "steal" \in Faults
    /\ proc = "zombie" /\ bpc \notin {"ended", "dead"}
    /\ Becomes("stolen")

\* PR_SET_PDEATHSIG.
ParentDeath ==
    /\ armed /\ At("dead") /\ proc = "alive"
    /\ Dies("signalled")

\* The exit completes; init collects an orphan.
BecomesZombie ==
    /\ proc = "dying"
    /\ Becomes("zombie")

InitReaps ==
    /\ proc = "zombie" /\ At("dead")
    /\ Becomes("gone")

----------------------------------------------------------------------------

Over == bpc \in {"ended", "dead"} /\ proc \in {"none"} \union Collected
Terminated == Over /\ UNCHANGED vars

Init ==
    /\ linux \in Builds
    /\ cmd \in Cmds
    /\ total \in {n \in 0..MaxData : n % BlockLen = 0}
    /\ bpc = "start" /\ then = "none"
    /\ own = {} /\ peer = {}
    /\ err_len = 0 /\ reaped = FALSE /\ status = "none"
    /\ outcome = "none" /\ interrupt = FALSE
    /\ proc = "none" /\ hpc = "preexec" /\ code = "none"
    /\ chunk = 0 /\ err_due = 0 /\ armed = FALSE
    /\ made = 0 /\ appended = 0 /\ dest = "untouched"
    /\ sent = [c \in Channels |-> 0]
    /\ got = [c \in Channels |-> 0]

\* What the backend does of its own accord.
BackendStep ==
    \/ OpenChannels \/ Fork
    \/ WriteSetup \/ CloseSetup \/ WriteSetupPipe
    \/ DrainWhileBlocked
    \/ Recv \/ RecvEOF \/ Send \/ SendPipe \/ Finish \/ QueryReturns
    \/ DrainAndReap \/ ReapDrained
    \/ JudgeEOF \/ JudgeFinish \/ JudgeReport
    \/ Cancel
    \/ StopClose \/ StopKill \/ StopReap

\* What the helper and the engine in it do of their own accord.
HelperStep ==
    \/ Exec \/ ReadSetup \/ SetupEOF \/ Connect
    \/ Query \/ Fetch \/ Write \/ Written \/ WriteLost
    \/ Open \/ Read \/ ReadEOF \/ Append \/ Done
    \/ WriteErr \/ Exit

KernelStep == ParentDeath \/ BecomesZombie \/ InitReaps

FaultStep ==
    \/ OpenFails \/ ForkFails \/ ExecFails
    \/ WriteSetupFails \/ ReadSetupFails \/ RecvFails \/ SendFails \/ ReadFails
    \/ WriteFails
    \/ DecodeFails \/ StatementRaises \/ Interrupt \/ BackendDies
    \/ Crash \/ Steal \/ Chatter

Next == BackendStep \/ HelperStep \/ KernelStep \/ FaultStep \/ Terminated

Spec == Init /\ [][Next]_vars

\* The backend is a running process, woken by its latch, by its channels and by
\* CHDB_HELPER_POLL_MS; the kernel completes exits and delivers signals.
BackendFairness == WF_vars(BackendStep) /\ WF_vars(KernelStep)

\* The helper may hang in the engine under HangSpec, never under FairSpec.
HangSpec == Spec /\ BackendFairness
FairSpec == Spec /\ BackendFairness /\ WF_vars(HelperStep)

----------------------------------------------------------------------------
(* Properties. *)

\* The type invariant.
TypeOK ==
    /\ linux \in Builds
    /\ cmd \in Cmds /\ total \in 0..MaxData
    /\ bpc \in {"start", "fork", "setup", "send", "recv", "eof", "drain",
                "judge", "returned", "raised", "kill", "waitkid", "ended",
                "dead"}
    /\ then \in {"none", "eof", "finish", "report"}
    /\ own \subseteq Channels /\ peer \subseteq Channels
    /\ err_len \in 0..ErrMax
    /\ reaped \in BOOLEAN
    /\ status \in {"none", "zero", "failed", "lost", "signalled", "noexec",
                   "unknown"}
    /\ outcome \in {"none", "ok", "error", "signalled", "failed"}
    /\ interrupt \in BOOLEAN
    /\ proc \in ProcStates
    /\ hpc \in {"preexec", "setup", "connect", "query", "fetch", "write", "open",
                "read", "append", "done", "close"}
    /\ code \in {"none", "zero", "failed", "lost", "signalled", "noexec"}
    /\ chunk \in 0..MaxData /\ err_due \in 0..MaxErr /\ armed \in BOOLEAN
    /\ made \in 0..MaxData /\ appended \in 0..MaxData
    /\ dest \in {"untouched", "begun", "committed"}
    /\ sent \in [Channels -> Nat] /\ got \in [Channels -> Nat]
    /\ \A c \in Channels : got[c] <= sent[c] /\ sent[c] - got[c] <= Cap[c]
    /\ sent["data"] <= MaxData /\ sent["setup"] <= SetupLen
    /\ sent["err"] + err_due <= MaxErr

\* A COPY or a DESCRIBE that returns has moved all of it: the backend has read
\* every unit the query produced, or the engine has committed every unit the
\* backend sent, and the helper has exited with status zero and been reaped.
SuccessIsWhole ==
    outcome = "ok" /\ cmd # "QUERY" =>
        /\ reaped /\ status = "zero" /\ proc = "gone"
        /\ Reads => got["data"] = total
        /\ ~Reads => dest = "committed" /\ appended = total

\* "return its rows": chdb_query returns every row of the result.
QueryIsWhole == outcome = "ok" /\ cmd = "QUERY" => got["data"] = total

\* When the statement is over, however it ended, stop_helper has left neither
\* an open descriptor nor a child behind.
NothingLeaked ==
    At("ended") => own = {} /\ peer = {} /\ proc \in {"none"} \union Collected

\* stop_helper signals a child it has not waited for, so that the pid is still
\* the helper's, unless other code took the child's status away.
KillsOwnChild == At("kill") => proc \in {"alive", "dying", "zombie", "stolen"}

\* An error report that speaks for the helper has all the helper said, up to
\* the buffer, and matches the way it ended; a helper that failed has a reason.
ReportIsComplete ==
    outcome \in {"signalled", "failed"} =>
        /\ reaped /\ err_len = Least(ErrMax, sent["err"])
        /\ outcome = "signalled" <=> status = "signalled"
        /\ status = "failed" => err_len > 0

\* drain_and_reap blocks in waitpid, where no cancel reaches it, only once the
\* helper has begun to exit.
WaitIsShort ==
    At("drain") /\ "err" \notin own /\ ~reaped => proc # "alive"

\* The helper reads the whole setup payload before it touches either data
\* channel or the target.
SetupFirst ==
    (Reads /\ sent["data"] > 0) \/ (~Reads /\ got["data"] > 0) \/ dest # "untouched"
        => got["setup"] = SetupLen

\* "the backend has sent every block": the engine commits the whole insert.
CommitIsWhole == dest = "committed" => appended = total

\* The backend waits for the end of a helper that waits for the backend: the
\* error was of a channel that both still hold open.
WaitsOnBrokenChannel ==
    At("drain") /\ then = "report" /\ "data" \in own /\ proc = "alive"

\* Every statement ends, with an answer or an error, if the engine does not hang.
\* The one exception is the wait that FailureRaises is about.
StatementEnds ==
    WF_vars(HelperStep) =>
        <>(bpc \in {"ended", "dead"}) \/ <>[]WaitsOnBrokenChannel

\* "raises rather than returning on any failure": a statement whose channel
\* broke raises.
FailureRaises == At("drain") /\ then = "report" ~> bpc \in {"raised", "dead"}

\* A cancelled statement ends even when the helper hangs.
CancelEnds == interrupt ~> bpc \in {"ended", "dead"}

\* Built with PR_SET_PDEATHSIG, the helper dies with the backend wherever the
\* engine is, once the backend has heard from it: the signal is set before
\* anything is written.
DiesWithBackend ==
    linux /\ At("dead") /\ (got["err"] > 0 \/ (Reads /\ got["data"] > 0))
        ~> proc \in Collected

\* Without the parent-death signal the closed channels end the helper, as long
\* as the engine does not hang.
OrphanEnds ==
    WF_vars(HelperStep) => (At("dead") ~> proc \in {"none"} \union Collected)

\* Once the statement is over, or has been answered with the helper's own
\* status, nothing more happens to the target.
AnswerIsFinal ==
    [][At("ended") \/ outcome \in {"signalled", "failed"} => UNCHANGED engine]_vars
=============================================================================
