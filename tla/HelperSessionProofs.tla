------------------------ MODULE HelperSessionProofs ------------------------
(***************************************************************************)
(* Proofs of the safety properties of HelperSession, for every payload     *)
(* size, channel capacity, error limit and set of faults.                  *)
(***************************************************************************)
EXTENDS HelperSessionInv, TLAPS

USE CmdsAssumption, FaultsAssumption, BoundsAssumption, BuildsAssumption

\* The kernel buffer of every channel has a capacity.
LEMMA CapIsNat == \A c \in Channels : Cap[c] \in Nat
  BY SMT DEF Channels, Cap

\* The initial states, before chdb_helper_start, satisfy the invariant.
LEMMA InitIInv == Init => IInv
  <1> SUFFICES ASSUME Init PROVE IInv
    OBVIOUS
  <1> USE DEF Init
  <1>1. TypeOK
    <2>1. /\ sent \in [Channels -> Nat] /\ got \in [Channels -> Nat]
          /\ \A c \in Channels : sent[c] = 0 /\ got[c] = 0
      OBVIOUS
    <2>2. \A c \in Channels : got[c] <= sent[c] /\ sent[c] - got[c] <= Cap[c]
      BY <2>1, CapIsNat
    <2>3. /\ sent["data"] <= MaxData /\ sent["setup"] <= SetupLen
          /\ sent["err"] + err_due <= MaxErr
      BY <2>1 DEF Channels
    <2>4. /\ err_len \in 0..ErrMax /\ err_due \in 0..MaxErr /\ total \in 0..MaxData
          /\ chunk \in 0..MaxData /\ made \in 0..MaxData /\ appended \in 0..MaxData
      OBVIOUS
    <2>. HIDE DEF Init
    <2>5. /\ linux \in Builds
          /\ cmd \in Cmds /\ own = {} /\ peer = {} /\ bpc = "start"
          /\ then = "none" /\ reaped = FALSE /\ status = "none"
          /\ outcome = "none" /\ interrupt = FALSE /\ proc = "none"
          /\ hpc = "preexec" /\ code = "none" /\ armed = FALSE
          /\ dest = "untouched"
      BY DEF Init
    <2>. QED
      BY <2>1, <2>2, <2>3, <2>4, <2>5 DEF TypeOK, ProcStates
  <1>2. PointsInv /\ SelectInv /\ InsertInv /\ SetupFirst
    BY DEF PointsInv, SelectInv, InsertInv, SetupFirst, Channels, Reads,
           BeforeQuery, Selecting, Inserting
  <1>3. BackendInv /\ StreamEndInv /\ StatusInv
    BY DEF BackendInv, StreamEndInv, StatusInv, Reads, Collected
  <1>4. ErrorInv /\ OutcomeInv
    BY DEF ErrorInv, OutcomeInv, Channels, Least
  <1>. QED
    BY <1>1, <1>2, <1>3, <1>4 DEF IInv

\* drain_err while a channel would block.
LEMMA DrainWhileBlockedIInv == IInv /\ DrainWhileBlocked => IInv'
  <1> SUFFICES ASSUME IInv, DrainWhileBlocked PROVE IInv'
    OBVIOUS
  <1>1. TypeOK'
    BY CapIsNat DEF IInv, TypeOK, Channels, DrainWhileBlocked, DrainErr, Least,
                    InFlight, Take, statement, helper,
                    program, engine
  <1>2. PointsInv' /\ SetupFirst'
    BY DEF IInv, TypeOK, PointsInv, SetupFirst, Channels, Reads, Selecting,
           Inserting, DrainWhileBlocked, WouldBlock, DrainErr, statement,
           helper, engine, At, Room, HelperClosed, InFlight, Take, program
  <1>3. SelectInv'
    BY DEF IInv, TypeOK, PointsInv, SelectInv, Channels, Reads, BeforeQuery,
           DrainWhileBlocked, WouldBlock, DrainErr, statement, helper, engine,
           At, Room, HelperClosed, InFlight, Take, program
  <1>4. InsertInv'
    BY DEF IInv, TypeOK, PointsInv, InsertInv, Channels, Reads, BeforeQuery,
           Inserting, DrainWhileBlocked, WouldBlock, DrainErr, statement,
           helper, engine, At, Room, HelperClosed, InFlight, Take, program
  <1>5. BackendInv' /\ StreamEndInv' /\ StatusInv'
    BY DEF IInv, TypeOK, PointsInv, BackendInv, StreamEndInv, StatusInv,
           Reads, Channels, ProcStates, Collected, DrainWhileBlocked,
           WouldBlock, DrainErr, statement, helper, engine, At, Room,
           HelperClosed, InFlight, Take, program
  <1>6. ErrorInv' /\ OutcomeInv'
    BY DEF IInv, TypeOK, PointsInv, BackendInv, StatusInv, ErrorInv,
           OutcomeInv, Channels, ProcStates, Collected, Least,
           DrainWhileBlocked, WouldBlock, DrainErr, statement, helper, engine,
           At, Room, HelperClosed, InFlight, Take, program
  <1>. QED
    BY <1>1, <1>2, <1>3, <1>4, <1>5, <1>6 DEF IInv

\* stop_helper closes every descriptor.
LEMMA StopCloseIInv == IInv /\ StopClose => IInv'
  <1> SUFFICES ASSUME IInv, StopClose PROVE IInv'
    OBVIOUS
  <1>1. TypeOK'
    BY CapIsNat DEF IInv, TypeOK, SelectInv, Channels, ProcStates, Collected,
           Reads, StopClose, StopCloses, Goto, statement, record, helper,
           engine, kernel, program
  <1>2. PointsInv' /\ SetupFirst'
    BY DEF IInv, TypeOK, PointsInv, SetupFirst, Channels, Reads, Selecting,
           Inserting, StopClose, StopCloses, Goto, statement, record, helper,
           engine, kernel, program
  <1>3. SelectInv'
    BY DEF IInv, TypeOK, PointsInv, SelectInv, Channels, Reads, BeforeQuery,
           StopClose, StopCloses, Goto, statement, record, helper, engine,
           kernel, program
  <1>4. InsertInv'
    BY DEF IInv, TypeOK, PointsInv, InsertInv, Channels, Reads, BeforeQuery,
           Inserting, StopClose, StopCloses, Goto, statement, record, helper,
           engine, kernel, program
  <1>5. BackendInv' /\ StreamEndInv' /\ StatusInv'
    BY DEF IInv, TypeOK, PointsInv, BackendInv, StreamEndInv, StatusInv,
           Reads, Channels, ProcStates, Collected, StopClose, StopCloses,
           Goto, statement, record, helper, engine, kernel, program
  <1>6. ErrorInv' /\ OutcomeInv'
    BY DEF IInv, TypeOK, PointsInv, BackendInv, StatusInv, ErrorInv,
           OutcomeInv, Channels, ProcStates, Collected, Least, StopClose,
           StopCloses, Goto, statement, record, helper, engine, kernel,
           program
  <1>. QED
    BY <1>1, <1>2, <1>3, <1>4, <1>5, <1>6 DEF IInv

\* What the backend does keeps the inductive invariant: chdb_helper_start,
\* the stream, drain_and_reap, stop_helper.
LEMMA BackendStepIInv == IInv /\ BackendStep => IInv'
  <1> SUFFICES ASSUME IInv, BackendStep PROVE IInv'
    OBVIOUS
  <1> USE CapIsNat DEF IInv, TypeOK, PointsInv, SelectInv, InsertInv, BackendInv,
          StreamEndInv, StatusInv, ErrorInv, OutcomeInv, SetupFirst, Channels,
          ProcStates, Collected, Least, Reads, BeforeQuery, Selecting,
          Inserting
  <1>1. CASE OpenChannels
    BY <1>1 DEF OpenChannels, At, Goto, statement, record, helper, engine,
               kernel, program
  <1>2. CASE Fork
    BY <1>2 DEF Fork, At, Goto, statement, record, program, engine, kernel
  <1>3. CASE WriteSetup
    BY <1>3 DEF WriteSetup, At, HelperClosed, Room, Put, statement, backend,
               helper, engine, InFlight, handle, program, record
  <1>4. CASE CloseSetup
    BY <1>4 DEF CloseSetup, At, Goto, StreamPoint, statement, record, helper,
               engine, kernel, program
  <1>5. CASE WriteSetupPipe
    BY <1>5 DEF WriteSetupPipe, At, HelperClosed, Report, WaitFrom, Goto,
               statement, handle, helper, engine, kernel, record, program
  <1>6. CASE DrainWhileBlocked
    BY <1>6, DrainWhileBlockedIInv
  <1>7. CASE Recv
    BY <1>7 DEF Recv, At, InFlight, Take, statement, backend, helper, engine,
               handle, program, record
  <1>8. CASE RecvEOF
    BY <1>8 DEF RecvEOF, At, InFlight, HelperClosed, Goto, statement, record,
               helper, engine, kernel, program
  <1>9. CASE Send
    BY <1>9 DEF Send, At, HelperClosed, Room, Put, statement, backend, helper,
               engine, InFlight, handle, program, record
  <1>10. CASE SendPipe
    BY <1>10 DEF SendPipe, At, HelperClosed, Report, WaitFrom, Goto,
               statement, handle, helper, engine, kernel, record, program
  <1>11. CASE Finish
    BY <1>11 DEF Finish, At, Goto, statement, record, helper, engine, kernel,
               program
  <1>12. CASE QueryReturns
    BY <1>12 DEF QueryReturns, At, Return, EndsIn, Goto, statement, handle,
               helper, engine, kernel, record, program
  <1>13. CASE DrainAndReap
    BY <1>13 DEF DrainAndReap, At, DrainErr, statement, helper, engine, Take,
               InFlight, HelperClosed, program
  <1>14. CASE ReapDrained
    BY <1>14 DEF ReapDrained, At, Reap, Goto, statement, program, engine,
               kernel
  <1>15. CASE JudgeEOF
    BY <1>15 DEF JudgeEOF, At, Success, Goto, statement, handle, helper,
               engine, kernel, record, program
  <1>16. CASE JudgeFinish
    BY <1>16 DEF JudgeFinish, At, Success, Return, EndsIn, Goto, statement,
               handle, helper, engine, kernel, record, program
  <1>17. CASE JudgeReport
    BY <1>17 DEF JudgeReport, At, Success, Raise, EndsIn, Goto, statement,
               handle, helper, engine, kernel, record, program
  <1>18. CASE Cancel
    BY <1>18 DEF Cancel, Interruptible, Raise, At, EndsIn, Goto, statement,
               handle, helper, engine, kernel, record, program
  <1>19. CASE StopClose
    BY <1>19, StopCloseIInv
  <1>20. CASE StopKill
    BY <1>20 DEF StopKill, At, Dying, Goto, statement, handle, program,
               engine, kernel, record
  <1>21. CASE StopReap
    BY <1>21 DEF StopReap, At, Reap, Goto, statement, program, engine, kernel
  <1>. QED
    BY <1>1, <1>2, <1>3, <1>4, <1>5, <1>6, <1>7, <1>8, <1>9, <1>10, <1>11,
       <1>12, <1>13, <1>14, <1>15, <1>16, <1>17, <1>18, <1>19, <1>20,
       <1>21 DEF BackendStep

\* read_setup takes part of the payload.
LEMMA ReadSetupIInv == IInv /\ ReadSetup => IInv'
  <1> SUFFICES ASSUME IInv, ReadSetup PROVE IInv'
    OBVIOUS
  <1>1. TypeOK'
    BY CapIsNat DEF IInv, TypeOK, SelectInv, Channels, ProcStates, Collected,
           Reads, ReadSetup, Running, InFlight, Take, statement, backend,
           helper, engine, handle, program, record
  <1>2. PointsInv' /\ SetupFirst'
    BY DEF IInv, TypeOK, PointsInv, SetupFirst, Channels, Reads, Selecting,
           Inserting, ReadSetup, Running, InFlight, Take, statement, backend,
           helper, engine, handle, program, record
  <1>3. SelectInv'
    BY DEF IInv, TypeOK, PointsInv, SelectInv, Channels, Reads, BeforeQuery,
           ReadSetup, Running, InFlight, Take, statement, backend, helper,
           engine, handle, program, record
  <1>4. InsertInv'
    BY DEF IInv, TypeOK, PointsInv, InsertInv, Channels, Reads, BeforeQuery,
           Inserting, ReadSetup, Running, InFlight, Take, statement, backend,
           helper, engine, handle, program, record
  <1>5. BackendInv' /\ StreamEndInv' /\ StatusInv'
    BY DEF IInv, TypeOK, PointsInv, BackendInv, StreamEndInv, StatusInv,
           Reads, Channels, ProcStates, Collected, ReadSetup, Running,
           InFlight, Take, statement, backend, helper, engine, handle,
           program, record
  <1>6. ErrorInv' /\ OutcomeInv'
    BY DEF IInv, TypeOK, PointsInv, BackendInv, StatusInv, ErrorInv,
           OutcomeInv, Channels, ProcStates, Collected, Least, ReadSetup,
           Running, InFlight, Take, statement, backend, helper, engine,
           handle, program, record
  <1>. QED
    BY <1>1, <1>2, <1>3, <1>4, <1>5, <1>6 DEF IInv

\* The end of the setup payload, whole or truncated.
LEMMA SetupEOFIInv == IInv /\ SetupEOF => IInv'
  <1> SUFFICES ASSUME IInv, SetupEOF PROVE IInv'
    OBVIOUS
  <1>1. TypeOK'
    BY CapIsNat DEF IInv, TypeOK, SelectInv, Channels, ProcStates, Collected,
           Reads, SetupEOF, Running, InFlight, BackendClosed, PayloadWhole,
           Fail, statement, backend, engine, kernel, Say, handle, record
  <1>2. PointsInv' /\ SetupFirst'
    BY DEF IInv, TypeOK, PointsInv, SetupFirst, Channels, Reads, Selecting,
           Inserting, SetupEOF, Running, InFlight, BackendClosed,
           PayloadWhole, Fail, statement, backend, engine, kernel, Say,
           handle, record
  <1>3. SelectInv'
    BY DEF IInv, TypeOK, PointsInv, SelectInv, Channels, Reads, BeforeQuery,
           SetupEOF, Running, InFlight, BackendClosed, PayloadWhole, Fail,
           statement, backend, engine, kernel, Say, handle, record
  <1>4. InsertInv'
    BY DEF IInv, TypeOK, PointsInv, InsertInv, Channels, Reads, BeforeQuery,
           Inserting, SetupEOF, Running, InFlight, BackendClosed,
           PayloadWhole, Fail, statement, backend, engine, kernel, Say,
           handle, record
  <1>5. BackendInv' /\ StreamEndInv' /\ StatusInv'
    BY DEF IInv, TypeOK, PointsInv, BackendInv, StreamEndInv, StatusInv,
           Reads, Channels, ProcStates, Collected, SetupEOF, Running,
           InFlight, BackendClosed, PayloadWhole, Fail, statement, backend,
           engine, kernel, Say, handle, record
  <1>6. ErrorInv' /\ OutcomeInv'
    BY DEF IInv, TypeOK, PointsInv, BackendInv, StatusInv, ErrorInv,
           OutcomeInv, Channels, ProcStates, Collected, Least, SetupEOF,
           Running, InFlight, BackendClosed, PayloadWhole, Fail, statement,
           backend, engine, kernel, Say, handle, record
  <1>. QED
    BY <1>1, <1>2, <1>3, <1>4, <1>5, <1>6 DEF IInv

\* chdb_connect and setup_session.
LEMMA ConnectIInv == IInv /\ Connect => IInv'
  <1> SUFFICES ASSUME IInv, Connect PROVE IInv'
    OBVIOUS
  <1>1. TypeOK'
    BY DEF IInv, TypeOK, Channels, Reads, Connect, Running, Fail, Say,
           statement, record, handle, backend, engine, kernel
  <1>2. PointsInv' /\ SetupFirst'
    BY DEF IInv, TypeOK, PointsInv, SetupFirst, Channels, Reads, Selecting,
           Inserting, Connect, Running, Fail, statement, backend, engine,
           kernel, Say, handle, record
  <1>3. SelectInv'
    BY DEF IInv, TypeOK, PointsInv, SelectInv, Channels, Reads, BeforeQuery,
           Connect, Running, Fail, statement, backend, engine, kernel, Say,
           handle, record
  <1>4. InsertInv'
    BY DEF IInv, TypeOK, PointsInv, InsertInv, Channels, Reads, BeforeQuery,
           Inserting, Connect, Running, Fail, statement, backend, engine,
           kernel, Say, handle, record
  <1>5. BackendInv' /\ StreamEndInv' /\ StatusInv'
    BY DEF IInv, TypeOK, PointsInv, BackendInv, StreamEndInv, StatusInv,
           Reads, Channels, ProcStates, Collected, Connect, Running, Fail,
           statement, backend, engine, kernel, Say, handle, record
  <1>6. ErrorInv' /\ OutcomeInv'
    BY DEF IInv, TypeOK, PointsInv, BackendInv, StatusInv, ErrorInv,
           OutcomeInv, Channels, ProcStates, Collected, Least, Connect,
           Running, Fail, statement, backend, engine, kernel, Say, handle,
           record
  <1>. QED
    BY <1>1, <1>2, <1>3, <1>4, <1>5, <1>6 DEF IInv

\* The query accepted, with the whole result for DESCRIBE, or refused.
LEMMA QueryIInv == IInv /\ Query => IInv'
  <1> SUFFICES ASSUME IInv, Query PROVE IInv'
    OBVIOUS
  <1>1. TypeOK'
    <2>1. /\ hpc' \in {"write", "fetch", "close"} /\ code' \in {code, "failed"}
          /\ chunk' \in 0..MaxData /\ made' \in 0..MaxData
          /\ err_due' \in 0..MaxErr /\ sent["err"] + err_due' <= MaxErr
          /\ UNCHANGED <<statement, backend, proc, armed, appended, dest, kernel>>
      BY DEF IInv, TypeOK, Query, Fail, Say
    <2>. QED
      BY <2>1 DEF IInv, TypeOK, statement, backend, handle, record, kernel
  <1>2. PointsInv' /\ SetupFirst'
    BY DEF IInv, TypeOK, PointsInv, SetupFirst, Channels, Reads, Selecting,
           Inserting, Query, Running, Fail, statement, backend, kernel, Say,
           handle, record
  <1>3. SelectInv'
    <2> SUFFICES ASSUME Reads PROVE SelectInv'
      BY DEF Query, SelectInv, Reads, statement
    <2>1. hpc = "query" /\ proc = "alive"
      BY DEF Query, Running
    <2>2. sent["data"] \in Nat /\ chunk \in Nat /\ total \in Nat
      BY DEF IInv, TypeOK, Channels
    <2>3. sent["data"] = 0 /\ chunk = 0 /\ made = 0 /\ code = "none"
      BY <2>1, <2>2 DEF IInv, PointsInv, SelectInv, BeforeQuery
    <2>. QED
      BY <2>2, <2>3 DEF SelectInv, Query, Fail, Say, Reads, BeforeQuery,
                       statement, kernel
  <1>4. InsertInv'
    BY DEF IInv, TypeOK, PointsInv, InsertInv, Channels, Reads, BeforeQuery,
           Inserting, Query, Running, Fail, statement, backend, kernel, Say,
           handle, record
  <1>5. BackendInv' /\ StreamEndInv' /\ StatusInv'
    BY DEF IInv, TypeOK, PointsInv, BackendInv, StreamEndInv, StatusInv,
           Reads, Channels, ProcStates, Collected, Query, Running, Fail,
           statement, backend, kernel, Say, handle, record
  <1>6. ErrorInv' /\ OutcomeInv'
    BY DEF IInv, TypeOK, PointsInv, BackendInv, StatusInv, ErrorInv,
           OutcomeInv, Channels, ProcStates, Collected, Least, Query, Running,
           Fail, statement, backend, kernel, Say, handle, record
  <1>. QED
    BY <1>1, <1>2, <1>3, <1>4, <1>5, <1>6 DEF IInv

\* The next part of a streamed result, its end, or an error.
LEMMA FetchIInv == IInv /\ Fetch => IInv'
  <1> SUFFICES ASSUME IInv, Fetch PROVE IInv'
    OBVIOUS
  <1>1. TypeOK'
    BY CapIsNat DEF IInv, TypeOK, SelectInv, Channels, ProcStates, Collected,
           Reads, Fetch, Running, Fail, statement, backend, kernel, Say,
           handle, record
  <1>2. PointsInv' /\ SetupFirst'
    BY DEF IInv, TypeOK, PointsInv, SetupFirst, Channels, Reads, Selecting,
           Inserting, Fetch, Running, Fail, statement, backend, kernel, Say,
           handle, record
  <1>3. SelectInv'
    BY DEF IInv, TypeOK, PointsInv, SelectInv, Channels, Reads, BeforeQuery,
           Fetch, Running, Fail, statement, backend, kernel, Say, handle,
           record
  <1>4. InsertInv'
    <2>1. Reads
      BY DEF IInv, PointsInv, Selecting, Fetch, Running
    <2>. QED
      BY <2>1 DEF InsertInv, Reads, Fetch, statement
  <1>5. BackendInv' /\ StreamEndInv' /\ StatusInv'
    BY DEF IInv, TypeOK, PointsInv, BackendInv, StreamEndInv, StatusInv,
           Reads, Channels, ProcStates, Collected, Fetch, Running, Fail,
           statement, backend, kernel, Say, handle, record
  <1>6. ErrorInv' /\ OutcomeInv'
    BY DEF IInv, TypeOK, PointsInv, BackendInv, StatusInv, ErrorInv,
           OutcomeInv, Channels, ProcStates, Collected, Least, Fetch, Running,
           Fail, statement, backend, kernel, Say, handle, record
  <1>. QED
    BY <1>1, <1>2, <1>3, <1>4, <1>5, <1>6 DEF IInv

\* The helper meets the end of its input.
LEMMA ReadEOFIInv == IInv /\ ReadEOF => IInv'
  <1> SUFFICES ASSUME IInv, ReadEOF PROVE IInv'
    OBVIOUS
  <1>1. TypeOK'
    BY CapIsNat DEF IInv, TypeOK, SelectInv, Channels, ProcStates, Collected,
           Reads, ReadEOF, Running, InFlight, BackendClosed, statement,
           backend, engine, kernel, handle, record
  <1>2. PointsInv' /\ SetupFirst'
    BY DEF IInv, TypeOK, PointsInv, SetupFirst, Channels, Reads, Selecting,
           Inserting, ReadEOF, Running, InFlight, BackendClosed, statement,
           backend, engine, kernel, handle, record
  <1>3. SelectInv'
    BY DEF IInv, TypeOK, PointsInv, SelectInv, Channels, Reads, BeforeQuery,
           ReadEOF, Running, InFlight, BackendClosed, statement, backend,
           engine, kernel, handle, record
  <1>4. InsertInv'
    BY DEF IInv, TypeOK, PointsInv, InsertInv, Channels, Reads, BeforeQuery,
           Inserting, ReadEOF, Running, InFlight, BackendClosed, statement,
           backend, engine, kernel, handle, record
  <1>5. BackendInv' /\ StreamEndInv' /\ StatusInv'
    BY DEF IInv, TypeOK, PointsInv, BackendInv, StreamEndInv, StatusInv,
           Reads, Channels, ProcStates, Collected, ReadEOF, Running, InFlight,
           BackendClosed, statement, backend, engine, kernel, handle, record
  <1>6. ErrorInv' /\ OutcomeInv'
    BY DEF IInv, TypeOK, PointsInv, BackendInv, StatusInv, ErrorInv,
           OutcomeInv, Channels, ProcStates, Collected, Least, ReadEOF,
           Running, InFlight, BackendClosed, statement, backend, engine,
           kernel, handle, record
  <1>. QED
    BY <1>1, <1>2, <1>3, <1>4, <1>5, <1>6 DEF IInv

\* The helper writes to stderr, or is killed by SIGPIPE.
LEMMA WriteErrIInv == IInv /\ WriteErr => IInv'
  <1> SUFFICES ASSUME IInv, WriteErr PROVE IInv'
    OBVIOUS
  <1>1. TypeOK'
    BY CapIsNat DEF IInv, TypeOK, SelectInv, Channels, ProcStates, Collected,
           Reads, WriteErr, BackendClosed, Dying, Room, Put, statement,
           backend, engine, InFlight, handle, record
  <1>2. PointsInv' /\ SetupFirst'
    BY DEF IInv, TypeOK, PointsInv, SetupFirst, Channels, Reads, Selecting,
           Inserting, WriteErr, BackendClosed, Dying, Room, Put, statement,
           backend, engine, InFlight, handle, record
  <1>3. SelectInv'
    BY DEF IInv, TypeOK, PointsInv, SelectInv, Channels, Reads, BeforeQuery,
           WriteErr, BackendClosed, Dying, Room, Put, statement, backend,
           engine, InFlight, handle, record
  <1>4. InsertInv'
    BY DEF IInv, TypeOK, PointsInv, InsertInv, Channels, Reads, BeforeQuery,
           Inserting, WriteErr, BackendClosed, Dying, Room, Put, statement,
           backend, engine, InFlight, handle, record
  <1>5. BackendInv' /\ StreamEndInv' /\ StatusInv'
    BY DEF IInv, TypeOK, PointsInv, BackendInv, StreamEndInv, StatusInv,
           Reads, Channels, ProcStates, Collected, WriteErr, BackendClosed,
           Dying, Room, Put, statement, backend, engine, InFlight, handle,
           record
  <1>6. ErrorInv' /\ OutcomeInv'
    BY DEF IInv, TypeOK, PointsInv, BackendInv, StatusInv, ErrorInv,
           OutcomeInv, Channels, ProcStates, Collected, Least, WriteErr,
           BackendClosed, Dying, Room, Put, statement, backend, engine,
           InFlight, handle, record
  <1>. QED
    BY <1>1, <1>2, <1>3, <1>4, <1>5, <1>6 DEF IInv

\* What the helper does keeps it: main of chdb_helper and the engine in it.
LEMMA HelperStepIInv == IInv /\ HelperStep => IInv'
  <1> SUFFICES ASSUME IInv, HelperStep PROVE IInv'
    OBVIOUS
  <1> USE CapIsNat DEF IInv, TypeOK, PointsInv, SelectInv, InsertInv, BackendInv,
          StreamEndInv, StatusInv, ErrorInv, OutcomeInv, SetupFirst, Channels,
          ProcStates, Collected, Least, Reads, BeforeQuery, Selecting,
          Inserting
  <1>1. CASE Exec
    BY <1>1 DEF Exec, Running, statement, backend, engine, kernel, handle,
               record
  <1>2. CASE ReadSetup
    BY <1>2, ReadSetupIInv
  <1>3. CASE SetupEOF
    BY <1>3, SetupEOFIInv
  <1>4. CASE Connect
    BY <1>4, ConnectIInv
  <1>5. CASE Query
    BY <1>5, QueryIInv
  <1>6. CASE Fetch
    BY <1>6, FetchIInv
  <1>7. CASE Write
    BY <1>7 DEF Write, Running, BackendClosed, Room, Put, statement, backend,
               engine, InFlight, handle, record
  <1>8. CASE Written
    BY <1>8 DEF Written, Running, statement, backend, engine, kernel, handle,
               record
  <1>9. CASE WriteLost
    BY <1>9 DEF WriteLost, Running, BackendClosed, Dying, statement, backend,
               engine, kernel, handle, record
  <1>10. CASE Open
    BY <1>10 DEF Open, Running, Fail, statement, backend, kernel, Say, handle,
               record
  <1>11. CASE Read
    BY <1>11 DEF Read, Running, InFlight, Take, statement, backend, engine,
               handle, record
  <1>12. CASE ReadEOF
    BY <1>12, ReadEOFIInv
  <1>13. CASE Append
    BY <1>13 DEF Append, Running, Fail, statement, backend, kernel, Say,
               handle, record
  <1>14. CASE Done
    BY <1>14 DEF Done, Running, Fail, statement, backend, kernel, Say, handle,
               record
  <1>15. CASE WriteErr
    BY <1>15, WriteErrIInv
  <1>16. CASE Exit
    BY <1>16 DEF Exit, Running, Dies, Dying, statement, backend, program,
               engine, kernel, handle, record
  <1>. QED
    BY <1>1, <1>2, <1>3, <1>4, <1>5, <1>6, <1>7, <1>8, <1>9, <1>10, <1>11,
       <1>12, <1>13, <1>14, <1>15, <1>16 DEF HelperStep

\* What the kernel does to an exiting helper keeps it.
LEMMA KernelStepIInv == IInv /\ KernelStep => IInv'
  <1> SUFFICES ASSUME IInv, KernelStep PROVE IInv'
    OBVIOUS
  <1> USE CapIsNat DEF IInv, TypeOK, PointsInv, SelectInv, InsertInv, BackendInv,
          StreamEndInv, StatusInv, ErrorInv, OutcomeInv, SetupFirst, Channels,
          ProcStates, Collected, Least, Reads, BeforeQuery, Selecting,
          Inserting
  <1>1. CASE ParentDeath
    BY <1>1 DEF ParentDeath, At, Dies, Dying, statement, backend, program,
               engine, kernel, handle, record
  <1>2. CASE BecomesZombie
    BY <1>2 DEF BecomesZombie, Becomes, statement, backend, program, engine,
               kernel, handle, record
  <1>3. CASE InitReaps
    BY <1>3 DEF InitReaps, At, Becomes, statement, backend, program, engine,
               kernel, handle, record
  <1>. QED
    BY <1>1, <1>2, <1>3 DEF KernelStep

\* read_setup gives up.
LEMMA ReadSetupFailsIInv == IInv /\ ReadSetupFails => IInv'
  <1> SUFFICES ASSUME IInv, ReadSetupFails PROVE IInv'
    OBVIOUS
  <1>1. TypeOK'
    BY CapIsNat DEF IInv, TypeOK, SelectInv, Channels, ProcStates, Collected,
           Reads, ReadSetupFails, Running, Fail, statement, backend, engine,
           kernel, Say, handle, record
  <1>2. PointsInv' /\ SetupFirst'
    BY DEF IInv, TypeOK, PointsInv, SetupFirst, Channels, Reads, Selecting,
           Inserting, ReadSetupFails, Running, Fail, statement, backend,
           engine, kernel, Say, handle, record
  <1>3. SelectInv'
    BY DEF IInv, TypeOK, PointsInv, SelectInv, Channels, Reads, BeforeQuery,
           ReadSetupFails, Running, Fail, statement, backend, engine, kernel,
           Say, handle, record
  <1>4. InsertInv'
    BY DEF IInv, TypeOK, PointsInv, InsertInv, Channels, Reads, BeforeQuery,
           Inserting, ReadSetupFails, Running, Fail, statement, backend,
           engine, kernel, Say, handle, record
  <1>5. BackendInv' /\ StreamEndInv' /\ StatusInv'
    BY DEF IInv, TypeOK, PointsInv, BackendInv, StreamEndInv, StatusInv,
           Reads, Channels, ProcStates, Collected, ReadSetupFails, Running,
           Fail, statement, backend, engine, kernel, Say, handle, record
  <1>6. ErrorInv' /\ OutcomeInv'
    BY DEF IInv, TypeOK, PointsInv, BackendInv, StatusInv, ErrorInv,
           OutcomeInv, Channels, ProcStates, Collected, Least, ReadSetupFails,
           Running, Fail, statement, backend, engine, kernel, Say, handle,
           record
  <1>. QED
    BY <1>1, <1>2, <1>3, <1>4, <1>5, <1>6 DEF IInv

\* The decoder rejects a block.
LEMMA DecodeFailsIInv == IInv /\ DecodeFails => IInv'
  <1> SUFFICES ASSUME IInv, DecodeFails PROVE IInv'
    OBVIOUS
  <1>1. TypeOK'
    <2>1. /\ bpc' \in {"returned", "raised"} /\ outcome' \in {"ok", "error"}
          /\ UNCHANGED <<statement, then, handle, helper, engine, kernel>>
      BY DEF DecodeFails, Return, Raise, EndsIn, Goto
    <2>. QED
      BY <2>1 DEF IInv, TypeOK, statement, handle, record, helper, program,
                  engine, kernel
  <1>2. PointsInv' /\ SetupFirst'
    BY DEF IInv, TypeOK, PointsInv, SetupFirst, Channels, Reads, Selecting,
           Inserting, DecodeFails, At, Return, Raise, EndsIn, Goto, statement,
           handle, helper, engine, kernel, record, program
  <1>3. SelectInv'
    BY DEF IInv, TypeOK, PointsInv, SelectInv, Channels, Reads, BeforeQuery,
           DecodeFails, At, Return, Raise, EndsIn, Goto, statement, handle,
           helper, engine, kernel, record, program
  <1>4. InsertInv'
    BY DEF IInv, TypeOK, PointsInv, InsertInv, Channels, Reads, BeforeQuery,
           Inserting, DecodeFails, At, Return, Raise, EndsIn, Goto, statement,
           handle, helper, engine, kernel, record, program
  <1>5. BackendInv' /\ StreamEndInv' /\ StatusInv'
    BY DEF IInv, TypeOK, PointsInv, BackendInv, StreamEndInv, StatusInv,
           Reads, Channels, ProcStates, Collected, DecodeFails, At, Return,
           Raise, EndsIn, Goto, statement, handle, helper, engine, kernel,
           record, program
  <1>6. ErrorInv' /\ OutcomeInv'
    BY DEF IInv, TypeOK, PointsInv, BackendInv, StatusInv, ErrorInv,
           OutcomeInv, Channels, ProcStates, Collected, Least, DecodeFails,
           At, Return, Raise, EndsIn, Goto, statement, handle, helper, engine,
           kernel, record, program
  <1>. QED
    BY <1>1, <1>2, <1>3, <1>4, <1>5, <1>6 DEF IInv

\* No fault of the environment, of the channels or of the engine breaks it.
LEMMA FaultStepIInv == IInv /\ FaultStep => IInv'
  <1> SUFFICES ASSUME IInv, FaultStep PROVE IInv'
    OBVIOUS
  <1> USE CapIsNat DEF IInv, TypeOK, PointsInv, SelectInv, InsertInv, BackendInv,
          StreamEndInv, StatusInv, ErrorInv, OutcomeInv, SetupFirst, Channels,
          ProcStates, Collected, Least, Reads, BeforeQuery, Selecting,
          Inserting
  <1>1. CASE OpenFails
    BY <1>1 DEF OpenFails, At, Opened, Goto, statement, record, helper,
               engine, kernel, program
  <1>2. CASE ForkFails
    BY <1>2 DEF ForkFails, At, Raise, EndsIn, Goto, statement, handle, helper,
               engine, kernel, record, program
  <1>3. CASE ExecFails
    BY <1>3 DEF ExecFails, Running, Dies, Dying, statement, backend, program,
               engine, kernel, handle, record
  <1>4. CASE WriteSetupFails
    BY <1>4 DEF WriteSetupFails, At, Raise, EndsIn, Goto, statement, handle,
               helper, engine, kernel, record, program
  <1>5. CASE ReadSetupFails
    BY <1>5, ReadSetupFailsIInv
  <1>6. CASE RecvFails
    BY <1>6 DEF RecvFails, At, Report, WaitFrom, Goto, statement, handle,
               helper, engine, kernel, record, program
  <1>7. CASE SendFails
    BY <1>7 DEF SendFails, At, Report, WaitFrom, Goto, statement, handle,
               helper, engine, kernel, record, program
  <1>8. CASE ReadFails
    BY <1>8 DEF ReadFails, Running, statement, backend, engine, kernel,
               handle, record
  <1>9. CASE DecodeFails
    BY <1>9, DecodeFailsIInv
  <1>10. CASE StatementRaises
    BY <1>10 DEF StatementRaises, Raise, EndsIn, Goto, statement, handle,
               helper, engine, kernel, record, program
  <1>11. CASE Interrupt
    BY <1>11 DEF Interrupt, backend, helper, engine, kernel, handle, program,
               record
  <1>12. CASE BackendDies
    BY <1>12 DEF BackendDies, Goto, statement, record, helper, engine, kernel,
               program
  <1>13. CASE Crash
    BY <1>13 DEF Crash, Dies, Dying, statement, backend, program, engine,
               kernel, handle, record
  <1>14. CASE Steal
    BY <1>14 DEF Steal, Becomes, statement, backend, program, engine, kernel,
               handle, record
  <1>15. CASE Chatter
    BY <1>15 DEF Chatter, statement, backend, engine, kernel, handle, record
  <1>16. CASE WriteFails
    BY <1>16 DEF WriteFails, Running, statement, backend, engine, kernel,
               handle, record
  <1>. QED
    BY <1>1, <1>2, <1>3, <1>4, <1>5, <1>6, <1>7, <1>8, <1>9, <1>10, <1>11,
       <1>12, <1>13, <1>14, <1>15, <1>16 DEF FaultStep

\* The invariant holds in every reachable state.
THEOREM Invariance == Spec => []IInv
  <1>1. Init => IInv
    BY InitIInv
  <1>2. IInv /\ [Next]_vars => IInv'
    <2> SUFFICES ASSUME IInv, [Next]_vars PROVE IInv'
      OBVIOUS
    <2>1. CASE UNCHANGED vars
      BY <2>1 DEF vars, statement, record, handle, backend, program, helper,
                  engine, kernel, IInv, TypeOK, PointsInv, SelectInv, InsertInv,
                  BackendInv, StreamEndInv, StatusInv,
                  ErrorInv, OutcomeInv, SetupFirst, Reads
    <2>2. CASE Terminated
      BY <2>1, <2>2 DEF Terminated
    <2>. QED
      BY <2>1, <2>2, BackendStepIInv, HelperStepIInv, KernelStepIInv,
         FaultStepIInv DEF Next
  <1>. QED
    BY <1>1, <1>2, PTL DEF Spec

\* Every variable keeps its type; the captured error text stays inside err_buf
\* and no channel holds more than its capacity.
THEOREM TypeCorrect == Spec => []TypeOK
  <1>1. IInv => TypeOK
    BY DEF IInv
  <1>. QED
    BY <1>1, Invariance, PTL

\* chdb_helper_finish lets a COPY or a DESCRIBE return only when all of it has
\* been read, or committed, and the helper has exited with status zero.
THEOREM SuccessWhole == Spec => []SuccessIsWhole
  <1>1. IInv => SuccessIsWhole
    BY DEF IInv, TypeOK, SelectInv, InsertInv, StreamEndInv, StatusInv,
           OutcomeInv, SuccessIsWhole, Reads, Channels
  <1>. QED
    BY <1>1, Invariance, PTL

\* stop_helper leaves neither a descriptor nor a child, however the statement
\* ended and wherever the helper was.
THEOREM NoLeak == Spec => []NothingLeaked
  <1>1. IInv => NothingLeaked
    BY DEF IInv, BackendInv, NothingLeaked, At, Collected
  <1>. QED
    BY <1>1, Invariance, PTL

\* stop_helper never signals a pid it has already given back to the kernel.
THEOREM KillSafe == Spec => []KillsOwnChild
  <1>1. IInv => KillsOwnChild
    BY DEF IInv, TypeOK, BackendInv, StatusInv, KillsOwnChild, At, ProcStates,
           Collected
  <1>. QED
    BY <1>1, Invariance, PTL

\* report_helper has the whole of what the helper said, up to its buffer, and
\* the status that goes with it.
THEOREM ReportComplete == Spec => []ReportIsComplete
  <1>1. IInv => ReportIsComplete
    BY DEF IInv, TypeOK, StatusInv, ErrorInv, OutcomeInv, ReportIsComplete,
           Least, Channels
  <1>. QED
    BY <1>1, Invariance, PTL

\* waitpid, which no cancel interrupts, is entered by drain_and_reap only for
\* a helper that is already exiting.
THEOREM WaitShort == Spec => []WaitIsShort
  <1>1. IInv => WaitIsShort
    BY DEF IInv, ErrorInv, WaitIsShort, At
  <1>. QED
    BY <1>1, Invariance, PTL

\* The helper has the whole setup payload before any data moves and before the
\* target of an insert is touched.
THEOREM SetupBeforeData == Spec => []SetupFirst
  <1>1. IInv => SetupFirst
    BY DEF IInv
  <1>. QED
    BY <1>1, Invariance, PTL

\* Once the statement is over, or answered with the helper's own status, the
\* target of the copy does not change any more.
THEOREM FinalAnswer == Spec => AnswerIsFinal
  <1>1. IInv /\ [Next]_vars
          => [At("ended") \/ outcome \in {"signalled", "failed"} => UNCHANGED engine]_vars
    <2> SUFFICES ASSUME IInv, [Next]_vars,
                        At("ended") \/ outcome \in {"signalled", "failed"},
                        ~ UNCHANGED vars
                 PROVE  UNCHANGED engine
      OBVIOUS
    <2>1. proc # "alive"
      BY DEF IInv, BackendInv, StatusInv, OutcomeInv, At, Collected
    <2>2. CASE BackendStep
      BY <2>2 DEF BackendStep, OpenChannels, Fork, WriteSetup, CloseSetup,
         WriteSetupPipe, DrainWhileBlocked, Recv, RecvEOF, Send, SendPipe, Finish,
         QueryReturns, DrainAndReap, ReapDrained, JudgeEOF, JudgeFinish,
         JudgeReport, Cancel, StopClose, StopKill, StopReap, EndsIn, Raise,
         Return, WaitFrom, Report, engine
    <2>3. CASE HelperStep
      BY <2>1, <2>3 DEF HelperStep, Exec, ReadSetup, SetupEOF, Connect, Query,
         Fetch, Write, Written, WriteLost, Open, Read, ReadEOF, Append, Done,
         WriteErr, Exit, Dies, Running, engine
    <2>4. CASE KernelStep
      BY <2>4 DEF KernelStep, ParentDeath, BecomesZombie, InitReaps, Dies,
         Becomes, engine
    <2>5. CASE FaultStep
      BY <2>5 DEF FaultStep, OpenFails, ForkFails, ExecFails, WriteSetupFails,
         ReadSetupFails, RecvFails, SendFails, ReadFails, WriteFails, DecodeFails,
         StatementRaises, Interrupt, BackendDies, Crash, Steal, Chatter, EndsIn,
         Raise, Return, WaitFrom, Report, Dies, Becomes, engine
    <2>. QED
      BY <2>2, <2>3, <2>4, <2>5 DEF Next, Terminated, vars
  <1>. QED
    BY <1>1, Invariance, PTL DEF Spec, AnswerIsFinal
=============================================================================
