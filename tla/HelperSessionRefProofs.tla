---------------------- MODULE HelperSessionRefProofs ----------------------
(***************************************************************************)
(* The proof that HelperSession implements Statement: initial states map   *)
(* to initial states, and every step maps to a step or to a stutter.       *)
(***************************************************************************)
EXTENDS HelperSessionRef, HelperSessionProofs

\* The steps of the backend keep what the mapping needs.
LEMMA BackendStepRef ==
  IInv /\ PhaseInv /\ TargetInv /\ BackendStep => PhaseInv' /\ TargetInv'
  <1> SUFFICES ASSUME IInv, PhaseInv, TargetInv, BackendStep
               PROVE  PhaseInv' /\ TargetInv'
    OBVIOUS
  <1> USE DEF PhaseInv, TargetInv, BeforeQuery, Reads
  <1>1. CASE OpenChannels
    BY <1>1 DEF OpenChannels, At, Goto, statement, record, helper, engine,
               kernel, program
  <1>2. CASE Fork
    BY <1>2 DEF Fork, At, Goto, statement, record, program, engine, kernel
  <1>3. CASE WriteSetup
    BY <1>3 DEF WriteSetup, At, HelperClosed, Room, Put, statement, backend,
               helper, engine, InFlight, handle, program, record
  <1>4. CASE CloseSetup
    BY <1>4 DEF IInv, BackendInv, StreamEndInv, CloseSetup, At, Goto,
               StreamPoint, statement, record, helper, engine, kernel, program
  <1>5. CASE WriteSetupPipe
    BY <1>5 DEF IInv, BackendInv, StreamEndInv, WriteSetupPipe, At,
               HelperClosed, Report, WaitFrom, Goto, statement, handle,
               helper, engine, kernel, record, program
  <1>6. CASE DrainWhileBlocked
    BY <1>6 DEF IInv, BackendInv, StreamEndInv, DrainWhileBlocked, WouldBlock,
               DrainErr, statement, helper, engine, At, Room, HelperClosed,
               InFlight, Take, program
  <1>7. CASE Recv
    BY <1>7 DEF Recv, At, InFlight, Take, statement, backend, helper, engine,
               handle, program, record
  <1>8. CASE RecvEOF
    BY <1>8 DEF RecvEOF, At, InFlight, HelperClosed, Goto, statement, record,
               helper, engine, kernel, program
  <1>9. CASE Send
    BY <1>9 DEF Send, At, HelperClosed, Room, Put, statement, backend, helper,
               engine, InFlight, handle, program, record
  <1>10. CASE SendPipe
    BY <1>10 DEF IInv, BackendInv, StreamEndInv, SendPipe, At, HelperClosed,
               Report, WaitFrom, Goto, statement, handle, helper, engine,
               kernel, record, program
  <1>11. CASE Finish
    BY <1>11 DEF IInv, BackendInv, StreamEndInv, Finish, At, Goto, statement,
               record, helper, engine, kernel, program
  <1>12. CASE QueryReturns
    BY <1>12 DEF QueryReturns, At, Return, EndsIn, Goto, statement, handle,
               helper, engine, kernel, record, program
  <1>13. CASE DrainAndReap
    BY <1>13 DEF IInv, BackendInv, StreamEndInv, DrainAndReap, At, DrainErr,
               statement, helper, engine, Take, InFlight, HelperClosed,
               program
  <1>14. CASE ReapDrained
    BY <1>14 DEF IInv, BackendInv, StreamEndInv, ReapDrained, At, Reap, Goto,
               statement, program, engine, kernel
  <1>15. CASE JudgeEOF
    BY <1>15 DEF JudgeEOF, At, Success, Goto, statement, handle, helper,
               engine, kernel, record, program
  <1>16. CASE JudgeFinish
    BY <1>16 DEF JudgeFinish, At, Success, Return, EndsIn, Goto, statement,
               handle, helper, engine, kernel, record, program
  <1>17. CASE JudgeReport
    BY <1>17 DEF JudgeReport, At, Success, Raise, EndsIn, Goto, statement,
               handle, helper, engine, kernel, record, program
  <1>18. CASE Cancel
    BY <1>18 DEF Cancel, Interruptible, Raise, At, EndsIn, Goto, statement,
               handle, helper, engine, kernel, record, program
  <1>19. CASE StopClose
    BY <1>19 DEF IInv, BackendInv, StreamEndInv, StopClose, StopCloses, Goto,
               statement, record, helper, engine, kernel, program
  <1>20. CASE StopKill
    BY <1>20 DEF StopKill, At, Dying, Goto, statement, handle, program,
               engine, kernel, record
  <1>21. CASE StopReap
    BY <1>21 DEF IInv, BackendInv, StreamEndInv, StopReap, At, Reap, Goto,
               statement, program, engine, kernel
  <1>. QED
    BY <1>1, <1>2, <1>3, <1>4, <1>5, <1>6, <1>7, <1>8, <1>9, <1>10, <1>11,
       <1>12, <1>13, <1>14, <1>15, <1>16, <1>17, <1>18, <1>19, <1>20,
       <1>21 DEF BackendStep

\* The steps of the helper keep what the mapping needs.
LEMMA HelperStepRef ==
  IInv /\ PhaseInv /\ TargetInv /\ HelperStep => PhaseInv' /\ TargetInv'
  <1> SUFFICES ASSUME IInv, PhaseInv, TargetInv, HelperStep
               PROVE  PhaseInv' /\ TargetInv'
    OBVIOUS
  <1> USE DEF PhaseInv, TargetInv, BeforeQuery, Reads
  <1>1. CASE Exec
    BY <1>1 DEF Exec, Running, statement, backend, engine, kernel, handle,
               record
  <1>2. CASE ReadSetup
    BY <1>2 DEF ReadSetup, Running, InFlight, Take, statement, backend,
               helper, engine, handle, program, record
  <1>3. CASE SetupEOF
    BY <1>3 DEF SetupEOF, Running, InFlight, BackendClosed, PayloadWhole,
               Fail, statement, backend, engine, kernel, Say, handle, record
  <1>4. CASE Connect
    BY <1>4 DEF Connect, Running, Fail, statement, backend, engine, kernel,
               Say, handle, record
  <1>5. CASE Query
    BY <1>5 DEF Query, Running, Fail, statement, backend, kernel, Say, handle,
               record
  <1>6. CASE Fetch
    BY <1>6 DEF Fetch, Running, Fail, statement, backend, kernel, Say, handle,
               record
  <1>7. CASE Write
    BY <1>7 DEF Write, Running, BackendClosed, Room, Put, statement, backend,
               engine, InFlight, handle, record
  <1>8. CASE Written
    BY <1>8 DEF Written, Running, statement, backend, engine, kernel, handle,
               record
  <1>9. CASE WriteLost
    BY <1>9 DEF WriteLost, Running, BackendClosed, Dying, statement, backend,
               engine, kernel, handle, record
  <1>10. CASE Open
    BY <1>10 DEF Open, Running, Fail, statement, backend, kernel, Say, handle,
               record
  <1>11. CASE Read
    BY <1>11 DEF Read, Running, InFlight, Take, statement, backend, engine,
               handle, record
  <1>12. CASE ReadEOF
    BY <1>12 DEF ReadEOF, Running, InFlight, BackendClosed, statement,
               backend, engine, kernel, handle, record
  <1>13. CASE Append
    BY <1>13 DEF Append, Running, Fail, statement, backend, kernel, Say,
               handle, record
  <1>14. CASE Done
    BY <1>14 DEF Done, Running, Fail, statement, backend, kernel, Say, handle,
               record
  <1>15. CASE WriteErr
    BY <1>15 DEF WriteErr, BackendClosed, Dying, Room, Put, statement,
               backend, engine, InFlight, handle, record
  <1>16. CASE Exit
    BY <1>16 DEF Exit, Running, Dies, Dying, statement, backend, program,
               engine, kernel, handle, record
  <1>. QED
    BY <1>1, <1>2, <1>3, <1>4, <1>5, <1>6, <1>7, <1>8, <1>9, <1>10, <1>11,
       <1>12, <1>13, <1>14, <1>15, <1>16 DEF HelperStep

\* The steps of the kernel keep what the mapping needs.
LEMMA KernelStepRef ==
  IInv /\ PhaseInv /\ TargetInv /\ KernelStep => PhaseInv' /\ TargetInv'
  <1> SUFFICES ASSUME IInv, PhaseInv, TargetInv, KernelStep
               PROVE  PhaseInv' /\ TargetInv'
    OBVIOUS
  <1> USE DEF PhaseInv, TargetInv, BeforeQuery, Reads
  <1>1. CASE ParentDeath
    BY <1>1 DEF ParentDeath, At, Dies, Dying, statement, backend, program,
               engine, kernel, handle, record
  <1>2. CASE BecomesZombie
    BY <1>2 DEF BecomesZombie, Becomes, statement, backend, program, engine,
               kernel, handle, record
  <1>3. CASE InitReaps
    BY <1>3 DEF InitReaps, At, Becomes, statement, backend, program, engine,
               kernel, handle, record
  <1>. QED
    BY <1>1, <1>2, <1>3 DEF KernelStep

\* The steps of the faults keep what the mapping needs.
LEMMA FaultStepRef ==
  IInv /\ PhaseInv /\ TargetInv /\ FaultStep => PhaseInv' /\ TargetInv'
  <1> SUFFICES ASSUME IInv, PhaseInv, TargetInv, FaultStep
               PROVE  PhaseInv' /\ TargetInv'
    OBVIOUS
  <1> USE DEF PhaseInv, TargetInv, BeforeQuery, Reads
  <1>1. CASE OpenFails
    BY <1>1 DEF IInv, BackendInv, StreamEndInv, OpenFails, At, Opened, Goto,
               statement, record, helper, engine, kernel, program
  <1>2. CASE ForkFails
    BY <1>2 DEF ForkFails, At, Raise, EndsIn, Goto, statement, handle, helper,
               engine, kernel, record, program
  <1>3. CASE ExecFails
    BY <1>3 DEF ExecFails, Running, Dies, Dying, statement, backend, program,
               engine, kernel, handle, record
  <1>4. CASE WriteSetupFails
    BY <1>4 DEF WriteSetupFails, At, Raise, EndsIn, Goto, statement, handle,
               helper, engine, kernel, record, program
  <1>5. CASE ReadSetupFails
    BY <1>5 DEF ReadSetupFails, Running, Fail, statement, backend, engine,
               kernel, Say, handle, record
  <1>6. CASE RecvFails
    BY <1>6 DEF IInv, BackendInv, StreamEndInv, RecvFails, At, Report,
               WaitFrom, Goto, statement, handle, helper, engine, kernel,
               record, program
  <1>7. CASE SendFails
    BY <1>7 DEF IInv, BackendInv, StreamEndInv, SendFails, At, Report,
               WaitFrom, Goto, statement, handle, helper, engine, kernel,
               record, program
  <1>8. CASE ReadFails
    BY <1>8 DEF ReadFails, Running, statement, backend, engine, kernel,
               handle, record
  <1>9. CASE DecodeFails
    BY <1>9 DEF DecodeFails, At, Return, Raise, EndsIn, Goto, statement,
               handle, helper, engine, kernel, record, program
  <1>10. CASE StatementRaises
    BY <1>10 DEF StatementRaises, Raise, EndsIn, Goto, statement, handle,
               helper, engine, kernel, record, program
  <1>11. CASE Interrupt
    BY <1>11 DEF IInv, BackendInv, StreamEndInv, Interrupt, backend, helper,
               engine, kernel, handle, program, record
  <1>12. CASE BackendDies
    BY <1>12 DEF IInv, BackendInv, StreamEndInv, BackendDies, Goto, statement,
               record, helper, engine, kernel, program
  <1>13. CASE Crash
    BY <1>13 DEF Crash, Dies, Dying, statement, backend, program, engine,
               kernel, handle, record
  <1>14. CASE Steal
    BY <1>14 DEF Steal, Becomes, statement, backend, program, engine, kernel,
               handle, record
  <1>15. CASE Chatter
    BY <1>15 DEF Chatter, statement, backend, engine, kernel, handle, record
  <1>16. CASE WriteFails
    BY <1>16 DEF WriteFails, Running, statement, backend, engine, kernel,
               handle, record
  <1>. QED
    BY <1>1, <1>2, <1>3, <1>4, <1>5, <1>6, <1>7, <1>8, <1>9, <1>10, <1>11,
       <1>12, <1>13, <1>14, <1>15, <1>16 DEF FaultStep

\* What the steps of the backend are to the statement.
LEMMA BackendStepMaps ==
  IInv /\ PhaseInv /\ TargetInv /\ BackendStep => [Abstract!Next]_(Abstract!vars)
  <1> SUFFICES ASSUME IInv, PhaseInv, TargetInv, BackendStep
               PROVE  Abstract!Next \/ UNCHANGED Abstract!vars
    OBVIOUS
  <1> USE DEF kindOf, movedOf, helperOf, phaseOf, Reads, Collected, Abstract!vars
  <1>1. CASE OpenChannels
    BY <1>1 DEF OpenChannels, At, Goto, statement, record, helper, engine,
               kernel, program
  <1>2. CASE Fork
    BY <1>2 DEF IInv, TypeOK, PhaseInv, TargetInv, PointsInv, SelectInv,
               InsertInv, BackendInv, StreamEndInv, StatusInv, OutcomeInv,
               Channels, ProcStates, BeforeQuery, Inserting, Abstract!Next,
               Abstract!Start, Fork, At, Goto, statement, record, program,
               engine, kernel
  <1>3. CASE WriteSetup
    BY <1>3 DEF IInv, TypeOK, Channels, WriteSetup, At, HelperClosed, Room,
               Put, statement, backend, helper, engine, InFlight, handle,
               program, record
  <1>4. CASE CloseSetup
    BY <1>4 DEF CloseSetup, At, Goto, StreamPoint, statement, record, helper,
               engine, kernel, program
  <1>5. CASE WriteSetupPipe
    BY <1>5 DEF WriteSetupPipe, At, HelperClosed, Report, WaitFrom, Goto,
               statement, handle, helper, engine, kernel, record, program
  <1>6. CASE DrainWhileBlocked
    BY <1>6 DEF IInv, TypeOK, Channels, DrainWhileBlocked, WouldBlock,
               DrainErr, statement, helper, engine, At, Room, HelperClosed,
               InFlight, Take, program
  <1>7. CASE Recv
    BY <1>7 DEF IInv, TypeOK, PhaseInv, TargetInv, PointsInv, SelectInv,
               InsertInv, BackendInv, StreamEndInv, StatusInv, OutcomeInv,
               Channels, ProcStates, BeforeQuery, Inserting, Abstract!Next,
               Abstract!Move, Recv, At, InFlight, Take, statement, backend,
               helper, engine, handle, program, record
  <1>8. CASE RecvEOF
    BY <1>8 DEF RecvEOF, At, InFlight, HelperClosed, Goto, statement, record,
               helper, engine, kernel, program
  <1>9. CASE Send
    BY <1>9 DEF IInv, TypeOK, Channels, Send, At, HelperClosed, Room, Put,
               statement, backend, helper, engine, InFlight, handle, program,
               record
  <1>10. CASE SendPipe
    BY <1>10 DEF SendPipe, At, HelperClosed, Report, WaitFrom, Goto,
               statement, handle, helper, engine, kernel, record, program
  <1>11. CASE Finish
    BY <1>11 DEF Finish, At, Goto, statement, record, helper, engine, kernel,
               program
  <1>12. CASE QueryReturns
    BY <1>12 DEF IInv, TypeOK, PhaseInv, TargetInv, PointsInv, SelectInv,
               InsertInv, BackendInv, StreamEndInv, StatusInv, OutcomeInv,
               Channels, ProcStates, BeforeQuery, Inserting, Abstract!Next,
               Abstract!Return, QueryReturns, At, Return, EndsIn, Goto,
               statement, handle, helper, engine, kernel, record, program
  <1>13. CASE DrainAndReap
    BY <1>13 DEF IInv, TypeOK, Channels, DrainAndReap, At, DrainErr,
               statement, helper, engine, Take, InFlight, HelperClosed,
               program
  <1>14. CASE ReapDrained
    BY <1>14 DEF IInv, TypeOK, PhaseInv, TargetInv, PointsInv, SelectInv,
               InsertInv, BackendInv, StreamEndInv, StatusInv, OutcomeInv,
               Channels, ProcStates, BeforeQuery, Inserting, Abstract!Next,
               Abstract!HelperEnds, ReapDrained, At, Reap, Goto, statement,
               program, engine, kernel
  <1>15. CASE JudgeEOF
    BY <1>15 DEF JudgeEOF, At, Success, Goto, statement, handle, helper,
               engine, kernel, record, program
  <1>16. CASE JudgeFinish
    BY <1>16 DEF IInv, TypeOK, PhaseInv, TargetInv, PointsInv, SelectInv,
               InsertInv, BackendInv, StreamEndInv, StatusInv, OutcomeInv,
               Channels, ProcStates, BeforeQuery, Inserting, Abstract!Next,
               Abstract!Return, JudgeFinish, At, Success, Return, EndsIn,
               Goto, statement, handle, helper, engine, kernel, record,
               program
  <1>17. CASE JudgeReport
    BY <1>17 DEF IInv, TypeOK, PhaseInv, TargetInv, PointsInv, SelectInv,
               InsertInv, BackendInv, StreamEndInv, StatusInv, OutcomeInv,
               Channels, ProcStates, BeforeQuery, Inserting, Abstract!Next,
               Abstract!Raise, JudgeReport, At, Success, Raise, EndsIn, Goto,
               statement, handle, helper, engine, kernel, record, program
  <1>18. CASE Cancel
    BY <1>18 DEF IInv, TypeOK, PhaseInv, TargetInv, PointsInv, SelectInv,
               InsertInv, BackendInv, StreamEndInv, StatusInv, OutcomeInv,
               Channels, ProcStates, BeforeQuery, Inserting, Abstract!Next,
               Abstract!Raise, Cancel, Interruptible, Raise, At, EndsIn, Goto,
               statement, handle, helper, engine, kernel, record, program
  <1>19. CASE StopClose
    BY <1>19 DEF IInv, TypeOK, PhaseInv, TargetInv, PointsInv, SelectInv,
               InsertInv, BackendInv, StreamEndInv, StatusInv, OutcomeInv,
               Channels, ProcStates, BeforeQuery, Inserting, Abstract!Next,
               Abstract!CleanUp, StopClose, StopCloses, Goto, statement,
               record, helper, engine, kernel, program
  <1>20. CASE StopKill
    BY <1>20 DEF StopKill, At, Dying, Goto, statement, handle, program,
               engine, kernel, record
  <1>21. CASE StopReap
    BY <1>21 DEF IInv, TypeOK, PhaseInv, TargetInv, PointsInv, SelectInv,
               InsertInv, BackendInv, StreamEndInv, StatusInv, OutcomeInv,
               Channels, ProcStates, BeforeQuery, Inserting, Abstract!Next,
               Abstract!CleanUp, StopReap, At, Reap, Goto, statement, program,
               engine, kernel
  <1>. QED
    BY <1>1, <1>2, <1>3, <1>4, <1>5, <1>6, <1>7, <1>8, <1>9, <1>10, <1>11,
       <1>12, <1>13, <1>14, <1>15, <1>16, <1>17, <1>18, <1>19, <1>20,
       <1>21 DEF BackendStep

\* What the steps of the helper are to the statement.
LEMMA HelperStepMaps ==
  IInv /\ PhaseInv /\ TargetInv /\ HelperStep => [Abstract!Next]_(Abstract!vars)
  <1> SUFFICES ASSUME IInv, PhaseInv, TargetInv, HelperStep
               PROVE  Abstract!Next \/ UNCHANGED Abstract!vars
    OBVIOUS
  <1> USE DEF kindOf, movedOf, helperOf, phaseOf, Reads, Collected, Abstract!vars
  <1>1. CASE Exec
    BY <1>1 DEF Exec, Running, statement, backend, engine, kernel, handle,
               record
  <1>2. CASE ReadSetup
    BY <1>2 DEF IInv, TypeOK, Channels, ReadSetup, Running, InFlight, Take,
               statement, backend, helper, engine, handle, program, record
  <1>3. CASE SetupEOF
    BY <1>3 DEF SetupEOF, Running, InFlight, BackendClosed, PayloadWhole,
               Fail, statement, backend, engine, kernel, Say, handle, record
  <1>4. CASE Connect
    BY <1>4 DEF Connect, Running, Fail, statement, backend, engine, kernel,
               Say, handle, record
  <1>5. CASE Query
    BY <1>5 DEF Query, Running, Fail, statement, backend, kernel, Say, handle,
               record
  <1>6. CASE Fetch
    BY <1>6 DEF Fetch, Running, Fail, statement, backend, kernel, Say, handle,
               record
  <1>7. CASE Write
    BY <1>7 DEF IInv, TypeOK, Channels, Write, Running, BackendClosed, Room,
               Put, statement, backend, engine, InFlight, handle, record
  <1>8. CASE Written
    BY <1>8 DEF Written, Running, statement, backend, engine, kernel, handle,
               record
  <1>9. CASE WriteLost
    BY <1>9 DEF WriteLost, Running, BackendClosed, Dying, statement, backend,
               engine, kernel, handle, record
  <1>10. CASE Open
    BY <1>10 DEF IInv, TypeOK, PhaseInv, TargetInv, PointsInv, SelectInv,
               InsertInv, BackendInv, StreamEndInv, StatusInv, OutcomeInv,
               Channels, ProcStates, BeforeQuery, Inserting, Abstract!Next,
               Abstract!Begin, Open, Running, Fail, statement, backend,
               kernel, Say, handle, record
  <1>11. CASE Read
    BY <1>11 DEF IInv, TypeOK, Channels, PointsInv, Inserting, Read, Running,
               InFlight, Take, statement, backend, engine, handle, record
  <1>12. CASE ReadEOF
    BY <1>12 DEF ReadEOF, Running, InFlight, BackendClosed, statement,
               backend, engine, kernel, handle, record
  <1>13. CASE Append
    BY <1>13 DEF IInv, TypeOK, PhaseInv, TargetInv, PointsInv, SelectInv,
               InsertInv, BackendInv, StreamEndInv, StatusInv, OutcomeInv,
               Channels, ProcStates, BeforeQuery, Inserting, Abstract!Next,
               Abstract!Move, Append, Running, Fail, statement, backend,
               kernel, Say, handle, record
  <1>14. CASE Done
    BY <1>14 DEF IInv, TypeOK, PhaseInv, TargetInv, PointsInv, SelectInv,
               InsertInv, BackendInv, StreamEndInv, StatusInv, OutcomeInv,
               Channels, ProcStates, BeforeQuery, Inserting, Abstract!Next,
               Abstract!Commit, Done, Running, Fail, statement, backend,
               kernel, Say, handle, record
  <1>15. CASE WriteErr
    BY <1>15 DEF IInv, TypeOK, Channels, WriteErr, BackendClosed, Dying, Room,
               Put, statement, backend, engine, InFlight, handle, record
  <1>16. CASE Exit
    BY <1>16 DEF Exit, Running, Dies, Dying, statement, backend, program,
               engine, kernel, handle, record
  <1>. QED
    BY <1>1, <1>2, <1>3, <1>4, <1>5, <1>6, <1>7, <1>8, <1>9, <1>10, <1>11,
       <1>12, <1>13, <1>14, <1>15, <1>16 DEF HelperStep

\* What the steps of the kernel are to the statement.
LEMMA KernelStepMaps ==
  IInv /\ PhaseInv /\ TargetInv /\ KernelStep => [Abstract!Next]_(Abstract!vars)
  <1> SUFFICES ASSUME IInv, PhaseInv, TargetInv, KernelStep
               PROVE  Abstract!Next \/ UNCHANGED Abstract!vars
    OBVIOUS
  <1> USE DEF kindOf, movedOf, helperOf, phaseOf, Reads, Collected, Abstract!vars
  <1>1. CASE ParentDeath
    BY <1>1 DEF ParentDeath, At, Dies, Dying, statement, backend, program,
               engine, kernel, handle, record
  <1>2. CASE BecomesZombie
    BY <1>2 DEF BecomesZombie, Becomes, statement, backend, program, engine,
               kernel, handle, record
  <1>3. CASE InitReaps
    BY <1>3 DEF IInv, TypeOK, PhaseInv, TargetInv, PointsInv, SelectInv,
               InsertInv, BackendInv, StreamEndInv, StatusInv, OutcomeInv,
               Channels, ProcStates, BeforeQuery, Inserting, Abstract!Next,
               Abstract!HelperEnds, InitReaps, At, Becomes, statement,
               backend, program, engine, kernel, handle, record
  <1>. QED
    BY <1>1, <1>2, <1>3 DEF KernelStep

\* What the steps of the faults are to the statement.
LEMMA FaultStepMaps ==
  IInv /\ PhaseInv /\ TargetInv /\ FaultStep => [Abstract!Next]_(Abstract!vars)
  <1> SUFFICES ASSUME IInv, PhaseInv, TargetInv, FaultStep
               PROVE  Abstract!Next \/ UNCHANGED Abstract!vars
    OBVIOUS
  <1> USE DEF kindOf, movedOf, helperOf, phaseOf, Reads, Collected, Abstract!vars
  <1>1. CASE OpenFails
    BY <1>1 DEF IInv, TypeOK, PhaseInv, TargetInv, PointsInv, SelectInv,
               InsertInv, BackendInv, StreamEndInv, StatusInv, OutcomeInv,
               Channels, ProcStates, BeforeQuery, Inserting, Abstract!Next,
               Abstract!Raise, OpenFails, At, Opened, Goto, statement, record,
               helper, engine, kernel, program
  <1>2. CASE ForkFails
    BY <1>2 DEF IInv, TypeOK, PhaseInv, TargetInv, PointsInv, SelectInv,
               InsertInv, BackendInv, StreamEndInv, StatusInv, OutcomeInv,
               Channels, ProcStates, BeforeQuery, Inserting, Abstract!Next,
               Abstract!Raise, ForkFails, At, Raise, EndsIn, Goto, statement,
               handle, helper, engine, kernel, record, program
  <1>3. CASE ExecFails
    BY <1>3 DEF ExecFails, Running, Dies, Dying, statement, backend, program,
               engine, kernel, handle, record
  <1>4. CASE WriteSetupFails
    BY <1>4 DEF IInv, TypeOK, PhaseInv, TargetInv, PointsInv, SelectInv,
               InsertInv, BackendInv, StreamEndInv, StatusInv, OutcomeInv,
               Channels, ProcStates, BeforeQuery, Inserting, Abstract!Next,
               Abstract!Raise, WriteSetupFails, At, Raise, EndsIn, Goto,
               statement, handle, helper, engine, kernel, record, program
  <1>5. CASE ReadSetupFails
    BY <1>5 DEF ReadSetupFails, Running, Fail, statement, backend, engine,
               kernel, Say, handle, record
  <1>6. CASE RecvFails
    BY <1>6 DEF RecvFails, At, Report, WaitFrom, Goto, statement, handle,
               helper, engine, kernel, record, program
  <1>7. CASE SendFails
    BY <1>7 DEF SendFails, At, Report, WaitFrom, Goto, statement, handle,
               helper, engine, kernel, record, program
  <1>8. CASE ReadFails
    BY <1>8 DEF ReadFails, Running, statement, backend, engine, kernel,
               handle, record
  <1>9. CASE DecodeFails
    BY <1>9 DEF IInv, TypeOK, PhaseInv, TargetInv, PointsInv, SelectInv,
               InsertInv, BackendInv, StreamEndInv, StatusInv, OutcomeInv,
               Channels, ProcStates, BeforeQuery, Inserting, Abstract!Next,
               Abstract!Return, Abstract!Raise, DecodeFails, At, Return,
               Raise, EndsIn, Goto, statement, handle, helper, engine, kernel,
               record, program
  <1>10. CASE StatementRaises
    BY <1>10 DEF IInv, TypeOK, PhaseInv, TargetInv, PointsInv, SelectInv,
               InsertInv, BackendInv, StreamEndInv, StatusInv, OutcomeInv,
               Channels, ProcStates, BeforeQuery, Inserting, Abstract!Next,
               Abstract!Raise, StatementRaises, Raise, EndsIn, Goto,
               statement, handle, helper, engine, kernel, record, program
  <1>11. CASE Interrupt
    BY <1>11 DEF Interrupt, backend, helper, engine, kernel, handle, program,
               record
  <1>12. CASE BackendDies
    BY <1>12 DEF IInv, TypeOK, PhaseInv, TargetInv, PointsInv, SelectInv,
               InsertInv, BackendInv, StreamEndInv, StatusInv, OutcomeInv,
               Channels, ProcStates, BeforeQuery, Inserting, Abstract!Next,
               Abstract!Die, BackendDies, Goto, statement, record, helper,
               engine, kernel, program
  <1>13. CASE Crash
    BY <1>13 DEF Crash, Dies, Dying, statement, backend, program, engine,
               kernel, handle, record
  <1>14. CASE Steal
    BY <1>14 DEF IInv, TypeOK, PhaseInv, TargetInv, PointsInv, SelectInv,
               InsertInv, BackendInv, StreamEndInv, StatusInv, OutcomeInv,
               Channels, ProcStates, BeforeQuery, Inserting, Abstract!Next,
               Abstract!HelperEnds, Steal, Becomes, statement, backend,
               program, engine, kernel, handle, record
  <1>15. CASE Chatter
    BY <1>15 DEF Chatter, statement, backend, engine, kernel, handle, record
  <1>16. CASE WriteFails
    BY <1>16 DEF WriteFails, Running, statement, backend, engine, kernel,
               handle, record
  <1>. QED
    BY <1>1, <1>2, <1>3, <1>4, <1>5, <1>6, <1>7, <1>8, <1>9, <1>10, <1>11,
       <1>12, <1>13, <1>14, <1>15, <1>16 DEF FaultStep

\* The initial states are those of a statement that has not started.
LEMMA InitMaps == Init => Abstract!Init
  BY BoundsAssumption DEF Init, Abstract!Init, kindOf, movedOf, helperOf, phaseOf,
     Reads, Channels, Collected

\* HelperSession implements Statement: whatever the helper, the kernel and the
\* faults do, chdb_helper_start, _recv, _write, _finish and stop_helper keep what
\* a statement promises.
THEOREM Implements == Spec => KeepsPromise
  <1>1. Init => PhaseInv /\ TargetInv
    BY DEF Init, PhaseInv, TargetInv, BeforeQuery
  <1>2. IInv /\ PhaseInv /\ TargetInv /\ [Next]_vars => PhaseInv' /\ TargetInv'
    <2>1. CASE UNCHANGED vars
      BY <2>1 DEF PhaseInv, TargetInv, Reads, vars, statement, backend, handle,
                  record, helper, program, engine
    <2>. QED
      BY <2>1, BackendStepRef, HelperStepRef, KernelStepRef, FaultStepRef
         DEF Next, Terminated
  <1>3. IInv /\ PhaseInv /\ TargetInv /\ [Next]_vars
          => [Abstract!Next]_(Abstract!vars)
    <2>1. UNCHANGED vars => UNCHANGED Abstract!vars
      BY DEF Abstract!vars, kindOf, movedOf, helperOf, phaseOf, Reads, vars,
             statement, backend, helper, engine, kernel
    <2>. QED
      BY <2>1, BackendStepMaps, HelperStepMaps, KernelStepMaps, FaultStepMaps
         DEF Next, Terminated
  <1>. QED
    BY <1>1, <1>2, <1>3, InitMaps, Invariance, PTL
       DEF Spec, KeepsPromise, Abstract!Spec
=============================================================================
