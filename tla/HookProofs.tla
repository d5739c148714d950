----------------------------- MODULE HookProofs -----------------------------
(***************************************************************************)
(* Proofs about Hook, for any number of sessions, any statements and any   *)
(* changes made by others: nothing reaches a helper that may not, what is  *)
(* copied is what was checked, and the query a helper is given is well     *)
(* formed and says what the statement and the inferred columns say.        *)
(***************************************************************************)
EXTENDS Hook, CopyQueryProofs

USE ScenariosAssumption, RelationsAssumption

Points == {"start", "describe", "describing", "create", "wait", "url", "open",
           "check", "run", "running", "done", "over", "raised"}

\* Shapes of the variables the argument is about.
FrameInv ==
    /\ pc \in [Sessions -> Points]
    /\ DOMAIN lock = Sessions /\ DOMAIN pending = Sessions /\ DOMAIN checked = Sessions
    /\ ids \in Nat

\* The role and the transaction allow what the statement names.
FileAllowed(s) == FromFile(s) => MayUseFiles(s)
WriteAllowed(s) == stmt[s].op # "to" => ~stmt[s].readonly

\* Past the first checks the transaction may write; at a URL its file may be used.
GateInv ==
    \A s \in Sessions :
        /\ pc[s] \notin {"start", "over", "raised"} => WriteAllowed(s)
        /\ pc[s] \in {"describe", "describing", "open", "check", "run", "running"}
            => FileAllowed(s)

\* One name: what a transaction has created is under it, or what is committed.
CatalogInv ==
    /\ rel # NoRel => IsRelation(rel)
    /\ \A s \in Sessions : pending[s] # NoRel =>
        /\ IsRelation(pending[s]) /\ rel = NoRel
        /\ \A t \in Sessions : pending[t] # NoRel => t = s

\* A session that has opened the relation holds a lock on it.
Holds(s) == pc[s] \in {"check", "run", "running"} \/ (pc[s] = "done" /\ checked[s] # NoRel)
LockInv ==
    \A s \in Sessions :
        /\ Holds(s) => lock[s] # "none" /\ Visible(s) # NoRel
        /\ pc[s] \notin {"run", "running", "done", "over", "raised"} => checked[s] = NoRel

HInv == FrameInv /\ GateInv /\ CatalogInv /\ LockInv /\ CopiesWhatWasChecked

----------------------------------------------------------------------------
(* Steps of a session. *)

\* A session does not change the statements.
LEMMA StatementsKept ==
  ASSUME stmt' = stmt
  PROVE  \A s \in Sessions : (FileAllowed(s)' <=> FileAllowed(s))
                             /\ (WriteAllowed(s)' <=> WriteAllowed(s))
  BY Zenon DEF FileAllowed, WriteAllowed, FromFile, MayUseFiles, SchemeFor

\* Every session step changes only its own entries.
LEMMA SessionFrame ==
  ASSUME FrameInv, NEW s \in Sessions, SessionStep(s)
  PROVE  /\ FrameInv' /\ stmt' = stmt
         /\ \A t \in Sessions \ {s} :
              /\ pc'[t] = pc[t] /\ lock'[t] = lock[t]
              /\ pending'[t] = pending[t] /\ checked'[t] = checked[t]
  <1> USE DEF FrameInv, Points, catalog, world
  <1>1. CASE PassThrough(s)
    BY <1>1 DEF PassThrough, Goes
  <1>2. CASE BeginCopy(s)
    BY <1>2 DEF BeginCopy, OwnsCopy, CopyRefused, Raise, Goes
  <1>3. CASE BeginCreate(s)
    BY <1>3 DEF BeginCreate, CreatesFromUrl, CreateRefused, UrlReadable,
       Raise, Goes
  <1>4. CASE StartDescribe(s)
    BY <1>4 DEF StartDescribe, Raise, Goes
  <1>5. CASE EndDescribe(s)
    BY <1>5 DEF EndDescribe, Raise, Goes
  <1>6. CASE Create(s)
    BY <1>6 DEF Create, AfterCreate, OtherPending, Created, Goes
  <1>7. CASE CreateSkipped(s)
    BY <1>7 DEF CreateSkipped, AfterCreate, Goes
  <1>8. CASE CreateExists(s)
    BY <1>8 DEF CreateExists, Raise
  <1>9. CASE CreateWaits(s)
    BY <1>9 DEF CreateWaits, Goes
  <1>10. CASE CreateConflicts(s)
    BY <1>10 DEF CreateConflicts, Raise
  <1>11. CASE CopyUrlInto(s)
    BY <1>11 DEF CopyUrlInto, UrlReadable, Raise, Goes
  <1>12. CASE OpenRelation(s)
    BY <1>12 DEF OpenRelation, LockMode, Raise, Goes
  <1>13. CASE CheckRelation(s)
    BY <1>13 DEF CheckRelation, Raise, Goes
  <1>14. CASE StartCopy(s)
    BY <1>14 DEF StartCopy, Raise, Goes
  <1>15. CASE FinishCopy(s)
    BY <1>15 DEF FinishCopy, Close, Goes
  <1>16. CASE HelperRaises(s)
    BY <1>16 DEF HelperRaises, Raise
  <1>17. CASE Commit(s)
    BY <1>17 DEF Commit, Goes
  <1>. QED
    BY <1>1, <1>2, <1>3, <1>4, <1>5, <1>6, <1>7, <1>8, <1>9, <1>10, <1>11,
       <1>12, <1>13, <1>14, <1>15, <1>16, <1>17 DEF SessionStep

\* No step passes a check it has failed.
LEMMA SessionGate ==
  ASSUME FrameInv, GateInv, NEW s \in Sessions, SessionStep(s)
  PROVE  /\ pc'[s] \notin {"start", "over", "raised"} => WriteAllowed(s)
         /\ pc'[s] \in {"describe", "describing", "open", "check", "run", "running"}
              => FileAllowed(s)
  <1> USE DEF FrameInv, GateInv, Points, FileAllowed, WriteAllowed
  <1>1. CASE PassThrough(s)
    BY <1>1 DEF PassThrough, Goes
  <1>2. CASE BeginCopy(s)
    BY <1>2 DEF BeginCopy, OwnsCopy, CopyRefused, Raise, Goes
  <1>3. CASE BeginCreate(s)
    BY <1>3 DEF BeginCreate, CreatesFromUrl, CreateRefused, UrlReadable,
       Raise, Goes
  <1>4. CASE StartDescribe(s)
    BY <1>4 DEF StartDescribe, Raise, Goes
  <1>5. CASE EndDescribe(s)
    BY <1>5 DEF EndDescribe, Raise, Goes
  <1>6. CASE Create(s)
    BY <1>6 DEF Create, AfterCreate, OtherPending, Created, Goes
  <1>7. CASE CreateSkipped(s)
    BY <1>7 DEF CreateSkipped, AfterCreate, Goes
  <1>8. CASE CreateExists(s)
    BY <1>8 DEF CreateExists, Raise
  <1>9. CASE CreateWaits(s)
    BY <1>9 DEF CreateWaits, Goes
  <1>10. CASE CreateConflicts(s)
    BY <1>10 DEF CreateConflicts, Raise
  <1>11. CASE CopyUrlInto(s)
    BY <1>11 DEF CopyUrlInto, UrlReadable, Raise, Goes
  <1>12. CASE OpenRelation(s)
    BY <1>12 DEF OpenRelation, LockMode, Raise, Goes
  <1>13. CASE CheckRelation(s)
    BY <1>13 DEF CheckRelation, Raise, Goes
  <1>14. CASE StartCopy(s)
    BY <1>14 DEF StartCopy, Raise, Goes
  <1>15. CASE FinishCopy(s)
    BY <1>15 DEF FinishCopy, Close, Goes
  <1>16. CASE HelperRaises(s)
    BY <1>16 DEF HelperRaises, Raise
  <1>17. CASE Commit(s)
    BY <1>17 DEF Commit, Goes
  <1>. QED
    BY <1>1, <1>2, <1>3, <1>4, <1>5, <1>6, <1>7, <1>8, <1>9, <1>10, <1>11,
       <1>12, <1>13, <1>14, <1>15, <1>16, <1>17 DEF SessionStep

\* The catalog keeps one relation under the name, committed or about to be.
LEMMA SessionCatalog ==
  ASSUME FrameInv, CatalogInv, NEW s \in Sessions, SessionStep(s)
  PROVE  CatalogInv'
  <1> USE DEF FrameInv, CatalogInv, IsRelation, NoRel, Visible, catalog,
     world
  <1>1. CASE PassThrough(s)
    BY <1>1 DEF PassThrough, Goes
  <1>2. CASE BeginCopy(s)
    BY <1>2 DEF BeginCopy, OwnsCopy, CopyRefused, Raise, Goes
  <1>3. CASE BeginCreate(s)
    BY <1>3 DEF BeginCreate, CreatesFromUrl, CreateRefused, UrlReadable,
       Raise, Goes
  <1>4. CASE StartDescribe(s)
    BY <1>4 DEF StartDescribe, Raise, Goes
  <1>5. CASE EndDescribe(s)
    BY <1>5 DEF EndDescribe, Raise, Goes
  <1>6. CASE Create(s)
    <2>1. /\ rel = NoRel /\ rel' = rel /\ \A t \in Sessions : pending[t] = NoRel
          /\ pending' = [pending EXCEPT ![s] = Created(s)]
      BY <1>6 DEF Create, OtherPending
    <2>2. IsRelation(Created(s))
      BY DEF Created
    <2>. HIDE DEF IsRelation, NoRel
    <2>. QED
      BY <2>1, <2>2
  <1>7. CASE CreateSkipped(s)
    BY <1>7 DEF CreateSkipped, AfterCreate, Goes
  <1>8. CASE CreateExists(s)
    BY <1>8 DEF CreateExists, Raise
  <1>9. CASE CreateWaits(s)
    BY <1>9 DEF CreateWaits, Goes
  <1>10. CASE CreateConflicts(s)
    BY <1>10 DEF CreateConflicts, Raise
  <1>11. CASE CopyUrlInto(s)
    BY <1>11 DEF CopyUrlInto, UrlReadable, Raise, Goes
  <1>12. CASE OpenRelation(s)
    BY <1>12 DEF OpenRelation, LockMode, Raise, Goes
  <1>13. CASE CheckRelation(s)
    BY <1>13 DEF CheckRelation, Raise, Goes
  <1>14. CASE StartCopy(s)
    BY <1>14 DEF StartCopy, Raise, Goes
  <1>15. CASE FinishCopy(s)
    BY <1>15 DEF FinishCopy, Close, Goes
  <1>16. CASE HelperRaises(s)
    BY <1>16 DEF HelperRaises, Raise
  <1>17. CASE Commit(s)
    BY <1>17 DEF Commit, Goes
  <1>. QED
    BY <1>1, <1>2, <1>3, <1>4, <1>5, <1>6, <1>7, <1>8, <1>9, <1>10, <1>11,
       <1>12, <1>13, <1>14, <1>15, <1>16, <1>17 DEF SessionStep

\* What another session has opened stays what it finds under the name.
LEMMA SessionVisible ==
  ASSUME FrameInv, CatalogInv, NEW s \in Sessions, SessionStep(s)
  PROVE  \A t \in Sessions \ {s} : Visible(t) # NoRel => Visible(t)' = Visible(t)
  <1> USE DEF FrameInv, CatalogInv, Visible, catalog, world
  <1>1. CASE PassThrough(s)
    BY <1>1 DEF PassThrough, Goes
  <1>2. CASE BeginCopy(s)
    BY <1>2 DEF BeginCopy, OwnsCopy, CopyRefused, Raise, Goes
  <1>3. CASE BeginCreate(s)
    BY <1>3 DEF BeginCreate, CreatesFromUrl, CreateRefused, UrlReadable,
       Raise, Goes
  <1>4. CASE StartDescribe(s)
    BY <1>4 DEF StartDescribe, Raise, Goes
  <1>5. CASE EndDescribe(s)
    BY <1>5 DEF EndDescribe, Raise, Goes
  <1>6. CASE Create(s)
    BY <1>6 DEF Create, AfterCreate, OtherPending, Created, Goes
  <1>7. CASE CreateSkipped(s)
    BY <1>7 DEF CreateSkipped, AfterCreate, Goes
  <1>8. CASE CreateExists(s)
    BY <1>8 DEF CreateExists, Raise
  <1>9. CASE CreateWaits(s)
    BY <1>9 DEF CreateWaits, Goes
  <1>10. CASE CreateConflicts(s)
    BY <1>10 DEF CreateConflicts, Raise
  <1>11. CASE CopyUrlInto(s)
    BY <1>11 DEF CopyUrlInto, UrlReadable, Raise, Goes
  <1>12. CASE OpenRelation(s)
    BY <1>12 DEF OpenRelation, LockMode, Raise, Goes
  <1>13. CASE CheckRelation(s)
    BY <1>13 DEF CheckRelation, Raise, Goes
  <1>14. CASE StartCopy(s)
    BY <1>14 DEF StartCopy, Raise, Goes
  <1>15. CASE FinishCopy(s)
    BY <1>15 DEF FinishCopy, Close, Goes
  <1>16. CASE HelperRaises(s)
    BY <1>16 DEF HelperRaises, Raise
  <1>17. CASE Commit(s)
    BY <1>17 DEF Commit, Goes
  <1>. QED
    BY <1>1, <1>2, <1>3, <1>4, <1>5, <1>6, <1>7, <1>8, <1>9, <1>10, <1>11,
       <1>12, <1>13, <1>14, <1>15, <1>16, <1>17 DEF SessionStep

\* A session keeps its lock and its relation from the checks to the end.
LEMMA SessionLock ==
  ASSUME FrameInv, CatalogInv, LockInv, CopiesWhatWasChecked, NEW s \in Sessions, SessionStep(s)
  PROVE  /\ Holds(s)' => lock'[s] # "none" /\ Visible(s)' # NoRel
         /\ pc'[s] \notin {"run", "running", "done", "over", "raised"} => checked'[s] = NoRel
         /\ pc'[s] \in {"run", "running", "done"} /\ checked'[s] # NoRel =>
              /\ Visible(s)' # NoRel
              /\ [Visible(s)' EXCEPT !.acl = {}] = [checked'[s] EXCEPT !.acl = {}]
  <1> USE DEF FrameInv, LockInv, CopiesWhatWasChecked, Holds, Visible,
     catalog, world, Points
  <1>1. CASE PassThrough(s)
    BY <1>1 DEF PassThrough, Goes
  <1>2. CASE BeginCopy(s)
    BY <1>2 DEF BeginCopy, OwnsCopy, CopyRefused, Raise, Goes
  <1>3. CASE BeginCreate(s)
    BY <1>3 DEF BeginCreate, CreatesFromUrl, CreateRefused, UrlReadable,
       Raise, Goes
  <1>4. CASE StartDescribe(s)
    BY <1>4 DEF StartDescribe, Raise, Goes
  <1>5. CASE EndDescribe(s)
    BY <1>5 DEF EndDescribe, Raise, Goes
  <1>6. CASE Create(s)
    BY <1>6 DEF Create, AfterCreate, OtherPending, Created, Goes
  <1>7. CASE CreateSkipped(s)
    BY <1>7 DEF CreateSkipped, AfterCreate, Goes
  <1>8. CASE CreateExists(s)
    BY <1>8 DEF CreateExists, Raise
  <1>9. CASE CreateWaits(s)
    BY <1>9 DEF CreateWaits, Goes
  <1>10. CASE CreateConflicts(s)
    BY <1>10 DEF CreateConflicts, Raise
  <1>11. CASE CopyUrlInto(s)
    BY <1>11 DEF CopyUrlInto, UrlReadable, Raise, Goes
  <1>12. CASE OpenRelation(s)
    BY <1>12 DEF OpenRelation, LockMode, Raise, Goes
  <1>13. CASE CheckRelation(s)
    <2>1. CASE Raise(s)
      BY <2>1 DEF Raise
    <2>2. CASE /\ checked' = [checked EXCEPT ![s] = Visible(s)] /\ Goes(s, "run")
               /\ pc[s] = "check" /\ UNCHANGED <<lock, catalog>>
      <3>1. lock'[s] = lock[s] /\ Visible(s)' = Visible(s) /\ checked'[s] = Visible(s)
        BY <2>2
      <3>2. lock[s] # "none" /\ Visible(s) # NoRel
        BY <2>2
      <3>3. pc'[s] = "run"
        BY <2>2 DEF Goes
      <3>. HIDE DEF Visible
      <3>. QED
        BY <3>1, <3>2, <3>3
    <2>. QED
      BY <1>13, <2>1, <2>2 DEF CheckRelation
  <1>14. CASE StartCopy(s)
    BY <1>14 DEF StartCopy, Raise, Goes
  <1>15. CASE FinishCopy(s)
    BY <1>15 DEF FinishCopy, Close, Goes
  <1>16. CASE HelperRaises(s)
    BY <1>16 DEF HelperRaises, Raise
  <1>17. CASE Commit(s)
    BY <1>17 DEF Commit, Goes
  <1>. QED
    BY <1>1, <1>2, <1>3, <1>4, <1>5, <1>6, <1>7, <1>8, <1>9, <1>10, <1>11,
       <1>12, <1>13, <1>14, <1>15, <1>16, <1>17 DEF SessionStep

\* A step of a session keeps the invariant.
LEMMA SessionHInv == ASSUME HInv, NEW s \in Sessions, SessionStep(s) PROVE HInv'
  <1>1. FrameInv /\ GateInv /\ CatalogInv /\ LockInv /\ CopiesWhatWasChecked
    BY DEF HInv
  <1>2. /\ FrameInv' /\ stmt' = stmt
        /\ \A t \in Sessions \ {s} :
             /\ pc'[t] = pc[t] /\ lock'[t] = lock[t]
             /\ pending'[t] = pending[t] /\ checked'[t] = checked[t]
    BY <1>1, SessionFrame
  <1>3. CatalogInv'
    BY <1>1, SessionCatalog
  <1>4. GateInv'
    BY <1>1, <1>2, SessionGate, StatementsKept DEF GateInv
  <1>5. \A t \in Sessions \ {s} : Visible(t) # NoRel => Visible(t)' = Visible(t)
    BY <1>1, SessionVisible
  <1>6. LockInv'
    BY <1>1, <1>2, <1>5, SessionLock DEF LockInv, Holds
  <1>7. CopiesWhatWasChecked'
    BY <1>1, <1>2, <1>5, SessionLock DEF CopiesWhatWasChecked
  <1>. QED
    BY <1>2, <1>3, <1>4, <1>6, <1>7 DEF HInv

----------------------------------------------------------------------------
(* Steps of others. *)

\* DDL waits for the locks the hook holds.
LEMMA LockedOut ==
  ASSUME FrameInv, LockInv, Unlocked, NEW s \in Sessions,
         Holds(s) \/ (pc[s] \in {"run", "running", "done"} /\ checked[s] # NoRel)
  PROVE  FALSE
  BY DEF LockInv, Unlocked, Holds

\* What others do to the relation keeps the invariant.
LEMMA OtherHInv ==
  ASSUME HInv, OtherCreates \/ OtherDrops \/ OtherAlters \/ OtherGrants \/ RemoteChanges
  PROVE  HInv'
  <1>1. FrameInv /\ GateInv /\ CatalogInv /\ LockInv /\ CopiesWhatWasChecked
    BY DEF HInv
  <1>2. /\ stmt' = stmt /\ pc' = pc /\ lock' = lock /\ pending' = pending
        /\ checked' = checked /\ ids' \in Nat
    BY <1>1 DEF FrameInv, OtherCreates, OtherDrops, OtherAlters, OtherGrants,
       RemoteChanges, mine
  <1>3. FrameInv'
    BY <1>1, <1>2 DEF FrameInv
  <1>4. GateInv'
    BY <1>1, <1>2, StatementsKept DEF GateInv
  <1>5. CASE OtherCreates \/ OtherDrops \/ OtherAlters
    <2>1. Unlocked /\ \A s \in Sessions : pending[s] = NoRel
      BY <1>5 DEF OtherCreates, OtherDrops, OtherAlters, Unlocked
    <2>2. rel' # NoRel => IsRelation(rel')
      <3>1. CASE OtherCreates
        BY <1>1, <3>1 DEF OtherCreates, FrameInv, IsRelation
      <3>2. CASE OtherDrops
        BY <3>2 DEF OtherDrops
      <3>3. CASE OtherAlters
        <4>1. IsRelation(rel)
          BY <1>1, <3>3 DEF OtherAlters, CatalogInv
        <4>. QED
          BY <3>3, <4>1 DEF OtherAlters, IsRelation
      <3>. QED
        BY <1>5, <3>1, <3>2, <3>3
    <2>3. CatalogInv'
      BY <1>2, <2>1, <2>2 DEF CatalogInv
    <2>4. LockInv' /\ CopiesWhatWasChecked'
      BY <1>1, <1>2, <2>1, LockedOut DEF LockInv, Holds, CopiesWhatWasChecked
    <2>. QED
      BY <1>3, <1>4, <2>3, <2>4 DEF HInv
  <1>6. CASE OtherGrants
    <2>1. /\ IsRelation(rel) /\ rel # NoRel
          /\ \E acl \in SUBSET {"insert", "select"} : rel' = [rel EXCEPT !.acl = acl]
      BY <1>1, <1>6 DEF OtherGrants, CatalogInv
    <2>2. /\ IsRelation(rel') /\ rel' # NoRel
          /\ [rel' EXCEPT !.acl = {}] = [rel EXCEPT !.acl = {}]
      BY <2>1 DEF IsRelation, NoRel
    <2>3. CatalogInv'
      BY <1>1, <1>2, <2>1, <2>2 DEF CatalogInv
    <2>4. \A s \in Sessions :
            /\ Visible(s) # NoRel => Visible(s)' # NoRel
            /\ [Visible(s)' EXCEPT !.acl = {}] = [Visible(s) EXCEPT !.acl = {}]
      BY <1>2, <2>1, <2>2 DEF Visible
    <2>5. LockInv'
      BY <1>1, <1>2, <2>4 DEF LockInv, Holds
    <2>6. CopiesWhatWasChecked'
      BY <1>1, <1>2, <2>4 DEF CopiesWhatWasChecked
    <2>. QED
      BY <1>3, <1>4, <2>3, <2>5, <2>6 DEF HInv
  <1>7. CASE RemoteChanges
    <2>1. rel' = rel
      BY <1>7 DEF RemoteChanges
    <2>. QED
      BY <1>1, <1>2, <1>3, <1>4, <2>1 DEF HInv, CatalogInv, LockInv, Holds, Visible,
         CopiesWhatWasChecked
  <1>. QED
    BY <1>5, <1>6, <1>7

----------------------------------------------------------------------------
(* The theorems. *)

\* The invariant holds in every reachable state.
THEOREM Invariance == Spec => []HInv
  <1>1. Init => HInv
    <2> SUFFICES ASSUME Init PROVE HInv
      OBVIOUS
    <2>1. /\ \A s \in Sessions : pc[s] \in {"over", "start"} /\ pending[s] = NoRel
                                 /\ checked[s] = NoRel
          /\ FrameInv
      BY DEF Init, FrameInv, Points
    <2>2. rel # NoRel => IsRelation(rel)
      BY DEF Init
    <2>. QED
      BY <2>1, <2>2 DEF HInv, GateInv, CatalogInv, LockInv, Holds, CopiesWhatWasChecked
  <1>2. HInv /\ [Next]_vars => HInv'
    <2> SUFFICES ASSUME HInv, [Next]_vars PROVE HInv'
      OBVIOUS
    <2>1. CASE UNCHANGED vars
      <3>1. GateInv'
        BY <2>1, StatementsKept DEF vars, HInv, GateInv
      <3>. QED
        BY <2>1, <3>1 DEF vars, HInv, FrameInv, CatalogInv, LockInv, Holds, Visible,
           CopiesWhatWasChecked
    <2>2. CASE \E s \in Sessions : SessionStep(s)
      BY <2>2, SessionHInv
    <2>3. CASE OtherCreates \/ OtherDrops \/ OtherAlters \/ OtherGrants \/ RemoteChanges
      BY <2>3, OtherHInv
    <2>. QED
      BY <2>1, <2>2, <2>3 DEF Next, Terminated
  <1>. QED
    BY <1>1, <1>2, PTL DEF Spec

\* chDBProcessUtilityHook starts a helper only for a file the role may use, in a
\* transaction that may write, and for a copy of a relation that is locked.
THEOREM Gated == Spec => []HelperGated
  <1>1. HInv => HelperGated
    BY DEF HInv, GateInv, LockInv, Holds, FileAllowed, WriteAllowed, HelperGated,
       AtHelper
  <1>. QED
    BY <1>1, Invariance, PTL

\* From open_copy_relation to the end of the transaction the relation stays the
\* one that was checked, whatever others run.
THEOREM CopyOfChecked == Spec => []CopiesWhatWasChecked
  <1>1. HInv => CopiesWhatWasChecked
    BY DEF HInv
  <1>. QED
    BY <1>1, Invariance, PTL


----------------------------------------------------------------------------
(* The context and the query. *)

Fields == {"scheme", "url", "cmd", "access_key", "access_secret", "session_token",
           "format", "structure", "compression", "timeout", "preserve_nested"}

\* A context made from a statement, for a command.
ContextOf(st, scheme, c, cmd) ==
    /\ DOMAIN c = Fields
    /\ c.scheme = scheme /\ c.url = st.url
    /\ c.timeout = st.options.timeout /\ c.timeout \in Nat
    /\ c.cmd = cmd

\* The context pins the structure of the columns.
Pins(columns, c) ==
    /\ columns \in Columns
    /\ c.structure = Pinned(columns)
    /\ c.preserve_nested = \E i \in DOMAIN columns : Nested(columns[i])

Command(st) == IF st.op = "to" THEN "INSERT" ELSE "SELECT"

DataInv ==
    /\ remote \in Columns
    /\ \A s \in Sessions :
        stmt[s].url \in Text /\ (~stmt[s].options.bad => stmt[s].options.timeout \in Nat)
    /\ DOMAIN ctx = Sessions /\ DOMAIN described = Sessions /\ DOMAIN query = Sessions

\* The columns that were inferred and that the copy must agree with.
Inferred(s) == described[s] # <<>> /\ stmt[s].options.given = <<>>

\* Where there is a context it is that of the statement, and pins the structure
\* that was inferred.
Ready(s) ==
    /\ pc[s] \in {"describe", "describing", "open", "check", "run", "running"}
        => SchemeFor(s) # "none"
    /\ pc[s] \in {"describe", "describing", "create", "wait", "url"} =>
        stmt[s].op = "create" /\ ContextOf(stmt[s], SchemeFor(s), ctx[s], "NONE")
    /\ pc[s] \in {"open", "check"} /\ stmt[s].op = "create" =>
        ContextOf(stmt[s], SchemeFor(s), ctx[s], "SELECT")
    /\ pc[s] = "run" => ContextOf(stmt[s], SchemeFor(s), ctx[s], Command(stmt[s]))
    /\ pc[s] \in {"start", "describe", "describing"} => described[s] = <<>>
    /\ described[s] # <<>> => stmt[s].op = "create"
    /\ pc[s] \in {"create", "wait", "url", "open", "check", "run"} /\ Inferred(s) =>
        Pins(described[s], ctx[s])

\* The query at a helper is the one make_ch_query assembles from such a context.
MadeQuery(s) ==
    AtHelper(s) =>
        /\ query[s] = MakeChQuery(query[s].ctx) /\ ~Malformed(query[s].ctx)
        /\ ContextOf(stmt[s], SchemeFor(s), query[s].ctx,
                     IF pc[s] = "describing" THEN "DESCRIBE" ELSE Command(stmt[s]))
        /\ pc[s] = "running" /\ Inferred(s) => Pins(described[s], query[s].ctx)

QInv == DataInv /\ \A s \in Sessions : Ready(s) /\ MadeQuery(s)

LEMMA SchemeKept ==
  ASSUME stmt' = stmt
  PROVE  \A s \in Sessions : SchemeFor(s)' = SchemeFor(s)
  BY Zenon DEF SchemeFor

LEMMA SchemeKnown ==
  ASSUME NEW s \in Sessions, SchemeFor(s) # "none"
  PROVE  SchemeFor(s) \in Schemes
  BY Zenon DEF SchemeFor

\* Every session step makes only its own context and query.
LEMMA SessionData ==
  ASSUME DataInv, NEW s \in Sessions, SessionStep(s)
  PROVE  /\ DataInv' /\ stmt' = stmt
         /\ \A t \in Sessions \ {s} :
              ctx'[t] = ctx[t] /\ described'[t] = described[t] /\ query'[t] = query[t]
  <1> USE DEF DataInv, catalog, world
  <1>1. CASE PassThrough(s)
    BY <1>1 DEF PassThrough, Goes
  <1>2. CASE BeginCopy(s)
    BY <1>2 DEF BeginCopy, OwnsCopy, CopyRefused, Raise, Goes
  <1>3. CASE BeginCreate(s)
    BY <1>3 DEF BeginCreate, CreatesFromUrl, CreateRefused, UrlReadable,
       Raise, Goes
  <1>4. CASE StartDescribe(s)
    BY <1>4 DEF StartDescribe, Raise, Goes
  <1>5. CASE EndDescribe(s)
    BY <1>5 DEF EndDescribe, Raise, Goes
  <1>6. CASE Create(s)
    BY <1>6 DEF Create, AfterCreate, OtherPending, Created, Goes
  <1>7. CASE CreateSkipped(s)
    BY <1>7 DEF CreateSkipped, AfterCreate, Goes
  <1>8. CASE CreateExists(s)
    BY <1>8 DEF CreateExists, Raise
  <1>9. CASE CreateWaits(s)
    BY <1>9 DEF CreateWaits, Goes
  <1>10. CASE CreateConflicts(s)
    BY <1>10 DEF CreateConflicts, Raise
  <1>11. CASE CopyUrlInto(s)
    BY <1>11 DEF CopyUrlInto, UrlReadable, Raise, Goes
  <1>12. CASE OpenRelation(s)
    BY <1>12 DEF OpenRelation, LockMode, Raise, Goes
  <1>13. CASE CheckRelation(s)
    BY <1>13 DEF CheckRelation, Raise, Goes
  <1>14. CASE StartCopy(s)
    BY <1>14 DEF StartCopy, Raise, Goes
  <1>15. CASE FinishCopy(s)
    BY <1>15 DEF FinishCopy, Close, Goes
  <1>16. CASE HelperRaises(s)
    BY <1>16 DEF HelperRaises, Raise
  <1>17. CASE Commit(s)
    BY <1>17 DEF Commit, Goes
  <1>. QED
    BY <1>1, <1>2, <1>3, <1>4, <1>5, <1>6, <1>7, <1>8, <1>9, <1>10, <1>11,
       <1>12, <1>13, <1>14, <1>15, <1>16, <1>17 DEF SessionStep


\* The statement's own context.
LEMMA ContextMade ==
  ASSUME DataInv, NEW s \in Sessions, NEW cmd, ~stmt[s].options.bad
  PROVE  ContextOf(stmt[s], SchemeFor(s), Contextualized(s, cmd), cmd)
  BY DEF DataInv, Contextualized, ContextOf, Fields

\* A statement that is over, and one that goes on with the context it has.
LEMMA ReadyEnd ==
  ASSUME NEW s \in Sessions, Ready(s), stmt' = stmt, described'[s] = described[s],
         pc'[s] \in {"raised", "over", "done"}
  PROVE  Ready(s)' /\ MadeQuery(s)'
  BY DEF Ready, MadeQuery, AtHelper

\* The steps of a session make its context and its query as the code does.
LEMMA SessionReady ==
  ASSUME FrameInv, DataInv, NEW s \in Sessions, Ready(s), MadeQuery(s), SessionStep(s)
  PROVE  Ready(s)' /\ MadeQuery(s)'
  <1>0. /\ stmt' = stmt /\ SchemeFor(s)' = SchemeFor(s)
        /\ DOMAIN pc = Sessions /\ DOMAIN ctx = Sessions
        /\ DOMAIN described = Sessions /\ DOMAIN query = Sessions
    BY SessionData, SchemeKept DEF FrameInv, DataInv
  <1>1. CASE Raise(s) /\ UNCHANGED world
    BY <1>0, <1>1, ReadyEnd DEF Raise, world
  <1>2. CASE PassThrough(s) \/ FinishCopy(s) \/ Commit(s)
    <2>1. described' = described /\ pc'[s] \in {"over", "done"}
      BY <1>0, <1>2 DEF PassThrough, FinishCopy, Commit, Goes
    <2>. QED
      BY <1>0, <2>1, ReadyEnd
  <1>3. CASE BeginCopy(s) /\ ~Raise(s)
    <2>1. /\ pc[s] = "start" /\ pc'[s] = "open" /\ described' = described
          /\ stmt[s].op # "create" /\ SchemeFor(s) # "none"
      BY <1>0, <1>3 DEF BeginCopy, OwnsCopy, Goes
    <2>. QED
      BY <1>0, <2>1 DEF Ready, MadeQuery, AtHelper, Inferred
  <1>4. CASE BeginCreate(s) /\ ~Raise(s)
    <2>1. /\ pc[s] = "start" /\ described' = described /\ stmt[s].op = "create"
          /\ ctx'[s] = Contextualized(s, "NONE")
          /\ pc'[s] = IF Describes(s) THEN "describe" ELSE "create"
          /\ ~CreateRefused(s)
      BY <1>0, <1>4 DEF BeginCreate, CreatesFromUrl, Goes
    <2>2. ~stmt[s].options.bad /\ (Describes(s) => SchemeFor(s) # "none")
      BY <2>1 DEF CreateRefused, OptionsRefused, UrlReadable
    <2>3. ContextOf(stmt[s], SchemeFor(s), ctx'[s], "NONE")
      BY <2>1, <2>2, ContextMade
    <2>. QED
      BY <1>0, <2>1, <2>2, <2>3 DEF Ready, MadeQuery, AtHelper, Inferred
  <1>5. CASE StartDescribe(s) /\ ~Raise(s)
    <2> DEFINE c == DescribeContext(s)
    <2>1. /\ pc[s] = "describe" /\ pc'[s] = "describing" /\ described' = described
          /\ ctx' = ctx /\ query'[s] = MakeChQuery(c) /\ ~Malformed(c)
      BY <1>0, <1>5 DEF StartDescribe, Goes
    <2>2. ContextOf(stmt[s], SchemeFor(s), ctx[s], "NONE")
      BY <2>1 DEF Ready
    <2>3. ContextOf(stmt[s], SchemeFor(s), c, "DESCRIBE")
      BY <2>2 DEF DescribeContext, ContextOf, Fields
    <2>. HIDE DEF c
    <2>4. query'[s].ctx = c
      BY <2>1 DEF MakeChQuery
    <2>5. Ready(s)'
      BY <1>0, <2>1, <2>2 DEF Ready, Inferred
    <2>6. MadeQuery(s)'
      BY <1>0, <2>1, <2>3, <2>4 DEF MadeQuery
    <2>. QED
      BY <2>5, <2>6
  <1>6. CASE EndDescribe(s) /\ ~Raise(s)
    <2> DEFINE d == Reported(s)
    <2>1. /\ pc[s] = "describing" /\ pc'[s] = "create" /\ d # <<>>
          /\ described'[s] = d /\ ctx'[s] = PinsStructure(s, d)
      BY <1>0, <1>6 DEF EndDescribe, Goes
    <2>2. stmt[s].op = "create" /\ ContextOf(stmt[s], SchemeFor(s), ctx[s], "NONE")
      BY <2>1 DEF Ready
    <2>3. /\ ContextOf(stmt[s], SchemeFor(s), ctx'[s], "NONE")
          /\ Inferred(s)' => Pins(d, ctx'[s])
      <3>1. CASE Infers(s)
        <4> DEFINE nested == \E i \in DOMAIN d : Nested(d[i])
        <4>1. d = remote /\ d \in Columns
          BY <3>1 DEF Reported, DataInv
        <4>2. ctx'[s] = [ctx[s] EXCEPT !.structure = Pinned(d), !.preserve_nested = nested]
          BY <2>1, <3>1 DEF PinsStructure
        <4>. HIDE DEF d, nested
        <4>3. /\ ContextOf(stmt[s], SchemeFor(s), ctx'[s], "NONE")
              /\ ctx'[s].structure = Pinned(d) /\ ctx'[s].preserve_nested = nested
          BY <2>2, <4>2 DEF ContextOf, Fields
        <4>. QED
          BY <4>1, <4>3 DEF Pins, nested
      <3>2. CASE ~Infers(s)
        <4>1. ctx'[s] = ctx[s] /\ d = stmt[s].options.given
          BY <2>1, <3>2 DEF PinsStructure, Reported
        <4>. QED
          BY <1>0, <2>1, <2>2, <4>1 DEF Inferred
      <3>. QED
        BY <3>1, <3>2
    <2>. HIDE DEF d
    <2>. QED
      BY <1>0, <2>1, <2>2, <2>3 DEF Ready, MadeQuery, AtHelper
  <1>7. CASE Create(s) \/ CreateSkipped(s) \/ CreateWaits(s)
    <2>1. /\ pc[s] \in {"create", "wait"} /\ pc'[s] \in {"wait", "url", "done"}
          /\ ctx' = ctx /\ described' = described
      BY <1>0, <1>7 DEF Create, CreateSkipped, CreateWaits, AfterCreate, Goes
    <2>. QED
      BY <1>0, <2>1 DEF Ready, MadeQuery, AtHelper, Inferred
  <1>8. CASE CopyUrlInto(s) /\ ~Raise(s)
    <2>1. /\ pc[s] = "url" /\ pc'[s] = "open" /\ described' = described
          /\ ctx'[s] = [ctx[s] EXCEPT !.cmd = "SELECT"] /\ SchemeFor(s) # "none"
      BY <1>0, <1>8 DEF CopyUrlInto, UrlReadable, Goes
    <2>2. /\ stmt[s].op = "create" /\ ContextOf(stmt[s], SchemeFor(s), ctx[s], "NONE")
          /\ Inferred(s) => Pins(described[s], ctx[s])
      BY <2>1 DEF Ready
    <2>3. /\ ContextOf(stmt[s], SchemeFor(s), ctx'[s], "SELECT")
          /\ ctx'[s].structure = ctx[s].structure
          /\ ctx'[s].preserve_nested = ctx[s].preserve_nested
      BY <2>1, <2>2 DEF ContextOf, Fields
    <2>4. Inferred(s) => Pins(described[s], ctx'[s])
      BY <2>2, <2>3 DEF Pins
    <2>. QED
      BY <1>0, <2>1, <2>2, <2>3, <2>4 DEF Ready, MadeQuery, AtHelper, Inferred
  <1>9. CASE OpenRelation(s) /\ ~Raise(s)
    <2>1. pc[s] = "open" /\ pc'[s] = "check" /\ ctx' = ctx /\ described' = described
      BY <1>0, <1>9 DEF OpenRelation, Goes
    <2>. QED
      BY <1>0, <2>1 DEF Ready, MadeQuery, AtHelper, Inferred
  <1>10. CASE CheckRelation(s) /\ ~Raise(s)
    <2>1. /\ pc[s] = "check" /\ pc'[s] = "run" /\ described' = described
          /\ stmt[s].op = "create" => ctx'[s] = ctx[s]
          /\ stmt[s].op # "create" =>
                ctx'[s] = Contextualized(s, Command(stmt[s])) /\ ~OptionsRefused(s)
      BY <1>0, <1>10 DEF CheckRelation, Goes, Command
    <2>2. ContextOf(stmt[s], SchemeFor(s), ctx'[s], Command(stmt[s]))
      <3>1. CASE stmt[s].op = "create"
        BY <2>1, <3>1 DEF Ready, Command
      <3>2. CASE stmt[s].op # "create"
        <4>1. ~stmt[s].options.bad
          BY <2>1, <3>2 DEF OptionsRefused
        <4>. QED
          BY <2>1, <3>2, <4>1, ContextMade
      <3>. QED
        BY <3>1, <3>2
    <2>. QED
      BY <1>0, <2>1, <2>2 DEF Ready, MadeQuery, AtHelper, Inferred
  <1>11. CASE StartCopy(s) /\ ~Raise(s)
    <2> DEFINE c == CopyContext(s)
    <2>1. /\ pc[s] = "run" /\ pc'[s] = "running" /\ described' = described
          /\ ctx' = ctx /\ query'[s] = MakeChQuery(c) /\ ~Malformed(c)
      BY <1>0, <1>11 DEF StartCopy, Goes
    <2>2. /\ ContextOf(stmt[s], SchemeFor(s), ctx[s], Command(stmt[s]))
          /\ Inferred(s) => Pins(described[s], ctx[s])
      BY <2>1 DEF Ready
    <2>3. ContextOf(stmt[s], SchemeFor(s), c, Command(stmt[s]))
      BY <2>2 DEF CopyContext, ContextOf, Fields
    <2>4. ASSUME Inferred(s) PROVE Pins(described[s], c)
      <3>1. described[s] \in Columns /\ Len(described[s]) # 0
        BY <2>2, <2>4, EmptySeq DEF Pins, Inferred, Columns
      <3>2. ctx[s].structure = Pinned(described[s]) /\ Pinned(described[s]) # <<>>
        BY <2>2, <2>4, <3>1, PinnedRead DEF Pins
      <3>3. c = [ctx[s] EXCEPT !.structure = ctx[s].structure]
        BY <3>2 DEF CopyContext
      <3>. HIDE DEF c
      <3>4. c.structure = ctx[s].structure /\ c.preserve_nested = ctx[s].preserve_nested
        BY <2>2, <3>3 DEF ContextOf, Fields
      <3>. QED
        BY <2>2, <2>4, <3>4 DEF Pins
    <2>. HIDE DEF c
    <2>5. query'[s].ctx = c
      BY <2>1 DEF MakeChQuery
    <2>6. Ready(s)'
      BY <1>0, <2>1 DEF Ready, Inferred
    <2>7. MadeQuery(s)'
      BY <1>0, <2>1, <2>3, <2>4, <2>5 DEF MadeQuery, Inferred
    <2>. QED
      BY <2>6, <2>7
  <1>12. \/ Raise(s) /\ UNCHANGED world
         \/ PassThrough(s) \/ FinishCopy(s) \/ Commit(s)
         \/ Create(s) \/ CreateSkipped(s) \/ CreateWaits(s)
         \/ /\ ~Raise(s)
            /\ \/ BeginCopy(s) \/ BeginCreate(s) \/ StartDescribe(s) \/ EndDescribe(s)
               \/ CopyUrlInto(s) \/ OpenRelation(s) \/ CheckRelation(s) \/ StartCopy(s)
    BY Zenon DEF SessionStep, BeginCopy, BeginCreate, StartDescribe, EndDescribe,
       CreateExists, CreateConflicts, CopyUrlInto, OpenRelation, CheckRelation,
       StartCopy, HelperRaises
  <1>. QED
    BY <1>1, <1>2, <1>3, <1>4, <1>5, <1>6, <1>7, <1>8, <1>9, <1>10, <1>11, <1>12

\* What others do leaves every context and query alone.
LEMMA MineKept ==
  ASSUME QInv, UNCHANGED <<stmt, pc, ctx, described, query>>, remote' \in Columns
  PROVE  QInv'
  <1>1. \A s \in Sessions : SchemeFor(s)' = SchemeFor(s)
    BY SchemeKept
  <1>2. DataInv'
    BY DEF QInv, DataInv
  <1>3. ASSUME NEW s \in Sessions PROVE Ready(s)' /\ MadeQuery(s)'
    <2>1. Ready(s) /\ MadeQuery(s) /\ SchemeFor(s)' = SchemeFor(s)
      BY <1>1 DEF QInv
    <2>2. Ready(s)'
      BY <2>1 DEF Ready, Inferred
    <2>3. MadeQuery(s)'
      BY <2>1 DEF MadeQuery, AtHelper, Inferred
    <2>. QED
      BY <2>2, <2>3
  <1>. QED
    BY <1>2, <1>3 DEF QInv

\* What make_ch_query is given, and what it assembles, in every reachable state.
THEOREM QueryInvariance == Spec => []QInv
  <1>1. Init => QInv
    <2> SUFFICES ASSUME Init PROVE QInv
      OBVIOUS
    <2>1. PICK c \in Scenarios :
            /\ stmt = c.stmt /\ remote = c.remote
            /\ pc = [s \in Sessions |-> IF c.stmt[s].op = "idle" THEN "over" ELSE "start"]
            /\ ctx = [s \in Sessions |-> NoCtx]
            /\ described = [s \in Sessions |-> <<>>]
            /\ query = [s \in Sessions |-> NoQuery]
      BY DEF Init
    <2>2. DataInv
      BY <2>1, StatementsAssumption, RemoteAssumption DEF DataInv
    <2>3. ASSUME NEW s \in Sessions PROVE Ready(s) /\ MadeQuery(s)
      <3>1. pc[s] \in {"over", "start"} /\ described[s] = <<>>
        BY <2>1
      <3>. QED
        BY <3>1 DEF Ready, MadeQuery, AtHelper, Inferred
    <2>. QED
      BY <2>2, <2>3 DEF QInv
  <1>2. HInv /\ QInv /\ [Next]_vars => QInv'
    <2> SUFFICES ASSUME HInv, QInv, [Next]_vars PROVE QInv'
      OBVIOUS
    <2>1. FrameInv /\ DataInv /\ remote \in Columns
      BY DEF HInv, QInv, DataInv
    <2>2. CASE UNCHANGED vars
      BY <2>1, <2>2, MineKept DEF vars
    <2>3. ASSUME NEW s \in Sessions, SessionStep(s) PROVE QInv'
      <3>1. /\ DataInv' /\ stmt' = stmt
            /\ \A t \in Sessions \ {s} :
                ctx'[t] = ctx[t] /\ described'[t] = described[t] /\ query'[t] = query[t]
        BY <2>1, <2>3, SessionData
      <3>2. Ready(s)' /\ MadeQuery(s)'
        BY <2>1, <2>3, SessionReady DEF QInv
      <3>3. ASSUME NEW t \in Sessions \ {s} PROVE Ready(t)' /\ MadeQuery(t)'
        <4>1. /\ pc'[t] = pc[t] /\ ctx'[t] = ctx[t] /\ described'[t] = described[t]
              /\ query'[t] = query[t] /\ SchemeFor(t)' = SchemeFor(t)
          BY <2>1, <2>3, <3>1, SessionFrame, SchemeKept
        <4>2. Ready(t) /\ MadeQuery(t)
          BY DEF QInv
        <4>3. Ready(t)'
          BY <3>1, <4>1, <4>2 DEF Ready, Inferred
        <4>4. MadeQuery(t)'
          BY <3>1, <4>1, <4>2 DEF MadeQuery, AtHelper, Inferred
        <4>. QED
          BY <4>3, <4>4
      <3>. QED
        BY <3>1, <3>2, <3>3 DEF QInv
    <2>4. CASE OtherCreates \/ OtherDrops \/ OtherAlters \/ OtherGrants \/ RemoteChanges
      <3>1. UNCHANGED <<stmt, pc, ctx, described, query>> /\ remote' \in Columns
        BY <2>1, <2>4, RemoteAssumption DEF OtherCreates, OtherDrops, OtherAlters,
           OtherGrants, RemoteChanges, mine
      <3>. QED
        BY <3>1, MineKept
    <2>. QED
      BY <2>2, <2>3, <2>4 DEF Next, Terminated
  <1>. QED
    BY <1>1, <1>2, Invariance, PTL DEF Spec

\* The context of a query at a helper.
LEMMA QueryContext ==
  ASSUME QInv, NEW s \in Sessions, AtHelper(s)
  PROVE  LET q == query[s] IN
         /\ q = MakeChQuery(q.ctx) /\ ~Malformed(q.ctx)
         /\ q.ctx.scheme = SchemeFor(s) /\ q.ctx.scheme \in Schemes
         /\ q.ctx.url = stmt[s].url /\ q.ctx.url \in Text
         /\ q.ctx.cmd \in Cmds /\ q.ctx.timeout \in Nat
         /\ q.params = Params(q.ctx) /\ q.timeout = RequestTimeout(q.ctx)
         /\ q.settings = Settings(q.ctx) \o ExtraSettings(q.ctx)
  <1> DEFINE q == query[s]
             c == q.ctx
  <1>1. Ready(s) /\ MadeQuery(s) /\ stmt[s].url \in Text
    BY DEF QInv, DataInv
  <1>2. /\ q = MakeChQuery(c) /\ ~Malformed(c) /\ c.scheme = SchemeFor(s)
        /\ c.url = stmt[s].url /\ c.timeout \in Nat /\ c.cmd \in Cmds
    BY <1>1 DEF MadeQuery, ContextOf, Command, Cmds
  <1>3. SchemeFor(s) \in Schemes
    BY <1>1, SchemeKnown DEF Ready, AtHelper
  <1>4. /\ MakeChQuery(c).params = Params(c) /\ MakeChQuery(c).timeout = RequestTimeout(c)
        /\ MakeChQuery(c).settings = Settings(c) \o ExtraSettings(c)
    BY DEF MakeChQuery
  <1>. HIDE DEF c
  <1>5. /\ q.params = Params(c) /\ q.timeout = RequestTimeout(c)
        /\ q.settings = Settings(c) \o ExtraSettings(c)
    BY <1>2, <1>4
  <1>. QED
    BY <1>1, <1>2, <1>3, <1>5 DEF c

\* make_ch_query builds one SETTINGS clause with commas between the settings,
\* passes no argument twice and no more than its arrays hold, and truncates only
\* for an INSERT, whatever the scheme, the options and the statement.
THEOREM WellFormed == Spec => []QueryWellFormed
  <1>1. QInv => QueryWellFormed
    <2> SUFFICES ASSUME QInv, NEW s \in Sessions, AtHelper(s)
                 PROVE  LET q == query[s] IN
                        /\ Len(q.params) <= CHDB_MAX_TABLEFUNC_ARGS
                        /\ \A i, j \in DOMAIN q.params :
                              q.params[i].name = q.params[j].name => i = j
                        /\ Clause(q.settings)
                        /\ Contains(q.settings, "truncate") => q.ctx.cmd = "INSERT"
      BY Zenon DEF QueryWellFormed, Clause
    <2> DEFINE q == query[s]
               p == q.params
    <2>1. /\ q.ctx.scheme \in Schemes /\ q.ctx.cmd \in Cmds /\ p = Params(q.ctx)
          /\ q.settings = Settings(q.ctx) \o ExtraSettings(q.ctx)
      BY QueryContext
    <2>2. Clause(q.settings) /\ (Contains(q.settings, "truncate") => q.ctx.cmd = "INSERT")
      BY <2>1, AllSettings
    <2>3. PICK A : Distinct(p, A)
      BY <2>1, ParamsPassed
    <2>4. Len(p) \in 0..CHDB_MAX_TABLEFUNC_ARGS
      BY <2>1, ParamsPassed
    <2>. HIDE DEF p
    <2>5. DOMAIN p = 1..Len(p) /\ \A i, j \in 1..Len(p) : p[i].name = p[j].name => i = j
      BY <2>3 DEF Distinct
    <2>6. Len(p) <= CHDB_MAX_TABLEFUNC_ARGS
      <3>1. \A n \in 0..CHDB_MAX_TABLEFUNC_ARGS : n <= CHDB_MAX_TABLEFUNC_ARGS
        BY DEF CHDB_MAX_TABLEFUNC_ARGS
      <3>. QED
        BY <2>4, <3>1, Zenon
    <2>. QED
      BY <2>2, <2>5, <2>6 DEF p
  <1>. QED
    BY <1>1, QueryInvariance, PTL

\* Of a URL without wildcards the first "?" is where the SAS token starts.
LEMMA OneMark ==
  ASSUME NEW url \in Text, Wildcards(url) = {}
  PROVE  SasAt(url) = First(url, "?")
  <1> DEFINE at == {i \in DOMAIN url : i + 2 <= Len(url) /\ url[i] = "?" /\ url[i + 2] = "="}
             k == First(url, "?")
  <1>1. /\ k \in 0..Len(url) /\ DOMAIN url = 1..Len(url)
        /\ k # 0 => url[k] = "?"
        /\ k = 0 => \A i \in 1..Len(url) : url[i] # "?"
    BY FirstFacts DEF Text
  <1>2. SasAt(url) = IF at = {} THEN 0 ELSE Max(at)
    BY Zenon DEF SasAt
  <1>3. \A i \in DOMAIN url : url[i] = "?" => i = SasAt(url)
    BY Zenon DEF Wildcards
  <1>. HIDE DEF k
  <1>4. CASE k = 0
    <2>1. at = {}
      BY <1>1, <1>4
    <2>. HIDE DEF at
    <2>. QED
      BY <1>2, <1>4, <2>1 DEF k
  <1>5. CASE k # 0
    <2>. HIDE DEF at
    <2>. QED
      BY <1>1, <1>3, <1>5 DEF k
  <1>. QED
    BY <1>4, <1>5

\* parse_azure_url loses nothing of a URL that it does not refuse and whose path
\* holds no wildcard.
THEOREM Glued == Spec => []AzureGlued
  <1>1. QInv => AzureGlued
    <2> SUFFICES ASSUME QInv, NEW s \in Sessions, AtAzure(s), Wildcards(stmt[s].url) = {}
                 PROVE  AzureWhole(s)
      BY Zenon DEF AzureGlued
    <2>0. AtHelper(s) /\ SchemeFor(s) \in {"az", "abfs"}
      BY DEF AtAzure
    <2> DEFINE q == query[s]
               c == q.ctx
    <2>1. /\ c.scheme = SchemeFor(s) /\ c.scheme \in Schemes /\ q.params = Params(c)
          /\ c.url = stmt[s].url /\ c.url \in Text /\ ~Malformed(c)
      BY <2>0, QueryContext
    <2>. HIDE DEF q, c
    <2>2. PICK A : Distinct(q.params, A)
      BY <2>1, ParamsPassed
    <2>3. /\ Passes(q.params, "url", AzureParts(c).account)
          /\ Passes(q.params, "container", AzureParts(c).container)
          /\ Passes(q.params, "path", AzureParts(c).path)
      BY <2>0, <2>1, ParamsPassed
    <2>4. /\ Value(q, "url") = AzureParts(c).account
          /\ Value(q, "container") = AzureParts(c).container
          /\ Value(q, "path") = AzureParts(c).path
      BY <2>2, <2>3, ValuePassed
    <2>5. c.scheme \in {"az", "abfs"}
      BY <2>0, <2>1
    <2>6. SasAt(c.url) = First(c.url, "?")
      BY <2>1, OneMark
    <2>7. LET parts == AzureParts(c)
              account == parts.account
              place == IF c.scheme = "az" THEN account.host \o <<"/">> \o parts.container
                       ELSE parts.container \o <<"@">> \o account.host
              mark == SasAt(c.url)
          IN  /\ parts.path # <<>> => place \o <<"/">> \o parts.path = Before(c.url, mark)
              /\ account.sas = After(c.url, mark) /\ (account.signed <=> mark # 0)
              /\ c.scheme = "az" => First(parts.container, "/") = 0
      BY <2>1, <2>5, <2>6, AzurePieces, Zenon
    <2>. QED
      BY <2>1, <2>4, <2>7, Zenon DEF AzureWhole, q
  <1>. QED
    BY <1>1, QueryInvariance, PTL

\* The timeout of a request is the statement's, rounded up to whole seconds for
\* url(): it is never cut to none.
THEOREM TimeoutCarried == Spec => []TimeoutKept
  <1>1. QInv => TimeoutKept
    <2> SUFFICES ASSUME QInv, NEW s \in Sessions, AtHelper(s)
                 PROVE  /\ query[s].timeout \in query[s].ctx.timeout .. query[s].ctx.timeout + 999
                        /\ query[s].timeout = 0 <=> query[s].ctx.timeout = 0
      BY DEF TimeoutKept
    <2>1. query[s].ctx.timeout \in Nat /\ query[s].timeout = RequestTimeout(query[s].ctx)
      BY QueryContext
    <2>. QED
      BY <2>1, TimeoutRounded
  <1>. QED
    BY <1>1, QueryInvariance, PTL

\* A table that chdb_url_columns makes from inferred columns is loaded with the
\* structure it was made from: chDB unescapes what was pinned to just that, for
\* any names and types on one line, and nested columns keep their shape.
THEOREM Agreed == Spec => []ColumnsAgree
  <1>1. QInv => ColumnsAgree
    <2> SUFFICES ASSUME QInv, NEW s \in Sessions, pc[s] = "running", Inferred(s)
                 PROVE  /\ Unescaped(Value(query[s], "structure")) = StructureOf(described[s])
                        /\ (\E i \in DOMAIN described[s] : Nested(described[s][i]))
                            <=> Contains(query[s].settings, "flatten_nested")
      BY Zenon DEF ColumnsAgree, Inferred
    <2> DEFINE q == query[s]
               c == q.ctx
               d == described[s]
               nested == \E i \in DOMAIN d : Nested(d[i])
    <2>1. AtHelper(s)
      BY DEF AtHelper
    <2>2. /\ c.scheme \in Schemes /\ c.cmd \in Cmds /\ q.params = Params(c)
          /\ q.settings = Settings(c) \o ExtraSettings(c)
      BY <2>1, QueryContext
    <2>3. d \in Columns /\ c.structure = Pinned(d) /\ c.preserve_nested = nested
      BY <2>1 DEF QInv, MadeQuery, Pins
    <2>4. c.cmd = "SELECT"
      <3>1. c.cmd = Command(stmt[s]) /\ stmt[s].op = "create"
        BY <2>1 DEF QInv, MadeQuery, Ready, ContextOf, Inferred
      <3>. QED
        BY <3>1 DEF Command
    <2>5. Len(d) # 0
      BY <2>3, EmptySeq DEF Inferred, Columns
    <2>. HIDE DEF q, c, d, nested
    <2>6. Value(q, "structure") = Pinned(d)
      <3>1. PICK A : Distinct(q.params, A)
        BY <2>2, ParamsPassed
      <3>2. Passes(q.params, "structure", c.structure)
        BY <2>2, ParamsPassed
      <3>. QED
        BY <2>3, <3>1, <3>2, ValuePassed
    <2>7. Unescaped(Pinned(d)) = StructureOf(d)
      BY <2>3, <2>5, PinnedRead
    <2>8. Contains(q.settings, "flatten_nested") <=> c.cmd = "SELECT" /\ c.preserve_nested
      BY <2>2, AllSettings
    <2>9. Contains(q.settings, "flatten_nested") <=> nested
      BY <2>3, <2>4, <2>8
    <2>. QED
      BY <2>6, <2>7, <2>9 DEF q, d, nested
  <1>. QED
    BY <1>1, QueryInvariance, PTL


----------------------------------------------------------------------------
(* The default structure. *)

Pre(w) == CASE w = "bare" -> <<>>
            [] w = "nullable" -> <<"Nullable", "(">>
            [] w = "array" -> <<"Array", "(", "Nullable", "(">>
Post(w) == CASE w = "bare" -> <<>>
             [] w = "nullable" -> <<")">>
             [] w = "array" -> <<")", ")">>

LEMMA BasesText ==
  ASSUME NEW b \in Bases
  PROVE  b \in Text /\ ~Contains(b, "esc") /\ Len(b) # 0
  <1>1. /\ \A t1 \in Token : <<t1>> \in Text
        /\ \A t1, t2, t3, t4 \in Token : <<t1, t2, t3, t4>> \in Text
    BY DEF Text
  <1>2. b \in Text
    <2>1. /\ <<"Int32">> \in Text /\ <<"String">> \in Text /\ <<"UUID">> \in Text
          /\ <<"Time64", "(", "6", ")">> \in Text /\ <<"DateTime64", "(", "6", ")">> \in Text
      BY <1>1, TokenAssumption
    <2>2. <<"Decimal", "(", "10", "comma", "sp", "4", ")">> \in Text
      <3>1. /\ "Decimal" \in Token /\ "(" \in Token /\ "10" \in Token /\ "comma" \in Token
            /\ "sp" \in Token /\ "4" \in Token /\ ")" \in Token
        BY TokenAssumption
      <3>. QED
        BY <3>1 DEF Text
    <2>. QED
      BY <2>1, <2>2 DEF Bases
  <1>3. \A i \in 1..Len(b) : b[i] # "esc"
    BY DEF Bases
  <1>4. ~Contains(b, "esc")
    BY <1>3, Zenon DEF Contains
  <1>5. Len(b) # 0
    BY DEF Bases
  <1>. QED
    BY <1>2, <1>4, <1>5

LEMMA WrapsText ==
  ASSUME NEW w \in Wrappers
  PROVE  /\ Pre(w) \in Text /\ Post(w) \in Text
         /\ \A i \in 1..Len(Pre(w)) : Pre(w)[i] \in {"Array", "Nullable", "("}
         /\ \A i \in 1..Len(Post(w)) : Post(w)[i] = ")"
         /\ Len(Pre(w)) # 0 => Pre(w)[Len(Pre(w))] = "("
  <1>1. /\ <<>> \in Text /\ \A t1 \in Token : <<t1>> \in Text
        /\ \A t1, t2 \in Token : <<t1, t2>> \in Text
        /\ \A t1, t2, t3, t4 \in Token : <<t1, t2, t3, t4>> \in Text
    BY DEF Text
  <1>2. w \in {"bare", "nullable", "array"}
    BY DEF Wrappers
  <1>3. CASE w = "bare"
    BY <1>1, <1>3 DEF Pre, Post
  <1>4. CASE w = "nullable"
    BY <1>1, <1>4, TokenAssumption DEF Pre, Post
  <1>5. CASE w = "array"
    BY <1>1, <1>5, TokenAssumption DEF Pre, Post
  <1>. QED
    BY <1>2, <1>3, <1>4, <1>5

LEMMA WrapForm ==
  ASSUME NEW w \in Wrappers, NEW b \in Text
  PROVE  Wrap(w, b) = (Pre(w) \o b) \o Post(w)
  <1>1. w \in {"bare", "nullable", "array"}
    BY DEF Wrappers
  <1>2. CASE w = "bare"
    <2>1. Pre(w) = <<>> /\ Post(w) = <<>> /\ Wrap(w, b) = b
      BY <1>2 DEF Pre, Post, Wrap
    <2>2. <<>> \o b = b /\ b \o <<>> = b
      BY ConcatEmptySeq DEF Text
    <2>. QED
      BY <2>1, <2>2
  <1>3. CASE w = "nullable"
    BY <1>3, Zenon DEF Pre, Post, Wrap
  <1>4. CASE w = "array"
    BY <1>4, Zenon DEF Pre, Post, Wrap
  <1>. QED
    BY <1>1, <1>2, <1>3, <1>4

\* A type of the mapping has the shape structure_as_string is proved for.
LEMMA TypeShaped ==
  ASSUME NEW w \in Wrappers, NEW b \in Bases, NEW type \in {"UUID", "Time64"}
  PROVE  Shaped(Pre(w), b, Post(w), type) /\ Lose(b, type) \in Bases
  <1>1. /\ Pre(w) \in Text /\ Post(w) \in Text /\ b \in Text
        /\ \A i \in 1..Len(Pre(w)) : Pre(w)[i] \in {"Array", "Nullable", "("}
        /\ \A i \in 1..Len(Post(w)) : Post(w)[i] = ")"
        /\ Len(Pre(w)) # 0 => Pre(w)[Len(Pre(w))] = "("
        /\ Len(Post(w)) \in Nat
    BY WrapsText, BasesText DEF Text
  <1>2. Clean(Pre(w), type) /\ Clean(Post(w), type)
    BY <1>1 DEF Clean
  <1>3. Len(Post(w)) # 0 => Post(w)[1] = ")"
    BY <1>1
  <1>4. b[1] = type => Called(b, type)
    <2>1. "6" \in Token \ {"q", ")"}
      BY TokenAssumption
    <2>2. b[1] = type => b = <<type>> \/ b = <<type, "(", "6", ")">>
      BY DEF Bases
    <2>. QED
      BY <2>1, <2>2 DEF Called
  <1>5. b[1] # type => Clean(b, type)
    BY DEF Bases, Clean
  <1>6. Lose(b, type) \in Bases
    BY DEF Lose, Bases
  <1>. QED
    BY <1>1, <1>2, <1>3, <1>4, <1>5, <1>6 DEF Shaped

LEMMA TypeText ==
  ASSUME NEW w \in Wrappers, NEW b \in Bases
  PROVE  Wrap(w, b) \in Text /\ ~Contains(Wrap(w, b), "esc")
  <1> DEFINE S == Token \ {"esc"}
  <1>1. /\ Pre(w) \in Seq(Token) /\ Post(w) \in Seq(Token) /\ b \in Seq(Token) /\ b \in Text
        /\ \A i \in 1..Len(Pre(w)) : Pre(w)[i] # "esc"
        /\ \A i \in 1..Len(Post(w)) : Post(w)[i] # "esc"
        /\ \A i \in 1..Len(b) : b[i] # "esc"
    BY WrapsText, BasesText DEF Text, Contains
  <1>2. \A t \in Seq(Token) : (\A i \in 1..Len(t) : t[i] # "esc") => t \in Seq(S)
    <2>1. \A t \in Seq(Token) : (\A i \in 1..Len(t) : t[i] # "esc") => \A i \in 1..Len(t) : t[i] \in S
      OBVIOUS
    <2>. HIDE DEF S
    <2>. QED
      BY <2>1
  <1>3. \A t \in Seq(S) : t \in Seq(Token) /\ ~Contains(t, "esc")
    BY DEF Contains
  <1>. HIDE DEF S
  <1> DEFINE p == Pre(w)
             z == Post(w)
  <1>4. p \in Seq(S) /\ z \in Seq(S) /\ b \in Seq(S)
    BY <1>1, <1>2
  <1>5. Wrap(w, b) = (p \o b) \o z
    BY <1>1, WrapForm
  <1>. HIDE DEF p, z
  <1>6. p \o b \in Seq(S)
    BY <1>4, ConcatProperties
  <1>7. (p \o b) \o z \in Seq(S)
    BY <1>4, <1>6, ConcatProperties
  <1>. QED
    BY <1>3, <1>5, <1>7 DEF Text


\* The columns with the types that w and b give them.
Formed(columns, w, b) ==
    [i \in DOMAIN columns |-> [columns[i] EXCEPT !.type = Wrap(w[i], b[i])]]

LEMMA FormedFacts ==
  ASSUME NEW columns \in Columns, NEW w \in [1..Len(columns) -> Wrappers],
         NEW b \in [1..Len(columns) -> Bases]
  PROVE  LET new == Formed(columns, w, b) IN
         /\ new \in Columns /\ Len(new) = Len(columns)
         /\ \A i \in 1..Len(columns) :
              new[i].name = columns[i].name /\ new[i].type = Wrap(w[i], b[i])
  <1> DEFINE C == [name : Text, type : Text]
             n == Len(columns)
             new == Formed(columns, w, b)
             Of(i) == [columns[i] EXCEPT !.type = Wrap(w[i], b[i])]
  <1>1. n \in Nat /\ DOMAIN columns = 1..n /\ \A i \in 1..n : columns[i] \in C
    BY ColumnsFacts
  <1>2. \A i \in 1..n : Wrap(w[i], b[i]) \in Text
    BY TypeText
  <1>3. \A c \in C, t \in Text :
          LET d == [c EXCEPT !.type = t] IN d \in C /\ d.name = c.name /\ d.type = t
    OBVIOUS
  <1>4. \A i \in 1..n : Of(i) \in C /\ Of(i).name = columns[i].name /\ Of(i).type = Wrap(w[i], b[i])
    <2>. HIDE DEF C, n
    <2>. QED
      BY <1>1, <1>2, <1>3
  <1>5. new = [i \in 1..n |-> Of(i)]
    BY <1>1, Zenon DEF Formed
  <1>. HIDE DEF new, C, Of, n
  <1>6. new \in Seq(C) /\ Len(new) = n /\ \A i \in 1..n : new[i] = Of(i)
    BY <1>1, <1>4, <1>5
  <1>. QED
    BY <1>4, <1>6 DEF Columns, C, n, new

LEMMA SameFunction ==
  ASSUME NEW n \in Nat, NEW S, NEW f \in [1..n -> S], NEW g \in [1..n -> S],
         \A i \in 1..n : f[i] = g[i]
  PROVE  f = g
  OBVIOUS

\* One pass of structure_as_string over a structure of such columns.
LEMMA FormedAsString ==
  ASSUME NEW columns \in Columns, NEW w \in [1..Len(columns) -> Wrappers],
         NEW b \in [1..Len(columns) -> Bases], NEW type \in {"UUID", "Time64"},
         \A i \in 1..Len(columns) : ~Contains(columns[i].name, "q")
  PROVE  LET d == [i \in 1..Len(columns) |-> Lose(b[i], type)] IN
         /\ d \in [1..Len(columns) -> Bases]
         /\ StructureAsString(StructureOf(Formed(columns, w, b)), type)
              = StructureOf(Formed(columns, w, d))
  <1> DEFINE n == Len(columns)
             d == [i \in 1..n |-> Lose(b[i], type)]
             old == Formed(columns, w, b)
             new == Formed(columns, w, d)
  <1>1. \A i \in 1..n : Shaped(Pre(w[i]), b[i], Post(w[i]), type) /\ Lose(b[i], type) \in Bases
    BY TypeShaped
  <1>2. d \in [1..n -> Bases] /\ \A i \in 1..n : d[i] = Lose(b[i], type)
    BY <1>1
  <1>. HIDE DEF d
  <1>3. /\ old \in Columns /\ Len(old) = n
        /\ \A i \in 1..n : old[i].name = columns[i].name /\ old[i].type = Wrap(w[i], b[i])
    BY FormedFacts
  <1>4. /\ new \in Columns /\ Len(new) = n
        /\ \A i \in 1..n : new[i].name = columns[i].name /\ new[i].type = Wrap(w[i], d[i])
    BY <1>2, FormedFacts
  <1>. HIDE DEF n, old, new
  <1>5. ASSUME NEW i \in 1..n
        PROVE  /\ Shaped(Pre(w[i]), b[i], Post(w[i]), type)
               /\ old[i].type = (Pre(w[i]) \o b[i]) \o Post(w[i])
               /\ new[i].type = (Pre(w[i]) \o Lose(b[i], type)) \o Post(w[i])
    <2>1. w[i] \in Wrappers /\ b[i] \in Bases /\ d[i] \in Bases
      BY <1>2 DEF n
    <2>2. b[i] \in Text /\ d[i] \in Text
      BY <2>1, BasesText
    <2>3. /\ Wrap(w[i], b[i]) = (Pre(w[i]) \o b[i]) \o Post(w[i])
          /\ Wrap(w[i], d[i]) = (Pre(w[i]) \o d[i]) \o Post(w[i])
      BY <2>1, <2>2, WrapForm
    <2>4. d[i] = Lose(b[i], type)
      BY <1>2
    <2>5. old[i].type = Wrap(w[i], b[i]) /\ new[i].type = Wrap(w[i], d[i])
      BY <1>3, <1>4
    <2>6. Shaped(Pre(w[i]), b[i], Post(w[i]), type)
      BY <1>1 DEF n
    <2>. QED
      BY <2>3, <2>4, <2>5, <2>6, Zenon
  <1>6. Rewritten(old, new, type)
    <2>1. \A i \in 1..n : ~Contains(old[i].name, "q") /\ new[i].name = old[i].name
      BY <1>3, <1>4 DEF n
    <2>2. ASSUME NEW i \in 1..n
          PROVE  \E pre, base, post :
                    /\ Shaped(pre, base, post, type)
                    /\ old[i].type = (pre \o base) \o post
                    /\ new[i].type = (pre \o Lose(base, type)) \o post
      BY <1>5, Zenon
    <2>. QED
      BY <1>3, <1>4, <2>1, <2>2 DEF Rewritten
  <1>7. type \notin {"q", "sp", "comma"}
    OBVIOUS
  <1>8. StructureAsString(StructureOf(old), type) = StructureOf(new)
    BY <1>3, <1>4, <1>6, <1>7, AsString
  <1>. QED
    BY <1>2, <1>8 DEF n, d, old, new

\* The columns with the types the format stores them with.
StoredColumns(columns, format) ==
    [i \in DOMAIN columns |-> [columns[i] EXCEPT !.type = Stored(@, format)]]

\* What chDB reads in a default structure: the columns, each with the type the
\* format stores it with.
LEMMA DefaultRead ==
  ASSUME NEW columns \in Columns, NEW format,
         \A i \in DOMAIN columns :
            /\ columns[i].type \in Types
            /\ \A t \in {"esc", "q", "nl"} : ~Contains(columns[i].name, t)
  PROVE  Unescaped(DefaultStructure(columns, format))
            = StructureOf(StoredColumns(columns, format))
  <1> DEFINE n == Len(columns)
             Form(i) == CHOOSE p \in Wrappers \X Bases : Wrap(p[1], p[2]) = columns[i].type
             w == [i \in 1..n |-> Form(i)[1]]
             b == [i \in 1..n |-> Form(i)[2]]
             Kept(i) == IF b[i][1] \in Lost(format) THEN <<"String">> ELSE b[i]
             k == [i \in 1..n |-> Kept(i)]
  <1>1. n \in Nat /\ DOMAIN columns = 1..n
        /\ \A i \in 1..n : columns[i] \in [name : Text, type : Text]
    BY ColumnsFacts
  <1>2. \A i \in 1..n : Form(i) \in Wrappers \X Bases /\ Wrap(Form(i)[1], Form(i)[2]) = columns[i].type
    <2>1. \A i \in 1..n : \E p \in Wrappers \X Bases : Wrap(p[1], p[2]) = columns[i].type
      BY <1>1, Zenon DEF Types
    <2>. QED
      BY <2>1, Zenon
  <1>3. \A i \in 1..n : w[i] = Form(i)[1] /\ b[i] = Form(i)[2]
    OBVIOUS
  <1>. HIDE DEF n
  <1>4. /\ w \in [1..n -> Wrappers] /\ b \in [1..n -> Bases]
        /\ \A i \in 1..n : Wrap(w[i], b[i]) = columns[i].type
    <2>. HIDE DEF Form
    <2>1. \A p \in Wrappers \X Bases : p[1] \in Wrappers /\ p[2] \in Bases
      OBVIOUS
    <2>. QED
      BY <1>2, <1>3, <2>1
  <1>5. Formed(columns, w, b) = columns
    <2>1. \A i \in 1..n : [columns[i] EXCEPT !.type = Wrap(w[i], b[i])] = columns[i]
      <3>1. \A c \in [name : Text, type : Text] : [c EXCEPT !.type = c.type] = c
        OBVIOUS
      <3>. HIDE DEF w, b
      <3>. QED
        BY <1>1, <1>4, <3>1
    <2>2. columns = [i \in 1..n |-> columns[i]]
      BY <1>1 DEF Columns, n
    <2>. HIDE DEF w, b
    <2>3. Formed(columns, w, b) = [i \in 1..n |-> columns[i]]
      BY <1>1, <2>1 DEF Formed
    <2>. QED
      BY <2>2, <2>3
  <1>6. StoredColumns(columns, format) = Formed(columns, w, k)
    <2>1. \A i \in 1..n : Stored(columns[i].type, format) = Wrap(w[i], k[i])
      <3> SUFFICES ASSUME NEW i \in 1..n PROVE Stored(columns[i].type, format) = Wrap(w[i], k[i])
        OBVIOUS
      <3>1. Stored(columns[i].type, format) =
              Wrap(Form(i)[1], IF Form(i)[2][1] \in Lost(format) THEN <<"String">> ELSE Form(i)[2])
        BY Zenon DEF Stored
      <3>2. k[i] = Kept(i)
        OBVIOUS
      <3>. HIDE DEF Form, w, b, k
      <3>. QED
        BY <1>3, <3>1, <3>2
    <2>. HIDE DEF w, k
    <2>. QED
      BY <1>1, <2>1 DEF StoredColumns, Formed
  <1>7. k \in [1..n -> Bases]
    <2>1. \A i \in 1..n : Kept(i) \in Bases
      <3>. HIDE DEF b
      <3>. QED
        BY <1>4 DEF Bases
    <2>. HIDE DEF Kept
    <2>. QED
      BY <2>1
  <1>8. \A i \in 1..n : ~Contains(columns[i].name, "q") /\ ~Contains(columns[i].name, "esc")
    BY <1>1
  <1>9. \A i \in 1..n : k[i] = IF b[i][1] \in Lost(format) THEN <<"String">> ELSE b[i]
    OBVIOUS
  <1>. HIDE DEF w, b, k, Form
  <1>14. n \in Nat
    BY <1>1
  <1>10. DefaultStructure(columns, format) = StructureOf(Formed(columns, w, k))
    <2> DEFINE u == [i \in 1..n |-> Lose(b[i], "UUID")]
               t == [i \in 1..n |-> Lose(b[i], "Time64")]
               v == [i \in 1..n |-> Lose(u[i], "Time64")]
    <2>1. /\ u \in [1..n -> Bases]
          /\ StructureAsString(StructureOf(columns), "UUID") = StructureOf(Formed(columns, w, u))
      BY <1>4, <1>5, <1>8, FormedAsString DEF n
    <2>2. /\ t \in [1..n -> Bases]
          /\ StructureAsString(StructureOf(columns), "Time64") = StructureOf(Formed(columns, w, t))
      BY <1>4, <1>5, <1>8, FormedAsString DEF n
    <2>. HIDE DEF u, t
    <2>3. /\ v \in [1..n -> Bases]
          /\ StructureAsString(StructureOf(Formed(columns, w, u)), "Time64")
               = StructureOf(Formed(columns, w, v))
      BY <1>4, <1>8, <2>1, FormedAsString DEF n
    <2>4. CASE IsFormat(format, "ORC")
      <3>1. FormatLacksTime64(format) /\ Lost(format) = {"UUID", "Time64"}
        <4>1. "ORC" \in DOMAIN Spellings
          BY DEF Spellings
        <4>2. FormatLacksTime64(format)
          BY <2>4, <4>1, Zenon DEF FormatLacksTime64
        <4>. QED
          BY <2>4, <4>2 DEF Lost
      <3>2. \A i \in 1..n : v[i] = k[i]
        <4>1. \A i \in 1..n : u[i] = Lose(b[i], "UUID") /\ v[i] = Lose(u[i], "Time64")
          BY DEF u
        <4>2. ASSUME NEW i \in 1..n PROVE v[i] = k[i]
          <5>1. CASE b[i][1] = "UUID"
            <6>1. u[i] = <<"String">> /\ k[i] = <<"String">>
              BY <1>9, <3>1, <4>1, <5>1 DEF Lose
            <6>2. <<"String">>[1] # "Time64"
              OBVIOUS
            <6>3. v[i] = <<"String">>
              BY <4>1, <6>1, <6>2 DEF Lose
            <6>. QED
              BY <6>1, <6>3
          <5>2. CASE b[i][1] # "UUID"
            <6>1. u[i] = b[i]
              BY <4>1, <5>2 DEF Lose
            <6>2. v[i] = IF b[i][1] = "Time64" THEN <<"String">> ELSE b[i]
              BY <4>1, <6>1 DEF Lose
            <6>3. b[i][1] \in Lost(format) <=> b[i][1] = "Time64"
              BY <3>1, <5>2
            <6>. QED
              BY <1>9, <6>2, <6>3
          <5>. QED
            BY <5>1, <5>2
        <4>. QED
          BY <4>2
      <3>3. v = k
        <4>. HIDE DEF v
        <4>. QED
          <5>1. v \in [1..n -> Bases] /\ k \in [1..n -> Bases]
            BY <1>7, <2>3
          <5>. QED
            BY <1>14, <3>2, <5>1, SameFunction, Zenon
      <3>4. DefaultStructure(columns, format)
              = StructureAsString(StructureAsString(StructureOf(columns), "UUID"), "Time64")
        BY <2>4, <3>1, Zenon DEF DefaultStructure
      <3>. HIDE DEF v
      <3>. QED
        BY <2>1, <2>3, <3>3, <3>4
    <2>5. CASE ~IsFormat(format, "ORC") /\ FormatLacksTime64(format)
      <3>1. Lost(format) = {"Time64"}
        BY <2>5 DEF Lost
      <3>2. \A i \in 1..n : t[i] = k[i]
        <4>1. \A i \in 1..n : t[i] = Lose(b[i], "Time64")
          BY DEF t
        <4>. QED
          BY <1>9, <3>1, <4>1 DEF Lose
      <3>3. t = k
        <4>1. t \in [1..n -> Bases] /\ k \in [1..n -> Bases]
          BY <1>7, <2>2
        <4>. QED
          BY <1>14, <3>2, <4>1, SameFunction, Zenon
      <3>4. DefaultStructure(columns, format) = StructureAsString(StructureOf(columns), "Time64")
        BY <2>5, Zenon DEF DefaultStructure
      <3>. QED
        BY <2>2, <3>3, <3>4
    <2>6. CASE ~IsFormat(format, "ORC") /\ ~FormatLacksTime64(format)
      <3>1. Lost(format) = {}
        BY <2>6 DEF Lost
      <3>2. k = b
        <4>1. \A i \in 1..n : k[i] = b[i]
          BY <1>9, <3>1
        <4>2. k \in [1..n -> Bases] /\ b \in [1..n -> Bases]
          BY <1>4, <1>7
        <4>. QED
          BY <1>14, <4>1, <4>2, SameFunction, Zenon
      <3>3. DefaultStructure(columns, format) = StructureOf(columns)
        BY <2>6, Zenon DEF DefaultStructure
      <3>. QED
        BY <1>5, <3>2, <3>3
    <2>. QED
      BY <2>4, <2>5, <2>6
  <1> DEFINE new == Formed(columns, w, k)
  <1>11. /\ new \in Columns /\ Len(new) = n
         /\ \A i \in 1..n : new[i].name = columns[i].name /\ new[i].type = Wrap(w[i], k[i])
    BY <1>4, <1>7, FormedFacts DEF n
  <1>12. \A i \in 1..n : ~Contains(Wrap(w[i], k[i]), "esc")
    BY <1>4, <1>7, TypeText
  <1>. HIDE DEF new
  <1>13. Unescaped(StructureOf(new)) = StructureOf(new)
    BY <1>8, <1>11, <1>12, StructurePlain
  <1>. QED
    BY <1>6, <1>10, <1>13 DEF new


\* Every list of columns is one, wherever it is kept.
ColumnsInv ==
    /\ rel # NoRel => rel.columns \in Columns
    /\ \A s \in Sessions :
        /\ pending[s] # NoRel => pending[s].columns \in Columns
        /\ described[s] \in Columns
        /\ stmt[s].columns \in Columns /\ stmt[s].options.given \in Columns
        /\ stmt[s].list \in Seq(Text)

\* Neither the statement nor chDB has said what the structure is.
Unnamed(s) == described[s] = <<>> /\ stmt[s].options.structure = <<>>

\* The context has no structure as long as nobody has named one, and then the
\* query has the default one of the columns that are copied.
Listing(s) ==
    /\ pc[s] \in {"run", "running"} => Listed(s) \in Columns
    /\ Unnamed(s) =>
        /\ \/ pc[s] \in {"describe", "describing", "create", "wait", "url", "run"}
           \/ pc[s] \in {"open", "check"} /\ stmt[s].op = "create"
           => ctx[s].structure = <<>> /\ ctx[s].format = stmt[s].options.format
        /\ pc[s] = "running" =>
            query[s].ctx.structure = DefaultStructure(Listed(s), stmt[s].options.format)

LInv == ColumnsInv /\ \A s \in Sessions : Listing(s)

\* The columns of a list of names, all of them for none.
Picked(columns, list) ==
    IF list = <<>> THEN columns
    ELSE [i \in DOMAIN list |->
            columns[SelectInSeq(columns, LAMBDA c : c.name = list[i])]]

LEMMA ListedPicked ==
  ASSUME NEW s \in Sessions
  PROVE  /\ Listed(s) = Picked(Visible(s).columns, stmt[s].list)
         /\ Listed(s)' = Picked(Visible(s)'.columns, stmt'[s].list)
  <1>1. Listed(s) = Picked(Visible(s).columns, stmt[s].list)
    BY Zenon DEF Listed, Picked
  <1>2. Listed(s)' = Picked(Visible(s)'.columns, stmt'[s].list)
    BY Zenon DEF Listed, Picked, SelectInSeq
  <1>. QED
    BY <1>1, <1>2

LEMMA PickedColumns ==
  ASSUME NEW columns \in Columns, NEW list \in Seq(Text),
         \A i \in DOMAIN list : \E j \in DOMAIN columns : columns[j].name = list[i]
  PROVE  Picked(columns, list) \in Columns
  <1> DEFINE C == [name : Text, type : Text]
             I(i) == {j \in 1..Len(columns) : columns[j].name = list[i]}
             At1(i) == SelectInSeq(columns, LAMBDA c : c.name = list[i])
  <1>1. DOMAIN columns = 1..Len(columns) /\ \A j \in 1..Len(columns) : columns[j] \in C
    BY ColumnsFacts
  <1>2. ASSUME NEW i \in DOMAIN list PROVE columns[At1(i)] \in C
    <2>1. I(i) # {} /\ I(i) \subseteq Nat
      BY <1>1
    <2>2. At1(i) = Min(I(i))
      BY <2>1, Zenon DEF SelectInSeq
    <2>3. Min(I(i)) \in I(i)
      BY <2>1, MinIsLeast
    <2>. QED
      BY <1>1, <2>2, <2>3
  <1>3. CASE list = <<>>
    BY <1>3 DEF Picked
  <1>4. CASE list # <<>>
    <2>1. Picked(columns, list) = [i \in DOMAIN list |-> columns[At1(i)]]
      BY <1>4, Zenon DEF Picked
    <2>2. DOMAIN list = 1..Len(list) /\ Len(list) \in Nat
      OBVIOUS
    <2>. HIDE DEF At1, C
    <2>3. [i \in 1..Len(list) |-> columns[At1(i)]] \in Seq(C)
      BY <1>2, <2>2
    <2>. QED
      BY <2>1, <2>2, <2>3 DEF Columns, C
  <1>. QED
    BY <1>3, <1>4

LEMMA OneLineEmpty == OneLine(<<>>) = <<>>
  <1>1. Len(<<>>) = 0 /\ 1..0 = {}
    OBVIOUS
  <1>2. OneLine(<<>>) \in Seq({}) /\ Len(OneLine(<<>>)) = 0
    BY DEF OneLine, ReplaceAll
  <1>. QED
    BY <1>2, EmptySeq

LEMMA DefColumn ==
  ASSUME NEW columns \in Columns
  PROVE  [i \in DOMAIN columns |-> ColumnDef(columns[i])] \in Columns
  <1> DEFINE C == [name : Text, type : Text]
             n == Len(columns)
  <1>1. n \in Nat /\ DOMAIN columns = 1..n /\ \A i \in 1..n : columns[i] \in C
    BY ColumnsFacts
  <1>2. <<"Array", "(", "String", ")">> \in Text
    <2>1. \A t1, t2, t3, t4 \in Token : <<t1, t2, t3, t4>> \in Text
      BY DEF Text
    <2>. QED
      BY <2>1, TokenAssumption
  <1>3. \A c \in C, t \in Text : [c EXCEPT !.type = t] \in C
    OBVIOUS
  <1>4. \A c \in C : ColumnDef(c) \in C
    <2>. HIDE DEF C
    <2>. QED
      BY <1>2, <1>3 DEF ColumnDef
  <1>. HIDE DEF C, n
  <1>5. [i \in 1..n |-> ColumnDef(columns[i])] \in Seq(C)
    BY <1>1, <1>4
  <1>. QED
    BY <1>1, <1>5 DEF Columns, C


\* A step of a session keeps lists of columns what they are.
LEMMA SessionColumns ==
  ASSUME HInv, QInv, ColumnsInv, NEW s \in Sessions, SessionStep(s)
  PROVE  ColumnsInv'
  <1>0. /\ FrameInv /\ DataInv /\ stmt' = stmt /\ DOMAIN described = Sessions
        /\ \A t \in Sessions \ {s} : pending'[t] = pending[t] /\ described'[t] = described[t]
    BY SessionFrame, SessionData DEF HInv, QInv, DataInv
  <1>1. /\ \/ pending' = [pending EXCEPT ![s] = NoRel]
           \/ pending' = [pending EXCEPT ![s] = Created(s)]
           \/ pending' = pending
        /\ rel' = rel \/ rel' = Visible(s)
        /\ \/ described' = described
           \/ described' = [described EXCEPT ![s] = Reported(s)]
    <2>1. CASE Create(s)
      BY <2>1 DEF Create
    <2>2. CASE Commit(s)
      BY <2>2 DEF Commit
    <2>3. CASE EndDescribe(s)
      BY <2>3 DEF EndDescribe, Raise, catalog
    <2>4. CASE ~Create(s) /\ ~Commit(s) /\ ~EndDescribe(s)
      <3>1. CASE Raise(s)
        BY <3>1 DEF Raise
      <3>2. CASE ~Raise(s)
        <4>1. described' = described /\ UNCHANGED catalog
          BY <2>4, <3>2 DEF SessionStep, PassThrough, BeginCopy, BeginCreate, StartDescribe,
             CreateSkipped, CreateExists, CreateWaits, CreateConflicts, CopyUrlInto,
             OpenRelation, CheckRelation, StartCopy, FinishCopy, HelperRaises
        <4>. QED
          BY <4>1 DEF catalog
      <3>. QED
        BY <3>1, <3>2
    <2>. QED
      BY <2>1, <2>2, <2>3, <2>4
  <1>2. Reported(s) \in Columns
    BY <1>0 DEF Reported, DataInv, ColumnsInv
  <1>3. Created(s).columns \in Columns
    <2>1. described[s] \in Columns /\ stmt[s].columns \in Columns
      BY DEF ColumnsInv
    <2>2. [i \in DOMAIN described[s] |-> ColumnDef(described[s][i])] \in Columns
      BY <2>1, DefColumn
    <2>. QED
      BY <2>1, <2>2 DEF Created
  <1>4. Visible(s) # NoRel => Visible(s).columns \in Columns
    BY DEF Visible, ColumnsInv
  <1>5. rel' # NoRel => rel'.columns \in Columns
    BY <1>1, <1>4 DEF ColumnsInv
  <1>6. pending'[s] # NoRel => pending'[s].columns \in Columns
    BY <1>0, <1>1, <1>3 DEF ColumnsInv, FrameInv
  <1>7. described'[s] \in Columns
    BY <1>0, <1>1, <1>2 DEF ColumnsInv
  <1>. QED
    BY <1>0, <1>5, <1>6, <1>7 DEF ColumnsInv

\* So does what others do to the relation.
LEMMA OtherColumnsKept ==
  ASSUME HInv, ColumnsInv,
         OtherCreates \/ OtherDrops \/ OtherAlters \/ OtherGrants \/ RemoteChanges
  PROVE  ColumnsInv'
  <1>1. UNCHANGED <<stmt, pending, described>>
    BY DEF OtherCreates, OtherDrops, OtherAlters, OtherGrants, RemoteChanges, mine
  <1>2. rel # NoRel => IsRelation(rel) /\ rel.columns \in Columns
    BY DEF HInv, CatalogInv, ColumnsInv
  <1>3. rel' # NoRel => rel'.columns \in Columns
    <2>1. CASE OtherCreates
      BY <2>1, ColumnsAssumption DEF OtherCreates
    <2>2. CASE OtherDrops
      BY <2>2 DEF OtherDrops
    <2>3. CASE OtherAlters
      BY <1>2, <2>3, ColumnsAssumption DEF OtherAlters, IsRelation
    <2>4. CASE OtherGrants
      BY <1>2, <2>4 DEF OtherGrants, IsRelation
    <2>5. CASE RemoteChanges
      BY <1>2, <2>5 DEF RemoteChanges
    <2>. QED
      BY <2>1, <2>2, <2>3, <2>4, <2>5
  <1>. QED
    BY <1>1, <1>3 DEF ColumnsInv

\* A session that stays where it is and finds the columns it found.
LEMMA ListingKept ==
  ASSUME NEW s \in Sessions, Listing(s), stmt' = stmt, pc'[s] = pc[s], ctx'[s] = ctx[s],
         described'[s] = described[s], query'[s] = query[s],
         pc[s] \in {"run", "running"} => Visible(s)'.columns = Visible(s).columns
  PROVE  Listing(s)'
  <1>1. pc[s] \in {"run", "running"} => Listed(s)' = Listed(s)
    BY ListedPicked
  <1>. QED
    BY <1>1 DEF Listing, Unnamed

\* A session that is over, and one on its way to the relation.
LEMMA ListingEnd ==
  ASSUME NEW s \in Sessions, pc'[s] \in {"start", "raised", "over", "done"}
  PROVE  Listing(s)'
  BY DEF Listing

LEMMA ListingOn ==
  ASSUME NEW s \in Sessions, stmt' = stmt,
         pc'[s] \notin {"run", "running"},
         Unnamed(s)' => ctx'[s].structure = <<>> /\ ctx'[s].format = stmt[s].options.format
  PROVE  Listing(s)'
  BY DEF Listing

\* contextualize_options keeps the format and a missing structure.
LEMMA ContextListing ==
  ASSUME NEW s \in Sessions, NEW cmd, stmt[s].options.structure = <<>>
  PROVE  /\ Contextualized(s, cmd).structure = <<>>
         /\ Contextualized(s, cmd).format = stmt[s].options.format
  BY OneLineEmpty DEF Contextualized

\* The steps of a session name a structure only where the code does.
LEMMA SessionListing ==
  ASSUME HInv, QInv, ColumnsInv, NEW s \in Sessions, Listing(s), SessionStep(s)
  PROVE  Listing(s)'
  <1>0. /\ stmt' = stmt /\ Ready(s)
        /\ DOMAIN pc = Sessions /\ DOMAIN ctx = Sessions
        /\ DOMAIN described = Sessions /\ DOMAIN query = Sessions
    BY SessionData DEF HInv, FrameInv, QInv, DataInv
  <1>1. CASE Raise(s)
    BY <1>0, <1>1, ListingEnd DEF Raise
  <1>2. CASE PassThrough(s) \/ FinishCopy(s) \/ Commit(s)
    <2>1. pc'[s] \in {"over", "done"}
      BY <1>0, <1>2 DEF PassThrough, FinishCopy, Commit, Goes
    <2>. QED
      BY <2>1, ListingEnd
  <1>3. CASE BeginCopy(s) /\ ~Raise(s)
    <2>1. pc'[s] = "open" /\ stmt[s].op # "create"
      BY <1>0, <1>3 DEF BeginCopy, OwnsCopy, Goes
    <2>. QED
      BY <1>0, <2>1 DEF Listing
  <1>4. CASE BeginCreate(s) /\ ~Raise(s)
    <2>1. pc'[s] \in {"describe", "create"} /\ ctx'[s] = Contextualized(s, "NONE")
      BY <1>0, <1>4 DEF BeginCreate, Goes
    <2>. QED
      BY <1>0, <2>1, ContextListing, ListingOn DEF Unnamed
  <1>5. CASE StartDescribe(s) /\ ~Raise(s)
    <2>1. /\ pc[s] = "describe" /\ pc'[s] = "describing" /\ described' = described
          /\ ctx' = ctx
      BY <1>0, <1>5 DEF StartDescribe, Goes
    <2>. QED
      BY <1>0, <2>1, ListingOn DEF Unnamed, Listing
  <1>6. CASE EndDescribe(s) /\ ~Raise(s)
    <2>1. pc'[s] = "create" /\ described'[s] # <<>>
      BY <1>0, <1>6 DEF EndDescribe, Goes
    <2>. QED
      BY <1>0, <2>1, ListingOn DEF Unnamed
  <1>7. CASE Create(s) \/ CreateSkipped(s) \/ CreateWaits(s)
    <2>1. /\ pc[s] \in {"create", "wait"} /\ pc'[s] \in {"wait", "url", "done"}
          /\ ctx' = ctx /\ described' = described
      BY <1>0, <1>7 DEF Create, CreateSkipped, CreateWaits, AfterCreate, Goes
    <2>. QED
      BY <1>0, <2>1, ListingOn DEF Unnamed, Listing
  <1>8. CASE CopyUrlInto(s) /\ ~Raise(s)
    <2>1. /\ pc[s] = "url" /\ pc'[s] = "open" /\ described' = described
          /\ ctx'[s] = [ctx[s] EXCEPT !.cmd = "SELECT"]
      BY <1>0, <1>8 DEF CopyUrlInto, Goes
    <2>2. DOMAIN ctx[s] = Fields
      BY <1>0, <2>1 DEF Ready, ContextOf
    <2>3. ctx'[s].structure = ctx[s].structure /\ ctx'[s].format = ctx[s].format
      BY <2>1, <2>2 DEF Fields
    <2>. QED
      BY <1>0, <2>1, <2>3, ListingOn DEF Unnamed, Listing
  <1>9. CASE OpenRelation(s) /\ ~Raise(s)
    <2>1. pc[s] = "open" /\ pc'[s] = "check" /\ ctx' = ctx /\ described' = described
      BY <1>0, <1>9 DEF OpenRelation, Goes
    <2>. QED
      BY <1>0, <2>1 DEF Unnamed, Listing
  <1>10. CASE CheckRelation(s) /\ ~Raise(s)
    <2>1. /\ pc[s] = "check" /\ pc'[s] = "run" /\ described' = described
          /\ stmt[s].op = "create" => ctx'[s] = ctx[s]
          /\ stmt[s].op # "create" => ctx'[s] = Contextualized(s, Command(stmt[s]))
          /\ ~RelationRefused(s) /\ UNCHANGED catalog
      BY <1>0, <1>10 DEF CheckRelation, Goes, Command
    <2>2. Visible(s) # NoRel /\ Visible(s)' = Visible(s)
      BY <2>1 DEF HInv, LockInv, Holds, Visible, catalog
    <2>3. Listed(s)' \in Columns
      <3> DEFINE columns == Visible(s).columns
                 list == stmt[s].list
      <3>1. columns \in Columns /\ list \in Seq(Text)
        BY <2>2 DEF ColumnsInv, Visible
      <3>2. \A i \in DOMAIN list : \E j \in DOMAIN columns : columns[j].name = list[i]
        BY <2>1, Zenon DEF RelationRefused
      <3>. HIDE DEF columns, list
      <3>3. Picked(columns, list) \in Columns
        BY <3>1, <3>2, PickedColumns
      <3>. QED
        BY <1>0, <2>2, <3>3, ListedPicked DEF columns, list
    <2>4. Unnamed(s)' => ctx'[s].structure = <<>> /\ ctx'[s].format = stmt[s].options.format
      BY <1>0, <2>1, ContextListing DEF Listing, Unnamed
    <2>. QED
      BY <1>0, <2>1, <2>3, <2>4 DEF Listing
  <1>11. CASE StartCopy(s) /\ ~Raise(s)
    <2> DEFINE c == CopyContext(s)
    <2>1. /\ pc[s] = "run" /\ pc'[s] = "running" /\ described' = described
          /\ query'[s] = MakeChQuery(c) /\ UNCHANGED catalog
      BY <1>0, <1>11 DEF StartCopy, Goes
    <2>2. DOMAIN ctx[s] = Fields
      BY <1>0, <2>1 DEF Ready, ContextOf
    <2>3. Listed(s)' = Listed(s) /\ Listed(s) \in Columns
      BY <1>0, <2>1, ListedPicked DEF Visible, catalog, Listing
    <2>4. ASSUME Unnamed(s)
          PROVE  c.structure = DefaultStructure(Listed(s), stmt[s].options.format)
      <3>1. ctx[s].structure = <<>> /\ ctx[s].format = stmt[s].options.format
        BY <2>1, <2>4 DEF Listing
      <3>2. c = [ctx[s] EXCEPT !.structure = DefaultStructure(Listed(s), ctx[s].format)]
        BY <3>1 DEF CopyContext
      <3>. HIDE DEF c
      <3>. QED
        BY <2>2, <3>1, <3>2 DEF Fields
    <2>. HIDE DEF c
    <2>5. query'[s].ctx = c
      BY <2>1 DEF MakeChQuery
    <2>. QED
      BY <1>0, <2>1, <2>3, <2>4, <2>5 DEF Listing, Unnamed
  <1>. QED
    BY <1>1, <1>2, <1>3, <1>4, <1>5, <1>6, <1>7, <1>8, <1>9, <1>10, <1>11, Zenon
       DEF SessionStep, CreateExists, CreateConflicts, HelperRaises


\* What chdb_copy takes a default structure from, in every reachable state.
THEOREM ListingInvariance == Spec => []LInv
  <1>1. Init => LInv
    <2> SUFFICES ASSUME Init PROVE LInv
      OBVIOUS
    <2>1. PICK c \in Scenarios :
            /\ stmt = c.stmt /\ rel = c.rel
            /\ pc = [s \in Sessions |-> IF c.stmt[s].op = "idle" THEN "over" ELSE "start"]
            /\ described = [s \in Sessions |-> <<>>]
            /\ pending = [s \in Sessions |-> NoRel]
      BY DEF Init
    <2>2. <<>> \in Columns
      BY DEF Columns
    <2>3. ColumnsInv
      BY <2>1, <2>2, ColumnsAssumption DEF ColumnsInv
    <2>4. ASSUME NEW s \in Sessions PROVE Listing(s)
      <3>1. pc[s] \in {"over", "start"}
        BY <2>1
      <3>. QED
        BY <3>1 DEF Listing
    <2>. QED
      BY <2>3, <2>4 DEF LInv
  <1>2. HInv /\ QInv /\ LInv /\ [Next]_vars => LInv'
    <2> SUFFICES ASSUME HInv, QInv, LInv, [Next]_vars PROVE LInv'
      OBVIOUS
    <2>1. FrameInv /\ CatalogInv /\ LockInv /\ DataInv /\ ColumnsInv
          /\ \A s \in Sessions : Listing(s)
      BY DEF HInv, QInv, LInv
    <2>2. \A s \in Sessions : pc[s] \in {"run", "running"} => Visible(s) # NoRel /\ Holds(s)
      BY <2>1 DEF LockInv, Holds
    <2>3. CASE UNCHANGED vars
      <3>1. ColumnsInv'
        BY <2>1, <2>3 DEF vars, ColumnsInv
      <3>2. \A s \in Sessions : Visible(s)' = Visible(s)
        BY <2>3 DEF vars, Visible
      <3>3. UNCHANGED <<stmt, pc, ctx, described, query>>
        BY <2>3 DEF vars
      <3>. QED
        BY <2>1, <3>1, <3>2, <3>3, ListingKept DEF LInv
    <2>4. ASSUME NEW s \in Sessions, SessionStep(s) PROVE LInv'
      <3>1. ColumnsInv' /\ Listing(s)'
        BY <2>1, <2>4, SessionColumns, SessionListing
      <3>2. ASSUME NEW t \in Sessions \ {s} PROVE Listing(t)'
        <4>1. /\ stmt' = stmt /\ pc'[t] = pc[t] /\ ctx'[t] = ctx[t]
              /\ described'[t] = described[t] /\ query'[t] = query[t]
          BY <2>1, <2>4, SessionFrame, SessionData
        <4>2. pc[t] \in {"run", "running"} => Visible(t)' = Visible(t)
          BY <2>1, <2>2, <2>4, SessionVisible
        <4>. QED
          BY <2>1, <4>1, <4>2, ListingKept
      <3>. QED
        BY <3>1, <3>2 DEF LInv
    <2>5. CASE OtherCreates \/ OtherDrops \/ OtherAlters \/ OtherGrants \/ RemoteChanges
      <3>1. UNCHANGED <<stmt, pc, ctx, described, query, pending>>
        BY <2>5 DEF OtherCreates, OtherDrops, OtherAlters, OtherGrants, RemoteChanges, mine
      <3>2. ColumnsInv'
        BY <2>1, <2>5, OtherColumnsKept
      <3>3. ASSUME NEW s \in Sessions, pc[s] \in {"run", "running"}
            PROVE  Visible(s)'.columns = Visible(s).columns
        <4>1. CASE OtherCreates \/ OtherDrops \/ OtherAlters
          <5>1. Unlocked
            BY <4>1 DEF OtherCreates, OtherDrops, OtherAlters
          <5>. QED
            BY <2>1, <2>2, <3>3, <5>1, LockedOut
        <4>2. CASE OtherGrants
          <5>1. IsRelation(rel) /\ \E acl : rel' = [rel EXCEPT !.acl = acl]
            BY <2>1, <4>2 DEF OtherGrants, CatalogInv
          <5>2. rel'.columns = rel.columns
            BY <5>1 DEF IsRelation
          <5>. QED
            BY <3>1, <5>2 DEF Visible
        <4>3. CASE RemoteChanges
          BY <3>1, <4>3 DEF RemoteChanges, Visible
        <4>. QED
          BY <2>5, <4>1, <4>2, <4>3
      <3>. QED
        BY <2>1, <3>1, <3>2, <3>3, ListingKept DEF LInv
    <2>. QED
      BY <2>3, <2>4, <2>5 DEF Next, Terminated
  <1>. QED
    BY <1>1, <1>2, Invariance, QueryInvariance, PTL DEF Spec

\* The structure chdb_copy passes when nobody names one is that of the columns
\* it copies, with String for just the types a named format lacks (UUID in ORC, and
\* Time64 where format_lacks_time64), wherever in a type they stand: no name that
\* reads like a type and no comma inside a type misleads structure_as_string.
THEOREM DefaultsStored == Spec => []StructureRewritten
  <1>1. QInv /\ LInv => StructureRewritten
    <2> SUFFICES ASSUME QInv, LInv, NEW s \in Sessions, Defaults(s), Ordinary(s)
                 PROVE  Unescaped(Value(query[s], "structure")) = Meant(s)
      BY Zenon DEF StructureRewritten
    <2> DEFINE q == query[s]
               c == q.ctx
               columns == Listed(s)
               format == stmt[s].options.format
    <2>1. AtHelper(s) /\ pc[s] = "running" /\ Unnamed(s)
      BY DEF AtHelper, Defaults, Unnamed
    <2>2. c.scheme \in Schemes /\ q.params = Params(c)
      BY <2>1, QueryContext
    <2>3. columns \in Columns /\ c.structure = DefaultStructure(columns, format)
      BY <2>1 DEF LInv, Listing
    <2>4. \A i \in DOMAIN columns :
            /\ columns[i].type \in Types
            /\ \A t \in {"esc", "q", "nl"} : ~Contains(columns[i].name, t)
      BY Zenon DEF Ordinary
    <2>5. Meant(s) = StructureOf(StoredColumns(columns, format))
      BY Zenon DEF Meant, StoredColumns
    <2>. HIDE DEF q, c, columns, format
    <2>6. Value(q, "structure") = DefaultStructure(columns, format)
      <3>1. PICK A : Distinct(q.params, A)
        BY <2>2, ParamsPassed
      <3>2. Passes(q.params, "structure", c.structure)
        BY <2>2, ParamsPassed
      <3>. QED
        BY <2>3, <3>1, <3>2, ValuePassed
    <2>7. Unescaped(DefaultStructure(columns, format)) = StructureOf(StoredColumns(columns, format))
      BY <2>3, <2>4, DefaultRead
    <2>. QED
      BY <2>5, <2>6, <2>7 DEF q
  <1>. QED
    BY <1>1, QueryInvariance, ListingInvariance, PTL
=============================================================================
