# A TLA+ verification of pg_chdb

pg_chdb lets a PostgreSQL backend run chDB queries: `chdb_query()` as a
function, and, through a utility hook, `COPY ... FROM/TO` a URL and `CREATE
TABLE` from one. libchdb never runs in the backend. Each statement starts a
program, `chdb_helper`, gives it a query, and exchanges Native blocks with it.
This directory models that machinery, checks it with TLC and proves its safety
properties with TLAPS.

Paths below are relative to the repository.

## 1. Inventory

| Part | Source | State | Operations |
|---|---|---|---|
| Helper session, backend side | `src/helper.c`, `src/helper.h` | `struct chdbHelper`: pid, three own and three peer descriptors, captured error text, wait status | `chdb_helper_start`, `_recv`, `_write`, `_finish`, `drain_err`, `drain_and_reap`, `report_helper`, the reset callback `stop_helper` |
| Helper program | `src/helper/chdb_helper.c` | payload buffer, chDB connection, stream or insert | `read_setup`, take functions, `setup_session`, `run_select`, `run_query`, `run_insert` |
| Setup payload | `src/setup.h`, both of the above | bytes | `build_setup`, `read_setup`, `take1/2/_str` |
| COPY TO row path | `src/native.c` 58-258 | writer, `nativeSink` | scan loop, `send_block`, `sink_write`, `sink_flush` |
| COPY FROM row path | `src/native.c` 262-892 | reader, `nativeInsert`, routed partition and trigger flags | loop of `chdb_copy_receive`, `buffer_store`, `flush_buffer`, `insert_row` |
| `chdb_query` | `src/chdb.c`, `src/native.c` 894-1001 | tuplestore | `chdb_select_receive` |
| DESCRIBE | `src/native.c` 538-597, `src/hook/copy.c` 199-228 | list of columns | `chdb_native_describe`, `chdb_describe` |
| Settings | `src/gucs.h` | three GUCs | casts into `chdbHelperContext` |
| Utility hook | `src/hook/hook.c` | statement, relation and its lock | `chDBProcessUtilityHook`, `open_copy_relation`, options, privileges |
| CREATE TABLE from a URL | `src/hook/create.c` | column list | `chdb_create_from_url`, `chdb_url_columns` |
| Query assembly | `src/hook/copy.c` | query text and named parameters | `make_ch_query`, URL and Azure parsing, structure rewriting |
| Type conversion | `vendor/` (empty submodules) | | `pgch_*`, `chc_*` |
| libchdb | external | | |

How they meet. The backend and the helper are two processes with a
socketpair (blocks), an error pipe and a setup pipe between them. The backend's
ends are non-blocking, the helper's block. The backend's only reaction to an
error is `ereport`, which unwinds to whatever resets the memory context, and
that runs `stop_helper`. Row counts never cross.

What is hard about it: two processes with bounded channels in both directions,
so that each may wait on the other; end of file that means success, failure,
crash or cancellation depending on a status that arrives later; cleanup that
may begin anywhere; a backend that dies without cleanup; a limit computed twice
in two programs; buffers whose contents a trigger may or may not see. The list,
line by line, is `hazards` in `PROJECT.json`.

What makes each part correct:

- session: a statement returns only if everything crossed and the helper ended
  well; every other end raises, and leaves no descriptor and no process; every
  statement ends, a cancelled one even if the engine hangs;
- payload: what is taken is what was written; a prefix is never run; the two
  limits agree;
- COPY TO: the byte stream is the encoder's, every row is in one block;
- COPY FROM: the rows are stored once, in order, with their own relation's
  triggers, and a decoding error is not taken for the end;
- hook and CREATE TABLE: nothing reaches a helper before the role, the
  transaction and the relation allow it; what is copied is what was checked,
  though others run DDL; a table made from a URL is loaded with the columns it
  was made from, though the data at the URL changes;
- query assembly: a well-formed query for every scheme and option, that says
  what the statement said: its columns, its URL, its timeout.

## 2. Modules

| Module | Models | Kind |
|---|---|---|
| `HelperSession` | one statement and its helper: backend, helper, engine, kernel | system |
| `HelperSessionInv` | the inductive invariant of `HelperSession`, in named parts | invariant |
| `HelperSessionProofs` | theorems and proofs | TLAPS |
| `Statement` | what a statement promises, without processes or channels | abstract specification |
| `HelperSessionRef` | the refinement mapping from `HelperSession` to `Statement`, and the two invariants it needs beyond `IInv` | refinement |
| `HelperSessionRefProofs` | the proof that it is one | TLAPS |
| `SetupPayload` | payload bytes, from GUCs to session settings | component |
| `SetupPayloadProofs` | its theorems and proofs | TLAPS |
| `Transfer` | what a copy of rows promises, without blocks, buffers or triggers | abstract specification |
| `SendRows` | the row path of COPY TO, mapped to `Transfer` | component |
| `SendRowsProofs` | its theorems and proofs | TLAPS |
| `ReceiveRows` | the row paths of COPY FROM, `chdb_query` and DESCRIBE, mapped to `Transfer` | component |
| `ReceiveRowsProofs` | its theorems and proofs | TLAPS |
| `CopyQuery` | the query text of a COPY or a DESCRIBE, as operators | algorithm |
| `CopyQueryProofs` | what those operators compute, for every text | TLAPS |
| `Hook` | the utility hook in several sessions at one relation name, on top of `CopyQuery` | component |
| `HookProofs` | its theorems and proofs | TLAPS |
| `DataInduction` | induction over numbers and sequences, and the facts about joined sequences that the proofs share | TLAPS |
| `MC*` | constants for TLC | instances |

`PROJECT.json` maps every definition to its lines. Definitions marked
`Variant:` are altered forms of the definition that follows them; each shows
that a property notices a plausible mistake in that piece of code.

### HelperSession

Backend state: `bpc` is the point of the backend in helper.c (`start`, `fork`,
`setup`, `send`, `recv`, `drain`, `judge`, ...), `then` the caller that
`drain_and_reap` returns to, `own` and `peer` the open descriptors, `err_len`,
`reaped` and `status` the fields of `struct chdbHelper`, `outcome` how the
statement ended. Helper state: `proc` is the process as the kernel sees it
(`alive`, `dying` while it exits with its descriptors closed, `zombie`, `gone`
once waited for, `stolen` when other code of the backend did the waiting),
`hpc` the point of the program, `code` the exit status it is heading for,
`chunk` what it holds in its buffer, `err_due` a stderr write in progress,
`armed` the parent-death signal. Engine state: `made`, `appended`, `dest`.
Channels: `sent[c]` and `got[c]`, units written and read, with capacity
`Cap[c]`.

An action is one turn of a loop or one call between two points where another
process can be seen to act. So `write_all` is `WriteSetup`/`Send` (a write that
takes some bytes), `DrainWhileBlocked` (EAGAIN, then `drain_err` and
`wait_fd`), `WriteSetupPipe`/`SendPipe` (EPIPE) and
`WriteSetupFails`/`SendFails` (any other errno). The helper's own `write_all`
ends in `Write`, in `WriteLost` (the backend has closed its end) or in
`WriteFails` (any other errno, while the backend is still there): the code
returns the same status for both. `DrainErr` stands for the
whole loop of `drain_err`: it takes all there is and closes at end of file.
`JudgeEOF`, `JudgeFinish` and `JudgeReport` are what the callers of
`drain_and_reap` do with the status; the second wait inside `report_helper`
finds the channel closed and the child reaped, so it is the same step.

`Faults` selects what the environment may do: fail to open or fork or exec,
cancel, raise in the statement, fail to decode a block, kill the backend, crash
the helper, take the child's status away, write to stderr unasked, and return
unusual errors from read and write. Failures of the engine are not faults:
every engine call may fail in every run.

Abstractions. Bytes are counted, not interpreted; a block is `BlockLen` units.
Between fork and exec the child holds copies of the backend's ends, which is
not modelled, since it touches no channel before exec closes them. The six
`close` calls of `stop_helper` are one step, as nothing in the backend runs
between them; the kill that follows is a step of its own, because the helper
does run in between. A read error of the error pipe other than EAGAIN is
treated as EAGAIN, as the code does. `wait_fd` is the absence of a step;
its timeout of a second only re-runs the loop.

Both builds are covered: `linux` says whether the program was built with the
parent-death signal, which the child asks for on Linux only
(`src/helper.c:294`).

### Statement

`Statement` has six variables and no processes: the kind of statement, how much
it has to move and has moved, the target of an insert, the helper, the phase.
It says when a statement may return (everything moved, the insert committed, the
helper gone), that after it is over nothing is left, and that part of an insert
is committed only under a statement that raised or whose backend died. For
`chdb_query` it says less, as the code does less: the call may return without
the whole result and with the helper alive.

`HelperSessionRef` maps `moved` to what the backend has read (or, for an insert,
what the engine has taken), `helper` to the process, which counts as up until it
has been waited for, and `phase` to the backend's point and outcome.
`KeepsPromise` is `Statement`'s specification under that mapping.

### SetupPayload

Widths are scaled: a byte is a digit of base `Base`, a `uint16_t` two of them,
a string length `LenBytes` of them, so overflow, truncation in the middle of a
field and the meeting of the limit with the doubling buffer all happen on a
small instance. `Values`, `Byte` and `Capacity` are recursive functions: how many
values a width has, the i-th byte of a number, the buffer after k doublings. `cut` is how much of the payload arrives before the channel
closes.

### Transfer

Rows of a source arrive in its order, none twice, and stay; a step deals with any
number of further rows at once; once the copy has returned or raised nothing
arrives. `every` says that a row that is dealt with arrives, `whole` that a copy
that returns has dealt with all of them. Both row paths implement it:

| `Transfer` | in `SendRows` | in `ReceiveRows` |
|---|---|---|
| `every` | always | not where a BEFORE ROW trigger or a foreign table may take a row away |
| `whole` | always | all but `chdb_query`, which does not look at `reader.error` |
| `dealt` | rows of blocks whose pieces are all on the wire | rows the reader returned and the buffer does not hold |
| `arrived` | those rows | rows in the table, in the result or the column list, or taken by an INSTEAD OF trigger |

`Transfers` is `Transfer`'s specification under these mappings. It holds of the
steps what the invariants cannot say of a state: that a flush or a block adds
exactly the rows that waited for it, and that a raised copy stores no more.

### SendRows

A row is its number. The encoder writes a block as `Pieces` pieces of arbitrary
lengths from `PieceBytes`, each one `sink_write`. `wire` is what
`chdb_helper_write` was given, in order.

### ReceiveRows

A row is its number in the stream. The target is a plain table, one with a
BEFORE ROW trigger, a view with an INSTEAD OF trigger, a foreign table, a
partitioned table with a partition without a trigger, one with a trigger and a
foreign one, or, for the two other readers of the same stream, the tuplestore of
`chdb_query` and the column list of DESCRIBE. What constraints, triggers, routing
and a foreign server decide is a choice; the values of defaults are not kept. `seen`
is how many rows the AFTER triggers find in the table. `todo` are the rows that are stored but without index entries
and AFTER ROW triggers: `table_multi_insert` stores the whole buffer (`Flush`), and
the loop behind it takes one row at a time (`AfterInsert`), where a unique index may
raise with the rest in the table already (`RowRaises`). Transition capture and stored generated columns are calls
into PostgreSQL that change nothing kept here.

### CopyQuery

`copy.c` works on text, and what can go wrong in it depends on a few characters
only. A text is a sequence of lexical tokens (the constant `Token`): `q` a double quote, `sp` a space,
`nl` a line break, `esc` a backslash, `ctl` whatever chDB makes of a backslash and the character
after it, `aws` and `gcs` the two host names the code looks for, the separators
`/ . ? @ , ( )`, and words. So the scans of the code (for a type name between
its borders outside quotes, for the first `/`, `?` or `@`) are scans of a token
sequence. `MakeChQuery` yields the table function, its named parameters in order,
the settings clause as it is appended, and the timeout; `AzureParts` is
`parse_azure_url`, `StructureAsString` the rewriting of a type the format lacks,
`Pinned` the structure that `chdb_url_columns` keeps for the copy, line breaks of
the described types included. Names of formats are compared without case, of which
`Spellings` has two forms each. Two definitions are external: `pgch_quote_ch_ident`, which quotes a name
(vendored, not in the tree; from its use and the expected output of the tests),
and `Unescaped`, chDB's treatment of a String parameter, from the comment at
`src/hook/create.c:228` and `test/sql/create.sql:74`; what chDB does with a line
break is not known from the tree, so the properties that read a structure back are
about structures on one line.

### Hook

Each session runs one statement. `pc` is the point of the hook (`start`,
`describe`, `describing`, `create`, `wait`, `url`, `open`, `check`, `run`,
`running`, `done`, then `over` or `raised`), `ctx` the `chdbCopyContext`,
`described` the answer to a DESCRIBE, `query` the assembled query, `lock` the
lock on the relation, `checked` the relation `open_copy_relation` let through,
`pending` the relation an open transaction has created. The catalog is one name:
`rel` is the committed relation, with its identity, its creator, its columns, its
privileges and its policies. Between two points other sessions act: they create,
drop and alter what is not locked, grant and revoke at any time, and the data at
the URL gets other columns. An existing name, the wait for a concurrent CREATE
TABLE and the unique index are PostgreSQL's and external.

An action lies between two points at which another session can be seen to act:
the refusals that need only the statement are one step with what follows them,
the lookup without a lock in `error_if_relation_exists` is part of `BeginCreate`,
and everything from there to the creation happens later. The helper answers or
the statement raises; what it does in between is `HelperSession`. The build
option that removes the file scheme is left out, as is the debug log.

## 3. Runs

| Run | Shows |
|---|---|
| `session` | every statement, every fault, both builds, an engine that may hang. Safety: `SuccessIsWhole`, `NothingLeaked`, `KillsOwnChild`, `AnswerIsFinal`, `ReportIsComplete`, `WaitIsShort`, `SetupFirst`, `TypeOK` and the inductive invariant `IInv`. Refinement: `KeepsPromise`. Liveness: `CancelEnds` and `DiesWithBackend` although the engine hangs; `StatementEnds`, no deadlock across the three channels, and `OrphanEnds`, a helper without a backend ends although no signal tells it to, where the engine does not hang |
| `setup_payload` | `RoundTrip`, `TruncatedNeverRuns`, `InBounds`, `WholeIsAccepted` |
| `send_rows` | `StreamInOrder`, `SinkFits`, `RowsKept`, `AllSent`, `BlocksCut`; refinement: `Transfers` |
| `receive_rows` | `DoneIsWhole`, `RowsInOrder`, `AfterFollows` (no row taken and no return while a stored row is without index entries and AFTER ROW triggers), `BufferFits`, `TriggerSeesAll`, `TriggerOfOwnRelation`; refinement: `Transfers` |
| `hook` | `HelperGated`, `CopiesWhatWasChecked` and `ColumnsAgree` with two sessions and others at one name and one URL; `QueryWellFormed`, `AzureGlued`, `StructureRewritten`, `TimeoutKept` for every scheme, URL form and option |

Seven runs expect a violation and document a disagreement between the code and
what the repository says of it (`findings` in `PROJECT.json`):

| Run | Disagreement |
|---|---|
| `insert_cut` | a COPY TO that raises between blocks may still be committed, in part: `stop_helper` closes the data channel before the kill, and `run_insert` takes the end of file for the end of the rows |
| `query_cut` | `chdb_query` does not look at `reader.error` after its loop and returns the rows before a bad block as the result |
| `send_stuck` | a write error other than EPIPE makes the backend wait for a helper that waits for the backend |
| `setup_limit` | a payload of exactly `CHDB_SETUP_MAX` bytes is written and refused |
| `setup_memory` | `max_memory` of 64 GB or more is reduced modulo 65536 MB |
| `if_not_exists` | `CREATE TABLE IF NOT EXISTS ... copy_from` loads a relation that another session created after the lookup |
| `escaped_name` | a default structure is not escaped once more, as the pinned one is, so that a structure with a backslash in a column name reaches chDB as another text; a backslash at the end of the name leaves its quote open |

Bounds, and why they are enough. `HelperSession`: two blocks of two units
(`MaxData = 4`, three blocks for `query_cut`, one for `send_stuck`), so that a
cut can fall inside a block, between blocks and at the end; a socket of one
block, a setup pipe of half a payload and an error pipe of one unit, so that
every channel can be full while another is in use; two units of error text, one
more than the capture of `session` holds. `SetupPayload`: base 4, and a limit two
doublings above the first allocation. Strings are empty, one byte, or long enough
for a payload to meet the limit. `SendRows`: rows of zero bytes, below, and above
a cut, pieces below and at `SinkDirect` and one larger than the sink, which two
small pieces fill and a third overflows. `ReceiveRows`: six rows against a
buffer of three rows or three bytes. `Hook`: a scenario fixes the statements, the
first relation, the data at the URL and `budget`, how often others act: `Races`
are all pairs of six statements with two changes, `Alone` one statement with
three, enough for a drop, a creation and an alteration between two points;
`Refusals` has one statement of every kind per way to be refused, `Assembled` one
per scheme name, URL form, credential, format, compression and timeout.
SAS tokens hold slashes and at signs. The data at the URL may have a type with a line
break. The columns have names that need quotes, that read like a list of types and that hold
a backslash, and types nested in `Nullable` and `Array`. The deadlock check is on
in every run except `send_stuck`, whose subject is a system that stops; a
statement that is over stutters by `Terminated`.

Fairness. `BackendFairness` is weak fairness of the backend's own steps and of
the kernel's: the backend is a running process, woken by its latch, by its
channels and at the latest after `CHDB_HELPER_POLL_MS`, and the kernel completes
exits. `HangSpec` assumes that and no more. `FairSpec` adds weak fairness of the
helper, that is an engine that always returns. The `session` run checks `HangSpec`,
and the two properties that hold only with an engine that returns say so
themselves: `WF_vars(HelperStep) => ...`. No fault is fair. `StatementEnds`
excepts a statement that waits on a data channel of a live helper that has failed
with an unusual error (`WaitsOnBrokenChannel`): that is the subject of
`send_stuck`. `Hook` states no liveness: whether a lock is ever granted is
PostgreSQL's.

Met while modelling, without a run of their own. Two differ from what the repository
says:

- `doc/chdb_hook.md:252` says "URL Paths may contain globs in `COPY FROM` commands"
  and `:260` lists "`?`: Match an arbitrary single character", while
  `parse_azure_url` takes the first `?` for the start of a SAS token
  (`src/hook/copy.c:499`): a wildcard in an Azure path ends the path, and the rest goes
  to the account URL as a token. `AzureGlued` is about URLs without wildcards;
- `structure_on_one_line` puts the structure a statement names on one line, as a
  "workaround for https://github.com/chdb-io/chdb-core/issues/158"
  (`src/hook/hook.c:261`), while `chdb_url_columns` pins the types that DESCRIBE
  reports as they are (`src/hook/create.c:156`), and those have line breaks
  (`test/expected/create.out:106-108`). What chDB makes of them is not in the
  repository, and no test loads such a table. The text comparison of `ColumnsAgree` is
  about structures without a line break.

Of the others no document and no comment says anything else:

- `fill_defaults` evaluates the defaults of a row while rows before it wait in the
  buffer (`src/native.c:781`), so a default that queries a plain table may miss up to
  `CHDB_MAX_BUFFERED_TUPLES - 1` of them. PostgreSQL's COPY does not buffer then;
  `src/native.c:606` says that its test is left out, because defaults are evaluated per
  row, which is not what that test is about;
- `compression` is taken for every scheme and used by those whose table function
  has a place for it; `doc/chdb_hook.md:332` does not say that `http` and `hdfs`
  URLs ignore it;
- `parse_azure_url` looks for the `@` of an `abfs` URL in all that stands before
  the first `?`, and accepts an empty container;
- a format that the statement does not name is inferred by chDB, so the default
  structure keeps `Time64` even where the data turns out to be Parquet:
  `StructureRewritten` is about named formats;
- a stream without a single block fires no statement triggers.

## 4. Proofs

`HelperSessionProofs` proves, for all values of the constants that satisfy the
assumptions in `HelperSession` (the sets of statements and faults, nonzero
capacities and lengths):

| Theorem | States |
|---|---|
| `Invariance` | `Spec => []IInv` |
| `TypeCorrect` | `Spec => []TypeOK` |
| `SuccessWhole` | `Spec => []SuccessIsWhole` |
| `NoLeak` | `Spec => []NothingLeaked` |
| `KillSafe` | `Spec => []KillsOwnChild` |
| `ReportComplete` | `Spec => []ReportIsComplete` |
| `WaitShort` | `Spec => []WaitIsShort` |
| `SetupBeforeData` | `Spec => []SetupFirst` |
| `FinalAnswer` | `Spec => AnswerIsFinal` |

`HelperSessionRefProofs` proves, under the same assumptions,

| Theorem | States |
|---|---|
| `Implements` | `Spec => KeepsPromise`: `HelperSession` implements `Statement` |

None of the properties is inductive. That a returned COPY FROM has read
everything needs: the data channel was empty and closed when the stream ended
(`StreamEndInv`), the status is the one the helper chose (`StatusInv`), it chose
zero only with the whole result written (`SelectInv`), and what was written is
what was produced (`SelectInv` again). `InsertInv` is the counterpart for COPY
TO. `ErrorInv` says that a closed error channel was read to its end and belongs
to an exiting helper, which is what makes `waitpid` short and a report
complete. `BackendInv` and `PointsInv` say which descriptors and processes
exist at each point of the two programs. `IInv` is their conjunction. Its
preservation is one lemma per group of actions (backend, helper, kernel,
faults), with one case per action; the actions whose data flow is more involved
have lemmas of their own, with one step per part of the invariant.

The refinement needs two more facts, proved inductive relative to `IInv`.
`PhaseInv` gives the outcome at each point of the backend, so that a point says
which phase the abstract statement is in. `TargetInv` gives the target at each
point of the helper and says that a report leaves the data channel of an insert
open: together with `InsertInv` this is why a helper whose statement still runs
can only commit the whole. Every action then maps to one action of `Statement` or
to a stutter.

`ReceiveRowsProofs` proves all properties that `receive_rows` checks, for every number of
rows, row size and buffer limit:

| Theorem | States |
|---|---|
| `CopyWhole` | `Spec => []DoneIsWhole` |
| `StreamOrder` | `Spec => []RowsInOrder` |
| `AfterTriggersQueued` | `Spec => AfterFollows` |
| `BufferBound` | `Spec => []BufferFits` |
| `TriggersSeeRows` | `Spec => []TriggerSeesAll` |
| `OwnTriggers` | `Spec => []TriggerOfOwnRelation` |
| `Implements` | `Spec => Transfers`: `ReceiveRows` implements `Transfer` |

Its invariant `RInv` says in `BufferInv` that rows wait only in the buffer of a
plain table and only inside the loop, in `PlaceInv` what has been counted and read
at each point, in `AfterInv` that the rows with index entries and AFTER ROW triggers,
followed by those the loop has before it, are the table, in `TriggerInv` that the cached flag is that of the last partition,
and in `OrderInv` that no stored row has a number past the reader's. The step that
matters is the flush: `table \o buf` does not change by it, so a row joins the end
of that sequence exactly once, whichever way it is stored. The refinement needs
`WaitInv` besides: the buffer holds the rows the reader returned last, without a gap.
So a flush deals with exactly the rows between those in the table and the reader
(`FlushMoves`), and every other row finds the buffer empty (`AloneInBuffer`) and is
dealt with alone, or taken away by a trigger or a foreign table (`RowMoves`).

`SendRowsProofs` proves all properties of `SendRows` for every relation, encoder
and sink:

| Theorem | States |
|---|---|
| `TypeCorrect` | `Spec => []TypeOK` |
| `StreamKept` | `Spec => []StreamInOrder` |
| `SinkBound` | `Spec => []SinkFits` |
| `NoRowLost` | `Spec => []RowsKept` |
| `SentWhole` | `Spec => []AllSent` |
| `CutBySize` | `Spec => []BlocksCut` |
| `Implements` | `Spec => Transfers`: `SendRows` implements `Transfer` |

`SInv` adds to them where the writer stands relative to a cut at each point of the
loop and that the sink is empty between blocks. That the n-th piece of the stream
is the piece after `n % Pieces` of block `n \div Pieces + 1` is arithmetic
(`PieceNumber`); the rest is about appending to concatenations. For the refinement,
a block that is counted is on the wire to its last piece (`BlocksOnWire`), because
the sink holds no more pieces than the block in progress has given it, and the
writer holds the rows right behind those of the blocks (`WriterRows`).

`HookProofs` proves, for any set of sessions, any statements and any changes by
others:

| Theorem | States |
|---|---|
| `Gated` | `Spec => []HelperGated` |
| `CopyOfChecked` | `Spec => []CopiesWhatWasChecked` |
| `QueryInvariance` | `Spec => []QInv` |
| `WellFormed` | `Spec => []QueryWellFormed` |
| `Glued` | `Spec => []AzureGlued` |
| `TimeoutCarried` | `Spec => []TimeoutKept` |
| `Agreed` | `Spec => []ColumnsAgree` |
| `ListingInvariance` | `Spec => []LInv` |
| `DefaultsStored` | `Spec => []StructureRewritten` |

The assumptions are that a scenario gives every session a statement
(`ScenariosAssumption`), that its first relation, if any, has the fields of one
(`RelationsAssumption`), that URLs are texts and accepted timeouts are natural
numbers (`StatementsAssumption`: `contextualize_options` refuses a negative one), and that
what a URL has are columns, names and types that are texts (`RemoteAssumption`), as
are those of relations, of statements and of other sessions' DDL (`ColumnsAssumption`).
`TokenAssumption` of `CopyQuery` says that the tokens the code looks for are tokens.

The first two rest on `HInv`. It says in `GateInv` which checks lie behind each
point, in `LockInv` that a session that has opened the relation holds a lock and
finds something under the name, and in `CatalogInv` that there is one relation
under the name at most: a transaction has created one only while none is committed,
and no two have. The last is what makes the commit of one session harmless to a
relation another one has open.

The others rest on `QInv`, which follows a statement through its points. `Ready` says
that the context at each point is the one its statement gave and that, once a
structure has been inferred, it pins exactly that one; `MadeQuery` that a query in use
is what `make_ch_query` made of such a context; `DataInv` that URLs, timeouts and
columns stay what they are. Nothing another session does touches these, so the invariant
holds of each session by itself. What is left is then a statement about
`MakeChQuery`, for every context, and that is `CopyQueryProofs`:

- the settings of every scheme are one of a few sequences (`AllSettings`), the
  parameters of every scheme are within the arrays and distinct (`ParamsPassed`);
- the pieces of an Azure URL join to what stands before its first `?`, and the rest
  is the token (`AzurePieces`), from what the first occurrence of a separator splits
  (`FirstFacts`, `Split`); in a URL without wildcards that `?` is where the SAS token
  starts (`OneMark`);
- `UnescapedDoubled`: unescaping undoes the doubling of backslashes, for every
  text; the structure of a described relation, pinned and read by chDB, is
  therefore the structure it was (`PinnedRead`);
- a timeout rounded up to seconds (`TimeoutRounded`);
- `AsString`: `structure_as_string` makes of a list of columns the list in which the
  sought type is String. The scan looks at one token and its neighbours at a time and
  counts quotes. The proof follows it along the text: it knows how much has been
  written and how many quotes lie behind (`AsStringSteps`, `QuotesStep`), passes a
  quoted name, inside which nothing is a type (`MovesName`), then the wrappers of a
  type and the type itself (`MovesType`), and with them a column (`MovesItem`). The
  columns follow by induction on their number.

`StructureRewritten` needs `LInv` as well. It is about the default structure, which `chdb_copy` builds when
neither the statement nor a DESCRIBE has named one. `LInv` says in `ColumnsInv` that
whatever others do to the relation, its columns are columns, and in `Listing` that a
context nobody gave a structure has none, so that the query of such a statement carries
`DefaultStructure` of the columns that are copied. `DefaultRead` says what that is: up to
two rewritings, `AsString` each, and the unescaping by chDB, which changes nothing in a
text without a backslash (`UnescapedPlain`). The property and its theorem are
about columns that are `Ordinary`: of a type in `Types` (each base type bare, in
`Nullable`, and in an array of them), with a name that holds neither a backslash, whose
default structure is the subject of `escaped_name`, nor a double quote or a line
break, whose quoting is vendored and not in the tree. Names that are or read like types, and hold
spaces, commas and parentheses, are included.

`SetupPayloadProofs` proves all four properties that `setup_payload` checks, for
every base, width of a length, limit, set of strings and number of parameters that
satisfy `WidthAssumption` and `CapAssumption` (bytes are bytes, a string's length
and the number of parameters fit their fields, the limit is the first capacity
doubled a number of times; in the code, 256, 4, and 64 KiB doubled up to
`CHDB_SETUP_MAX`):

| Theorem | States |
|---|---|
| `PayloadInvariance` | `Spec => []PayloadInv` |
| `RoundTripped` | `Spec => []RoundTrip` |
| `TruncatedStopped` | `Spec => []TruncatedNeverRuns` |
| `ReadsInBounds` | `Spec => []InBounds` |
| `WholeAccepted` | `Spec => []WholeIsAccepted` |

`PayloadInv` says in `ReadInv` that the buffer has one of the doubled capacities and
holds no more than has arrived, in `TakeInv` that the cursor stands exactly behind
the bytes of the fields taken so far (`ToCmd` to `ToParam`) and that those fields are
the statement's (`WithCmd` to `WithParam`), and in `EndInv` what that leaves at the
end. It rests on three facts about data. A number below the limit of its width is
told by its bytes (`BytesTell`), so that `memcpy` gives back what was written
(`DecodeEncode`). The payload holds each field behind the bytes before it
(`FieldsHeld`, `ParamsHeld`), so that a take finds either the whole field or too few
bytes (`Take2Step`, `TakeStrStep`, `TakeParamStep`). And the doubling meets the limit
exactly (`LimitMet`): a buffer that may not double is as large as the limit, which is
why no payload below it is refused.

How induction is done. The induction theorems of the library are about an arbitrary
predicate, which no backend instantiates. `DataInduction` starts from the fact that a
set of natural numbers with a member has a least one, and states induction as a fact
about a set (`Induction`, `InductionTo`). From there it shows that a recursive
function of the numbers exists and is the only one (`RecursionOnNat`,
`RecursionUnique`), which is how `Values`, `Byte` and `Capacity` get their defining
equations, and what `FlattenSeq` of the community modules computes
(`FlattenPrefixes`). A function that recurs towards the end of a text, as the scan of
`structure_as_string` does, is one of the numbers read backwards (`RecursionBack`).

Only model-checked: the liveness properties of `session` (`StatementEnds`,
`CancelEnds`, `DiesWithBackend`, `OrphanEnds`), which need fairness. Every invariant,
action property and refinement that a passing run checks is also a theorem.

## 5. Not modelled

The contents of blocks and the conversion of values (vendored libraries that
are not in the tree), libchdb behind its calls, GUC registration, the debug log
of a query (`src/hook/copy.c:446`), memory contexts other than the one whose reset stops the
helper, build and test scripts. Error wording is left out everywhere. Of
PostgreSQL, only what the hook waits for or asks: locks, the catalog entry of one
name, privileges and policies.

## 6. Plan

The model is complete as far as the source in the tree goes, and every safety
property that a passing run checks has a theorem. What could follow, should the vendored
libraries be added to the tree: the quoting of names with double quotes, and the
contents of blocks, so that `SendRows` and `ReceiveRows` could be composed to a copy
from one table to another through both programs.

## 7. Running

    tlc -config HelperSession.cfg MCHelperSession
    tlc -config Hook.cfg MCHook
    tlapm HelperSessionProofs.tla
    tlapm HelperSessionRefProofs.tla
    tlapm SendRowsProofs.tla
    tlapm ReceiveRowsProofs.tla
    tlapm HookProofs.tla
    tlapm SetupPayloadProofs.tla
    tlapm CopyQueryProofs.tla
    tlapm DataInduction.tla
