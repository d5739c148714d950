-------------------------------- MODULE Hook --------------------------------
(***************************************************************************)
(* The utility hook: chDBProcessUtilityHook of src/hook/hook.c takes over  *)
(* COPY with a URL and CREATE TABLE with structure_from or copy_from, and  *)
(* src/hook/create.c and src/hook/copy.c do the rest.  Several sessions,   *)
(* each with one statement in a transaction of its own, meet at one        *)
(* relation name and one URL; other sessions run DDL on that name, and the *)
(* data at the URL changes.                                                *)
(*                                                                         *)
(* HelperSession is about what happens inside a helper process; here it    *)
(* answers or the statement raises.                                        *)
(***************************************************************************)
EXTENDS CopyQuery

CONSTANTS
    Sessions,
    Scenarios,      \* what the sessions run, the first relation, the first data
                    \* at the URL, and a bound on the changes made by others
    OtherColumns,   \* column lists other sessions give the relation
    RemoteColumns   \* column lists the data at the URL may have

ASSUME ScenariosAssumption ==
    \A c \in Scenarios : DOMAIN c.stmt = Sessions /\ c.budget \in Nat

VARIABLES
    stmt,       \* the statement of a session
    pc,         \* where the hook is in it
    ctx,        \* chdbCopyContext
    described,  \* columns chDB reported
    query,      \* the query of the last helper
    lock,       \* lock on the relation, kept to the end of the transaction
    pending,    \* the relation the transaction has created
    checked,    \* the relation open_copy_relation let through
    rel,        \* the committed relation of that name
    remote,     \* the columns of the data at the URL
    ids, budget

vars == <<stmt, pc, ctx, described, query, lock, pending, checked, rel, remote,
          ids, budget>>
catalog == <<pending, rel, ids>>
world == <<stmt, remote, budget>>

NoRel == [id |-> 0]
NoQuery == <<>>
NoCtx == <<>>

\* A relation: its identity, who created it, and what the hook looks at.
IsRelation(r) ==
    /\ r = [id |-> r.id, by |-> r.by, kind |-> r.kind, rls |-> r.rls,
            acl |-> r.acl, columns |-> r.columns]
    /\ r.id # 0

ASSUME RelationsAssumption ==
    \A c \in Scenarios : c.rel # NoRel => IsRelation(c.rel)

\* contextualize_options refuses a timeout that is not a uint32.
ASSUME StatementsAssumption ==
    \A c \in Scenarios, s \in Sessions :
        /\ c.stmt[s].url \in Text
        /\ ~c.stmt[s].options.bad => c.stmt[s].options.timeout \in Nat

ASSUME RemoteAssumption ==
    RemoteColumns \subseteq Columns /\ \A c \in Scenarios : c.remote \in Columns

ASSUME ColumnsAssumption ==
    /\ OtherColumns \subseteq Columns
    /\ \A c \in Scenarios :
        /\ c.rel # NoRel => c.rel.columns \in Columns
        /\ \A s \in Sessions :
            /\ c.stmt[s].columns \in Columns /\ c.stmt[s].options.given \in Columns
            /\ c.stmt[s].list \in Seq(Text)

\* The relation a session finds under the name.
Visible(s) == IF pending[s] # NoRel THEN pending[s] ELSE rel

\* ereport(ERROR): the transaction is rolled back.
Raise(s) ==
    /\ pc' = [pc EXCEPT ![s] = "raised"]
    /\ lock' = [lock EXCEPT ![s] = "none"]
    /\ pending' = [pending EXCEPT ![s] = NoRel]
    /\ UNCHANGED <<ctx, described, query, checked, rel, ids>>

\* A step that goes on to p and leaves the rest of the session alone.
Goes(s, p) == pc' = [pc EXCEPT ![s] = p]

----------------------------------------------------------------------------
(* The URL and the options. *)

SchemeName == [http |-> {"http", "https"}, s3 |-> {"s3"}, gcs |-> {"gs", "gcs", "oss"},
               az |-> {"az", "azure"}, abfs |-> {"abfs", "abfss"},
               file |-> {"file"}, hdfs |-> {"hdfs"}]
\* scheme_for: what stands before "://", to the letter.
SchemeFor(s) ==
    IF \E k \in Schemes : stmt[s].prefix \in SchemeName[k]
    THEN CHOOSE k \in Schemes : stmt[s].prefix \in SchemeName[k] ELSE "none"

\* structure_on_one_line
OneLine(text) == ReplaceAll(text, "nl", "sp")

\* contextualize_options: every field but the ones the caller knows.
Contextualized(s, cmd) ==
    LET o == stmt[s].options IN
    [scheme |-> SchemeFor(s), url |-> stmt[s].url, cmd |-> cmd,
     access_key |-> o.access_key, access_secret |-> o.access_secret,
     session_token |-> o.session_token, format |-> o.format,
     structure |-> OneLine(o.structure), compression |-> o.compression,
     timeout |-> o.timeout, preserve_nested |-> FALSE]

\* A timeout or an encoding_check out of range; another option is an error of
\* COPY, and a storage parameter of CREATE TABLE.
OptionsRefused(s) ==
    stmt[s].options.bad \/ (stmt[s].options.unknown /\ stmt[s].op # "create")

FromFile(s) == SchemeFor(s) = "file"
\* check_server_file_privileges
MayUseFiles(s) == IF stmt[s].op = "to" THEN stmt[s].writer ELSE stmt[s].reader

\* Variant: only COPY asks for the role.
UrlReadableByAll(s) == SchemeFor(s) # "none"
\* option_url_scheme
UrlReadable(s) == SchemeFor(s) # "none" /\ (FromFile(s) => MayUseFiles(s))

----------------------------------------------------------------------------
(* COPY, up to the relation. *)

OwnsCopy(s) ==
    /\ stmt[s].op \in {"from", "to"} /\ stmt[s].relation /\ ~stmt[s].program
    /\ SchemeFor(s) # "none"
\* chdb_creates_from_url
CreatesFromUrl(s) == stmt[s].op = "create" /\ stmt[s].url_options # {}

\* COPY PROGRAM, COPY of a query, a COPY without a URL, another CREATE TABLE:
\* PostgreSQL's own, with the effects of the other sessions' statements below.
PassThrough(s) ==
    /\ pc[s] = "start" /\ ~OwnsCopy(s) /\ ~CreatesFromUrl(s)
    /\ Goes(s, "over")
    /\ UNCHANGED <<ctx, described, query, lock, checked, catalog, world>>

CopyRefused(s) ==
    \/ stmt[s].where
    \/ stmt[s].op = "from" /\ stmt[s].readonly
    \/ FromFile(s) /\ ~MayUseFiles(s)

BeginCopy(s) ==
    /\ pc[s] = "start" /\ OwnsCopy(s)
    /\ IF CopyRefused(s) THEN Raise(s)
       ELSE /\ Goes(s, "open")
            /\ UNCHANGED <<ctx, described, query, lock, checked, catalog>>
    /\ UNCHANGED world

----------------------------------------------------------------------------
(* CREATE TABLE, up to the relation. *)

\* chdb_create_from_url: the columns come from the URL.
Describes(s) == "structure_from" \in stmt[s].url_options \/ ~stmt[s].named
Loads(s) == "copy_from" \in stmt[s].url_options

\* The statement's own faults, then error_if_relation_exists, which takes no
\* lock, then the options and the URL.
CreateRefused(s) ==
    \/ stmt[s].readonly
    \/ Cardinality(stmt[s].url_options) = 2
    \/ "structure_from" \in stmt[s].url_options /\ stmt[s].named
    \/ Visible(s) # NoRel
    \/ OptionsRefused(s)
    \/ Describes(s) /\ ~UrlReadable(s)

BeginCreate(s) ==
    /\ pc[s] = "start" /\ CreatesFromUrl(s)
    /\ IF CreateRefused(s) THEN Raise(s)
       ELSE /\ Goes(s, IF Describes(s) THEN "describe" ELSE "create")
            /\ ctx' = [ctx EXCEPT ![s] = Contextualized(s, "NONE")]
            /\ UNCHANGED <<described, query, lock, checked, catalog>>
    /\ UNCHANGED world

\* chdb_describe works on a copy of the context.
DescribeContext(s) ==
    LET c == ctx[s] IN
    [c EXCEPT !.cmd = "DESCRIBE",
              !.structure = IF c.structure = <<>> THEN AutoStructure ELSE c.structure]

StartDescribe(s) ==
    /\ pc[s] = "describe"
    /\ IF Malformed(DescribeContext(s)) THEN Raise(s)
       ELSE /\ Goes(s, "describing")
            /\ query' = [query EXCEPT ![s] = MakeChQuery(DescribeContext(s))]
            /\ UNCHANGED <<ctx, described, lock, checked, catalog>>
    /\ UNCHANGED world

Infers(s) == ctx[s].structure \in {<<>>, AutoStructure}
\* What chDB says the columns are.
Reported(s) == IF Infers(s) THEN remote ELSE stmt[s].options.given

\* pgch_pg_type_for: a type that no column can have, not even as text.
Unsupported(column) == column.type[1] = "AggregateFunction"
Nested(column) == column.type[1] = "Nested"

\* Variant: the structure is left as the statement has it.
KeepsContext(s, columns) == ctx[s]
\* chdb_url_columns: the inferred structure is pinned for the copy.
PinsStructure(s, columns) ==
    IF Infers(s)
    THEN [ctx[s] EXCEPT !.structure = Pinned(columns),
                        !.preserve_nested = \E i \in DOMAIN columns : Nested(columns[i])]
    ELSE ctx[s]

EndDescribe(s) ==
    /\ pc[s] = "describing"
    /\ LET columns == Reported(s) IN
       IF columns = <<>> \/ \E i \in DOMAIN columns : Unsupported(columns[i])
       THEN Raise(s)
       ELSE /\ described' = [described EXCEPT ![s] = columns]
            /\ ctx' = [ctx EXCEPT ![s] = PinsStructure(s, columns)]
            /\ Goes(s, "create")
            /\ UNCHANGED <<query, lock, checked, catalog>>
    /\ UNCHANGED world

\* Tuples and maps, which no column can have, become arrays of text.
ColumnDef(column) ==
    IF column.type[1] \in {"Tuple", "Nested"}
    THEN [column EXCEPT !.type = <<"Array", "(", "String", ")">>] ELSE column

\* PrevProcessUtility.  A name another transaction is about to commit makes this
\* one wait and then fail on the catalog's unique index.
OtherPending(s) == \E t \in Sessions \ {s} : pending[t] # NoRel
Created(s) ==
    [id |-> ids + 1, by |-> s, kind |-> "table", rls |-> FALSE,
     acl |-> {"insert", "select"},
     columns |-> IF Describes(s)
                 THEN [i \in DOMAIN described[s] |-> ColumnDef(described[s][i])]
                 ELSE stmt[s].columns]
AfterCreate(s) == Goes(s, IF Loads(s) THEN "url" ELSE "done")

Create(s) ==
    /\ pc[s] \in {"create", "wait"} /\ Visible(s) = NoRel /\ ~OtherPending(s)
    /\ pending' = [pending EXCEPT ![s] = Created(s)]
    /\ ids' = ids + 1
    /\ AfterCreate(s)
    /\ UNCHANGED <<ctx, described, query, lock, checked, rel, world>>

\* IF NOT EXISTS makes an existing relation a notice.
CreateSkipped(s) ==
    /\ pc[s] = "create" /\ Visible(s) # NoRel /\ stmt[s].ifne
    /\ AfterCreate(s)
    /\ UNCHANGED <<ctx, described, query, lock, checked, catalog, world>>

CreateExists(s) ==
    /\ pc[s] = "create" /\ Visible(s) # NoRel /\ ~stmt[s].ifne
    /\ Raise(s) /\ UNCHANGED world

CreateWaits(s) ==
    /\ pc[s] = "create" /\ Visible(s) = NoRel /\ OtherPending(s)
    /\ Goes(s, "wait")
    /\ UNCHANGED <<ctx, described, query, lock, checked, catalog, world>>

CreateConflicts(s) ==
    /\ pc[s] = "wait" /\ rel # NoRel
    /\ Raise(s) /\ UNCHANGED world

\* copy_url_into, up to the relation.
CopyUrlInto(s) ==
    /\ pc[s] = "url"
    /\ IF ~UrlReadable(s) THEN Raise(s)
       ELSE /\ ctx' = [ctx EXCEPT ![s].cmd = "SELECT"]
            /\ Goes(s, "open")
            /\ UNCHANGED <<described, query, lock, checked, catalog>>
    /\ UNCHANGED world

----------------------------------------------------------------------------
(* The relation. *)

LockMode(s) == IF stmt[s].op = "to" THEN "AccessShare" ELSE "RowExclusive"

\* table_openrv looks the name up and locks what it finds in one step.
OpenRelation(s) ==
    /\ pc[s] = "open"
    /\ IF Visible(s) = NoRel THEN Raise(s)
       ELSE /\ lock' = [lock EXCEPT ![s] = LockMode(s)]
            /\ Goes(s, "check")
            /\ UNCHANGED <<ctx, described, query, checked, catalog>>
    /\ UNCHANGED world

\* CopyGetAttnums, ExecCheckPermissions, check_enable_rls and the relation's
\* kind, in open_copy_relation; a COPY reads its options after that.
Listed(s) ==
    LET cs == Visible(s).columns IN
    IF stmt[s].list = <<>> THEN cs
    ELSE [i \in DOMAIN stmt[s].list |->
            cs[SelectInSeq(cs, LAMBDA c : c.name = stmt[s].list[i])]]
RelationRefused(s) ==
    LET r == Visible(s) IN
    \/ \E i \in DOMAIN stmt[s].list :
          \A j \in DOMAIN r.columns : r.columns[j].name # stmt[s].list[i]
    \/ (IF stmt[s].op = "to" THEN "select" ELSE "insert") \notin r.acl
    \/ r.rls
    \/ stmt[s].op = "to" /\ r.kind # "table"

CheckRelation(s) ==
    /\ pc[s] = "check"
    /\ IF RelationRefused(s) \/ (stmt[s].op # "create" /\ OptionsRefused(s))
       THEN Raise(s)
       ELSE /\ checked' = [checked EXCEPT ![s] = Visible(s)]
            /\ ctx' = [ctx EXCEPT ![s] =
                        IF stmt[s].op = "create" THEN ctx[s]
                        ELSE Contextualized(s, IF stmt[s].op = "to" THEN "INSERT"
                                                                   ELSE "SELECT")]
            /\ Goes(s, "run")
            /\ UNCHANGED <<described, query, lock, catalog>>
    /\ UNCHANGED world

----------------------------------------------------------------------------
(* chdb_copy. *)

CopyContext(s) ==
    LET c == ctx[s] IN
    [c EXCEPT !.structure = IF c.structure = <<>>
                            THEN DefaultStructure(Listed(s), c.format)
                            ELSE c.structure]

StartCopy(s) ==
    /\ pc[s] = "run"
    /\ IF Malformed(CopyContext(s)) THEN Raise(s)
       ELSE /\ Goes(s, "running")
            /\ query' = [query EXCEPT ![s] = MakeChQuery(CopyContext(s))]
            /\ UNCHANGED <<ctx, described, lock, checked, catalog>>
    /\ UNCHANGED world

\* Variant: table_close with the lock mode.
CloseUnlocks(s) == lock' = [lock EXCEPT ![s] = "none"]
\* table_close(rel, NoLock)
Close(s) == UNCHANGED lock

FinishCopy(s) ==
    /\ pc[s] = "running"
    /\ Goes(s, "done")
    /\ Close(s)
    /\ UNCHANGED <<ctx, described, query, checked, catalog, world>>

\* A helper, the conversion of a row or a cancel ends the statement.
HelperRaises(s) ==
    /\ pc[s] \in {"describing", "running"}
    /\ Raise(s) /\ UNCHANGED world

\* The end of the transaction.
Commit(s) ==
    /\ pc[s] = "done"
    /\ Goes(s, "over")
    /\ rel' = Visible(s)
    /\ pending' = [pending EXCEPT ![s] = NoRel]
    /\ lock' = [lock EXCEPT ![s] = "none"]
    /\ UNCHANGED <<ctx, described, query, checked, ids, world>>

----------------------------------------------------------------------------
(* Others. *)

Over == \A s \in Sessions : pc[s] \in {"over", "raised"}
Change == ~Over /\ budget > 0 /\ budget' = budget - 1
Unlocked == \A s \in Sessions : lock[s] = "none" /\ pending[s] = NoRel
mine == <<stmt, pc, ctx, described, query, lock, pending, checked>>

OtherCreates ==
    /\ Change /\ Unlocked /\ rel = NoRel
    /\ ids' = ids + 1
    /\ \E columns \in OtherColumns, kind \in {"table", "view"} :
        rel' = [id |-> ids + 1, by |-> "other", kind |-> kind, rls |-> FALSE,
                acl |-> {"insert", "select"}, columns |-> columns]
    /\ UNCHANGED <<mine, remote>>

OtherDrops ==
    /\ Change /\ Unlocked /\ rel # NoRel
    /\ rel' = NoRel
    /\ UNCHANGED <<mine, remote, ids>>

OtherAlters ==
    /\ Change /\ Unlocked /\ rel # NoRel
    /\ \/ rel' = [rel EXCEPT !.rls = ~@]
       \/ \E columns \in OtherColumns : rel' = [rel EXCEPT !.columns = columns]
    /\ UNCHANGED <<mine, remote, ids>>

\* GRANT and REVOKE wait for no lock.
OtherGrants ==
    /\ Change /\ rel # NoRel
    /\ \E acl \in SUBSET {"insert", "select"} : rel' = [rel EXCEPT !.acl = acl]
    /\ UNCHANGED <<mine, remote, ids>>

RemoteChanges ==
    /\ Change
    /\ remote' \in RemoteColumns
    /\ UNCHANGED <<mine, rel, ids>>

----------------------------------------------------------------------------

Init ==
    \E c \in Scenarios :
        /\ stmt = c.stmt /\ rel = c.rel /\ remote = c.remote /\ budget = c.budget
        /\ pc = [s \in Sessions |-> IF c.stmt[s].op = "idle" THEN "over" ELSE "start"]
        /\ ctx = [s \in Sessions |-> NoCtx]
        /\ described = [s \in Sessions |-> <<>>]
        /\ query = [s \in Sessions |-> NoQuery]
        /\ lock = [s \in Sessions |-> "none"]
        /\ pending = [s \in Sessions |-> NoRel]
        /\ checked = [s \in Sessions |-> NoRel]
        /\ ids = 1

SessionStep(s) ==
    \/ PassThrough(s) \/ BeginCopy(s)
    \/ BeginCreate(s) \/ StartDescribe(s) \/ EndDescribe(s)
    \/ Create(s) \/ CreateSkipped(s) \/ CreateExists(s)
    \/ CreateWaits(s) \/ CreateConflicts(s) \/ CopyUrlInto(s)
    \/ OpenRelation(s) \/ CheckRelation(s)
    \/ StartCopy(s) \/ FinishCopy(s) \/ HelperRaises(s) \/ Commit(s)

Terminated == Over /\ UNCHANGED vars

Next ==
    \/ \E s \in Sessions : SessionStep(s)
    \/ OtherCreates \/ OtherDrops \/ OtherAlters \/ OtherGrants \/ RemoteChanges
    \/ Terminated

Spec == Init /\ [][Next]_vars

----------------------------------------------------------------------------
(* Properties. *)

AtHelper(s) == pc[s] \in {"describing", "running"}

\* No helper is started for a file the role may not use, whichever statement
\* and option names it, nor for a write in a read-only transaction, nor for a
\* copy of a relation that is not locked.
HelperGated ==
    \A s \in Sessions : AtHelper(s) =>
        /\ FromFile(s) => MayUseFiles(s)
        /\ stmt[s].op # "to" => ~stmt[s].readonly
        /\ pc[s] = "running" => lock[s] # "none"

\* "so the copy is what we checked": from the checks to the end of the
\* transaction the relation keeps its identity, its kind, its columns and its
\* policies, whatever other sessions run.
CopiesWhatWasChecked ==
    \A s \in Sessions : pc[s] \in {"run", "running", "done"} /\ checked[s] # NoRel =>
        /\ Visible(s) # NoRel
        /\ [Visible(s) EXCEPT !.acl = {}] = [checked[s] EXCEPT !.acl = {}]

\* A relation made from inferred columns is loaded with exactly the structure it
\* was made from, names with escapes and nested fields included, although the
\* data at the URL may have changed since.  (What chDB makes of a type that
\* DESCRIBE reports on several lines, and that is pinned so, is not known here.)
ColumnsAgree ==
    \A s \in Sessions :
        pc[s] = "running" /\ described[s] # <<>> /\ stmt[s].options.given = <<>> =>
            /\ ~Contains(StructureOf(described[s]), "nl") =>
                Unescaped(Value(query[s], "structure")) = StructureOf(described[s])
            /\ (\E i \in DOMAIN described[s] : Nested(described[s][i]))
                <=> Contains(query[s].settings, "flatten_nested")

\* The assembled query has one SETTINGS clause, with a comma between any two
\* settings, distinct parameters, as many as the arrays hold, and truncates its
\* target only when it writes.
QueryWellFormed ==
    \A s \in Sessions : AtHelper(s) =>
        LET q == query[s] IN
        /\ Len(q.params) <= CHDB_MAX_TABLEFUNC_ARGS
        /\ \A i, j \in DOMAIN q.params : q.params[i].name = q.params[j].name => i = j
        /\ Len(q.settings) % 2 = 0
        /\ \A i \in DOMAIN q.settings :
            IF i = 1 THEN q.settings[i] = "SETTINGS"
            ELSE (q.settings[i] = "comma") <=> (i % 2 = 1)
        /\ Contains(q.settings, "truncate") => q.ctx.cmd = "INSERT"

\* Where the SAS token of a URL starts, or 0.  "a SAS token such as
\* `?sp=...&sig=...`" is a list of name=value pairs behind the last such "?";
\* any other "?" stands for one character of the path.
SasAt(url) ==
    LET at == {i \in DOMAIN url : i + 2 <= Len(url) /\ url[i] = "?" /\ url[i + 2] = "="}
    IN  IF at = {} THEN 0 ELSE Max(at)
Wildcards(url) == {i \in DOMAIN url : url[i] = "?"} \ {SasAt(url)}

\* chDB gets all of the path, in one container, and all of the SAS token.
AzureWhole(s) ==
    LET url == stmt[s].url
        account == Value(query[s], "url")
        container == Value(query[s], "container")
        path == Value(query[s], "path")
        place == IF SchemeFor(s) = "az" THEN account.host \o <<"/">> \o container
                 ELSE container \o <<"@">> \o account.host
    IN  /\ path # <<>> => place \o <<"/">> \o path = Before(url, SasAt(url))
        /\ account.sas = After(url, SasAt(url)) /\ (account.signed <=> SasAt(url) # 0)
        /\ SchemeFor(s) = "az" => First(container, "/") = 0
AtAzure(s) == AtHelper(s) /\ SchemeFor(s) \in {"az", "abfs"}

\* parse_azure_url takes a URL without wildcards apart so that its pieces are the
\* URL again and the container is one path segment: nothing of a deep path or of
\* the SAS token is lost, whatever slashes and at signs are in them.  (A wildcard
\* in the path is not one of those: the first "?" ends the path.)
AzureGlued ==
    \A s \in Sessions : AtAzure(s) /\ Wildcards(stmt[s].url) = {} => AzureWhole(s)

\* Types that pgch_ch_type_for gives a column: a name, with or without
\* parameters, alone, nullable, or in an array.
Wrappers == {"bare", "nullable", "array"}
Bases == {<<"Int32">>, <<"String">>, <<"UUID">>, <<"Time64", "(", "6", ")">>,
          <<"DateTime64", "(", "6", ")">>,
          <<"Decimal", "(", "10", "comma", "sp", "4", ")">>}
Wrap(w, base) ==
    CASE w = "bare" -> base
      [] w = "nullable" -> <<"Nullable", "(">> \o base \o <<")">>
      [] w = "array" -> <<"Array", "(", "Nullable", "(">> \o base \o <<")", ")">>
Types == {Wrap(p[1], p[2]) : p \in Wrappers \X Bases}
\* The type a format stores a column with.
Lost(format) == (IF IsFormat(format, "ORC") THEN {"UUID"} ELSE {})
                \union IF FormatLacksTime64(format) THEN {"Time64"} ELSE {}
Stored(type, format) ==
    LET form == CHOOSE p \in Wrappers \X Bases : Wrap(p[1], p[2]) = type
    IN  Wrap(form[1], IF form[2][1] \in Lost(format) THEN <<"String">> ELSE form[2])
Meant(s) ==
    LET columns == Listed(s) IN
    StructureOf([i \in DOMAIN columns |->
        [columns[i] EXCEPT !.type = Stored(@, stmt[s].options.format)]])
Defaults(s) ==
    pc[s] = "running" /\ described[s] = <<>> /\ stmt[s].options.structure = <<>>
\* Columns of these types whose names need no escape: a backslash is the matter
\* of StructureArrives, and how pgch_quote_ch_ident writes a double quote or a line
\* break is not in this repository.
Ordinary(s) ==
    \A i \in DOMAIN Listed(s) :
        /\ Listed(s)[i].type \in Types
        /\ \A t \in {"esc", "q", "nl"} : ~Contains(Listed(s)[i].name, t)

\* A default structure names String for every type that the format the statement
\* names lacks, wherever in a type it stands, and is otherwise that of the columns:
\* a name that is or reads like a list of types is left alone.  (A format that
\* chDB has to infer is not one of those, even when it turns out to be Parquet.)
StructureRewritten ==
    \A s \in Sessions : Defaults(s) /\ Ordinary(s) =>
        Unescaped(Value(query[s], "structure")) = Meant(s)

\* The engine waits as long as the statement says, and for less than a second
\* more where it counts in seconds; a short timeout does not become none.
TimeoutKept ==
    \A s \in Sessions : AtHelper(s) /\ Contains(query[s].settings, "timeout") =>
        /\ query[s].timeout \in query[s].ctx.timeout .. query[s].ctx.timeout + 999
        /\ query[s].timeout = 0 <=> query[s].ctx.timeout = 0

\* "subsequent copy requires newly created relation": CREATE TABLE loads only a
\* relation it has created.
LoadsNewRelation ==
    \A s \in Sessions : pc[s] = "running" /\ stmt[s].op = "create" => checked[s].by = s

\* "an escape inside a name needs doubling": the structure chDB parses is that
\* of the relation's columns, whatever their names.
StructureArrives ==
    \A s \in Sessions : Defaults(s) =>
        Unescaped(Value(query[s], "structure")) = Meant(s)
=============================================================================
