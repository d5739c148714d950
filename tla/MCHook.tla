------------------------------- MODULE MCHook -------------------------------
(* Instances of Hook for TLC.  The statements are grouped by the question they *)
(* raise: two sessions and others at one name, one statement of every kind     *)
(* with every way to be refused, and one query per scheme and option.          *)
EXTENDS Hook

CONSTANTS s1, s2

Column(name, type) == [name |-> name, type |-> type]
Time64 == <<"Time64", "(", "6", ")">>

\* Names that need quotes, that read like a list of types, that need an escape.
Narrow == <<Column(<<"id">>, <<"Int32">>)>>
Wide == <<Column(<<"id">>, <<"Int32">>),
          Column(<<"a", "sp", "Time64", "comma", "sp", "UUID">>, Wrap("array", Time64)),
          Column(<<"Time64">>, <<"UUID">>),
          Column(<<"u">>, Wrap("nullable", <<"UUID">>)),
          Column(<<"d">>, Wrap("array", <<"Decimal", "(", "10", "comma", "sp", "4", ")">>)),
          Column(<<"t">>, Time64)>>
Slashed == <<Column(<<"a", "esc">>, <<"Int32">>), Column(<<"b">>, <<"String">>)>>
Fields == <<Column(<<"a", "esc", "b">>, <<"Tuple", "(", "Int32", ")">>),
            Column(<<"n">>, <<"Nested", "(", "k", "sp", "Int32", ")">>)>>
\* A Tuple with named fields, as DESCRIBE writes it.
Lines == <<Column(<<"t">>, <<"Tuple", "(", "nl", "a", "sp", "Int32", ")">>)>>
Opaque == <<Column(<<"x">>, <<"AggregateFunction", "(", "sum", ")">>)>>

MCOtherColumns == {Narrow, Slashed}
MCRemoteColumns == {Narrow, Fields, Lines, Opaque, <<>>}

Table(columns) == [id |-> 1, by |-> "other", kind |-> "table", rls |-> FALSE,
                   acl |-> {"insert", "select"}, columns |-> columns]

Options == [access_key |-> "", access_secret |-> "", session_token |-> "",
            format |-> "", structure |-> <<>>, given |-> <<>>, compression |-> "",
            timeout |-> 30000, bad |-> FALSE, unknown |-> FALSE]
Plain == [op |-> "from", prefix |-> "file", url |-> <<"/", "f">>,
              relation |-> TRUE, program |-> FALSE, where |-> FALSE, list |-> <<>>, readonly |-> FALSE,
              reader |-> TRUE, writer |-> TRUE, ifne |-> FALSE, named |-> FALSE,
              url_options |-> {"copy_from"}, columns |-> Narrow, options |-> Options]
Idle == [Plain EXCEPT !.op = "idle"]
Ops == {[Plain EXCEPT !.op = op] : op \in {"from", "to", "create"}}

\* A structure the user gives, on several lines.
Given == [Options EXCEPT !.given = Wide,
                         !.structure = ReplaceAll(StructureOf(Wide), "sp", "nl")]

\* Two sessions and others.
Racing ==
    Ops \union {[Plain EXCEPT !.op = "create", !.ifne = TRUE],
                [Plain EXCEPT !.op = "create", !.ifne = TRUE, !.named = TRUE],
                [Plain EXCEPT !.op = "create", !.options.structure = AutoStructure]}
Race(a, b, r, n) == [stmt |-> (s1 :> a @@ s2 :> b), rel |-> r, remote |-> Narrow,
                     budget |-> n]
Races == {Race(a, b, r, 2) : a \in Racing, b \in Racing, r \in {NoRel, Table(Narrow)}}
\* One session and others that change more.
Alone == {Race(a, Idle, r, 3) : a \in Racing, r \in {NoRel, Table(Wide)}}

\* Every refusal.
Refusals ==
    UNION {{[o EXCEPT !.where = TRUE], [o EXCEPT !.program = TRUE],
            [o EXCEPT !.relation = FALSE],
            [o EXCEPT !.prefix = "ftp"], [o EXCEPT !.readonly = TRUE],
            [o EXCEPT !.reader = FALSE], [o EXCEPT !.writer = FALSE],
            [o EXCEPT !.named = TRUE, !.reader = FALSE],
            [o EXCEPT !.named = TRUE, !.url_options = {"structure_from"}],
            [o EXCEPT !.url_options = {"structure_from"}],
            [o EXCEPT !.url_options = {}],
            [o EXCEPT !.url_options = {"structure_from", "copy_from"}],
            [o EXCEPT !.options.bad = TRUE], [o EXCEPT !.options.unknown = TRUE],
            [o EXCEPT !.list = <<<<"u">>, <<"id">>>>],
            [o EXCEPT !.url = <<"f">>],
            [o EXCEPT !.options = Given]} : o \in Ops}

\* Every scheme with its URLs, credentials, formats, compression and timeout.
Urls == [http |-> {<<"host", "/", "f">>},
         s3 |-> {<<"bucket", "/", "f">>, <<"bucket", "aws", "/", "f">>, <<"bucket">>},
         gcs |-> {<<"bucket", "/", "f">>, <<"gcs", "/", "bucket", "/", "f">>},
         az |-> {<<"acc", ".", "net", "/", "c", "/", "d", "/", "f">>,
                 <<"acc", ".", "net", "/", "c", "/", "f", "?", "sig", "=", "/", "@">>,
                 <<"acc", ".", "net", "/", "c", "/", "f", "?", ".csv">>,
                 <<"acc", "/", "c", "/", "f">>, <<"acc", ".", "net", "/">>},
         abfs |-> {<<"c", "@", "acc", ".", "net", "/", "d", "/", "f">>,
                   <<"c", "@", "acc", "/", "f", "?", "sig", "=", "/", "@">>,
                   <<"acc", ".", "net", "/", "f">>},
         file |-> {<<"/", "f">>}, hdfs |-> {<<"host", "/", "f">>}]
Queries ==
    {[op |-> o, options |-> [Options EXCEPT !.access_key = k, !.access_secret = k,
                                !.session_token = k, !.format = f,
                                !.compression = c, !.timeout = t]] :
        o \in {"from", "to", "create"}, k \in {"", "key"},
        f \in {"", "Parquet", "orc"}, c \in {"", "gzip"}, t \in {0, 1, 1000, 1500}}
Assembled ==
    UNION {{[Plain EXCEPT !.op = q.op, !.prefix = prefix, !.url = url,
                          !.options = q.options] :
                q \in Queries, prefix \in SchemeName[scheme], url \in Urls[scheme]} :
           scheme \in Schemes}

Firsts(a) == IF a.op = "create" THEN NoRel ELSE Table(Wide)
Single(statements, r) == {[Race(a, Idle, Firsts(a), 0) EXCEPT !.remote = r] : a \in statements}

AllScenarios ==
    Races \union Alone \union Single(Refusals, Narrow) \union Single(Assembled, Fields)

\* IF NOT EXISTS and one other session.
IfNotExists ==
    {Race([Plain EXCEPT !.op = "create", !.ifne = TRUE], Idle, NoRel, 1)}
\* One copy of a relation with a backslash in a name.
EscapedName == {Race(a, Idle, Table(Slashed), 0) : a \in Ops}

MCSessions == {s1, s2}
MCToken == STRING
=============================================================================
