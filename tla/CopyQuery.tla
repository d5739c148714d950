----------------------------- MODULE CopyQuery -----------------------------
(***************************************************************************)
(* The chDB query of a COPY or of a DESCRIBE: src/hook/copy.c, with the    *)
(* structure that src/hook/create.c pins.                                  *)
(*                                                                         *)
(* A text is a sequence of lexical tokens.  The token "q" is a double      *)
(* quote, "sp" a space, "nl" a line break, "comma" a comma, "esc" a        *)
(* backslash, "ctl" any character that chDB makes of a backslash and the   *)
(* character after it, "aws" and "gcs" are the two host names, and every   *)
(* other word stands for itself.  A column is its name and its type, both  *)
(* texts.                                                                  *)
(***************************************************************************)
EXTENDS Integers, SequencesExt

CONSTANT Token  \* the lexical tokens

ASSUME TokenAssumption ==
    {"q", "sp", "nl", "esc", "ctl", "comma", "auto", "(", ")", "4", "6", "10",
     "Int32", "String", "UUID", "Time64", "DateTime64", "Decimal", "Array",
     "Nullable"} \subseteq Token

Text == Seq(Token)
Columns == Seq([name : Text, type : Text])

AutoStructure == <<"auto">>

First(text, token) == SelectInSeq(text, LAMBDA t : t = token)
Before(text, i) == IF i = 0 THEN text ELSE SubSeq(text, 1, i - 1)
After(text, i) == IF i = 0 THEN <<>> ELSE SubSeq(text, i + 1, Len(text))

----------------------------------------------------------------------------
(* The structure of the columns that cross. *)

\* pgch_quote_ch_ident: a name of one plain word stands as it is, another is
\* quoted, and a backslash in it is escaped.
Doubled(text) == FlattenSeq([i \in DOMAIN text |->
                    IF text[i] = "esc" THEN <<"esc", "esc">> ELSE <<text[i]>>])
Quoted(name) == IF Len(name) = 1 /\ name # <<"esc">>
                THEN name ELSE <<"q">> \o Doubled(name) \o <<"q">>

\* structure_for_attnums, and the list that chdb_url_columns builds.
StructureOf(columns) ==
    FlattenSeq([i \in DOMAIN columns |->
        (IF i = 1 THEN <<>> ELSE <<"comma", "sp">>)
        \o Quoted(columns[i].name) \o <<"sp">> \o columns[i].type])

\* Between two double quotes, at position i.
InQuotes(text, i) == Cardinality({j \in 1..i : text[j] = "q"}) % 2 = 1

\* Variant: a type's name is one wherever it stands.
BareAnywhere(text, i, type) ==
    text[i] = type /\ i > 1 /\ text[i - 1] \in {"sp", "("}
\* The type's name begins a clause at position i.
BareAt(text, i, type) ==
    /\ ~InQuotes(text, i)
    /\ text[i] = type /\ i > 1 /\ text[i - 1] \in {"sp", "("}

\* Behind the type at position i and behind the parameters it takes.
BehindType(text, i) ==
    LET close == {j \in i + 1 .. Len(text) : text[j] = ")"}
    IN  IF i < Len(text) /\ text[i + 1] = "(" /\ close # {}
        THEN Min(close) + 1 ELSE i + 1

\* structure_as_string.
StructureAsString(text, type) ==
    LET Ends(j) == j > Len(text) \/ text[j] \in {"comma", ")"}
        Rest[i \in 1 .. Len(text) + 1] ==
            IF i > Len(text) THEN <<>>
            ELSE IF BareAt(text, i, type) /\ Ends(BehindType(text, i))
            THEN <<"String">> \o Rest[BehindType(text, i)]
            ELSE <<text[i]>> \o Rest[i + 1]
    IN  Rest[1]

\* pg_strcasecmp: a format in any case.  Two spellings of each stand for all.
Spellings ==
    [Parquet |-> {"Parquet", "parquet"}, Arrow |-> {"Arrow", "arrow"},
     ArrowStream |-> {"ArrowStream", "arrowstream"}, ORC |-> {"ORC", "orc"},
     Avro |-> {"Avro", "avro"}, Protobuf |-> {"Protobuf", "protobuf"},
     ProtobufList |-> {"ProtobufList", "protobuflist"},
     MsgPack |-> {"MsgPack", "msgpack"},
     BSONEachRow |-> {"BSONEachRow", "bsoneachrow"}]
IsFormat(format, name) == format \in Spellings[name]

FormatLacksTime64(format) == \E name \in DOMAIN Spellings : IsFormat(format, name)

\* What chdb_copy passes when the statement names no structure.
DefaultStructure(columns, format) ==
    LET plain == StructureOf(columns)
        uuid == IF IsFormat(format, "ORC") THEN StructureAsString(plain, "UUID") ELSE plain
    IN  IF FormatLacksTime64(format) THEN StructureAsString(uuid, "Time64") ELSE uuid

\* What chdb_url_columns keeps for the copy that follows, line breaks included.
Pinned(columns) == Doubled(StructureOf(columns))

\* chDB unescapes a String parameter once.  This is about texts of one line:
\* "Workaround for https://github.com/chdb-io/chdb-core/issues/158" says that it
\* does not take the others, and what it makes of them is not in this repository.
Unescaped(text) ==
    LET Rest[i \in 1 .. Len(text) + 1] ==
            IF i > Len(text) THEN <<>>
            ELSE IF text[i] = "esc" /\ i < Len(text)
            THEN (IF text[i + 1] = "esc" THEN <<"esc">> ELSE <<"ctl">>) \o Rest[i + 2]
            ELSE <<text[i]>> \o Rest[i + 1]
    IN  Rest[1]

----------------------------------------------------------------------------
(* The URL.  What follows "://" is a text. *)

\* parse_azure_url.  An account is the host, completed when it is a bare name,
\* and the query string (a SAS token).
AzureUri(ctx) == Before(ctx.url, First(ctx.url, "?"))
Sas(ctx) == After(ctx.url, First(ctx.url, "?"))
HasSas(ctx) == First(ctx.url, "?") # 0

Account(ctx, host, complete) ==
    [host |-> host, complete |-> complete, signed |-> HasSas(ctx), sas |-> Sas(ctx)]

AbfsParts(ctx) ==
    LET uri == AzureUri(ctx)
        rest == After(uri, First(uri, "@"))
        host == Before(rest, First(rest, "/"))
    IN  [container |-> Before(uri, First(uri, "@")),
         path |-> After(rest, First(rest, "/")),
         account |-> Account(ctx, host, First(host, ".") # 0)]

\* Variant: the container is the rest of the URL up to its last slash.
AzPartsByLastSlash(ctx) ==
    LET uri == AzureUri(ctx)
        rest == After(uri, First(uri, "/"))
        last == SelectLastInSeq(rest, LAMBDA t : t = "/")
    IN  [container |-> Before(rest, last), path |-> After(rest, last),
         account |-> Account(ctx, Before(uri, First(uri, "/")), TRUE)]
AzParts(ctx) ==
    LET uri == AzureUri(ctx)
        rest == After(uri, First(uri, "/"))
    IN  [container |-> Before(rest, First(rest, "/")),
         path |-> After(rest, First(rest, "/")),
         account |-> Account(ctx, Before(uri, First(uri, "/")), TRUE)]

AzureParts(ctx) == IF ctx.scheme = "abfs" THEN AbfsParts(ctx) ELSE AzParts(ctx)

\* The URLs that parse_azure_url and get_local_path_from_file_url refuse.
Malformed(ctx) ==
    CASE ctx.scheme = "abfs" -> First(AzureUri(ctx), "@") = 0
      [] ctx.scheme = "az" ->
            \/ First(AzParts(ctx).account.host, ".") = 0
            \/ AzParts(ctx).container = <<>>
      [] ctx.scheme = "file" -> First(ctx.url, "/") # 1
      [] OTHER -> FALSE

\* The URL as s3() and gcs() take it.
ObjectUrl(ctx) ==
    LET slash == First(ctx.url, "/") IN
    IF ctx.scheme = "s3"
    THEN IF slash > 1 /\ ctx.url[slash - 1] = "aws"
         THEN <<"https">> \o ctx.url ELSE <<"s3">> \o ctx.url
    ELSE IF slash > 1 /\ ctx.url[1] = "gcs"
         THEN <<"https">> \o ctx.url ELSE <<"https", "gcs", "/">> \o ctx.url

----------------------------------------------------------------------------
(* make_ch_query. *)

CHDB_MAX_TABLEFUNC_ARGS == 9

TableFunction == [http |-> "url", s3 |-> "s3", gcs |-> "gcs", file |-> "file",
                  az |-> "azureBlobStorage", abfs |-> "azureBlobStorage",
                  hdfs |-> "hdfs"]
Schemes == DOMAIN TableFunction

\* PARAM: a named argument.  An option the statement did not name is no argument.
Param(name, value) == <<[name |-> name, value |-> value]>>
IfNamed(name, value) == IF value = "" THEN <<>> ELSE Param(name, value)
OrAuto(value) == IF value = "" THEN "auto" ELSE value

Shape(ctx) == Param("format", OrAuto(ctx.format)) \o Param("structure", ctx.structure)

Credentials(ctx) ==
    IF ctx.access_key = "" THEN <<>>
    ELSE Param("access_key", ctx.access_key)
         \o Param("access_secret", ctx.access_secret)
         \o IF ctx.scheme = "s3" THEN IfNamed("session_token", ctx.session_token)
                                 ELSE <<>>

Params(ctx) ==
    CASE ctx.scheme \in {"s3", "gcs"} ->
            Param("url", ObjectUrl(ctx)) \o Credentials(ctx) \o Shape(ctx)
            \o IfNamed("compression", ctx.compression)
      [] ctx.scheme \in {"az", "abfs"} ->
            LET parts == AzureParts(ctx) IN
            Param("url", parts.account) \o Param("container", parts.container)
            \o Param("path", parts.path)
            \o Param("account_name", ctx.access_key)
            \o Param("account_key", ctx.access_secret)
            \o Param("format", OrAuto(ctx.format))
            \o Param("compression", OrAuto(ctx.compression))
            \o Param("structure", ctx.structure)
      [] ctx.scheme = "file" ->
            Param("path", ctx.url) \o Shape(ctx)
            \o IfNamed("compression", ctx.compression)
      [] ctx.scheme \in {"http", "hdfs"} -> Param("url", ctx.url) \o Shape(ctx)

\* truncate_setting.
Truncates(ctx) == ctx.cmd = "INSERT"

\* Variant: milliseconds are cut to whole seconds.
SecondsCut(ms) == ms \div 1000
\* ceil of milliseconds in seconds.
Seconds(ms) == (ms + 999) \div 1000

\* The settings behind the table function: a sequence of separators and names.
Settings(ctx) ==
    CASE ctx.scheme \in {"s3", "gcs", "az", "abfs"} ->
            IF Truncates(ctx) THEN <<"SETTINGS", "truncate", "comma", "timeout">>
                              ELSE <<"SETTINGS", "timeout">>
      [] ctx.scheme = "http" -> <<"SETTINGS", "timeout", "comma", "max_tries">>
      [] OTHER -> IF Truncates(ctx) THEN <<"SETTINGS", "truncate">> ELSE <<>>

\* Variant: the clause is always taken for open.
JoinAlways(ctx) == "comma"
\* How one more setting is joined to them.
Join(ctx) == IF ctx.scheme \in {"file", "hdfs"} THEN "SETTINGS" ELSE "comma"

ExtraSettings(ctx) ==
    IF ctx.cmd = "DESCRIBE" THEN <<Join(ctx), "describe_compact_output">>
    ELSE IF ctx.cmd = "SELECT" /\ ctx.preserve_nested
    THEN <<Join(ctx), "flatten_nested">>
    ELSE <<>>

\* The timeout of the request, in milliseconds: url() takes seconds.
RequestTimeout(ctx) ==
    IF ctx.scheme = "http" THEN Seconds(ctx.timeout) * 1000 ELSE ctx.timeout

MakeChQuery(ctx) ==
    [ctx |-> ctx, function |-> TableFunction[ctx.scheme], params |-> Params(ctx),
     settings |-> Settings(ctx) \o ExtraSettings(ctx),
     timeout |-> RequestTimeout(ctx)]

\* The value of a named parameter of a query.
Value(query, name) ==
    query.params[SelectInSeq(query.params, LAMBDA p : p.name = name)].value
============================================================================
