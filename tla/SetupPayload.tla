---------------------------- MODULE SetupPayload ----------------------------
(***************************************************************************)
(* The setup payload of src/setup.h: build_setup of src/helper.c writes it *)
(* in the backend, read_setup and the take functions of                    *)
(* src/helper/chdb_helper.c read it in the helper, and setup_session turns *)
(* its settings into the session's limits.                                 *)
(*                                                                         *)
(* Widths are scaled, not abstracted: a byte is a digit of base Base, a    *)
(* uint16 has two of them, a string length LenBytes of them.               *)
(***************************************************************************)
EXTENDS Integers, SequencesExt

CONSTANTS
    Base,       \* values of a byte
    LenBytes,   \* sizeof(uint32_t)
    SetupMax,   \* CHDB_SETUP_MAX
    FirstCap,   \* read_setup's first allocation, 64 KiB
    CmdTypes,   \* CHDB_CMD_SELECT, _INSERT, _DESCRIBE as bytes
    Limits,     \* values of the max_memory GUC, and of the two thread GUCs
    Strings,    \* time zones, queries, parameter names and values
    MaxParams,  \* bound on the parameters of a query
    MB          \* 1024 * 1024

\* How many values w bytes have, and the capacity after k doublings.
Values[w \in Nat] == IF w = 0 THEN 1 ELSE Base * Values[w - 1]
Capacity[k \in Nat] == IF k = 0 THEN FirstCap ELSE 2 * Capacity[k - 1]

ASSUME WidthAssumption ==
    /\ Base \in Nat \ {0, 1} /\ LenBytes \in Nat \ {0} /\ MB \in Nat \ {0}
    /\ CmdTypes \subseteq 0..(Base - 1) /\ Limits \subseteq Nat
    /\ \A s \in Strings : s \in Seq(0..(Base - 1)) /\ Len(s) < Values[LenBytes]
    /\ MaxParams \in Nat /\ MaxParams < Values[2]
ASSUME CapAssumption ==
    \* the doubling capacity of read_setup meets the limit exactly
    FirstCap \in Nat \ {0} /\ \E k \in 0..SetupMax : SetupMax = Capacity[k]

VARIABLES
    given,     \* what the backend is asked to run, its GUCs included
    payload,   \* the bytes build_setup assembled
    cut,       \* how many of them reach the helper before the channel closes
    pc,        \* where the two programs are
    cap, got,  \* read_setup's buffer and how much of it is filled
    at,        \* cursor of the take functions
    out,       \* the fields taken so far
    session    \* the limits setup_session sets

vars == <<given, payload, cut, pc, cap, got, at, out, session>>

U16 == Values[2]

\* The (uint16_t) casts that fill chdbHelperContext from the int GUCs.
Cast(n) == n % U16

\* The i-th byte of a number, from the low end.
Byte[i \in Nat] ==
    [n \in Nat |-> IF i = 0 THEN n % Base ELSE Byte[i - 1][n \div Base]]

\* A native-endian unsigned integer of w bytes, and the memcpy that reads it.
Encode(n, w) == [i \in 1..w |-> Byte[i - 1][n]]
Decode(s) == CHOOSE n \in 0..(Values[Len(s)] - 1) : Encode(n, Len(s)) = s

----------------------------------------------------------------------------
(* Backend: build_setup. *)

Counted(str) == Encode(Len(str), LenBytes) \o str

\* The parameters, name and value in turn.
Pairs(ps) ==
    FlattenSeq([i \in DOMAIN ps |-> Counted(ps[i].name) \o Counted(ps[i].value)])

\* Variant: the parameter count is left out.
CountOmitted(g) ==
    <<g.cmd>> \o Encode(Cast(g.memory), 2) \o Encode(Cast(g.threads), 2)
        \o Encode(Cast(g.parsers), 2)
        \o Counted(g.timezone) \o Counted(g.query) \o Pairs(g.params)

Payload(g) ==
    <<g.cmd>> \o Encode(Cast(g.memory), 2) \o Encode(Cast(g.threads), 2)
        \o Encode(Cast(g.parsers), 2)
        \o Counted(g.timezone) \o Counted(g.query)
        \o Encode(Len(g.params), 2) \o Pairs(g.params)

\* A payload over the limit is refused; any other is written, all of it unless
\* the backend goes before the end.
BuildSetup ==
    /\ pc = "build"
    /\ payload' = Payload(given)
    /\ IF Len(payload') > SetupMax
       THEN pc' = "refused" /\ UNCHANGED cut
       ELSE pc' = "read" /\ cut' \in 0..Len(payload')
    /\ UNCHANGED <<given, cap, got, at, out, session>>

----------------------------------------------------------------------------
(* Helper: read_setup. *)

Fail == pc' = "failed"

\* Variant: refused one doubling early.
TooLargeEarly(n) == n >= SetupMax
TooLarge(n) == n > SetupMax

\* got == cap: double, unless that passes the limit.
Grow ==
    /\ pc = "read" /\ got = cap
    /\ IF TooLarge(cap * 2) THEN Fail /\ UNCHANGED cap
                            ELSE cap' = cap * 2 /\ UNCHANGED pc
    /\ UNCHANGED <<given, payload, cut, got, at, out, session>>

\* Variant: the free part of the buffer is not minded.
ReadWithoutGrow ==
    /\ pc = "read"
    /\ \E n \in 1..SetupMax : n <= cut - got /\ got' = got + n
    /\ UNCHANGED <<given, payload, cut, pc, cap, at, out, session>>
\* read() of what is there, up to the free part of the buffer.
ReadSome ==
    /\ pc = "read" /\ got < cap
    /\ \E n \in 1..SetupMax : n <= cut - got /\ n <= cap - got /\ got' = got + n
    /\ UNCHANGED <<given, payload, cut, pc, cap, at, out, session>>

ReadEOF ==
    /\ pc = "read" /\ got < cap
    /\ got = cut
    /\ pc' = "cmd"
    /\ UNCHANGED <<given, payload, cut, cap, got, at, out, session>>

----------------------------------------------------------------------------
(* Helper: take1, take2, take_str and the order main calls them in. *)

Left(p) == got - p

TakeCmd ==
    /\ pc = "cmd"
    /\ IF Left(at) = 0
       THEN Fail /\ UNCHANGED <<at, out>>
       ELSE /\ out' = [out EXCEPT !.cmd = payload[at + 1]]
            /\ at' = at + 1 /\ pc' = "memory"
    /\ UNCHANGED <<given, payload, cut, cap, got, session>>

\* take2 into field f.
Take2(f, next) ==
    /\ pc = f
    /\ IF Left(at) < 2
       THEN Fail /\ UNCHANGED <<at, out>>
       ELSE /\ out' = [out EXCEPT ![f] = Decode(SubSeq(payload, at + 1, at + 2))]
            /\ at' = at + 2 /\ pc' = next
    /\ UNCHANGED <<given, payload, cut, cap, got, session>>

\* What take_str finds at p: a value and where it ends, or a truncated payload.
Truncated == [ok |-> FALSE, val |-> <<>>, end |-> 0]
StrAt(p) ==
    IF Left(p) < LenBytes THEN Truncated
    ELSE LET len  == Decode(SubSeq(payload, p + 1, p + LenBytes))
             from == p + LenBytes
         IN  IF Left(from) < len THEN Truncated
             ELSE [ok |-> TRUE, val |-> SubSeq(payload, from + 1, from + len),
                   end |-> from + len]

TakeStr(f, next) ==
    /\ pc = f
    /\ IF ~StrAt(at).ok
       THEN Fail /\ UNCHANGED <<at, out>>
       ELSE /\ out' = [out EXCEPT ![f] = StrAt(at).val]
            /\ at' = StrAt(at).end /\ pc' = next
    /\ UNCHANGED <<given, payload, cut, cap, got, session>>

\* One turn of the parameter loop: a name, then its value.
TakeParam ==
    /\ pc = "params" /\ Len(out.params) < out.count
    /\ LET name  == StrAt(at)
           value == StrAt(name.end)
       IN  IF ~name.ok \/ ~value.ok
           THEN Fail /\ UNCHANGED <<at, out>>
           ELSE /\ out' = [out EXCEPT !.params =
                             Append(@, [name |-> name.val, value |-> value.val])]
                /\ at' = value.end /\ UNCHANGED pc
    /\ UNCHANGED <<given, payload, cut, cap, got, session>>

\* setup_session, then the switch on the command type.
SetupSession ==
    /\ pc = "params" /\ Len(out.params) = out.count
    /\ session' = [max_threads |-> out.threads, max_parsing_threads |-> out.parsers,
                   max_memory_usage |-> out.memory * MB]
    /\ IF out.cmd \in CmdTypes THEN pc' = "run" ELSE Fail
    /\ UNCHANGED <<given, payload, cut, cap, got, at, out>>

----------------------------------------------------------------------------

\* The GUCs: max_memory is any int, the thread counts stop at UINT16_MAX.
Threads == {n \in Limits : n < U16}
Params == [name : Strings, value : Strings]
Statements ==
    [cmd : CmdTypes, memory : Limits, threads : Threads, parsers : Threads,
     timezone : Strings, query : Strings,
     params : UNION {[1..n -> Params] : n \in 0..MaxParams}]

NoFields == [cmd |-> 0, memory |-> 0, threads |-> 0, parsers |-> 0,
             timezone |-> <<>>, query |-> <<>>, count |-> 0, params |-> <<>>]
NoSession == [max_threads |-> 0, max_parsing_threads |-> 0, max_memory_usage |-> 0]

Init ==
    /\ given \in Statements
    /\ payload = <<>> /\ cut = 0
    /\ pc = "build"
    /\ cap = FirstCap /\ got = 0 /\ at = 0
    /\ out = NoFields /\ session = NoSession

TakeSettings == Take2("memory", "threads") \/ Take2("threads", "parsers")
                    \/ Take2("parsers", "timezone")
TakeNames == TakeStr("timezone", "query") \/ TakeStr("query", "count")
\* Variant: a missing parameter count passes for zero.
CountOptional == pc = "count" /\ IF Left(at) = 0
                                 THEN pc' = "params" /\ UNCHANGED <<given, payload,
                                        cut, cap, got, at, out, session>>
                                 ELSE Take2("count", "params")
TakeCount == Take2("count", "params")

Over == pc \in {"run", "failed", "refused"}
Terminated == Over /\ UNCHANGED vars

Next ==
    \/ BuildSetup
    \/ Grow \/ ReadSome \/ ReadEOF
    \/ TakeCmd \/ TakeSettings \/ TakeNames \/ TakeCount \/ TakeParam
    \/ SetupSession
    \/ Terminated

Spec == Init /\ [][Next]_vars

----------------------------------------------------------------------------
(* Properties. *)

\* The fields the helper must end up with.
Expected == [cmd |-> given.cmd, memory |-> Cast(given.memory),
             threads |-> Cast(given.threads), parsers |-> Cast(given.parsers),
             timezone |-> given.timezone, query |-> given.query,
             count |-> Len(given.params), params |-> given.params]

\* A query that runs is the query that was sent: every field survives
\* build_setup, the reads in pieces, and the take functions.
RoundTrip == pc = "run" => out = Expected

\* A payload that lost its tail, wherever the cut falls, never runs.
TruncatedNeverRuns == pc = "run" => cut = Len(payload)

\* The helper never reads past its buffer nor takes past what it has read.
InBounds == got <= cap /\ cap <= SetupMax /\ at <= got

\* A payload under the limit that arrives whole is never refused by the helper.
WholeIsAccepted == pc = "failed" /\ Len(payload) < SetupMax => cut < Len(payload)

\* "Refuse a payload larger than this": one that is not larger is accepted.
LimitIsAccepted == pc = "failed" => cut < Len(payload)

\* "The maximum amount of memory for a chDB query": the session has the limit
\* the GUC asks for.
MemoryLimitHonoured == pc = "run" => session.max_memory_usage = given.memory * MB
=============================================================================
