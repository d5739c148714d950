--------------------------- MODULE MCSetupPayload ---------------------------
(* Instances of SetupPayload for TLC. *)
EXTENDS SetupPayload

\* Command types; 0 is a byte that is none of them.
TwoCmds == {1, 3}
OneCmd == {1}

\* Two limits that fit a uint16, and one that does not.
MCLimits == {3, 6, U16 + 1}
MemoryLimits == {0, 3, U16, U16 + 1}
NoLimit == {0}

\* Empty, short, and long enough for a payload to reach SetupMax.
MCStrings == {<<>>, <<1>>, <<2, 0, 3, 1, 0>>}
EdgeStrings == {<<>>, <<2, 0, 3, 1, 0>>}
ShortStrings == {<<>>, <<1>>}
=============================================================================
