----------------------------- MODULE MCSendRows -----------------------------
(* An instance of SendRows for TLC: rows of every size around the cut, pieces  *)
(* below and at the direct limit and one that no sink would hold, a sink that  *)
(* two small pieces fill and a third overflows.                                *)
EXTENDS SendRows

MCRowBytes == {0, 1, 2, 5}
MCPieceBytes == {1, 2, 3, 5}
=============================================================================
