---------------------------- MODULE MCReceiveRows ----------------------------
(* An instance of ReceiveRows for TLC: a buffer that fills by rows and, with    *)
(* large rows, by bytes, several times in one copy.                             *)
EXTENDS ReceiveRows

MCRowBytes == {0, 1, 3}
=============================================================================
