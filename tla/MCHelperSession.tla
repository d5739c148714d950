-------------------------- MODULE MCHelperSession --------------------------
(* Instances of HelperSession for TLC.  The numeric bounds are in the cfgs. *)
EXTENDS HelperSessionRef

InsertOnly == {"COPY_TO"}
QueryOnly == {"QUERY"}

RaiseOnly == {"raise"}
DecodeOnly == {"decode"}
SendOnly == {"io_send"}
=============================================================================
