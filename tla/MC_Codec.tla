------------------------------- MODULE MC_Codec -------------------------------
(* Bounds for checking Codec with TLC.  One-byte fields keep every message *)
(* within 7 bytes, one-byte payload included.  As a variant byte, 0, 1 and *)
(* 2 are NewOrder, OrderAccept and OrderReject (OrderDone has the same     *)
(* fields as OrderReject) and 4 is no variant.  As a bool, 0 and 1 are     *)
(* valid and 2 and 4 are not.  As a compact length, 0 and 4 are the        *)
(* single-byte lengths 0 and 1, 1 starts the two-byte mode and 2 the       *)
(* four-byte mode.                                                         *)
EXTENDS Codec

MC_Bytes == {0, 1, 2, 4}

=============================================================================
