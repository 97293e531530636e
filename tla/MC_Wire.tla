------------------------------- MODULE MC_Wire -------------------------------
(***************************************************************************)
(* Bytes of four values and integers of two bytes stand for the code's    *)
(* bytes and four-byte integers: two bytes are enough for a header to be  *)
(* split between two segments.  The share file comes in two packets, of   *)
(* one and of two bytes, as restoreShareFile's mid-loop flush and the     *)
(* flush after the loop send it.                                           *)
(***************************************************************************)
EXTENDS Wire

MCName == <<1>>
MCPackets == << <<1>>, <<2, 0>> >>

=============================================================================
