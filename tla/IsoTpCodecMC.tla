----------------------------- MODULE IsoTpCodecMC -----------------------------
(***************************************************************************)
(* Instances of IsoTpCodec for TLC: every length a frame can have, and     *)
(* message sizes around the limits of the header formats.                  *)
(***************************************************************************)
EXTENDS IsoTpCodec

AllSingle == 0..62
AllChunks == 1..63
SomeMessages == {8, 9, 62, 63, 64, 4094, 4095, 4096, 4097, 65535, 65536, 16777216}
=============================================================================
