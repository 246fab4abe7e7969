---------------------------- MODULE MCVariantInt ----------------------------
(* Foreign buffers for TLC: all byte sequences up to the length Decode reads. *)
EXTENDS VariantInt

ForeignBuffers == UNION {[1 .. n -> Byte] : n \in 0 .. GetMaxCharsOfEncodedSize}
=============================================================================
