--------------------------- MODULE MCSectionWriter ---------------------------
(* A small instance of SectionWriter: a buffer of two bytes, chunks that fit *)
(* in it, fill it and exceed it, and room for a second section.              *)
EXTENDS SectionWriter

CONSTANTS z, a

MCByte == {z, a}
MCChunk == {<<a>>, <<z, a>>, <<a, a>>, <<a, z, a>>}

=============================================================================
