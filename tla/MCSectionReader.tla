--------------------------- MODULE MCSectionReader ---------------------------
(* Sections of up to five bytes behind one byte of another section, in files *)
(* cut short at every length; every byte of a file is different, so a byte   *)
(* from the wrong place shows.                                               *)
EXTENDS SectionReader

MCFile ==
    {[bytes |-> [i \in 1..n |-> i], base |-> 1, declared |-> d] :
         n \in 1..9, d \in {0, 2, 5}}

=============================================================================
