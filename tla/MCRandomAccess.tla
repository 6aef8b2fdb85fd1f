--------------------------- MODULE MCRandomAccess ---------------------------
(* Two registers and two pages; an event writes one of each, or none.       *)
EXTENDS RandomAccess

MCRegion == {[start |-> 0, size |-> 4]}
MCTouch == {{}, {101, 0}, {102}, {2}, {101, 0, 2}}

=============================================================================
