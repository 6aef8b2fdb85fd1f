------------------------------- MODULE Section -------------------------------
(***************************************************************************)
(* What a section promises to the code that writes it, without buffer,      *)
(* stream or positions in a file: a sequence of bytes that is appended to,  *)
(* patched in place, and sealed once.  If the device fails, the section is  *)
(* failed for good and is never sealed.                                     *)
(***************************************************************************)
EXTENDS Integers, Sequences, ByteStream

CONSTANT Chunk            \* the byte strings a caller writes

VARIABLES data,           \* the bytes of the section
          status          \* "none", "open", "sealed" or "failed"

vars == <<data, status>>

Init == data = <<>> /\ status = "none"

\* A section is begun when none is being written.
Begin ==
    /\ status \in {"none", "sealed"}
    /\ data' = <<>>
    /\ status' = "open"

Add(chunk) ==
    /\ status = "open"
    /\ data' = data \o chunk
    /\ UNCHANGED status

\* Bytes that were already written are replaced; the section does not grow.
Patch(pos, chunk) ==
    /\ status = "open"
    /\ pos + Len(chunk) <= Len(data)
    /\ data' = Overwrite(data, pos, chunk)
    /\ UNCHANGED status

Seal ==
    /\ status = "open"
    /\ status' = "sealed"
    /\ UNCHANGED data

Fail ==
    /\ status # "failed"
    /\ data' = <<>>
    /\ status' = "failed"

Next ==
    \/ Begin
    \/ \E chunk \in Chunk : Add(chunk)
    \/ \E pos \in 0..Len(data), chunk \in Chunk : Patch(pos, chunk)
    \/ Seal
    \/ Fail

Spec == Init /\ [][Next]_vars

=============================================================================
