----------------------------- MODULE ByteStream -----------------------------
(***************************************************************************)
(* The output stream a section is written to: the std::ostream behind       *)
(* binresource::Writer::stream().  It is not part of the repository's src/; *)
(* it is modelled from the four calls the writers make of it: write, seekp  *)
(* relative to the current position, the stream's truth value, and nothing  *)
(* else.                                                                    *)
(*                                                                          *)
(* A stream is a record [file, put, ok]: the bytes written so far, the put  *)
(* position (counted from 0) and whether every operation succeeded.  A      *)
(* failure is sticky: after one, write and seekp do nothing.                *)
(***************************************************************************)
EXTENDS Integers, Sequences

\* The sequence f with s written over it from the 0-based offset at on; the
\* sequence grows when s reaches past its end.
Overwrite(f, at, s) ==
    SubSeq(f, 1, at) \o s \o SubSeq(f, at + Len(s) + 1, Len(f))

\* What stream().write(s) may leave: all of s is written, or the device takes
\* only a prefix and the stream goes bad.
Written(st, s) ==
    [st EXCEPT !.file = Overwrite(st.file, st.put, s), !.put = st.put + Len(s)]

Writes(st, s) ==
    IF ~st.ok
    THEN {st}
    ELSE {Written(st, s)}
         \union {[Written(st, SubSeq(s, 1, k)) EXCEPT !.ok = FALSE] :
                     k \in 0..(Len(s) - 1)}

\* stream().seekp(delta, std::ios::cur): a target before the beginning of the
\* file fails.
Seek(st, delta) ==
    IF ~st.ok THEN st
    ELSE IF st.put + delta < 0 THEN [st EXCEPT !.ok = FALSE]
    ELSE [st EXCEPT !.put = st.put + delta]

=============================================================================
