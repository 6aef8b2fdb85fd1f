---------------------------- MODULE MCEventTrace ----------------------------
(* Counts saturate at 2 instead of 15 and bytes at 2 instead of 255, so that *)
(* continuations, escapes and refusals happen in short traces.               *)
EXTENDS EventTrace

\* Sizes in one byte, in the escaped form, and empty; an address and a size
\* that do not fit.
MCMemoryWrite == {<<0, 1>>, <<1, 2>>, <<1, 0>>, <<4, 1>>, <<0, 4>>}

=============================================================================
