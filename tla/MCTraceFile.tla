---------------------------- MODULE MCTraceFile ----------------------------
(* Machines with and without memory, with one, two and no registers.        *)
EXTENDS TraceFile

MCMachine == {[memory |-> m, registers |-> r] :
                  m \in {0, 2}, r \in {{}, {1}, {1, 2}}}

=============================================================================
