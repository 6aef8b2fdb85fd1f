------------------------------ MODULE EventLog ------------------------------
(***************************************************************************)
(* What a trace promises to the two programs that share it: the recorder    *)
(* appends events to a log, the reader has a cursor in it, and reading      *)
(* delivers the whole event at the cursor, also after the cursor was moved. *)
(* No framing, no counts, no positions.  A recorder whose call was refused  *)
(* half-way has no promise left: the trace is spoilt.                       *)
(***************************************************************************)
EXTENDS Integers, Sequences

VARIABLES log,            \* the events recorded
          cursor,         \* how many of them lie before the reader
          delivered,      \* the event the last read returned, <<>> if none
          spoilt

vars == <<log, cursor, delivered, spoilt>>

Init == log = <<>> /\ cursor = 0 /\ delivered = <<>> /\ spoilt = FALSE

\* Some event is appended; which events there are is up to the recorder.
Record ==
    /\ ~spoilt /\ cursor = 0 /\ delivered = <<>>
    /\ Len(log') = Len(log) + 1
    /\ SubSeq(log', 1, Len(log)) = log
    /\ UNCHANGED <<cursor, delivered, spoilt>>

Read ==
    /\ ~spoilt /\ cursor < Len(log)
    /\ delivered' = log[cursor + 1]
    /\ cursor' = cursor + 1
    /\ UNCHANGED <<log, spoilt>>

\* The reader moves its cursor, or has begun to look for the next event.
Seek(event_id) ==
    /\ ~spoilt
    /\ cursor' = event_id
    /\ delivered' = <<>>
    /\ UNCHANGED <<log, spoilt>>

Spoil ==
    /\ spoilt' = TRUE
    /\ log' = <<>> /\ cursor' = 0 /\ delivered' = <<>>

Next ==
    \/ Record
    \/ Read
    \/ \E event_id \in 0..Len(log) : Seek(event_id)
    \/ Spoil

Spec == Init /\ [][Next]_vars

=============================================================================
