----------------------------- MODULE EventTrace -----------------------------
(***************************************************************************)
(* The events section from both ends: EventsSectionWriter writes it,        *)
(* TraceReader (src/src/trace_reader.cpp) reads it back event by event,     *)
(* possibly after seeking to a position the recorder took between two       *)
(* events, as cache points do.  One memory or register write read is one    *)
(* step, since each is a callback into the program that uses the reader.    *)
(*                                                                          *)
(* The reader looks at the fields as the bytes they are: it expects what    *)
(* the format says comes next.  Finding another field there stands for      *)
(* decoding some bytes as something they are not, and ends in `misread'.    *)
(***************************************************************************)
EXTENDS EventsSectionWriter

VARIABLES mode,                  \* "closed", "between", "inside", "misread", "thrown"
          position,              \* stream_pos() of the events section's reader
          current_event_id,
          todo,                  \* what is left of the current block
          seen                   \* the callbacks of the current or last event

readerVars == <<mode, position, current_event_id, todo, seen>>
vars == <<writerVars, readerVars>>

NoTodo == [mem |-> 0, reg |-> 0, more |-> FALSE]

Init ==
    /\ InitWriter
    /\ mode = "closed"
    /\ position = 0
    /\ current_event_id = 0
    /\ todo = NoTodo
    /\ seen = <<>>

\* The fields ahead are of these kinds.
Ahead(kinds) ==
    /\ position + Len(kinds) <= Len(events)
    /\ \A i \in 1..Len(kinds) : events[position + i][1] = kinds[i]
Value(i) == events[position + i][2]

\* The constructor has read the event count of a finished section.
OpenTrace ==
    /\ mode = "closed"
    /\ finalized
    /\ mode' = "between"
    /\ position' = 1
    /\ UNCHANGED <<writerVars, current_event_id, todo, seen>>

ReadEventCount == events[1][2]

\* A diff, as the loop of read_next_event takes it.
Load(i) ==
    todo' = [mem |-> Announced(events[i][2]), reg |-> Announced(events[i][3]),
             more |-> Full \in {events[i][2], events[i][3]}]

\* Mutant: the exception is swallowed.
MisreadSwallowed == UNCHANGED <<mode, position, current_event_id, todo, seen>>

Misread ==
    /\ mode' = "misread"
    /\ UNCHANGED <<position, current_event_id, todo, seen>>

\* read_next_event: the head of the event.  The diff behind the description of
\* an other event is not compared with 0xff.
ReadInstruction ==
    /\ Ahead(<<"diff">>) /\ events[position + 1] # NotInstruction
    /\ Load(position + 1)
    /\ position' = position + 1
    /\ seen' = <<Instruction>>
    /\ mode' = "inside"
    /\ UNCHANGED current_event_id

ReadOther ==
    /\ Ahead(<<"diff", "type", "string", "diff">>) /\ events[position + 1] = NotInstruction
    /\ Load(position + 4)
    /\ position' = position + 4
    /\ seen' = <<Other(Value(3))>>
    /\ mode' = "inside"
    /\ UNCHANGED current_event_id

HeadAhead ==
    IF Ahead(<<"diff">>) /\ events[position + 1] = NotInstruction
    THEN Ahead(<<"diff", "type", "string", "diff">>)
    ELSE Ahead(<<"diff">>)

ReadHead ==
    /\ mode = "between"
    /\ current_event_id < ReadEventCount
    /\ ReadInstruction \/ ReadOther \/ (~HeadAhead /\ Misread)
    /\ UNCHANGED writerVars

\* Mutant: a callback for a write of no bytes too.
MemoryAheadEmpty(size, fields) ==
    /\ position' = position + fields
    /\ seen' = Append(seen, <<"memory", Value(1), size>>)
    /\ todo' = [todo EXCEPT !.mem = @ - 1]
    /\ UNCHANGED <<mode, current_event_id>>

\* process_memory_write of the size read: one byte, or as many as an address
\* takes behind 0xff.  A size of 0 causes no callback.
MemoryAhead(size, fields) ==
    /\ position' = position + fields
    /\ seen' = seen \o MemoryEffect(Value(1), size)
    /\ todo' = [todo EXCEPT !.mem = @ - 1]
    /\ UNCHANGED <<mode, current_event_id>>

ReadMemory ==
    /\ mode = "inside" /\ todo.mem > 0
    /\ IF Ahead(<<"address", "size">>) /\ Value(2) # Escape
       THEN IF Ahead(<<"address", "size", "bytes">>)
            THEN MemoryAhead(Value(2), 3) ELSE Misread
       ELSE IF Ahead(<<"address", "size", "wide size", "bytes">>)
            THEN MemoryAhead(Value(3), 4) ELSE Misread
    /\ UNCHANGED writerVars

\* process_register_write: an operation has no content in the trace, a register
\* of the machine has, and any other id is a MalformedSection.
RegisterAhead(id, fields) ==
    IF id \in Operation
    THEN /\ position' = position + fields
         /\ seen' = seen \o OperationEffect(id)
         /\ todo' = [todo EXCEPT !.reg = @ - 1]
         /\ UNCHANGED <<mode, current_event_id>>
    ELSE IF id \in Register /\ events[position + fields + 1] = Content(id)
    THEN /\ position' = position + fields + 1
         /\ seen' = seen \o RegisterEffect(id)
         /\ todo' = [todo EXCEPT !.reg = @ - 1]
         /\ UNCHANGED <<mode, current_event_id>>
    ELSE Misread

ReadRegister ==
    /\ mode = "inside" /\ todo.mem = 0 /\ todo.reg > 0
    /\ IF Ahead(<<"id">>) /\ Value(1) # Escape
       THEN RegisterAhead(Value(1), 1)
       ELSE IF Ahead(<<"id", "wide id">>)
       THEN RegisterAhead(Value(2), 2)
       ELSE Misread
    /\ UNCHANGED writerVars

BlockRead == mode = "inside" /\ todo.mem = 0 /\ todo.reg = 0

\* A count of 0xf: the event goes on in another block, whose diff is not 0xff.
ReadContinuation ==
    /\ BlockRead /\ todo.more
    /\ IF Ahead(<<"diff">>) /\ events[position + 1] # NotInstruction
       THEN /\ Load(position + 1)
            /\ position' = position + 1
            /\ UNCHANGED <<mode, current_event_id, seen>>
       ELSE Misread
    /\ UNCHANGED writerVars

\* Mutant: an event ends with its first block.
ReadDoneEarly ==
    /\ BlockRead
    /\ mode' = "between"
    /\ current_event_id' = current_event_id + 1
    /\ UNCHANGED <<writerVars, position, todo, seen>>

ReadDone ==
    /\ BlockRead /\ ~todo.more
    /\ mode' = "between"
    /\ current_event_id' = current_event_id + 1
    /\ UNCHANGED <<writerVars, position, todo, seen>>

\* In the middle of the event a callback of the user throws, or the file ends
\* (UnexpectedEndOfStream): the object is left inside of the event, whose id is
\* still the current one.
Throw ==
    /\ mode = "inside"
    /\ mode' = "thrown"
    /\ UNCHANGED <<writerVars, position, current_event_id, todo, seen>>

\* Mutant: the position is set, the event id is not.
SeekKeepsId(event_id) ==
    /\ mode \in {"between", "misread", "thrown"}
    /\ position' = starts[event_id + 1]
    /\ mode' = "between"
    /\ todo' = NoTodo
    /\ seen' = <<>>
    /\ UNCHANGED <<writerVars, current_event_id>>

\* seek() to an event whose position was taken between two events.  Users who
\* go on after an exception seek first: read_next_event would take what is left
\* of the event for the beginning of one.
Seek(event_id) ==
    /\ mode \in {"between", "misread", "thrown"}
    /\ position' = starts[event_id + 1]
    /\ current_event_id' = event_id
    /\ mode' = "between"
    /\ todo' = NoTodo
    /\ seen' = <<>>
    /\ UNCHANGED writerVars

InsideStep == ReadMemory \/ ReadRegister \/ ReadContinuation \/ ReadDone

Next ==
    \/ NextWriter /\ UNCHANGED readerVars
    \/ OpenTrace
    \/ ReadHead
    \/ InsideStep
    \/ Throw
    \/ \E event_id \in 0..Len(log) : Seek(event_id)

\* A call of read_next_event that has begun runs to its end.
Spec == Init /\ [][Next]_vars /\ WF_vars(InsideStep)

-----------------------------------------------------------------------------
TypeOK ==
    /\ TypeOKWriter
    /\ mode \in {"closed", "between", "inside", "misread", "thrown"}
    /\ position \in Nat
    /\ current_event_id \in 0..MaxEvents
    /\ todo \in [mem : 0..(Full - 1), reg : 0..(Full - 1), more : BOOLEAN]

\* Of a trace whose recorder was never refused half-way, the reader decodes
\* every field as what it is, from every position it may be put at, also after
\* an exception of the file's end or of the user, and read_next_event finds
\* nothing malformed.
NeverMisread == ~spoilt => mode # "misread"

\* While an event is read, the callbacks so far are the beginning of what was
\* recorded, in the order it was recorded, across continuation blocks.
CallbacksInOrder ==
    ~spoilt /\ mode = "inside" =>
        /\ Len(seen) <= Len(log[current_event_id + 1])
        /\ seen = SubSeq(log[current_event_id + 1], 1, Len(seen))

\* Between events the reader stands where the recorder stood between the same
\* events: stream_pos() is a position one can seek() to later, and the object
\* is "as if context_id was just read" (trace_reader.h:44) after a seek, and
\* stays so for all that is read behind it, even if the seek came after an
\* exception that had left the reader inside of another event.
StandsBetweenEvents ==
    ~spoilt /\ mode = "between" => position = starts[current_event_id + 1]

\* A call of read_next_event returns or throws.
ReadReturns == mode = "inside" ~> mode # "inside"

\* Reader and writer together implement the log.
L == INSTANCE EventLog
     WITH log <- IF spoilt THEN <<>> ELSE log,
          cursor <- IF spoilt THEN 0 ELSE current_event_id,
          delivered <- IF spoilt \/ mode # "between" THEN <<>> ELSE seen,
          spoilt <- spoilt
ImplementsLog == L!Spec

=============================================================================
