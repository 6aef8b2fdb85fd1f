---------------------------- MODULE TracePrinter ----------------------------
(***************************************************************************)
(* A user of TraceReader: TracePrinter (src/bin/cli_trace_reader), called   *)
(* back by read_next_event, process_register_write and process_memory_write *)
(* (src/src/trace_reader.cpp).  How an event is decoded is EventTrace's     *)
(* part: here an event is its effects in the order the reader finds them,   *)
(* chosen as it is begun, for the trace is arbitrary.  A step is one        *)
(* callback.                                                                *)
(***************************************************************************)
EXTENDS RegisterOps, SequencesExt

CONSTANTS Register,       \* MachineDescription::registers: id -> size in bytes
          Operation,      \* register_operations: id -> [register, operator, value]
          InitialValue,   \* initial_registers(): id -> bytes
          Event,          \* sequences of <<"memory", address, size>> and
                          \* <<"register", id, bytes that follow>>
          BufferSize,     \* sizeof(buffer_), 4096 in the code
          AddressMod,     \* 2^64 in the code
          MaxEvents       \* bound: events of a trace

\* What read_trace_machine_description and read_initial_cpu_context check
\* (ReadMachineSound of MachineDescription).
ASSUME MachineAssumption ==
    /\ \A id \in DOMAIN Register : Register[id] \in Nat
    /\ DOMAIN Operation \intersect DOMAIN Register = {}
    /\ \A id \in DOMAIN Operation :
          /\ Operation[id].register \in DOMAIN Register
          /\ Operation[id].operator \in Operators
          /\ Operation[id].value \in Bytes(Register[Operation[id].register])
    /\ \A id \in DOMAIN InitialValue :
          id \in DOMAIN Register /\ InitialValue[id] \in Bytes(Register[id])
ASSUME BufferAssumption ==
    BufferSize \in Nat \ {0} /\ AddressMod \in Nat \ {0} /\ MaxEvents \in Nat

\* A write of a register is followed by as many bytes as it has.
ASSUME EventAssumption ==
    \A event \in Event :
        /\ event \in Seq({event[i] : i \in DOMAIN event})
        /\ \A i \in DOMAIN event :
              \/ /\ event[i][1] = "memory"
                 /\ event[i][2] \in 0..(AddressMod - 1) /\ event[i][3] \in Nat
              \/ /\ event[i][1] = "register"
                 /\ event[i][2] \in DOMAIN Register =>
                       event[i][3] \in Bytes(Register[event[i][2]])

VARIABLES event_count,
          trace,               \* the events begun so far
          current_event_id,    \* of TraceReader: events read
          pending,             \* effects of the event being read, still to come
          context,             \* latest content of every register
          registers_to_show,
          told,                \* memory of the line: an address for every byte
          lines,               \* lines of the output
          mode                 \* "between" and "in" events, "ended", "error"

vars == <<event_count, trace, current_event_id, pending, context,
          registers_to_show, told, lines, mode>>

\* Every register is 0 unless it is given an initial value.
Init ==
    /\ event_count \in 0..MaxEvents
    /\ trace = <<>>
    /\ current_event_id = 0
    /\ pending = <<>>
    /\ context = [id \in DOMAIN Register |->
                     IF id \in DOMAIN InitialValue THEN InitialValue[id]
                     ELSE BytesOf(0, Register[id])]
    /\ registers_to_show = <<>>
    /\ told = <<>>
    /\ lines = <<>>
    /\ mode = "between"

\* do_event_instruction and do_event_other begin the line.
StartEvent(event) ==
    /\ mode = "between"
    /\ current_event_id < event_count
    /\ trace' = Append(trace, event)
    /\ pending' = event
    /\ mode' = "in"
    /\ UNCHANGED <<event_count, current_event_id, context, registers_to_show, told, lines>>

Reads(kind) == mode = "in" /\ pending # <<>> /\ Head(pending)[1] = kind

\* The quick-access vectors, which know the ids of the machine description.
IsOperation(id) == id \in DOMAIN Operation
IsRegister(id) == id \in DOMAIN Register

\* An id is looked up among the operations first: one writes to the register
\* it is for and has no bytes in the trace.
Destination(id) == IF IsOperation(id) THEN Operation[id].register ELSE id
Content(id, bytes) ==
    IF IsOperation(id)
    THEN Applied(Operation[id].operator, context[Operation[id].register], Operation[id].value)
    ELSE bytes

\* do_register_rw_buffers
Shown(id) ==
    IF Contains(registers_to_show, Destination(id))
    THEN registers_to_show ELSE Append(registers_to_show, Destination(id))

RegisterWrite ==
    /\ Reads("register")
    /\ LET id == Head(pending)[2]
           bytes == Head(pending)[3]
       IN  /\ IsOperation(id) \/ IsRegister(id)
           /\ context' = [context EXCEPT ![Destination(id)] = Content(id, bytes)]
           /\ registers_to_show' = Shown(id)
    /\ pending' = Tail(pending)
    /\ UNCHANGED <<event_count, trace, current_event_id, told, lines, mode>>

\* MalformedSection, which main() catches.
RegisterUnknown ==
    /\ Reads("register")
    /\ ~IsOperation(Head(pending)[2]) /\ ~IsRegister(Head(pending)[2])
    /\ mode' = "error"
    /\ UNCHANGED <<event_count, trace, current_event_id, pending, context,
                   registers_to_show, told, lines>>

\* Mutant: the buffer is handed out in pairs of bytes.
ChunkOfPairs(size) == IF size <= BufferSize THEN size - (size % 2) ELSE BufferSize

\* do_memory_before_write
Chunk(size) == IF size <= BufferSize THEN size ELSE BufferSize

\* Mutant: every chunk is said to be at the address of the write.
RestOfWriteInPlace(address, size, chunk) == << <<"memory", address, size - chunk>> >>

\* One round of process_memory_write; a write of no bytes has none.
RestOfWrite(address, size, chunk) ==
    << <<"memory", (address + chunk) % AddressMod, size - chunk>> >>

MemoryWrite ==
    /\ Reads("memory")
    /\ LET address == Head(pending)[2]
           size == Head(pending)[3]
           chunk == Chunk(size)
       IN  /\ told' = told \o [i \in 1..chunk |-> (address + i - 1) % AddressMod]
           /\ pending' = (IF size = chunk THEN <<>> ELSE RestOfWrite(address, size, chunk))
                         \o Tail(pending)
    /\ UNCHANGED <<event_count, trace, current_event_id, context,
                   registers_to_show, lines, mode>>

\* print_register for every register to show.
ShownRegisters ==
    [i \in DOMAIN registers_to_show |->
        <<registers_to_show[i], context[registers_to_show[i]]>>]

\* Mutant: registers_to_show is not cleared.
FinishEventUncleared ==
    /\ mode = "in" /\ pending = <<>>
    /\ current_event_id' = current_event_id + 1
    /\ lines' = Append(lines, [event |-> current_event_id, memory |-> told,
                               registers |-> ShownRegisters])
    /\ told' = <<>>
    /\ mode' = "between"
    /\ UNCHANGED <<event_count, trace, pending, context, registers_to_show>>

\* read_next_event returns: the line is ended and the next begun.
FinishEvent ==
    /\ mode = "in" /\ pending = <<>>
    /\ current_event_id' = current_event_id + 1
    /\ lines' = Append(lines, [event |-> current_event_id, memory |-> told,
                               registers |-> ShownRegisters])
    /\ registers_to_show' = <<>>
    /\ told' = <<>>
    /\ mode' = "between"
    /\ UNCHANGED <<event_count, trace, pending, context>>

End ==
    /\ mode = "between"
    /\ current_event_id >= event_count
    /\ mode' = "ended"
    /\ UNCHANGED <<event_count, trace, current_event_id, pending, context,
                   registers_to_show, told, lines>>

\* A truncated or malformed trace.  The read of a register that fails may leave
\* a part of its bytes in the context, which nothing looks at any more.
Throw ==
    /\ mode = "in" \/ (mode = "between" /\ current_event_id < event_count)
    /\ mode' = "error"
    /\ UNCHANGED <<event_count, trace, current_event_id, pending, context,
                   registers_to_show, told, lines>>

\* start_reading()
Read ==
    \/ \E event \in Event : StartEvent(event)
    \/ RegisterWrite
    \/ RegisterUnknown
    \/ MemoryWrite
    \/ FinishEvent
    \/ End

Next == Read \/ Throw

\* One thread runs start_reading() until it returns or throws.
Spec == Init /\ [][Next]_vars /\ WF_vars(Read)

-----------------------------------------------------------------------------
TypeOK ==
    /\ event_count \in 0..MaxEvents /\ current_event_id \in 0..event_count
    /\ trace \in Seq(Event) /\ Len(trace) \in current_event_id..(current_event_id + 1)
    /\ DOMAIN context = DOMAIN Register
    /\ \A id \in DOMAIN Register : context[id] \in Bytes(Register[id])
    /\ \A i \in DOMAIN registers_to_show : registers_to_show[i] \in DOMAIN Register
    /\ mode \in {"between", "in", "ended", "error"}

\* The reference: registers are unsigned integers as wide as they are.
InitialNumbers ==
    [id \in DOMAIN Register |->
        IF id \in DOMAIN InitialValue THEN ValueOf(InitialValue[id]) ELSE 0]
NumbersWith(numbers, effect) ==
    LET id == effect[2]
        op == Operation[id]
    IN  IF effect[1] = "memory" THEN numbers
        ELSE IF IsOperation(id)
        THEN [numbers EXCEPT ![op.register] =
                 OnNumbers(op.operator, @, ValueOf(op.value), BitsPerByte * Register[op.register])]
        ELSE [numbers EXCEPT ![id] = ValueOf(effect[3])]

\* After the first n effects of an event, and after the first n events of a trace.
NumbersIn(event, numbers, n) ==
    LET after[i \in 0..Len(event)] ==
            IF i = 0 THEN numbers ELSE NumbersWith(after[i - 1], event[i])
    IN  after[n]
NumbersAfter(events, n) ==
    LET after[i \in 0..Len(events)] ==
            IF i = 0 THEN InitialNumbers
            ELSE NumbersIn(events[i], after[i - 1], Len(events[i]))
    IN  after[n]

\* trace_sections.h:50: "register = register operation value".  Whatever the
\* width, and whatever writes and operations came before in this event or in
\* others, a register holds the number that arithmetic on whole registers
\* gives: carries reach the last byte and no further.
RegistersAsNumbers ==
    LET event == trace[current_event_id + 1]
        numbers == IF mode = "in"
                   THEN NumbersIn(event, NumbersAfter(trace, current_event_id),
                                  Len(event) - Len(pending))
                   ELSE NumbersAfter(trace, current_event_id)
    IN  mode # "error" =>
            \A id \in DOMAIN Register : ValueOf(context[id]) = numbers[id]

Written(event) ==
    {Destination(event[i][2]) : i \in {j \in DOMAIN event : event[j][1] = "register"}}

\* Each event has its line, numbered from 0, that shows every register the event
\* wrote, by itself or by operations and however often, once, with its content
\* after the event, and no register that it did not write.
LinesTellRegisters ==
    \A n \in DOMAIN lines :
        LET line == lines[n]
            shown == {line.registers[i][1] : i \in DOMAIN line.registers}
        IN  /\ line.event = n - 1
            /\ shown = Written(trace[n])
            /\ Len(line.registers) = Cardinality(shown)
            /\ \A i \in DOMAIN line.registers :
                  ValueOf(line.registers[i][2]) = NumbersAfter(trace, n)[line.registers[i][1]]

BytesWritten(effect) ==
    IF effect[1] # "memory" THEN <<>>
    ELSE [i \in 1..effect[3] |-> (effect[2] + i - 1) % AddressMod]
MemoryWritten(event, n) ==
    LET upTo[i \in 0..Len(event)] ==
            IF i = 0 THEN <<>> ELSE upTo[i - 1] \o BytesWritten(event[i])
    IN  upTo[n]

\* trace_reader.h:97: a write larger than the user's buffer is handed over in
\* several calls "with an updated address".  A line tells each byte of the
\* event's memory writes at its address, in order, and nothing else.
LinesTellMemory ==
    \A n \in DOMAIN lines :
        lines[n].memory = MemoryWritten(trace[n], Len(trace[n]))

\* Whatever the trace contains, start_reading() returns or throws: no write
\* makes process_memory_write ask for buffers for ever.
ReadingEnds == <>(mode \in {"ended", "error"})

=============================================================================
