------------------------- MODULE EventsSectionWriter -------------------------
(***************************************************************************)
(* EventsSectionWriter (src/src/trace_section_writers.cpp): writes the      *)
(* events section.  An event is a head (one byte, or three fields for an    *)
(* event of type other) and one or more blocks; a block is a diff byte with *)
(* two 4-bit counts, then as many memory writes, then as many register      *)
(* writes.  The diff byte is written as 0 and patched when its block is     *)
(* closed; a count of 0xf means 0xe and that the event continues in another *)
(* block.  The diff byte 0xff is taken: it begins an event of type other.   *)
(*                                                                          *)
(* The section is a sequence of fields, one for each value the code writes, *)
(* and positions count fields.  What Section promises of its bytes (they    *)
(* are appended and patched in place) is used here of fields.               *)
(*                                                                          *)
(* A call that throws before it changed anything is a stuttering step.  The *)
(* calls that throw after they changed something are modelled: they set     *)
(* `spoilt'.                                                                *)
(***************************************************************************)
EXTENDS Integers, Sequences, FiniteSets

CONSTANTS Full,          \* the largest 4-bit count: 0xf in the code
          Escape,        \* the largest byte: 0xff in the code
          PhyMax,        \* largest number of physical_address_size bytes
          Register,      \* ids of the machine's registers
          Operation,     \* ids of its register operations
          MemoryWrite,   \* <<address, size>> given to write_memory
          ActionId,      \* ids given to write_register_action
          Description,   \* lengths of descriptions of other events
          MaxEvents,     \* bound: events started
          MaxFields      \* bound: length of the section when a call is made

ASSUME WidthAssumption == Full \in Nat /\ Full >= 2 /\ Escape \in Nat /\ PhyMax \in Nat
\* Both sides check these when they write and read the machine description.
ASSUME IdAssumption ==
    /\ Register \subseteq Nat
    /\ Operation \subseteq 0..(Escape - 1)
    /\ Register \intersect Operation = {}
ASSUME InputAssumption ==
    /\ MemoryWrite \subseteq Nat \X Nat
    /\ ActionId \subseteq Nat
    /\ Description \subseteq Nat
ASSUME BoundAssumption == MaxEvents \in Nat /\ MaxFields \in Nat

VARIABLES events,                        \* the fields of the section
          event_count,
          diff_element_count_stream_pos, \* of the open block's diff, or NoBlock
          current_diff_mem_count,
          current_diff_reg_count,
          finalized,
          log,                           \* history: the finished events
          current,                       \* history: the open event so far
          starts,                        \* history: stream_pos() between events
          spoilt                         \* history: a call threw half-way

block == <<diff_element_count_stream_pos, current_diff_mem_count, current_diff_reg_count>>
history == <<log, current, starts, spoilt>>
writerVars == <<events, event_count, block, finalized, history>>

NoBlock == -1
IsEventStarted == diff_element_count_stream_pos # NoBlock

\* Fields.
Count(n) == <<"count", n, 0>>
Diff(mem, reg) == <<"diff", mem, reg>>
NotInstruction == Diff(Full, Full)
OtherType == <<"type", Escape, 0>>
Text(length) == <<"string", length, 0>>
Address(address) == <<"address", address, 0>>
Size(size) == <<"size", size, 0>>
WideSize(size) == <<"wide size", size, 0>>
Bytes(size) == <<"bytes", size, 0>>
Id(id) == <<"id", id, 0>>
WideId(id) == <<"wide id", id, 0>>
Content(id) == <<"content", id, 0>>

\* What a reader should be told of an event and its effects.  A memory write
\* of no bytes has no effect.
Instruction == <<"instruction", 0, 0>>
Other(length) == <<"other", length, 0>>
MemoryEffect(address, size) ==
    IF size = 0 THEN <<>> ELSE << <<"memory", address, size>> >>
RegisterEffect(id) == << <<"register", id, 0>> >>
OperationEffect(id) == << <<"operation", id, 0>> >>

InitWriter ==
    /\ events = <<Count(0)>>
    /\ event_count = 0
    /\ diff_element_count_stream_pos = NoBlock
    /\ current_diff_mem_count = 0
    /\ current_diff_reg_count = 0
    /\ finalized = FALSE
    /\ log = <<>>
    /\ current = <<>>
    /\ starts = <<1>>
    /\ spoilt = FALSE

CanStart == ~finalized /\ ~IsEventStarted /\ event_count < MaxEvents
CanAdd == ~finalized /\ IsEventStarted /\ Len(events) <= MaxFields

\* A block is begun by a diff that counts nothing yet.
OpenBlock(head) ==
    /\ events' = events \o head \o <<Diff(0, 0)>>
    /\ diff_element_count_stream_pos' = Len(events) + Len(head)
    /\ current_diff_mem_count' = 0
    /\ current_diff_reg_count' = 0

StartEventInstruction ==
    /\ CanStart
    /\ OpenBlock(<<>>)
    /\ current' = <<Instruction>>
    /\ UNCHANGED <<event_count, finalized, log, starts, spoilt>>

StartEventOther(length) ==
    /\ CanStart
    /\ length <= Escape
    /\ OpenBlock(<<NotInstruction, OtherType, Text(length)>>)
    /\ current' = <<Other(length)>>
    /\ UNCHANGED <<event_count, finalized, log, starts, spoilt>>

\* write_string throws ValueTooBig on a long description, behind the two bytes
\* that announce it; no event is started.
StartEventOtherTooLong(length) ==
    /\ CanStart
    /\ length > Escape
    /\ Len(events) <= MaxFields
    /\ events' = events \o <<NotInstruction, OtherType>>
    /\ spoilt' = TRUE
    /\ UNCHANGED <<event_count, block, finalized, log, current, starts>>

\* write_event_diff_size: the counts of the open block, patched into its diff.
WithDiff(mem, reg) ==
    [events EXCEPT ![diff_element_count_stream_pos + 1] = Diff(mem, reg)]

\* The block after one more memory write, or one more register write, was
\* counted: the open one, or a new one when its count reaches 0xf
\* (continue_on_next_event).
Continued(mem, reg, mem_count, reg_count) ==
    [fields |-> Append(WithDiff(mem, reg), Diff(0, 0)), pos |-> Len(events),
     mem |-> mem_count, reg |-> reg_count]

\* Mutant: the element that did not fit is not counted in the new block.
OneMoreMemoryUncounted ==
    IF current_diff_mem_count + 1 = Full
    THEN Continued(Full, current_diff_reg_count, 0, 0)
    ELSE [fields |-> events, pos |-> diff_element_count_stream_pos,
          mem |-> current_diff_mem_count + 1, reg |-> current_diff_reg_count]

OneMoreMemory ==
    IF current_diff_mem_count + 1 = Full
    THEN Continued(Full, current_diff_reg_count, 1, 0)
    ELSE [fields |-> events, pos |-> diff_element_count_stream_pos,
          mem |-> current_diff_mem_count + 1, reg |-> current_diff_reg_count]

\* Mutant: the event continues one register too late.
OneMoreRegisterLate ==
    IF current_diff_reg_count = Full
    THEN Continued(current_diff_mem_count, Full, 0, 1)
    ELSE [fields |-> events, pos |-> diff_element_count_stream_pos,
          mem |-> current_diff_mem_count, reg |-> current_diff_reg_count + 1]

OneMoreRegister ==
    IF current_diff_reg_count + 1 = Full
    THEN Continued(current_diff_mem_count, Full, 0, 1)
    ELSE [fields |-> events, pos |-> diff_element_count_stream_pos,
          mem |-> current_diff_mem_count, reg |-> current_diff_reg_count + 1]

\* The call counts, then writes its fields; what it managed to write before a
\* ValueTooBig stays, and so does the count.
WriteFields(counted, fields, complete, effect) ==
    /\ events' = counted.fields \o fields
    /\ diff_element_count_stream_pos' = counted.pos
    /\ current_diff_mem_count' = counted.mem
    /\ current_diff_reg_count' = counted.reg
    /\ current' = IF complete THEN current \o effect ELSE current
    /\ spoilt' = (spoilt \/ ~complete)
    /\ UNCHANGED <<event_count, finalized, log, starts>>

AddressFits(address) == address <= PhyMax
SizeFits(size) == size < Escape \/ size <= PhyMax

\* The address must fit in physical_address_size bytes, and so must a size
\* that does not fit in a byte.
MemoryFields(address, size) ==
    CASE ~AddressFits(address) -> <<>>
      [] AddressFits(address) /\ size < Escape ->
            <<Address(address), Size(size), Bytes(size)>>
      [] AddressFits(address) /\ size >= Escape /\ SizeFits(size) ->
            <<Address(address), Size(Escape), WideSize(size), Bytes(size)>>
      [] AddressFits(address) /\ ~SizeFits(size) ->
            <<Address(address), Size(Escape)>>

WriteMemory(address, size) ==
    /\ CanAdd
    /\ current_diff_reg_count = 0
    /\ WriteFields(OneMoreMemory, MemoryFields(address, size),
                   AddressFits(address) /\ SizeFits(size),
                   MemoryEffect(address, size))

\* Mutant: the id 0xff is written in one byte.
RegisterFieldsLateEscape(id) ==
    IF id <= Escape THEN <<Id(id), Content(id)>>
    ELSE <<Id(Escape), WideId(id), Content(id)>>

RegisterFields(id) ==
    IF id < Escape THEN <<Id(id), Content(id)>>
    ELSE <<Id(Escape), WideId(id), Content(id)>>

WriteRegister(id) ==
    /\ CanAdd
    /\ WriteFields(OneMoreRegister, RegisterFields(id), TRUE, RegisterEffect(id))

\* The lookup converts the id to the byte keys of register_operations; the id
\* itself is written as a byte, and refused when it does not fit.
WriteRegisterAction(id) ==
    /\ CanAdd
    /\ id % (Escape + 1) \in Operation
    /\ WriteFields(OneMoreRegister, IF id <= Escape THEN <<Id(id)>> ELSE <<>>,
                   id <= Escape, OperationEffect(id))

FinishEvent ==
    /\ ~finalized /\ IsEventStarted
    /\ ~(current_diff_mem_count = Full /\ current_diff_reg_count = Full)
    /\ events' = WithDiff(current_diff_mem_count, current_diff_reg_count)
    /\ event_count' = event_count + 1
    /\ diff_element_count_stream_pos' = NoBlock
    /\ log' = Append(log, current)
    /\ current' = <<>>
    /\ starts' = Append(starts, Len(events))
    /\ UNCHANGED <<current_diff_mem_count, current_diff_reg_count, finalized, spoilt>>

\* do_finalize patches the event count, whether or not an event is open.
DoFinalize ==
    /\ ~finalized
    /\ events' = [events EXCEPT ![1] = Count(event_count)]
    /\ finalized' = TRUE
    /\ UNCHANGED <<event_count, block, history>>

NextWriter ==
    \/ StartEventInstruction
    \/ \E length \in Description :
          StartEventOther(length) \/ StartEventOtherTooLong(length)
    \/ \E write \in MemoryWrite : WriteMemory(write[1], write[2])
    \/ \E id \in Register : WriteRegister(id)
    \/ \E id \in ActionId : WriteRegisterAction(id)
    \/ FinishEvent
    \/ DoFinalize

-----------------------------------------------------------------------------
TypeOKWriter ==
    /\ events \in Seq({"count", "diff", "type", "string", "address", "size",
                       "wide size", "bytes", "id", "wide id", "content"} \X Nat \X Nat)
    /\ event_count \in Nat
    /\ diff_element_count_stream_pos \in Nat \union {NoBlock}
    /\ current_diff_mem_count \in 0..Full
    /\ current_diff_reg_count \in 0..Full
    /\ finalized \in BOOLEAN
    /\ spoilt \in BOOLEAN
    /\ Len(starts) = Len(log) + 1

\* The fields a block consists of, its diff excluded: up to the next diff.
IsDiff(i) == events[i][1] = "diff"
BlockOf(i) ==
    {j \in (i + 1)..Len(events) : \A k \in (i + 1)..j : ~IsDiff(k)}
Blocks ==
    {i \in 1..Len(events) : IsDiff(i) /\ events[i] # NotInstruction}
InBlock(i, kind) == {j \in BlockOf(i) : events[j][1] = kind}

\* Mutant: 0xf is taken for fifteen elements.
AnnouncedLiterally(count) == count

\* A diff announces Full - 1 elements and a continuation by Full.
Announced(count) == IF count = Full THEN Full - 1 ELSE count
OpenDiff == diff_element_count_stream_pos + 1

BlockCounted(i, mem, reg) ==
    /\ Cardinality(InBlock(i, "address")) = mem
    /\ Cardinality(InBlock(i, "id")) = reg
    /\ \A j \in InBlock(i, "address"), k \in InBlock(i, "id") : j < k

\* trace-format.md:103-114: the diff of a closed block counts the memory and
\* the register writes that follow it, memory first.
ClosedDiffsCount ==
    \A i \in Blocks \ {OpenDiff} :
        BlockCounted(i, Announced(events[i][2]), Announced(events[i][3]))

\* The block being written is counted by the object instead.
OpenDiffCounts ==
    IsEventStarted =>
        BlockCounted(OpenDiff, current_diff_mem_count, current_diff_reg_count)

\* Both hold as long as no call has thrown half-way: also with a continuation
\* in any place, and of the event that is open when the section is finalized.
FramingTruthful == ~spoilt => ClosedDiffsCount /\ OpenDiffCounts

\* A diff byte is never 0xff, which trace-format.md:106 reserves: only the
\* head of an event of type other is, and the open counts never both reach
\* 0xf, so write_event_diff_size() never throws, even after refused calls.
NeverBothFull ==
    /\ \A i \in 1..Len(events) :
          events[i] = NotInstruction => i < Len(events) /\ events[i + 1] = OtherType
    /\ IsEventStarted => /\ current_diff_mem_count < Full
                         /\ current_diff_reg_count < Full
                         /\ OpenDiff \in 1..Len(events)
                         /\ events[OpenDiff] = Diff(0, 0)

=============================================================================
