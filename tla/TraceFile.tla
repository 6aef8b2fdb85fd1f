------------------------------ MODULE TraceFile ------------------------------
(***************************************************************************)
(* A whole trace file, and the process that records it dying: TraceWriter   *)
(* (src/src/trace_writer.cpp) hands the stream from one section writer to   *)
(* the next, TraceReader's constructor (src/src/trace_reader.cpp) reads     *)
(* everything up to the events.  Each section is a size followed by its     *)
(* fields; the size is 0 until the section is finalized and only a prefix   *)
(* of its fields may have left the buffer, which is what SectionWriter      *)
(* shows of a section.                                                      *)
(*                                                                          *)
(* The header and the machine description are written and finalized by      *)
(* TraceWriter's constructor; they are left out here, and the machine they  *)
(* describe is known to both sides.                                         *)
(***************************************************************************)
EXTENDS Integers, Sequences, FiniteSets

CONSTANTS Machine,       \* machine descriptions: [memory, registers]
          MaxEvents,     \* bound: events recorded
          MaxRegisters   \* bound: registers written

\* Register ids are unsigned numbers.
ASSUME MachineAssumption ==
    \A m \in Machine :
        m.memory \in Nat /\ m.registers \subseteq Nat /\ IsFiniteSet(m.registers)
ASSUME BoundAssumption == MaxEvents \in Nat /\ MaxRegisters \in Nat

VARIABLES machine,
          file,          \* the finalized sections
          stage,         \* the section being written
          payload        \* the fields of that section

vars == <<machine, file, stage, payload>>

SizeField(n) == <<"size", n>>
MemoryField == <<"memory", 0>>
CountField(n) == <<"count", n>>
RegisterField(id) == <<"register", id>>
EventField == <<"event", 0>>

Init ==
    /\ machine \in Machine
    /\ file = <<>>
    /\ stage = "start"
    /\ payload = <<>>

\* SectionWriter::finalize: the size field and the fields.
Framed(fields) == <<SizeField(Len(fields))>> \o fields

\* std::logic_error when the section was started before.
StartInitialMemorySection ==
    /\ stage = "start"
    /\ stage' = "memory"
    /\ UNCHANGED <<machine, file, payload>>

\* Nothing keeps a caller from writing too much memory.
WriteInitialMemory ==
    /\ stage = "memory"
    /\ Len(payload) <= machine.memory
    /\ payload' = Append(payload, MemoryField)
    /\ UNCHANGED <<machine, file, stage>>

\* Finalizes the memory section; MissingData when its size is not that of the
\* machine's memory, and then the caller still has the section.
StartInitialRegistersSection ==
    /\ stage = "memory"
    /\ Len(payload) = machine.memory
    /\ file' = file \o Framed(payload)
    /\ stage' = "registers"
    /\ payload' = <<CountField(0)>>
    /\ UNCHANGED machine

\* Only the id and the size of the register are checked.
WriteInitialRegister(id) ==
    /\ stage = "registers"
    /\ Len(payload) <= MaxRegisters
    /\ payload' = Append(payload, RegisterField(id))
    /\ UNCHANGED <<machine, file, stage>>

\* Mutant: the count counts itself.
CountedWithCount(fields) == [fields EXCEPT ![1] = CountField(Len(fields))]

\* do_finalize patches the count field of a section.
Counted(fields) == [fields EXCEPT ![1] = CountField(Len(fields) - 1)]

StartEventsSection ==
    /\ stage = "registers"
    /\ file' = file \o Framed(Counted(payload))
    /\ stage' = "events"
    /\ payload' = <<CountField(0)>>
    /\ UNCHANGED machine

\* Mutant: each event is framed as a section of its own.
WriteEventFramed ==
    /\ stage = "events"
    /\ Len(payload) <= MaxEvents
    /\ payload' = payload \o Framed(<<EventField>>)
    /\ UNCHANGED <<machine, file, stage>>

WriteEvent ==
    /\ stage = "events"
    /\ Len(payload) <= MaxEvents
    /\ payload' = Append(payload, EventField)
    /\ UNCHANGED <<machine, file, stage>>

FinishEventsSection ==
    /\ stage = "events"
    /\ file' = file \o Framed(Counted(payload))
    /\ stage' = "done"
    /\ payload' = <<>>
    /\ UNCHANGED machine

Next ==
    \/ StartInitialMemorySection
    \/ WriteInitialMemory
    \/ StartInitialRegistersSection
    \/ \E id \in machine.registers : WriteInitialRegister(id)
    \/ StartEventsSection
    \/ WriteEvent
    \/ FinishEventsSection

Spec == Init /\ [][Next]_vars

-----------------------------------------------------------------------------
(* What the process can leave on the disk, and what a reader makes of it.   *)

\* The finalized sections, alone or followed by a section whose size is still
\* 0 and whose fields are there as far as they were flushed.
CrashImages ==
    {file} \union {file \o <<SizeField(0)>> \o SubSeq(payload, 1, k) :
                       k \in 0..Len(payload)}

\* A SectionReader constructed at a position: the size it reads there.  Any
\* other field than a size stands for bytes decoded as one.
HasSize(image, at) == at <= Len(image) /\ image[at][1] = "size"
SizeAt(image, at) == image[at][2]
Behind(image, at) == at + 1 + SizeAt(image, at)

\* The size of the memory section must be that of the machine's memory.
MemoryAccepted(image, at) ==
    /\ HasSize(image, at)
    /\ SizeAt(image, at) = machine.memory

\* Mutant: a register contained twice is not noticed.
RegistersAcceptedTwice(image, at) ==
    /\ HasSize(image, at)
    /\ SizeAt(image, at) > 0
    /\ LET count == image[at + 1][2]
       IN  /\ count < SizeAt(image, at)
           /\ at + 1 + count <= Len(image)
           /\ count = Cardinality(machine.registers)

\* read_initial_cpu_context: a count inside the section, that many registers,
\* none twice, and all there are.
RegistersAccepted(image, at) ==
    /\ HasSize(image, at)
    /\ SizeAt(image, at) > 0
    /\ LET count == image[at + 1][2]
           ids == [i \in 1..count |-> image[at + 1 + i][2]]
       IN  /\ count < SizeAt(image, at)
           /\ at + 1 + count <= Len(image)
           /\ \A i, j \in 1..count : i # j => ids[i] # ids[j]
           /\ {ids[i] : i \in 1..count} \subseteq machine.registers
           /\ count = Cardinality(machine.registers)

\* Mutant: an events section of size 0 is not refused.
EventsAcceptedEmpty(image, at) ==
    /\ HasSize(image, at)
    /\ at + 1 <= Len(image)

\* The events section cannot be of size 0; its count is read.
EventsAccepted(image, at) ==
    /\ HasSize(image, at)
    /\ SizeAt(image, at) > 0
    /\ at + 1 <= Len(image)

Opens(image) ==
    /\ MemoryAccepted(image, 1)
    /\ RegistersAccepted(image, Behind(image, 1))
    /\ EventsAccepted(image, Behind(image, Behind(image, 1)))

EventCount(image) == image[Behind(image, Behind(image, 1)) + 1][2]

-----------------------------------------------------------------------------
TypeOK ==
    /\ machine \in Machine
    /\ stage \in {"start", "memory", "registers", "events", "done"}
    /\ file \in Seq({"size", "memory", "count", "register", "event"} \X Nat)
    /\ payload \in Seq({"memory", "count", "register", "event"} \X Nat)

\* A trace whose recording died at any point, however much of the current
\* section had left the buffer, is refused by TraceReader's constructor: only
\* a trace that was finished opens.  A machine without memory is no exception.
NoHalfTraceOpens == \A image \in CrashImages : Opens(image) => stage = "done"

InitialRegisters ==
    {i \in 1..Len(file) : file[i][1] = "register"}

\* trace-format.md:76: "All registers defined in machine description must be
\* initialized."
AllRegistersInitialized ==
    stage \in {"events", "done"} =>
        machine.registers \subseteq {file[i][2] : i \in InitialRegisters}

\* A finished trace whose recorder wrote each register once opens, and has the
\* event count that was recorded.
FinishedTraceOpens ==
    stage = "done"
    /\ machine.registers = {file[i][2] : i \in InitialRegisters}
    /\ Cardinality(InitialRegisters) = Cardinality(machine.registers) =>
        /\ Opens(file)
        /\ EventCount(file) = Cardinality({i \in 1..Len(file) : file[i] = EventField})

\* A finished trace opens only if every register has exactly one initial
\* value: what the writer lets pass, the reader does not.
OpenedTraceInitialized ==
    \A image \in CrashImages :
        Opens(image) =>
            /\ machine.registers = {file[i][2] : i \in InitialRegisters}
            /\ Cardinality(InitialRegisters) = Cardinality(machine.registers)

=============================================================================
