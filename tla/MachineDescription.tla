------------------------- MODULE MachineDescription -------------------------
(***************************************************************************)
(* The machine description section from both ends:                          *)
(* write_trace_machine_description checks and writes a description element  *)
(* by element, read_trace_machine_description reads and checks what it      *)
(* finds, be it written by this library or not.                             *)
(*                                                                          *)
(* The section is a sequence of elements, one per memory region, register,  *)
(* register operation and static register.  The counts in front of each     *)
(* group are those of the containers and are left out.  A value is          *)
(* represented by its length.                                               *)
(***************************************************************************)
EXTENDS Integers, Sequences, FiniteSets, SequencesExt

CONSTANTS Description,            \* the descriptions a recorder may give
          ForeignSection,         \* sections written by something else
          LongName,               \* names longer than a byte counts
          ByteMod,                \* 256 in the code
          PhyMax,                 \* 8 in the code
          RegisterOperatorMax     \* 4 in the code

ASSUME WidthAssumption ==
    ByteMod \in Nat \ {0} /\ PhyMax \in Nat /\ RegisterOperatorMax \in 0..ByteMod

\* The types of the members of MachineDescription.
ASSUME DescriptionAssumption ==
    \A d \in Description :
        /\ d = [architecture |-> d.architecture,
                physical_address_size |-> d.physical_address_size,
                memory_regions |-> d.memory_regions, registers |-> d.registers,
                register_operations |-> d.register_operations,
                static_registers |-> d.static_registers]
        /\ d.memory_regions \in Seq([start : Nat, size : Nat])
        /\ IsFiniteSet(DOMAIN d.registers) /\ DOMAIN d.registers \subseteq Nat
        /\ d.registers \in [DOMAIN d.registers -> [size : Nat, name : STRING]]
        /\ IsFiniteSet(DOMAIN d.register_operations) /\ DOMAIN d.register_operations \subseteq Nat
        /\ d.register_operations \in [DOMAIN d.register_operations ->
                                         [register_id : Nat, operation : Nat, size : Nat]]
        /\ IsFiniteSet(DOMAIN d.static_registers)
        /\ d.static_registers \in [DOMAIN d.static_registers -> Nat]

Archi == {"x64_1", "arm64_1"}
Escape == ByteMod - 1             \* 0xff

\* Whatever the bytes of a section are, they are taken for these elements in
\* this order; the id of an operation is a byte.
IsSection(s) ==
    /\ s \in Seq({s[i] : i \in DOMAIN s}) /\ Len(s) > 1
    /\ s[1][1] = "architecture" /\ s[2][1] = "size"
    /\ \A i \in DOMAIN s : s[i][1] = "operation" =>
          /\ s[i][2] \in 0..Escape
          /\ \A j \in DOMAIN s : s[j][1] = "register" => j < i
ASSUME ForeignAssumption == \A s \in ForeignSection : IsSection(s)

VARIABLES data,        \* the MachineDescription given to the writer
          to_write,    \* its elements that are not written yet
          elements,    \* the section
          writer,      \* "writing", "done", "refused" or "foreign"
          to_read,     \* the elements the reader has not read
          result,      \* the MachineDescription being read
          reader       \* "closed", "reading", "done", "malformed", "misread"

writerVars == <<data, to_write, elements, writer>>
readerVars == <<to_read, result, reader>>
vars == <<writerVars, readerVars>>

Blank == [architecture |-> "none", physical_address_size |-> 0, memory_regions |-> <<>>,
          registers |-> <<>>, register_operations |-> <<>>, static_registers |-> <<>>]

\* A std::map is iterated by ascending keys; the order of names is left open.
Ascending(keys) ==
    CHOOSE s \in [1..Cardinality(keys) -> keys] :
        \A i, j \in 1..Cardinality(keys) : i < j => s[i] < s[j]

\* The elements in the order they are written.
Group(kind, keys, map) == [i \in DOMAIN keys |-> <<kind, keys[i], map[keys[i]]>>]
Elements(d) ==
    <<<<"architecture", 0, d.architecture>>, <<"size", 0, d.physical_address_size>>>>
    \o Group("region", [i \in DOMAIN d.memory_regions |-> i], d.memory_regions)
    \o Group("register", Ascending(DOMAIN d.registers), d.registers)
    \o Group("operation", Ascending(DOMAIN d.register_operations), d.register_operations)
    \o Group("static", SetToSeq(DOMAIN d.static_registers), d.static_registers)

Init ==
    /\ \/ /\ data \in Description
          /\ to_write = Elements(data)
          /\ elements = <<>>
          /\ writer = "writing"
       \/ /\ data = Blank
          /\ to_write = <<>>
          /\ elements \in ForeignSection
          /\ writer = "foreign"
    /\ to_read = <<>>
    /\ result = Blank
    /\ reader = "closed"

-----------------------------------------------------------------------------
(* The writer *)

\* SectionWriter::write(value, max)
Fits(n, size) == n < ByteMod^size

\* Mutant: the size of the value is not compared with that of the register.
OperationAcceptedAnySize(id, operation) ==
    /\ id < Escape
    /\ id \notin DOMAIN data.registers
    /\ operation.register_id \in DOMAIN data.registers

OperationAccepted(id, operation) ==
    /\ id < Escape
    /\ id \notin DOMAIN data.registers
    /\ operation.register_id \in DOMAIN data.registers
    /\ operation.size = data.registers[operation.register_id].size

Accepted(kind, key, value) ==
    CASE kind = "architecture" -> TRUE
      [] kind = "size" -> value \in 1..PhyMax
      [] kind = "region" -> /\ Fits(value.start, data.physical_address_size)
                            /\ Fits(value.size, data.physical_address_size)
      [] kind = "register" -> value.name \notin LongName
      [] kind = "operation" -> OperationAccepted(key, value)
      [] kind = "static" -> key \notin LongName /\ value < ByteMod

\* An unknown architecture has the magic 0; the operator is cast to a byte.
Written(kind, key, value) ==
    CASE kind = "architecture" /\ value \notin Archi -> <<kind, key, "magic 0">>
      [] kind = "operation" -> <<kind, key, [value EXCEPT !.operation = @ % ByteMod]>>
      [] OTHER -> <<kind, key, value>>

WriteElement ==
    /\ writer = "writing" /\ to_write # <<>>
    /\ LET e == Head(to_write)
       IN  /\ Accepted(e[1], e[2], e[3])
           /\ elements' = Append(elements, Written(e[1], e[2], e[3]))
    /\ to_write' = Tail(to_write)
    /\ UNCHANGED <<data, writer, readerVars>>

\* NonsenseValue or ValueTooBig: the section is left without a size.
Refuse ==
    /\ writer = "writing" /\ to_write # <<>>
    /\ LET e == Head(to_write) IN ~Accepted(e[1], e[2], e[3])
    /\ writer' = "refused"
    /\ UNCHANGED <<data, to_write, elements, readerVars>>

Finalize ==
    /\ writer = "writing" /\ to_write = <<>>
    /\ writer' = "done"
    /\ UNCHANGED <<data, to_write, elements, readerVars>>

-----------------------------------------------------------------------------
(* The reader *)

\* A section without a size is one of size 0: the first read throws.
Open ==
    /\ reader = "closed" /\ writer # "writing"
    /\ IF writer = "refused"
       THEN reader' = "malformed" /\ to_read' = <<>>
       ELSE reader' = "reading" /\ to_read' = elements
    /\ UNCHANGED <<writerVars, result>>

Reads(kind) == reader = "reading" /\ to_read # <<>> /\ Head(to_read)[1] = kind
Key == Head(to_read)[2]
Read == Head(to_read)[3]

\* std::map::emplace of a new key.
With(map, key, value) == [k \in DOMAIN map \union {key} |-> IF k = key THEN value ELSE map[k]]

\* The element is taken into the result, or refused with an exception.
Take(ok, taken) ==
    /\ result' = IF ok THEN taken ELSE result
    /\ reader' = IF ok THEN reader ELSE "malformed"
    /\ to_read' = Tail(to_read)
    /\ UNCHANGED writerVars

ReadArchitecture ==
    /\ Reads("architecture")
    /\ Take(Read \in Archi, [result EXCEPT !.architecture = Read])

ReadPhysicalAddressSize ==
    /\ Reads("size")
    /\ Take(Read \in 1..PhyMax, [result EXCEPT !.physical_address_size = Read])

ReadRegion ==
    /\ Reads("region")
    /\ Take(TRUE, [result EXCEPT !.memory_regions = Append(@, Read)])

ReadRegister ==
    /\ Reads("register")
    /\ Take(/\ Key \notin DOMAIN result.registers
            /\ \A id \in DOMAIN result.registers : result.registers[id].name # Read.name,
            [result EXCEPT !.registers = With(@, Key, Read)])

\* Mutant: ids are compared with those of operations only.
OperationUsableOverlap(id, operation) ==
    /\ id \notin DOMAIN result.register_operations
    /\ id # Escape
    /\ operation.register_id \in DOMAIN result.registers
    /\ operation.operation < RegisterOperatorMax

OperationUsable(id, operation) ==
    /\ id \notin DOMAIN result.register_operations
    /\ id \notin DOMAIN result.registers
    /\ id # Escape
    /\ operation.register_id \in DOMAIN result.registers
    /\ operation.operation < RegisterOperatorMax

\* As many bytes are read as the register has; with another number written,
\* everything behind is taken for what it is not.
ReadOperation ==
    /\ Reads("operation")
    /\ IF OperationUsable(Key, Read) /\ Read.size # result.registers[Read.register_id].size
       THEN reader' = "misread" /\ UNCHANGED <<writerVars, to_read, result>>
       ELSE Take(OperationUsable(Key, Read),
                 [result EXCEPT !.register_operations = With(@, Key, Read)])

ReadStatic ==
    /\ Reads("static")
    /\ Take(Key \notin DOMAIN result.static_registers,
            [result EXCEPT !.static_registers = With(@, Key, Read)])

SeekToEnd ==
    /\ reader = "reading" /\ to_read = <<>>
    /\ reader' = "done"
    /\ UNCHANGED <<writerVars, to_read, result>>

Next ==
    \/ WriteElement \/ Refuse \/ Finalize
    \/ Open
    \/ ReadArchitecture \/ ReadPhysicalAddressSize \/ ReadRegion \/ ReadRegister
    \/ ReadOperation \/ ReadStatic
    \/ SeekToEnd

Spec == Init /\ [][Next]_vars

-----------------------------------------------------------------------------
NamesDistinct(d) ==
    \A i, j \in DOMAIN d.registers :
        d.registers[i].name = d.registers[j].name => i = j
OperatorsKnown(d) ==
    \A id \in DOMAIN d.register_operations :
        d.register_operations[id].operation < RegisterOperatorMax

\* What the rest of the library takes for granted of a description: an id is a
\* register or an operation, never the escape 0xff of the events section if an
\* operation; an operation has a register and as many bytes; addresses have 1
\* to 8 bytes.
Usable(d) ==
    /\ d.physical_address_size \in 1..PhyMax
    /\ DOMAIN d.register_operations \intersect DOMAIN d.registers = {}
    /\ \A id \in DOMAIN d.register_operations :
          LET operation == d.register_operations[id]
          IN  /\ id \in 0..(Escape - 1)
              /\ operation.register_id \in DOMAIN d.registers
              /\ operation.size = d.registers[operation.register_id].size

\* A description the writer accepts comes back as it was given, element for
\* element, or not at all.  The writer lets a name used twice, an operator and
\* an architecture that do not exist pass (trace_section_writers.cpp:33-41,
\* 53-57, 75).  The reader may refuse these only, and with such a name or
\* architecture it never returns a description.  None is misread.
DescriptionRoundTrips ==
    writer = "done" =>
        /\ reader # "misread"
        /\ NamesDistinct(data) /\ OperatorsKnown(data) /\ data.architecture \in Archi =>
              reader # "malformed"
        /\ reader = "done" =>
              /\ NamesDistinct(data) /\ data.architecture \in Archi
              /\ OperatorsKnown(data) => result = data

\* Whatever section is read, and whatever was given to the writer: a
\* description that either of them returns is one EventsSectionWriter and
\* process_register_write can work with, and the reader's names each register
\* once and knows every operator.  A refused one does not open.
UsableOrRefused ==
    /\ writer = "done" => Usable(data)
    /\ reader = "done" =>
          /\ writer # "refused"
          /\ Usable(result) /\ NamesDistinct(result) /\ OperatorsKnown(result)

=============================================================================
