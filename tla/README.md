# Formal models of rvnbintrace

rvnbintrace is a C++ library that records an execution trace of a machine in a
binary file, and reads it back event by event. A second file, the cache, holds
snapshots (cache points) from which a reader can start in the middle of a trace.
These modules model the library's writers and readers in TLA+: TLC checks small
instances; TLAPS proves, for all of them, every invariant the passing runs check, an action
property and two refinements. Seven of the theorems have a hypothesis besides the named
assumptions: the six of `SectionReader_proofs` that the stream is a file (`SeekPastEnd`),
`PagesHeld` that no page ends at or behind the end of the address space. Liveness is left
to TLC.

All paths below are relative to the repository.

## The system

Everything goes through *sections*: a size field (64 bits) and that many bytes.
A trace is header, machine description, initial memory, initial registers,
events; a cache is header, machine description, cache points, index.

| component | state it keeps | operations | depends on |
|---|---|---|---|
| Section writer `src/src/section_writer.cpp` | byte counters, a 4 MiB buffer, the stream's put position | construct, `write_buffer`, `write_buffer_back_at`, `finalize` | the stream of `binresource::Writer` |
| Section reader `src/src/section_reader.cpp` | declared size, start position, bytes left, a 16 KiB buffer and its read position | construct, `read`, `seek`, `seek_to_end` | a `std::istream` shared by all sections of a file |
| Events section writer `src/src/trace_section_writers.cpp` | event count, position of the open diff byte, its two counts | start (two kinds), `write_memory`, `write_register`, `write_register_action`, `finish_event`, finalize | section writer |
| Event reading `src/src/trace_reader.cpp` | current event id, the events section's reader | `read_next_event`, `seek`; calls back into the user for every effect | section reader, machine description |
| Trace writer / opening of a trace `src/src/trace_writer.cpp`, `trace_reader.cpp` | the stream, handed from section to section | one start function per section | all section writers and readers |
| Initial memory and registers writers | sizes, a register count | `write`, finalize | section writer |
| Machine description writer and reader | none after the call | one write, one read | section writer and reader |
| Cache writer `src/src/cache_section_writers.cpp`, `cache_writer.cpp` | an index in memory, the open point, its register count | `start_cache_point`, `write_register`, `write_memory_page`, `finish_cache_point`, finalize, `write_cache_index` | section writer |
| Cache reader `src/src/cache_reader.cpp` | the index, a cache points reader | `find_closest`, `read_cache_point` | section reader |
| Register operations `trace_reader.cpp:176-289` | none | SET, ADD, AND, OR on multi-byte registers | - |
| Command line reader `src/bin/cli_trace_reader` | last register values, registers to show | callbacks, `start_reading` | trace reader |

How they interact: calls only. There is one thread per object. The interleavings
that matter are those of legal *call sequences* (a patch between two flushes, a
seek between two reads, a caller that catches an exception and goes on), of the
two *ends* of a file (what the writer leaves and what the reader takes it for), of
*failures* (a device that is full after any byte, a file cut off anywhere) and of a
*crash* between two stream operations. The stream is shared by the section readers
of a file, and callbacks run in the middle of `read_next_event`.

What makes each component correct:

- Section writer: the file and the buffer together are what was written and
  patched; nothing outside the section is touched; a section whose writing was cut
  off shows size 0; a failure is never followed by a sealed section.
- Section reader: bytes come from the position asked for; the shared stream is not
  moved past the section; a truncated file is reported exactly where it ends.
- Events: every diff byte counts what follows it, whatever was continued or
  refused; 0xff never appears as a count; what is read is what was recorded, in
  order, from every position between two events.
- Trace: an unfinished trace does not open, a finished one does.
- Cache: a returned snapshot is complete and of the right context; pages lie where
  the index says.
- Random access: replay from the closest cache point gives the state that reading
  from the beginning gives.
- Machine description: what was written is read back; what is read, whoever wrote
  it, is what the event writer and reader can work with.
- Register operations: a register of any width behaves as one unsigned number.
- Command line reader: every effect of every event is shown once, and it ends.

The hazards are listed with their lines in `PROJECT.json`, each with the properties
that would catch it, or with the reason none does yet.

## Modules

| module | role |
|---|---|
| `ByteStream` | external: the output stream (write that may fail after a prefix, relative seek) and overwriting a sequence |
| `Section` | abstract: bytes that are appended, patched, sealed once, or lost to a failure |
| `SectionWriter` | `SectionWriter`, shown to implement `Section` |
| `SectionReader` | `SectionReader` over whole and truncated files |
| `EventLog` | abstract: a log of events and a cursor in it |
| `EventsSectionWriter` | the writer of the events section |
| `EventTrace` | composes it with `TraceReader::read_next_event` and `seek`; shown to implement `EventLog` |
| `CacheFile` | cache points writer, index, and `CacheReader::read_cache_point` |
| `TraceFile` | order of the sections, crash images and the checks of `TraceReader`'s constructor |
| `RegisterOps` | SET, ADD, AND and OR on registers as bytes |
| `TracePrinter` | the command line reader with `process_register_write` and `process_memory_write` |
| `RandomAccess` | composes `CacheFile` with `find_closest`, `seek`, a recorder and a replayer |
| `MachineDescription` | writer and reader of the machine description |
| `SectionWriter_proofs` | lemmas about streams, its invariants, and that it implements `Section` |
| `SectionReader_proofs` | its invariants over file streams |
| `EventTrace_proofs` | the writer's half: heads of events, and diffs that count truthfully |
| `EventReading_proofs` | the reader's half, and that both together implement `EventLog` |
| `TraceFile_proofs` | which files open |
| `RandomAccess_proofs` | where points, registers and pages of a cache lie, what the reader makes of them, and that replay from a cache point is exact |
| `TracePrinter_proofs` | that operations on bytes are arithmetic, and that the lines tell the events |
| `MachineDescription_proofs` | that descriptions are read back, and that what is read is usable |
| `MC*` | the values of the constants for TLC |

Operators called "Mutant" in the modules are defined next to what they vary and are
used by no specification; each is a plausible bug that one property must catch.

### SectionWriter

Variables have the names of the data members without the trailing underscore.
`stream` is the record of `ByteStream`; `before` is a history variable, the
file when the section was begun; `pc` tells how far `finalize()` got. One
action is one call, except `finalize()`, which is three steps (flush, size field,
return) because a crash between them leaves different files: every state's
`stream.file` is a possible crash image. A crash needs no action of its own.

`write_buffer` has three disjuncts (the chunk fits; it fits after a flush; it goes
to the stream directly) and `write_buffer_back_at` two (in the file, in the
buffer). Every write of the stream may fail after any prefix; the failure is
sticky. A buffered write and a buffered patch do not look at the stream, as in
the code. `finalize()` checks once, at its end.

Positions in the file are reached only by seeks relative to the put position, so
the properties are about the counters staying in step with it: `Positioned`,
`EarlierBytesIntact`, `UnsizedUntilFinalize`, `SealedFrame`. `TypeOK` says of
`stream_buffer` that no `memcpy` leaves it. `SealedFrame` also says that `finalize()`
returns for no section of which a write failed, whenever that was; the refinement
takes a section for sealed if `finalize()` returned, not if its stream is good, so that
one that has failed and is sealed all the same would not be a run of `Section`. The refinement `ImplementsSection` says
that file and buffer together are the bytes the caller appended and patched.

The stream is modelled by what a process hands to it. A file stream has a buffer of
its own, but `seekp` flushes it, so the size field never reaches the file before
the payload in front of that seek. `finalize()` does not flush the stream after its
last seek back (which, being a seek, writes the size field out); nothing later is
pending, so a device that is full is seen by the status check at the end.
Ordering of disk writes below the operating system (power loss) is not modelled.

### SectionReader

One iteration of the loop of `read()` is one step; the constructor reads the size
field through the same loop, as the code does. A file is its bytes, the place of
the section and the size declared there; the bytes may end before the section
does. `Seekg` stands for `seekg` followed by `clear()`: a file stream's position
moves past the end, an in-memory stream's does not (`SeekPastEnd`). `seek_to_end`
keeps the buffer; a second call throws `std::logic_error` if bytes are buffered.

### EventsSectionWriter and EventTrace

The section is a sequence of fields, one per value written; positions count
fields. This is what `Section` promises, used at the granularity of a field. A diff
is patched when its block closes. `log`, `current`, `starts` and `spoilt` are
history variables: the finished events, the open one, the positions between
events (where `stream_pos()` can be taken for a cache point) and whether some call
threw after it changed something. Calls that are refused before they change
anything are stuttering steps. `ValueTooBig` in the middle of `write_memory`,
`write_register_action` and `start_event_other` is modelled with what it leaves.

The reader takes the fields it expects from the format. Finding another one stands
for decoding bytes as what they are not and ends in `misread`. Each memory or
register write is a step, since it is a callback. `Throw` stands for an exception of a
callback, or of the file's end, in the middle of an event. `Seek` is `TraceReader::seek`
to a position between two events, also after an exception. Users are assumed to seek
before they read on after one: the code would take the rest of the event for a head.

Scaled constants: a count saturates at 2 instead of 0xf (`Full`), a byte at 2
instead of 0xff (`Escape`), so `PhyMax` (the largest address that fits) is 3.
The code uses the limits only through comparisons with them, so three blocks of at
most two elements meet every boundary that sixteen elements do.

### CacheFile

Fields again. A cache point is a count, registers and pages; `index` is the
`std::map` the writer keeps, `written_index` what reached the file. The 16-bit
write of a 32-bit register count wraps at `CountMod` and addresses wrap at
`AddressMod`. `ReadCachePoint` is the reader's function over the written file: it is
`MalformedSection` or a dump.

### TraceFile

The file as sections of fields; the section being written is held apart, because
its size field is 0 and any prefix of its fields may be in the file
(`UnsizedUntilFinalize` and `ImplementsSection` of `SectionWriter` justify it).
`CrashImages` are all files a dying recorder can leave; `Opens` is the constructor
of `TraceReader` from the memory section on. `HasSize` treats a size field decoded
from other bytes as refused. This happens only behind a memory section longer
than its size, which the size comparison has refused before. Magic, version and
machine description precede it, are complete before the constructor of
`TraceWriter` returns, and are left out.

### RegisterOps and TracePrinter

`RegisterOps` has the arithmetic of `process_register_write`: contents of 1, 2, 4
or 8 bytes are computed as one integer, all others byte by byte with a carry. A
byte has `BitsPerByte` bits. Sums over bytes and bits and the powers of two are
recursive functions, so that they can be proved about.

`TracePrinter` is the one user of `TraceReader` in the repository, and so what its
callbacks are checked with. How bytes become events is `EventTrace`'s part; here an
event is the effects it contains, chosen when it is begun, as the trace is
arbitrary. One step is one callback; a memory write larger than the buffer takes
several. `lines` is the output. The reference that `RegistersAsNumbers` and
`LinesTellRegisters` compare with keeps registers as numbers and applies the effects
to them one after the other (`NumbersIn`, `NumbersAfter`); it knows neither bytes nor
carries. `Throw` stands for every exception
of the section reader; a register it leaves half-read is never looked at again,
so `RegistersAsNumbers` says nothing behind an exception.

`context` has 0xffff entries in the code; ids below 0xffff are assumed.

### RandomAccess

`EXTENDS CacheFile`: the recorder's steps are steps of `CacheFile` together with
events between them. The recorder is not in the repository; it follows the comments
of `cache_section_writers.h`: a cache point behind an event, each register
once, the pages modified since the point before, then finish, and it finishes
its points before it finishes the section. The replayer follows those of
`cache_reader.h`: registers from the point `find_closest` returns, every page from
the latest point up to it, initial memory if there is none, then `seek` and
`read_next_event` until the target. `current_event_id` and `position` are two
variables because `seek` sets two. Context n is the one after n events, so the
event behind context n has index n; `ReplayExact` is also what shows that the
library counts the same way on both sides.

### MachineDescription

The writer takes the elements in the order of its maps and stops at the first it
refuses; the section then keeps size 0 and the reader's first read throws. The
reader is given what the writer wrote or any section of `ForeignSection`, in which
ids may be repeated, overlap or refer to nothing. The value of an operation has no
length in the file; taking that of the register when another number of bytes was
written ends in `misread`. `DescriptionRoundTrips` names what the writer lets pass
and the reader refuses: a name used twice, an unknown operator or architecture; and that
the reader returns no description with such a name or architecture. No
comment or document says that the writer must refuse those. `UsableOrRefused`
is what `IdAssumption` of `EventsSectionWriter` and `MachineAssumption` of
`TracePrinter` assume.

## Runs

| run | what it asks | states |
|---|---|---|
| `section_writer` | all properties of the writer, with failures and two sections in one file | 20 thousand |
| `section_reader` | reads, refills and seeks over every truncation of a file | 3 thousand |
| `section_reader_in_memory` | violation: a seek past the end of a truncated in-memory stream | - |
| `event_trace` | framing, continuation, escapes, refused calls, reading from everywhere | 0.9 million |
| `event_refused` | violation: an event after a refused call | - |
| `cache_file` | any order of calls of the cache writer, then reading every point | 130 thousand |
| `cache_page_wrap` | violation: the last page of the address space | - |
| `trace_file` | every crash of a recording, six machines | 300 |
| `trace_initial_registers` | violation: registers left out | - |
| `trace_printer` | operations, chunks and output over arbitrary traces | 115 thousand |
| `random_access` | every placement of cache points, any sequence of targets | 67 thousand |
| `machine_description` | descriptions accepted and refused, foreign sections | 17 thousand |

Bounds and why they suffice:

- `section_writer`: buffer of 2, chunks of 1, 2 and 3 bytes and up to 5 payload
  bytes: chunks that fit, fill and exceed the buffer, patches before, at and
  across the boundary between file and buffer, and (`MaxBefore`) a second section
  behind a sealed one or behind none. Two byte values suffice to see a byte
  in the wrong place, as chunks differ at every position.
- `section_reader`: buffer of 2 and reads of up to 4 need up to three refills;
  file lengths 1 to 9 cut the size field, the payload and nothing; all bytes differ.
- `event_trace`: two events of up to three blocks each; `MaxFields` bounds the
  length of the section at which a call is still made.
- `cache_file`: two registers, counts modulo 4, so a count of six is taken for two.
  Two regions, the second ending inside a page.
- `trace_file`: machines with and without memory and with 0 to 2 registers; up to
  three register writes, so registers are missing and written twice.

- `trace_printer`: bytes of two bits; a register of one byte (native) and one of
  three, whose carry crosses two bytes; a write of five bytes with a buffer of two, one
  that wraps around the address space, one of no bytes; up to two events of two
  effects each, any combination, so that operations follow writes and each other
  within an event and across events.
- `random_access`: three events, each writing any of five sets of two registers and
  two pages, and a point behind any of them: a page may be in the base, in an earlier
  point only, or in none. Targets follow each other in any order.
- `machine_description`: ids from 0 to 0xff scaled to 0..3, addresses of at most two
  bytes, two operators; descriptions that fail each check of the writer, and every
  section of two registers and two operations in any order of ids.

`CHECK_DEADLOCK FALSE` is set everywhere: an object that has thrown in its
constructor or a file that is complete has no next step.

Fairness: `SectionReader` and `EventTrace` assume weak fairness of the steps inside
a call that was begun, because those are iterations of a sequential loop. Nothing
is assumed of the caller. `CallReturns` then says that no read over a truncation of
the instance's file spins, wherever the cut is, and `ReadReturns` that no
`read_next_event` does over what the modelled recorder can leave, refused calls and
the misreadings after them included. Sections of arbitrary bytes are not among them.
`TracePrinter` assumes weak fairness of `start_reading()`, the only loop of a single thread, not of
exceptions; `RandomAccess` assumes that a replayer that was given a target goes on
calling `read_next_event`, and nothing of the recorder or of new requests.

## What disagrees

Four runs show disagreements; `PROJECT.json` quotes the lines.

- `SectionReader::seek` clears the state of the stream and so hides a `seekg` that
  failed; on a truncated in-memory trace, the next read delivers bytes of the
  position before the seek.
- A memory write or register action that is refused with `ValueTooBig` has been
  counted already: if the caller finishes the event, the reader misreads it.
- The check of a page against the memory regions adds the page size in 64 bits:
  the last page of the address space passes for any region starting at or below.
- The format requires all registers to be initialized; the writer finishes a
  trace with registers missing or written twice, which the reader then refuses.

## Proofs

`SectionWriter_proofs` first proves what `Overwrite` does to a sequence (type, length,
elements, the part in front kept, the part written shown) and what `Writes` and
`Seek` do to a stream, whether they fail or not. It then proves, for every buffer size (0 included), size of the size
field, set of chunks and bounds, and for every sequence of calls and failures, that
`TypeOK`, `Positioned`, `EarlierBytesIntact`, `UnsizedUntilFinalize` and
`SealedFrame` are invariants. The assumptions are the named `ASSUME`s of
`SectionWriter` only.

None of these is inductive by itself. That `write_buffer_back_at` leaves the size
field and earlier sections alone needs the put position to be `Start +
total_bytes_flushed` before it; that it is there again afterwards needs the patch
to stay inside the payload, which follows from the counters; and that
`finalize()` hits the size field needs both, with nothing pending. `IInv` is the
conjunction of the invariants with: the put position is in the file, `Base` is; and,
while the section is written, `Held(stream)`. `Held` is stated of any stream value, so
that the two and three stream operations of `WriteDirect` and `PatchFile` are
chained through `WriteHolds` and `SeekHolds`. Each action has its lemma. A stream
that has failed keeps every conjunct because it no longer changes.

TLC found no violation of the additional conjuncts of `IInv` on the instance of
`section_writer` before they were proved.

`ImplementationCorrect` is the refinement `ImplementsSection`: with the bytes of `Section`
read as the payload in the file followed by the buffer, every action of the writer is
`Begin`, `Add`, `Patch`, `Seal` or `Fail`, or a stutter. `IInv` holds on both sides of
the step. The bytes are those of a good stream only, so a flush must be shown to move
bytes from the buffer to the file without changing their sequence, and a patch of two
halves (file and buffer) to be one patch of the sequence.

`SectionReader_proofs` proves, for every set of files (whole or cut anywhere), size of
the buffer and of the size field, and for every sequence of reads, refills and seeks,
that `TypeOK`, `BufferWindow`, `StaysInSection`, `ReadDelivers` and `TruncationExact`
are invariants. The theorems assume `SeekPastEnd`: over an in-memory stream a seek
past the end of a cut file leaves the stream where it was, and
`section_reader_in_memory` shows what is read then. `BufferWindow` alone says nothing
after `seek_to_end()`, which keeps the buffer; `IInv` adds that bytes left then are
none, that a call being served is owed no more than the section has, that what is
buffered is in the file, and how far a call has come. `PassCopies` and `Refill` say
what one pass of the loop copies and gets; `PassDelivers` that the call's bytes, old
and new together, are the file's. The two passes of the loop are the long lemmas,
one conjunct of `IInv` at a time; a step that only begins or refuses a call is
`CallInv`.

`EventTrace_proofs` proves, for every width of the counts, every id and every set of
writes, and for every sequence of the writer's calls, refused ones included, that
`NeverBothFull` is an invariant: no instruction's diff is the pair of bytes that
announces an event of type other. The inductive invariant says that every such pair
is followed by the type; that the diff of the open block, which `write_buffer_back_at`
will overwrite, is an empty one and behind the event count; and that its counts are
below the largest. Counts reach the largest only by finishing the block and opening
a continuation, which is what makes it inductive. What a call appends holds plain
fields only or a whole event of type other (`AppendedHeads`); what finishing a block
changes is one empty diff (`PatchedHeads`). It uses `WidthAssumption`, `IdAssumption`
and `InputAssumption` of `EventsSectionWriter`. The steps of the reader change
nothing the writer has.

`DiffsTruthful` (same module) is `FramingTruthful`: as long as no call threw half-way, no
diff claims an access or a register more or less than follows it, however many blocks an
event is continued in. The invariant `Framing` says that every block but the open one holds
what its diff announces, memory before registers (`Framed`, `CountedIn`), and that the open
one is the last and holds what the object has counted (`OpenCounted`). Each call is one of
three changes: plain fields are appended, fields with a new diff are appended, the open
diff is patched. Cardinalities grow by `FS_AddElement`. `IInv /\ Framing` was checked by
TLC on the instance of `event_trace`.

`EventReading_proofs` proves the reader's properties of the composition: `TypeOK`,
`NeverMisread`, `StandsBetweenEvents`, `CallbacksInOrder`, and the refinement
`ImplementsLog`. The recorder's section is described as the reader goes through it:
a `Path` is a sequence of places, each the position, the block, the counts and the effects
a reader has there, that leads from behind the head of an event to its end and calls back
exactly the effects of the log; `Recorded` says that there is one for every finished
event, between two of `starts`, and `Recording` that there is one for the open event as
far as it was written. A path takes the counts of a closed block from its diff and those
of the open one from the object, so that finishing a block, which moves them from one to
the other, leaves the path as it is. A step of the reader is then a step along a path; a
step of the writer appends behind all paths, extends the open one, or puts a diff in the
place of a diff (`Agrees`). All of it holds while `spoilt` is FALSE: after a call that
threw half-way the reader may misread (`event_refused`). The invariant
`Inductive` quantifies over sequences of places and cannot be evaluated by TLC; the
properties it implies are the ones `event_trace` checks. The refinement maps
the end of an event to `Record`, a call that throws half-way to `Spoil`, the end of a read
to `Read`, its beginning, `Throw` and `Seek` to `Seek`, and all other steps to stutters.
Assumptions: `WidthAssumption`, `IdAssumption`, `InputAssumption` and `BoundAssumption`.

`TraceFile_proofs` proves for every set of machines that `TypeOK`, `NoHalfTraceOpens`,
`OpenedTraceInitialized` and `FinishedTraceOpens` are invariants. The inductive invariant
is the layout of the file at each stage: which fields the finished sections hold and at
which positions their sizes are. A crash image is the finished sections alone, or followed
by a size of 0 and a part of the payload; the lemmas say what the reader's three checks
make of each. That a machine's registers are written once each exactly if there are as
many fields as registers and none is missing is an argument about cardinalities.
Assumption: `MachineAssumption`.

The first part of `RandomAccess_proofs` is about `CacheFile`. It proves, for every machine, page size, width of counts and addresses,
and every sequence of calls, `TypeOK`, `DumpsComprehensive`, `CompletePointsRead`,
`PagesWhereIndexed`, the action property `FinishedPointsStay`, and `PagesInRegions`.
`IInv` says that each finished point is a count, n registers of that context and then no
register (`PointIn`), and that its count is n modulo 2^16; that the open point is the last
one and ends the section until it has a page; and that pages lie where the index says.
The wrapped count is harmless because it is at most n: the reader then looks at registers
of this point only, and as many registers of the machine as it has, none twice, are all of
them (`Comprehensive`, a surjection that is injective). `PagesInRegions` needs the
hypothesis that no page given ends at or behind the end of the address space, since there
the sum wraps; `cache_page_wrap` shows that without it the property is false. TLC checked
`IInv` on the instance of `cache_file`. Assumptions: `MachineAssumption`,
`WidthAssumption`, `InputAssumption`.

The second part proves `ReplayExact` and `ReplaysFromClosest` for every trace, any
placement of cache points and any sequence of requests. Every step of the composition is
a step of `CacheFile` or leaves it unchanged, so its `IInv` is carried along. `AInv` adds
that a finished point has every register once and counts them (`Whole`), which turns the
recorder's `to_write` into a fact about the file; that every page an event wrote is in a
point from that context on or is dirty, and up to a finished point is in one
(`PagesSaved`); and where the replayer came from (`CameFrom`). The core is
`PageContentAt`: between the latest point that has a page and the base no event wrote it,
because a point in between would have it. TLC checked `AInv` on the instance of
`random_access`. `LocationAssumption` is used besides those of `CacheFile`.

`TracePrinter_proofs` proves, for every machine, width of a byte, size of the user's
buffer and of the address space, and every trace, that `TypeOK`, `RegistersAsNumbers`,
`LinesTellRegisters` and `LinesTellMemory` are invariants. It has three parts.

- Arithmetic. `OperationApplied` says that an operation on two buffers of n bytes gives n
  bytes, whose value is what the operation does to the two values as numbers of that
  width. For ADD, byte i of the result and the carry behind it are the remainder and the
  quotient of the same sum, so the numbers of the first i bytes and the carry together
  are the sum of the two operands' first i bytes (`SumOfBytes`); the last carry is what
  the remainder drops. For AND and OR a bit of a value is a bit of one of its bytes
  (`BitOfBuffer`), so both sums go over the same bits (`GateOfBytes`). The values are
  recursive functions: `Recursion` shows, from the well-foundedness of the numbers, that
  such a definition has a solution, for each one needed.
- The reader's place. `Stands` says how many effects of the event are consumed, and how
  many bytes of the next one if it is a write cut into chunks; `Tells` that what has been
  told is the memory of the former and the first bytes of the latter. `RoundOfWrite` shows
  that one round of `process_memory_write` goes from one such place to another: the
  address of the rest is the address of the write plus all that was consumed, modulo
  2^64, although each round adds and wraps on its own (`RemainderInSum`).
- The invariant. `IInv` is: inside of an event there is such a place, the registers hold
  the numbers that the effects consumed so far give (`Holding`), and those to be shown are
  the ones these effects wrote, each once (`Showing`); between events nothing is pending
  to be shown or told; the lines written are right. The properties of the lines are part
  of `IInv`: they refer to events long past, and stay true because a trace only grows.
  TLC checked `IInv` on the instance of `trace_printer`.

Assumptions: `ByteAssumption`, `MachineAssumption` (what `UsableOrRefused` below says of a
description), `BufferAssumption` and `EventAssumption` (what an event can be).

`MachineDescription_proofs` proves `UsableOrRefused` and `DescriptionRoundTrips` for every
set of descriptions, of foreign sections, of names and operators, and every width. That a
`std::map` is iterated by ascending key, each key once, is the first part
(`AscendingEnumerates`). A finite set of numbers has an ascending enumeration, and each
enumeration without repetition meets every element. The inductive invariant says that
what has been written is the part of the description in front of the element that is
next, and what has been read the part of it, or a part of a foreign section that passed
every check so far, in front of the reader's place. Assumptions:
`DescriptionAssumption`, `ForeignAssumption` and `WidthAssumption`.

Only model-checked: the liveness properties (`CallReturns`, `ReadReturns`, `ReadingEnds`,
`RequestReached`), as liveness under fairness and ENABLED are out of the prover's reach.
The other properties of the runs that pass are theorems. No module declares a recursive
operator.

## Not modelled

- Magic numbers, versions, metadata and `binresource`: other repositories.
- The constructor of `CacheReader`: it skips a section, reads the next and goes back,
  with the operations `SectionReader` has. What it makes of a cache whose recorder
  died is decoded from the bytes of cache points, and nothing says what it should be.
- The command line reader's options, `--info` and layout of the output; that an id of
  0xffff is beyond its array.
- A recorder that finishes the cache points section while pages of the open point
  are missing: the library keeps no list to compare with.
- `ExternalSectionTraceWriter`: C++ moves of the stream around a section writer.

## Plan

Written so far, in this order, the most important first: `SectionWriter` (everything
rests on it), `SectionReader`, `EventsSectionWriter` and `EventTrace`; `CacheFile`,
`TraceFile`, `RegisterOps` and `TracePrinter`, `RandomAccess`, `MachineDescription`; each
with its proofs. Left is a cache file as sections: the constructor of `CacheReader`, once
it is decided what it should say of the cache of a recorder that died.
