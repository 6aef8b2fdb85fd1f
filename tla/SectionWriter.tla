---------------------------- MODULE SectionWriter ----------------------------
(***************************************************************************)
(* SectionWriter (src/src/section_writer.cpp): the framed, buffered writer  *)
(* every part of a trace or of a cache file goes through.  A section is a   *)
(* size field followed by that many bytes.  The size is written as 0 by the *)
(* constructor and patched by finalize(); payload bytes wait in             *)
(* stream_buffer_ until they no longer fit; earlier bytes can be replaced,  *)
(* in the file or in the buffer, by write_buffer_back_at().  All file       *)
(* positions are reached by seeks relative to the put position, so          *)
(* everything hangs on the counters agreeing with the stream.               *)
(*                                                                          *)
(* The file holds one section after the other: `before' is what the stream  *)
(* held when the current section was constructed.  Each stream write may    *)
(* fail (device full) after any prefix.  finalize() is split in its stream  *)
(* steps because the process can die between them: every state of `stream'  *)
(* is a file a crash can leave.                                             *)
(***************************************************************************)
EXTENDS Integers, Sequences, ByteStream

CONSTANTS Byte,          \* byte values
          Zero,          \* the byte a fresh stream_buffer_ is filled with
          HdrSize,       \* sizeof(uint64_t) in the code
          BufSize,       \* 4 MiB in the code
          Chunk,         \* the byte strings callers write
          MaxBytes,      \* bound: payload bytes of one section
          MaxBefore      \* bound: length of the file when a section is begun

ASSUME ByteAssumption == Zero \in Byte
ASSUME HdrAssumption == HdrSize \in Nat
ASSUME BufAssumption == BufSize \in Nat
ASSUME ChunkAssumption == Chunk \subseteq Seq(Byte)
ASSUME BoundAssumption == MaxBytes \in Nat /\ MaxBefore \in Nat

VARIABLES stream,                \* [file, put, ok], see ByteStream
          pc,                    \* where the section is in its life
          before,                \* stream.file when the section was begun
          bytes_written,
          total_bytes_flushed,
          bytes_not_flushed,
          stream_buffer

counters == <<bytes_written, total_bytes_flushed, bytes_not_flushed>>
vars == <<stream, pc, before, counters, stream_buffer>>

\* The bytes of a size field: the i-th byte of the encoding of n.  Kept
\* symbolic; only that different sizes have different bytes matters.
SizeBytes(n) == [i \in 1..HdrSize |-> <<n, i>>]
Cell == Byte \union (Nat \X (1..HdrSize))
EmptyBuffer == [i \in 1..BufSize |-> Zero]

-----------------------------------------------------------------------------

Init ==
    /\ stream = [file |-> <<>>, put |-> 0, ok |-> TRUE]
    /\ pc = "none"
    /\ before = <<>>
    /\ bytes_written = 0
    /\ total_bytes_flushed = 0
    /\ bytes_not_flushed = 0
    /\ stream_buffer = EmptyBuffer

\* The buffered bytes.
Pending == SubSeq(stream_buffer, 1, bytes_not_flushed)

\* Mutant: one byte more than the vector has.
LeftTooMuch(unflushed) == BufSize + 1 - unflushed

\* The room behind the unflushed bytes.
LeftInStreamBuffer(unflushed) == BufSize - unflushed

\* The constructor; it throws when the size field cannot be written.
Construct ==
    /\ pc \in {"none", "sealed"}
    /\ Len(stream.file) <= MaxBefore
    /\ before' = stream.file
    /\ stream' \in Writes(stream, SizeBytes(0))
    /\ bytes_written' = 0
    /\ total_bytes_flushed' = 0
    /\ bytes_not_flushed' = 0
    /\ stream_buffer' = EmptyBuffer
    /\ pc' = IF stream'.ok THEN "open" ELSE "failed"

\* write_buffer() of a chunk that fits behind the pending bytes: memcpy.
\* ensure_stream_status() throws when the stream is already bad, after the
\* state has changed.
WriteBuffered(chunk) ==
    /\ Len(chunk) <= LeftInStreamBuffer(bytes_not_flushed)
    /\ stream_buffer' = Overwrite(stream_buffer, bytes_not_flushed, chunk)
    /\ bytes_not_flushed' = bytes_not_flushed + Len(chunk)
    /\ UNCHANGED <<stream, total_bytes_flushed>>

\* write_buffer() of a chunk that does not fit: flush first, ...
WriteFlushed(chunk) ==
    /\ Len(chunk) > LeftInStreamBuffer(bytes_not_flushed)
    /\ Len(chunk) <= LeftInStreamBuffer(0)
    /\ stream' \in Writes(stream, Pending)
    /\ total_bytes_flushed' = total_bytes_flushed + bytes_not_flushed
    /\ stream_buffer' = Overwrite(stream_buffer, 0, chunk)
    /\ bytes_not_flushed' = Len(chunk)

\* Mutant: the large chunk overtakes the pending bytes.
WriteDirectFirst(chunk) ==
    /\ Len(chunk) > LeftInStreamBuffer(bytes_not_flushed)
    /\ Len(chunk) > LeftInStreamBuffer(0)
    /\ \E direct \in Writes(stream, chunk) : stream' \in Writes(direct, Pending)
    /\ total_bytes_flushed' = total_bytes_flushed + bytes_not_flushed + Len(chunk)
    /\ bytes_not_flushed' = 0
    /\ UNCHANGED stream_buffer

\* ... and a chunk larger than the whole buffer goes to the stream directly.
WriteDirect(chunk) ==
    /\ Len(chunk) > LeftInStreamBuffer(bytes_not_flushed)
    /\ Len(chunk) > LeftInStreamBuffer(0)
    /\ \E flushed \in Writes(stream, Pending) : stream' \in Writes(flushed, chunk)
    /\ total_bytes_flushed' = total_bytes_flushed + bytes_not_flushed + Len(chunk)
    /\ bytes_not_flushed' = 0
    /\ UNCHANGED stream_buffer

WriteBuffer(chunk) ==
    /\ pc = "open"
    /\ bytes_written + Len(chunk) <= MaxBytes
    /\ WriteBuffered(chunk) \/ WriteFlushed(chunk) \/ WriteDirect(chunk)
    /\ bytes_written' = bytes_written + Len(chunk)
    /\ UNCHANGED <<pc, before>>

\* Mutant: the pending bytes are not flushed before the seek back, which still
\* counts them.
PatchFileUnflushed(pos, chunk) ==
    /\ pos < total_bytes_flushed
    /\ \E patched \in Writes(Seek(stream, -(bytes_written - pos)), chunk) :
          stream' = Seek(patched, bytes_written - pos - Len(chunk))
    /\ UNCHANGED <<total_bytes_flushed, bytes_not_flushed, stream_buffer>>

\* Mutant: the put position stays behind the patch.
PatchFileNoReturn(pos, chunk) ==
    /\ pos < total_bytes_flushed
    /\ \E flushed \in Writes(stream, Pending) :
          stream' \in Writes(Seek(flushed, -(bytes_written - pos)), chunk)
    /\ total_bytes_flushed' = total_bytes_flushed + bytes_not_flushed
    /\ bytes_not_flushed' = 0
    /\ UNCHANGED stream_buffer

\* write_buffer_back_at() of a position that is already in the file.  A patch
\* that begins in the file and ends in the buffer is made one with the flush.
PatchFile(pos, chunk) ==
    /\ pos < total_bytes_flushed
    /\ \E flushed \in Writes(stream, Pending) :
       \E patched \in Writes(Seek(flushed, -(bytes_written - pos)), chunk) :
          stream' = Seek(patched, bytes_written - pos - Len(chunk))
    /\ total_bytes_flushed' = total_bytes_flushed + bytes_not_flushed
    /\ bytes_not_flushed' = 0
    /\ UNCHANGED stream_buffer

\* write_buffer_back_at() of a position still in the buffer; the stream is
\* not looked at.
PatchBuffer(pos, chunk) ==
    /\ pos >= total_bytes_flushed
    /\ stream_buffer' = Overwrite(stream_buffer, pos - total_bytes_flushed, chunk)
    /\ UNCHANGED <<stream, total_bytes_flushed, bytes_not_flushed>>

\* Callers only patch fields they have written before (event counts, the diff
\* size byte, the register count of a cache point).
WriteBufferBackAt(pos, chunk) ==
    /\ pc = "open"
    /\ pos + Len(chunk) <= bytes_written
    /\ PatchFile(pos, chunk) \/ PatchBuffer(pos, chunk)
    /\ UNCHANGED <<pc, before, bytes_written>>

\* Mutant: finalize() forgets the pending bytes.
FinalizeUnflushed ==
    /\ pc = "open"
    /\ pc' = "flushed"
    /\ UNCHANGED <<stream, before, counters, stream_buffer>>

\* finalize(), in the order of its stream operations.
FinalizeFlush ==
    /\ pc = "open"
    /\ stream' \in Writes(stream, Pending)
    /\ total_bytes_flushed' = total_bytes_flushed + bytes_not_flushed
    /\ bytes_not_flushed' = 0
    /\ pc' = "flushed"
    /\ UNCHANGED <<before, bytes_written, stream_buffer>>

\* Mutant: the seek to the size field stops behind it.
FinalizeSizeShort ==
    /\ pc = "flushed"
    /\ stream' \in Writes(Seek(stream, -bytes_written), SizeBytes(bytes_written))
    /\ pc' = "sized"
    /\ UNCHANGED <<before, counters, stream_buffer>>

FinalizeSize ==
    /\ pc = "flushed"
    /\ stream' \in Writes(Seek(stream, -bytes_written - HdrSize),
                          SizeBytes(bytes_written))
    /\ pc' = "sized"
    /\ UNCHANGED <<before, counters, stream_buffer>>

\* Mutant: finalize() returns without looking at the stream.
FinalizeReturnUnchecked ==
    /\ pc = "sized"
    /\ stream' = Seek(stream, bytes_written)
    /\ pc' = "sealed"
    /\ UNCHANGED <<before, counters, stream_buffer>>

\* The last seek, and the status check that throws if anything failed.
FinalizeReturn ==
    /\ pc = "sized"
    /\ stream' = Seek(stream, bytes_written)
    /\ pc' = IF stream'.ok THEN "sealed" ELSE "failed"
    /\ UNCHANGED <<before, counters, stream_buffer>>

Next ==
    \/ Construct
    \/ \E chunk \in Chunk : WriteBuffer(chunk)
    \/ \E pos \in 0..bytes_written, chunk \in Chunk : WriteBufferBackAt(pos, chunk)
    \/ FinalizeFlush
    \/ FinalizeSize
    \/ FinalizeReturn

Spec == Init /\ [][Next]_vars

-----------------------------------------------------------------------------
\* Positions in the file: the size field starts at Base, the payload at Start.
Base == Len(before)
Start == Base + HdrSize
Writing == pc \in {"open", "flushed", "sized"}

\* The bytes of the section so far: the part in the file, then the pending.
Contents == SubSeq(stream.file, Start + 1, Start + total_bytes_flushed) \o Pending

\* The types of the variables.  That stream_buffer keeps its length says that
\* no memcpy of write_buffer() or write_buffer_back_at() leaves the vector.
TypeOK ==
    /\ stream \in [file : Seq(Cell), put : Nat, ok : BOOLEAN]
    /\ pc \in {"none", "open", "flushed", "sized", "sealed", "failed"}
    /\ before \in Seq(Cell)
    /\ bytes_written \in Nat
    /\ total_bytes_flushed \in Nat
    /\ bytes_not_flushed \in 0..BufSize
    /\ stream_buffer \in Seq(Byte) /\ Len(stream_buffer) = BufSize

\* The counters of the object agree with each other and, while the stream is
\* good, with the stream: the relative seeks of write_buffer_back_at() and of
\* finalize() start from the end of the flushed payload.
Positioned ==
    /\ bytes_written = total_bytes_flushed + bytes_not_flushed
    /\ pc \in {"open", "flushed", "sealed"} /\ stream.ok =>
          /\ Len(stream.file) = Start + total_bytes_flushed
          /\ stream.put = Len(stream.file)

\* No byte of an earlier section, and nothing before the section's size field,
\* is ever changed by the seeks and patches of the current one, whether the
\* stream works or fails.
EarlierBytesIntact == SubSeq(stream.file, 1, Base) = before

\* Crash safety: until finalize() writes the size, a file cut off by a crash
\* shows a size field of 0, so a reader sees an empty section and not a
\* truncated payload as a complete one.
UnsizedUntilFinalize ==
    pc \in {"open", "flushed"} => SubSeq(stream.file, Base + 1, Start) = SizeBytes(0)

\* finalize() returns for no section of which a write failed, also in a flush
\* whose failure the buffered patches after it do not look at.  The size field
\* tells the truth as soon as it is written, and by then the whole payload is
\* in the file; a sealed section ends where the file ends, so the next section
\* starts right behind it.
SealedFrame ==
    /\ pc = "sealed" => stream.ok
    /\ pc \in {"sized", "sealed"} /\ stream.ok =>
          /\ SubSeq(stream.file, Base + 1, Start) = SizeBytes(bytes_written)
          /\ Len(stream.file) = Start + bytes_written
          /\ bytes_not_flushed = 0

-----------------------------------------------------------------------------
(* The writer implements Section: what callers append and patch is what the *)
(* file and the buffer hold together, however it is split between them, and *)
(* a section is sealed only with all of it in the file.  Sealed is what the *)
(* caller of finalize() takes it for, whatever the stream says: a section   *)
(* whose stream has gone bad has failed, and must not become sealed.        *)

AbstractStatus ==
    CASE pc = "none" -> "none"
      [] pc = "sealed" -> "sealed"
      [] pc = "failed" \/ (Writing /\ ~stream.ok) -> "failed"
      [] Writing /\ stream.ok -> "open"

AbstractData == IF AbstractStatus \in {"open", "sealed"} THEN Contents ELSE <<>>

S == INSTANCE Section WITH data <- AbstractData, status <- AbstractStatus

\* Every run of the writer is a run of the abstract section.
ImplementsSection == S!Spec

=============================================================================
